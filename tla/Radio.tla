------------------------------- MODULE Radio -------------------------------
(***************************************************************************)
(* The reception side of one underwater node, as operators on a record:    *)
(* the IncommingChannel list of uw_mac/underwatermac.cc (every signal now  *)
(* arriving, with its PacketStatus), the TransmissionStatus of the node    *)
(* and its carrier-sense flag.  UnderwaterMac runs it on its own; the MAC  *)
(* protocols give every node such a record and add their own state.        *)
(*                                                                         *)
(* A signal is named by whatever tells apart the signals that overlap at   *)
(* one receiver: a packet, or the node that sends it.  Received powers are *)
(* integers and sums are exact, so the tests of UpdatePacketStatus that    *)
(* absorb floating-point residue (noise below 1e-8, a signal stronger than *)
(* the total) only ever mean "no noise".                                   *)
(***************************************************************************)
EXTENDS Integers

CONSTANTS RxPr(_),   \* txinfo_.RxPr, the power a signal arrives with
          CPThresh   \* txinfo_.CPThresh, the capture threshold

ASSUME CPThreshAssumption == CPThresh \in Nat \ {0}

PacketStatus == {"RECEPTION", "COLLISION", "INVALID"}
TransmissionStatus == {"SLEEP", "IDLE", "SEND", "RECV"}

----------------------------------------------------------------------------
(* class IncommingChannel *)

\* Every list of signals of S.
ChannelState(S) ==
  [status : UNION {[T -> PacketStatus] : T \in SUBSET S}, num : Nat, total : Int]

EmptyChannel == [status |-> [p \in {} |-> "INVALID"], num |-> 0, total |-> 0]

Active(c) == DOMAIN c.status

\* The power p has to beat: everything else that is on the channel.
Noise(c, p) == c.total - RxPr(p)

Captures(c, p) == RxPr(p) >= CPThresh * Noise(c, p)

\* Mutant: the packets that are already there keep their status.
KeepPacketStatus(c) == c

UpdatePacketStatus(c) ==
  [status |-> [p \in Active(c) |-> IF Captures(c, p) THEN "RECEPTION" ELSE "COLLISION"],
   num    |-> c.num,
   total  |-> c.total]

\* Mutant: the counter is not raised.
AddUncounted(c, p) ==
  UpdatePacketStatus(
    [status |-> [q \in Active(c) \cup {p} |->
                   IF q = p THEN "RECEPTION" ELSE c.status[q]],
     num    |-> c.num,
     total  |-> c.total + RxPr(p)])

AddNewPacket(c, p) ==
  UpdatePacketStatus(
    [status |-> [q \in Active(c) \cup {p} |->
                   IF q = p THEN "RECEPTION" ELSE c.status[q]],
     num    |-> c.num + 1,
     total  |-> c.total + RxPr(p)])

\* Mutant: the loop over the rest of the list never finds the packet.
DeleteNothing(c, p) == c

DeleteIncommingPacket(c, p) ==
  [status |-> [q \in Active(c) \ {p} |-> c.status[q]],
   num    |-> c.num - 1,
   total  |-> c.total - RxPr(p)]

InvalidateIncommingPacket(c) ==
  [status |-> [p \in Active(c) |-> "INVALID"], num |-> c.num, total |-> c.total]

----------------------------------------------------------------------------
(* class UnderwaterMac: what it does to the channel and to the node *)

RadioState(S) ==
  [chan : ChannelState(S), trans : TransmissionStatus, carrier : BOOLEAN]

InitRadio == [chan |-> EmptyChannel, trans |-> "IDLE", carrier |-> FALSE]

\* recv(), direction UP: the head of a signal has reached the node.
RecvUp(r, p) ==
  [chan |-> AddNewPacket(r.chan, p), trans |-> "RECV", carrier |-> TRUE]

\* Mutant: nobody leaves RECV.
ResetNothing(r) == r

ResetTransmissionStatus(r) ==
  IF r.chan.num = 0 /\ r.trans = "RECV" THEN [r EXCEPT !.trans = "IDLE"] ELSE r

\* The part of IncommingChannelProcess that frees the channel; RecvProcess
\* runs after it and before the carrier flag is lowered.
EndReception(r, p) ==
  ResetTransmissionStatus([r EXCEPT !.chan = DeleteIncommingPacket(r.chan, p)])

ResetCarrierSense(r) ==
  IF r.chan.num = 0 THEN [r EXCEPT !.carrier = FALSE] ELSE r

Poweron(r) == [r EXCEPT !.trans = "IDLE"]

\* Mutant: what is arriving is not invalidated.
PoweroffKeepingChannel(r) == [r EXCEPT !.trans = "SLEEP"]

Poweroff(r) ==
  [chan |-> InvalidateIncommingPacket(r.chan), trans |-> "SLEEP", carrier |-> r.carrier]

\* The status is set before it is tested, so the branch that would invalidate
\* the incoming packets is never taken.
InterruptRecv(r) ==
  LET sending == [r EXCEPT !.trans = "SEND"]
  IN  IF sending.trans = "RECV"
        THEN [sending EXCEPT !.chan = InvalidateIncommingPacket(r.chan)]
        ELSE sending

\* The status a signal is handed to RecvProcess with is an error unless it
\* is RECEPTION.
Decodable(r, p) == r.chan.status[p] = "RECEPTION"
=============================================================================
