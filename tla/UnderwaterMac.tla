--------------------------- MODULE UnderwaterMac ---------------------------
(***************************************************************************)
(* One node of uw_mac: UnderwaterMac over UnderwaterPhy, under a MAC that  *)
(* switches its radio off to save energy (TMac, RMac).  The environment    *)
(* lets every packet of Packets arrive once, at any time, so receptions    *)
(* overlap in every way, with transmissions, with power changes, with the  *)
(* node failing and with its battery running out.                          *)
(*                                                                         *)
(* Time is abstract: a reception or a transmission ends at some later      *)
(* step, which stands for every choice of txtime.                          *)
(***************************************************************************)
EXTENDS Radio, FiniteSets

CONSTANTS Packets,   \* the signals that will reach this node
          RXThresh   \* below it a signal is sensed and dropped

ASSUME PacketsAssumption == IsFiniteSet(Packets) /\ \A p \in Packets : RxPr(p) \in Nat
ASSUME RXThreshAssumption == RXThresh \in Nat

VARIABLES
  radio,        \* the reception channel and the node's status
  statusEvent,  \* status_event: "none", or the status_ it will set
  energy,       \* em()->energy() > 0
  failed,       \* failure_status_ of the node
  pktError,     \* packets whose hdr_cmn::error() is 1
  fate,         \* where each packet is in its life
  interrupted,  \* history: packets still arriving that were there at an InterruptRecv
  cut,          \* history: packets still arriving that were there when the radio was
                \* switched off, as long as no other packet is accepted
  switched,     \* history: the power was switched since status_event was scheduled
  aborted       \* Scheduler::schedule met an event that was already pending

vars ==
  <<radio, statusEvent, energy, failed, pktError, fate,
    interrupted, cut, switched, aborted>>

Fate == {"air", "dropped", "arriving", "ok", "error"}

Init ==
  /\ radio = InitRadio
  /\ statusEvent = "none"
  /\ energy = TRUE
  /\ failed = FALSE
  /\ pktError = {}
  /\ fate = [p \in Packets |-> "air"]
  /\ interrupted = {}
  /\ cut = {}
  /\ switched = FALSE
  /\ aborted = FALSE

\* An accounting step leaves the battery as it is or drains it.
Consume == energy' \in {energy, FALSE}

----------------------------------------------------------------------------
(* UnderwaterPhy::sendUp, then UnderwaterMac::recv with direction UP *)

Deaf == failed \/ radio.trans \in {"SEND", "SLEEP"} \/ ~energy

\* The node is failed, sending, asleep or out of energy.
ArriveDeaf(p) ==
  /\ ~aborted
  /\ fate[p] = "air"
  /\ Deaf
  /\ fate' = [fate EXCEPT ![p] = "dropped"]
  /\ UNCHANGED <<radio, statusEvent, energy, failed, pktError, interrupted, cut, switched,
                 aborted>>

\* Sensed, paid for and too weak to be received.
ArriveWeak(p) ==
  /\ ~aborted
  /\ fate[p] = "air"
  /\ ~Deaf
  /\ RxPr(p) < RXThresh
  /\ Consume
  /\ fate' = [fate EXCEPT ![p] = "dropped"]
  /\ UNCHANGED <<radio, statusEvent, failed, pktError, interrupted, cut, switched, aborted>>

\* The modulation or the bit error rate decides error(); it overwrites what
\* failure_pro_ has put there a few lines before.
Arrive(p, byChannel) ==
  /\ ~aborted
  /\ fate[p] = "air"
  /\ ~Deaf
  /\ RxPr(p) >= RXThresh
  /\ Consume
  /\ pktError' = IF byChannel THEN pktError \cup {p} ELSE pktError
  /\ radio' = RecvUp(radio, p)
  /\ fate' = [fate EXCEPT ![p] = "arriving"]
  /\ cut' = {}
  /\ UNCHANGED <<statusEvent, failed, interrupted, switched, aborted>>

IncommingChannelProcess(p) ==
  /\ ~aborted
  /\ p \in Active(radio.chan)
  /\ radio' = ResetCarrierSense(EndReception(radio, p))
  /\ fate' = [fate EXCEPT ![p] = IF Decodable(radio, p) /\ p \notin pktError
                                   THEN "ok" ELSE "error"]
  /\ interrupted' = interrupted \ {p}
  /\ cut' = cut \ {p}
  /\ UNCHANGED <<statusEvent, energy, failed, pktError, switched, aborted>>

\* Mutant: the branch for INVALID packets is missing.
HandleDecided(p) ==
  /\ p \in Active(radio.chan)
  /\ radio.chan.status[p] # "INVALID"
  /\ IncommingChannelProcess(p)

\* RecvHandler::handle, the event scheduled when p was accepted.
RecvHandler(p) == IncommingChannelProcess(p)

----------------------------------------------------------------------------
(* The MAC above: TMac::TxACKData and TMac::TxData, RMac::TxACKRev *)

\* status_event is one object: scheduling it twice aborts the simulator.
ScheduleStatus(state) ==
  /\ statusEvent' = state
  /\ aborted' = (statusEvent # "none")

\* After the acknowledgement a node that was asleep goes back to sleep.
TxAsleep ==
  /\ ~aborted
  /\ radio.trans = "SLEEP"
  /\ radio' = [Poweron(radio) EXCEPT !.trans = "SEND"]
  /\ ScheduleStatus("SLEEP")
  /\ Consume
  /\ UNCHANGED <<failed, pktError, fate, interrupted, cut, switched>>

TxIdle ==
  /\ ~aborted
  /\ radio.trans = "IDLE"
  /\ radio' = [radio EXCEPT !.trans = "SEND"]
  /\ ScheduleStatus("IDLE")
  /\ Consume
  /\ UNCHANGED <<failed, pktError, fate, interrupted, cut, switched>>

\* Sending takes precedence over what is being received.
TxInterrupt ==
  /\ ~aborted
  /\ radio.trans = "RECV"
  /\ radio' = InterruptRecv(radio)
  /\ interrupted' = interrupted \cup Active(radio.chan)
  /\ ScheduleStatus("IDLE")
  /\ Consume
  /\ UNCHANGED <<failed, pktError, fate, cut, switched>>

\* TStatusHandler::handle: power off, or StatusProcess unless asleep.
StatusHandler ==
  /\ ~aborted
  /\ statusEvent # "none"
  /\ radio' = CASE statusEvent = "SLEEP" -> Poweroff(radio)
                [] statusEvent = "IDLE" /\ radio.trans = "SLEEP" -> radio
                [] OTHER -> [radio EXCEPT !.trans = statusEvent]
  /\ statusEvent' = "none"
  /\ cut' = IF statusEvent = "SLEEP" THEN Active(radio.chan) ELSE cut
  /\ switched' = FALSE
  /\ UNCHANGED <<energy, failed, pktError, fate, interrupted, aborted>>

Wakeup ==
  /\ ~aborted
  /\ radio' = Poweron(radio)
  /\ Consume
  /\ switched' = (switched \/ statusEvent # "none")
  /\ UNCHANGED <<statusEvent, failed, pktError, fate, interrupted, cut, aborted>>

ProcessSleep ==
  /\ ~aborted
  /\ radio' = Poweroff(radio)
  /\ Consume
  /\ cut' = Active(radio.chan)
  /\ switched' = (switched \/ statusEvent # "none")
  /\ UNCHANGED <<statusEvent, failed, pktError, fate, interrupted, aborted>>

\* The failure-status commands of UnderwaterSensorNode.
SetFailureStatus ==
  /\ ~aborted
  /\ failed' = ~failed
  /\ UNCHANGED <<radio, statusEvent, energy, pktError, fate, interrupted, cut, switched, aborted>>

----------------------------------------------------------------------------
Next ==
  \/ \E p \in Packets : ArriveDeaf(p) \/ ArriveWeak(p)
  \/ \E p \in Packets, byChannel \in BOOLEAN : Arrive(p, byChannel)
  \/ \E p \in Packets : RecvHandler(p)
  \/ TxAsleep \/ TxIdle \/ TxInterrupt
  \/ StatusHandler \/ Wakeup \/ ProcessSleep \/ SetFailureStatus

Spec == Init /\ [][Next]_vars

\* The NS-2 scheduler runs every recv_handler event that was scheduled.
FairSpec == Spec /\ \A p \in Packets : WF_vars(RecvHandler(p))

----------------------------------------------------------------------------
(* Properties *)

\* The type of every variable: in particular the counter of incoming packets
\* (IncommingChannel::num_of_active_incomming_packet) never goes below zero.
TypeOK ==
  /\ radio \in RadioState(Packets)
  /\ statusEvent \in {"none", "IDLE", "SLEEP"}
  /\ energy \in BOOLEAN /\ failed \in BOOLEAN /\ switched \in BOOLEAN /\ aborted \in BOOLEAN
  /\ fate \in [Packets -> Fate]
  /\ pktError \subseteq Packets /\ interrupted \subseteq Packets /\ cut \subseteq Packets

\* A packet keeps the status RECEPTION only while its power still beats
\* everything else on the channel: UpdatePacketStatus has to revisit every
\* packet at every arrival, and departures and power-offs may not undo that.
ReceptionMeansCapture ==
  \A p \in Active(radio.chan) :
    radio.chan.status[p] = "RECEPTION" => Captures(radio.chan, p)

\* The counter and the carrier flag agree with the list, and a node is in
\* RECV only if something is still arriving: no sequence of receptions,
\* interruptions and power changes leaves it listening to nothing.
ChannelBookkeeping ==
  /\ radio.chan.num = Cardinality(Active(radio.chan))
  /\ radio.carrier <=> Active(radio.chan) # {}
  /\ radio.trans = "RECV" => Active(radio.chan) # {}

\* What was arriving when the radio was switched off is not handed up as received,
\* even if the node is awake again before its last bit.  Only a packet that is accepted
\* in between changes that: UpdatePacketStatus then judges INVALID packets by their
\* power like all others.
SleepStopsReception == [][\A p \in cut : fate'[p] # "ok"]_vars

\* A packet is on the channel from the moment the physical layer accepts it
\* until it is handed to RecvProcess, exactly once.
ArrivingIsOnChannel ==
  \A p \in Packets : fate[p] = "arriving" <=> p \in Active(radio.chan)

\* Every accepted packet is handed up, whatever happens to the node meanwhile.  The
\* simulator may abort before that, but only if the power was switched during a
\* transmission: status_event is then pending although the radio is free to send.
AcceptedIsHandedUp ==
  \A p \in Packets :
    fate[p] = "arriving" ~> (fate[p] \in {"ok", "error"} \/ (aborted /\ switched))

\* underwatermac.h:88 and underwaterphy.cc:442: the node is half-duplex, and
\* sending stops the receptions that are under way.
InterruptStopsReception == [][\A p \in interrupted : fate'[p] # "ok"]_vars
=============================================================================
