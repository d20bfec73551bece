---------------------------- MODULE Radio_proofs ----------------------------
(***************************************************************************)
(* What the operators of Radio do to a reception channel and to the radio  *)
(* of a node, for every finite set of signals, every assignment of         *)
(* received powers and every capture threshold.  RadioInv is the part of   *)
(* the modules' invariants that concerns one radio; each operator keeps    *)
(* it, so the proofs about the modules cite these lemmas action by action. *)
(***************************************************************************)
EXTENDS Radio, FiniteSetTheorems, TLAPS

\* A set of signals a node may hear.
Audible(S) == IsFiniteSet(S) /\ \A p \in S : RxPr(p) \in Nat

USE CPThreshAssumption DEF Audible

\* Less noise never makes a threshold harder to reach.
LEMMA ScaledNoise ==
  ASSUME NEW t \in Nat, NEW m \in Int, NEW n \in Int, m <= n
  PROVE  t * m <= t * n
  OBVIOUS

\* The list and its counter agree.
Counted(c) == c.num = Cardinality(Active(c))

\* Whatever is in RECEPTION beats the present noise.
Sound(c) == \A p \in Active(c) : c.status[p] = "RECEPTION" => Captures(c, p)

\* The list of arriving packets is finite and holds only signals of S.
LEMMA ActiveIsFinite ==
  ASSUME NEW S, Audible(S), NEW c \in ChannelState(S)
  PROVE  /\ Active(c) \subseteq S
         /\ IsFiniteSet(Active(c))
         /\ c.status \in [Active(c) -> PacketStatus]
<1>1. Active(c) \subseteq S /\ c.status \in [Active(c) -> PacketStatus]
  BY DEF ChannelState, Active
<1> QED
  BY <1>1, FS_Subset

\* An arrival adds one packet and leaves every status up to date.
LEMMA AddNewPacketFacts ==
  ASSUME NEW S, Audible(S), NEW c \in ChannelState(S), NEW p \in S, p \notin Active(c), Counted(c)
  PROVE  /\ AddNewPacket(c, p) \in ChannelState(S)
         /\ Active(AddNewPacket(c, p)) = Active(c) \cup {p}
         /\ Counted(AddNewPacket(c, p))
         /\ Sound(AddNewPacket(c, p))
<1> DEFINE d == AddNewPacket(c, p)
           e == [status |-> [q \in Active(c) \cup {p} |->
                               IF q = p THEN "RECEPTION" ELSE c.status[q]],
                 num |-> c.num + 1, total |-> c.total + RxPr(p)]
<1>1. Active(c) \cup {p} \subseteq S /\ IsFiniteSet(Active(c))
  BY ActiveIsFinite
<1>2. c.num \in Nat /\ c.total \in Int /\ RxPr(p) \in Int
  BY DEF ChannelState
<1>3. Active(e) = Active(c) \cup {p} /\ e.num = c.num + 1 /\ e.total = c.total + RxPr(p)
  BY DEF Active
<1>4. d = [status |-> [q \in Active(e) |->
                         IF Captures(e, q) THEN "RECEPTION" ELSE "COLLISION"],
           num |-> e.num, total |-> e.total]
  BY DEF AddNewPacket, UpdatePacketStatus
<1> HIDE DEF d, e
<1>5. /\ Active(d) = Active(c) \cup {p}
      /\ d.num = c.num + 1 /\ d.total = e.total
      /\ \A q \in Active(d) : d.status[q] = IF Captures(e, q) THEN "RECEPTION" ELSE "COLLISION"
  BY <1>3, <1>4 DEF Active
<1>6. d \in ChannelState(S)
  BY <1>1, <1>2, <1>3, <1>4 DEF ChannelState, PacketStatus
<1>7. Cardinality(Active(d)) = Cardinality(Active(c)) + 1
  BY <1>1, <1>5, FS_AddElement
<1>8. Counted(d)
  BY <1>5, <1>7 DEF Counted
<1>9. Sound(d)
  BY <1>5 DEF Sound, Captures, Noise
<1> QED
  BY <1>5, <1>6, <1>8, <1>9 DEF d

\* A departure removes one packet and only lowers the noise of the others.
LEMMA DeleteIncommingPacketFacts ==
  ASSUME NEW S, Audible(S), NEW c \in ChannelState(S), NEW p \in Active(c), Counted(c)
  PROVE  /\ DeleteIncommingPacket(c, p) \in ChannelState(S)
         /\ Active(DeleteIncommingPacket(c, p)) = Active(c) \ {p}
         /\ \A q \in Active(c) \ {p} : DeleteIncommingPacket(c, p).status[q] = c.status[q]
         /\ Counted(DeleteIncommingPacket(c, p))
         /\ Sound(c) => Sound(DeleteIncommingPacket(c, p))
<1> DEFINE d == DeleteIncommingPacket(c, p)
<1>1. /\ Active(c) \subseteq S /\ IsFiniteSet(Active(c))
      /\ c.status \in [Active(c) -> PacketStatus]
  BY ActiveIsFinite
<1>2. c.num \in Nat /\ c.total \in Int /\ RxPr(p) \in Nat
  BY <1>1 DEF ChannelState
<1>3. d = [status |-> [q \in Active(c) \ {p} |-> c.status[q]],
           num |-> c.num - 1, total |-> c.total - RxPr(p)]
  BY DEF DeleteIncommingPacket
<1> HIDE DEF d
<1>4. /\ Active(d) = Active(c) \ {p}
      /\ d.num = c.num - 1 /\ d.total = c.total - RxPr(p)
      /\ \A q \in Active(c) \ {p} : d.status[q] = c.status[q]
  BY <1>3 DEF Active
<1>5. Cardinality(Active(d)) = Cardinality(Active(c)) - 1
  BY <1>1, <1>4, FS_RemoveElement
<1>6. Cardinality(Active(d)) \in Nat
  BY <1>1, <1>4, FS_RemoveElement, FS_CardinalityType
<1>7. Counted(d) /\ d.num \in Nat
  BY <1>4, <1>5, <1>6 DEF Counted
<1>8. d \in ChannelState(S)
  <2>1. [q \in Active(c) \ {p} |-> c.status[q]] \in [Active(c) \ {p} -> PacketStatus]
    BY <1>1
  <2>2. c.total - RxPr(p) \in Int /\ c.num - 1 \in Nat
    BY <1>2, <1>4, <1>7
  <2> QED
    BY <2>1, <2>2, <1>1, <1>3 DEF ChannelState
<1>9. ASSUME Sound(c), NEW q \in Active(d), d.status[q] = "RECEPTION"
      PROVE  Captures(d, q)
  <2>1. q \in Active(c) /\ RxPr(q) \in Nat /\ c.status[q] = "RECEPTION"
    BY <1>1, <1>4, <1>9
  <2>2. RxPr(q) >= CPThresh * Noise(c, q)
    BY <2>1, <1>9 DEF Sound, Captures
  <2>3. Noise(d, q) <= Noise(c, q) /\ Noise(d, q) \in Int /\ Noise(c, q) \in Int
    BY <2>1, <1>2, <1>4 DEF Noise
  <2>4. CPThresh * Noise(d, q) <= CPThresh * Noise(c, q)
    BY <2>3, ScaledNoise
  <2>5. CPThresh * Noise(d, q) \in Int /\ CPThresh * Noise(c, q) \in Int
    BY <2>3
  <2> QED
    BY <2>1, <2>2, <2>4, <2>5 DEF Captures
<1>10. Sound(c) => Sound(d)
  BY <1>9 DEF Sound
<1> QED
  BY <1>4, <1>7, <1>8, <1>10 DEF d

\* Invalidation keeps the list and its counter and leaves nothing decodable.
LEMMA InvalidateFacts ==
  ASSUME NEW S, Audible(S), NEW c \in ChannelState(S)
  PROVE  /\ InvalidateIncommingPacket(c) \in ChannelState(S)
         /\ Active(InvalidateIncommingPacket(c)) = Active(c)
         /\ InvalidateIncommingPacket(c).num = c.num
         /\ \A p \in Active(c) : InvalidateIncommingPacket(c).status[p] = "INVALID"
<1>1. Active(c) \subseteq S
  BY ActiveIsFinite
<1>2. c.num \in Nat /\ c.total \in Int
  BY DEF ChannelState
<1>3. [p \in Active(c) |-> "INVALID"] \in [Active(c) -> PacketStatus]
  BY DEF PacketStatus
<1> QED
  BY <1>1, <1>2, <1>3 DEF InvalidateIncommingPacket, ChannelState, Active
----------------------------------------------------------------------------
\* One radio: the list, the counter, the carrier flag and the status agree,
\* and what may be decoded beats the noise.
RadioInv(S, r) ==
  /\ r \in RadioState(S)
  /\ Counted(r.chan)
  /\ Sound(r.chan)
  /\ r.carrier <=> Active(r.chan) # {}
  /\ r.trans = "RECV" => Active(r.chan) # {}
  /\ r.trans = "SLEEP" => \A p \in Active(r.chan) : r.chan.status[p] = "INVALID"

\* An idle radio has an empty list.
LEMMA InitRadioFacts ==
  ASSUME NEW S, Audible(S)
  PROVE  RadioInv(S, InitRadio) /\ Active(InitRadio.chan) = {}
<1>1. EmptyChannel \in ChannelState(S) /\ Active(EmptyChannel) = {}
  <2>1. [p \in {} |-> "INVALID"] \in UNION {[T -> PacketStatus] : T \in SUBSET S}
    <3>1. {} \in SUBSET S
      OBVIOUS
    <3>2. [p \in {} |-> "INVALID"] \in [{} -> PacketStatus]
      OBVIOUS
    <3> HIDE DEF PacketStatus
    <3> QED
      BY <3>1, <3>2, Zenon
  <2>2. EmptyChannel \in ChannelState(S)
    <3> DEFINE f == [p \in {} |-> "INVALID"]
               U == UNION {[T -> PacketStatus] : T \in SUBSET S}
    <3>1. f \in U
      BY <2>1
    <3> HIDE DEF f, U
    <3>2. [status |-> f, num |-> 0, total |-> 0] \in [status : U, num : Nat, total : Int]
      BY <3>1
    <3> QED
      BY <3>2 DEF EmptyChannel, ChannelState, f, U
  <2>3. Active(EmptyChannel) = {}
    BY DEF EmptyChannel, Active
  <2> QED
    BY <2>2, <2>3
<1>2. Counted(EmptyChannel)
  BY <1>1, FS_EmptySet DEF Counted, EmptyChannel
<1> QED
  BY <1>1, <1>2 DEF RadioInv, InitRadio, RadioState, TransmissionStatus, Sound

\* The counter is zero exactly when the list is empty.
LEMMA NumIsZero ==
  ASSUME NEW S, Audible(S), NEW c \in ChannelState(S), Counted(c)
  PROVE  c.num = 0 <=> Active(c) = {}
BY ActiveIsFinite, FS_EmptySet DEF Counted

\* recv adds the packet and keeps counter, flag, status and capture right.
LEMMA RecvUpFacts ==
  ASSUME NEW S, Audible(S), NEW r, RadioInv(S, r), NEW p \in S, p \notin Active(r.chan)
  PROVE  RadioInv(S, RecvUp(r, p)) /\ Active(RecvUp(r, p).chan) = Active(r.chan) \cup {p}
<1>1. r.chan \in ChannelState(S) /\ Counted(r.chan)
  BY DEF RadioInv, RadioState
<1> QED
  BY <1>1, AddNewPacketFacts DEF RadioInv, RadioState, RecvUp, TransmissionStatus

\* IncommingChannelProcess as a whole.
LEMMA EndReceptionFacts ==
  ASSUME NEW S, Audible(S), NEW r, RadioInv(S, r), NEW p \in Active(r.chan)
  PROVE  /\ RadioInv(S, ResetCarrierSense(EndReception(r, p)))
         /\ Active(ResetCarrierSense(EndReception(r, p)).chan) = Active(r.chan) \ {p}
         /\ ResetCarrierSense(EndReception(r, p)).trans =
              IF r.trans = "RECV" /\ Active(r.chan) = {p} THEN "IDLE" ELSE r.trans
<1> DEFINE d == DeleteIncommingPacket(r.chan, p)
<1>1. r.chan \in ChannelState(S) /\ Counted(r.chan) /\ Sound(r.chan) /\ r \in RadioState(S)
  BY DEF RadioInv, RadioState
<1>2. /\ d \in ChannelState(S) /\ Active(d) = Active(r.chan) \ {p}
      /\ Counted(d) /\ Sound(d)
      /\ \A q \in Active(d) : d.status[q] = r.chan.status[q]
  BY <1>1, DeleteIncommingPacketFacts
<1>3. d.num = 0 <=> Active(d) = {}
  BY <1>2, NumIsZero
<1> HIDE DEF d
<1>4. CASE Active(d) = {}
  <2>1. ResetCarrierSense(EndReception(r, p)) =
          [chan |-> d, trans |-> IF r.trans = "RECV" THEN "IDLE" ELSE r.trans,
           carrier |-> FALSE]
    BY <1>1, <1>3, <1>4
    DEF ResetCarrierSense, EndReception, ResetTransmissionStatus, RadioState, d
  <2> QED
    BY <1>1, <1>2, <1>4, <2>1 DEF RadioInv, RadioState, TransmissionStatus
<1>5. CASE Active(d) # {}
  <2>1. ResetCarrierSense(EndReception(r, p)) =
          [chan |-> d, trans |-> r.trans, carrier |-> r.carrier]
    BY <1>1, <1>3, <1>5
    DEF ResetCarrierSense, EndReception, ResetTransmissionStatus, RadioState, d
  <2> QED
    BY <1>1, <1>2, <1>5, <2>1 DEF RadioInv, RadioState
<1> QED
  BY <1>4, <1>5

\* What else is on the list keeps its status when a reception ends.
LEMMA EndReceptionKeepsStatus ==
  ASSUME NEW S, Audible(S), NEW r, RadioInv(S, r), NEW p \in Active(r.chan)
  PROVE  \A q \in Active(r.chan) \ {p} :
           ResetCarrierSense(EndReception(r, p)).chan.status[q] = r.chan.status[q]
<1> DEFINE d == DeleteIncommingPacket(r.chan, p)
<1>1. r.chan \in ChannelState(S) /\ Counted(r.chan) /\ Sound(r.chan) /\ r \in RadioState(S)
  BY DEF RadioInv, RadioState
<1>2. Active(d) = Active(r.chan) \ {p} /\ \A q \in Active(d) : d.status[q] = r.chan.status[q]
  BY <1>1, DeleteIncommingPacketFacts
<1> HIDE DEF d
<1>3. EndReception(r, p) \in [chan : {d}, trans : TransmissionStatus, carrier : BOOLEAN]
  BY <1>1 DEF EndReception, ResetTransmissionStatus, RadioState, TransmissionStatus, d
<1>4. ResetCarrierSense(EndReception(r, p)).chan = d
  BY <1>3 DEF ResetCarrierSense
<1> QED
  BY <1>2, <1>4

\* Poweron, the start and the end of a transmission: only the status changes.
LEMMA SetStatusFacts ==
  ASSUME NEW S, Audible(S), NEW r, RadioInv(S, r), NEW t \in {"IDLE", "SEND"}
  PROVE  /\ RadioInv(S, [r EXCEPT !.trans = t])
         /\ [r EXCEPT !.trans = t].chan = r.chan
<1>1. r \in RadioState(S)
  BY DEF RadioInv
<1>2. [r EXCEPT !.trans = t] = [chan |-> r.chan, trans |-> t, carrier |-> r.carrier]
  BY <1>1 DEF RadioState
<1> QED
  BY <1>1, <1>2 DEF RadioInv, RadioState, TransmissionStatus

\* Poweroff keeps the list and leaves nothing decodable.
LEMMA PoweroffFacts ==
  ASSUME NEW S, Audible(S), NEW r, RadioInv(S, r)
  PROVE  /\ RadioInv(S, Poweroff(r)) /\ Active(Poweroff(r).chan) = Active(r.chan)
         /\ Poweroff(r).trans = "SLEEP"
<1>1. r \in RadioState(S) /\ r.chan \in ChannelState(S)
  BY DEF RadioInv, RadioState
<1> DEFINE d == InvalidateIncommingPacket(r.chan)
<1>2. /\ d \in ChannelState(S) /\ Active(d) = Active(r.chan) /\ d.num = r.chan.num
      /\ \A p \in Active(d) : d.status[p] = "INVALID"
  BY <1>1, InvalidateFacts
<1> HIDE DEF d
<1>3. Poweroff(r) = [chan |-> d, trans |-> "SLEEP", carrier |-> r.carrier]
  BY <1>1 DEF Poweroff, RadioState, d
<1>4. Counted(d) /\ Sound(d)
  BY <1>2 DEF RadioInv, Counted, Sound
<1> QED
  BY <1>1, <1>2, <1>3, <1>4 DEF RadioInv, RadioState, TransmissionStatus

\* The radio of a node sees only the signals that are on its channel.
LEMMA RadioInvNarrow ==
  ASSUME NEW S, Audible(S), NEW T, NEW r, RadioInv(S, r), Active(r.chan) \subseteq T
  PROVE  RadioInv(T, r)
<1>1. r \in RadioState(S) /\ r.chan \in ChannelState(S)
  BY DEF RadioInv, RadioState
<1>2. r.chan.status \in [Active(r.chan) -> PacketStatus]
  BY <1>1, ActiveIsFinite
<1>3. r.chan \in ChannelState(T)
  BY <1>1, <1>2 DEF ChannelState
<1>4. r \in RadioState(T)
  BY <1>1, <1>3 DEF RadioState
<1> QED
  BY <1>4 DEF RadioInv
=============================================================================
