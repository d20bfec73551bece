------------------------ MODULE UnderwaterMac_proofs ------------------------
(***************************************************************************)
(* Proofs about UnderwaterMac for every set of packets, every assignment   *)
(* of received powers and every threshold.  The invariants of the safety   *)
(* run are inductive together: a packet may only be added to the list once *)
(* (ArrivingIsOnChannel) for the counter to be right, and the counter has  *)
(* to be right for the status and the carrier flag to be reset in time.    *)
(* What was cut off stays INVALID, and a pending status event means SEND   *)
(* until the power is switched.                                            *)
(***************************************************************************)
EXTENDS UnderwaterMac, Radio_proofs

USE PacketsAssumption, RXThreshAssumption

\* A packet that was cut off is on the list, and INVALID.
CutIsInvalid ==
  \A p \in cut : p \in Active(radio.chan) /\ radio.chan.status[p] = "INVALID"

\* The simulator aborts only if the power was switched during a transmission.
AbortNeedsPowerChange == aborted => switched

\* While status_event is pending the radio sends, unless its power was switched.
PendingWhileSending ==
  statusEvent # "none" => radio.trans = "SEND" \/ switched

IInv ==
  /\ TypeOK
  /\ RadioInv(Packets, radio)
  /\ ArrivingIsOnChannel
  /\ CutIsInvalid
  /\ AbortNeedsPowerChange
  /\ PendingWhileSending

\* The packets are finitely many and have powers.
LEMMA PacketsAudible == Audible(Packets)
  BY DEF Audible

\* The two properties of the radio are parts of its invariant.
LEMMA RadioInvMeans ==
  ASSUME RadioInv(Packets, radio)
  PROVE  ReceptionMeansCapture /\ ChannelBookkeeping
BY DEF RadioInv, Counted, Sound, ReceptionMeansCapture, ChannelBookkeeping

\* The initial states satisfy the invariant.
LEMMA InitIInv == Init => IInv
<1> SUFFICES ASSUME Init PROVE IInv
  OBVIOUS
<1>1. RadioInv(Packets, radio) /\ Active(radio.chan) = {}
  BY PacketsAudible, InitRadioFacts DEF Init
<1>2. TypeOK
  BY <1>1 DEF Init, TypeOK, RadioInv, Fate
<1>3. ArrivingIsOnChannel
  BY <1>1 DEF Init, ArrivingIsOnChannel
<1>4. CutIsInvalid /\ AbortNeedsPowerChange /\ PendingWhileSending
  BY DEF Init, CutIsInvalid, AbortNeedsPowerChange, PendingWhileSending
<1> QED
  BY <1>1, <1>2, <1>3, <1>4 DEF IInv

\* Actions that change the status of the node and nothing on the channel.
LEMMA StatusOnly ==
  ASSUME IInv, NEW t \in {"IDLE", "SEND"}, radio' = [radio EXCEPT !.trans = t],
         fate' = fate, cut' = cut
  PROVE  RadioInv(Packets, radio)' /\ ArrivingIsOnChannel' /\ CutIsInvalid'
<1>1. RadioInv(Packets, radio') /\ radio'.chan = radio.chan
  BY PacketsAudible, SetStatusFacts DEF IInv
<1>2. ArrivingIsOnChannel'
  BY <1>1 DEF IInv, ArrivingIsOnChannel
<1>3. CutIsInvalid'
  BY <1>1 DEF IInv, CutIsInvalid
<1> QED
  BY <1>1, <1>2, <1>3

\* Actions that switch the radio off.
LEMMA PoweredOff ==
  ASSUME IInv, radio' = Poweroff(radio), fate' = fate, cut' = Active(radio.chan)
  PROVE  RadioInv(Packets, radio)' /\ ArrivingIsOnChannel' /\ CutIsInvalid' /\ cut' \subseteq Packets
<1>1. /\ RadioInv(Packets, radio') /\ Active(radio'.chan) = Active(radio.chan)
      /\ radio'.trans = "SLEEP"
  BY PacketsAudible, PoweroffFacts DEF IInv
<1>2. ArrivingIsOnChannel'
  BY <1>1 DEF IInv, ArrivingIsOnChannel
<1>3. CutIsInvalid'
  BY <1>1 DEF CutIsInvalid, RadioInv
<1>4. cut' \subseteq Packets
  BY PacketsAudible, ActiveIsFinite DEF IInv, RadioInv, RadioState
<1> QED
  BY <1>1, <1>2, <1>3, <1>4

\* Every step keeps the invariant: one case for each disjunct of Next.
LEMMA NextIInv == IInv /\ [Next]_vars => IInv'
<1> SUFFICES ASSUME IInv, [Next]_vars PROVE IInv'
  OBVIOUS
<1> USE DEF IInv
<1> DEFINE Status == AbortNeedsPowerChange /\ PendingWhileSending
<1>1. ASSUME NEW p \in Packets, ArriveDeaf(p) \/ ArriveWeak(p)
      PROVE  IInv'
  <2>1. radio' = radio /\ cut' = cut
    BY <1>1 DEF ArriveDeaf, ArriveWeak
  <2>2. TypeOK'
    BY <1>1, <2>1 DEF ArriveDeaf, ArriveWeak, TypeOK, Fate, Consume
  <2>3. ArrivingIsOnChannel' /\ CutIsInvalid'
    BY <1>1, <2>1 DEF ArriveDeaf, ArriveWeak, ArrivingIsOnChannel, TypeOK, CutIsInvalid
  <2>4. Status'
    BY <1>1 DEF ArriveDeaf, ArriveWeak, AbortNeedsPowerChange, PendingWhileSending
  <2> QED
    BY <2>1, <2>2, <2>3, <2>4
<1>2. ASSUME NEW p \in Packets, NEW b \in BOOLEAN, Arrive(p, b)
      PROVE  IInv'
  <2>1. p \notin Active(radio.chan)
    BY <1>2 DEF Arrive, ArrivingIsOnChannel
  <2>2. RadioInv(Packets, radio') /\ Active(radio'.chan) = Active(radio.chan) \cup {p}
    BY <1>2, <2>1, PacketsAudible, RecvUpFacts DEF Arrive
  <2>3. TypeOK'
    BY <1>2, <2>2 DEF Arrive, TypeOK, RadioInv, Fate, Consume
  <2>4. ArrivingIsOnChannel' /\ CutIsInvalid'
    BY <1>2, <2>2 DEF Arrive, ArrivingIsOnChannel, TypeOK, CutIsInvalid
  <2>5. Status'
    BY <1>2 DEF Arrive, Deaf, AbortNeedsPowerChange, PendingWhileSending
  <2> QED
    BY <2>2, <2>3, <2>4, <2>5
<1>3. ASSUME NEW p \in Packets, IncommingChannelProcess(p)
      PROVE  IInv'
  <2>1. /\ RadioInv(Packets, radio') /\ Active(radio'.chan) = Active(radio.chan) \ {p}
        /\ radio.trans = "SEND" => radio'.trans = "SEND"
        /\ \A q \in Active(radio.chan) \ {p} : radio'.chan.status[q] = radio.chan.status[q]
    BY <1>3, PacketsAudible, EndReceptionFacts, EndReceptionKeepsStatus
    DEF IncommingChannelProcess
  <2>2. TypeOK'
    BY <1>3, <2>1 DEF IncommingChannelProcess, TypeOK, RadioInv, Fate
  <2>3. ArrivingIsOnChannel'
    BY <1>3, <2>1 DEF IncommingChannelProcess, ArrivingIsOnChannel, TypeOK
  <2>4. CutIsInvalid'
    BY <1>3, <2>1 DEF IncommingChannelProcess, CutIsInvalid
  <2>5. Status'
    BY <1>3, <2>1 DEF IncommingChannelProcess, AbortNeedsPowerChange, PendingWhileSending
  <2> QED
    BY <2>1, <2>2, <2>3, <2>4, <2>5
<1>4. ASSUME TxAsleep \/ TxIdle \/ TxInterrupt
      PROVE  IInv'
  <2>1. radio' = [radio EXCEPT !.trans = "SEND"] /\ fate' = fate /\ cut' = cut
    BY <1>4 DEF TxAsleep, TxIdle, TxInterrupt, TypeOK, RadioState, Poweron, InterruptRecv
  <2>2. RadioInv(Packets, radio)' /\ ArrivingIsOnChannel' /\ CutIsInvalid'
    BY <2>1, StatusOnly
  <2>3. TypeOK'
    BY <1>4, <2>2, ActiveIsFinite, PacketsAudible
    DEF TxAsleep, TxIdle, TxInterrupt, TypeOK, RadioInv, RadioState, ScheduleStatus, Consume
  <2>4. radio'.trans = "SEND"
    BY <2>1 DEF TypeOK, RadioState
  <2>5. Status'
    BY <1>4, <2>4 DEF TxAsleep, TxIdle, TxInterrupt, ScheduleStatus, AbortNeedsPowerChange,
                      PendingWhileSending
  <2> QED
    BY <2>2, <2>3, <2>5
<1>5. ASSUME StatusHandler PROVE IInv'
  <2>1. /\ statusEvent' = "none" /\ switched' = FALSE
        /\ UNCHANGED <<energy, failed, pktError, fate, interrupted, aborted>>
    BY <1>5 DEF StatusHandler
  <2>2. RadioInv(Packets, radio)' /\ ArrivingIsOnChannel' /\ CutIsInvalid' /\ cut' \subseteq Packets
    <3>1. CASE radio' = Poweroff(radio) /\ cut' = Active(radio.chan)
      BY <2>1, <3>1, PoweredOff
    <3>2. CASE radio' = radio /\ cut' = cut
      BY <2>1, <3>2 DEF TypeOK, ArrivingIsOnChannel, CutIsInvalid
    <3>3. CASE radio' = [radio EXCEPT !.trans = "IDLE"] /\ cut' = cut
      BY <2>1, <3>3, StatusOnly DEF TypeOK
    <3> QED
      BY <1>5, <3>1, <3>2, <3>3 DEF StatusHandler, TypeOK
  <2>3. TypeOK'
    BY <2>1, <2>2 DEF TypeOK, RadioInv
  <2>4. Status'
    BY <1>5 DEF StatusHandler, AbortNeedsPowerChange, PendingWhileSending
  <2> QED
    BY <2>2, <2>3, <2>4
<1>6. ASSUME Wakeup PROVE IInv'
  <2>1. Status'
    BY <1>6 DEF Wakeup, AbortNeedsPowerChange, PendingWhileSending
  <2> QED
    BY <1>6, <2>1, StatusOnly DEF Wakeup, Poweron, TypeOK, RadioInv, Consume
<1>7. ASSUME ProcessSleep PROVE IInv'
  <2>1. Status'
    BY <1>7 DEF ProcessSleep, AbortNeedsPowerChange, PendingWhileSending
  <2> QED
    BY <1>7, <2>1, PoweredOff DEF ProcessSleep, TypeOK, RadioInv, Consume
<1>8. ASSUME SetFailureStatus PROVE IInv'
  BY <1>8 DEF SetFailureStatus, TypeOK, ArrivingIsOnChannel, CutIsInvalid,
              AbortNeedsPowerChange, PendingWhileSending
<1>9. ASSUME UNCHANGED vars PROVE IInv'
  BY <1>9 DEF vars, TypeOK, ArrivingIsOnChannel, CutIsInvalid, AbortNeedsPowerChange,
              PendingWhileSending
<1> QED
  BY <1>1, <1>2, <1>3, <1>4, <1>5, <1>6, <1>7, <1>8, <1>9 DEF Next, RecvHandler

\* The parts of IInv hold together in every reachable state.
THEOREM Invariance == Spec => []IInv
<1> QED
  BY InitIInv, NextIInv, PTL DEF Spec

\* Every variable keeps its type; the counter of incoming packets is natural.
THEOREM TypeCorrect == Spec => []TypeOK
<1>1. IInv => TypeOK
  BY DEF IInv
<1> QED
  BY <1>1, Invariance, PTL

\* RECEPTION always means that the signal beats the present noise.
THEOREM CaptureCorrect == Spec => []ReceptionMeansCapture
<1>1. IInv => ReceptionMeansCapture
  BY RadioInvMeans DEF IInv
<1> QED
  BY <1>1, Invariance, PTL

\* The counter, the carrier flag and RECV agree with the list of packets.
THEOREM BookkeepingCorrect == Spec => []ChannelBookkeeping
<1>1. IInv => ChannelBookkeeping
  BY RadioInvMeans DEF IInv
<1> QED
  BY <1>1, Invariance, PTL

\* What was cut off by a power-off is not received, awake again or not, unless another
\* packet is accepted before its end.
THEOREM AsleepCorrect == Spec => SleepStopsReception
<1>1. IInv /\ [Next]_vars => [\A p \in cut : fate'[p] # "ok"]_vars
  <2> SUFFICES ASSUME IInv, [Next]_vars, NEW p \in cut, fate'[p] = "ok"
               PROVE  UNCHANGED vars
    OBVIOUS
  <2>1. p \in Packets /\ fate[p] = "arriving" /\ radio.chan.status[p] = "INVALID"
    BY DEF IInv, TypeOK, CutIsInvalid, ArrivingIsOnChannel
  <2>2. CASE \E q \in Packets : IncommingChannelProcess(q)
    BY <2>1, <2>2 DEF IncommingChannelProcess, Decodable, IInv, TypeOK
  <2>3. CASE \E q \in Packets : ArriveDeaf(q) \/ ArriveWeak(q) \/ (\E b \in BOOLEAN : Arrive(q, b))
    BY <2>1, <2>3 DEF ArriveDeaf, ArriveWeak, Arrive, IInv, TypeOK
  <2>4. CASE fate' = fate
    BY <2>1, <2>4
  <2> QED
    BY <2>2, <2>3, <2>4 DEF Next, RecvHandler, TxAsleep, TxIdle, TxInterrupt, StatusHandler,
       Wakeup, ProcessSleep, SetFailureStatus, vars
<1> QED
  BY <1>1, Invariance, PTL DEF Spec, SleepStopsReception

\* The simulator aborts at status_event only after the power was switched during a
\* transmission.
THEOREM AbortCorrect == Spec => []AbortNeedsPowerChange
<1>1. IInv => AbortNeedsPowerChange
  BY DEF IInv
<1> QED
  BY <1>1, Invariance, PTL

\* An accepted packet is on the channel until it is handed up, once.
THEOREM ArrivingCorrect == Spec => []ArrivingIsOnChannel
<1>1. IInv => ArrivingIsOnChannel
  BY DEF IInv
<1> QED
  BY <1>1, Invariance, PTL
=============================================================================
