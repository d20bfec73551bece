---------------------------- MODULE SFAMA_proofs ----------------------------
(***************************************************************************)
(* Proofs about SFAMA.  First, for every network, traffic, length of train *)
(* and backoff: IInv, whose part Good concerns one node while the links    *)
(* tie the nodes together.  Then, for trains of one packet: JInv, which    *)
(* says where every handshake stands, and from it that SFAMA implements    *)
(* ReliableLinks as long as no packet of data meets a busy radio.          *)
(***************************************************************************)
EXTENDS SFAMA, Radio_proofs, SequenceTheorems

Packet == [DA : Node, no : Nat]
Frame == [type : {"RTS", "CTS", "ACK", "DATA"}, SA : Node, DA : Node, no : Nat, SlotNum : Nat]
Answer == {f \in Frame : f.type # "DATA"}
Timer == Nat \cup {Off}

\* The type of a node that may hear the nodes of S.
State(S) ==
  [radio : RadioState(S), status : SFAMA_Status,
   cached : Seq(Frame), sending : Seq(Frame), backup : Seq(Frame),
   waitSend : Timer, pkt : Answer \cup {NoFrame, Train}, waitReply : Timer, backoff : Timer,
   dataSend : BOOLEAN, statusEvent : BOOLEAN, slotnum : Nat,
   onAir : {"nothing", "control", "data"}, train : Nat,
   out : Frame \cup {NoFrame}, abort : BOOLEAN, busy : {"nothing", "control", "data"}]

\* What is set aside of a train is put back when the train ends.
Core(m, S) ==
  /\ m \in State(S) /\ RadioInv(S, m.radio)
  /\ m.backup # <<>> => m.dataSend

\* Something to do, and something that will make the node do it.
Engaged(m) == m.status # "IDLE_WAIT" \/ m.cached # <<>> \/ m.sending # <<>> \/ m.backup # <<>>
Pending(m) ==
  \/ m.waitSend # Off \/ m.waitReply # Off \/ m.backoff # Off
  \/ m.dataSend \/ m.statusEvent

\* The timer for the ACK runs from the CTS on, which is why the end of the data,
\* that sets none, leaves the node with one.  b: n once met a busy radio with a control
\* frame.
Good(m, S, b) ==
  /\ Core(m, S)
  /\ m.status = "WAIT_SEND_DATA" => m.waitReply # Off
  /\ b \/ m.busy = "control" \/ (Engaged(m) => Pending(m))

Fresh(m) == m.out = NoFrame /\ m.busy = "nothing" /\ ~m.abort
----------------------------------------------------------------------------
(* Frames and trains *)

\* The nodes are finitely many and have powers.
LEMMA NodesAudible == Audible(Node)
  BY MediumAssumption DEF Audible

\* A frame is neither of the two marks that stand where a frame may be.
LEMMA FrameFacts ==
  ASSUME NEW f \in Frame
  PROVE  /\ f # NoFrame /\ f # Train /\ f.type \in {"RTS", "CTS", "ACK", "DATA"}
         /\ f.SA \in Node /\ f.DA \in Node /\ f.no \in Nat /\ f.SlotNum \in Nat
BY DEF Frame, NoFrame, Train

\* makeRTS, makeCTS and makeACK make frames.
LEMMA ControlFrame ==
  ASSUME NEW t \in {"RTS", "CTS", "ACK"}, NEW s \in Node, NEW d \in Node, NEW k \in Nat
  PROVE  Control(t, s, d, k) \in Answer
BY DEF Control, Frame, Answer

\* fillDATA makes a frame for the packet's destination.
LEMMA DataFrame ==
  ASSUME NEW s \in Node, NEW p \in Packet
  PROVE  Data(s, p) \in Frame /\ Data(s, p).DA = p.DA
BY DEF Data, Frame, Packet

\* Multiples of a natural number grow.
LEMMA Products ==
  ASSUME NEW k \in Nat, k >= 1, NEW a \in Nat
  PROVE  k * a \in Nat /\ k * a >= a
OBVIOUS

\* Integer division stays within the naturals.
LEMMA Quotients ==
  ASSUME NEW a \in Nat, NEW b \in Nat \ {0}
  PROVE  a \div b \in Nat
OBVIOUS

\* A train takes two slots at least: its own first and what the division drops.
LEMMA SlotsOfTrain ==
  ASSUME NEW k \in Nat, k >= 1
  PROVE  TrainSlots(k) \in Nat /\ TrainSlots(k) >= 2
<1>1. /\ CTSTxTime \in Nat /\ PktTxTime \in Nat /\ CTSTxTime <= PktTxTime
      /\ DataSendingInterval \in Nat /\ SlotLen \in Nat \ {0}
  BY SFAMAAssumption
<1>2. k * PktTxTime \in Nat /\ k * PktTxTime >= PktTxTime
  BY <1>1, Products
<1>3. (k - 1) * DataSendingInterval \in Nat
  BY <1>1
<1> DEFINE a == k * PktTxTime
           b == (k - 1) * DataSendingInterval
<1>4. a + b - CTSTxTime \in Nat
  <2> HIDE DEF a, b
  <2>1. a \in Nat /\ b \in Nat /\ a >= PktTxTime
    BY <1>2, <1>3 DEF a, b
  <2> QED
    BY <1>1, <2>1
<1>5. (a + b - CTSTxTime) \div SlotLen \in Nat
  <2> HIDE DEF a, b
  <2> QED
    BY <1>1, <1>4, Quotients
<1> QED
  BY <1>5 DEF TrainSlots

\* The places of I up to j; their number is the place of j in I.
UpTo(I, j) == {k \in I : k <= j}
Place(I, j) == Cardinality(UpTo(I, j))

\* Every number up to the size of I is the place of one element of I.
LEMMA PlaceFacts ==
  ASSUME NEW N \in Nat, NEW I, I \subseteq 1 .. N
  PROVE  /\ IsFiniteSet(I) /\ Cardinality(I) \in Nat
         /\ \A j \in I : IsFiniteSet(UpTo(I, j)) /\ Place(I, j) \in 1 .. Cardinality(I)
         /\ \A i, j \in I : Place(I, i) = Place(I, j) => i = j
         /\ \A i \in 1 .. Cardinality(I) : \E j \in I : Place(I, j) = i
<1> DEFINE rank == [j \in I |-> Place(I, j)]
           c == Cardinality(I)
<1>1. I \subseteq Nat
  OBVIOUS
<1>2. IsFiniteSet(I) /\ c \in Nat
  <2>1. IsFiniteSet(1 .. N)
    BY FS_Interval
  <2> QED
    BY <2>1, FS_Subset, FS_CardinalityType
<1>3. \A j \in I : IsFiniteSet(UpTo(I, j)) /\ rank[j] \in 1 .. c
  <2> SUFFICES ASSUME NEW j \in I PROVE IsFiniteSet(UpTo(I, j)) /\ rank[j] \in 1 .. c
    OBVIOUS
  <2> DEFINE U == UpTo(I, j)
  <2>1. U \subseteq I /\ j \in U /\ rank[j] = Cardinality(U)
    BY <1>1 DEF UpTo, Place
  <2> HIDE DEF U, rank
  <2>2. IsFiniteSet(U) /\ Cardinality(U) <= c /\ Cardinality(U) \in Nat
    BY <1>2, <2>1, FS_Subset, FS_CardinalityType
  <2>3. Cardinality(U) # 0
    BY <2>1, <2>2, FS_EmptySet
  <2> QED
    BY <1>2, <2>1, <2>2, <2>3 DEF U
<1>4. \A i, j \in I : i < j => rank[i] < rank[j]
  <2> SUFFICES ASSUME NEW i \in I, NEW j \in I, i < j PROVE rank[i] < rank[j]
    OBVIOUS
  <2> DEFINE U == UpTo(I, i)
             V == UpTo(I, j)
  <2>1. U \subseteq V /\ j \in V /\ j \notin U
    <3> HIDE DEF rank
    <3>1. \A k \in I : (k \in U <=> k <= i) /\ (k \in V <=> k <= j)
      BY DEF UpTo
    <3>2. U \subseteq I
      BY DEF UpTo
    <3> HIDE DEF U, V
    <3> QED
      BY <1>1, <3>1, <3>2
  <2>2. IsFiniteSet(V) /\ IsFiniteSet(U) /\ rank[i] = Cardinality(U) /\ rank[j] = Cardinality(V)
    BY <1>3 DEF Place
  <2> HIDE DEF U, V, rank
  <2>3. Cardinality(U) <= Cardinality(V) /\ Cardinality(U) \in Nat /\ Cardinality(V) \in Nat
        /\ (Cardinality(U) = Cardinality(V) => U = V)
    BY <2>1, <2>2, FS_Subset, FS_CardinalityType
  <2> QED
    BY <2>1, <2>2, <2>3
<1>5. rank \in [I -> 1 .. c]
  BY <1>3
<1>6. \A i, j \in I : rank[i] = rank[j] => i = j
  <2> HIDE DEF rank
  <2> QED
    BY <1>1, <1>4, <1>5
<1>7. \A i \in 1 .. c : \E j \in I : rank[j] = i
  <2> HIDE DEF rank
  <2>1. IsFiniteSet(1 .. c) /\ Cardinality(1 .. c) = c
    BY <1>2, FS_Interval
  <2>2. IsInjective(rank)
    BY <1>5, <1>6 DEF IsInjective
  <2>3. rank \in Injection(I, 1 .. c)
    BY <1>5, <2>2 DEF Injection
  <2>4. rank \in Surjection(I, 1 .. c)
    BY <1>2, <2>1, <2>3, FS_Injection
  <2> QED
    BY <2>4 DEF Surjection
<1> HIDE DEF c
<1>8. \A j \in I : rank[j] = Place(I, j)
  OBVIOUS
<1> HIDE DEF rank
<1> QED
  BY <1>2, <1>3, <1>6, <1>7, <1>8 DEF c

\* The places of I in q, in their order: each element of I is where its place says.
LEMMA PickFacts ==
  ASSUME NEW T, NEW q \in Seq(T), NEW I, I \subseteq DOMAIN q
  PROVE  /\ Pick(q, I) \in Seq(T) /\ Len(Pick(q, I)) = Cardinality(I)
         /\ \A j \in I : Pick(q, I)[Place(I, j)] = q[j]
<1> DEFINE c == Cardinality(I)
           At(i) == CHOOSE j \in I : Place(I, j) = i
<1>1. DOMAIN q = 1 .. Len(q) /\ Len(q) \in Nat
  OBVIOUS
<1>2. /\ c \in Nat
      /\ \A j \in I : Place(I, j) \in 1 .. c
      /\ \A i, j \in I : Place(I, i) = Place(I, j) => i = j
      /\ \A i \in 1 .. c : \E j \in I : Place(I, j) = i
  BY <1>1, PlaceFacts
<1>3. \A i \in 1 .. c : At(i) \in I /\ Place(I, At(i)) = i
  <2> HIDE DEF c
  <2> QED
    BY <1>2
<1>4. Pick(q, I) = [i \in 1 .. c |-> q[At(i)]]
  BY DEF Pick, Place, UpTo
<1> HIDE DEF c, At
<1>5. \A i \in 1 .. c : q[At(i)] \in T
  BY <1>3, ElementOfSeq
<1>6. Pick(q, I) \in Seq(T) /\ Len(Pick(q, I)) = c
  BY <1>2, <1>4, <1>5, SeqDef
<1>7. ASSUME NEW j \in I PROVE Pick(q, I)[Place(I, j)] = q[j]
  <2>1. At(Place(I, j)) = j
    BY <1>2, <1>3
  <2> QED
    BY <1>2, <1>4, <2>1
<1> QED
  BY <1>6, <1>7 DEF c
----------------------------------------------------------------------------
(* Preparing *)

\* The fields of a node, one by one.
LEMMA StateFacts ==
  ASSUME NEW S, NEW m \in State(S)
  PROVE  /\ m.status \in SFAMA_Status
         /\ m.cached \in Seq(Frame) /\ m.sending \in Seq(Frame) /\ m.backup \in Seq(Frame)
         /\ m.waitSend \in Timer /\ m.waitReply \in Timer /\ m.backoff \in Timer
         /\ m.pkt \in Answer \cup {NoFrame, Train} /\ m.slotnum \in Nat /\ m.train \in Nat
BY DEF State

\* The train of what is first in line is never empty.
LEMMA TakeTrainFacts ==
  ASSUME NEW S, NEW m, Core(m, S), m.cached # <<>>
  PROVE  /\ takeTrain(m) \in State(S)
         /\ takeTrain(m).sending \in Seq(Frame) /\ takeTrain(m).sending # <<>>
         /\ takeTrain(m).radio = m.radio /\ takeTrain(m).status = m.status
         /\ takeTrain(m).backup = m.backup /\ takeTrain(m).dataSend = m.dataSend
<1> DEFINE q == m.cached
           d == Head(q).DA
           I == InTrain(q, d)
           res == takeTrain(m)
<1>1. q \in Seq(Frame) /\ 1 \in DOMAIN q /\ q[1] = Head(q)
  BY DEF Core, State
<1>2. I \subseteq DOMAIN q
  BY DEF InTrain
<1>3. 1 \in I
  <2>1. {j \in 1 .. 1 : q[j].DA = d} = {1}
    BY <1>1
  <2>2. Cardinality({1}) = 1
    BY FS_Singleton
  <2>3. MaxBurst >= 1 /\ MaxBurst \in Nat
    BY SFAMAAssumption
  <2> HIDE DEF q
  <2> QED
    BY <1>1, <2>1, <2>2, <2>3 DEF InTrain
<1>4. IsFiniteSet(DOMAIN q)
  BY <1>1, FS_Interval
<1>5. Cardinality(I) \in Nat /\ Cardinality(I) # 0
  <2> HIDE DEF I
  <2> QED
    BY <1>2, <1>3, <1>4, FS_Subset, FS_CardinalityType, FS_EmptySet
<1> DEFINE x == Pick(q, I)
           y == Pick(q, DOMAIN q \ I)
<1>6. x \in Seq(Frame) /\ y \in Seq(Frame) /\ Len(x) # 0
  <2> HIDE DEF q, I
  <2> QED
    BY <1>1, <1>2, <1>5, PickFacts
<1>7. res = [m EXCEPT !.sending = x, !.cached = y]
  BY DEF takeTrain
<1> HIDE DEF x, y, res
<1>8. res \in State(S)
  BY <1>6, <1>7 DEF Core, State
<1>9. /\ res.radio = m.radio /\ res.status = m.status /\ res.sending = x
      /\ res.backup = m.backup /\ res.dataSend = m.dataSend
  BY <1>7 DEF Core, State
<1>10. res.sending \in Seq(Frame) /\ res.sending # <<>>
  BY <1>6, <1>9
<1> QED
  BY <1>8, <1>9, <1>10 DEF res

\* An RTS is scheduled at a random boundary, and the node waits for it.
LEMMA ScheduleRTSGood ==
  ASSUME NEW n \in Node, NEW S, NEW b, NEW m, Core(m, S), m.sending # <<>>, NEW r \in Nat
  PROVE  Good(scheduleRTS(m, n, r), S, b)
<1> DEFINE f == Control("RTS", n, Head(m.sending).DA, TrainSlots(Len(m.sending)))
           res == scheduleRTS(m, n, r)
<1>1. m \in State(S) /\ m.sending \in Seq(Frame)
  BY DEF Core, State
<1>2. Head(m.sending) \in Frame /\ Len(m.sending) \in Nat /\ Len(m.sending) >= 1
  BY <1>1, HeadTailProperties
<1>3. f \in Answer
  <2> DEFINE d == Head(m.sending).DA
             k == TrainSlots(Len(m.sending))
  <2>1. d \in Node /\ k \in Nat
    BY <1>2, SlotsOfTrain, FrameFacts
  <2>2. Control("RTS", n, d, k) \in Answer
    <3> HIDE DEF d, k
    <3> QED
      BY <2>1, ControlFrame
  <2> QED
    BY <2>2
<1>4. res = [m EXCEPT !.status = "WAIT_SEND_RTS", !.waitSend = 1 + r, !.pkt = f]
  BY <1>1 DEF scheduleRTS, SendAt, State
<1> HIDE DEF f, res
<1> DEFINE k == 1 + r
<1>5. res \in State(S)
  <2>1. k \in Timer /\ "WAIT_SEND_RTS" \in SFAMA_Status
    BY DEF Timer, SFAMA_Status
  <2>2. res = [m EXCEPT !.status = "WAIT_SEND_RTS", !.waitSend = k, !.pkt = f]
    BY <1>4
  <2> HIDE DEF k
  <2> QED
    BY <1>1, <1>3, <2>1, <2>2 DEF State
<1>6. /\ res.radio = m.radio /\ res.status = "WAIT_SEND_RTS" /\ res.waitSend = 1 + r
      /\ res.backup = m.backup /\ res.dataSend = m.dataSend
  BY <1>1, <1>4 DEF State
<1>7. res.waitSend # Off
  BY <1>6 DEF Off
<1>8. Core(res, S)
  BY <1>5, <1>6 DEF Core
<1> QED
  BY <1>6, <1>7, <1>8 DEF Good, Pending, res

\* Whoever is idle either has nothing to send or has scheduled an RTS.
LEMMA PrepareGood ==
  ASSUME NEW n \in Node, NEW S, NEW b, NEW m, Core(m, S), m.status = "IDLE_WAIT", NEW r \in Nat
  PROVE  Good(prepareSendingDATA(m, n, r), S, b)
<1>1. CASE m.sending # <<>>
  BY <1>1, ScheduleRTSGood DEF prepareSendingDATA
<1>2. CASE m.sending = <<>> /\ m.cached # <<>>
  <2>1. Core(takeTrain(m), S) /\ takeTrain(m).sending # <<>>
    BY <1>2, TakeTrainFacts DEF Core
  <2> QED
    BY <1>2, <2>1, ScheduleRTSGood DEF prepareSendingDATA
<1>3. CASE m.sending = <<>> /\ m.cached = <<>>
  <2>1. prepareSendingDATA(m, n, r) = m
    BY <1>3 DEF prepareSendingDATA
  <2>2. Good(m, S, b)
    BY <1>3 DEF Good, Core, Engaged, Pending
  <2> QED
    BY <2>1, <2>2
<1> QED
  BY <1>1, <1>2, <1>3
----------------------------------------------------------------------------
(* Sending *)

\* A new packet makes an idle node with nothing else to send prepare a train.
LEMMA TxProcessGood ==
  ASSUME NEW n \in Node, NEW S, NEW b, NEW m, Good(m, S, b), NEW f \in Frame, NEW r \in Nat
  PROVE  Good(TxProcess(m, n, f, r), S, b)
<1> DEFINE c == Append(m.cached, f)
           q == [m EXCEPT !.cached = c]
<1>1. m \in State(S) /\ m.cached \in Seq(Frame)
  BY DEF Good, Core, State
<1>2. c \in Seq(Frame) /\ Len(c) = Len(m.cached) + 1 /\ c # <<>>
  BY <1>1, AppendProperties
<1> HIDE DEF c
<1>3. q \in State(S)
  BY <1>1, <1>2 DEF State
<1>4. /\ q.radio = m.radio /\ q.status = m.status /\ q.cached = c /\ q.sending = m.sending
      /\ q.backup = m.backup /\ q.dataSend = m.dataSend /\ q.waitReply = m.waitReply
      /\ q.waitSend = m.waitSend /\ q.backoff = m.backoff /\ q.statusEvent = m.statusEvent
      /\ q.busy = m.busy
  BY <1>1 DEF State
<1>5. TxProcess(m, n, f, r) =
        IF Len(q.cached) = 1 /\ q.status = "IDLE_WAIT" THEN prepareSendingDATA(q, n, r) ELSE q
  BY DEF TxProcess, c
<1> HIDE DEF q
<1>6. Core(q, S)
  BY <1>3, <1>4 DEF Good, Core
<1>7. CASE Len(q.cached) = 1 /\ q.status = "IDLE_WAIT"
  BY <1>5, <1>6, <1>7, PrepareGood
<1>8. CASE ~(Len(q.cached) = 1 /\ q.status = "IDLE_WAIT")
  <2>1. m.status = "IDLE_WAIT" => m.cached # <<>>
    <3> SUFFICES ASSUME m.status = "IDLE_WAIT", m.cached = <<>> PROVE FALSE
      OBVIOUS
    <3>1. q.status = "IDLE_WAIT" /\ Len(q.cached) = Len(m.cached) + 1
      BY <1>2, <1>4
    <3>2. Len(m.cached) = 0
      OBVIOUS
    <3> QED
      BY <1>8, <3>1, <3>2
  <2>2. Good(q, S, b)
    BY <1>4, <1>6, <2>1 DEF Good, Engaged, Pending
  <2> QED
    BY <1>5, <1>8, <2>2
<1> QED
  BY <1>7, <1>8

\* Only a busy radio keeps a frame from going out.
LEMMA SendDownFacts ==
  ASSUME NEW S, Audible(S), NEW m, Core(m, S), NEW f \in Frame \cup {NoFrame}
  PROVE  /\ Core(SendDown(m, f), S)
         /\ SendDown(m, f).status = m.status /\ SendDown(m, f).waitReply = m.waitReply
         /\ SendDown(m, f).dataSend = m.dataSend
         /\ SendDown(m, f).busy \in {m.busy, OnAir(f)}
<1> DEFINE r == [m.radio EXCEPT !.trans = "SEND"]
           res == SendDown(m, f)
<1>1. m \in State(S) /\ RadioInv(S, m.radio)
  BY DEF Core
<1>2. RadioInv(S, r) /\ r \in RadioState(S)
  BY <1>1, SetStatusFacts DEF RadioInv
<1>3. OnAir(f) \in {"nothing", "control", "data"}
  BY DEF OnAir
<1> DEFINE a == OnAir(f)
           one == [m EXCEPT !.busy = a]
           two == [m EXCEPT !.radio = r, !.out = f, !.onAir = a]
<1>4. res = one \/ res = two
  BY <1>1 DEF SendDown, State
<1> HIDE DEF r, a
<1>5. one \in State(S) /\ two \in State(S)
  BY <1>1, <1>2, <1>3 DEF State, a
<1>6. /\ one.radio = m.radio /\ one.status = m.status /\ one.waitReply = m.waitReply
      /\ one.dataSend = m.dataSend /\ one.backup = m.backup
      /\ two.radio = r /\ two.status = m.status /\ two.waitReply = m.waitReply
      /\ two.dataSend = m.dataSend /\ two.backup = m.backup
      /\ one.busy = a /\ two.busy = m.busy
  BY <1>1 DEF State
<1> HIDE DEF one, two, res
<1>7. Core(one, S) /\ Core(two, S)
  BY <1>2, <1>5, <1>6 DEF Core
<1>8. /\ Core(res, S) /\ res.status = m.status /\ res.waitReply = m.waitReply
      /\ res.dataSend = m.dataSend /\ res.busy \in {m.busy, a}
  BY <1>4, <1>6, <1>7
<1> QED
  BY <1>8 DEF res, a

\* The status event is scheduled for the end of the transmission.
LEMMA ScheduleStatusFacts ==
  ASSUME NEW S, NEW m, Core(m, S)
  PROVE  /\ Core(ScheduleStatus(m), S) /\ ScheduleStatus(m).statusEvent
         /\ ScheduleStatus(m).status = m.status /\ ScheduleStatus(m).waitReply = m.waitReply
<1>1. m \in State(S)
  BY DEF Core
<1> DEFINE one == [m EXCEPT !.abort = TRUE]
           two == [m EXCEPT !.statusEvent = TRUE]
           res == ScheduleStatus(m)
<1>2. one \in State(S) /\ two \in State(S)
  BY <1>1 DEF State
<1>3. res = IF m.statusEvent THEN one ELSE two
  BY DEF ScheduleStatus
<1>4. /\ one.radio = m.radio /\ one.status = m.status /\ one.waitReply = m.waitReply
      /\ one.dataSend = m.dataSend /\ one.backup = m.backup /\ one.statusEvent = m.statusEvent
      /\ two.radio = m.radio /\ two.status = m.status /\ two.waitReply = m.waitReply
      /\ two.dataSend = m.dataSend /\ two.backup = m.backup /\ two.statusEvent = TRUE
  BY <1>1 DEF State
<1> HIDE DEF one, two, res
<1>5. Core(one, S) /\ Core(two, S)
  BY <1>2, <1>4 DEF Core
<1>6. /\ Core(res, S) /\ res.statusEvent
      /\ res.status = m.status /\ res.waitReply = m.waitReply
  BY <1>3, <1>4, <1>5
<1> QED
  BY <1>6 DEF res

\* A control frame goes out, and its end is awaited, or the radio was busy.
LEMMA SendPktGood ==
  ASSUME NEW S, Audible(S), NEW b, NEW m, Core(m, S), NEW f \in Answer \cup {NoFrame},
         m.status = "WAIT_SEND_DATA" => m.waitReply # Off, m.busy = "nothing"
  PROVE  Good(sendPkt(m, f), S, b)
<1> DEFINE k == KeepSlotNum(m, f)
           d == SendDown(k, f)
<1>1. m \in State(S)
  BY DEF Core
<1>2. /\ f.type = "CTS" => f.SlotNum \in Nat
      /\ f \in Frame \cup {NoFrame} /\ OnAir(f) = "control"
  BY DEF Answer, Frame, NoFrame, OnAir
<1>3. k \in State(S)
  BY <1>1, <1>2 DEF KeepSlotNum, State
<1>4. /\ k.radio = m.radio /\ k.backup = m.backup /\ k.dataSend = m.dataSend
      /\ k.status = m.status /\ k.waitReply = m.waitReply /\ k.busy = "nothing"
  BY <1>1 DEF KeepSlotNum, State
<1> HIDE DEF k
<1>5. Core(k, S)
  BY <1>3, <1>4 DEF Core
<1>6. /\ Core(d, S) /\ d.status = m.status /\ d.waitReply = m.waitReply
      /\ d.busy \in {"nothing", "control"}
  BY <1>2, <1>4, <1>5, SendDownFacts
<1>7. sendPkt(m, f) = IF d.busy # "nothing" THEN d ELSE ScheduleStatus(d)
  BY DEF sendPkt, k
<1> HIDE DEF d
<1>8. CASE d.busy = "control"
  BY <1>6, <1>7, <1>8 DEF Good
<1>9. CASE d.busy = "nothing"
  <2>1. Good(ScheduleStatus(d), S, b)
    BY <1>6, ScheduleStatusFacts DEF Good, Pending
  <2> QED
    BY <1>7, <1>9, <2>1
<1> QED
  BY <1>6, <1>8, <1>9

\* A data packet moves to the backup, or the whole train moves back.
LEMMA DataSendGood ==
  ASSUME NEW S, Audible(S), NEW b, NEW m, Good(m, S, b), m.dataSend
  PROVE  Good(DataSendTimerProcess(m), S, b)
<1>1. /\ m \in State(S) /\ m.sending \in Seq(Frame) /\ m.backup \in Seq(Frame)
      /\ m.dataSend = TRUE /\ RadioInv(S, m.radio)
  BY DEF Good, Core, State
<1> DEFINE a == IF m.onAir = "data" THEN "nothing" ELSE m.onAir
<1>2. a \in {"nothing", "control", "data"}
  BY <1>1 DEF State
<1>3. CASE m.sending # <<>>
  <2> DEFINE t == IF m.backup = <<>> THEN TrainSlots(Len(m.sending)) - 1 ELSE m.train
             h == Head(m.sending)
             u == Append(m.backup, h)
             v == Tail(m.sending)
             k == [m EXCEPT !.train = t, !.onAir = a, !.backup = u, !.sending = v]
  <2>1. /\ h \in Frame /\ u \in Seq(Frame) /\ v \in Seq(Frame)
        /\ Len(m.sending) \in Nat /\ Len(m.sending) >= 1
    BY <1>1, <1>3, HeadTailProperties, AppendProperties
  <2>2. t \in Nat
    <3> DEFINE slots == TrainSlots(Len(m.sending))
    <3>1. slots \in Nat /\ slots >= 2
      BY <2>1, SlotsOfTrain
    <3>2. m.train \in Nat
      BY <1>1, StateFacts
    <3> HIDE DEF slots
    <3>3. slots - 1 \in Nat
      BY <3>1
    <3> QED
      BY <3>2, <3>3 DEF slots
  <2>3. DataSendTimerProcess(m) = SendDown(k, h)
    BY <1>1, <1>3 DEF DataSendTimerProcess, NextOfTrain, sendDataPkt, LastDataLeft, StartTrain, State
  <2> HIDE DEF a, t, h, u, v
  <2>4. k \in State(S)
    BY <1>1, <1>2, <2>1, <2>2 DEF State
  <2>5. /\ k.radio = m.radio /\ k.dataSend = TRUE /\ k.status = m.status
        /\ k.waitReply = m.waitReply
    BY <1>1 DEF State
  <2> HIDE DEF k
  <2>6. Core(k, S)
    BY <1>1, <2>4, <2>5 DEF Core
  <2>7. /\ Core(SendDown(k, h), S) /\ SendDown(k, h).status = m.status
        /\ SendDown(k, h).waitReply = m.waitReply /\ SendDown(k, h).dataSend = TRUE
    BY <2>1, <2>5, <2>6, SendDownFacts
  <2>8. Good(SendDown(k, h), S, b)
    BY <2>7 DEF Good, Pending
  <2> QED
    BY <2>3, <2>8
<1>4. CASE m.sending = <<>>
  <2> DEFINE k == [m EXCEPT !.onAir = a, !.sending = m.backup, !.backup = <<>>, !.dataSend = FALSE]
  <2>1. DataSendTimerProcess(m) = ScheduleStatus(k)
    BY <1>1, <1>4 DEF DataSendTimerProcess, EndOfTrain, LastDataLeft, State
  <2> HIDE DEF a
  <2>2. k \in State(S)
    <3>1. <<>> \in Seq(Frame)
      OBVIOUS
    <3> DEFINE e == <<>>
               u == m.backup
    <3>2. e \in Seq(Frame) /\ u \in Seq(Frame)
      BY <1>1, <3>1
    <3>3. k = [m EXCEPT !.onAir = a, !.sending = u, !.backup = e, !.dataSend = FALSE]
      OBVIOUS
    <3> HIDE DEF e, u, k
    <3> QED
      BY <1>1, <1>2, <3>2, <3>3 DEF State
  <2>3. k.radio = m.radio /\ k.backup = <<>> /\ k.status = m.status /\ k.waitReply = m.waitReply
    BY <1>1 DEF State
  <2> HIDE DEF k
  <2>4. Core(k, S)
    BY <1>1, <2>2, <2>3 DEF Core
  <2>5. Good(ScheduleStatus(k), S, b)
    BY <2>3, <2>4, ScheduleStatusFacts DEF Good, Pending
  <2> QED
    BY <2>1, <2>5
<1> QED
  BY <1>3, <1>4
----------------------------------------------------------------------------
(* Timers *)

\* A change of the status and the timers, to one of which the node is left.
LEMMA Rescheduled ==
  ASSUME NEW S, NEW b, NEW m, Core(m, S), NEW res \in State(S),
         res.radio = m.radio, res.backup = m.backup, res.dataSend = m.dataSend,
         \/ res.waitReply # Off
         \/ (res.waitSend # Off \/ res.backoff # Off) /\ res.status # "WAIT_SEND_DATA"
  PROVE  Good(res, S, b)
BY DEF Core, Good, Pending

\* WaitSendTimer fires: the frame due at this boundary is sent.
LEMMA WaitSendGood ==
  ASSUME NEW S, Audible(S), NEW b, NEW m, Good(m, S, b), Fresh(m)
  PROVE  Good(WaitSendTimerProcess(SendAt(m, Off, NoFrame), m.pkt), S, b)
<1> DEFINE k == SendAt(m, Off, NoFrame)
           f == m.pkt
<1>1. m \in State(S) /\ f \in Answer \cup {NoFrame, Train}
  BY DEF Good, Core, State
<1>2. k = [m EXCEPT !.waitSend = Off, !.pkt = NoFrame]
  BY DEF SendAt
<1>3. k \in State(S)
  <2>1. Off \in Timer /\ NoFrame \in Answer \cup {NoFrame, Train}
    BY DEF Timer
  <2> QED
    BY <1>1, <1>2, <2>1 DEF State
<1>4. /\ k.radio = m.radio /\ k.backup = m.backup /\ k.dataSend = m.dataSend
      /\ k.status = m.status /\ k.waitReply = m.waitReply /\ k.busy = "nothing"
  BY <1>1, <1>2 DEF State, Fresh
<1> HIDE DEF k, f
<1>5. Core(k, S) /\ (k.status = "WAIT_SEND_DATA" => k.waitReply # Off)
  BY <1>3, <1>4 DEF Good, Core
<1>6. CASE f = Train
  <2> DEFINE res == [k EXCEPT !.dataSend = TRUE]
  <2>1. WaitSendTimerProcess(k, f) = res
    BY <1>6 DEF WaitSendTimerProcess
  <2>2. res \in State(S)
    BY <1>3 DEF State
  <2>3. /\ res.radio = k.radio /\ res.status = k.status /\ res.waitReply = k.waitReply
        /\ res.dataSend = TRUE
    BY <1>3 DEF State
  <2> HIDE DEF res
  <2>4. Good(res, S, b)
    BY <1>5, <2>2, <2>3 DEF Good, Core, Pending
  <2> QED
    BY <2>1, <2>4 DEF k, f
<1>7. CASE f # Train
  <2>1. WaitSendTimerProcess(k, f) = sendPkt(k, f) /\ f \in Answer \cup {NoFrame}
    BY <1>1, <1>7 DEF WaitSendTimerProcess
  <2>2. Good(sendPkt(k, f), S, b)
    BY <1>4, <1>5, <2>1, SendPktGood
  <2> QED
    BY <2>1, <2>2 DEF k, f
<1> QED
  BY <1>6, <1>7

\* No reply, or none to be expected: the node backs off.
LEMMA WaitReplyGood ==
  ASSUME NEW S, NEW b, NEW m, Core(m, S), NEW directcall \in BOOLEAN, NEW r \in Nat
  PROVE  Good(WaitReplyTimerProcess(m, directcall, r), S, b)
<1> DEFINE res == WaitReplyTimerProcess(m, directcall, r)
           st == IF directcall THEN "BACKOFF_FAIR" ELSE "BACKOFF"
           k == IF directcall THEN 1 ELSE 1 + r
<1>1. m \in State(S) /\ st \in SFAMA_Status /\ k \in Timer /\ k # Off /\ st # "WAIT_SEND_DATA"
  BY DEF Core, SFAMA_Status, Timer, Off
<1>2. res = [m EXCEPT !.status = st, !.backoff = k]
  BY DEF WaitReplyTimerProcess
<1> HIDE DEF res, st, k
<1>3. /\ res \in State(S)
      /\ res.radio = m.radio /\ res.backup = m.backup /\ res.dataSend = m.dataSend
      /\ res.backoff = k /\ res.status = st
  BY <1>1, <1>2 DEF State
<1>4. Good(res, S, b)
  BY <1>1, <1>3, Rescheduled
<1> QED
  BY <1>4 DEF res

\* WaitReplyTimer fires.
LEMMA WaitReplyOver ==
  ASSUME NEW S, NEW b, NEW m, Good(m, S, b), NEW r \in Nat
  PROVE  Good(WaitReplyTimerProcess([m EXCEPT !.waitReply = Off], FALSE, r), S, b)
<1> DEFINE k == [m EXCEPT !.waitReply = Off]
<1>1. Off \in Timer /\ Core(m, S)
  BY DEF Timer, Good
<1>2. k \in State(S) /\ k.radio = m.radio /\ k.backup = m.backup /\ k.dataSend = m.dataSend
  BY <1>1 DEF Core, State
<1> HIDE DEF k
<1>3. Core(k, S)
  BY <1>1, <1>2 DEF Core
<1> QED
  BY <1>3, WaitReplyGood DEF k

\* BackoffTimer fires: the next train is prepared.
LEMMA BackoffGood ==
  ASSUME NEW n \in Node, NEW S, NEW b, NEW m, Good(m, S, b), NEW r \in Nat
  PROVE  Good(BackoffTimerProcess([m EXCEPT !.backoff = Off], n, r), S, b)
<1> DEFINE k == [m EXCEPT !.backoff = Off, !.status = "IDLE_WAIT"]
<1>1. Off \in Timer /\ Core(m, S) /\ "IDLE_WAIT" \in SFAMA_Status
  BY DEF Timer, Good, SFAMA_Status
<1>2. /\ k \in State(S) /\ k.radio = m.radio /\ k.backup = m.backup /\ k.dataSend = m.dataSend
      /\ k.status = "IDLE_WAIT"
  BY <1>1 DEF Core, State
<1>3. BackoffTimerProcess([m EXCEPT !.backoff = Off], n, r) = prepareSendingDATA(k, n, r)
  BY <1>1 DEF BackoffTimerProcess, Core, State
<1> HIDE DEF k
<1>4. Core(k, S)
  BY <1>1, <1>2 DEF Core
<1> QED
  BY <1>2, <1>3, <1>4, PrepareGood

\* A node that waits k slots for something has the timer of that wait.
LEMMA AwaitGood ==
  ASSUME NEW S, NEW b, NEW m, Core(m, S), NEW st \in SFAMA_Status, NEW k \in Nat
  PROVE  Good(Await(m, st, k), S, b)
<1> DEFINE res == Await(m, st, k)
           t == k + 1
<1>1. m \in State(S) /\ t \in Timer /\ t # Off
  BY DEF Core, Timer, Off
<1>2. res = [m EXCEPT !.status = st, !.waitReply = t]
  BY DEF Await
<1> HIDE DEF res, t
<1>3. /\ res \in State(S)
      /\ res.radio = m.radio /\ res.backup = m.backup /\ res.dataSend = m.dataSend
      /\ res.waitReply = t
  BY <1>1, <1>2 DEF State
<1>4. Good(res, S, b)
  BY <1>1, <1>3, Rescheduled
<1> QED
  BY <1>4 DEF res

\* The end of a transmission: whatever it was, a timer is pending.
LEMMA StatusGood ==
  ASSUME NEW S, Audible(S), NEW b, NEW m, Good(m, S, b)
  PROVE  Good(StatusProcess(m), S, b)
<1> DEFINE r == [m.radio EXCEPT !.trans = "IDLE"]
           i == SentStatus(m)
<1>1. m \in State(S) /\ RadioInv(S, m.radio)
  BY DEF Good, Core
<1>2. RadioInv(S, r) /\ r \in RadioState(S)
  BY <1>1, SetStatusFacts DEF RadioInv
<1>3. i = [m EXCEPT !.radio = r, !.statusEvent = FALSE, !.onAir = "nothing"]
  BY <1>1 DEF SentStatus, State
<1> HIDE DEF r, i
<1>4. /\ i \in State(S) /\ i.radio = r /\ i.backup = m.backup /\ i.dataSend = m.dataSend
      /\ i.status = m.status /\ i.waitReply = m.waitReply
  BY <1>1, <1>2, <1>3 DEF State
<1>5. Core(i, S)
  BY <1>2, <1>4 DEF Good, Core
<1>6. i.slotnum \in Nat /\ i.status \in SFAMA_Status
  BY <1>4, StateFacts
<1>7. CASE i.status = "WAIT_SEND_RTS"
  <2>1. StatusProcess(m) = Await(i, "WAIT_RECV_CTS", 1)
    BY <1>7 DEF StatusProcess, i
  <2> QED
    BY <1>5, <2>1, AwaitGood DEF SFAMA_Status
<1>8. CASE i.status = "WAIT_SEND_CTS"
  <2>1. StatusProcess(m) = Await(i, "WAIT_RECV_DATA", i.slotnum)
    BY <1>8 DEF StatusProcess, i
  <2> QED
    BY <1>5, <1>6, <2>1, AwaitGood DEF SFAMA_Status
<1>9. CASE i.status = "WAIT_SEND_DATA"
  <2> DEFINE res == [i EXCEPT !.status = "WAIT_RECV_ACK"]
  <2>1. StatusProcess(m) = res
    BY <1>9 DEF StatusProcess, i
  <2>2. "WAIT_RECV_ACK" \in SFAMA_Status
    BY DEF SFAMA_Status
  <2>3. /\ res \in State(S) /\ res.radio = i.radio /\ res.backup = i.backup
        /\ res.dataSend = i.dataSend /\ res.waitReply = i.waitReply
    BY <1>4, <2>2 DEF State
  <2> HIDE DEF res
  <2>4. res.waitReply # Off
    BY <1>4, <1>9, <2>3 DEF Good
  <2>5. Good(res, S, b)
    BY <1>5, <2>3, <2>4, Rescheduled
  <2> QED
    BY <2>1, <2>5
<1>10. CASE i.status = "WAIT_SEND_ACK"
  <2>1. StatusProcess(m) = WaitReplyTimerProcess(i, TRUE, 0)
    BY <1>10 DEF StatusProcess, i
  <2> QED
    BY <1>5, <2>1, WaitReplyGood
<1>11. CASE i.status \notin {"WAIT_SEND_RTS", "WAIT_SEND_CTS", "WAIT_SEND_DATA", "WAIT_SEND_ACK"}
  <2>1. StatusProcess(m) = Await(i, i.status, i.slotnum)
    BY <1>11 DEF StatusProcess, i
  <2> QED
    BY <1>5, <1>6, <2>1, AwaitGood
<1> QED
  BY <1>7, <1>8, <1>9, <1>10, <1>11
----------------------------------------------------------------------------
(* Receiving *)

\* stopTimers leaves the train timer, the queues and the radio alone.
LEMMA StopTimersFacts ==
  ASSUME NEW S, NEW m, Core(m, S)
  PROVE  /\ stopTimers(m) \in State(S) /\ stopTimers(m).radio = m.radio
         /\ stopTimers(m).backup = m.backup /\ stopTimers(m).dataSend = m.dataSend
         /\ stopTimers(m).sending = m.sending /\ stopTimers(m).status = m.status
<1>1. Off \in Timer /\ NoFrame \in Answer \cup {NoFrame, Train}
  BY DEF Timer
<1> QED
  BY <1>1 DEF stopTimers, Core, State

\* A node that backs off has its backoff timer set.
LEMMA BackedOffGood ==
  ASSUME NEW S, NEW b, NEW m, Core(m, S), NEW k \in Nat
  PROVE  Good(Backoff(m, k), S, b)
<1> DEFINE x == stopTimers(m)
           res == Backoff(m, k)
<1>1. /\ x \in State(S) /\ x.radio = m.radio /\ x.backup = m.backup /\ x.dataSend = m.dataSend
      /\ k \in Timer /\ k # Off /\ "BACKOFF" \in SFAMA_Status
  BY StopTimersFacts DEF Timer, Off, SFAMA_Status
<1>2. res = [x EXCEPT !.status = "BACKOFF", !.backoff = k]
  BY DEF Backoff
<1> HIDE DEF x, res
<1>3. /\ res \in State(S)
      /\ res.radio = m.radio /\ res.backup = m.backup /\ res.dataSend = m.dataSend
      /\ res.backoff = k /\ res.status = "BACKOFF"
  BY <1>1, <1>2 DEF State
<1>4. Good(res, S, b)
  BY <1>1, <1>3, Rescheduled
<1> QED
  BY <1>4 DEF res

\* An answer is due at the next boundary.
LEMMA AnswerGood ==
  ASSUME NEW S, NEW b, NEW m, Core(m, S), NEW st \in {"WAIT_SEND_CTS", "WAIT_SEND_ACK"}, NEW f \in Answer
  PROVE  Good(SendAt([stopTimers(m) EXCEPT !.status = st], 1, f), S, b)
<1> DEFINE x == stopTimers(m)
           res == SendAt([x EXCEPT !.status = st], 1, f)
<1>1. /\ x \in State(S) /\ x.radio = m.radio /\ x.backup = m.backup /\ x.dataSend = m.dataSend
      /\ 1 \in Timer /\ 1 # Off /\ st \in SFAMA_Status /\ st # "WAIT_SEND_DATA"
  BY StopTimersFacts DEF Timer, Off, SFAMA_Status
<1> HIDE DEF x
<1>2. res = [x EXCEPT !.status = st, !.waitSend = 1, !.pkt = f]
  BY <1>1 DEF SendAt, State
<1> HIDE DEF res
<1>3. /\ res \in State(S)
      /\ res.radio = m.radio /\ res.backup = m.backup /\ res.dataSend = m.dataSend
      /\ res.waitSend = 1 /\ res.status = st
  BY <1>1, <1>2 DEF State
<1>4. Good(res, S, b)
  BY <1>1, <1>3, Rescheduled
<1> QED
  BY <1>4 DEF res, x

\* An RTS is answered, or backed off from.
LEMMA ProcessRTSGood ==
  ASSUME NEW n \in Node, NEW S, NEW b, NEW m, Good(m, S, b), NEW f \in Frame
  PROVE  Good(processRTS(m, n, f), S, b)
<1>1. f.SlotNum \in Nat /\ f.SA \in Node /\ TwoSeconds \in Nat /\ Core(m, S)
  BY FrameFacts, SFAMAAssumption DEF Good
<1>2. CASE f.DA # n
  <2>1. 1 + f.SlotNum + TwoSeconds \in Nat
    BY <1>1
  <2> QED
    BY <1>1, <1>2, <2>1, BackedOffGood DEF processRTS
<1>3. CASE f.DA = n /\ m.status \in {"IDLE_WAIT", "WAIT_SEND_RTS", "BACKOFF_FAIR"}
  <2>1. Control("CTS", n, f.SA, f.SlotNum) \in Answer
    BY <1>1, ControlFrame
  <2> QED
    BY <1>1, <1>3, <2>1, AnswerGood DEF processRTS
<1>4. CASE f.DA = n /\ m.status \notin {"IDLE_WAIT", "WAIT_SEND_RTS", "BACKOFF_FAIR"}
  BY <1>4 DEF processRTS
<1> QED
  BY <1>2, <1>3, <1>4

\* A CTS starts the train, or is backed off from.
LEMMA ProcessCTSGood ==
  ASSUME NEW n \in Node, NEW S, NEW b, NEW m, Good(m, S, b), NEW f \in Frame, NEW late \in {0, 1}
  PROVE  Good(processCTS(m, n, f, late), S, b)
<1>1. f.SlotNum \in Nat /\ OneSecond \in Nat /\ Core(m, S)
  BY FrameFacts, SFAMAAssumption DEF Good
<1>2. CASE f.DA = n /\ m.status = "WAIT_RECV_CTS"
  <2> DEFINE x == stopTimers(m)
             t == 2 + f.SlotNum + late
             res == SendAt([x EXCEPT !.status = "WAIT_SEND_DATA", !.waitReply = t], 1, Train)
  <2>1. /\ x \in State(S) /\ x.radio = m.radio /\ x.backup = m.backup /\ x.dataSend = m.dataSend
    BY <1>1, StopTimersFacts
  <2>2. t \in Nat
    BY <1>1
  <2>3. /\ 1 \in Timer /\ t \in Timer /\ t # Off /\ "WAIT_SEND_DATA" \in SFAMA_Status
        /\ Train \in Answer \cup {NoFrame, Train}
    <3> HIDE DEF t
    <3> QED
      BY <2>2 DEF Timer, Off, SFAMA_Status
  <2>4. processCTS(m, n, f, late) = res
    BY <1>2 DEF processCTS
  <2> HIDE DEF x, t
  <2>5. res = [x EXCEPT !.status = "WAIT_SEND_DATA", !.waitReply = t, !.waitSend = 1, !.pkt = Train]
    BY <2>1 DEF SendAt, State
  <2> HIDE DEF res
  <2>6. /\ res \in State(S)
        /\ res.radio = m.radio /\ res.backup = m.backup /\ res.dataSend = m.dataSend
        /\ res.waitReply = t
    BY <2>1, <2>3, <2>5 DEF State
  <2>7. Good(res, S, b)
    BY <1>1, <2>3, <2>6, Rescheduled
  <2> QED
    BY <2>4, <2>7
<1>3. CASE ~(f.DA = n /\ m.status = "WAIT_RECV_CTS")
  <2>1. 1 + f.SlotNum + OneSecond \in Nat
    BY <1>1
  <2> QED
    BY <1>1, <1>3, <2>1, BackedOffGood DEF processCTS
<1> QED
  BY <1>2, <1>3

\* Data is handed up, and the last of a train acknowledged.
LEMMA ProcessDATAGood ==
  ASSUME NEW n \in Node, NEW S, NEW b, NEW m, Good(m, S, b), NEW f \in Frame
  PROVE  Good(processDATA(m, n, f), S, b)
<1>1. f.SA \in Node /\ OneSecond \in Nat /\ Core(m, S)
  BY FrameFacts, SFAMAAssumption DEF Good
<1>2. Control("ACK", n, f.SA, 0) \in Answer /\ 1 + OneSecond \in Nat
  BY <1>1, ControlFrame
<1> QED
  BY <1>1, <1>2, AnswerGood, BackedOffGood DEF processDATA

\* An ACK lets go of the train and prepares the next one.
LEMMA ProcessACKGood ==
  ASSUME NEW n \in Node, NEW S, NEW b, NEW m, Good(m, S, b), NEW f \in Frame, NEW r \in Nat
  PROVE  Good(processACK(m, n, f, r), S, b)
<1>1. CASE Acknowledged(m, n, f)
  <2> DEFINE x == stopTimers(m)
             e == <<>>
             k == [x EXCEPT !.status = "IDLE_WAIT", !.sending = e]
  <2>1. Core(m, S) /\ e \in Seq(Frame) /\ "IDLE_WAIT" \in SFAMA_Status
    BY DEF Good, SFAMA_Status
  <2>2. /\ x \in State(S) /\ x.radio = m.radio /\ x.backup = m.backup /\ x.dataSend = m.dataSend
    BY <2>1, StopTimersFacts
  <2>3. processACK(m, n, f, r) = prepareSendingDATA(k, n, r)
    BY <1>1 DEF processACK
  <2> HIDE DEF x, e
  <2>4. /\ k \in State(S) /\ k.radio = m.radio /\ k.backup = m.backup /\ k.dataSend = m.dataSend
        /\ k.status = "IDLE_WAIT"
    BY <2>1, <2>2 DEF State
  <2> HIDE DEF k
  <2>5. Core(k, S)
    BY <2>1, <2>4 DEF Core
  <2> QED
    BY <2>3, <2>4, <2>5, PrepareGood
<1>2. CASE ~Acknowledged(m, n, f)
  BY <1>2 DEF processACK
<1> QED
  BY <1>1, <1>2

\* Whatever is received leaves a node good.
LEMMA RecvProcessGood ==
  ASSUME NEW n \in Node, NEW S, NEW b, NEW m, Good(m, S, b), NEW f \in Frame,
         NEW late \in {0, 1}, NEW r \in Nat
  PROVE  Good(RecvProcess(m, n, f, late, r), S, b)
<1>1. f.type \in {"RTS", "CTS", "ACK", "DATA"}
  BY FrameFacts
<1>2. CASE f.type = "RTS"
  BY <1>2, ProcessRTSGood DEF RecvProcess
<1>3. CASE f.type = "CTS"
  BY <1>3, ProcessCTSGood DEF RecvProcess
<1>4. CASE f.type = "DATA"
  BY <1>4, ProcessDATAGood DEF RecvProcess
<1>5. CASE f.type = "ACK"
  BY <1>5, ProcessACKGood DEF RecvProcess
<1> QED
  BY <1>1, <1>2, <1>3, <1>4, <1>5
----------------------------------------------------------------------------
(* The invariant *)

\* Who has something on the way to n.
Senders(n) == {s \in Node : <<s, n>> \in Hears /\ link[<<s, n>>] # <<>>}

\* n once had to send a control frame while its radio was busy.
Blocked(n) == <<n, "control">> \in dropped

NodesOK ==
  /\ mac = [n \in Node |-> mac[n]]
  /\ \A n \in Node : Good(mac[n], Senders(n), Blocked(n)) /\ Fresh(mac[n])

LinksOK ==
  /\ link = [l \in Hears |-> link[l]]
  /\ \A l \in Hears : link[l] \in Seq(Frame)

Kinds == {"control", "data"}

RestOK ==
  /\ todo \in [Node -> Seq(Packet)]
  /\ aborted \in BOOLEAN /\ dropped \subseteq Node \X Kinds

IInv == NodesOK /\ LinksOK /\ RestOK

\* The nodes a node hears are finitely many and have powers.
LEMMA SendersAudible == \A n \in Node : Audible(Senders(n)) /\ Senders(n) \subseteq Node
<1> SUFFICES ASSUME NEW n \in Node PROVE Audible(Senders(n)) /\ Senders(n) \subseteq Node
  OBVIOUS
<1>1. Senders(n) \subseteq Node
  BY DEF Senders
<1> QED
  BY <1>1, NodesAudible, FS_Subset DEF Audible

\* Another radio, whose channel only has signals of T.
LEMMA OtherRadio ==
  ASSUME NEW S, NEW T, NEW b, NEW m, Good(m, S, b), Fresh(m), NEW r, RadioInv(T, r)
  PROVE  Good([m EXCEPT !.radio = r], T, b) /\ Fresh([m EXCEPT !.radio = r])
<1> DEFINE res == [m EXCEPT !.radio = r]
<1>1. m \in State(S) /\ r \in RadioState(T)
  BY DEF Good, Core, RadioInv
<1>2. res \in State(T)
  BY <1>1 DEF State
<1>3. /\ res.radio = r /\ res.status = m.status /\ res.cached = m.cached
      /\ res.sending = m.sending /\ res.backup = m.backup
      /\ res.waitSend = m.waitSend /\ res.waitReply = m.waitReply /\ res.backoff = m.backoff
      /\ res.dataSend = m.dataSend /\ res.statusEvent = m.statusEvent
      /\ res.out = m.out /\ res.abort = m.abort /\ res.busy = m.busy
  BY <1>1 DEF State
<1> HIDE DEF res
<1>4. Good(res, T, b) /\ Fresh(res)
  BY <1>2, <1>3 DEF Good, Core, Engaged, Pending, Fresh
<1> QED
  BY <1>4 DEF res

\* A node is no worse off when more signals count as its own.
LEMMA MoreSenders ==
  ASSUME NEW S, Audible(S), NEW T, S \subseteq T, NEW b, NEW m, Good(m, S, b)
  PROVE  Good(m, T, b)
<1>1. m \in State(S) /\ RadioInv(S, m.radio) /\ m.radio.chan \in ChannelState(S)
  BY DEF Good, Core, RadioInv, RadioState
<1>2. RadioInv(T, m.radio)
  BY <1>1, ActiveIsFinite, RadioInvNarrow
<1>3. m \in State(T)
  BY <1>1, <1>2 DEF State, RadioInv
<1> QED
  BY <1>2, <1>3 DEF Good, Core

\* What a step has sent and whether it was dropped goes into the variables.
Settle(m) == [m EXCEPT !.out = NoFrame, !.busy = "nothing", !.abort = FALSE]

\* Between two steps nothing is left to be sent and busy radios are on record.
LEMMA SettleGood ==
  ASSUME NEW S, NEW b, NEW m, Good(m, S, b)
  PROVE  Good(Settle(m), S, b \/ m.busy = "control") /\ Fresh(Settle(m))
<1> DEFINE res == Settle(m)
<1>1. m \in State(S)
  BY DEF Good, Core
<1>2. res \in State(S)
  BY <1>1 DEF State, Settle
<1>3. /\ res.radio = m.radio /\ res.status = m.status /\ res.cached = m.cached
      /\ res.sending = m.sending /\ res.backup = m.backup
      /\ res.waitSend = m.waitSend /\ res.waitReply = m.waitReply /\ res.backoff = m.backoff
      /\ res.dataSend = m.dataSend /\ res.statusEvent = m.statusEvent
      /\ res.out = NoFrame /\ res.abort = FALSE /\ res.busy = "nothing"
  BY <1>1 DEF State, Settle
<1> HIDE DEF res
<1>4. Good(res, S, b \/ m.busy = "control") /\ Fresh(res)
  BY <1>2, <1>3 DEF Good, Core, Engaged, Pending, Fresh
<1> QED
  BY <1>4 DEF res

\* Frames are taken off links to n, and what n sends is put on its links.
LEMMA LinkMoves ==
  ASSUME LinksOK, NEW n, NEW out \in Frame \cup {NoFrame}, NEW ended,
         \A l \in ended : link[l] # <<>>, link' = Carry(link, n, out, ended)
  PROVE  LinksOK' /\ \A l \in Hears : link[l] # <<>> /\ l \notin ended => link'[l] # <<>>
<1>1. ASSUME NEW l \in Hears
      PROVE  link'[l] \in Seq(Frame) /\ (link[l] # <<>> /\ l \notin ended => link'[l] # <<>>)
  <2> DEFINE rest == IF l \in ended THEN Tail(link[l]) ELSE link[l]
  <2>1. link[l] \in Seq(Frame)
    BY DEF LinksOK
  <2>2. rest \in Seq(Frame) /\ (link[l] # <<>> /\ l \notin ended => rest # <<>>)
    BY <2>1, HeadTailProperties
  <2>3. link'[l] = IF l[1] = n /\ out # NoFrame THEN Append(rest, out) ELSE rest
    BY DEF Carry
  <2> HIDE DEF rest
  <2>4. out # NoFrame => Append(rest, out) \in Seq(Frame) /\ Append(rest, out) # <<>>
    BY <2>2, AppendProperties
  <2> QED
    BY <2>2, <2>3, <2>4
<1>2. link' = [l \in Hears |-> link'[l]]
  BY DEF Carry
<1> QED
  BY <1>1, <1>2 DEF LinksOK

\* A step of node n, to which the frames in ended have been received.
LEMMA Step ==
  ASSUME IInv, NEW n \in Node, NEW m, NEW S, NEW ended, Becomes(n, m, ended),
         Audible(S), Good(m, S, Blocked(n)),
         \A l \in ended : l[2] = n /\ link[l] # <<>>,
         \A s \in S : s \in Senders(n) /\ <<s, n>> \notin ended,
         todo' \in [Node -> Seq(Packet)]
  PROVE  IInv'
<1>1. /\ mac' = [mac EXCEPT ![n] = Settle(m)]
      /\ link' = Carry(link, n, m.out, ended)
      /\ aborted' = m.abort
      /\ dropped' = IF m.busy = "nothing" THEN dropped ELSE dropped \cup {<<n, m.busy>>}
  BY DEF Becomes, Settle
<1>2. m.out \in Frame \cup {NoFrame} /\ m.abort \in BOOLEAN /\ m.busy \in {"nothing"} \cup Kinds
  BY DEF Good, Core, State, Answer, Kinds
<1>3. mac = [k \in Node |-> mac[k]] /\ dropped \subseteq Node \X Kinds
  BY DEF IInv, NodesOK, RestOK
<1>4. LinksOK' /\ \A l \in Hears : link[l] # <<>> /\ l \notin ended => link'[l] # <<>>
  BY <1>1, <1>2, LinkMoves DEF IInv
<1>5. RestOK'
  BY <1>1, <1>2, <1>3 DEF RestOK, Kinds
<1>6. mac' = [k \in Node |-> mac'[k]] /\ mac'[n] = Settle(m)
      /\ \A k \in Node \ {n} : mac'[k] = mac[k]
  BY <1>1, <1>3
<1>7. ASSUME NEW k \in Node, NEW s \in Senders(k), <<s, k>> \notin ended PROVE s \in Senders(k)'
  BY <1>4, <1>7 DEF Senders
<1>8. Good(mac'[n], Senders(n)', Blocked(n)') /\ Fresh(mac'[n])
  <2>1. Good(Settle(m), S, Blocked(n) \/ m.busy = "control") /\ Fresh(Settle(m))
    BY SettleGood
  <2>2. S \subseteq Senders(n)'
    BY <1>7
  <2>3. Blocked(n)' <=> Blocked(n) \/ m.busy = "control"
    BY <1>1, <1>2 DEF Blocked
  <2>4. Good(Settle(m), Senders(n)', Blocked(n) \/ m.busy = "control")
    BY <2>1, <2>2, MoreSenders
  <2>5. Good(Settle(m), Senders(n)', Blocked(n)')
    BY <2>3, <2>4 DEF Good
  <2> QED
    BY <1>6, <2>1, <2>5
<1>9. ASSUME NEW k \in Node \ {n}
      PROVE  Good(mac'[k], Senders(k)', Blocked(k)') /\ Fresh(mac'[k])
  <2>1. Good(mac[k], Senders(k), Blocked(k)) /\ Fresh(mac[k])
    BY DEF IInv, NodesOK
  <2>2. Audible(Senders(k)) /\ Senders(k) \subseteq Senders(k)'
    BY <1>7, SendersAudible
  <2>3. Good(mac[k], Senders(k)', Blocked(k))
    BY <2>1, <2>2, MoreSenders
  <2>4. Blocked(k)' <=> Blocked(k)
    BY <1>1 DEF Blocked
  <2>5. Good(mac[k], Senders(k)', Blocked(k)')
    BY <2>3, <2>4 DEF Good
  <2> QED
    BY <1>6, <2>1, <2>5
<1>10. NodesOK'
  <2>1. ASSUME NEW k \in Node
        PROVE  Good(mac'[k], Senders(k)', Blocked(k)') /\ Fresh(mac'[k])
    BY <1>8, <1>9
  <2> QED
    BY <1>6, <2>1 DEF NodesOK
<1> QED
  BY <1>4, <1>5, <1>10 DEF IInv

\* A step of one node to which nothing was received.
LEMMA OwnStep ==
  ASSUME IInv, NEW n \in Node, NEW m, Becomes(n, m, {}), Good(m, Senders(n), Blocked(n)),
         todo' \in [Node -> Seq(Packet)]
  PROVE  IInv'
BY Step, SendersAudible

\* What the invariant says of one node.
LEMMA NodeFacts ==
  ASSUME IInv, NEW n \in Node
  PROVE  /\ Good(mac[n], Senders(n), Blocked(n)) /\ Fresh(mac[n]) /\ Audible(Senders(n))
         /\ todo \in [Node -> Seq(Packet)]
BY SendersAudible DEF IInv, NodesOK, RestOK

\* A random number of slots is natural.
LEMMA DrawFacts == \A r \in Draw : r \in Nat
  BY SFAMAAssumption DEF Draw

\* The initial states satisfy the invariant.
LEMMA InitIInv == Init => IInv
<1> SUFFICES ASSUME Init PROVE IInv
  OBVIOUS
<1>1. PICK g \in [Node -> UnsetSlotnum] : mac = [n \in Node |-> NewMac(g[n])]
  BY DEF Init
<1>2. link = EmptyLinks /\ todo = Traffic /\ aborted = FALSE /\ dropped = {}
  BY DEF Init
<1>3. \A n \in Node : g[n] \in Nat
  BY SFAMAAssumption
<1>4. ASSUME NEW n \in Node PROVE Good(mac[n], Senders(n), Blocked(n)) /\ Fresh(mac[n])
  <2> DEFINE m == mac[n]
             i == g[n]
  <2>1. RadioInv(Senders(n), InitRadio) /\ InitRadio \in RadioState(Senders(n))
    BY SendersAudible, InitRadioFacts DEF RadioInv
  <2>2. m = NewMac(i) /\ i \in Nat
    BY <1>1, <1>3
  <2>3. <<>> \in Seq(Frame) /\ Off \in Timer /\ "IDLE_WAIT" \in SFAMA_Status
    BY DEF Timer, SFAMA_Status
  <2> HIDE DEF m, i, InitRadio
  <2>4. m \in State(Senders(n))
    BY <2>1, <2>2, <2>3 DEF State, NewMac
  <2>5. /\ m.radio = InitRadio /\ m.status = "IDLE_WAIT" /\ m.cached = <<>> /\ m.sending = <<>>
        /\ m.backup = <<>> /\ m.out = NoFrame /\ m.busy = "nothing" /\ m.abort = FALSE
    BY <2>2 DEF NewMac
  <2>6. Good(m, Senders(n), Blocked(n)) /\ Fresh(m)
    BY <2>1, <2>4, <2>5 DEF Good, Core, Engaged, Fresh
  <2> QED
    BY <2>6 DEF m
<1>5. NodesOK
  BY <1>1, <1>4 DEF NodesOK
<1>6. LinksOK
  BY <1>2 DEF LinksOK, EmptyLinks
<1>7. RestOK
  BY <1>2, SFAMAAssumption DEF RestOK, Packet
<1> QED
  BY <1>5, <1>6, <1>7 DEF IInv
----------------------------------------------------------------------------
(* The actions *)

\* A packet comes from the layer above.
LEMMA SubmitIInv == ASSUME IInv, NEW n \in Node, Submit(n) PROVE IInv'
<1> DEFINE f == Data(n, Head(todo[n]))
<1>1. PICK r \in Draw : Becomes(n, TxProcess(mac[n], n, f, r), {})
  BY DEF Submit
<1>2. todo[n] # <<>> /\ todo' = [todo EXCEPT ![n] = Tail(@)]
  BY DEF Submit
<1>3. todo \in [Node -> Seq(Packet)] /\ r \in Nat
  BY NodeFacts, DrawFacts
<1>4. Head(todo[n]) \in Packet /\ Tail(todo[n]) \in Seq(Packet)
  BY <1>2, <1>3, HeadTailProperties
<1>5. f \in Frame /\ todo' \in [Node -> Seq(Packet)]
  BY <1>2, <1>3, <1>4, DataFrame
<1> HIDE DEF f
<1>6. Good(TxProcess(mac[n], n, f, r), Senders(n), Blocked(n))
  BY <1>3, <1>5, NodeFacts, TxProcessGood
<1> QED
  BY <1>1, <1>5, <1>6, OwnStep

\* The event of the end of a transmission.
LEMMA StatusHandlerIInv == ASSUME IInv, NEW n \in Node, StatusHandler(n) PROVE IInv'
<1>1. Becomes(n, StatusProcess(mac[n]), {}) /\ todo' = todo
  BY DEF StatusHandler
<1>2. Good(StatusProcess(mac[n]), Senders(n), Blocked(n))
  BY NodeFacts, StatusGood
<1> QED
  BY <1>1, <1>2, NodeFacts, OwnStep

\* WaitSendTimer fires at a node.
LEMMA WaitSendTimerIInv == ASSUME IInv, NEW n \in Node, WaitSendTimer(n) PROVE IInv'
<1>1. Becomes(n, WaitSendTimerProcess(SendAt(mac[n], Off, NoFrame), mac[n].pkt), {}) /\ todo' = todo
  BY DEF WaitSendTimer
<1>2. Good(WaitSendTimerProcess(SendAt(mac[n], Off, NoFrame), mac[n].pkt), Senders(n), Blocked(n))
  BY NodeFacts, WaitSendGood
<1> QED
  BY <1>1, <1>2, NodeFacts, OwnStep

\* WaitReplyTimer fires at a node.
LEMMA WaitReplyTimerIInv == ASSUME IInv, NEW n \in Node, WaitReplyTimer(n) PROVE IInv'
<1>1. PICK r \in Draw :
        Becomes(n, WaitReplyTimerProcess([mac[n] EXCEPT !.waitReply = Off], FALSE, r), {})
  BY DEF WaitReplyTimer
<1>2. Good(WaitReplyTimerProcess([mac[n] EXCEPT !.waitReply = Off], FALSE, r),
           Senders(n), Blocked(n))
  BY NodeFacts, DrawFacts, WaitReplyOver
<1>3. todo' = todo
  BY DEF WaitReplyTimer
<1> QED
  BY <1>1, <1>2, <1>3, NodeFacts, OwnStep

\* BackoffTimer fires at a node.
LEMMA BackoffTimerIInv == ASSUME IInv, NEW n \in Node, BackoffTimer(n) PROVE IInv'
<1>1. PICK r \in Draw : Becomes(n, BackoffTimerProcess([mac[n] EXCEPT !.backoff = Off], n, r), {})
  BY DEF BackoffTimer
<1>2. Good(BackoffTimerProcess([mac[n] EXCEPT !.backoff = Off], n, r), Senders(n), Blocked(n))
  BY NodeFacts, DrawFacts, BackoffGood
<1>3. todo' = todo
  BY DEF BackoffTimer
<1> QED
  BY <1>1, <1>2, <1>3, NodeFacts, OwnStep

\* DataSendTimer fires at a node.
LEMMA DataSendTimerIInv == ASSUME IInv, NEW n \in Node, DataSendTimer(n) PROVE IInv'
<1>1. mac[n].dataSend /\ Becomes(n, DataSendTimerProcess(mac[n]), {}) /\ todo' = todo
  BY DEF DataSendTimer
<1>2. Good(DataSendTimerProcess(mac[n]), Senders(n), Blocked(n))
  BY <1>1, NodeFacts, DataSendGood
<1> QED
  BY <1>1, <1>2, NodeFacts, OwnStep

\* The frame at the head of a link.
LEMMA HeadFacts ==
  ASSUME IInv, NEW s, NEW r, <<s, r>> \in Hears, link[<<s, r>>] # <<>>
  PROVE  /\ s \in Node /\ r \in Node /\ s \in Senders(r)
         /\ Head(link[<<s, r>>]) \in Frame
         /\ Audible(Senders(r) \ {s}) /\ Senders(r) \ {s} \subseteq Node
<1>1. s \in Node /\ r \in Node
  BY MediumAssumption
<1>2. link[<<s, r>>] \in Seq(Frame)
  BY DEF IInv, LinksOK
<1>3. Audible(Senders(r)) /\ Senders(r) \subseteq Node
  BY <1>1, SendersAudible
<1>4. Audible(Senders(r) \ {s})
  BY <1>3, FS_Subset DEF Audible
<1> QED
  BY <1>1, <1>2, <1>3, <1>4, HeadTailProperties DEF Senders

\* What is on the channel of a node is on a link to it.
LEMMA HeardIsSender ==
  ASSUME IInv, NEW r \in Node, NEW s, Heard(mac[r].radio, s)
  PROVE  link[<<s, r>>] # <<>> /\ <<s, r>> \in Hears
<1>1. mac[r].radio.chan \in ChannelState(Senders(r)) /\ Audible(Senders(r))
  BY NodeFacts DEF Good, Core, RadioInv, RadioState
<1> QED
  BY <1>1, ActiveIsFinite DEF Heard, Senders

\* Nothing is sent when the head of a frame arrives.
LEMMA SilentLinks ==
  ASSUME LinksOK, NEW n, NEW ended
  PROVE  Carry(link, n, NoFrame, ended) =
           [l \in Hears |-> IF l \in ended THEN Tail(link[l]) ELSE link[l]]
BY DEF Carry

\* An arrival is a step of the node that it reaches.
LEMMA ArriveBecomes ==
  ASSUME IInv, NEW s, NEW r, <<s, r>> \in Hears, Arrive(s, r)
  PROVE  /\ DeafRadio(mac[r].radio) => Becomes(r, mac[r], {<<s, r>>})
         /\ ~DeafRadio(mac[r].radio) =>
              Becomes(r, [mac[r] EXCEPT !.radio = RecvUp(mac[r].radio, s)], {})
<1> DEFINE l0 == <<s, r>>
           S == Senders(r)
<1>1. /\ ~aborted /\ link[l0] # <<>> /\ ~Heard(mac[r].radio, s)
      /\ aborted' = aborted /\ dropped' = dropped
  BY DEF Arrive
<1>2. r \in Node /\ s \in S
  BY <1>1, HeadFacts
<1>3. Good(mac[r], S, Blocked(r)) /\ Fresh(mac[r]) /\ Audible(S)
  BY <1>2, NodeFacts
<1>4. link = [l \in Hears |-> link[l]] /\ mac = [n \in Node |-> mac[n]] /\ LinksOK
      /\ aborted = FALSE
  BY <1>1 DEF IInv, LinksOK, NodesOK, RestOK
<1>5. RadioInv(S, mac[r].radio) /\ mac[r] \in State(S)
  BY <1>3 DEF Good, Core
<1>6. CASE DeafRadio(mac[r].radio)
  <2> DEFINE m == mac[r]
  <2>1. link' = [link EXCEPT ![l0] = Tail(@)] /\ mac' = mac
    BY <1>6 DEF Arrive
  <2>2. m.out = NoFrame /\ m.busy = "nothing" /\ m.abort = FALSE
    BY <1>3, <1>5 DEF Fresh, State
  <2>3. Settle(m) = m
    <3> HIDE DEF m
    <3>1. m \in State(S)
      BY <1>5 DEF m
    <3> QED
      BY <2>2, <3>1 DEF Settle, State
  <2>4. mac' = [mac EXCEPT ![r] = Settle(m)]
    BY <1>2, <1>4, <2>1, <2>3
  <2>5. link' = Carry(link, r, NoFrame, {l0})
    <3>1. link' = [l \in Hears |-> IF l \in {l0} THEN Tail(link[l]) ELSE link[l]]
      BY <1>4, <2>1
    <3> HIDE DEF l0
    <3> QED
      BY <1>4, <3>1, SilentLinks
  <2> QED
    BY <1>1, <1>4, <1>6, <2>2, <2>4, <2>5 DEF Becomes, Settle
<1>7. CASE ~DeafRadio(mac[r].radio)
  <2> DEFINE q == RecvUp(mac[r].radio, s)
             m == [mac[r] EXCEPT !.radio = q]
  <2>1. mac' = [mac EXCEPT ![r].radio = RecvUp(@, s)] /\ link' = link
    BY <1>7 DEF Arrive
  <2>2. RadioInv(S, q)
    BY <1>1, <1>2, <1>3, <1>5, RecvUpFacts DEF Heard
  <2>3. mac' = [mac EXCEPT ![r] = m]
    BY <2>1
  <2> HIDE DEF q, S
  <2>4. Good(m, S, Blocked(r)) /\ Fresh(m)
    BY <1>3, <2>2, OtherRadio
  <2> HIDE DEF m
  <2>5. m.out = NoFrame /\ m.busy = "nothing" /\ m.abort = FALSE /\ m \in State(S)
    BY <2>4 DEF Good, Core, Fresh, State
  <2>6. Settle(m) = m
    BY <2>5 DEF Settle, State
  <2>7. link' = Carry(link, r, NoFrame, {})
    BY <1>4, <2>1, SilentLinks
  <2>8. Becomes(r, m, {})
    BY <1>1, <1>4, <2>3, <2>5, <2>6, <2>7 DEF Becomes, Settle
  <2> QED
    BY <1>7, <2>8 DEF m, q
<1> QED
  BY <1>6, <1>7

\* The head of a frame reaches r, which may be deaf to it.
LEMMA ArriveIInv == ASSUME IInv, NEW s, NEW r, <<s, r>> \in Hears, Arrive(s, r) PROVE IInv'
<1> DEFINE l0 == <<s, r>>
           S == Senders(r)
           m == mac[r]
           q == RecvUp(m.radio, s)
<1>1. link[l0] # <<>> /\ ~Heard(m.radio, s) /\ todo' = todo
  BY DEF Arrive
<1>2. s \in Node /\ r \in Node /\ s \in S /\ Audible(S \ {s})
  BY <1>1, HeadFacts
<1>3. Good(m, S, Blocked(r)) /\ Fresh(m) /\ Audible(S) /\ todo' \in [Node -> Seq(Packet)]
  BY <1>1, <1>2, NodeFacts
<1>4. RadioInv(S, m.radio) /\ m.radio.chan \in ChannelState(S) /\ m \in State(S)
  BY <1>3 DEF Good, Core, RadioInv, RadioState
<1>5. CASE DeafRadio(m.radio)
  <2>1. Becomes(r, m, {l0})
    BY <1>5, ArriveBecomes
  <2>2. Good(m, S \ {s}, Blocked(r))
    <3> HIDE DEF S
    <3>1. Active(m.radio.chan) \subseteq S \ {s}
      BY <1>1, <1>3, <1>4, ActiveIsFinite DEF Heard
    <3>2. RadioInv(S \ {s}, m.radio)
      BY <1>3, <1>4, <3>1, RadioInvNarrow
    <3> HIDE DEF m
    <3>3. m \in State(S \ {s})
      BY <1>4, <3>2 DEF RadioInv, State
    <3> QED
      BY <1>3, <3>2, <3>3 DEF Good, Core
  <2>3. /\ \A l \in {l0} : l[2] = r /\ link[l] # <<>>
        /\ \A k \in S \ {s} : k \in Senders(r) /\ <<k, r>> \notin {l0}
    BY <1>1
  <2> HIDE DEF m, l0, S
  <2> QED
    BY <1>2, <1>3, <2>1, <2>2, <2>3, Step
<1>6. CASE ~DeafRadio(m.radio)
  <2>1. Becomes(r, [m EXCEPT !.radio = q], {})
    BY <1>6, ArriveBecomes
  <2>2. RadioInv(S, q)
    BY <1>1, <1>2, <1>3, <1>4, RecvUpFacts DEF Heard
  <2> HIDE DEF q, S, m
  <2>3. Good([m EXCEPT !.radio = q], S, Blocked(r))
    BY <1>3, <2>2, OtherRadio
  <2> QED
    BY <1>2, <1>3, <2>1, <2>3, OwnStep DEF S
<1> QED
  BY <1>5, <1>6

\* The end of a frame reaches r, which handles what its radio decoded.
LEMMA RecvIInv == ASSUME IInv, NEW s, NEW r, <<s, r>> \in Hears, Recv(s, r) PROVE IInv'
<1> DEFINE l0 == <<s, r>>
           S == Senders(r) \ {s}
           f == Head(link[l0])
           q == Ended(mac[r].radio, s)
           m == [mac[r] EXCEPT !.radio = q]
<1>1. Heard(mac[r].radio, s) /\ todo' = todo /\ r \in Node
  BY MediumAssumption DEF Recv
<1>2. link[l0] # <<>>
  BY <1>1, HeardIsSender
<1>3. f \in Frame /\ Audible(S)
  BY <1>2, HeadFacts
<1>4. Good(mac[r], Senders(r), Blocked(r)) /\ Fresh(mac[r]) /\ Audible(Senders(r))
      /\ todo \in [Node -> Seq(Packet)]
  BY <1>1, NodeFacts
<1>5. RadioInv(Senders(r), mac[r].radio)
  BY <1>4 DEF Good, Core
<1>6. RadioInv(Senders(r), q) /\ Active(q.chan) = Active(mac[r].radio.chan) \ {s}
  <2>1. q = ResetCarrierSense(EndReception(mac[r].radio, s)) /\ s \in Active(mac[r].radio.chan)
    BY <1>1 DEF Ended, Heard
  <2> HIDE DEF Active, q
  <2> QED
    BY <1>4, <1>5, <2>1, EndReceptionFacts, ZenonT(60)
<1>7. RadioInv(S, q)
  <2>1. q.chan \in ChannelState(Senders(r))
    BY <1>6 DEF RadioInv, RadioState
  <2>2. Active(q.chan) \subseteq S
    <3> HIDE DEF q
    <3> QED
      BY <1>4, <1>6, <2>1, ActiveIsFinite
  <2> HIDE DEF q, S
  <2> QED
    BY <1>4, <1>6, <2>2, RadioInvNarrow
<1>8. PICK late \in {0, 1}, d \in Draw : Becomes(r, RecvProcess(m, r, f, late, d), {l0})
  BY DEF Recv
<1> HIDE DEF q, S, f
<1>9. Good(m, S, Blocked(r))
  BY <1>4, <1>7, OtherRadio
<1> HIDE DEF m
<1>10. Good(RecvProcess(m, r, f, late, d), S, Blocked(r))
  BY <1>1, <1>3, <1>9, DrawFacts, RecvProcessGood
<1>11. /\ \A l \in {l0} : l[2] = r /\ link[l] # <<>>
       /\ \A k \in S : k \in Senders(r) /\ <<k, r>> \notin {l0}
  BY <1>2 DEF S
<1>12. todo' \in [Node -> Seq(Packet)]
  BY <1>1, <1>4
<1> HIDE DEF l0
<1> QED
  BY <1>1, <1>3, <1>8, <1>10, <1>11, <1>12, Step

\* One boundary less to wait for; what is awaited stays awaited.
LEMMA LessFacts ==
  ASSUME NEW t \in Timer, t # 0
  PROVE  Less(t) \in Timer /\ (Less(t) # Off <=> t # Off)
BY DEF Timer, Less, Off

\* A slot boundary passes for every timer.
LEMMA BoundaryIInv == ASSUME IInv, Boundary PROVE IInv'
<1>1. /\ ~aborted /\ SlotOver
      /\ mac' = [n \in Node |->
                   [mac[n] EXCEPT !.waitSend = Less(@), !.waitReply = Less(@), !.backoff = Less(@),
                                  !.train = IF TrainUnderWay(n) THEN @ - 1 ELSE 0]]
      /\ link' = link /\ todo' = todo /\ aborted' = aborted /\ dropped' = dropped
  BY DEF Boundary
<1>2. ASSUME NEW n \in Node
      PROVE  Good(mac'[n], Senders(n)', Blocked(n)') /\ Fresh(mac'[n])
  <2> DEFINE m == mac[n]
             S == Senders(n)
             a == Less(m.waitSend)
             c == Less(m.waitReply)
             d == Less(m.backoff)
             t == IF TrainUnderWay(n) THEN m.train - 1 ELSE 0
             res == [m EXCEPT !.waitSend = a, !.waitReply = c, !.backoff = d, !.train = t]
  <2>1. Good(m, S, Blocked(n)) /\ Fresh(m) /\ m \in State(S)
    BY NodeFacts DEF Good, Core
  <2>2. m.waitSend # 0 /\ m.waitReply # 0 /\ m.backoff # 0 /\ (TrainUnderWay(n) => m.train > 0)
    BY <1>1 DEF SlotOver, Settled
  <2>3. mac'[n] = res
    BY <1>1
  <2> HIDE DEF m, S
  <2>4. m.waitSend \in Timer /\ m.waitReply \in Timer /\ m.backoff \in Timer /\ m.train \in Nat
    BY <2>1, StateFacts
  <2>5. /\ a \in Timer /\ c \in Timer /\ d \in Timer
        /\ a # Off <=> m.waitSend # Off
        /\ c # Off <=> m.waitReply # Off
        /\ d # Off <=> m.backoff # Off
    BY <2>2, <2>4, LessFacts
  <2>6. t \in Nat
    BY <2>2, <2>4
  <2> HIDE DEF a, c, d, t
  <2>7. res \in State(S)
    BY <2>1, <2>5, <2>6 DEF State
  <2>8. /\ res.radio = m.radio /\ res.status = m.status /\ res.cached = m.cached
        /\ res.sending = m.sending /\ res.backup = m.backup
        /\ res.waitSend = a /\ res.waitReply = c /\ res.backoff = d
        /\ res.dataSend = m.dataSend /\ res.statusEvent = m.statusEvent
        /\ res.out = m.out /\ res.abort = m.abort /\ res.busy = m.busy
    BY <2>1 DEF State
  <2> HIDE DEF res
  <2>9. Good(res, S, Blocked(n)) /\ Fresh(res)
    BY <2>1, <2>5, <2>7, <2>8 DEF Good, Core, Engaged, Pending, Fresh
  <2>10. Senders(n)' = S /\ (Blocked(n)' <=> Blocked(n))
    BY <1>1 DEF Senders, S, Blocked
  <2>11. Good(res, Senders(n)', Blocked(n)')
    BY <2>9, <2>10 DEF Good
  <2> QED
    BY <2>3, <2>9, <2>11
<1>3. mac' = [n \in Node |-> mac'[n]]
  BY <1>1
<1>4. NodesOK'
  BY <1>2, <1>3 DEF NodesOK
<1>5. LinksOK' /\ RestOK'
  BY <1>1 DEF IInv, LinksOK, RestOK
<1> QED
  BY <1>4, <1>5 DEF IInv

\* A link is the pair of its ends.
LEMMA HearsPairs == \A l \in Hears : <<l[1], l[2]>> = l
  BY MediumAssumption

\* Every step keeps the invariant: one case for each disjunct of Next.
LEMMA NextIInv == IInv /\ [Next]_vars => IInv'
<1> SUFFICES ASSUME IInv, [Next]_vars PROVE IInv'
  OBVIOUS
<1>1. ASSUME NEW n \in Node, Submit(n) PROVE IInv'
  BY <1>1, SubmitIInv
<1>2. ASSUME NEW n \in Node, StatusHandler(n) PROVE IInv'
  BY <1>2, StatusHandlerIInv
<1>3. ASSUME NEW n \in Node, WaitSendTimer(n) PROVE IInv'
  BY <1>3, WaitSendTimerIInv
<1>4. ASSUME NEW n \in Node, WaitReplyTimer(n) PROVE IInv'
  BY <1>4, WaitReplyTimerIInv
<1>5. ASSUME NEW n \in Node, BackoffTimer(n) PROVE IInv'
  BY <1>5, BackoffTimerIInv
<1>6. ASSUME NEW n \in Node, DataSendTimer(n) PROVE IInv'
  BY <1>6, DataSendTimerIInv
<1>7. ASSUME NEW l \in Hears, Arrive(l[1], l[2]) PROVE IInv'
  BY <1>7, HearsPairs, ArriveIInv
<1>8. ASSUME NEW l \in Hears, Recv(l[1], l[2]) PROVE IInv'
  BY <1>8, HearsPairs, RecvIInv
<1>9. CASE Boundary
  BY <1>9, BoundaryIInv
<1>10. CASE UNCHANGED vars
  <2>1. mac' = mac /\ link' = link /\ todo' = todo /\ aborted' = aborted /\ dropped' = dropped
    BY <1>10 DEF vars
  <2>2. \A n \in Node : Senders(n)' = Senders(n)
    BY <2>1 DEF Senders
  <2>3. NodesOK'
    BY <2>1, <2>2 DEF IInv, NodesOK, Blocked
  <2> QED
    BY <2>1, <2>3 DEF IInv, LinksOK, RestOK
<1> QED
  BY <1>1, <1>2, <1>3, <1>4, <1>5, <1>6, <1>7, <1>8, <1>9, <1>10 DEF Next
----------------------------------------------------------------------------
(* The packets of one receiver *)

\* Whatever has each element of I where its place says is what Pick returns.
LEMMA PickIs ==
  ASSUME NEW T, NEW q \in Seq(T), NEW I, I \subseteq DOMAIN q,
         NEW s \in Seq(T), Len(s) = Cardinality(I), \A j \in I : s[Place(I, j)] = q[j]
  PROVE  Pick(q, I) = s
<1>1. DOMAIN q = 1 .. Len(q) /\ Len(q) \in Nat
  OBVIOUS
<1>2. \A i \in 1 .. Cardinality(I) : \E j \in I : Place(I, j) = i
  BY <1>1, PlaceFacts
<1>3. /\ Pick(q, I) \in Seq(T) /\ Len(Pick(q, I)) = Cardinality(I)
      /\ \A j \in I : Pick(q, I)[Place(I, j)] = q[j]
  BY PickFacts
<1>4. \A i \in 1 .. Cardinality(I) : Pick(q, I)[i] = s[i]
  BY <1>2, <1>3
<1> QED
  BY <1>3, <1>4

\* The first place, and all the others.
LEMMA PickHead ==
  ASSUME NEW T, NEW q \in Seq(T), q # <<>>
  PROVE  Pick(q, {1}) = <<Head(q)>> /\ Pick(q, DOMAIN q \ {1}) = Tail(q)
<1>1. /\ DOMAIN q = 1 .. Len(q) /\ Len(q) \in Nat /\ Len(q) >= 1 /\ q[1] = Head(q)
      /\ Head(q) \in T /\ Tail(q) \in Seq(T) /\ Len(Tail(q)) = Len(q) - 1
      /\ \A i \in 1 .. (Len(q) - 1) : Tail(q)[i] = q[i + 1]
  BY HeadTailProperties
<1>2. Pick(q, {1}) = <<Head(q)>>
  <2>1. UpTo({1}, 1) = {1}
    BY DEF UpTo
  <2>2. Place({1}, 1) = 1 /\ Cardinality({1}) = 1
    BY <2>1, FS_Singleton DEF Place
  <2>3. <<Head(q)>> \in Seq(T) /\ Len(<<Head(q)>>) = 1 /\ <<Head(q)>>[1] = q[1]
    BY <1>1
  <2> DEFINE s == <<Head(q)>>
             I == {1}
  <2>4. s \in Seq(T) /\ Len(s) = Cardinality(I) /\ I \subseteq DOMAIN q
        /\ \A j \in I : s[Place(I, j)] = q[j]
    BY <1>1, <2>2, <2>3
  <2> HIDE DEF s, I
  <2>5. Pick(q, I) = s
    BY <2>4, PickIs
  <2> QED
    BY <2>5 DEF s, I
<1>3. Pick(q, DOMAIN q \ {1}) = Tail(q)
  <2> DEFINE I == 2 .. Len(q)
  <2>1. DOMAIN q \ {1} = I
    BY <1>1
  <2>2. Cardinality(I) = Len(q) - 1
    BY <1>1, FS_Interval
  <2>3. ASSUME NEW j \in I PROVE Tail(q)[Place(I, j)] = q[j]
    <3>1. UpTo(I, j) = 2 .. j
      BY <1>1, <2>3 DEF UpTo
    <3>2. Cardinality(2 .. j) = j - 1
      BY <2>3, FS_Interval
    <3>3. Place(I, j) = j - 1 /\ j - 1 \in 1 .. (Len(q) - 1)
      BY <1>1, <2>3, <3>1, <3>2 DEF Place
    <3> QED
      BY <1>1, <2>3, <3>3
  <2> HIDE DEF I
  <2>4. I \subseteq DOMAIN q
    BY <2>1
  <2> DEFINE s == Tail(q)
  <2>5. s \in Seq(T) /\ Len(s) = Cardinality(I) /\ \A j \in I : s[Place(I, j)] = q[j]
    BY <1>1, <2>2, <2>3
  <2> HIDE DEF s
  <2>6. Pick(q, I) = s
    BY <2>4, <2>5, PickIs
  <2> QED
    BY <2>1, <2>6 DEF s
<1> QED
  BY <1>2, <1>3

\* A packet at the end of a queue is last among those for its receiver.
LEMMA ForAppend ==
  ASSUME NEW q \in Seq(Frame), NEW f \in Frame, NEW r
  PROVE  /\ For(r, q) \in Seq(Frame)
         /\ For(r, Append(q, f)) = IF f.DA = r THEN Append(For(r, q), f) ELSE For(r, q)
<1> DEFINE G == Append(q, f)
           k == Len(q) + 1
           I == {i \in DOMAIN q : q[i].DA = r}
           J == {i \in DOMAIN G : G[i].DA = r}
<1>1. /\ DOMAIN q = 1 .. Len(q) /\ Len(q) \in Nat /\ DOMAIN G = 1 .. k /\ G \in Seq(Frame)
      /\ \A i \in 1 .. Len(q) : G[i] = q[i]
      /\ G[k] = f
  BY AppendProperties
<1>2. For(r, q) = Pick(q, I) /\ For(r, G) = Pick(G, J)
  BY DEF For
<1>3. I \subseteq DOMAIN q /\ J \subseteq DOMAIN G /\ I \subseteq 1 .. Len(q)
  OBVIOUS
<1>4. J = IF f.DA = r THEN I \cup {k} ELSE I
  <2> HIDE DEF G
  <2> QED
    BY <1>1
<1> DEFINE s == Pick(q, I)
<1>5. /\ s \in Seq(Frame) /\ Len(s) = Cardinality(I)
      /\ \A j \in I : s[Place(I, j)] = q[j]
  BY <1>3, PickFacts
<1>6. IsFiniteSet(I) /\ \A j \in I : Place(I, j) \in 1 .. Cardinality(I)
  BY <1>1, <1>3, PlaceFacts
<1>7. \A j \in I : G[j] = q[j] /\ j < k
  BY <1>1, <1>3
<1>8. k \notin I
  BY <1>1
<1> HIDE DEF G, I, J, s
<1>9. CASE f.DA # r
  <2>1. J = I
    BY <1>4, <1>9
  <2>2. Pick(G, J) = s
    BY <1>1, <1>3, <1>5, <1>7, <2>1, PickIs
  <2> QED
    BY <1>2, <1>5, <1>9, <2>2 DEF G, s
<1>10. CASE f.DA = r
  <2> DEFINE e == Append(s, f)
  <2>1. J = I \cup {k}
    BY <1>4, <1>10
  <2>2. Cardinality(J) = Cardinality(I) + 1
    BY <1>6, <1>8, <2>1, FS_AddElement
  <2>3. /\ e \in Seq(Frame) /\ Len(e) = Cardinality(J) /\ e[Len(s) + 1] = f
        /\ \A i \in 1 .. Len(s) : e[i] = s[i]
    BY <1>5, <2>2, AppendProperties
  <2> HIDE DEF e
  <2>4. ASSUME NEW j \in I PROVE e[Place(J, j)] = G[j]
    <3>1. UpTo(J, j) = UpTo(I, j)
      BY <1>1, <1>3, <1>7, <2>1, <2>4 DEF UpTo
    <3> QED
      BY <1>5, <1>6, <1>7, <2>3, <2>4, <3>1 DEF Place
  <2>5. e[Place(J, k)] = G[k]
    <3>1. UpTo(J, k) = J
      BY <1>1, <1>3, <1>7, <2>1 DEF UpTo
    <3> QED
      BY <1>1, <1>5, <2>2, <2>3, <3>1 DEF Place
  <2>6. \A j \in J : e[Place(J, j)] = G[j]
    BY <2>1, <2>4, <2>5
  <2>7. Pick(G, J) = e
    BY <1>1, <1>3, <2>3, <2>6, PickIs, SMTT(30)
  <2> QED
    BY <1>2, <1>5, <1>10, <2>7 DEF G, s, e
<1> QED
  BY <1>9, <1>10

\* A set has the size of the same set one further.
LEMMA ShiftedSize ==
  ASSUME NEW I, I \subseteq Nat, IsFiniteSet(I), NEW K, K = {i + 1 : i \in I}
  PROVE  IsFiniteSet(K) /\ Cardinality(K) = Cardinality(I)
<1> DEFINE g == [i \in I |-> i + 1]
<1>1. g \in [I -> K] /\ IsInjective(g)
  BY DEF IsInjective
<1>2. \A k \in K : \E i \in I : g[i] = k
  OBVIOUS
<1> HIDE DEF g
<1>3. g \in Bijection(I, K)
  BY <1>1, <1>2 DEF Bijection, Injection, Surjection
<1>4. ExistsBijection(I, K)
  BY <1>3 DEF ExistsBijection
<1> QED
  BY <1>4, FS_Bijection

\* A packet at the head of a queue is first among those for its receiver.
LEMMA ForCons ==
  ASSUME NEW q \in Seq(Frame), NEW p \in Frame, NEW r
  PROVE  For(r, <<p>> \o q) = IF p.DA = r THEN <<p>> \o For(r, q) ELSE For(r, q)
<1> DEFINE G == <<p>> \o q
           I == {i \in DOMAIN q : q[i].DA = r}
           J == {i \in DOMAIN G : G[i].DA = r}
           K == {i + 1 : i \in I}
<1>1. /\ DOMAIN q = 1 .. Len(q) /\ Len(q) \in Nat /\ G \in Seq(Frame)
      /\ DOMAIN G = 1 .. Len(q) + 1
      /\ \A i \in 1 .. Len(q) : G[i + 1] = q[i]
      /\ G[1] = p
  BY ConcatProperties
<1>2. For(r, q) = Pick(q, I) /\ For(r, G) = Pick(G, J)
  BY DEF For
<1>3. I \subseteq DOMAIN q /\ J \subseteq DOMAIN G /\ I \subseteq 1 .. Len(q) /\ I \subseteq Nat
  BY <1>1
<1>4. \A i \in DOMAIN G \ {1} : i - 1 \in DOMAIN q /\ G[i] = q[i - 1]
  <2> HIDE DEF G
  <2> QED
    BY <1>1
<1>5. J = IF p.DA = r THEN K \cup {1} ELSE K
  <2>1. \A j : j \in K <=> j \in DOMAIN G \ {1} /\ G[j].DA = r
    <3> SUFFICES ASSUME NEW j PROVE j \in K <=> j \in DOMAIN G \ {1} /\ G[j].DA = r
      OBVIOUS
    <3>1. j \in K <=> \E i \in DOMAIN q : q[i].DA = r /\ j = i + 1
      OBVIOUS
    <3> HIDE DEF G, K
    <3>2. ASSUME NEW i \in DOMAIN q, q[i].DA = r, j = i + 1
          PROVE j \in DOMAIN G \ {1} /\ G[j].DA = r
      BY <1>1, <3>2
    <3>3. ASSUME j \in DOMAIN G \ {1}, G[j].DA = r
          PROVE  j - 1 \in DOMAIN q /\ q[j - 1].DA = r /\ j = (j - 1) + 1
      BY <1>1, <1>4, <3>3
    <3> QED
      BY <3>1, <3>2, <3>3
  <2>2. 1 \in DOMAIN G /\ G[1] = p
    BY <1>1
  <2>3. \A j : j \in J <=> j \in DOMAIN G /\ G[j].DA = r
    OBVIOUS
  <2> HIDE DEF G, J, K
  <2> QED
    BY <2>1, <2>2, <2>3
<1> DEFINE s == Pick(q, I)
<1>6. /\ s \in Seq(Frame) /\ Len(s) = Cardinality(I)
      /\ \A j \in I : s[Place(I, j)] = q[j]
  BY <1>3, PickFacts
<1>7. /\ IsFiniteSet(I) /\ Cardinality(I) \in Nat
      /\ \A j \in I : IsFiniteSet(UpTo(I, j)) /\ Place(I, j) \in 1 .. Cardinality(I)
  BY <1>1, <1>3, PlaceFacts
<1>8. IsFiniteSet(K) /\ Cardinality(K) = Cardinality(I) /\ 1 \notin K
  <2>1. IsFiniteSet(K) /\ Cardinality(K) = Cardinality(I)
    BY <1>3, <1>7, ShiftedSize
  <2>2. 1 \notin K
    BY <1>3
  <2> QED
    BY <2>1, <2>2
<1>9. ASSUME NEW j \in I
      PROVE  /\ IsFiniteSet(UpTo(K, j + 1)) /\ Place(K, j + 1) = Place(I, j)
             /\ UpTo(K \cup {1}, j + 1) = UpTo(K, j + 1) \cup {1} /\ 1 \notin UpTo(K, j + 1)
  <2> DEFINE U == UpTo(I, j)
  <2>1. U \subseteq Nat /\ IsFiniteSet(U)
    BY <1>3, <1>7 DEF UpTo
  <2>2. UpTo(K, j + 1) = {i + 1 : i \in U}
    <3>1. \A i \in I : i + 1 <= j + 1 <=> i <= j
      BY <1>3
    <3>2. UpTo(K, j + 1) = {k \in {i + 1 : i \in I} : k <= j + 1}
      BY DEF UpTo
    <3>3. U = {i \in I : i <= j}
      BY DEF UpTo
    <3> HIDE DEF I, U
    <3> QED
      BY <3>1, <3>2, <3>3
  <2>3. IsFiniteSet(UpTo(K, j + 1)) /\ Cardinality(UpTo(K, j + 1)) = Cardinality(U)
    <3> HIDE DEF U, K
    <3> QED
      BY <2>1, <2>2, ShiftedSize
  <2>4. 1 <= j + 1
    BY <1>3
  <2>5. UpTo(K \cup {1}, j + 1) = UpTo(K, j + 1) \cup {1}
    BY <2>4 DEF UpTo
  <2>6. 1 \notin UpTo(K, j + 1)
    BY <1>8 DEF UpTo
  <2> QED
    BY <2>3, <2>5, <2>6 DEF Place
<1>10. \A j \in K : \E i \in I : j = i + 1
  OBVIOUS
<1>11. \A i \in I : G[i + 1] = q[i]
  BY <1>1, <1>3
<1> HIDE DEF G, I, J, K, s
<1>12. CASE p.DA # r
  <2>1. J = K
    BY <1>5, <1>12
  <2>2. \A j \in J : s[Place(J, j)] = G[j]
    BY <1>6, <1>9, <1>10, <1>11, <2>1
  <2>3. Pick(G, J) = s
    BY <1>1, <1>3, <1>6, <1>8, <2>1, <2>2, PickIs
  <2> QED
    BY <1>2, <1>12, <2>3 DEF G, s
<1>13. CASE p.DA = r
  <2> DEFINE e == <<p>> \o s
  <2>1. J = K \cup {1}
    BY <1>5, <1>13
  <2>2. Cardinality(J) = Cardinality(I) + 1
    BY <1>8, <2>1, FS_AddElement
  <2>3. /\ e \in Seq(Frame) /\ Len(e) = Cardinality(J) /\ e[1] = p
        /\ \A i \in 1 .. Len(s) : e[i + 1] = s[i]
    BY <1>6, <1>7, <2>2, ConcatProperties
  <2> HIDE DEF e
  <2>4. ASSUME NEW j \in I PROVE e[Place(J, j + 1)] = G[j + 1]
    <3>1. Place(J, j + 1) = Place(I, j) + 1
      <4> DEFINE V == UpTo(K, j + 1)
      <4>1. UpTo(J, j + 1) = V \cup {1} /\ 1 \notin V /\ IsFiniteSet(V)
            /\ Cardinality(V) = Place(I, j)
        BY <1>9, <2>1, <2>4 DEF Place
      <4> HIDE DEF V
      <4>2. Cardinality(V \cup {1}) = Cardinality(V) + 1
        BY <4>1, FS_AddElement
      <4> QED
        BY <4>1, <4>2 DEF Place
    <3> QED
      BY <1>6, <1>7, <1>11, <2>3, <2>4, <3>1
  <2>5. e[Place(J, 1)] = G[1]
    <3>1. UpTo(J, 1) = {1}
      BY <1>3, <1>8, <1>10, <2>1 DEF UpTo
    <3>2. Place(J, 1) = 1
      BY <3>1, FS_Singleton DEF Place
    <3> QED
      BY <1>1, <2>3, <3>2
  <2>6. \A j \in J : e[Place(J, j)] = G[j]
    BY <1>10, <2>1, <2>4, <2>5
  <2>7. Pick(G, J) = e
    BY <1>1, <1>3, <2>3, <2>6, PickIs
  <2> QED
    BY <1>2, <1>13, <2>7 DEF G, s, e
<1> QED
  BY <1>12, <1>13
----------------------------------------------------------------------------
(* Trains of one packet: the handshake, slot by slot *)

\* The packet that a node is sending, has sent or is about to send: at most one.
TrainOf(m) == IF m.backup # <<>> THEN m.backup ELSE m.sending
TrainTo(m, d) == TrainOf(m) # <<>> /\ Head(TrainOf(m)).DA = d

\* In WAIT_SEND_DATA a node waits for its boundary, then for its datasend timer, which
\* runs until the packet has left, and then for the status event.  The timer for the
\* ACK outlasts the train.
Stage(m) ==
  \/ /\ m.waitSend # Off /\ ~m.dataSend /\ ~m.statusEvent
     /\ m.waitReply >= TrainSlots(1) + 1 + m.waitSend
  \/ /\ m.waitSend = Off /\ m.dataSend /\ ~m.statusEvent /\ m.backup = <<>>
     /\ m.waitReply >= TrainSlots(1) + 1
  \/ /\ m.waitSend = Off /\ m.dataSend /\ ~m.statusEvent /\ m.backup # <<>>
     /\ m.radio.trans = "SEND" /\ m.waitReply >= m.train + 2
  \/ m.waitSend = Off /\ ~m.dataSend /\ m.statusEvent /\ m.waitReply > 0

\* What a node has prepared to send at a boundary fits its status.
Prepared(n, m) ==
  \/ /\ m.status = "WAIT_SEND_RTS" /\ m.pkt.type = "RTS" /\ m.pkt.SA = n
     /\ m.pkt.SlotNum = TrainSlots(1) /\ TrainTo(m, m.pkt.DA)
  \/ /\ m.status = "WAIT_SEND_CTS" /\ m.pkt.type = "CTS" /\ m.pkt.SA = n
     /\ m.pkt.SlotNum = TrainSlots(1) /\ <<m.pkt.DA, n>> \in Hears /\ m.waitSend <= 1
  \/ /\ m.status = "WAIT_SEND_ACK" /\ m.pkt.type = "ACK" /\ m.pkt.SA = n
     /\ <<m.pkt.DA, n>> \in Hears /\ m.waitSend <= 1
  \/ m.status = "WAIT_SEND_DATA" /\ m.pkt = Train /\ m.waitSend <= 1

Own(n, q) == \A i \in DOMAIN q : q[i].type = "DATA" /\ q[i].SA = n

\* Which timers, events and queues go with which status.
Posture(n, m) ==
  /\ m.radio.trans # "RECV" => Active(m.radio.chan) = {}
  /\ m.statusEvent =>
       /\ m.radio.trans = "SEND" /\ ~m.dataSend /\ m.waitSend = Off
       /\ m.status \in {"WAIT_SEND_RTS", "WAIT_SEND_CTS", "WAIT_SEND_DATA", "WAIT_SEND_ACK"}
  /\ m.dataSend => m.status = "WAIT_SEND_DATA"
  /\ m.waitSend # Off => Prepared(n, m)
  /\ m.waitReply # Off =>
       m.status \in {"WAIT_RECV_CTS", "WAIT_RECV_DATA", "WAIT_SEND_DATA", "WAIT_RECV_ACK"}
  /\ m.backoff # Off => m.status \in {"BACKOFF", "BACKOFF_FAIR"}
  /\ m.status = "WAIT_RECV_CTS" => m.waitReply <= 2
  /\ m.status = "WAIT_SEND_DATA" => Stage(m)
  /\ m.status \in {"WAIT_SEND_RTS", "WAIT_RECV_CTS", "WAIT_SEND_DATA", "WAIT_RECV_ACK"} =>
       TrainOf(m) # <<>>
  /\ Len(m.backup) + Len(m.sending) <= 1
  /\ Own(n, m.cached) /\ Own(n, m.sending) /\ Own(n, m.backup)

\* The RTS of this slot is being sent, or its answer can only come in the next slot.
RtsOut(m) ==
  \/ m.status = "WAIT_SEND_RTS" /\ m.statusEvent
  \/ m.status = "WAIT_RECV_CTS" /\ m.waitReply = 2
RtsSlot(m) == RtsOut(m) \/ (m.status = "BACKOFF" /\ m.backoff >= 1)

\* The slot in which a CTS may come.
CtsSlot(m) ==
  /\ m.status = "WAIT_SEND_RTS" => m.waitSend # 0 /\ ~m.statusEvent
  /\ m.status = "WAIT_RECV_CTS" => m.waitReply <= 1
Expects(m) == m.status = "WAIT_RECV_CTS" /\ m.waitReply <= 1

\* No packet is about to be sent: a train that a CTS has started has left.
Launched(m) ==
  m.status = "WAIT_SEND_DATA" => m.waitSend = Off /\ (m.backup # <<>> \/ ~m.dataSend)

----------------------------------------------------------------------------
(* The frames on a link *)

Has(F, t, d) == \E i \in DOMAIN F : F[i].type = t /\ F[i].DA = d
Single(F, t, d) ==
  \A i, j \in DOMAIN F :
     F[i].type = t /\ F[i].DA = d /\ F[j].type = t /\ F[j].DA = d => i = j
Carries(F, d, q) == \A i \in DOMAIN F : F[i].type = "DATA" /\ F[i].DA = d => q = <<F[i]>>
EndsInRts(F) == F = <<>> \/ F[Len(F)].type = "RTS"
Shorter(F, G) == G = F \/ (F # <<>> /\ G = Tail(F))

\* A frame of type t for n is to be sent by w, or on its way from there.
Due(w, t, n) == w.waitSend # Off /\ w.pkt.type = t /\ w.pkt.DA = n
CtsToken(w, B, n) == (Due(w, "CTS", n) /\ w.waitSend = 0) \/ Has(B, "CTS", n)
AckToken(w, B, n) == Due(w, "ACK", n) \/ Has(B, "ACK", n)

\* The parts of the state that tie node n, with record m, to its neighbour h, with
\* record w: F and B are the frames from n to h and from h to n, u what h handed up.
Flushed(m, F) == (RtsOut(m) => EndsInRts(F)) /\ (Expects(m) => F = <<>>)
Asked(n, h, m, w, F) ==
  Has(F, "RTS", h) \/ (Due(w, "CTS", n) /\ w.waitSend = 1) => RtsSlot(m) /\ TrainTo(m, h)
Granted(n, h, m, w, B) ==
  CtsToken(w, B, n) => CtsSlot(m) /\ (m.status = "WAIT_RECV_CTS" => TrainTo(m, h))
Carried(h, m, F) ==
  Has(F, "DATA", h) => Launched(m) /\ Single(F, "DATA", h) /\ Carries(F, h, TrainOf(m))
Delivered(h, m, u) == \E p \in u : TrainOf(m) = <<p>> /\ p.DA = h
Owed(n, h, m, w, F, B, u) ==
  AckToken(w, B, n) =>
    /\ Launched(m) /\ Delivered(h, m, u)
    /\ Expects(m) => ~CtsToken(w, B, n)
    /\ ~Has(F, "DATA", h) /\ Single(B, "ACK", n)
    /\ ~(Due(w, "ACK", n) /\ Has(B, "ACK", n))

Ledger(n, h, m, w, F, B, u) ==
  /\ Flushed(m, F) /\ Asked(n, h, m, w, F) /\ Granted(n, h, m, w, B)
  /\ Carried(h, m, F) /\ Owed(n, h, m, w, F, B, u)

\* Frames say who sent them, and answer only those who are heard.
Stamped(s, f) ==
  /\ f.SA = s
  /\ f.type \in {"RTS", "CTS"} => f.SlotNum = TrainSlots(1)
  /\ f.type \in {"CTS", "ACK"} => <<f.DA, s>> \in Hears

Back(n, h) == IF <<h, n>> \in Hears THEN link[<<h, n>>] ELSE <<>>

PosturesOK == \A n \in Node : Posture(n, mac[n])
StampsOK == \A l \in Hears : \A i \in DOMAIN link[l] : Stamped(l[1], link[l][i])
LedgersOK ==
  \A n, h \in Node : <<n, h>> \in Hears =>
     Ledger(n, h, mac[n], mac[h], link[<<n, h>>], Back(n, h), handedUp[<<n, h>>])
TodoOK == \A n \in Node : \A i \in DOMAIN todo[n] : \E j \in DOMAIN Traffic[n] : todo[n][i] = Traffic[n][j]

JInv == ~aborted /\ PosturesOK /\ StampsOK /\ LedgersOK /\ TodoOK

\* What is at the end of a link was there, or has just been sent.
LEMMA HasAppend ==
  ASSUME NEW F \in Seq(Frame), NEW f \in Frame, NEW t, NEW d
  PROVE  Has(Append(F, f), t, d) <=> Has(F, t, d) \/ (f.type = t /\ f.DA = d)
<1>1. /\ DOMAIN F = 1 .. Len(F) /\ Len(F) \in Nat /\ DOMAIN Append(F, f) = 1 .. (Len(F) + 1)
      /\ \A i \in 1 .. Len(F) : Append(F, f)[i] = F[i]
      /\ Append(F, f)[Len(F) + 1] = f
  BY AppendProperties
<1> QED
  BY <1>1 DEF Has

\* What is left on a link was there.
LEMMA HasTail ==
  ASSUME NEW F \in Seq(Frame), F # <<>>, NEW t, NEW d
  PROVE  Has(Tail(F), t, d) => Has(F, t, d)
<1>1. /\ DOMAIN F = 1 .. Len(F) /\ Len(F) \in Nat /\ DOMAIN Tail(F) = 1 .. (Len(F) - 1)
      /\ \A i \in 1 .. (Len(F) - 1) : Tail(F)[i] = F[i + 1]
  BY HeadTailProperties
<1> QED
  BY <1>1 DEF Has

\* The frame that has been received was the only one of its kind, if any was.
LEMMA HasHead ==
  ASSUME NEW F \in Seq(Frame), F # <<>>, NEW t, NEW d, Head(F).type = t, Head(F).DA = d
  PROVE  Has(F, t, d) /\ (Single(F, t, d) => ~Has(Tail(F), t, d))
<1>1. /\ DOMAIN F = 1 .. Len(F) /\ Len(F) \in Nat /\ DOMAIN Tail(F) = 1 .. (Len(F) - 1)
      /\ \A i \in 1 .. (Len(F) - 1) : Tail(F)[i] = F[i + 1]
      /\ 1 \in DOMAIN F /\ F[1] = Head(F)
  BY HeadTailProperties
<1> QED
  BY <1>1 DEF Has, Single

\* A link stays free of doubles when its head is received.
LEMMA SingleTail ==
  ASSUME NEW F \in Seq(Frame), F # <<>>, NEW t, NEW d, NEW q
  PROVE  (Single(F, t, d) => Single(Tail(F), t, d)) /\ (Carries(F, d, q) => Carries(Tail(F), d, q))
<1>1. /\ DOMAIN F = 1 .. Len(F) /\ Len(F) \in Nat /\ DOMAIN Tail(F) = 1 .. (Len(F) - 1)
      /\ \A i \in 1 .. (Len(F) - 1) : Tail(F)[i] = F[i + 1]
  BY HeadTailProperties
<1>2. Single(F, t, d) => Single(Tail(F), t, d)
  BY <1>1 DEF Single
<1>3. Carries(F, d, q) => Carries(Tail(F), d, q)
  BY <1>1 DEF Carries
<1> QED
  BY <1>2, <1>3

\* A first frame of its kind is no double; a frame of another kind makes none.
LEMMA SingleAppend ==
  ASSUME NEW F \in Seq(Frame), NEW f \in Frame, NEW t, NEW d, NEW q
  PROVE  /\ ~Has(F, t, d) => Single(Append(F, f), t, d)
         /\ Single(F, t, d) /\ ~(f.type = t /\ f.DA = d) => Single(Append(F, f), t, d)
         /\ ~Has(F, "DATA", d) /\ q = <<f>> => Carries(Append(F, f), d, q)
         /\ Carries(F, d, q) /\ ~(f.type = "DATA" /\ f.DA = d) => Carries(Append(F, f), d, q)
<1>1. /\ DOMAIN F = 1 .. Len(F) /\ Len(F) \in Nat /\ DOMAIN Append(F, f) = 1 .. (Len(F) + 1)
      /\ \A i \in 1 .. Len(F) : Append(F, f)[i] = F[i]
      /\ Append(F, f)[Len(F) + 1] = f
  BY AppendProperties
<1> DEFINE G == Append(F, f)
           k == Len(F) + 1
<1>2. \A i \in DOMAIN G : (i \in DOMAIN F /\ G[i] = F[i]) \/ (i = k /\ G[i] = f)
  BY <1>1
<1> HIDE DEF G, k
<1> DEFINE Is(g) == g.type = t /\ g.DA = d
<1>3. ASSUME ~Has(F, t, d), NEW i \in DOMAIN G, Is(G[i]) PROVE i = k
  BY <1>2, <1>3 DEF Has
<1>4. ASSUME Single(F, t, d), ~Is(f), NEW i \in DOMAIN G, Is(G[i]), NEW j \in DOMAIN G, Is(G[j])
      PROVE  i = j
  <2>1. i \in DOMAIN F /\ Is(F[i]) /\ j \in DOMAIN F /\ Is(F[j])
    <3> HIDE DEF Is
    <3> QED
      BY <1>2, <1>4
  <2> QED
    BY <1>4, <2>1 DEF Single
<1>5. ~Has(F, "DATA", d) /\ q = <<f>> => Carries(G, d, q)
  BY <1>2 DEF Has, Carries
<1>6. Carries(F, d, q) /\ ~(f.type = "DATA" /\ f.DA = d) => Carries(G, d, q)
  BY <1>2 DEF Carries
<1>7. ASSUME ~Has(F, t, d) PROVE Single(G, t, d)
  <2> SUFFICES ASSUME NEW i \in DOMAIN G, NEW j \in DOMAIN G, Is(G[i]), Is(G[j]) PROVE i = j
    BY DEF Single
  <2> HIDE DEF Is
  <2> QED
    BY <1>3, <1>7
<1>8. ASSUME Single(F, t, d), ~Is(f) PROVE Single(G, t, d)
  <2> SUFFICES ASSUME NEW i \in DOMAIN G, NEW j \in DOMAIN G, Is(G[i]), Is(G[j]) PROVE i = j
    BY DEF Single
  <2> HIDE DEF Is
  <2> QED
    BY <1>4, <1>8
<1> QED
  BY <1>5, <1>6, <1>7, <1>8 DEF G

\* The end of a link stays where it is until all of it has been received.
LEMMA EndOfLink ==
  ASSUME NEW F \in Seq(Frame), F # <<>>, EndsInRts(F)
  PROVE  EndsInRts(Tail(F))
<1>1. /\ Len(F) \in Nat /\ Tail(F) \in Seq(Frame) /\ Len(Tail(F)) = Len(F) - 1
      /\ \A i \in 1 .. Len(Tail(F)) : Tail(F)[i] = F[i + 1]
  BY HeadTailProperties
<1>2. CASE Len(Tail(F)) = 0
  BY <1>1, <1>2, EmptySeq DEF EndsInRts
<1>3. CASE Len(Tail(F)) > 0
  <2>1. Len(Tail(F)) \in 1 .. Len(Tail(F)) /\ Len(Tail(F)) + 1 = Len(F)
    BY <1>1, <1>3
  <2>2. Tail(F)[Len(Tail(F))] = F[Len(F)]
    BY <1>1, <2>1
  <2> QED
    BY <2>2 DEF EndsInRts
<1> QED
  BY <1>1, <1>2, <1>3

\* A new frame is the end of its link.
LEMMA NewEnd ==
  ASSUME NEW F \in Seq(Frame), NEW f \in Frame
  PROVE  f.type = "RTS" => EndsInRts(Append(F, f))
<1>1. Append(F, f)[Len(Append(F, f))] = f
  BY AppendProperties
<1> QED
  BY <1>1 DEF EndsInRts
----------------------------------------------------------------------------
(* The ledger of a node and its neighbour *)

\* A step of the sender that leaves its train and its place in the handshake alone.
Steady(m, x) ==
  /\ TrainOf(m) # <<>> => TrainOf(x) = TrainOf(m)
  /\ Launched(m) => Launched(x)
  /\ RtsSlot(m) => RtsSlot(x)
  /\ RtsOut(x) => RtsOut(m)
  /\ Expects(x) => Expects(m)
  /\ CtsSlot(m) => CtsSlot(x) /\ (x.status = "WAIT_RECV_CTS" => m.status = "WAIT_RECV_CTS")

\* A step of the receiver that prepares no answer for n.
Calm(n, w, y) ==
  y.waitSend # Off /\ y.pkt.type \in {"CTS", "ACK"} /\ y.pkt.DA = n =>
    y.waitSend = w.waitSend /\ y.pkt = w.pkt

\* Only a frame of another kind is added to a link, or one for another node.
Other(G, F, t, d) ==
  \/ G = F
  \/ \E f \in Frame : G = Append(F, f) /\ ~(f.type = t /\ f.DA = d)

\* What a shorter link has.
LEMMA ShorterFacts ==
  ASSUME NEW F \in Seq(Frame), NEW G, Shorter(F, G)
  PROVE  /\ G \in Seq(Frame)
         /\ \A t, d : (Has(G, t, d) => Has(F, t, d)) /\ (Single(F, t, d) => Single(G, t, d))
         /\ \A d, q : Carries(F, d, q) => Carries(G, d, q)
         /\ EndsInRts(F) => EndsInRts(G)
         /\ F = <<>> => G = <<>>
<1>1. CASE G = F
  BY <1>1
<1>2. CASE F # <<>> /\ G = Tail(F)
  <2>1. Tail(F) \in Seq(Frame)
    BY <1>2, HeadTailProperties
  <2>2. EndsInRts(F) => EndsInRts(Tail(F))
    BY <1>2, EndOfLink
  <2> QED
    BY <1>2, <2>1, <2>2, HasTail, SingleTail
<1> QED
  BY <1>1, <1>2 DEF Shorter

\* What a link has that another frame was added to.
LEMMA OtherFacts ==
  ASSUME NEW F \in Seq(Frame), NEW G, NEW t, NEW d, Other(G, F, t, d)
  PROVE  /\ Has(G, t, d) <=> Has(F, t, d)
         /\ Single(F, t, d) => Single(G, t, d)
         /\ \A q : t = "DATA" /\ Carries(F, d, q) => Carries(G, d, q)
<1>1. CASE G = F
  BY <1>1
<1>2. ASSUME NEW f \in Frame, G = Append(F, f), ~(f.type = t /\ f.DA = d)
      PROVE  /\ Has(G, t, d) <=> Has(F, t, d)
             /\ Single(F, t, d) => Single(G, t, d)
             /\ \A q : t = "DATA" /\ Carries(F, d, q) => Carries(G, d, q)
  BY <1>2, HasAppend, SingleAppend
<1> QED
  BY <1>1, <1>2 DEF Other

\* The sender goes on; what it sends, if anything, is an answer.
LEMMA OwnerSteady ==
  ASSUME NEW n, NEW h, NEW m, NEW x, NEW w, NEW F \in Seq(Frame), NEW B \in Seq(Frame),
         NEW G, Other(G, F, "RTS", h), Other(G, F, "DATA", h),
         G = F \/ (~RtsOut(x) /\ ~Expects(x)),
         NEW C, Shorter(B, C), NEW u,
         Ledger(n, h, m, w, F, B, u), Steady(m, x)
  PROVE  Ledger(n, h, x, w, G, C, u)
<1>1. /\ Flushed(m, F) /\ Asked(n, h, m, w, F) /\ Granted(n, h, m, w, B)
      /\ Carried(h, m, F) /\ Owed(n, h, m, w, F, B, u)
  BY DEF Ledger
<1>2. /\ Has(C, "CTS", n) => Has(B, "CTS", n)
      /\ Has(C, "ACK", n) => Has(B, "ACK", n)
      /\ Single(B, "ACK", n) => Single(C, "ACK", n)
  BY ShorterFacts
<1>3. /\ Has(G, "RTS", h) <=> Has(F, "RTS", h)
      /\ Has(G, "DATA", h) <=> Has(F, "DATA", h)
      /\ Single(F, "DATA", h) => Single(G, "DATA", h)
      /\ \A q : Carries(F, h, q) => Carries(G, h, q)
  BY OtherFacts
<1>4. CtsToken(w, C, n) => CtsToken(w, B, n)
  BY <1>2 DEF CtsToken
<1>5. AckToken(w, C, n) => AckToken(w, B, n)
  BY <1>2 DEF AckToken
<1>6. TrainTo(m, h) => TrainTo(x, h)
  BY DEF Steady, TrainTo
<1>7. Delivered(h, m, u) => Delivered(h, x, u)
  BY DEF Steady, Delivered
<1>8. Flushed(x, G)
  BY <1>1 DEF Flushed, Steady
<1>9. Asked(n, h, x, w, G)
  BY <1>1, <1>3, <1>6 DEF Asked, Steady
<1>10. Granted(n, h, x, w, C)
  BY <1>1, <1>4, <1>6 DEF Granted, Steady
<1>11. Carried(h, x, G)
  <2>1. ASSUME Has(F, "DATA", h) PROVE TrainOf(m) # <<>>
    <3>1. PICK i \in DOMAIN F : F[i].type = "DATA" /\ F[i].DA = h
      BY <2>1 DEF Has
    <3>2. TrainOf(m) = <<F[i]>>
      BY <1>1, <2>1, <3>1 DEF Carried, Carries
    <3>3. <<F[i]>> # <<>>
      OBVIOUS
    <3> QED
      BY <3>2, <3>3
  <2> QED
    BY <1>1, <1>3, <2>1 DEF Carried, Steady
<1>12. Owed(n, h, x, w, G, C, u)
  BY <1>1, <1>2, <1>3, <1>4, <1>5, <1>7 DEF Owed, Steady
<1> QED
  BY <1>8, <1>9, <1>10, <1>11, <1>12 DEF Ledger

\* Nothing is due or on its way to a node that is about to send its RTS, which then is
\* the last frame on its links.
LEMMA OwnerAsks ==
  ASSUME NEW n, NEW h, NEW m, NEW x, NEW w, NEW F \in Seq(Frame), NEW B \in Seq(Frame), NEW u,
         NEW f \in Frame, f.type = "RTS", TrainTo(x, f.DA),
         Ledger(n, h, m, w, F, B, u), m.status = "WAIT_SEND_RTS", m.waitSend = 0,
         x.status = "WAIT_SEND_RTS", x.statusEvent, TrainOf(x) = TrainOf(m)
  PROVE  Ledger(n, h, x, w, Append(F, f), B, u)
<1>1. /\ Flushed(m, F) /\ Asked(n, h, m, w, F) /\ Granted(n, h, m, w, B)
      /\ Carried(h, m, F) /\ Owed(n, h, m, w, F, B, u)
  BY DEF Ledger
<1> DEFINE G == Append(F, f)
<1>2. /\ Has(G, "RTS", h) <=> Has(F, "RTS", h) \/ f.DA = h
      /\ Has(G, "DATA", h) <=> Has(F, "DATA", h)
      /\ Single(F, "DATA", h) => Single(G, "DATA", h)
      /\ \A q : Carries(F, h, q) => Carries(G, h, q)
      /\ EndsInRts(G)
  BY HasAppend, SingleAppend, NewEnd
<1> HIDE DEF G
<1>3. ~CtsSlot(m) /\ RtsOut(x) /\ RtsSlot(x) /\ ~Expects(x) /\ Launched(x)
  BY DEF CtsSlot, RtsOut, RtsSlot, Expects, Launched
<1>4. TrainTo(m, h) => TrainTo(x, h)
  BY DEF TrainTo
<1>5. Delivered(h, m, u) => Delivered(h, x, u)
  BY DEF Delivered
<1>6. ~CtsToken(w, B, n)
  BY <1>1, <1>3 DEF Granted
<1>7. Flushed(x, G)
  BY <1>2, <1>3 DEF Flushed
<1>8. Asked(n, h, x, w, G)
  BY <1>1, <1>2, <1>3, <1>4 DEF Asked
<1>9. Granted(n, h, x, w, B)
  BY <1>6 DEF Granted
<1>10. Carried(h, x, G)
  BY <1>1, <1>2, <1>3 DEF Carried
<1>11. Owed(n, h, x, w, G, B, u)
  BY <1>1, <1>2, <1>3, <1>5, <1>6 DEF Owed
<1> QED
  BY <1>7, <1>8, <1>9, <1>10, <1>11 DEF Ledger, G

\* A train leaves when nothing of it is on its way and no ACK for it is due.
LEMMA OwnerLaunches ==
  ASSUME NEW n, NEW h, NEW m, NEW x, NEW w, NEW F \in Seq(Frame), NEW B \in Seq(Frame), NEW u,
         NEW f \in Frame, f.type = "DATA", TrainOf(x) = <<f>>,
         Ledger(n, h, m, w, F, B, u), ~Launched(m), m.status = "WAIT_SEND_DATA",
         x.status = "WAIT_SEND_DATA", Launched(x)
  PROVE  Ledger(n, h, x, w, Append(F, f), B, u)
<1>1. /\ Flushed(m, F) /\ Asked(n, h, m, w, F) /\ Granted(n, h, m, w, B)
      /\ Carried(h, m, F) /\ Owed(n, h, m, w, F, B, u)
  BY DEF Ledger
<1> DEFINE G == Append(F, f)
<1>2. ~Has(F, "DATA", h) /\ ~AckToken(w, B, n)
  BY <1>1 DEF Carried, Owed
<1>3. /\ Has(G, "RTS", h) <=> Has(F, "RTS", h) \/ (f.type = "RTS" /\ f.DA = h)
      /\ Single(G, "DATA", h) /\ Carries(G, h, TrainOf(x))
  BY <1>2, HasAppend, SingleAppend
<1> HIDE DEF G
<1>4. /\ ~RtsOut(m) /\ ~RtsSlot(m) /\ ~RtsOut(x) /\ ~Expects(x) /\ CtsSlot(x)
      /\ m.status # "WAIT_RECV_CTS" /\ x.status # "WAIT_RECV_CTS"
  BY DEF CtsSlot, RtsOut, RtsSlot, Expects
<1>5. Flushed(x, G)
  BY <1>4 DEF Flushed
<1>6. Asked(n, h, x, w, G)
  BY <1>1, <1>3, <1>4 DEF Asked
<1>7. Granted(n, h, x, w, B)
  BY <1>4 DEF Granted
<1>8. Carried(h, x, G)
  BY <1>3 DEF Carried
<1>9. Owed(n, h, x, w, G, B, u)
  BY <1>2 DEF Owed
<1> QED
  BY <1>5, <1>6, <1>7, <1>8, <1>9 DEF Ledger, G
\* An ACK names the one node that the train went to.
LEMMA OneReceiver ==
  ASSUME NEW h, NEW k, NEW m, NEW u, NEW v, Delivered(h, m, u), Delivered(k, m, v) \/ TrainTo(m, k)
  PROVE  h = k
<1>1. PICK p \in u : TrainOf(m) = <<p>> /\ p.DA = h
  BY DEF Delivered
<1>2. Head(TrainOf(m)) = p /\ TrainOf(m)[1] = p
  BY <1>1
<1>3. CASE TrainTo(m, k)
  BY <1>1, <1>2, <1>3 DEF TrainTo
<1>4. ASSUME NEW q \in v, TrainOf(m) = <<q>>, q.DA = k PROVE h = k
  <2>1. TrainOf(m)[1] = q
    BY <1>4
  <2> QED
    BY <1>1, <1>2, <1>4, <2>1
<1> QED
  BY <1>3, <1>4 DEF Delivered

\* The CTS that a node waits for starts its train: nothing older is on its way.
LEMMA OwnerGranted ==
  ASSUME NEW n, NEW h, NEW m, NEW x, NEW w, NEW F \in Seq(Frame), NEW B \in Seq(Frame), NEW u,
         NEW C, Shorter(B, C), Ledger(n, h, m, w, F, B, u),
         Expects(m), ~AckToken(w, B, n), x.status = "WAIT_SEND_DATA"
  PROVE  Ledger(n, h, x, w, F, C, u)
<1>1. /\ Flushed(m, F) /\ Asked(n, h, m, w, F) /\ Granted(n, h, m, w, B)
  BY DEF Ledger
<1>2. F = <<>> /\ ~RtsSlot(m)
  BY <1>1 DEF Flushed, RtsSlot, RtsOut, Expects
<1>3. \A t, d : ~Has(F, t, d)
  BY <1>2 DEF Has
<1>4. Has(C, "ACK", n) => Has(B, "ACK", n)
  BY ShorterFacts
<1>5. ~RtsOut(x) /\ ~Expects(x) /\ CtsSlot(x) /\ x.status # "WAIT_RECV_CTS"
  BY DEF RtsOut, Expects, CtsSlot
<1>6. Flushed(x, F)
  BY <1>5 DEF Flushed
<1>7. Asked(n, h, x, w, F)
  BY <1>1, <1>2, <1>3 DEF Asked
<1>8. Granted(n, h, x, w, C)
  BY <1>5 DEF Granted
<1>9. Carried(h, x, F)
  BY <1>3 DEF Carried
<1>10. Owed(n, h, x, w, F, C, u)
  BY <1>4 DEF Owed, AckToken
<1> QED
  BY <1>6, <1>7, <1>8, <1>9, <1>10 DEF Ledger

\* The ACK that a node waits for ends the exchange: nothing of it is on its way.
LEMMA OwnerReleased ==
  ASSUME NEW n, NEW h, NEW m, NEW x, NEW w, NEW F \in Seq(Frame), NEW B \in Seq(Frame), NEW u,
         NEW C, Shorter(B, C), Ledger(n, h, m, w, F, B, u),
         m.status = "WAIT_RECV_ACK", ~Has(F, "DATA", h), ~AckToken(w, C, n),
         x.status \in {"IDLE_WAIT", "WAIT_SEND_RTS"}, x.waitSend # 0, ~x.statusEvent
  PROVE  Ledger(n, h, x, w, F, C, u)
<1>1. /\ Flushed(m, F) /\ Asked(n, h, m, w, F) /\ Granted(n, h, m, w, B)
  BY DEF Ledger
<1>2. ~RtsSlot(m)
  BY DEF RtsSlot, RtsOut
<1>3. ~RtsOut(x) /\ ~Expects(x) /\ CtsSlot(x) /\ x.status # "WAIT_RECV_CTS"
  BY DEF RtsOut, Expects, CtsSlot
<1>4. Flushed(x, F)
  BY <1>3 DEF Flushed
<1>5. Asked(n, h, x, w, F)
  BY <1>1, <1>2 DEF Asked
<1>6. Granted(n, h, x, w, C)
  BY <1>3 DEF Granted
<1>7. Carried(h, x, F)
  BY DEF Carried
<1>8. Owed(n, h, x, w, F, C, u)
  BY DEF Owed
<1> QED
  BY <1>4, <1>5, <1>6, <1>7, <1>8 DEF Ledger

\* The receiver goes on, and answers nothing.
LEMMA ResponderCalm ==
  ASSUME NEW n, NEW h, NEW m, NEW w, NEW y, NEW F \in Seq(Frame), NEW B \in Seq(Frame), NEW u,
         NEW G, Shorter(F, G), NEW C, Other(C, B, "CTS", n), Other(C, B, "ACK", n),
         NEW v, u \subseteq v, Ledger(n, h, m, w, F, B, u), Calm(n, w, y)
  PROVE  Ledger(n, h, m, y, G, C, v)
<1>1. /\ Flushed(m, F) /\ Asked(n, h, m, w, F) /\ Granted(n, h, m, w, B)
      /\ Carried(h, m, F) /\ Owed(n, h, m, w, F, B, u)
  BY DEF Ledger
<1>2. /\ Has(G, "RTS", h) => Has(F, "RTS", h)
      /\ Has(G, "DATA", h) => Has(F, "DATA", h)
      /\ Single(F, "DATA", h) => Single(G, "DATA", h)
      /\ \A q : Carries(F, h, q) => Carries(G, h, q)
      /\ EndsInRts(F) => EndsInRts(G)
      /\ F = <<>> => G = <<>>
  BY ShorterFacts
<1>3. /\ Has(C, "CTS", n) <=> Has(B, "CTS", n)
      /\ Has(C, "ACK", n) <=> Has(B, "ACK", n)
      /\ Single(B, "ACK", n) => Single(C, "ACK", n)
  BY OtherFacts
<1>4. /\ Due(y, "CTS", n) => Due(w, "CTS", n) /\ y.waitSend = w.waitSend
      /\ Due(y, "ACK", n) => Due(w, "ACK", n)
  BY DEF Due, Calm
<1>5. CtsToken(y, C, n) => CtsToken(w, B, n)
  BY <1>3, <1>4 DEF CtsToken
<1>6. AckToken(y, C, n) => AckToken(w, B, n)
  BY <1>3, <1>4 DEF AckToken
<1>7. Delivered(h, m, u) => Delivered(h, m, v)
  BY DEF Delivered
<1>8. Flushed(m, G)
  BY <1>1, <1>2 DEF Flushed
<1>9. Asked(n, h, m, y, G)
  BY <1>1, <1>2, <1>4 DEF Asked
<1>10. Granted(n, h, m, y, C)
  BY <1>1, <1>5 DEF Granted
<1>11. Carried(h, m, G)
  BY <1>1, <1>2 DEF Carried
<1>12. Owed(n, h, m, y, G, C, v)
  BY <1>1, <1>2, <1>3, <1>4, <1>5, <1>6, <1>7 DEF Owed
<1> QED
  BY <1>8, <1>9, <1>10, <1>11, <1>12 DEF Ledger

\* What was due is on its way, or dropped.
LEMMA ResponderAnswers ==
  ASSUME NEW n, NEW h, NEW m, NEW w, NEW y, NEW F \in Seq(Frame), NEW B \in Seq(Frame), NEW u,
         NEW C, C = B \/ (w.pkt \in Frame /\ C = Append(B, w.pkt)),
         w.waitSend = 0, y.waitSend = Off, Ledger(n, h, m, w, F, B, u)
  PROVE  Ledger(n, h, m, y, F, C, u)
<1>1. /\ Flushed(m, F) /\ Asked(n, h, m, w, F) /\ Granted(n, h, m, w, B)
      /\ Carried(h, m, F) /\ Owed(n, h, m, w, F, B, u)
  BY DEF Ledger
<1>2. w.waitSend # Off
  BY DEF Off
<1>3. \A t : ~Due(y, t, n)
  BY DEF Due
<1>4. ASSUME NEW t, Has(C, t, n) PROVE Has(B, t, n) \/ Due(w, t, n)
  <2>1. CASE C = B
    BY <1>4, <2>1
  <2>2. CASE w.pkt \in Frame /\ C = Append(B, w.pkt)
    <3>1. Has(B, t, n) \/ (w.pkt.type = t /\ w.pkt.DA = n)
      BY <1>4, <2>2, HasAppend
    <3> QED
      BY <1>2, <3>1 DEF Due
  <2> QED
    BY <2>1, <2>2
<1>5. CtsToken(y, C, n) => CtsToken(w, B, n)
  BY <1>3, <1>4 DEF CtsToken
<1>6. AckToken(y, C, n) => AckToken(w, B, n)
  BY <1>3, <1>4 DEF AckToken
<1>7. Single(B, "ACK", n) /\ ~(Due(w, "ACK", n) /\ Has(B, "ACK", n)) => Single(C, "ACK", n)
  BY <1>2, SingleAppend DEF Due
<1>8. Asked(n, h, m, y, F)
  BY <1>1, <1>3 DEF Asked
<1>9. Granted(n, h, m, y, C)
  BY <1>1, <1>5 DEF Granted
<1>10. Owed(n, h, m, y, F, C, u)
  BY <1>1, <1>3, <1>5, <1>6, <1>7 DEF Owed
<1> QED
  BY <1>1, <1>8, <1>9, <1>10 DEF Ledger

\* An RTS has been accepted: its sender has a slot to wait before the CTS leaves.
LEMMA ResponderGrants ==
  ASSUME NEW n, NEW h, NEW m, NEW w, NEW y, NEW F \in Seq(Frame), NEW B \in Seq(Frame), NEW u,
         F # <<>>, Head(F).type = "RTS", Head(F).DA = h,
         y.waitSend = 1, y.pkt.type = "CTS", Ledger(n, h, m, w, F, B, u)
  PROVE  Ledger(n, h, m, y, Tail(F), B, u)
<1>1. /\ Flushed(m, F) /\ Asked(n, h, m, w, F) /\ Granted(n, h, m, w, B)
      /\ Carried(h, m, F) /\ Owed(n, h, m, w, F, B, u)
  BY DEF Ledger
<1> DEFINE G == Tail(F)
<1>2. /\ Has(G, "DATA", h) => Has(F, "DATA", h)
      /\ Single(F, "DATA", h) => Single(G, "DATA", h)
      /\ \A q : Carries(F, h, q) => Carries(G, h, q)
      /\ EndsInRts(F) => EndsInRts(G)
  BY HasTail, SingleTail, EndOfLink
<1> HIDE DEF G
<1>3. RtsSlot(m) /\ TrainTo(m, h)
  BY <1>1, HasHead DEF Asked
<1>4. ~Expects(m)
  BY <1>1 DEF Flushed
<1>5. ~Due(y, "ACK", n) /\ (CtsToken(y, B, n) => CtsToken(w, B, n))
      /\ (AckToken(y, B, n) => AckToken(w, B, n))
  BY DEF Due, CtsToken, AckToken
<1>6. Flushed(m, G)
  BY <1>1, <1>2, <1>4 DEF Flushed
<1>7. Asked(n, h, m, y, G)
  BY <1>3 DEF Asked
<1>8. Granted(n, h, m, y, B)
  BY <1>1, <1>5 DEF Granted
<1>9. Carried(h, m, G)
  BY <1>1, <1>2 DEF Carried
<1>10. Owed(n, h, m, y, G, B, u)
  BY <1>1, <1>2, <1>4, <1>5 DEF Owed
<1> QED
  BY <1>6, <1>7, <1>8, <1>9, <1>10 DEF Ledger, G

\* A packet has been handed up: it is what its sender has sent, and the ACK will say so.
LEMMA ResponderOwes ==
  ASSUME NEW n, NEW h, NEW m, NEW w, NEW y, NEW F \in Seq(Frame), NEW B \in Seq(Frame), NEW u,
         F # <<>>, Head(F).type = "DATA", Head(F).DA = h, NEW v, Head(F) \in v,
         y.waitSend = 1, y.pkt.type = "ACK", Ledger(n, h, m, w, F, B, u)
  PROVE  Ledger(n, h, m, y, Tail(F), B, v) /\ TrainOf(m) = <<Head(F)>>
<1>1. /\ Flushed(m, F) /\ Asked(n, h, m, w, F) /\ Granted(n, h, m, w, B)
      /\ Carried(h, m, F) /\ Owed(n, h, m, w, F, B, u)
  BY DEF Ledger
<1> DEFINE G == Tail(F)
<1>2. /\ Has(G, "RTS", h) => Has(F, "RTS", h)
      /\ EndsInRts(F) => EndsInRts(G)
      /\ Has(F, "DATA", h)
      /\ Single(F, "DATA", h) => ~Has(G, "DATA", h)
  BY HasTail, HasHead, EndOfLink
<1>3. F[1] = Head(F) /\ 1 \in DOMAIN F
  OBVIOUS
<1> HIDE DEF G
<1>4. Launched(m) /\ ~Has(G, "DATA", h) /\ ~AckToken(w, B, n)
  BY <1>1, <1>2 DEF Carried, Owed
<1>5. TrainOf(m) = <<Head(F)>>
  BY <1>1, <1>2, <1>3 DEF Carried, Carries
<1>6. Delivered(h, m, v)
  BY <1>5 DEF Delivered
<1>7. ~Expects(m)
  BY <1>1 DEF Flushed
<1>8. ~Due(y, "CTS", n) /\ (CtsToken(y, B, n) => CtsToken(w, B, n)) /\ ~Has(B, "ACK", n)
  BY <1>4 DEF Due, CtsToken, AckToken
<1>9. Single(B, "ACK", n)
  BY <1>8 DEF Single, Has
<1>10. Flushed(m, G)
  BY <1>1, <1>2, <1>7 DEF Flushed
<1>11. Asked(n, h, m, y, G)
  BY <1>1, <1>2, <1>8 DEF Asked
<1>12. Granted(n, h, m, y, B)
  BY <1>1, <1>8 DEF Granted
<1>13. Carried(h, m, G)
  BY <1>4 DEF Carried
<1>14. Owed(n, h, m, y, G, B, v)
  BY <1>4, <1>6, <1>7, <1>8, <1>9 DEF Owed
<1> QED
  BY <1>5, <1>10, <1>11, <1>12, <1>13, <1>14 DEF Ledger, G

\* A slot later: the CTS that was scheduled is due, and so is its RTS's sender to get it.
LEMMA BoundaryLedger ==
  ASSUME NEW n, NEW h, NEW m, NEW x, NEW w, NEW y, NEW F \in Seq(Frame), NEW B \in Seq(Frame),
         NEW u, Ledger(n, h, m, w, F, B, u),
         \A i \in DOMAIN F : F[i].type = "DATA", \A i \in DOMAIN B : B[i].type = "DATA",
         m.waitSend \in Timer, m.waitReply \in Timer, m.backoff \in Timer, w.waitSend \in Timer,
         m.waitSend # 0, m.waitReply # 0, m.backoff # 0, w.waitSend # 0,
         m.status = "WAIT_RECV_CTS" => m.waitReply <= 2,
         Due(w, "CTS", n) => w.waitSend <= 1,
         ~m.statusEvent,
         x.status = m.status, x.statusEvent = m.statusEvent, x.backup = m.backup,
         x.sending = m.sending, x.dataSend = m.dataSend,
         x.waitSend = Less(m.waitSend), x.waitReply = Less(m.waitReply),
         x.backoff = Less(m.backoff), y.waitSend = Less(w.waitSend), y.pkt = w.pkt
  PROVE  Ledger(n, h, x, y, F, B, u)
<1>1. /\ Flushed(m, F) /\ Asked(n, h, m, w, F) /\ Granted(n, h, m, w, B)
      /\ Carried(h, m, F) /\ Owed(n, h, m, w, F, B, u)
  BY DEF Ledger
<1>2. \A d : ~Has(F, "RTS", d) /\ ~Has(B, "CTS", d) /\ ~Has(B, "ACK", d)
  BY DEF Has
<1>3. EndsInRts(F) => F = <<>>
  <2>1. F # <<>> => Len(F) \in DOMAIN F
    OBVIOUS
  <2> QED
    BY <2>1 DEF EndsInRts
<1>4. TrainOf(x) = TrainOf(m) /\ (TrainTo(x, h) <=> TrainTo(m, h))
  BY DEF TrainOf, TrainTo
<1>5. ~RtsOut(x) /\ (Expects(x) => RtsOut(m) \/ Expects(m))
  BY DEF RtsOut, Expects, Less, Timer, Off
<1>6. Launched(m) => Launched(x)
  BY DEF Launched, Less, Timer, Off
<1>7. /\ Due(y, "CTS", n) => Due(w, "CTS", n) /\ y.waitSend = 0 /\ w.waitSend = 1
      /\ Due(y, "ACK", n) => Due(w, "ACK", n)
      /\ ~(Due(y, "CTS", n) /\ Due(y, "ACK", n))
  BY DEF Due, Less, Timer, Off
<1>8. Flushed(x, F)
  BY <1>1, <1>3, <1>5 DEF Flushed
<1>9. Asked(n, h, x, y, F)
  BY <1>2, <1>7 DEF Asked
<1>10. Granted(n, h, x, y, B)
  <2> SUFFICES ASSUME CtsToken(y, B, n) PROVE CtsSlot(x) /\ TrainTo(x, h)
    BY DEF Granted
  <2>1. RtsSlot(m) /\ TrainTo(m, h)
    BY <1>1, <1>2, <1>7 DEF Asked, CtsToken
  <2>2. CtsSlot(x)
    BY <2>1 DEF RtsSlot, RtsOut, CtsSlot, Less, Timer, Off
  <2> QED
    BY <1>4, <2>1, <2>2
<1>11. Carried(h, x, F)
  BY <1>1, <1>4, <1>6 DEF Carried
<1>12. Delivered(h, m, u) => Delivered(h, x, u)
  BY <1>4 DEF Delivered
<1>13. Owed(n, h, x, y, F, B, u)
  <2> SUFFICES ASSUME AckToken(y, B, n)
               PROVE  /\ Launched(x) /\ Delivered(h, x, u)
                      /\ Expects(x) => ~CtsToken(y, B, n)
                      /\ ~Has(F, "DATA", h) /\ Single(B, "ACK", n)
                      /\ ~(Due(y, "ACK", n) /\ Has(B, "ACK", n))
    BY DEF Owed
  <2>1. Due(y, "ACK", n) /\ AckToken(w, B, n) /\ ~CtsToken(y, B, n)
    BY <1>2, <1>7 DEF AckToken, CtsToken
  <2> QED
    BY <1>1, <1>2, <1>6, <1>12, <2>1 DEF Owed
<1> QED
  BY <1>8, <1>9, <1>10, <1>11, <1>13 DEF Ledger
----------------------------------------------------------------------------
(* A step of one node *)

\* What a ledger reads of a node.
Alike(m, x) ==
  /\ x.status = m.status /\ x.waitSend = m.waitSend /\ x.pkt = m.pkt
  /\ x.waitReply = m.waitReply /\ x.backoff = m.backoff
  /\ x.dataSend = m.dataSend /\ x.statusEvent = m.statusEvent
  /\ x.sending = m.sending /\ x.backup = m.backup

\* A node that is alike has the same ledgers.
LEMMA LedgerAlike ==
  ASSUME NEW n, NEW h, NEW m, NEW x, NEW w, NEW y, NEW F, NEW B, NEW u,
         Alike(m, x), Alike(w, y), Ledger(n, h, m, w, F, B, u)
  PROVE  Ledger(n, h, x, y, F, B, u)
<1>1. TrainOf(x) = TrainOf(m) /\ (TrainTo(x, h) <=> TrainTo(m, h))
  BY DEF Alike, TrainOf, TrainTo
<1>2. /\ RtsOut(x) <=> RtsOut(m)
      /\ RtsSlot(x) <=> RtsSlot(m)
      /\ CtsSlot(x) <=> CtsSlot(m)
      /\ Expects(x) <=> Expects(m)
      /\ Launched(x) <=> Launched(m)
      /\ x.status = m.status
  BY DEF Alike, RtsOut, RtsSlot, CtsSlot, Expects, Launched
<1>3. /\ \A t : Due(y, t, n) <=> Due(w, t, n)
      /\ y.waitSend = w.waitSend
  BY DEF Alike, Due
<1>4. /\ CtsToken(y, B, n) <=> CtsToken(w, B, n)
      /\ AckToken(y, B, n) <=> AckToken(w, B, n)
  BY <1>3 DEF CtsToken, AckToken
<1>5. Delivered(h, x, u) <=> Delivered(h, m, u)
  BY <1>1 DEF Delivered
<1>6. Flushed(x, F) <=> Flushed(m, F)
  BY <1>2 DEF Flushed
<1>7. Asked(n, h, x, y, F) <=> Asked(n, h, m, w, F)
  BY <1>1, <1>2, <1>3 DEF Asked
<1>8. Granted(n, h, x, y, B) <=> Granted(n, h, m, w, B)
  BY <1>1, <1>2, <1>4 DEF Granted
<1>9. Carried(h, x, F) <=> Carried(h, m, F)
  BY <1>1, <1>2 DEF Carried
<1>10. Owed(n, h, x, y, F, B, u) <=> Owed(n, h, m, w, F, B, u)
  BY <1>2, <1>3, <1>4, <1>5 DEF Owed
<1> QED
  BY <1>6, <1>7, <1>8, <1>9, <1>10 DEF Ledger

\* What a step has sent and whether it was dropped is not what a ledger reads.
LEMMA SettleFacts ==
  ASSUME NEW S, NEW x \in State(S)
  PROVE  /\ Alike(x, Settle(x)) /\ Settle(x).radio = x.radio /\ Settle(x).train = x.train
         /\ Settle(x).cached = x.cached
BY DEF Alike, Settle, State

\* A node that is alike, and sends if the other does, has the same posture.
LEMMA PostureAlike ==
  ASSUME NEW n, NEW m, NEW x, Posture(n, m), Alike(m, x), x.train = m.train, Own(n, x.cached),
         x.radio.trans # "RECV" => Active(x.radio.chan) = {},
         m.radio.trans = "SEND" => x.radio.trans = "SEND"
  PROVE  Posture(n, x)
<1>1. TrainOf(x) = TrainOf(m) /\ \A d : TrainTo(x, d) <=> TrainTo(m, d)
  BY DEF Alike, TrainOf, TrainTo
<1>2. Stage(m) => Stage(x)
  BY DEF Alike, Stage
<1>3. Prepared(n, m) => Prepared(n, x)
  BY <1>1 DEF Alike, Prepared
<1> QED
  BY <1>1, <1>2, <1>3 DEF Alike, Posture

\* The posture of a node has nothing to do with what its step has sent.
LEMMA SettlePosture ==
  ASSUME NEW n, NEW S, NEW x \in State(S), Posture(n, x)
  PROVE  Posture(n, Settle(x))
<1> DEFINE y == Settle(x)
<1>1. Alike(x, y) /\ y.radio = x.radio /\ y.train = x.train /\ y.cached = x.cached
  BY SettleFacts
<1> HIDE DEF y
<1>2. Own(n, y.cached) /\ (y.radio.trans # "RECV" => Active(y.radio.chan) = {})
  BY <1>1 DEF Posture
<1>3. Posture(n, y)
  BY <1>1, <1>2, PostureAlike
<1> QED
  BY <1>3 DEF y

Sent(F, out) == IF out = NoFrame THEN F ELSE Append(F, out)
Left(l, ended) == IF l \in ended THEN Tail(link[l]) ELSE link[l]

\* The ledgers of node k as a sender, and as a receiver, when k becomes x.
Owns(k, x, ended) ==
  \A h \in Node : <<k, h>> \in Hears =>
    Ledger(k, h, x, mac[h], Sent(link[<<k, h>>], x.out),
           IF <<h, k>> \in Hears THEN Left(<<h, k>>, ended) ELSE <<>>, handedUp[<<k, h>>])

Answers(k, x, ended, U) ==
  \A n \in Node : <<n, k>> \in Hears =>
    Ledger(n, k, mac[n], x, Left(<<n, k>>, ended),
           IF <<k, n>> \in Hears THEN Sent(link[<<k, n>>], x.out) ELSE <<>>, U[<<n, k>>])

\* The links after a step of k.
LEMMA LinkFacts ==
  ASSUME NEW k, NEW out, NEW ended, link' = Carry(link, k, out, ended)
  PROVE  /\ \A l \in Hears : l[1] # k => link'[l] = Left(l, ended)
         /\ \A l \in Hears : l[1] = k => link'[l] = Sent(Left(l, ended), out)
BY DEF Carry, Left, Sent

\* The pairs of nodes that k is not one of have the ledgers they had.
LEMMA Rejoin ==
  ASSUME IInv, JInv, NEW k \in Node, NEW S, NEW x \in State(S), NEW ended, Becomes(k, x, ended),
         \A l \in ended : l \in Hears /\ l[2] = k /\ link[l] # <<>>,
         Posture(k, x), ~x.abort,
         x.out # NoFrame => Stamped(k, x.out),
         \A l \in Hears : l[2] # k => handedUp'[l] = handedUp[l],
         Owns(k, x, ended), Answers(k, x, ended, handedUp'), TodoOK'
  PROVE  JInv'
<1> DEFINE y == Settle(x)
<1>1. /\ mac' = [mac EXCEPT ![k] = y] /\ link' = Carry(link, k, x.out, ended)
      /\ aborted' = x.abort
  BY DEF Becomes, Settle
<1>2. x.abort = FALSE /\ x.out \in Frame \cup {NoFrame}
  BY DEF State
<1>3. mac = [j \in Node |-> mac[j]] /\ \A l \in Hears : link[l] \in Seq(Frame)
  BY DEF IInv, NodesOK, LinksOK
<1>4. mac'[k] = y /\ \A j \in Node \ {k} : mac'[j] = mac[j]
  BY <1>1, <1>3
<1>5. Posture(k, y) /\ Alike(x, y)
  BY SettlePosture, SettleFacts
<1> HIDE DEF y
<1>6. /\ \A l \in Hears : l[1] # k => link'[l] = Left(l, ended)
      /\ \A l \in Hears : l[1] = k => link'[l] = Sent(Left(l, ended), x.out)
  BY <1>1, LinkFacts
<1>7. \A l \in Hears : <<l[1], l[2]>> = l /\ l[1] \in Node /\ l[2] \in Node /\ l[1] # l[2]
  BY MediumAssumption
<1>8. ~aborted'
  BY <1>1, <1>2
<1>9. PosturesOK'
  BY <1>4, <1>5 DEF JInv, PosturesOK
<1>10. ASSUME NEW l \in Hears, NEW i \in DOMAIN link'[l] PROVE Stamped(l[1], link'[l][i])
  <2> DEFINE G == Left(l, ended)
  <2>1. \A j \in DOMAIN link[l] : Stamped(l[1], link[l][j])
    BY DEF JInv, StampsOK
  <2>2. G \in Seq(Frame) /\ \A j \in DOMAIN G : \E e \in DOMAIN link[l] : G[j] = link[l][e]
    <3>1. CASE l \in ended
      <4>1. link[l] # <<>> /\ link[l] \in Seq(Frame) /\ G = Tail(link[l])
        BY <1>3, <3>1 DEF Left
      <4>2. /\ G \in Seq(Frame) /\ DOMAIN link[l] = 1 .. Len(link[l]) /\ Len(link[l]) \in Nat
            /\ DOMAIN G = 1 .. Len(link[l]) - 1
            /\ \A j \in 1 .. Len(link[l]) - 1 : G[j] = link[l][j + 1]
        BY <4>1, HeadTailProperties
      <4> HIDE DEF G
      <4>3. \A j \in DOMAIN G : j + 1 \in DOMAIN link[l]
        BY <4>2
      <4> QED
        BY <4>2, <4>3
    <3>2. CASE l \notin ended
      <4>1. G = link[l] /\ G \in Seq(Frame)
        BY <1>3, <3>2 DEF Left
      <4> QED
        BY <4>1
    <3> QED
      BY <3>1, <3>2
  <2> HIDE DEF G
  <2>3. \A j \in DOMAIN G : Stamped(l[1], G[j])
    BY <2>1, <2>2
  <2>4. CASE l[1] = k /\ x.out # NoFrame
    <3>1. x.out \in Frame /\ link'[l] = Append(G, x.out)
      BY <1>2, <1>6, <2>4 DEF Sent, G
    <3>2. /\ DOMAIN Append(G, x.out) = 1 .. Len(G) + 1 /\ DOMAIN G = 1 .. Len(G) /\ Len(G) \in Nat
          /\ \A j \in 1 .. Len(G) : Append(G, x.out)[j] = G[j]
          /\ Append(G, x.out)[Len(G) + 1] = x.out
      BY <2>2, <3>1, AppendProperties
    <3>3. CASE i = Len(G) + 1
      BY <2>4, <3>1, <3>2, <3>3
    <3>4. CASE i # Len(G) + 1
      <4>1. i \in 1 .. Len(G)
        BY <3>1, <3>2, <3>4
      <4> QED
        BY <2>3, <3>1, <3>2, <4>1
    <3> QED
      BY <3>3, <3>4
  <2>5. CASE ~(l[1] = k /\ x.out # NoFrame)
    <3>1. link'[l] = G
      BY <1>6, <2>5 DEF Sent, G
    <3> QED
      BY <2>3, <3>1
  <2> QED
    BY <2>4, <2>5
<1>11. StampsOK'
  BY <1>10 DEF StampsOK
<1>12. ASSUME NEW n \in Node, NEW h \in Node, <<n, h>> \in Hears
       PROVE  Ledger(n, h, mac'[n], mac'[h], link'[<<n, h>>], Back(n, h)', handedUp'[<<n, h>>])
  <2>1. n # h
    BY <1>7, <1>12
  <2>2. Back(n, h)' = IF <<h, n>> \in Hears THEN link'[<<h, n>>] ELSE <<>>
    BY DEF Back
  <2>3. CASE n = k
    <3>1. link'[<<n, h>>] = Sent(link[<<n, h>>], x.out)
      <4>1. <<n, h>> \notin ended
        BY <1>12, <2>1, <2>3
      <4> QED
        BY <1>6, <1>12, <2>3, <4>1 DEF Left
    <3>2. Back(n, h)' = IF <<h, n>> \in Hears THEN Left(<<h, n>>, ended) ELSE <<>>
      BY <1>6, <2>1, <2>2, <2>3
    <3>3. handedUp'[<<n, h>>] = handedUp[<<n, h>>]
      BY <1>12, <2>1, <2>3
    <3>4. Ledger(n, h, x, mac[h], link'[<<n, h>>], Back(n, h)', handedUp'[<<n, h>>])
      BY <1>12, <2>3, <3>1, <3>2, <3>3 DEF Owns
    <3>5. mac'[n] = y /\ mac'[h] = mac[h] /\ Alike(mac[h], mac[h])
      BY <1>4, <2>1, <2>3 DEF Alike
    <3> QED
      BY <1>5, <3>4, <3>5, LedgerAlike
  <2>4. CASE h = k
    <3>1. link'[<<n, h>>] = Left(<<n, h>>, ended)
      BY <1>6, <1>12, <2>1, <2>4
    <3>2. Back(n, h)' = IF <<h, n>> \in Hears THEN Sent(link[<<h, n>>], x.out) ELSE <<>>
      <4>1. ASSUME <<h, n>> \in Hears PROVE link'[<<h, n>>] = Sent(link[<<h, n>>], x.out)
        <5>1. <<h, n>> \notin ended
          BY <2>1, <2>4
        <5> QED
          BY <1>6, <2>4, <4>1, <5>1 DEF Left
      <4> QED
        BY <2>2, <4>1
    <3>3. Ledger(n, h, mac[n], x, link'[<<n, h>>], Back(n, h)', handedUp'[<<n, h>>])
      BY <1>12, <2>4, <3>1, <3>2 DEF Answers
    <3>4. mac'[h] = y /\ mac'[n] = mac[n] /\ Alike(mac[n], mac[n])
      BY <1>4, <2>1, <2>4 DEF Alike
    <3> QED
      BY <1>5, <3>3, <3>4, LedgerAlike
  <2>5. CASE n # k /\ h # k
    <3>1. ASSUME NEW l \in Hears, l[1] # k, l[2] # k PROVE link'[l] = link[l]
      <4>1. l \notin ended
        BY <3>1
      <4> QED
        BY <1>6, <3>1, <4>1 DEF Left
    <3>2. link'[<<n, h>>] = link[<<n, h>>] /\ (<<h, n>> \in Hears => link'[<<h, n>>] = link[<<h, n>>])
      BY <1>12, <2>5, <3>1
    <3>3. Back(n, h)' = Back(n, h) /\ handedUp'[<<n, h>>] = handedUp[<<n, h>>]
      BY <1>12, <2>2, <2>5, <3>2 DEF Back
    <3>4. mac'[n] = mac[n] /\ mac'[h] = mac[h]
      BY <1>4, <2>5
    <3> QED
      BY <1>12, <3>2, <3>3, <3>4 DEF JInv, LedgersOK
  <2> QED
    BY <2>3, <2>4, <2>5
<1>13. LedgersOK'
  BY <1>12 DEF LedgersOK
<1> QED
  BY <1>8, <1>9, <1>11, <1>13 DEF JInv

\* The parts of the state that a ledger is about have their types.
LEMMA LedgerParts ==
  ASSUME IInv, JInv, NEW n \in Node, NEW h \in Node, <<n, h>> \in Hears
  PROVE  /\ link[<<n, h>>] \in Seq(Frame) /\ Back(n, h) \in Seq(Frame)
         /\ Ledger(n, h, mac[n], mac[h], link[<<n, h>>], Back(n, h), handedUp[<<n, h>>])
<1>1. \A l \in Hears : link[l] \in Seq(Frame)
  BY DEF IInv, LinksOK
<1>2. Back(n, h) \in Seq(Frame)
  BY <1>1 DEF Back
<1> QED
  BY <1>1, <1>2 DEF JInv, LedgersOK

\* A link from which the frames in ended were taken.
LEMMA LeftFacts ==
  ASSUME IInv, NEW l \in Hears, NEW ended, \A e \in ended : link[e] # <<>>
  PROVE  Shorter(link[l], Left(l, ended))
BY DEF Shorter, Left

\* A sender that goes on keeps its ledgers.
LEMMA SteadyOwns ==
  ASSUME IInv, JInv, NEW k \in Node, NEW x, NEW ended, \A e \in ended : link[e] # <<>>,
         Steady(mac[k], x),
         \/ x.out = NoFrame
         \/ x.out \in Frame /\ x.out.type \in {"CTS", "ACK"} /\ ~RtsOut(x) /\ ~Expects(x)
  PROVE  Owns(k, x, ended)
<1> SUFFICES ASSUME NEW h \in Node, <<k, h>> \in Hears
             PROVE  Ledger(k, h, x, mac[h], Sent(link[<<k, h>>], x.out),
                           IF <<h, k>> \in Hears THEN Left(<<h, k>>, ended) ELSE <<>>,
                           handedUp[<<k, h>>])
  BY DEF Owns
<1> DEFINE F == link[<<k, h>>]
           B == Back(k, h)
           G == Sent(F, x.out)
           C == IF <<h, k>> \in Hears THEN Left(<<h, k>>, ended) ELSE <<>>
           u == handedUp[<<k, h>>]
<1>1. F \in Seq(Frame) /\ B \in Seq(Frame) /\ Ledger(k, h, mac[k], mac[h], F, B, u)
  BY LedgerParts
<1>2. Shorter(B, C)
  BY LeftFacts DEF Back, Shorter
<1>3. Other(G, F, "RTS", h) /\ Other(G, F, "DATA", h)
  BY DEF Other, Sent
<1>4. G = F \/ (~RtsOut(x) /\ ~Expects(x))
  BY DEF Sent
<1> HIDE DEF F, B, G, C, u
<1>5. Ledger(k, h, x, mac[h], G, C, u)
  BY <1>1, <1>2, <1>3, <1>4, OwnerSteady
<1> QED
  BY <1>5 DEF F, G, C, u

\* A receiver that prepares no answer for n keeps its ledger with n.
LEMMA CalmLedger ==
  ASSUME IInv, JInv, NEW k \in Node, NEW x, NEW ended, \A e \in ended : link[e] # <<>>,
         NEW n \in Node, <<n, k>> \in Hears, Calm(n, mac[k], x),
         x.out = NoFrame \/ (x.out \in Frame /\ x.out.type \in {"RTS", "DATA"}),
         NEW v, handedUp[<<n, k>>] \subseteq v
  PROVE  Ledger(n, k, mac[n], x, Left(<<n, k>>, ended),
                IF <<k, n>> \in Hears THEN Sent(link[<<k, n>>], x.out) ELSE <<>>, v)
<1> DEFINE F == link[<<n, k>>]
           B == Back(n, k)
           G == Left(<<n, k>>, ended)
           C == IF <<k, n>> \in Hears THEN Sent(link[<<k, n>>], x.out) ELSE <<>>
           u == handedUp[<<n, k>>]
<1>1. F \in Seq(Frame) /\ B \in Seq(Frame) /\ Ledger(n, k, mac[n], mac[k], F, B, u)
  BY LedgerParts
<1>2. Shorter(F, G)
  BY LeftFacts
<1>3. Other(C, B, "CTS", n) /\ Other(C, B, "ACK", n)
  BY DEF Other, Sent, Back
<1>4. u \subseteq v
  OBVIOUS
<1> HIDE DEF F, B, G, C, u
<1>5. Ledger(n, k, mac[n], x, G, C, v)
  BY <1>1, <1>2, <1>3, <1>4, ResponderCalm
<1> QED
  BY <1>5 DEF G, C

\* A receiver that prepares no answer keeps its ledgers.
LEMMA CalmAnswers ==
  ASSUME IInv, JInv, NEW k \in Node, NEW x, NEW ended, \A e \in ended : link[e] # <<>>,
         \A n : Calm(n, mac[k], x),
         x.out = NoFrame \/ (x.out \in Frame /\ x.out.type \in {"RTS", "DATA"}),
         NEW U, \A n \in Node : handedUp[<<n, k>>] \subseteq U[<<n, k>>]
  PROVE  Answers(k, x, ended, U)
<1> SUFFICES ASSUME NEW n \in Node, <<n, k>> \in Hears
             PROVE  Ledger(n, k, mac[n], x, Left(<<n, k>>, ended),
                           IF <<k, n>> \in Hears THEN Sent(link[<<k, n>>], x.out) ELSE <<>>,
                           U[<<n, k>>])
  BY DEF Answers
<1>1. Calm(n, mac[k], x) /\ handedUp[<<n, k>>] \subseteq U[<<n, k>>]
  OBVIOUS
<1> QED
  BY <1>1, CalmLedger

\* A receiver whose timer has fired keeps its ledgers: what was due is on its way.
LEMMA TimerAnswers ==
  ASSUME IInv, JInv, NEW k \in Node, NEW x, mac[k].waitSend = 0, x.waitSend = Off,
         x.out = NoFrame \/ (x.out \in Frame /\ x.out = mac[k].pkt)
  PROVE  Answers(k, x, {}, handedUp)
<1> SUFFICES ASSUME NEW n \in Node, <<n, k>> \in Hears
             PROVE  Ledger(n, k, mac[n], x, Left(<<n, k>>, {}),
                           IF <<k, n>> \in Hears THEN Sent(link[<<k, n>>], x.out) ELSE <<>>,
                           handedUp[<<n, k>>])
  BY DEF Answers
<1> DEFINE F == link[<<n, k>>]
           B == Back(n, k)
           C == IF <<k, n>> \in Hears THEN Sent(link[<<k, n>>], x.out) ELSE <<>>
           u == handedUp[<<n, k>>]
<1>1. F \in Seq(Frame) /\ B \in Seq(Frame) /\ Ledger(n, k, mac[n], mac[k], F, B, u)
  BY LedgerParts
<1>2. Left(<<n, k>>, {}) = F
  BY DEF Left
<1>3. C = B \/ (mac[k].pkt \in Frame /\ C = Append(B, mac[k].pkt))
  BY DEF Sent, Back
<1> HIDE DEF F, B, C, u
<1>4. Ledger(n, k, mac[n], x, F, C, u)
  BY <1>1, <1>3, ResponderAnswers
<1> QED
  BY <1>2, <1>4 DEF C, u

\* A node that is alike goes on in the same way.
LEMMA SteadyAlike ==
  ASSUME NEW m, NEW x, NEW y, Alike(m, x)
  PROVE  (Steady(x, y) => Steady(m, y)) /\ (\A n : Calm(n, x, y) => Calm(n, m, y))
<1>1. TrainOf(x) = TrainOf(m) /\ (x.status = m.status)
  BY DEF Alike, TrainOf
<1>2. /\ RtsOut(x) <=> RtsOut(m)
      /\ RtsSlot(x) <=> RtsSlot(m)
      /\ CtsSlot(x) <=> CtsSlot(m)
      /\ Expects(x) <=> Expects(m)
      /\ Launched(x) <=> Launched(m)
  BY DEF Alike, RtsOut, RtsSlot, CtsSlot, Expects, Launched
<1>3. Steady(x, y) => Steady(m, y)
  BY <1>1, <1>2 DEF Steady
<1> QED
  BY <1>3 DEF Calm, Alike

\* Going on twice is going on.
LEMMA SteadyTwice ==
  ASSUME NEW m, NEW x, NEW y, Steady(m, x), Steady(x, y)
  PROVE  Steady(m, y)
BY DEF Steady
----------------------------------------------------------------------------
(* What each handler makes of a node *)

\* The step neither sends nor aborts, and neither changes how the node stands to its
\* neighbours.
Goes(m, x) == x.out = m.out /\ ~x.abort /\ Steady(m, x) /\ \A n : Calm(n, m, x)

\* One going on after the other is going on.
LEMMA GoesTwice ==
  ASSUME NEW m, NEW x, NEW y, Goes(m, x), Goes(x, y)
  PROVE  Goes(m, y)
<1>1. Steady(m, y)
  BY SteadyTwice DEF Goes
<1>2. \A n : Calm(n, m, y)
  BY DEF Goes, Calm
<1> QED
  BY <1>1, <1>2 DEF Goes

\* The head and the tail of what a node has queued are its own.
LEMMA OwnFacts ==
  ASSUME NEW n, NEW q \in Seq(Frame), Own(n, q), q # <<>>
  PROVE  Own(n, <<Head(q)>>) /\ Own(n, Tail(q)) /\ Head(q) \in Frame /\ Head(q).type = "DATA"
         /\ Head(q).SA = n
<1>1. /\ DOMAIN q = 1 .. Len(q) /\ Len(q) \in Nat /\ Len(q) >= 1 /\ q[1] = Head(q)
      /\ Head(q) \in Frame /\ DOMAIN Tail(q) = 1 .. (Len(q) - 1)
      /\ \A i \in 1 .. (Len(q) - 1) : Tail(q)[i] = q[i + 1]
  BY HeadTailProperties
<1>2. Head(q).type = "DATA" /\ Head(q).SA = n
  BY <1>1 DEF Own
<1>3. Own(n, <<Head(q)>>)
  BY <1>2 DEF Own
<1>4. Own(n, Tail(q))
  <2> SUFFICES ASSUME NEW i \in 1 .. (Len(q) - 1) PROVE Tail(q)[i].type = "DATA" /\ Tail(q)[i].SA = n
    BY <1>1 DEF Own
  <2>1. i + 1 \in DOMAIN q /\ Tail(q)[i] = q[i + 1]
    BY <1>1
  <2> QED
    BY <2>1 DEF Own
<1> QED
  BY <1>1, <1>2, <1>3, <1>4

\* A queue of one packet.
LEMMA OnePacket ==
  ASSUME NEW q \in Seq(Frame), q # <<>>, Len(q) <= 1
  PROVE  q = <<Head(q)>> /\ Len(q) = 1 /\ Tail(q) = <<>> /\ Head(q) \in Frame
<1>1. Len(q) \in Nat /\ Len(q) # 0 /\ q[1] = Head(q) /\ Head(q) \in Frame
      /\ Tail(q) \in Seq(Frame) /\ Len(Tail(q)) = Len(q) - 1
  BY HeadTailProperties
<1>2. Len(q) = 1 /\ Len(Tail(q)) = 0
  BY <1>1
<1>3. q = <<q[1]>>
  BY <1>2
<1>4. Tail(q) = <<>>
  BY <1>1, <1>2, EmptySeq
<1> QED
  BY <1>1, <1>2, <1>3, <1>4

\* The lengths of a node's trains.
LEMMA TrainFacts ==
  ASSUME NEW n, NEW S, NEW m \in State(S), Posture(n, m)
  PROVE  /\ Len(m.backup) \in Nat /\ Len(m.sending) \in Nat
         /\ m.backup # <<>> => m.sending = <<>> /\ Len(m.backup) = 1
         /\ m.sending # <<>> => m.backup = <<>> /\ Len(m.sending) = 1
<1>1. m.backup \in Seq(Frame) /\ m.sending \in Seq(Frame)
  BY StateFacts
<1>2. /\ Len(m.backup) \in Nat /\ Len(m.sending) \in Nat
      /\ m.backup # <<>> => Len(m.backup) # 0
      /\ m.sending # <<>> => Len(m.sending) # 0
      /\ Len(m.backup) = 0 => m.backup = <<>>
      /\ Len(m.sending) = 0 => m.sending = <<>>
  BY <1>1
<1>3. Len(m.backup) + Len(m.sending) <= 1
  BY DEF Posture
<1> DEFINE a == Len(m.backup)
           b == Len(m.sending)
<1>4. a \in Nat /\ b \in Nat /\ a + b <= 1
  BY <1>2, <1>3
<1> HIDE DEF a, b
<1>5. (a # 0 => b = 0 /\ a = 1) /\ (b # 0 => a = 0 /\ b = 1)
  BY <1>4
<1> QED
  BY <1>2, <1>5 DEF a, b

\* A train of one packet is the packet first in line.
LEMMA TakeOne ==
  ASSUME MaxBurst = 1, NEW S, NEW m \in State(S), m.cached # <<>>
  PROVE  takeTrain(m) = [m EXCEPT !.sending = <<Head(m.cached)>>, !.cached = Tail(m.cached)]
<1> DEFINE q == m.cached
           I == InTrain(q, Head(q).DA)
<1>1. q \in Seq(Frame) /\ 1 \in DOMAIN q /\ q[1] = Head(q) /\ DOMAIN q = 1 .. Len(q) /\ Len(q) \in Nat
  BY DEF State
<1>2. I = {1}
  <2> DEFINE d == Head(q).DA
             Up(i) == {j \in 1 .. i : q[j].DA = d}
  <2>1. I = {i \in DOMAIN q : q[i].DA = d /\ Cardinality(Up(i)) <= 1}
    BY DEF InTrain
  <2>2. Cardinality(Up(1)) = 1
    <3>1. Up(1) = {1}
      BY <1>1
    <3> QED
      BY <3>1, FS_Singleton
  <2>3. ASSUME NEW i \in DOMAIN q, q[i].DA = d, Cardinality(Up(i)) <= 1 PROVE i = 1
    <3> SUFFICES ASSUME i # 1 PROVE FALSE
      OBVIOUS
    <3>1. i \in Nat /\ i > 1
      BY <1>1, <2>3
    <3>2. 1 \in Up(i) /\ i \in Up(i) /\ Up(i) \subseteq 1 .. i
      BY <1>1, <2>3, <3>1
    <3> HIDE DEF Up
    <3>3. IsFiniteSet(1 .. i)
      BY <3>1, FS_Interval
    <3>4. IsFiniteSet(Up(i)) /\ Cardinality(Up(i)) \in Nat
      BY <3>2, <3>3, FS_Subset, FS_CardinalityType
    <3>5. Cardinality(Up(i)) # 0
      BY <3>2, <3>4, FS_EmptySet
    <3>6. \E x : Up(i) = {x}
      <4> DEFINE c == Cardinality(Up(i))
      <4>1. c \in Nat /\ c # 0 /\ c <= 1
        BY <2>3, <3>4, <3>5
      <4>2. c = 1
        <5> HIDE DEF c
        <5> QED
          BY <4>1
      <4> QED
        BY <3>4, <4>2, FS_Singleton
    <3> QED
      BY <3>1, <3>2, <3>6
  <2> HIDE DEF Up, I, q
  <2>4. 1 \in DOMAIN q /\ q[1].DA = d
    BY <1>1
  <2> HIDE DEF d
  <2> QED
    BY <2>1, <2>2, <2>3, <2>4
<1>3. takeTrain(m) = [m EXCEPT !.sending = Pick(q, I), !.cached = Pick(q, DOMAIN q \ I)]
  BY DEF takeTrain
<1> HIDE DEF I
<1>4. Pick(q, I) = <<Head(q)>> /\ Pick(q, DOMAIN q \ I) = Tail(q)
  BY <1>1, <1>2, PickHead
<1> QED
  BY <1>3, <1>4

\* An idle node that has a train schedules its RTS.
LEMMA ScheduleRTSGoes ==
  ASSUME NEW n \in Node, NEW S, NEW m \in State(S), Posture(n, m), ~m.abort,
         m.status = "IDLE_WAIT", m.backup = <<>>, m.sending # <<>>, NEW r \in Nat
  PROVE  /\ Posture(n, scheduleRTS(m, n, r)) /\ Goes(m, scheduleRTS(m, n, r))
         /\ scheduleRTS(m, n, r).status = "WAIT_SEND_RTS"
         /\ scheduleRTS(m, n, r).waitSend # 0 /\ ~scheduleRTS(m, n, r).statusEvent
<1> DEFINE f == Control("RTS", n, Head(m.sending).DA, TrainSlots(Len(m.sending)))
           x == scheduleRTS(m, n, r)
<1>1. Len(m.sending) = 1 /\ TrainOf(m) = m.sending
  BY TrainFacts DEF TrainOf
<1>2. f.type = "RTS" /\ f.SA = n /\ f.SlotNum = TrainSlots(1) /\ f.DA = Head(m.sending).DA
  BY <1>1 DEF Control
<1>3. x = [m EXCEPT !.status = "WAIT_SEND_RTS", !.waitSend = 1 + r, !.pkt = f]
  BY DEF scheduleRTS, SendAt, State
<1> HIDE DEF f
<1>4. /\ x.status = "WAIT_SEND_RTS" /\ x.waitSend = 1 + r /\ x.pkt = f /\ x.radio = m.radio
      /\ x.waitReply = m.waitReply /\ x.backoff = m.backoff /\ x.dataSend = m.dataSend
      /\ x.statusEvent = m.statusEvent /\ x.sending = m.sending /\ x.backup = m.backup
      /\ x.cached = m.cached /\ x.out = m.out /\ x.abort = m.abort
  BY <1>3 DEF State
<1> HIDE DEF x
<1>5. TrainOf(x) = TrainOf(m) /\ TrainTo(x, f.DA)
  BY <1>1, <1>2, <1>4 DEF TrainOf, TrainTo
<1>6. ~m.statusEvent /\ ~m.dataSend /\ m.waitSend = Off /\ m.waitReply = Off /\ m.backoff = Off
  BY DEF Posture, Prepared
<1>7. Prepared(n, x)
  BY <1>2, <1>4, <1>5 DEF Prepared
<1>8. Posture(n, x)
  BY <1>1, <1>4, <1>5, <1>6, <1>7 DEF Posture
<1>9. Steady(m, x)
  BY <1>4, <1>5, <1>6
  DEF Steady, Launched, RtsSlot, RtsOut, Expects, CtsSlot
<1>10. \A h : Calm(h, m, x)
  BY <1>2, <1>4 DEF Calm
<1> QED
  BY <1>4, <1>6, <1>8, <1>9, <1>10 DEF Goes, x

\* An idle node goes on with its train, or with the packet first in line.
LEMMA PrepareGoes ==
  ASSUME MaxBurst = 1, NEW n \in Node, NEW S, NEW m \in State(S), Posture(n, m), ~m.abort,
         m.status = "IDLE_WAIT", m.backup = <<>>, NEW r \in Nat, NEW x,
         x = prepareSendingDATA(m, n, r)
  PROVE  /\ Posture(n, x) /\ Goes(m, x)
         /\ x.status \in {"IDLE_WAIT", "WAIT_SEND_RTS"} /\ x.waitSend # 0 /\ ~x.statusEvent
<1>1. CASE m.sending # <<>>
  <2>1. x = scheduleRTS(m, n, r)
    BY <1>1 DEF prepareSendingDATA
  <2> QED
    BY <1>1, <2>1, ScheduleRTSGoes
<1>2. CASE m.sending = <<>> /\ m.cached # <<>>
  <2> DEFINE y == takeTrain(m)
             s == <<Head(m.cached)>>
             c == Tail(m.cached)
  <2>1. x = scheduleRTS(y, n, r)
    BY <1>2 DEF prepareSendingDATA
  <2>2. y = [m EXCEPT !.sending = s, !.cached = c]
    BY <1>2, TakeOne
  <2>3. m.cached \in Seq(Frame) /\ Own(n, m.cached)
    BY DEF State, Posture
  <2>4. Own(n, s) /\ Own(n, c) /\ s \in Seq(Frame) /\ c \in Seq(Frame) /\ Len(s) = 1 /\ s # <<>>
    <3>1. Own(n, s) /\ Own(n, c) /\ Head(m.cached) \in Frame
      BY <1>2, <2>3, OwnFacts
    <3>2. c \in Seq(Frame)
      BY <1>2, <2>3, HeadTailProperties
    <3> QED
      BY <3>1, <3>2
  <2> HIDE DEF y, s, c
  <2>5. y \in State(S)
    BY <2>2, <2>4 DEF State
  <2>6. /\ y.sending = s /\ y.cached = c /\ y.status = m.status /\ y.waitSend = m.waitSend
        /\ y.pkt = m.pkt /\ y.radio = m.radio
        /\ y.waitReply = m.waitReply /\ y.backoff = m.backoff /\ y.dataSend = m.dataSend
        /\ y.statusEvent = m.statusEvent /\ y.backup = m.backup
        /\ y.out = m.out /\ y.abort = m.abort
    BY <2>2 DEF State
  <2>7. TrainOf(m) = <<>>
    BY <1>2 DEF TrainOf
  <2>8. ~m.statusEvent /\ ~m.dataSend /\ m.waitSend = Off /\ m.waitReply = Off /\ m.backoff = Off
    BY DEF Posture, Prepared
  <2>9. Len(m.backup) = 0
    OBVIOUS
  <2>10. Posture(n, y)
    <3>1. Len(y.backup) + Len(y.sending) <= 1
      <4>1. Len(y.backup) = 0 /\ Len(y.sending) = 1
        BY <2>4, <2>6, <2>9, Zenon
      <4> QED
        BY <4>1
    <3>2. Own(n, y.cached) /\ Own(n, y.sending) /\ Own(n, y.backup)
      BY <2>4, <2>6 DEF Posture
    <3>3. y.radio.trans # "RECV" => Active(y.radio.chan) = {}
      BY <2>6 DEF Posture
    <3> QED
      BY <2>6, <2>8, <3>1, <3>2, <3>3 DEF Posture
  <2>11. Goes(m, y)
    BY <2>6, <2>7, <2>8
    DEF Goes, Steady, Calm, Launched, RtsSlot, RtsOut, Expects, CtsSlot
  <2>12. Posture(n, x) /\ Goes(y, x) /\ x.status = "WAIT_SEND_RTS" /\ x.waitSend # 0 /\ ~x.statusEvent
    BY <2>1, <2>4, <2>5, <2>6, <2>10, ScheduleRTSGoes
  <2> QED
    BY <2>11, <2>12, GoesTwice
<1>3. CASE m.sending = <<>> /\ m.cached = <<>>
  <2>1. x = m
    BY <1>3 DEF prepareSendingDATA
  <2>2. ~m.statusEvent /\ m.waitSend = Off
    BY DEF Posture, Prepared
  <2>3. Goes(m, m)
    BY DEF Goes, Steady, Calm
  <2> QED
    BY <2>1, <2>2, <2>3 DEF Off
<1> QED
  BY <1>1, <1>2, <1>3

\* A node that is alike goes on.
LEMMA GoesAlike ==
  ASSUME NEW m, NEW x, Alike(m, x), x.out = m.out, ~x.abort
  PROVE  Goes(m, x)
<1>1. Steady(m, x)
  BY DEF Alike, Steady, TrainOf, Launched, RtsSlot, RtsOut, Expects, CtsSlot
<1> QED
  BY <1>1 DEF Goes, Calm, Alike

\* A packet from above joins the node's own.
LEMMA OwnAppend ==
  ASSUME NEW n, NEW q \in Seq(Frame), Own(n, q), NEW f \in Frame, f.type = "DATA", f.SA = n
  PROVE  Own(n, Append(q, f))
<1>1. /\ DOMAIN q = 1 .. Len(q) /\ Len(q) \in Nat /\ DOMAIN Append(q, f) = 1 .. (Len(q) + 1)
      /\ \A i \in 1 .. Len(q) : Append(q, f)[i] = q[i]
      /\ Append(q, f)[Len(q) + 1] = f
  BY AppendProperties
<1> QED
  BY <1>1 DEF Own

\* A new packet.
LEMMA TxProcessGoes ==
  ASSUME MaxBurst = 1, NEW n \in Node, NEW S, NEW m \in State(S), Posture(n, m), ~m.abort,
         m.backup # <<>> => m.dataSend, NEW f \in Frame, f.type = "DATA", f.SA = n,
         NEW r \in Nat, NEW x, x = TxProcess(m, n, f, r)
  PROVE  Posture(n, x) /\ Goes(m, x)
<1> DEFINE c == Append(m.cached, f)
           q == [m EXCEPT !.cached = c]
<1>1. m.cached \in Seq(Frame) /\ Own(n, m.cached)
  BY DEF State, Posture
<1>2. c \in Seq(Frame) /\ Own(n, c)
  BY <1>1, AppendProperties, OwnAppend
<1> HIDE DEF c
<1>3. /\ Alike(m, q) /\ q.radio = m.radio /\ q.train = m.train /\ q.cached = c
      /\ q.out = m.out /\ q.abort = m.abort /\ q \in State(S)
  BY <1>2 DEF State, Alike
<1>4. x = IF Len(q.cached) = 1 /\ q.status = "IDLE_WAIT" THEN prepareSendingDATA(q, n, r) ELSE q
  BY DEF TxProcess, c
<1> HIDE DEF q
<1>5. Posture(n, q)
  <2>1. q.radio.trans # "RECV" => Active(q.radio.chan) = {}
    BY <1>3 DEF Posture
  <2> QED
    BY <1>2, <1>3, <2>1, PostureAlike
<1>6. Goes(m, q)
  BY <1>3, GoesAlike
<1>7. CASE Len(q.cached) = 1 /\ q.status = "IDLE_WAIT"
  <2>1. q.backup = <<>>
    BY <1>3, <1>7 DEF Posture, Alike
  <2>2. Posture(n, x) /\ Goes(q, x)
    BY <1>3, <1>4, <1>5, <1>7, <2>1, PrepareGoes
  <2> QED
    BY <1>6, <2>2, GoesTwice
<1>8. CASE ~(Len(q.cached) = 1 /\ q.status = "IDLE_WAIT")
  BY <1>4, <1>5, <1>6, <1>8
<1> QED
  BY <1>7, <1>8

\* After a frame has left, its sender waits for what the frame asked for.
LEMMA StatusGoes ==
  ASSUME NEW n, NEW S, NEW m \in State(S), Posture(n, m), ~m.abort, m.statusEvent,
         NEW x, x = StatusProcess(m)
  PROVE  Posture(n, x) /\ Goes(m, x)
<1> DEFINE i == SentStatus(m)
<1>1. /\ m.status \in {"WAIT_SEND_RTS", "WAIT_SEND_CTS", "WAIT_SEND_DATA", "WAIT_SEND_ACK"}
      /\ m.radio.trans = "SEND" /\ ~m.dataSend /\ m.waitSend = Off
      /\ Active(m.radio.chan) = {} /\ m.backoff = Off
      /\ m.waitReply # Off => m.status = "WAIT_SEND_DATA"
      /\ m.status = "WAIT_SEND_DATA" => m.waitReply # Off
      /\ m.status \in {"WAIT_SEND_RTS", "WAIT_SEND_DATA"} => TrainOf(m) # <<>>
      /\ Len(m.backup) + Len(m.sending) <= 1
      /\ Own(n, m.cached) /\ Own(n, m.sending) /\ Own(n, m.backup)
  <2>1. /\ m.status \in {"WAIT_SEND_RTS", "WAIT_SEND_CTS", "WAIT_SEND_DATA", "WAIT_SEND_ACK"}
        /\ m.radio.trans = "SEND" /\ ~m.dataSend /\ m.waitSend = Off
    BY DEF Posture
  <2>2. m.status = "WAIT_SEND_DATA" => m.waitReply # Off
    <3> SUFFICES ASSUME m.status = "WAIT_SEND_DATA" PROVE m.waitReply # Off
      OBVIOUS
    <3>1. Stage(m)
      BY DEF Posture
    <3>2. m.waitReply > 0
      BY <2>1, <3>1 DEF Stage
    <3> QED
      BY <3>2 DEF Off
  <2> QED
    BY <2>1, <2>2 DEF Posture
<1>2. /\ i.status = m.status /\ i.waitSend = m.waitSend /\ i.pkt = m.pkt
      /\ i.waitReply = m.waitReply /\ i.backoff = m.backoff /\ i.dataSend = m.dataSend
      /\ i.sending = m.sending /\ i.backup = m.backup /\ i.cached = m.cached
      /\ i.slotnum = m.slotnum /\ i.out = m.out /\ i.abort = m.abort
      /\ i.statusEvent = FALSE /\ i.radio.trans = "IDLE" /\ i.radio.chan = m.radio.chan
      /\ DOMAIN i = DOMAIN m
  BY DEF SentStatus, State, RadioState
<1>3. /\ "status" \in DOMAIN m /\ "waitReply" \in DOMAIN m /\ "backoff" \in DOMAIN m
      /\ m.slotnum \in Nat
  BY DEF State
<1> DEFINE Rest(y) ==
             /\ y.waitSend = Off /\ y.pkt = m.pkt /\ y.dataSend = FALSE
             /\ y.sending = m.sending /\ y.backup = m.backup /\ y.cached = m.cached
             /\ y.out = m.out /\ ~y.abort
             /\ y.statusEvent = FALSE /\ Active(y.radio.chan) = {}
<1>4. CASE m.status = "WAIT_SEND_RTS"
  <2> DEFINE y == [i EXCEPT !.status = "WAIT_RECV_CTS", !.waitReply = 2]
  <2>1. x = y
    BY <1>2, <1>4 DEF StatusProcess, Await
  <2>2. Rest(y) /\ y.status = "WAIT_RECV_CTS" /\ y.waitReply = 2 /\ y.backoff = Off
    BY <1>1, <1>2, <1>3, <1>4 DEF State
  <2> HIDE DEF y, i
  <2>3. TrainOf(y) = TrainOf(m)
    BY <2>2 DEF TrainOf
  <2>4. Posture(n, y)
    <3>1. y.waitReply <= 2
      BY <2>2
    <3> QED
      BY <1>1, <1>4, <2>2, <2>3, <3>1 DEF Posture
  <2>5. Goes(m, y)
    BY <1>1, <1>4, <2>2, <2>3
    DEF Goes, Steady, Calm, Launched, RtsSlot, RtsOut, Expects, CtsSlot
  <2> QED
    BY <2>1, <2>4, <2>5
<1>5. CASE m.status = "WAIT_SEND_CTS"
  <2> DEFINE k == m.slotnum + 1
             y == [i EXCEPT !.status = "WAIT_RECV_DATA", !.waitReply = k]
  <2>1. x = y
    BY <1>2, <1>5 DEF StatusProcess, Await
  <2>2. Rest(y) /\ y.status = "WAIT_RECV_DATA" /\ y.backoff = Off
    BY <1>1, <1>2, <1>3, <1>5
  <2> HIDE DEF y, i, k
  <2>3. TrainOf(y) = TrainOf(m)
    BY <2>2 DEF TrainOf
  <2>4. Posture(n, y)
    BY <1>1, <1>5, <2>2, <2>3 DEF Posture
  <2>5. Goes(m, y)
    BY <1>1, <1>5, <2>2, <2>3
    DEF Goes, Steady, Calm, Launched, RtsSlot, RtsOut, Expects, CtsSlot
  <2> QED
    BY <2>1, <2>4, <2>5
<1>6. CASE m.status = "WAIT_SEND_DATA"
  <2> DEFINE y == [i EXCEPT !.status = "WAIT_RECV_ACK"]
  <2>1. x = y
    BY <1>2, <1>6 DEF StatusProcess
  <2>2. Rest(y) /\ y.status = "WAIT_RECV_ACK" /\ y.backoff = Off
    BY <1>1, <1>2, <1>3, <1>6
  <2> HIDE DEF y, i
  <2>3. TrainOf(y) = TrainOf(m)
    BY <2>2 DEF TrainOf
  <2>4. Posture(n, y)
    BY <1>1, <1>6, <2>2, <2>3 DEF Posture
  <2>5. Goes(m, y)
    BY <1>1, <1>6, <2>2, <2>3
    DEF Goes, Steady, Calm, Launched, RtsSlot, RtsOut, Expects, CtsSlot
  <2> QED
    BY <2>1, <2>4, <2>5
<1>7. CASE m.status = "WAIT_SEND_ACK"
  <2> DEFINE y == [i EXCEPT !.status = "BACKOFF_FAIR", !.backoff = 1]
  <2>1. x = y
    BY <1>2, <1>7 DEF StatusProcess, WaitReplyTimerProcess
  <2>2. Rest(y) /\ y.status = "BACKOFF_FAIR" /\ y.waitReply = Off
    BY <1>1, <1>2, <1>3, <1>7
  <2> HIDE DEF y, i
  <2>3. TrainOf(y) = TrainOf(m)
    BY <2>2 DEF TrainOf
  <2>4. Posture(n, y)
    BY <1>1, <1>7, <2>2, <2>3 DEF Posture
  <2>5. Goes(m, y)
    BY <1>1, <1>7, <2>2, <2>3
    DEF Goes, Steady, Calm, Launched, RtsSlot, RtsOut, Expects, CtsSlot
  <2> QED
    BY <2>1, <2>4, <2>5
<1> QED
  BY <1>1, <1>4, <1>5, <1>6, <1>7

\* No reply has come: the node backs off.
LEMMA WaitReplyGoes ==
  ASSUME NEW n, NEW S, NEW m \in State(S), Posture(n, m), ~m.abort, m.waitReply = 0,
         NEW r \in Nat, NEW x,
         x = WaitReplyTimerProcess([m EXCEPT !.waitReply = Off], FALSE, r)
  PROVE  Posture(n, x) /\ Goes(m, x)
<1>1. /\ m.status \in {"WAIT_RECV_CTS", "WAIT_RECV_DATA", "WAIT_SEND_DATA", "WAIT_RECV_ACK"}
      /\ m.status = "WAIT_SEND_DATA" => Stage(m)
  BY DEF Posture, Off
<1>2. m.status # "WAIT_SEND_DATA"
  <2> SUFFICES ASSUME m.status = "WAIT_SEND_DATA" PROVE FALSE
    OBVIOUS
  <2>1. TrainSlots(1) \in Nat /\ TrainSlots(1) >= 2 /\ m.waitSend \in Nat \cup {-1} /\ m.train \in Nat
    BY SlotsOfTrain, StateFacts DEF Timer, Off
  <2> QED
    BY <1>1, <2>1 DEF Stage
<1>3. ~m.statusEvent /\ ~m.dataSend /\ m.waitSend = Off
  BY <1>1, <1>2 DEF Posture, Prepared
<1>4. /\ x.status = "BACKOFF" /\ x.backoff = 1 + r /\ x.waitReply = Off
      /\ x.waitSend = m.waitSend /\ x.pkt = m.pkt /\ x.dataSend = m.dataSend
      /\ x.sending = m.sending /\ x.backup = m.backup /\ x.cached = m.cached
      /\ x.out = m.out /\ x.abort = m.abort /\ x.radio = m.radio
      /\ x.statusEvent = m.statusEvent
  BY DEF WaitReplyTimerProcess, State
<1>5. TrainOf(x) = TrainOf(m)
  BY <1>4 DEF TrainOf
<1>6. Posture(n, x)
  BY <1>3, <1>4, <1>5 DEF Posture
<1>7. Steady(m, x)
  <2>1. ~RtsSlot(m)
    BY <1>1, <1>2 DEF RtsSlot, RtsOut
  <2> QED
    BY <1>4, <1>5, <2>1 DEF Steady, Launched, RtsOut, Expects, CtsSlot
<1>8. Goes(m, x)
  BY <1>3, <1>4, <1>7 DEF Goes, Calm
<1> QED
  BY <1>6, <1>8

\* The end of a backoff.
LEMMA BackoffGoes ==
  ASSUME MaxBurst = 1, NEW n \in Node, NEW S, NEW m \in State(S), Posture(n, m), ~m.abort,
         m.backup # <<>> => m.dataSend, m.backoff = 0, NEW r \in Nat, NEW x,
         x = BackoffTimerProcess([m EXCEPT !.backoff = Off], n, r)
  PROVE  Posture(n, x) /\ Goes(m, x)
<1> DEFINE i == [m EXCEPT !.backoff = Off, !.status = "IDLE_WAIT"]
<1>1. m.status \in {"BACKOFF", "BACKOFF_FAIR"}
  BY DEF Posture, Off
<1>2. ~m.statusEvent /\ ~m.dataSend /\ m.waitSend = Off /\ m.waitReply = Off /\ m.backup = <<>>
  BY <1>1 DEF Posture, Prepared
<1>3. x = prepareSendingDATA(i, n, r)
  BY DEF BackoffTimerProcess, State
<1>4. /\ i.status = "IDLE_WAIT" /\ i.backoff = Off
      /\ i.waitSend = m.waitSend /\ i.pkt = m.pkt /\ i.dataSend = m.dataSend
      /\ i.sending = m.sending /\ i.backup = m.backup /\ i.cached = m.cached
      /\ i.out = m.out /\ i.abort = m.abort /\ i.radio = m.radio
      /\ i.statusEvent = m.statusEvent /\ i.waitReply = m.waitReply /\ i \in State(S)
  BY ZenonT(60) DEF State, SFAMA_Status, Timer
<1> HIDE DEF i
<1>5. TrainOf(i) = TrainOf(m)
  BY <1>4 DEF TrainOf
<1>6. Posture(n, i)
  BY <1>2, <1>4, <1>5 DEF Posture
<1>7. Goes(m, i)
  BY <1>1, <1>2, <1>4, <1>5
  DEF Goes, Steady, Calm, Launched, RtsSlot, RtsOut, Expects, CtsSlot
<1>8. Posture(n, x) /\ Goes(i, x)
  <2>1. ~i.abort /\ i.backup = <<>>
    BY <1>2, <1>4
  <2> QED
    BY <1>3, <1>4, <1>6, <2>1, PrepareGoes
<1> QED
  BY <1>7, <1>8, GoesTwice

\* A control frame that is sent or dropped at its boundary.
LEMMA SendPktFields ==
  ASSUME NEW S, NEW m \in State(S), NEW f \in Frame, f.type # "DATA", m.busy = "nothing",
         ~m.statusEvent, NEW x, x = sendPkt(SendAt(m, Off, NoFrame), f)
  PROVE  /\ x.status = m.status /\ x.waitSend = Off /\ x.waitReply = m.waitReply
         /\ x.backoff = m.backoff /\ x.dataSend = m.dataSend /\ x.sending = m.sending
         /\ x.backup = m.backup /\ x.cached = m.cached /\ x.abort = m.abort /\ x.train = m.train
         /\ x.radio.chan = m.radio.chan
         /\ \/ /\ x.out = m.out /\ ~x.statusEvent /\ x.radio = m.radio
            \/ /\ x.out = f /\ x.statusEvent /\ x.radio.trans = "SEND"
               /\ m.radio.trans \notin {"RECV", "SEND"}
<1> DEFINE k == IF f.type = "CTS" THEN f.SlotNum ELSE m.slotnum
           a == [m EXCEPT !.waitSend = Off, !.pkt = NoFrame, !.slotnum = k]
<1>1. KeepSlotNum(SendAt(m, Off, NoFrame), f) = a
  BY DEF KeepSlotNum, SendAt, State
<1>2. /\ a.status = m.status /\ a.waitSend = Off /\ a.waitReply = m.waitReply
      /\ a.backoff = m.backoff /\ a.dataSend = m.dataSend /\ a.sending = m.sending
      /\ a.backup = m.backup /\ a.cached = m.cached /\ a.abort = m.abort /\ a.train = m.train
      /\ a.radio = m.radio /\ a.out = m.out /\ a.statusEvent = m.statusEvent
      /\ a.busy = "nothing"
  BY DEF State
<1>3. a \in State(S)
  <2>1. k \in Nat /\ Off \in Timer
    BY FrameFacts, StateFacts DEF Timer
  <2> HIDE DEF k
  <2> QED
    BY <2>1 DEF State
<1> HIDE DEF a, k
<1>4. OnAir(f) = "control"
  BY DEF OnAir
<1>5. CASE a.radio.trans \in {"RECV", "SEND"}
  <2> DEFINE y == [a EXCEPT !.busy = "control"]
  <2>1. SendDown(a, f) = y
    BY <1>4, <1>5 DEF SendDown
  <2>2. y.busy = "control"
    BY <1>3 DEF State
  <2>3. x = y
    BY <1>1, <2>1, <2>2 DEF sendPkt
  <2> QED
    BY <1>2, <1>3, <2>3 DEF State
<1>6. CASE a.radio.trans \notin {"RECV", "SEND"}
  <2> DEFINE r == [a.radio EXCEPT !.trans = "SEND"]
             y == [a EXCEPT !.radio = r, !.out = f, !.onAir = "control"]
             z == [y EXCEPT !.statusEvent = TRUE]
  <2>1. SendDown(a, f) = y
    BY <1>3, <1>4, <1>6 DEF SendDown, State
  <2>0. /\ r.trans = "SEND" /\ r.chan = a.radio.chan
        /\ r \in RadioState(S)
    BY <1>3 DEF State, RadioState, TransmissionStatus
  <2> HIDE DEF r
  <2>2. /\ y.status = m.status /\ y.waitSend = Off /\ y.waitReply = m.waitReply
        /\ y.backoff = m.backoff /\ y.dataSend = m.dataSend /\ y.sending = m.sending
        /\ y.backup = m.backup /\ y.cached = m.cached /\ y.abort = m.abort /\ y.train = m.train
        /\ y.radio.chan = m.radio.chan /\ y.radio.trans = "SEND" /\ y.out = f
        /\ y.statusEvent = m.statusEvent /\ y.busy = "nothing" /\ y \in State(S)
    BY <1>2, <1>3, <2>0 DEF State
  <2>3. x = z
    <3> HIDE DEF y
    <3> QED
      BY <1>1, <2>1, <2>2 DEF sendPkt, ScheduleStatus
  <2> HIDE DEF y
  <2>4. /\ z.status = y.status /\ z.waitSend = y.waitSend /\ z.waitReply = y.waitReply
        /\ z.backoff = y.backoff /\ z.dataSend = y.dataSend /\ z.sending = y.sending
        /\ z.backup = y.backup /\ z.cached = y.cached /\ z.abort = y.abort /\ z.train = y.train
        /\ z.radio = y.radio /\ z.out = y.out /\ z.statusEvent = TRUE
    BY <2>2 DEF State
  <2> HIDE DEF z
  <2> QED
    BY <1>2, <1>6, <2>2, <2>3, <2>4
<1> QED
  BY <1>5, <1>6

\* At its boundary a node sends what it has prepared, starts its train, or finds its
\* radio busy.
LEMMA WaitSendGoes ==
  ASSUME NEW n \in Node, NEW S, NEW m \in State(S), Posture(n, m), ~m.abort,
         m.out = NoFrame, m.busy = "nothing", m.backup # <<>> => m.dataSend, m.waitSend = 0,
         NEW x, x = WaitSendTimerProcess(SendAt(m, Off, NoFrame), m.pkt)
  PROVE  /\ Posture(n, x) /\ ~x.abort /\ x.waitSend = Off
         /\ \/ x.out = NoFrame /\ Steady(m, x)
            \/ /\ x.out = m.pkt /\ x.out \in Frame /\ Stamped(n, x.out)
               /\ \/ /\ x.out.type \in {"CTS", "ACK"} /\ Steady(m, x)
                     /\ ~RtsOut(x) /\ ~Expects(x)
                  \/ /\ x.out.type = "RTS" /\ TrainTo(x, x.out.DA) /\ TrainOf(x) = TrainOf(m)
                     /\ m.status = "WAIT_SEND_RTS" /\ x.status = "WAIT_SEND_RTS" /\ x.statusEvent
<1>1. Prepared(n, m) /\ ~m.statusEvent
  BY DEF Posture, Off
<1>2. m.pkt \in Answer \cup {NoFrame, Train}
  BY DEF State
<1>3. CASE m.pkt = Train
  <2>1. /\ x.status = m.status /\ x.waitSend = Off /\ x.waitReply = m.waitReply
        /\ x.backoff = m.backoff /\ x.dataSend = TRUE /\ x.sending = m.sending
        /\ x.backup = m.backup /\ x.cached = m.cached /\ x.abort = m.abort
        /\ x.radio = m.radio /\ x.statusEvent = m.statusEvent /\ x.out = m.out
    BY <1>3 DEF WaitSendTimerProcess, SendAt, State
  <2>2. m.status = "WAIT_SEND_DATA"
    BY <1>1, <1>3 DEF Prepared, Train
  <2>3. m.waitReply >= TrainSlots(1) + 1 /\ ~m.dataSend
    <3>1. Stage(m) /\ TrainSlots(1) \in Nat
      BY <2>2, SlotsOfTrain DEF Posture
    <3> QED
      BY <3>1 DEF Stage, Off
  <2>4. m.backup = <<>>
    BY <2>3
  <2>5. Stage(x)
    BY <1>1, <2>1, <2>3, <2>4 DEF Stage
  <2>6. TrainOf(x) = TrainOf(m)
    BY <2>1 DEF TrainOf
  <2>7. Posture(n, x)
    BY <1>1, <2>1, <2>2, <2>5, <2>6 DEF Posture
  <2>8. Steady(m, x)
    BY <2>1, <2>2, <2>4, <2>6 DEF Steady, Launched, RtsSlot, RtsOut, Expects, CtsSlot, Off
  <2> QED
    BY <2>1, <2>7, <2>8
<1>4. CASE m.pkt # Train
  <2> DEFINE f == m.pkt
  <2>1. f \in Frame /\ f.type \in {"RTS", "CTS", "ACK"}
    BY <1>1, <1>2, <1>4 DEF Prepared, Answer, NoFrame
  <2>2. x = sendPkt(SendAt(m, Off, NoFrame), f)
    BY <1>4 DEF WaitSendTimerProcess
  <2>3. \/ m.status = "WAIT_SEND_RTS" /\ f.type = "RTS" /\ TrainTo(m, f.DA)
        \/ m.status = "WAIT_SEND_CTS" /\ f.type = "CTS"
        \/ m.status = "WAIT_SEND_ACK" /\ f.type = "ACK"
    BY <1>1, <1>4 DEF Prepared
  <2>4. Stamped(n, f)
    BY <1>1, <1>4 DEF Prepared, Stamped
  <2> HIDE DEF f
  <2>5. /\ x.status = m.status /\ x.waitSend = Off /\ x.waitReply = m.waitReply
        /\ x.backoff = m.backoff /\ x.dataSend = m.dataSend /\ x.sending = m.sending
        /\ x.backup = m.backup /\ x.cached = m.cached /\ x.abort = m.abort
        /\ x.radio.chan = m.radio.chan
        /\ \/ /\ x.out = m.out /\ ~x.statusEvent /\ x.radio = m.radio
           \/ /\ x.out = f /\ x.statusEvent /\ x.radio.trans = "SEND"
              /\ m.radio.trans \notin {"RECV", "SEND"}
    BY <1>1, <2>1, <2>2, SendPktFields
  <2>6. TrainOf(x) = TrainOf(m) /\ (TrainTo(m, f.DA) => TrainTo(x, f.DA))
    BY <2>5 DEF TrainOf, TrainTo
  <2>7. m.status \in {"WAIT_SEND_RTS", "WAIT_SEND_CTS", "WAIT_SEND_ACK"} /\ ~m.dataSend
    BY <2>3 DEF Posture
  <2>8. Posture(n, x)
    BY <2>5, <2>6, <2>7 DEF Posture
  <2>9. ~(x.statusEvent /\ x.status = "WAIT_SEND_RTS") => Steady(m, x) /\ ~RtsOut(x) /\ ~Expects(x)
    <3>1. m.status = "WAIT_SEND_RTS" => ~CtsSlot(m)
      BY DEF CtsSlot
    <3>2. ~RtsSlot(m)
      BY <1>1, <2>7 DEF RtsSlot, RtsOut
    <3> QED
      BY <2>5, <2>6, <2>7, <3>1, <3>2 DEF Steady, Launched, RtsOut, Expects, CtsSlot
  <2>10. CASE x.out = m.out /\ ~x.statusEvent
    BY <2>5, <2>8, <2>9, <2>10
  <2>11. CASE x.out = f /\ x.statusEvent
    BY <2>1, <2>3, <2>4, <2>5, <2>6, <2>8, <2>9, <2>11 DEF f
  <2> QED
    BY <2>5, <2>10, <2>11
<1> QED
  BY <1>3, <1>4

\* A train of one packet: the packet leaves, or has left.
LEMMA DataSendGoes ==
  ASSUME NEW n \in Node, NEW S, NEW m \in State(S), Posture(n, m), ~m.abort,
         m.out = NoFrame, m.busy = "nothing", m.dataSend,
         NEW x, x = DataSendTimerProcess(m), x.busy # "data"
  PROVE  /\ Posture(n, x) /\ ~x.abort /\ \A h : Calm(h, m, x)
         /\ \/ x.out = NoFrame /\ Steady(m, x)
            \/ /\ x.out \in Frame /\ x.out.type = "DATA" /\ Stamped(n, x.out)
               /\ TrainOf(x) = <<x.out>> /\ ~Launched(m) /\ m.status = "WAIT_SEND_DATA"
               /\ x.status = "WAIT_SEND_DATA" /\ Launched(x)
<1>1. m.status = "WAIT_SEND_DATA" /\ Stage(m) /\ m.waitSend = Off /\ ~m.statusEvent
  BY DEF Posture, Stage
<1>2. m.sending \in Seq(Frame) /\ m.backup \in Seq(Frame) /\ m.train \in Nat
  BY StateFacts
<1>3. TrainSlots(1) \in Nat /\ TrainSlots(1) >= 2
  BY SlotsOfTrain
<1>4. /\ "radio" \in DOMAIN m /\ "out" \in DOMAIN m /\ "onAir" \in DOMAIN m
      /\ "statusEvent" \in DOMAIN m /\ "busy" \in DOMAIN m /\ "backup" \in DOMAIN m
      /\ "sending" \in DOMAIN m /\ "train" \in DOMAIN m /\ "dataSend" \in DOMAIN m
      /\ "trans" \in DOMAIN m.radio
  BY DEF State, RadioState
<1>5. CASE m.sending # <<>>
  <2> DEFINE f == Head(m.sending)
             t == TrainSlots(1) - 1
             e == IF m.onAir = "data" THEN "nothing" ELSE m.onAir
             a == [m EXCEPT !.train = t, !.onAir = e, !.backup = <<f>>, !.sending = <<>>]
             r == [m.radio EXCEPT !.trans = "SEND"]
             y == [a EXCEPT !.radio = r, !.out = f, !.onAir = "data"]
  <2>1. m.backup = <<>> /\ Len(m.sending) = 1 /\ Tail(m.sending) = <<>> /\ f \in Frame
    <3>1. m.backup = <<>> /\ Len(m.sending) = 1
      BY <1>5, TrainFacts
    <3>2. Len(m.sending) <= 1
      BY <3>1
    <3> QED
      BY <1>2, <1>5, <3>1, <3>2, OnePacket
  <2>2. f.type = "DATA" /\ f.SA = n /\ Own(n, <<f>>)
    <3>1. Own(n, m.sending)
      BY DEF Posture
    <3> QED
      BY <1>2, <1>5, <3>1, OwnFacts
  <2>3. m.waitReply >= TrainSlots(1) + 1
    BY <1>1, <2>1 DEF Stage
  <2>4. Append(<<>>, f) = <<f>>
    OBVIOUS
  <2>5. x = sendDataPkt(a, f)
    <3> DEFINE b == [LastDataLeft(StartTrain(m)) EXCEPT !.backup = Append(@, f), !.sending = Tail(@)]
    <3>1. x = sendDataPkt(b, f)
      BY <1>5 DEF DataSendTimerProcess, NextOfTrain
    <3>2. StartTrain(m) = [m EXCEPT !.train = t]
      BY <2>1 DEF StartTrain
    <3>3. LastDataLeft(StartTrain(m)) = [m EXCEPT !.train = t, !.onAir = e]
      <4> HIDE DEF t
      <4> QED
        BY <1>4, <3>2 DEF LastDataLeft
    <3>4. b = a
      <4> HIDE DEF t, e, f
      <4> QED
        BY <1>4, <2>1, <2>4, <3>3
    <3> QED
      BY <3>1, <3>4
  <2> HIDE DEF f, t, e
  <2>6. /\ a.status = m.status /\ a.waitSend = m.waitSend /\ a.waitReply = m.waitReply
        /\ a.backoff = m.backoff /\ a.dataSend = m.dataSend /\ a.sending = <<>>
        /\ a.backup = <<f>> /\ a.cached = m.cached /\ a.abort = m.abort /\ a.train = t
        /\ a.radio = m.radio /\ a.out = m.out /\ a.statusEvent = m.statusEvent
        /\ a.pkt = m.pkt /\ a \in State(S)
    <3>1. /\ t \in Nat /\ e \in {"nothing", "control", "data"}
          /\ <<f>> \in Seq(Frame) /\ <<>> \in Seq(Frame)
      BY <1>3, <2>1 DEF t, e, State
    <3> QED
      BY <3>1 DEF State
  <2>7. OnAir(f) = "data"
    BY <2>2 DEF OnAir
  <2> HIDE DEF a
  <2>8. x = y /\ m.radio.trans \notin {"RECV", "SEND"}
    <3>1. CASE a.radio.trans \in {"RECV", "SEND"}
      <4>1. x = [a EXCEPT !.busy = "data"]
        BY <2>5, <2>7, <3>1 DEF sendDataPkt, SendDown
      <4>2. x.busy = "data"
        BY <2>6, <4>1 DEF State
      <4> QED
        BY <4>2
    <3>2. CASE a.radio.trans \notin {"RECV", "SEND"}
      BY <2>5, <2>6, <2>7, <3>2 DEF sendDataPkt, SendDown, State
    <3> QED
      BY <3>1, <3>2
  <2>0. r.trans = "SEND" /\ r.chan = m.radio.chan
    BY DEF State, RadioState
  <2> HIDE DEF r
  <2>9. /\ x.status = m.status /\ x.waitSend = m.waitSend /\ x.waitReply = m.waitReply
        /\ x.backoff = m.backoff /\ x.dataSend = m.dataSend /\ x.sending = <<>>
        /\ x.backup = <<f>> /\ x.cached = m.cached /\ x.abort = m.abort /\ x.train = t
        /\ x.radio.chan = m.radio.chan /\ x.radio.trans = "SEND" /\ x.out = f
        /\ x.statusEvent = m.statusEvent /\ x.pkt = m.pkt
    <3>1. /\ y.status = a.status /\ y.waitSend = a.waitSend /\ y.waitReply = a.waitReply
          /\ y.backoff = a.backoff /\ y.dataSend = a.dataSend /\ y.sending = a.sending
          /\ y.backup = a.backup /\ y.cached = a.cached /\ y.abort = a.abort
          /\ y.train = a.train /\ y.radio = r /\ y.out = f
          /\ y.statusEvent = a.statusEvent /\ y.pkt = a.pkt
      <4>1. a \in State(S)
        BY <2>6
      <4> QED
        BY <4>1 DEF State
    <3> HIDE DEF y
    <3> QED
      BY <2>0, <2>6, <2>8, <3>1
  <2> HIDE DEF y
  <2>10. <<f>> # <<>> /\ Len(<<f>>) = 1 /\ Len(<<>>) = 0
    OBVIOUS
  <2>11. TrainOf(x) = <<f>>
    BY <2>9, <2>10 DEF TrainOf
  <2>12. Stage(x)
    <3>1. x.waitReply >= x.train + 2
      BY <1>3, <2>3, <2>9 DEF t
    <3> QED
      BY <1>1, <2>9, <2>10, <3>1 DEF Stage
  <2>13. Posture(n, x)
    <3>1. Own(n, x.backup) /\ Own(n, x.sending) /\ Own(n, x.cached)
      BY <2>2, <2>9 DEF Posture, Own
    <3>2. Len(x.backup) + Len(x.sending) <= 1
      <4>1. Len(x.backup) = 1 /\ Len(x.sending) = 0
        BY <2>9, <2>10, Zenon
      <4> QED
        BY <4>1
    <3> QED
      BY <1>1, <2>8, <2>9, <2>10, <2>11, <2>12, <3>1, <3>2 DEF Posture
  <2>14. Stamped(n, f)
    BY <2>2 DEF Stamped
  <2>15. ~Launched(m) /\ Launched(x)
    BY <1>1, <2>1, <2>9, <2>10 DEF Launched
  <2> QED
    BY <1>1, <2>1, <2>2, <2>9, <2>11, <2>13, <2>14, <2>15 DEF Calm
<1>6. CASE m.sending = <<>>
  <2> DEFINE e == IF m.onAir = "data" THEN "nothing" ELSE m.onAir
             a == [m EXCEPT !.onAir = e, !.sending = m.backup, !.backup = <<>>, !.dataSend = FALSE]
             y == [a EXCEPT !.statusEvent = TRUE]
  <2>1. m.backup # <<>>
    BY <1>1, <1>6 DEF Posture, TrainOf
  <2>2. m.radio.trans = "SEND" /\ m.waitReply >= m.train + 2
    BY <1>1, <2>1 DEF Stage
  <2>3. EndOfTrain(m) = a
    BY <1>4 DEF EndOfTrain, LastDataLeft
  <2>4. /\ a.status = m.status /\ a.waitSend = m.waitSend /\ a.waitReply = m.waitReply
        /\ a.backoff = m.backoff /\ a.dataSend = FALSE /\ a.sending = m.backup
        /\ a.backup = <<>> /\ a.cached = m.cached /\ a.abort = m.abort
        /\ a.radio = m.radio /\ a.out = m.out /\ a.statusEvent = m.statusEvent
        /\ a.pkt = m.pkt /\ DOMAIN a = DOMAIN m
    BY <1>4
  <2> HIDE DEF a
  <2>5. x = y
    BY <1>1, <1>6, <2>3, <2>4 DEF DataSendTimerProcess, ScheduleStatus
  <2>6. /\ x.status = m.status /\ x.waitSend = m.waitSend /\ x.waitReply = m.waitReply
        /\ x.backoff = m.backoff /\ x.dataSend = FALSE /\ x.sending = m.backup
        /\ x.backup = <<>> /\ x.cached = m.cached /\ x.abort = m.abort
        /\ x.radio = m.radio /\ x.out = m.out /\ x.statusEvent = TRUE
        /\ x.pkt = m.pkt
    BY <1>4, <2>4, <2>5
  <2> HIDE DEF y
  <2>7. TrainOf(x) = TrainOf(m)
    BY <2>1, <2>6 DEF TrainOf
  <2>8. Stage(x)
    <3>1. x.waitReply > 0
      <4>1. m.waitReply \in Int
        BY StateFacts DEF Timer, Off
      <4> QED
        BY <1>2, <2>2, <2>6, <4>1
    <3> QED
      BY <1>1, <2>6, <3>1 DEF Stage
  <2>9. Posture(n, x)
    <3>1. Len(x.backup) + Len(x.sending) <= 1
      <4>1. Len(x.backup) = 0
        BY <2>6
      <4>2. Len(x.sending) = 1
        BY <2>1, <2>6, TrainFacts
      <4> QED
        BY <4>1, <4>2
    <3>2. Own(n, x.backup) /\ Own(n, x.sending) /\ Own(n, x.cached)
      BY <2>6 DEF Posture, Own
    <3> QED
      BY <1>1, <2>1, <2>2, <2>6, <2>7, <2>8, <3>1, <3>2 DEF Posture
  <2>10. Steady(m, x)
    BY <1>1, <2>1, <2>6, <2>7 DEF Steady, Launched, RtsSlot, RtsOut, Expects, CtsSlot
  <2> QED
    BY <1>1, <2>6, <2>9, <2>10 DEF Calm
<1> QED
  BY <1>5, <1>6

\* A node that receives a frame is not sending, and has no train under way.
Listens(m) == ~m.statusEvent /\ ~m.dataSend /\ m.backup = <<>> /\ ~m.abort

\* Whoever overhears others keeps silent.
LEMMA BackedOffGoes ==
  ASSUME NEW n, NEW S, NEW m \in State(S), Posture(n, m), Listens(m), NEW k \in Nat, k >= 1,
         NEW x, x = Backoff(m, k)
  PROVE  Posture(n, x) /\ Goes(m, x)
<1>1. /\ x.status = "BACKOFF" /\ x.waitSend = Off /\ x.waitReply = Off /\ x.backoff = k
      /\ x.dataSend = m.dataSend /\ x.statusEvent = m.statusEvent
      /\ x.sending = m.sending /\ x.backup = m.backup /\ x.cached = m.cached
      /\ x.radio = m.radio /\ x.out = m.out /\ x.abort = m.abort
  BY DEF Backoff, stopTimers, State
<1>2. TrainOf(x) = TrainOf(m)
  BY <1>1 DEF TrainOf
<1>3. Posture(n, x)
  BY <1>1, <1>2 DEF Posture, Listens
<1>4. Steady(m, x)
  BY <1>1, <1>2 DEF Steady, Launched, RtsSlot, RtsOut, Expects, CtsSlot
<1> QED
  BY <1>1, <1>3, <1>4 DEF Goes, Calm, Listens

\* What is left as it was goes on.
LEMMA GoesNowhere ==
  ASSUME NEW m, Listens(m)
  PROVE  Goes(m, m)
BY DEF Goes, Steady, Calm, Listens

\* An RTS: it is overheard, ignored, or answered at the next boundary.
LEMMA ProcessRTSGoes ==
  ASSUME NEW n \in Node, NEW S, NEW m \in State(S), Posture(n, m), Listens(m), NEW s \in Node,
         <<s, n>> \in Hears, NEW f \in Frame, Stamped(s, f), f.type = "RTS",
         NEW x, x = processRTS(m, n, f)
  PROVE  /\ Posture(n, x)
         /\ \/ Goes(m, x)
            \/ /\ f.DA = n /\ Steady(m, x) /\ x.out = m.out /\ ~x.abort
               /\ x.waitSend = 1 /\ x.pkt.type = "CTS" /\ x.pkt.DA = s
<1>1. CASE f.DA # n
  <2> DEFINE k == 1 + f.SlotNum + TwoSeconds
  <2>1. x = Backoff(m, k)
    BY <1>1 DEF processRTS
  <2>2. k \in Nat /\ k >= 1
    <3>1. OneSecond \in Nat /\ TwoSeconds \in {2 * OneSecond, 2 * OneSecond + 1}
      BY SFAMAAssumption
    <3>2. TwoSeconds \in Nat /\ f.SlotNum \in Nat
      BY <3>1, FrameFacts
    <3> QED
      BY <3>2
  <2> HIDE DEF k
  <2> QED
    BY <2>1, <2>2, BackedOffGoes
<1>2. CASE f.DA = n /\ m.status \in {"IDLE_WAIT", "WAIT_SEND_RTS", "BACKOFF_FAIR"}
  <2> DEFINE c == Control("CTS", n, f.SA, f.SlotNum)
  <2>1. x = SendAt([stopTimers(m) EXCEPT !.status = "WAIT_SEND_CTS"], 1, c)
    BY <1>2 DEF processRTS
  <2>2. c.type = "CTS" /\ c.SA = n /\ c.DA = s /\ c.SlotNum = TrainSlots(1)
    BY DEF Control, Stamped
  <2> HIDE DEF c
  <2>3. /\ x.status = "WAIT_SEND_CTS" /\ x.waitSend = 1 /\ x.pkt = c /\ x.waitReply = Off
        /\ x.backoff = Off
        /\ x.dataSend = m.dataSend /\ x.statusEvent = m.statusEvent
        /\ x.sending = m.sending /\ x.backup = m.backup /\ x.cached = m.cached
        /\ x.radio = m.radio /\ x.out = m.out /\ x.abort = m.abort
    BY <2>1 DEF SendAt, stopTimers, State
  <2>4. TrainOf(x) = TrainOf(m)
    BY <2>3 DEF TrainOf
  <2>5. Prepared(n, x)
    BY <2>2, <2>3 DEF Prepared
  <2>6. Posture(n, x)
    BY <2>3, <2>4, <2>5 DEF Posture, Listens
  <2>7. Steady(m, x)
    <3>1. ~RtsSlot(m)
      BY <1>2 DEF RtsSlot, RtsOut, Listens
    <3> QED
      BY <2>3, <2>4, <3>1 DEF Steady, Launched, RtsOut, Expects, CtsSlot
  <2> QED
    BY <1>2, <2>2, <2>3, <2>6, <2>7 DEF Listens
<1>3. CASE f.DA = n /\ m.status \notin {"IDLE_WAIT", "WAIT_SEND_RTS", "BACKOFF_FAIR"}
  <2>1. x = m
    BY <1>3 DEF processRTS
  <2> QED
    BY <2>1, GoesNowhere
<1> QED
  BY <1>1, <1>2, <1>3

\* A CTS: it is overheard, or starts the train at the next boundary.
LEMMA ProcessCTSGoes ==
  ASSUME NEW n \in Node, NEW S, NEW m \in State(S), Posture(n, m), Listens(m), NEW s \in Node,
         NEW f \in Frame, Stamped(s, f), f.type = "CTS", NEW late \in {0, 1},
         NEW x, x = processCTS(m, n, f, late)
  PROVE  /\ Posture(n, x)
         /\ \/ Goes(m, x)
            \/ /\ f.DA = n /\ m.status = "WAIT_RECV_CTS" /\ x.status = "WAIT_SEND_DATA"
               /\ \A h : Calm(h, m, x)
               /\ x.out = m.out /\ ~x.abort /\ TrainOf(x) = TrainOf(m)
<1>1. CASE f.DA = n /\ m.status = "WAIT_RECV_CTS"
  <2> DEFINE k == 2 + f.SlotNum + late
             i == [stopTimers(m) EXCEPT !.status = "WAIT_SEND_DATA", !.waitReply = k]
  <2>1. x = SendAt(i, 1, Train)
    BY <1>1 DEF processCTS
  <2>2. f.SlotNum = TrainSlots(1) /\ TrainSlots(1) \in Nat
    BY SlotsOfTrain DEF Stamped
  <2> DEFINE y == SendAt(i, 1, Train)
  <2>3. /\ y.status = "WAIT_SEND_DATA" /\ y.waitSend = 1 /\ y.pkt = Train /\ y.waitReply = k
        /\ y.backoff = Off
        /\ y.dataSend = m.dataSend /\ y.statusEvent = m.statusEvent
        /\ y.sending = m.sending /\ y.backup = m.backup /\ y.cached = m.cached
        /\ y.radio = m.radio /\ y.out = m.out /\ y.abort = m.abort
    BY DEF SendAt, stopTimers, State
  <2> HIDE DEF y
  <2>4. TrainOf(y) = TrainOf(m) /\ TrainOf(m) # <<>>
    BY <1>1, <2>3 DEF TrainOf, Posture
  <2>5. Prepared(n, y)
    BY <2>3 DEF Prepared
  <2>6. Stage(y)
    <3>1. y.waitReply >= TrainSlots(1) + 1 + y.waitSend
      BY <2>2, <2>3
    <3> QED
      BY <2>3, <3>1 DEF Stage, Listens, Off
  <2>7. Posture(n, y)
    BY <2>3, <2>4, <2>5, <2>6 DEF Posture, Listens
  <2>8. \A h : Calm(h, m, y)
    BY <2>3 DEF Calm, Train
  <2>9. x = y
    BY <2>1 DEF y
  <2> QED
    BY <1>1, <2>3, <2>4, <2>7, <2>8, <2>9 DEF Listens
<1>2. CASE ~(f.DA = n /\ m.status = "WAIT_RECV_CTS")
  <2> DEFINE k == 1 + f.SlotNum + OneSecond
  <2>1. x = Backoff(m, k)
    BY <1>2 DEF processCTS
  <2>2. k \in Nat /\ k >= 1
    BY SFAMAAssumption, FrameFacts
  <2> HIDE DEF k
  <2> QED
    BY <2>1, <2>2, BackedOffGoes
<1> QED
  BY <1>1, <1>2

\* A packet: it is overheard, or handed up and acknowledged at the next boundary.
LEMMA ProcessDATAGoes ==
  ASSUME NEW n \in Node, NEW S, NEW m \in State(S), Posture(n, m), Listens(m), NEW s \in Node,
         <<s, n>> \in Hears, NEW f \in Frame, Stamped(s, f), f.type = "DATA",
         NEW x, x = processDATA(m, n, f)
  PROVE  /\ Posture(n, x) /\ Steady(m, x) /\ x.out = m.out /\ ~x.abort
         /\ ~ForUs(m, n, f) => Goes(m, x)
         /\ ForUs(m, n, f) => x.waitSend = 1 /\ x.pkt.type = "ACK" /\ x.pkt.DA = s
<1>1. CASE ForUs(m, n, f)
  <2> DEFINE c == Control("ACK", n, f.SA, 0)
  <2>1. x = SendAt([stopTimers(m) EXCEPT !.status = "WAIT_SEND_ACK"], 1, c)
    BY <1>1 DEF processDATA
  <2>2. c.type = "ACK" /\ c.SA = n /\ c.DA = s
    BY DEF Control, Stamped
  <2> HIDE DEF c
  <2>3. /\ x.status = "WAIT_SEND_ACK" /\ x.waitSend = 1 /\ x.pkt = c /\ x.waitReply = Off
        /\ x.backoff = Off
        /\ x.dataSend = m.dataSend /\ x.statusEvent = m.statusEvent
        /\ x.sending = m.sending /\ x.backup = m.backup /\ x.cached = m.cached
        /\ x.radio = m.radio /\ x.out = m.out /\ x.abort = m.abort
    BY <2>1 DEF SendAt, stopTimers, State
  <2>4. TrainOf(x) = TrainOf(m)
    BY <2>3 DEF TrainOf
  <2>5. Prepared(n, x)
    BY <2>2, <2>3 DEF Prepared
  <2>6. Posture(n, x)
    BY <2>3, <2>4, <2>5 DEF Posture, Listens
  <2>7. Steady(m, x)
    <3>1. ~RtsSlot(m)
      BY <1>1 DEF RtsSlot, RtsOut, ForUs
    <3> QED
      BY <2>3, <2>4, <3>1 DEF Steady, Launched, RtsOut, Expects, CtsSlot
  <2> QED
    BY <1>1, <2>2, <2>3, <2>6, <2>7 DEF Listens
<1>2. CASE ~ForUs(m, n, f)
  <2> DEFINE k == 1 + OneSecond
  <2>1. x = Backoff(m, k)
    BY <1>2 DEF processDATA
  <2>2. k \in Nat /\ k >= 1
    BY SFAMAAssumption
  <2> HIDE DEF k
  <2>3. Posture(n, x) /\ Goes(m, x)
    BY <2>1, <2>2, BackedOffGoes
  <2> QED
    BY <1>2, <2>3 DEF Goes
<1> QED
  BY <1>1, <1>2

\* An ACK: it is ignored, or the next train is prepared.
LEMMA ProcessACKGoes ==
  ASSUME MaxBurst = 1, NEW n \in Node, NEW S, NEW m \in State(S), Posture(n, m), Listens(m),
         NEW f \in Frame, f.type = "ACK", NEW r \in Nat, NEW x, x = processACK(m, n, f, r)
  PROVE  /\ Posture(n, x) /\ x.out = m.out /\ ~x.abort /\ \A h : Calm(h, m, x)
         /\ ~Acknowledged(m, n, f) => x = m /\ Goes(m, x)
         /\ Acknowledged(m, n, f) =>
              x.status \in {"IDLE_WAIT", "WAIT_SEND_RTS"} /\ x.waitSend # 0 /\ ~x.statusEvent
<1>1. CASE Acknowledged(m, n, f)
  <2> DEFINE i == [stopTimers(m) EXCEPT !.status = "IDLE_WAIT", !.sending = <<>>]
  <2>1. x = prepareSendingDATA(i, n, r)
    BY <1>1 DEF processACK
  <2>2. i \in State(S)
    <3>1. <<>> \in Seq(Frame) /\ Off \in Timer /\ "IDLE_WAIT" \in SFAMA_Status
      BY DEF Timer, SFAMA_Status
    <3> QED
      BY <3>1 DEF State, stopTimers
  <2>3. /\ i.status = "IDLE_WAIT" /\ i.waitSend = Off /\ i.waitReply = Off
        /\ i.backoff = Off /\ i.dataSend = m.dataSend /\ i.statusEvent = m.statusEvent
        /\ i.sending = <<>> /\ i.backup = m.backup /\ i.cached = m.cached
        /\ i.radio = m.radio /\ i.out = m.out /\ i.abort = m.abort
    BY DEF stopTimers, State
  <2> HIDE DEF i
  <2>4. Posture(n, i)
    <3>1. Len(i.backup) + Len(i.sending) <= 1
      <4>1. i.backup = <<>> /\ Len(<<>>) = 0
        BY <2>3 DEF Listens
      <4> QED
        BY <2>3, <4>1
    <3>2. Own(n, i.backup) /\ Own(n, i.sending) /\ Own(n, i.cached)
      BY <2>3 DEF Posture, Own
    <3> QED
      BY <2>3, <3>1, <3>2 DEF Posture, Listens
  <2>5. ~i.abort /\ i.backup = <<>>
    BY <2>3 DEF Listens
  <2>6. /\ Posture(n, x) /\ Goes(i, x)
        /\ x.status \in {"IDLE_WAIT", "WAIT_SEND_RTS"} /\ x.waitSend # 0 /\ ~x.statusEvent
    BY <2>1, <2>2, <2>3, <2>4, <2>5, PrepareGoes
  <2>7. \A h : Calm(h, m, x)
    BY <2>3, <2>6 DEF Goes, Calm
  <2> QED
    BY <1>1, <2>3, <2>6, <2>7 DEF Goes
<1>2. CASE ~Acknowledged(m, n, f)
  <2>1. x = m
    BY <1>2 DEF processACK
  <2>2. Goes(m, m)
    BY GoesNowhere
  <2> QED
    BY <1>2, <2>1, <2>2 DEF Goes
<1> QED
  BY <1>1, <1>2
----------------------------------------------------------------------------
(* Every step *)

\* What the invariants say of a node that takes a step.
LEMMA ActorFacts ==
  ASSUME IInv, JInv, NEW n \in Node
  PROVE  /\ mac[n] \in State(Senders(n)) /\ Posture(n, mac[n]) /\ ~mac[n].abort
         /\ mac[n].out = NoFrame /\ mac[n].busy = "nothing"
         /\ mac[n].backup # <<>> => mac[n].dataSend
         /\ RadioInv(Senders(n), mac[n].radio)
<1>1. Good(mac[n], Senders(n), Blocked(n)) /\ Fresh(mac[n])
  BY NodeFacts
<1>2. Posture(n, mac[n])
  BY DEF JInv, PosturesOK
<1> QED
  BY <1>1, <1>2 DEF Good, Core, Fresh

\* A node that goes on and sends nothing disturbs no ledger.
LEMMA QuietStep ==
  ASSUME IInv, JInv, NEW k \in Node, NEW S, NEW x \in State(S), NEW ended, Becomes(k, x, ended),
         \A l \in ended : l \in Hears /\ l[2] = k /\ link[l] # <<>>,
         Posture(k, x), Goes(mac[k], x), handedUp' = handedUp, TodoOK'
  PROVE  JInv'
<1>1. x.out = NoFrame /\ ~x.abort /\ Steady(mac[k], x) /\ \A n : Calm(n, mac[k], x)
  BY ActorFacts DEF Goes
<1>2. Owns(k, x, ended)
  BY <1>1, SteadyOwns
<1>3. Answers(k, x, ended, handedUp)
  BY <1>1, CalmAnswers
<1> QED
  BY <1>1, <1>2, <1>3, Rejoin

\* A packet comes from above.
LEMMA SubmitJInv ==
  ASSUME MaxBurst = 1, IInv, JInv, NEW n \in Node, Submit(n)
  PROVE  JInv'
<1> DEFINE f == Data(n, Head(todo[n]))
           S == Senders(n)
<1>1. todo \in [Node -> Seq(Packet)] /\ todo[n] # <<>> /\ todo[n] \in Seq(Packet)
  BY NodeFacts DEF Submit
<1>2. f \in Frame /\ f.type = "DATA" /\ f.SA = n
  BY <1>1, HeadTailProperties, DataFrame DEF Data
<1>3. PICK r \in Draw : Becomes(n, TxProcess(mac[n], n, f, r), {})
  BY DEF Submit
<1>4. r \in Nat
  BY DrawFacts
<1> HIDE DEF f, S
<1>5. /\ mac[n] \in State(S) /\ Posture(n, mac[n]) /\ ~mac[n].abort
      /\ mac[n].backup # <<>> => mac[n].dataSend
  BY ActorFacts DEF S
<1> DEFINE x == TxProcess(mac[n], n, f, r)
<1>6. x \in State(S)
  BY <1>2, <1>4, NodeFacts, TxProcessGood DEF S, Good, Core
<1>7. Posture(n, x) /\ Goes(mac[n], x)
  BY <1>2, <1>4, <1>5, TxProcessGoes
<1>8. TodoOK'
  <2>1. todo' = [todo EXCEPT ![n] = Tail(@)]
    BY DEF Submit
  <2>2. \A k \in Node : \A i \in DOMAIN todo'[k] : \E j \in DOMAIN todo[k] : todo'[k][i] = todo[k][j]
    <3> SUFFICES ASSUME NEW k \in Node, NEW i \in DOMAIN todo'[k]
                 PROVE  \E j \in DOMAIN todo[k] : todo'[k][i] = todo[k][j]
      OBVIOUS
    <3>1. CASE k = n
      <4>1. todo'[k] = Tail(todo[n])
        BY <1>1, <2>1, <3>1
      <4>2. /\ DOMAIN todo[n] = 1 .. Len(todo[n]) /\ Len(todo[n]) \in Nat
            /\ DOMAIN Tail(todo[n]) = 1 .. (Len(todo[n]) - 1)
            /\ \A e \in 1 .. (Len(todo[n]) - 1) : Tail(todo[n])[e] = todo[n][e + 1]
        BY <1>1, HeadTailProperties
      <4>3. i + 1 \in DOMAIN todo[n] /\ todo'[k][i] = todo[n][i + 1]
        BY <4>1, <4>2
      <4> QED
        BY <3>1, <4>3
    <3>2. CASE k # n
      BY <1>1, <2>1, <3>2
    <3> QED
      BY <3>1, <3>2
  <2> QED
    BY <2>2 DEF JInv, TodoOK
<1>9. handedUp' = handedUp
  BY DEF Submit
<1> HIDE DEF x
<1> QED
  BY <1>3, <1>6, <1>7, <1>8, <1>9, QuietStep DEF x

\* A transmission has ended.
LEMMA StatusHandlerJInv ==
  ASSUME IInv, JInv, NEW n \in Node, StatusHandler(n)
  PROVE  JInv'
<1> DEFINE S == Senders(n)
           x == StatusProcess(mac[n])
<1>1. mac[n].statusEvent /\ Becomes(n, x, {}) /\ handedUp' = handedUp /\ todo' = todo
  BY DEF StatusHandler
<1>2. mac[n] \in State(S) /\ Posture(n, mac[n]) /\ ~mac[n].abort
  BY ActorFacts
<1>3. x \in State(S)
  BY NodeFacts, StatusGood DEF Good, Core
<1>4. Posture(n, x) /\ Goes(mac[n], x)
  BY <1>1, <1>2, StatusGoes
<1>5. TodoOK'
  BY <1>1 DEF JInv, TodoOK
<1> HIDE DEF x, S
<1> QED
  BY <1>1, <1>3, <1>4, <1>5, QuietStep

\* No reply has come in time.
LEMMA WaitReplyTimerJInv ==
  ASSUME IInv, JInv, NEW n \in Node, WaitReplyTimer(n)
  PROVE  JInv'
<1> DEFINE S == Senders(n)
<1>1. mac[n].waitReply = 0 /\ handedUp' = handedUp /\ todo' = todo
  BY DEF WaitReplyTimer
<1>2. PICK r \in Draw :
        Becomes(n, WaitReplyTimerProcess([mac[n] EXCEPT !.waitReply = Off], FALSE, r), {})
  BY DEF WaitReplyTimer
<1> DEFINE x == WaitReplyTimerProcess([mac[n] EXCEPT !.waitReply = Off], FALSE, r)
<1>3. mac[n] \in State(S) /\ Posture(n, mac[n]) /\ ~mac[n].abort /\ r \in Nat
  BY ActorFacts, DrawFacts
<1>4. x \in State(S)
  BY NodeFacts, DrawFacts, WaitReplyOver DEF Good, Core
<1>5. Posture(n, x) /\ Goes(mac[n], x)
  BY <1>1, <1>3, WaitReplyGoes
<1>6. TodoOK'
  BY <1>1 DEF JInv, TodoOK
<1>7. Becomes(n, x, {})
  BY <1>2
<1> HIDE DEF x, S
<1> QED
  BY <1>1, <1>4, <1>5, <1>6, <1>7, QuietStep

\* A backoff is over.
LEMMA BackoffTimerJInv ==
  ASSUME MaxBurst = 1, IInv, JInv, NEW n \in Node, BackoffTimer(n)
  PROVE  JInv'
<1> DEFINE S == Senders(n)
<1>1. mac[n].backoff = 0 /\ handedUp' = handedUp /\ todo' = todo
  BY DEF BackoffTimer
<1>2. PICK r \in Draw : Becomes(n, BackoffTimerProcess([mac[n] EXCEPT !.backoff = Off], n, r), {})
  BY DEF BackoffTimer
<1> DEFINE x == BackoffTimerProcess([mac[n] EXCEPT !.backoff = Off], n, r)
<1>3. /\ mac[n] \in State(S) /\ Posture(n, mac[n]) /\ ~mac[n].abort /\ r \in Nat
      /\ mac[n].backup # <<>> => mac[n].dataSend
  BY ActorFacts, DrawFacts
<1>4. x \in State(S)
  BY NodeFacts, DrawFacts, BackoffGood DEF Good, Core
<1>5. Posture(n, x) /\ Goes(mac[n], x)
  BY <1>1, <1>3, BackoffGoes
<1>6. TodoOK'
  BY <1>1 DEF JInv, TodoOK
<1> HIDE DEF x, S
<1> QED
  BY <1>1, <1>2, <1>4, <1>5, <1>6, QuietStep DEF x

\* What was prepared is sent, or dropped.
LEMMA WaitSendTimerJInv ==
  ASSUME IInv, JInv, NEW n \in Node, WaitSendTimer(n)
  PROVE  JInv'
<1> DEFINE S == Senders(n)
           m == mac[n]
           x == WaitSendTimerProcess(SendAt(m, Off, NoFrame), m.pkt)
<1>1. m.waitSend = 0 /\ Becomes(n, x, {}) /\ handedUp' = handedUp /\ todo' = todo
  BY DEF WaitSendTimer
<1>2. /\ m \in State(S) /\ Posture(n, m) /\ ~m.abort /\ m.out = NoFrame /\ m.busy = "nothing"
      /\ m.backup # <<>> => m.dataSend
  BY ActorFacts
<1>3. x \in State(S)
  BY NodeFacts, WaitSendGood DEF Good, Core
<1>4. /\ Posture(n, x) /\ ~x.abort /\ x.waitSend = Off
      /\ \/ x.out = NoFrame /\ Steady(m, x)
         \/ /\ x.out = m.pkt /\ x.out \in Frame /\ Stamped(n, x.out)
            /\ \/ /\ x.out.type \in {"CTS", "ACK"} /\ Steady(m, x)
                  /\ ~RtsOut(x) /\ ~Expects(x)
               \/ /\ x.out.type = "RTS" /\ TrainTo(x, x.out.DA) /\ TrainOf(x) = TrainOf(m)
                  /\ m.status = "WAIT_SEND_RTS" /\ x.status = "WAIT_SEND_RTS" /\ x.statusEvent
  BY <1>1, <1>2, WaitSendGoes
<1>5. TodoOK'
  BY <1>1 DEF JInv, TodoOK
<1> HIDE DEF x, S
<1>6. Answers(n, x, {}, handedUp)
  BY <1>1, <1>4, TimerAnswers
<1>7. Owns(n, x, {})
  <2>1. CASE \/ x.out = NoFrame /\ Steady(m, x)
             \/ /\ x.out \in Frame /\ x.out.type \in {"CTS", "ACK"} /\ Steady(m, x)
                /\ ~RtsOut(x) /\ ~Expects(x)
    BY <2>1, SteadyOwns
  <2>2. CASE /\ x.out \in Frame /\ x.out.type = "RTS" /\ TrainTo(x, x.out.DA)
             /\ TrainOf(x) = TrainOf(m)
             /\ m.status = "WAIT_SEND_RTS" /\ x.status = "WAIT_SEND_RTS" /\ x.statusEvent
    <3> SUFFICES ASSUME NEW h \in Node, <<n, h>> \in Hears
                 PROVE  Ledger(n, h, x, mac[h], Sent(link[<<n, h>>], x.out),
                               IF <<h, n>> \in Hears THEN Left(<<h, n>>, {}) ELSE <<>>,
                               handedUp[<<n, h>>])
      BY DEF Owns
    <3> DEFINE F == link[<<n, h>>]
               B == Back(n, h)
               u == handedUp[<<n, h>>]
    <3>1. F \in Seq(Frame) /\ B \in Seq(Frame) /\ Ledger(n, h, m, mac[h], F, B, u)
      BY LedgerParts
    <3>2. Sent(F, x.out) = Append(F, x.out)
      BY <2>2, FrameFacts DEF Sent
    <3>3. (IF <<h, n>> \in Hears THEN Left(<<h, n>>, {}) ELSE <<>>) = B
      BY DEF Left, Back
    <3> HIDE DEF F, B, u, m
    <3>4. Ledger(n, h, x, mac[h], Append(F, x.out), B, u)
      BY <1>1, <2>2, <3>1, OwnerAsks
    <3> QED
      BY <3>2, <3>3, <3>4 DEF F, u
  <2> QED
    BY <1>4, <2>1, <2>2
<1>8. x.out # NoFrame => Stamped(n, x.out)
  BY <1>4
<1> HIDE DEF m
<1> QED
  BY <1>1, <1>3, <1>4, <1>5, <1>6, <1>7, <1>8, Rejoin

\* A packet leaves, or has left.
LEMMA DataSendTimerJInv ==
  ASSUME IInv, JInv, NEW n \in Node, DataSendTimer(n), NoDataDropped'
  PROVE  JInv'
<1> DEFINE S == Senders(n)
           m == mac[n]
           x == DataSendTimerProcess(m)
<1>1. m.dataSend /\ Becomes(n, x, {}) /\ handedUp' = handedUp /\ todo' = todo
  BY DEF DataSendTimer
<1>2. m \in State(S) /\ Posture(n, m) /\ ~m.abort /\ m.out = NoFrame /\ m.busy = "nothing"
  BY ActorFacts
<1>3. x \in State(S)
  BY <1>1, NodeFacts, DataSendGood DEF Good, Core
<1>4. x.busy # "data"
  BY <1>1 DEF Becomes, NoDataDropped
<1>5. /\ Posture(n, x) /\ ~x.abort /\ \A h : Calm(h, m, x)
      /\ \/ x.out = NoFrame /\ Steady(m, x)
         \/ /\ x.out \in Frame /\ x.out.type = "DATA" /\ Stamped(n, x.out)
            /\ TrainOf(x) = <<x.out>> /\ ~Launched(m) /\ m.status = "WAIT_SEND_DATA"
            /\ x.status = "WAIT_SEND_DATA" /\ Launched(x)
  BY <1>1, <1>2, <1>4, DataSendGoes
<1>6. TodoOK'
  BY <1>1 DEF JInv, TodoOK
<1> HIDE DEF x, S
<1>7. Answers(n, x, {}, handedUp)
  BY <1>5, CalmAnswers
<1>8. Owns(n, x, {})
  <2>1. CASE x.out = NoFrame /\ Steady(m, x)
    BY <2>1, SteadyOwns
  <2>2. CASE /\ x.out \in Frame /\ x.out.type = "DATA"
             /\ TrainOf(x) = <<x.out>> /\ ~Launched(m) /\ m.status = "WAIT_SEND_DATA"
             /\ x.status = "WAIT_SEND_DATA" /\ Launched(x)
    <3> SUFFICES ASSUME NEW h \in Node, <<n, h>> \in Hears
                 PROVE  Ledger(n, h, x, mac[h], Sent(link[<<n, h>>], x.out),
                               IF <<h, n>> \in Hears THEN Left(<<h, n>>, {}) ELSE <<>>,
                               handedUp[<<n, h>>])
      BY DEF Owns
    <3> DEFINE F == link[<<n, h>>]
               B == Back(n, h)
               u == handedUp[<<n, h>>]
    <3>1. F \in Seq(Frame) /\ B \in Seq(Frame) /\ Ledger(n, h, m, mac[h], F, B, u)
      BY LedgerParts
    <3>2. Sent(F, x.out) = Append(F, x.out)
      BY <2>2, FrameFacts DEF Sent
    <3>3. (IF <<h, n>> \in Hears THEN Left(<<h, n>>, {}) ELSE <<>>) = B
      BY DEF Left, Back
    <3> HIDE DEF F, B, u, m
    <3>4. Ledger(n, h, x, mac[h], Append(F, x.out), B, u)
      BY <2>2, <3>1, OwnerLaunches
    <3> QED
      BY <3>2, <3>3, <3>4 DEF F, u
  <2> QED
    BY <1>5, <2>1, <2>2
<1>9. x.out # NoFrame => Stamped(n, x.out)
  BY <1>5
<1> HIDE DEF m
<1> QED
  BY <1>1, <1>3, <1>5, <1>6, <1>7, <1>8, <1>9, Rejoin

\* Another radio changes nothing that a ledger reads.
LEMMA RadioAlike ==
  ASSUME NEW n, NEW S, NEW m \in State(S), Posture(n, m), ~m.abort, NEW q,
         q.trans # "RECV" => Active(q.chan) = {},
         m.radio.trans = "SEND" => q.trans = "SEND",
         NEW x, x = [m EXCEPT !.radio = q]
  PROVE  Alike(m, x) /\ Posture(n, x) /\ Goes(m, x) /\ x.radio = q
<1>1. /\ Alike(m, x) /\ x.train = m.train /\ x.cached = m.cached /\ x.radio = q
      /\ x.out = m.out /\ x.abort = m.abort
  BY DEF State, Alike
<1>2. Own(n, x.cached)
  BY <1>1 DEF Posture
<1>3. Posture(n, x)
  BY <1>1, <1>2, PostureAlike
<1> QED
  BY <1>1, <1>3, GoesAlike

\* The head of a frame reaches a node.
LEMMA ArriveJInv ==
  ASSUME IInv, JInv, NEW s, NEW r, <<s, r>> \in Hears, Arrive(s, r)
  PROVE  JInv'
<1> DEFINE S == Senders(r)
           m == mac[r]
           q == RecvUp(m.radio, s)
           x == [m EXCEPT !.radio = q]
<1>1. /\ link[<<s, r>>] # <<>> /\ ~Heard(m.radio, s) /\ handedUp' = handedUp /\ todo' = todo
  BY DEF Arrive
<1>2. r \in Node /\ s \in S
  BY <1>1, HeadFacts
<1>3. m \in State(S) /\ Posture(r, m) /\ ~m.abort /\ RadioInv(S, m.radio)
  BY <1>2, ActorFacts
<1>4. TodoOK'
  BY <1>1 DEF JInv, TodoOK
<1>5. CASE DeafRadio(m.radio)
  <2>1. Becomes(r, m, {<<s, r>>})
    BY <1>5, ArriveBecomes
  <2>2. Goes(m, m)
    BY <1>3, GoesAlike DEF Alike
  <2> HIDE DEF S
  <2> QED
    BY <1>1, <1>2, <1>3, <1>4, <2>1, <2>2, QuietStep DEF m
<1>6. CASE ~DeafRadio(m.radio)
  <2>1. Becomes(r, x, {})
    BY <1>6, ArriveBecomes
  <2>2. q.trans = "RECV" /\ q \in RadioState(S)
    <3>1. RadioInv(S, q)
      <4>1. Audible(S)
        BY <1>2, NodeFacts
      <4> QED
        BY <1>1, <1>2, <1>3, <4>1, RecvUpFacts DEF Heard
    <3> QED
      BY <3>1 DEF RadioInv, RecvUp
  <2>3. m.radio.trans # "SEND"
    BY <1>6 DEF DeafRadio
  <2> HIDE DEF q, S
  <2>4. Posture(r, x) /\ Goes(m, x)
    BY <1>3, <2>2, <2>3, RadioAlike
  <2>5. x \in State(S)
    BY <1>3, <2>2 DEF State
  <2> HIDE DEF x
  <2> QED
    BY <1>1, <1>2, <1>4, <2>1, <2>4, <2>5, QuietStep DEF m
<1> QED
  BY <1>5, <1>6

\* The histories are about the links.
HistoryOK ==
  /\ handedUp = [l \in Hears |-> handedUp[l]]
  /\ submitted = [l \in Hears |-> submitted[l]]

\* A receiver that answers one node keeps its ledgers with the others.
LEMMA OneAnswer ==
  ASSUME IInv, JInv, NEW k \in Node, NEW x, NEW s \in Node, <<s, k>> \in Hears,
         link[<<s, k>>] # <<>>, x.pkt.DA = s, x.out = NoFrame,
         NEW U, \A l \in Hears : handedUp[l] \subseteq U[l],
         Ledger(s, k, mac[s], x, Tail(link[<<s, k>>]), Back(s, k), U[<<s, k>>])
  PROVE  Answers(k, x, {<<s, k>>}, U)
<1> SUFFICES ASSUME NEW n \in Node, <<n, k>> \in Hears
             PROVE  Ledger(n, k, mac[n], x, Left(<<n, k>>, {<<s, k>>}),
                           IF <<k, n>> \in Hears THEN Sent(link[<<k, n>>], x.out) ELSE <<>>,
                           U[<<n, k>>])
  BY DEF Answers
<1>1. CASE n = s
  BY <1>1 DEF Left, Sent, Back
<1>2. CASE n # s
  <2>1. Calm(n, mac[k], x)
    BY <1>2 DEF Calm
  <2> QED
    BY <2>1, CalmLedger
<1> QED
  BY <1>1, <1>2

\* The node that a frame of s has just reached.
Listener(s, r) == [mac[r] EXCEPT !.radio = Ended(mac[r].radio, s)]

\* It differs from what it was by its radio, and listens.
LEMMA ListenerFacts ==
  ASSUME IInv, JInv, NEW s, NEW r, <<s, r>> \in Hears, Settled, Heard(mac[r].radio, s)
  PROVE  /\ s \in Node /\ r \in Node /\ link[<<s, r>>] # <<>> /\ link[<<s, r>>] \in Seq(Frame)
         /\ Head(link[<<s, r>>]) \in Frame /\ Stamped(s, Head(link[<<s, r>>]))
         /\ Good(Listener(s, r), Senders(r) \ {s}, Blocked(r)) /\ Audible(Senders(r) \ {s})
         /\ Posture(r, Listener(s, r)) /\ Listens(Listener(s, r))
         /\ Goes(mac[r], Listener(s, r)) /\ Alike(mac[r], Listener(s, r))
         /\ Listener(s, r).out = NoFrame
<1> DEFINE S == Senders(r) \ {s}
           f == Head(link[<<s, r>>])
           q == Ended(mac[r].radio, s)
           m == Listener(s, r)
<1>1. r \in Node /\ s \in Node /\ s \in Active(mac[r].radio.chan)
  BY MediumAssumption DEF Heard
<1>2. link[<<s, r>>] # <<>> /\ link[<<s, r>>] \in Seq(Frame)
  BY <1>1, HeardIsSender DEF IInv, LinksOK
<1>3. f \in Frame /\ Audible(S)
  BY <1>2, HeadFacts
<1>4. Good(mac[r], Senders(r), Blocked(r)) /\ Fresh(mac[r]) /\ Audible(Senders(r))
  BY <1>1, NodeFacts
<1>5. RadioInv(Senders(r), mac[r].radio)
  BY <1>4 DEF Good, Core
<1>6. /\ RadioInv(Senders(r), q) /\ Active(q.chan) = Active(mac[r].radio.chan) \ {s}
      /\ q.trans = IF mac[r].radio.trans = "RECV" /\ Active(mac[r].radio.chan) = {s}
                     THEN "IDLE" ELSE mac[r].radio.trans
  <2>1. q = ResetCarrierSense(EndReception(mac[r].radio, s))
    BY DEF Ended
  <2> HIDE DEF q
  <2> QED
    BY <1>1, <1>4, <1>5, <2>1, EndReceptionFacts, ZenonT(60)
<1>7. RadioInv(S, q)
  <2>1. q.chan \in ChannelState(Senders(r))
    BY <1>6 DEF RadioInv, RadioState
  <2>2. Active(q.chan) \subseteq S
    <3> HIDE DEF q
    <3> QED
      BY <1>4, <1>6, <2>1, ActiveIsFinite
  <2> HIDE DEF q, S
  <2> QED
    BY <1>4, <1>6, <2>2, RadioInvNarrow
<1> HIDE DEF q, S
<1>8. m = [mac[r] EXCEPT !.radio = q]
  BY DEF Listener, q
<1> HIDE DEF m
<1>9. Good(m, S, Blocked(r)) /\ Fresh(m)
  BY <1>4, <1>7, <1>8, OtherRadio
<1>10. Stamped(s, f)
  <2>1. 1 \in DOMAIN link[<<s, r>>] /\ link[<<s, r>>][1] = f
    BY <1>2
  <2> QED
    BY <2>1 DEF JInv, StampsOK
<1>11. /\ mac[r] \in State(Senders(r)) /\ Posture(r, mac[r]) /\ ~mac[r].abort
       /\ mac[r].backup # <<>> => mac[r].dataSend
  BY <1>1, ActorFacts
<1>12. mac[r].radio.trans = "RECV"
  BY <1>1, <1>11 DEF Posture
<1>13. q.trans # "RECV" => Active(q.chan) = {}
  BY <1>6, <1>12
<1>14. Alike(mac[r], m) /\ Posture(r, m) /\ Goes(mac[r], m)
  BY <1>1, <1>8, <1>11, <1>12, <1>13, RadioAlike
<1>15. ~mac[r].statusEvent /\ ~mac[r].dataSend /\ mac[r].backup = <<>>
  <2>1. ~mac[r].statusEvent
    BY <1>11, <1>12 DEF Posture
  <2>2. ~mac[r].dataSend
    BY <1>1, <1>11, <1>12 DEF Posture, Stage, Settled
  <2> QED
    BY <1>11, <2>1, <2>2
<1>16. Listens(m) /\ m.out = NoFrame
  BY <1>9, <1>14, <1>15 DEF Listens, Alike, Fresh
<1> QED
  BY <1>1, <1>2, <1>3, <1>9, <1>10, <1>14, <1>16 DEF m, S

\* The CTS that a node waits for comes from the node that its train is for, and no ACK
\* is due to it from anyone.
LEMMA GrantedOwns ==
  ASSUME IInv, JInv, NEW s \in Node, NEW r \in Node, <<s, r>> \in Hears,
         link[<<s, r>>] # <<>>, Head(link[<<s, r>>]).type = "CTS",
         Head(link[<<s, r>>]).DA = r, Stamped(s, Head(link[<<s, r>>])),
         mac[r].status = "WAIT_RECV_CTS",
         NEW x, x.status = "WAIT_SEND_DATA", x.out = NoFrame
  PROVE  Owns(r, x, {<<s, r>>})
<1>1. <<r, s>> \in Hears
  BY DEF Stamped
<1>2. TrainTo(mac[r], s) /\ Expects(mac[r]) /\ CtsToken(mac[s], Back(r, s), r)
  <2>1. Granted(r, s, mac[r], mac[s], Back(r, s)) /\ Back(r, s) \in Seq(Frame)
    BY <1>1, LedgerParts DEF Ledger
  <2>2. Back(r, s) = link[<<s, r>>]
    BY DEF Back
  <2>3. Has(Back(r, s), "CTS", r)
    BY <2>1, <2>2, HasHead
  <2> QED
    BY <2>1, <2>3 DEF Granted, CtsToken, CtsSlot, Expects
<1> SUFFICES ASSUME NEW h \in Node, <<r, h>> \in Hears
             PROVE  Ledger(r, h, x, mac[h], Sent(link[<<r, h>>], x.out),
                           IF <<h, r>> \in Hears THEN Left(<<h, r>>, {<<s, r>>}) ELSE <<>>,
                           handedUp[<<r, h>>])
  BY DEF Owns
<1> DEFINE F == link[<<r, h>>]
           B == Back(r, h)
           C == IF <<h, r>> \in Hears THEN Left(<<h, r>>, {<<s, r>>}) ELSE <<>>
           u == handedUp[<<r, h>>]
<1>3. F \in Seq(Frame) /\ B \in Seq(Frame) /\ Ledger(r, h, mac[r], mac[h], F, B, u)
  BY LedgerParts
<1>4. Shorter(B, C)
  BY LeftFacts DEF Back, Shorter
<1>5. Sent(F, x.out) = F
  BY DEF Sent
<1>6. ~AckToken(mac[h], B, r)
  <2> SUFFICES ASSUME AckToken(mac[h], B, r) PROVE FALSE
    OBVIOUS
  <2>1. Delivered(h, mac[r], u) /\ (Expects(mac[r]) => ~CtsToken(mac[h], B, r))
    BY <1>3 DEF Ledger, Owed
  <2>2. h = s
    BY <1>2, <2>1, OneReceiver
  <2> QED
    BY <1>2, <2>1, <2>2
<1> HIDE DEF F, B, C, u
<1>7. Ledger(r, h, x, mac[h], F, C, u)
  BY <1>2, <1>3, <1>4, <1>6, OwnerGranted
<1> QED
  BY <1>5, <1>7 DEF F, C, u

\* Nothing is about to be sent.
Rests(x) == x.status \in {"IDLE_WAIT", "WAIT_SEND_RTS"} /\ x.waitSend # 0 /\ ~x.statusEvent

\* The node that sends an ACK has handed up the packet it is for.
LEMMA AckIsDelivered ==
  ASSUME IInv, JInv, NEW s \in Node, NEW r \in Node, <<s, r>> \in Hears,
         link[<<s, r>>] # <<>>, Head(link[<<s, r>>]).type = "ACK",
         Head(link[<<s, r>>]).DA = r, Stamped(s, Head(link[<<s, r>>]))
  PROVE  /\ <<r, s>> \in Hears /\ Delivered(s, mac[r], handedUp[<<r, s>>])
         /\ ~Has(link[<<r, s>>], "DATA", s) /\ ~AckToken(mac[s], Tail(link[<<s, r>>]), r)
<1>1. <<r, s>> \in Hears
  BY DEF Stamped
<1>2. /\ Owed(r, s, mac[r], mac[s], link[<<r, s>>], Back(r, s), handedUp[<<r, s>>])
      /\ Back(r, s) \in Seq(Frame)
  BY <1>1, LedgerParts DEF Ledger
<1>3. Back(r, s) = link[<<s, r>>]
  BY DEF Back
<1>4. /\ Has(Back(r, s), "ACK", r)
      /\ Single(Back(r, s), "ACK", r) => ~Has(Tail(Back(r, s)), "ACK", r)
  BY <1>2, <1>3, HasHead
<1> QED
  BY <1>1, <1>2, <1>3, <1>4 DEF Owed, AckToken

\* The ACK that a node waits for comes from the node that has handed its train up, and
\* nothing more of the exchange is on its way.
LEMMA ReleasedOwns ==
  ASSUME IInv, JInv, NEW s \in Node, NEW r \in Node, <<s, r>> \in Hears,
         link[<<s, r>>] # <<>>, Head(link[<<s, r>>]).type = "ACK",
         Head(link[<<s, r>>]).DA = r, Stamped(s, Head(link[<<s, r>>])),
         mac[r].status = "WAIT_RECV_ACK",
         NEW x, Rests(x), x.out = NoFrame
  PROVE  <<r, s>> \in Hears /\ Delivered(s, mac[r], handedUp[<<r, s>>]) /\ Owns(r, x, {<<s, r>>})
<1>1. <<r, s>> \in Hears
  BY AckIsDelivered
<1>2. /\ Delivered(s, mac[r], handedUp[<<r, s>>]) /\ ~Has(link[<<r, s>>], "DATA", s)
      /\ ~AckToken(mac[s], Tail(link[<<s, r>>]), r)
  BY AckIsDelivered
<1>3. Owns(r, x, {<<s, r>>})
  <2> SUFFICES ASSUME NEW h \in Node, <<r, h>> \in Hears
               PROVE  Ledger(r, h, x, mac[h], Sent(link[<<r, h>>], x.out),
                             IF <<h, r>> \in Hears THEN Left(<<h, r>>, {<<s, r>>}) ELSE <<>>,
                             handedUp[<<r, h>>])
    BY DEF Owns
  <2> DEFINE F == link[<<r, h>>]
             B == Back(r, h)
             C == IF <<h, r>> \in Hears THEN Left(<<h, r>>, {<<s, r>>}) ELSE <<>>
             u == handedUp[<<r, h>>]
  <2>1. F \in Seq(Frame) /\ B \in Seq(Frame) /\ Ledger(r, h, mac[r], mac[h], F, B, u)
    BY LedgerParts
  <2>2. Shorter(B, C)
    BY LeftFacts DEF Back, Shorter
  <2>3. Sent(F, x.out) = F
    BY DEF Sent
  <2>4. ~Has(F, "DATA", h)
    <3> SUFFICES ASSUME Has(F, "DATA", h) PROVE FALSE
      OBVIOUS
    <3>1. PICK i \in DOMAIN F : F[i].type = "DATA" /\ F[i].DA = h
      BY DEF Has
    <3>2. TrainOf(mac[r]) = <<F[i]>>
      BY <2>1, <3>1 DEF Ledger, Carried, Carries
    <3>3. TrainTo(mac[r], h)
      <4>1. Head(<<F[i]>>) = F[i] /\ <<F[i]>> # <<>>
        OBVIOUS
      <4> QED
        BY <3>1, <3>2, <4>1 DEF TrainTo
    <3>4. h = s
      BY <1>2, <3>3, OneReceiver
    <3> QED
      BY <1>2, <3>4
  <2>5. ~AckToken(mac[h], C, r)
    <3>1. CASE h = s
      <4>1. C = Tail(link[<<s, r>>])
        BY <3>1 DEF Left
      <4> QED
        BY <1>2, <3>1, <4>1
    <3>2. CASE h # s
      <4>1. C = B
        BY <3>2 DEF Left, Back
      <4> HIDE DEF C
      <4> SUFFICES ASSUME AckToken(mac[h], B, r) PROVE FALSE
        BY <4>1
      <4>2. Delivered(h, mac[r], u)
        BY <2>1 DEF Ledger, Owed
      <4>3. h = s
        BY <1>2, <4>2, OneReceiver
      <4> QED
        BY <3>2, <4>3
    <3> QED
      BY <3>1, <3>2
  <2> HIDE DEF F, B, C, u
  <2>6. Ledger(r, h, x, mac[h], F, C, u)
    BY <2>1, <2>2, <2>4, <2>5, OwnerReleased DEF Rests
  <2> QED
    BY <2>3, <2>6 DEF F, C, u
<1> QED
  BY <1>1, <1>2, <1>3

\* A frame that is not the answer a node waits for, nor a question it answers.
LEMMA HeardOnlyJInv ==
  ASSUME IInv, JInv, NEW s \in Node, NEW r \in Node, <<s, r>> \in Hears, link[<<s, r>>] # <<>>,
         NEW S, NEW x \in State(S), Becomes(r, x, {<<s, r>>}), Posture(r, x),
         NEW m, Goes(mac[r], m), Goes(m, x), handedUp' = handedUp, TodoOK'
  PROVE  JInv'
<1>1. Goes(mac[r], x)
  BY GoesTwice
<1> QED
  BY <1>1, QuietStep

\* The end of a frame reaches a node.
LEMMA RecvJInv ==
  ASSUME MaxBurst = 1, IInv, JInv, HistoryOK, NEW s, NEW r, <<s, r>> \in Hears, Recv(s, r)
  PROVE  JInv'
<1> DEFINE l0 == <<s, r>>
           S == Senders(r) \ {s}
           f == Head(link[l0])
           m == Listener(s, r)
<1>1. /\ Settled /\ Heard(mac[r].radio, s) /\ todo' = todo
      /\ handedUp' = IF f.type = "DATA" /\ ForUs(m, r, f)
                       THEN [handedUp EXCEPT ![l0] = @ \cup {f}] ELSE handedUp
  BY DEF Recv, Listener
<1>2. /\ s \in Node /\ r \in Node /\ link[l0] # <<>> /\ link[l0] \in Seq(Frame) /\ f \in Frame
      /\ Stamped(s, f) /\ Good(m, S, Blocked(r)) /\ Audible(S) /\ Posture(r, m)
      /\ Listens(m) /\ Goes(mac[r], m) /\ Alike(mac[r], m) /\ m.out = NoFrame
  BY <1>1, ListenerFacts
<1>3. PICK late \in {0, 1}, d \in Draw : Becomes(r, RecvProcess(m, r, f, late, d), {l0})
  BY DEF Recv, Listener
<1> DEFINE x == RecvProcess(m, r, f, late, d)
<1>4. d \in Nat
  BY DrawFacts
<1>5. Becomes(r, x, {l0}) /\ TodoOK'
  BY <1>1, <1>3 DEF JInv, TodoOK
<1> HIDE DEF S, f, m
<1>6. x \in State(S) /\ m \in State(S)
  <2>1. Good(x, S, Blocked(r))
    BY <1>2, <1>4, RecvProcessGood
  <2> QED
    BY <1>2, <2>1 DEF Good, Core
<1>7. \A e \in {l0} : e \in Hears /\ e[2] = r /\ link[e] # <<>>
  BY <1>2
<1>8. /\ \A l \in Hears : l # l0 => handedUp'[l] = handedUp[l]
      /\ \A l \in Hears : handedUp[l] \subseteq handedUp'[l]
      /\ f.type = "DATA" /\ ForUs(m, r, f) => f \in handedUp'[l0]
  <2> HIDE DEF l0
  <2> QED
    BY <1>1 DEF HistoryOK, l0
<1>9. CASE f.type = "RTS"
  <2>1. x = processRTS(m, r, f) /\ handedUp' = handedUp
    BY <1>1, <1>9 DEF RecvProcess
  <2> HIDE DEF x
  <2>2. /\ Posture(r, x)
        /\ \/ Goes(m, x)
           \/ /\ f.DA = r /\ Steady(m, x) /\ x.out = m.out /\ ~x.abort
              /\ x.waitSend = 1 /\ x.pkt.type = "CTS" /\ x.pkt.DA = s
    BY <1>2, <1>6, <1>9, <2>1, ProcessRTSGoes
  <2>3. CASE Goes(m, x)
    BY <1>2, <1>5, <1>6, <2>1, <2>2, <2>3, HeardOnlyJInv
  <2>4. CASE /\ f.DA = r /\ Steady(m, x) /\ x.out = m.out /\ ~x.abort
             /\ x.waitSend = 1 /\ x.pkt.type = "CTS" /\ x.pkt.DA = s
    <3>1. x.out = NoFrame
      BY <1>2, <2>4
    <3>2. Owns(r, x, {l0})
      <4>1. Steady(mac[r], x)
        BY <1>2, <2>4, SteadyAlike
      <4> QED
        BY <1>2, <1>7, <3>1, <4>1, SteadyOwns
    <3>3. Answers(r, x, {l0}, handedUp')
      <4>1. /\ Back(s, r) \in Seq(Frame)
            /\ Ledger(s, r, mac[s], mac[r], link[l0], Back(s, r), handedUp[l0])
        BY <1>2, LedgerParts
      <4>2. Ledger(s, r, mac[s], x, Tail(link[l0]), Back(s, r), handedUp'[l0])
        BY <1>2, <1>9, <2>1, <2>4, <4>1, ResponderGrants DEF f
      <4> QED
        BY <1>2, <1>8, <2>4, <3>1, <4>2, OneAnswer
    <3> QED
      BY <1>2, <1>5, <1>6, <1>7, <2>1, <2>2, <2>4, <3>1, <3>2, <3>3, Rejoin
  <2> QED
    BY <2>2, <2>3, <2>4
<1>10. CASE f.type = "CTS"
  <2>1. x = processCTS(m, r, f, late) /\ handedUp' = handedUp
    BY <1>1, <1>10 DEF RecvProcess
  <2> HIDE DEF x
  <2>2. /\ Posture(r, x)
        /\ \/ Goes(m, x)
           \/ /\ f.DA = r /\ m.status = "WAIT_RECV_CTS" /\ x.status = "WAIT_SEND_DATA"
              /\ \A h : Calm(h, m, x)
              /\ x.out = m.out /\ ~x.abort /\ TrainOf(x) = TrainOf(m)
    BY <1>2, <1>6, <1>10, <2>1, ProcessCTSGoes
  <2>3. CASE Goes(m, x)
    BY <1>2, <1>5, <1>6, <2>1, <2>2, <2>3, HeardOnlyJInv
  <2>4. CASE /\ f.DA = r /\ m.status = "WAIT_RECV_CTS" /\ x.status = "WAIT_SEND_DATA"
             /\ \A h : Calm(h, m, x)
             /\ x.out = m.out /\ ~x.abort
    <3>1. x.out = NoFrame /\ mac[r].status = "WAIT_RECV_CTS"
      BY <1>2, <2>4 DEF Alike
    <3>2. Owns(r, x, {l0})
      BY <1>2, <1>10, <2>4, <3>1, GrantedOwns DEF f
    <3>3. Answers(r, x, {l0}, handedUp)
      <4>1. \A h : Calm(h, mac[r], x)
        BY <1>2, <2>4, SteadyAlike
      <4> QED
        BY <1>2, <1>7, <3>1, <4>1, CalmAnswers
    <3> QED
      BY <1>2, <1>5, <1>6, <1>7, <2>1, <2>2, <2>4, <3>1, <3>2, <3>3, Rejoin, SMTT(30)
  <2> QED
    BY <2>2, <2>3, <2>4
<1>11. CASE f.type = "DATA"
  <2>1. x = processDATA(m, r, f)
    BY <1>11 DEF RecvProcess
  <2> HIDE DEF x
  <2>2. /\ Posture(r, x) /\ Steady(m, x) /\ x.out = m.out /\ ~x.abort
        /\ ~ForUs(m, r, f) => Goes(m, x)
        /\ ForUs(m, r, f) => x.waitSend = 1 /\ x.pkt.type = "ACK" /\ x.pkt.DA = s
    BY <1>2, <1>6, <1>11, <2>1, ProcessDATAGoes
  <2>3. CASE ~ForUs(m, r, f)
    BY <1>1, <1>2, <1>5, <1>6, <2>2, <2>3, HeardOnlyJInv
  <2>4. CASE ForUs(m, r, f)
    <3>1. x.out = NoFrame /\ f.DA = r
      BY <1>2, <2>2, <2>4 DEF ForUs
    <3>2. Owns(r, x, {l0})
      <4>1. Steady(mac[r], x)
        BY <1>2, <2>2, SteadyAlike
      <4> QED
        BY <1>2, <1>7, <3>1, <4>1, SteadyOwns
    <3>3. Answers(r, x, {l0}, handedUp')
      <4>1. /\ Back(s, r) \in Seq(Frame)
            /\ Ledger(s, r, mac[s], mac[r], link[l0], Back(s, r), handedUp[l0])
        BY <1>2, LedgerParts
      <4>2. f \in handedUp'[l0]
        BY <1>8, <1>11, <2>4
      <4>3. Ledger(s, r, mac[s], x, Tail(link[l0]), Back(s, r), handedUp'[l0])
        BY <1>2, <1>11, <2>2, <2>4, <3>1, <4>1, <4>2, ResponderOwes DEF f
      <4> QED
        BY <1>2, <1>8, <2>2, <2>4, <3>1, <4>3, OneAnswer
    <3>4. \A l \in Hears : l[2] # r => handedUp'[l] = handedUp[l]
      BY <1>8
    <3> QED
      BY <1>2, <1>5, <1>6, <1>7, <2>2, <3>1, <3>2, <3>3, <3>4, Rejoin
  <2> QED
    BY <2>3, <2>4
<1>12. CASE f.type = "ACK"
  <2>1. x = processACK(m, r, f, d) /\ handedUp' = handedUp
    BY <1>1, <1>12 DEF RecvProcess
  <2> HIDE DEF x
  <2>2. /\ Posture(r, x) /\ x.out = m.out /\ ~x.abort /\ \A h : Calm(h, m, x)
        /\ ~Acknowledged(m, r, f) => Goes(m, x)
        /\ Acknowledged(m, r, f) =>
             x.status \in {"IDLE_WAIT", "WAIT_SEND_RTS"} /\ x.waitSend # 0 /\ ~x.statusEvent
    BY <1>2, <1>4, <1>6, <1>12, <2>1, ProcessACKGoes
  <2>3. CASE ~Acknowledged(m, r, f)
    BY <1>2, <1>5, <1>6, <2>1, <2>2, <2>3, HeardOnlyJInv
  <2>4. CASE Acknowledged(m, r, f)
    <3>1. x.out = NoFrame /\ f.DA = r /\ mac[r].status = "WAIT_RECV_ACK"
      BY <1>2, <2>2, <2>4 DEF Acknowledged, Alike
    <3>2. Owns(r, x, {l0})
      <4>1. Rests(x)
        BY <2>2, <2>4 DEF Rests
      <4>2. /\ s \in Node /\ r \in Node /\ link[<<s, r>>] # <<>>
            /\ Head(link[<<s, r>>]).type = "ACK" /\ Head(link[<<s, r>>]).DA = r
            /\ Stamped(s, Head(link[<<s, r>>]))
        BY <1>2, <1>12, <3>1 DEF f
      <4> HIDE DEF x, m
      <4>3. Owns(r, x, {<<s, r>>})
        BY <3>1, <4>1, <4>2, ReleasedOwns
      <4> QED
        BY <4>3
    <3>3. Answers(r, x, {l0}, handedUp)
      <4>1. \A h : Calm(h, mac[r], x)
        BY <1>2, <2>2, SteadyAlike
      <4> QED
        BY <1>2, <1>7, <3>1, <4>1, CalmAnswers
    <3> QED
      BY <1>2, <1>5, <1>6, <1>7, <2>1, <2>2, <3>1, <3>2, <3>3, Rejoin
  <2> QED
    BY <2>3, <2>4
<1>13. f.type \in {"RTS", "CTS", "ACK", "DATA"}
  BY <1>2, FrameFacts
<1> QED
  BY <1>9, <1>10, <1>11, <1>12, <1>13

\* Every timer of a node is a boundary nearer.
LEMMA BoundaryPosture ==
  ASSUME NEW n \in Node, NEW S, NEW m \in State(S), Posture(n, m), ~m.statusEvent,
         m.waitSend # 0, m.waitReply # 0, m.backoff # 0,
         ~(m.dataSend /\ m.backup = <<>>), NEW t \in Nat,
         m.dataSend => m.train > 0 /\ t = m.train - 1,
         NEW x, x = [m EXCEPT !.waitSend = Less(m.waitSend), !.waitReply = Less(m.waitReply),
                              !.backoff = Less(m.backoff), !.train = t]
  PROVE  Posture(n, x)
<1>1. /\ x.radio = m.radio /\ x.status = m.status /\ x.cached = m.cached
      /\ x.sending = m.sending /\ x.backup = m.backup /\ x.pkt = m.pkt
      /\ x.waitSend = Less(m.waitSend) /\ x.waitReply = Less(m.waitReply)
      /\ x.backoff = Less(m.backoff) /\ x.train = t
      /\ x.dataSend = m.dataSend /\ x.statusEvent = m.statusEvent
  BY DEF State
<1>2. m.waitSend \in Timer /\ m.waitReply \in Timer /\ m.backoff \in Timer /\ m.train \in Nat
  BY StateFacts
<1>3. TrainOf(x) = TrainOf(m) /\ \A d : TrainTo(x, d) <=> TrainTo(m, d)
  BY <1>1 DEF TrainOf, TrainTo
<1>4. /\ x.waitSend # Off => m.waitSend # Off /\ x.waitSend <= m.waitSend
      /\ x.waitReply # Off => m.waitReply # Off
      /\ x.backoff # Off => m.backoff # Off
      /\ x.waitReply <= m.waitReply
      /\ x.waitSend \in Int /\ m.waitSend \in Int /\ x.waitReply \in Int /\ m.waitReply \in Int
  BY <1>1, <1>2 DEF Timer, Less, Off
<1>5. m.waitSend # Off /\ Prepared(n, m) => Prepared(n, x)
  BY <1>1, <1>2, <1>3 DEF Prepared, Less, Timer, Off
<1>6. Stage(m) => Stage(x)
  <2>1. TrainSlots(1) \in Nat
    BY SlotsOfTrain
  <2>2. CASE /\ m.waitSend # Off /\ ~m.dataSend /\ ~m.statusEvent
             /\ m.waitReply >= TrainSlots(1) + 1 + m.waitSend
    BY <1>1, <1>2, <2>1, <2>2 DEF Stage, Less, Timer, Off
  <2>3. CASE /\ m.waitSend = Off /\ m.dataSend /\ ~m.statusEvent /\ m.backup # <<>>
             /\ m.radio.trans = "SEND" /\ m.waitReply >= m.train + 2
    <3>1. x.waitSend = Off /\ x.waitReply >= x.train + 2
      BY <1>1, <1>2, <2>3 DEF Less, Timer, Off
    <3> QED
      BY <1>1, <2>3, <3>1 DEF Stage
  <2> QED
    BY <2>2, <2>3 DEF Stage
<1>7. m.status = "WAIT_RECV_CTS" => x.waitReply <= 2
  BY <1>1, <1>4 DEF Posture
<1>8. Own(n, x.cached) /\ Own(n, x.sending) /\ Own(n, x.backup)
      /\ (x.radio.trans # "RECV" => Active(x.radio.chan) = {})
      /\ Len(x.backup) + Len(x.sending) <= 1
  BY <1>1 DEF Posture
<1> QED
  BY <1>1, <1>3, <1>4, <1>5, <1>6, <1>7, <1>8 DEF Posture

\* A slot boundary passes.
LEMMA BoundaryJInv == ASSUME IInv, JInv, Boundary PROVE JInv'
<1> DEFINE t(n) == IF TrainUnderWay(n) THEN mac[n].train - 1 ELSE 0
           x(n) == [mac[n] EXCEPT !.waitSend = Less(mac[n].waitSend),
                                  !.waitReply = Less(mac[n].waitReply),
                                  !.backoff = Less(mac[n].backoff), !.train = t(n)]
<1>1. /\ ~aborted' /\ SlotOver /\ Settled
      /\ \A n \in Node : mac'[n] = x(n)
      /\ link' = link /\ todo' = todo /\ handedUp' = handedUp
  BY DEF Boundary, SlotOver
<1>2. ASSUME NEW n \in Node
      PROVE  /\ mac[n] \in State(Senders(n)) /\ Posture(n, mac[n]) /\ ~mac[n].statusEvent
             /\ mac[n].waitSend # 0 /\ mac[n].waitReply # 0 /\ mac[n].backoff # 0
             /\ ~(mac[n].dataSend /\ mac[n].backup = <<>>)
             /\ mac[n].waitSend \in Timer /\ mac[n].waitReply \in Timer /\ mac[n].backoff \in Timer
             /\ TrainUnderWay(n) => mac[n].train > 0
             /\ mac[n].train \in Nat
  <2>1. mac[n] \in State(Senders(n)) /\ Posture(n, mac[n])
    BY ActorFacts
  <2>2. /\ mac[n].waitSend \in Timer /\ mac[n].waitReply \in Timer /\ mac[n].backoff \in Timer
        /\ mac[n].train \in Nat
    BY <2>1, StateFacts
  <2> QED
    BY <1>1, <2>1, <2>2 DEF SlotOver, Settled
<1>3. ASSUME NEW n \in Node PROVE Posture(n, mac'[n])
  <2>1. t(n) \in Nat /\ (mac[n].dataSend => mac[n].train > 0 /\ t(n) = mac[n].train - 1)
    BY <1>2 DEF TrainUnderWay
  <2> HIDE DEF t
  <2> QED
    BY <1>1, <1>2, <2>1, BoundaryPosture
<1>4. ASSUME NEW n \in Node, NEW h \in Node, <<n, h>> \in Hears
      PROVE  Ledger(n, h, mac'[n], mac'[h], link'[<<n, h>>], Back(n, h)', handedUp'[<<n, h>>])
  <2> DEFINE F == link[<<n, h>>]
             B == Back(n, h)
             u == handedUp[<<n, h>>]
             m == mac[n]
             w == mac[h]
  <2>1. F \in Seq(Frame) /\ B \in Seq(Frame) /\ Ledger(n, h, m, w, F, B, u)
    BY <1>4, LedgerParts
  <2>2. (\A i \in DOMAIN F : F[i].type = "DATA") /\ (\A i \in DOMAIN B : B[i].type = "DATA")
    <3>1. \A i \in DOMAIN F : F[i].type = "DATA"
      BY <1>1, <1>4 DEF SlotOver
    <3>2. CASE <<h, n>> \in Hears
      BY <1>1, <3>1, <3>2 DEF SlotOver, Back
    <3>3. CASE <<h, n>> \notin Hears
      BY <3>1, <3>3 DEF Back
    <3> QED
      BY <3>1, <3>2, <3>3
  <2>3. m.status = "WAIT_RECV_CTS" => m.waitReply <= 2
    BY <1>2 DEF Posture
  <2>4. Due(w, "CTS", n) => w.waitSend <= 1
    <3> SUFFICES ASSUME Due(w, "CTS", n) PROVE w.waitSend <= 1
      OBVIOUS
    <3>1. Prepared(h, w) /\ w.pkt.type = "CTS"
      BY <1>2 DEF Posture, Due
    <3> QED
      BY <3>1 DEF Prepared, Train
  <2> DEFINE a == mac'[n]
             b == mac'[h]
  <2>5. /\ a.status = m.status /\ a.statusEvent = m.statusEvent /\ a.backup = m.backup
        /\ a.sending = m.sending /\ a.dataSend = m.dataSend
        /\ a.waitSend = Less(m.waitSend) /\ a.waitReply = Less(m.waitReply)
        /\ a.backoff = Less(m.backoff)
    <3>1. m \in State(Senders(n)) /\ a = x(n)
      BY <1>1, <1>2
    <3> HIDE DEF m, t
    <3>2. a = [m EXCEPT !.waitSend = Less(m.waitSend), !.waitReply = Less(m.waitReply),
                        !.backoff = Less(m.backoff), !.train = t(n)]
      BY <3>1 DEF m
    <3> HIDE DEF a, x
    <3> QED
      BY <3>1, <3>2 DEF State
  <2>6. b.waitSend = Less(w.waitSend) /\ b.pkt = w.pkt
    <3>1. w \in State(Senders(h)) /\ b = x(h)
      BY <1>1, <1>2
    <3> HIDE DEF w, t
    <3>2. b = [w EXCEPT !.waitSend = Less(w.waitSend), !.waitReply = Less(w.waitReply),
                        !.backoff = Less(w.backoff), !.train = t(h)]
      BY <3>1 DEF w
    <3> HIDE DEF b, x
    <3> QED
      BY <3>1, <3>2 DEF State
  <2>7. /\ m.waitSend \in Timer /\ m.waitReply \in Timer /\ m.backoff \in Timer
        /\ w.waitSend \in Timer /\ m.waitSend # 0 /\ m.waitReply # 0 /\ m.backoff # 0
        /\ w.waitSend # 0 /\ ~m.statusEvent
    BY <1>2
  <2>8. link'[<<n, h>>] = F /\ Back(n, h)' = B /\ handedUp'[<<n, h>>] = u
    BY <1>1 DEF Back
  <2> HIDE DEF m, w, a, b, F, B, u
  <2>9. Ledger(n, h, a, b, F, B, u)
    BY <2>1, <2>2, <2>3, <2>4, <2>5, <2>6, <2>7, BoundaryLedger
  <2> QED
    BY <2>8, <2>9 DEF a, b
<1> HIDE DEF x
<1>5. StampsOK' /\ TodoOK'
  BY <1>1 DEF JInv, StampsOK, TodoOK
<1>6. PosturesOK' /\ LedgersOK'
  BY <1>3, <1>4 DEF PosturesOK, LedgersOK
<1> QED
  BY <1>1, <1>5, <1>6 DEF JInv

\* A node that has just been built has nothing to send and nobody to answer.
LEMMA NewMacPosture == \A n : \A g : Posture(n, NewMac(g))
<1> SUFFICES ASSUME NEW n, NEW g PROVE Posture(n, NewMac(g))
  OBVIOUS
<1> DEFINE m == NewMac(g)
<1>1. /\ m.radio = InitRadio /\ m.status = "IDLE_WAIT" /\ m.cached = <<>> /\ m.sending = <<>>
      /\ m.backup = <<>> /\ m.waitSend = Off /\ m.waitReply = Off /\ m.backoff = Off
      /\ m.dataSend = FALSE /\ m.statusEvent = FALSE
  BY DEF NewMac
<1> HIDE DEF m
<1>2. Active(InitRadio.chan) = {}
  BY DEF InitRadio, EmptyChannel, Active
<1>3. Len(m.backup) + Len(m.sending) <= 1
  <2>1. Len(<<>>) = 0
    OBVIOUS
  <2> QED
    BY <1>1, <2>1
<1>4. Own(n, m.cached) /\ Own(n, m.sending) /\ Own(n, m.backup)
  BY <1>1 DEF Own
<1>5. Posture(n, m)
  BY <1>1, <1>2, <1>3, <1>4 DEF Posture
<1> QED
  BY <1>5 DEF m

\* In the initial state nothing has been asked, granted, sent or acknowledged.
LEMMA InitJInv == Init => HistoryOK /\ JInv
<1> SUFFICES ASSUME Init PROVE HistoryOK /\ JInv
  OBVIOUS
<1>1. PICK g \in [Node -> UnsetSlotnum] : mac = [n \in Node |-> NewMac(g[n])]
  BY DEF Init
<1>2. link = [l \in Hears |-> <<>>] /\ ~aborted /\ todo = Traffic
      /\ submitted = [l \in Hears |-> <<>>] /\ handedUp = [l \in Hears |-> {}]
  BY DEF Init, EmptyLinks
<1>3. HistoryOK
  BY <1>2 DEF HistoryOK
<1>4. PosturesOK
  BY <1>1, NewMacPosture DEF PosturesOK
<1>5. StampsOK /\ TodoOK
  BY <1>2 DEF StampsOK, TodoOK
<1>6. ASSUME NEW n \in Node, NEW h \in Node, <<n, h>> \in Hears
      PROVE  Ledger(n, h, mac[n], mac[h], link[<<n, h>>], Back(n, h), handedUp[<<n, h>>])
  <2> DEFINE F == link[<<n, h>>]
             B == Back(n, h)
             u == handedUp[<<n, h>>]
             m == mac[n]
             w == mac[h]
  <2>1. F = <<>> /\ B = <<>>
    BY <1>2, <1>6 DEF Back
  <2>2. m.status = "IDLE_WAIT" /\ w.waitSend = Off
    BY <1>1 DEF NewMac
  <2> HIDE DEF F, B, u, m, w
  <2>3. \A y, d : ~Has(F, y, d) /\ ~Has(B, y, d) /\ ~Due(w, y, d)
    BY <2>1, <2>2 DEF Has, Due
  <2>4. ~CtsToken(w, B, n) /\ ~AckToken(w, B, n)
    BY <2>3 DEF CtsToken, AckToken
  <2>5. Flushed(m, F)
    BY <2>1 DEF Flushed, EndsInRts
  <2>6. Asked(n, h, m, w, F) /\ Granted(n, h, m, w, B) /\ Carried(h, m, F)
        /\ Owed(n, h, m, w, F, B, u)
    BY <2>3, <2>4 DEF Asked, Granted, Carried, Owed
  <2>7. Ledger(n, h, m, w, F, B, u)
    BY <2>5, <2>6 DEF Ledger
  <2> QED
    BY <2>7 DEF F, B, u, m, w
<1> QED
  BY <1>2, <1>3, <1>4, <1>5, <1>6 DEF JInv, LedgersOK

\* The histories stay about the links.
LEMMA HistoryStep == HistoryOK /\ [Next]_vars => HistoryOK'
<1> SUFFICES ASSUME HistoryOK, [Next]_vars PROVE HistoryOK'
  OBVIOUS
<1>1. \/ submitted' = submitted
      \/ \E n \in Node : \E f : submitted' = [submitted EXCEPT ![<<n, f.DA>>] = Append(@, f)]
  BY DEF Next, vars, Submit, StatusHandler, WaitSendTimer, WaitReplyTimer, BackoffTimer,
         DataSendTimer, Arrive, Recv, Boundary
<1>2. \/ handedUp' = handedUp
      \/ \E l, f : handedUp' = [handedUp EXCEPT ![l] = @ \cup {f}]
  BY DEF Next, vars, Submit, StatusHandler, WaitSendTimer, WaitReplyTimer, BackoffTimer,
         DataSendTimer, Arrive, Recv, Boundary
<1> QED
  BY <1>1, <1>2 DEF HistoryOK

\* What was dropped stays on record.
LEMMA DroppedStays == [Next]_vars => dropped \subseteq dropped'
<1> SUFFICES ASSUME [Next]_vars PROVE dropped \subseteq dropped'
  OBVIOUS
<1>1. ASSUME NEW n, NEW m, NEW ended, Becomes(n, m, ended) PROVE dropped \subseteq dropped'
  BY <1>1 DEF Becomes
<1>2. \/ \E n, m, ended : Becomes(n, m, ended)
      \/ dropped' = dropped
  <2>1. CASE \E n \in Node : \/ Submit(n) \/ StatusHandler(n) \/ WaitSendTimer(n)
                            \/ WaitReplyTimer(n) \/ BackoffTimer(n) \/ DataSendTimer(n)
    BY <2>1 DEF Submit, StatusHandler, WaitSendTimer, WaitReplyTimer, BackoffTimer, DataSendTimer
  <2>2. CASE \E l \in Hears : Arrive(l[1], l[2]) \/ Recv(l[1], l[2])
    BY <2>2 DEF Arrive, Recv
  <2>3. CASE Boundary \/ UNCHANGED vars
    BY <2>3 DEF Boundary, vars
  <2> QED
    BY <2>1, <2>2, <2>3 DEF Next
<1> QED
  BY <1>1, <1>2

\* Every step keeps the handshakes in order, until a packet meets a busy radio.
LEMMA NextJInv ==
  MaxBurst = 1 => (IInv /\ HistoryOK /\ JInv /\ NoDataDropped' /\ [Next]_vars => JInv')
<1> SUFFICES ASSUME MaxBurst = 1, IInv, HistoryOK, JInv, NoDataDropped', [Next]_vars PROVE JInv'
  OBVIOUS
<1>1. ASSUME NEW n \in Node, Submit(n) PROVE JInv'
  BY <1>1, SubmitJInv
<1>2. ASSUME NEW n \in Node, StatusHandler(n) PROVE JInv'
  BY <1>2, StatusHandlerJInv
<1>3. ASSUME NEW n \in Node, WaitSendTimer(n) PROVE JInv'
  BY <1>3, WaitSendTimerJInv
<1>4. ASSUME NEW n \in Node, WaitReplyTimer(n) PROVE JInv'
  BY <1>4, WaitReplyTimerJInv
<1>5. ASSUME NEW n \in Node, BackoffTimer(n) PROVE JInv'
  BY <1>5, BackoffTimerJInv
<1>6. ASSUME NEW n \in Node, DataSendTimer(n) PROVE JInv'
  BY <1>6, DataSendTimerJInv
<1>7. ASSUME NEW l \in Hears, Arrive(l[1], l[2]) PROVE JInv'
  BY <1>7, HearsPairs, ArriveJInv
<1>8. ASSUME NEW l \in Hears, Recv(l[1], l[2]) PROVE JInv'
  BY <1>8, HearsPairs, RecvJInv
<1>9. CASE Boundary
  BY <1>9, BoundaryJInv
<1>10. CASE UNCHANGED vars
  BY <1>10 DEF vars, JInv, PosturesOK, StampsOK, LedgersOK, TodoOK, Back
<1> QED
  BY <1>1, <1>2, <1>3, <1>4, <1>5, <1>6, <1>7, <1>8, <1>9, <1>10 DEF Next

\* The invariant that goes with NoDataDropped.
Handshakes == IInv /\ HistoryOK /\ (NoDataDropped => JInv)

\* It is inductive: a packet that has met a busy radio stays on record.
LEMMA NextHandshakes == MaxBurst = 1 => (Handshakes /\ [Next]_vars => Handshakes')
<1> SUFFICES ASSUME MaxBurst = 1, Handshakes, [Next]_vars PROVE Handshakes'
  OBVIOUS
<1>1. IInv' /\ HistoryOK'
  BY NextIInv, HistoryStep DEF Handshakes
<1>2. NoDataDropped' => NoDataDropped
  BY DroppedStays DEF NoDataDropped
<1>3. NoDataDropped' => JInv'
  BY <1>2, NextJInv DEF Handshakes
<1> QED
  BY <1>1, <1>3 DEF Handshakes
----------------------------------------------------------------------------
(* Reliable links *)

\* All that a node keeps, in the order in which it goes.
Line(m) == m.backup \o m.sending \o m.cached
SameQueues(m, x) == x.backup = m.backup /\ x.sending = m.sending /\ x.cached = m.cached

\* Empty queues do not count.
LEMMA LineFacts ==
  ASSUME NEW S, NEW m \in State(S)
  PROVE  /\ Line(m) \in Seq(Frame)
         /\ m.backup = <<>> => Line(m) = m.sending \o m.cached
         /\ m.sending = <<>> => Line(m) = m.backup \o m.cached
         /\ m.backup = <<>> /\ m.sending = <<>> => Line(m) = m.cached
         /\ \A x : SameQueues(m, x) => Line(x) = Line(m)
<1>1. m.backup \in Seq(Frame) /\ m.sending \in Seq(Frame) /\ m.cached \in Seq(Frame)
  BY DEF State
<1> DEFINE b == m.backup
           s == m.sending
           c == m.cached
<1>2. /\ <<>> \o s = s /\ b \o <<>> = b /\ <<>> \o c = c
      /\ b \o s \in Seq(Frame) /\ b \o s \o c \in Seq(Frame)
  BY <1>1, ConcatEmptySeq, ConcatProperties
<1>3. \A x : SameQueues(m, x) => Line(x) = Line(m)
  BY DEF SameQueues, Line
<1>4. Line(m) = b \o s \o c
  BY DEF Line
<1> HIDE DEF b, s, c
<1>5. /\ Line(m) \in Seq(Frame)
      /\ b = <<>> => Line(m) = s \o c
      /\ s = <<>> => Line(m) = b \o c
      /\ b = <<>> /\ s = <<>> => Line(m) = c
  BY <1>2, <1>4
<1> QED
  BY <1>3, <1>5 DEF b, s, c

\* The packet first in line stays first when it becomes the train.
LEMMA PrepareLine ==
  ASSUME MaxBurst = 1, NEW n \in Node, NEW S, NEW m \in State(S), m.backup = <<>>,
         NEW r \in Nat, NEW x, x = prepareSendingDATA(m, n, r)
  PROVE  Line(x) = Line(m)
<1>1. ASSUME NEW y \in State(S) PROVE SameQueues(y, scheduleRTS(y, n, r))
  <2> DEFINE f == Control("RTS", n, Head(y.sending).DA, TrainSlots(Len(y.sending)))
  <2>1. scheduleRTS(y, n, r) = [y EXCEPT !.status = "WAIT_SEND_RTS", !.waitSend = 1 + r, !.pkt = f]
    BY <1>1 DEF scheduleRTS, SendAt, State
  <2> HIDE DEF f
  <2> QED
    BY <1>1, <2>1 DEF SameQueues, State
<1>2. CASE m.sending # <<>>
  <2>1. SameQueues(m, x)
    BY <1>1, <1>2 DEF prepareSendingDATA
  <2> QED
    BY <2>1, LineFacts
<1>3. CASE m.sending = <<>> /\ m.cached = <<>>
  BY <1>3 DEF prepareSendingDATA
<1>4. CASE m.sending = <<>> /\ m.cached # <<>>
  <2> DEFINE c == m.cached
             y == [m EXCEPT !.sending = <<Head(c)>>, !.cached = Tail(c)]
  <2>1. x = scheduleRTS(takeTrain(m), n, r) /\ takeTrain(m) = y
    BY <1>4, TakeOne DEF prepareSendingDATA
  <2>2. c \in Seq(Frame) /\ <<Head(c)>> \in Seq(Frame) /\ Tail(c) \in Seq(Frame)
    BY <1>4, HeadTailProperties DEF State
  <2>3. <<Head(c)>> \o Tail(c) = c
    <3> HIDE DEF c
    <3>1. c # <<>>
      BY <1>4 DEF c
    <3> QED
      BY <2>2, <3>1
  <2>4. /\ y.sending = <<Head(c)>> /\ y.cached = Tail(c) /\ y.backup = m.backup
        /\ y \in State(S)
    BY <2>2 DEF State
  <2> HIDE DEF y
  <2>5. Line(y) = <<Head(c)>> \o Tail(c) /\ Line(m) = c
    BY <1>4, <2>4, LineFacts
  <2>6. SameQueues(y, x)
    BY <1>1, <2>1, <2>4
  <2> QED
    BY <2>3, <2>4, <2>5, <2>6, LineFacts
<1> QED
  BY <1>2, <1>3, <1>4

\* A new packet is last in line.
LEMMA TxProcessLine ==
  ASSUME MaxBurst = 1, NEW n \in Node, NEW S, NEW m \in State(S), Posture(n, m),
         m.backup # <<>> => m.dataSend,
         NEW f \in Frame, NEW r \in Nat, NEW x, x = TxProcess(m, n, f, r)
  PROVE  Line(x) = Append(Line(m), f)
<1> DEFINE c == Append(m.cached, f)
           q == [m EXCEPT !.cached = c]
           a == m.backup \o m.sending
<1>1. m.backup \in Seq(Frame) /\ m.sending \in Seq(Frame) /\ m.cached \in Seq(Frame)
  BY DEF State
<1>2. c \in Seq(Frame) /\ a \in Seq(Frame)
  BY <1>1, AppendProperties, ConcatProperties
<1>3. a \o c = Append(a \o m.cached, f)
  <2> HIDE DEF a
  <2>1. <<f>> \in Seq(Frame) /\ a \o m.cached \in Seq(Frame)
    BY <1>1, <1>2, ConcatProperties
  <2>2. c = m.cached \o <<f>> /\ Append(a \o m.cached, f) = a \o m.cached \o <<f>>
    BY <1>1, <2>1, AppendIsConcat
  <2>3. a \o (m.cached \o <<f>>) = a \o m.cached \o <<f>>
    <3> DEFINE d == m.cached
               e == <<f>>
    <3>1. a \in Seq(Frame) /\ d \in Seq(Frame) /\ e \in Seq(Frame)
      BY <1>1, <1>2, <2>1
    <3> HIDE DEF d, e
    <3>2. (a \o d) \o e = a \o (d \o e)
      BY <3>1, ConcatAssociative
    <3> QED
      BY <3>2 DEF d, e
  <2> QED
    BY <2>2, <2>3
<1>4. x = IF Len(q.cached) = 1 /\ q.status = "IDLE_WAIT" THEN prepareSendingDATA(q, n, r) ELSE q
  BY DEF TxProcess
<1> HIDE DEF c
<1>5. /\ q \in State(S) /\ q.cached = c /\ q.backup = m.backup /\ q.sending = m.sending
      /\ q.status = m.status
  BY <1>2 DEF State
<1> HIDE DEF q
<1>6. Line(q) = Append(Line(m), f)
  BY <1>3, <1>5 DEF Line
<1>7. CASE Len(q.cached) = 1 /\ q.status = "IDLE_WAIT"
  <2>1. q.backup = <<>>
    BY <1>5, <1>7 DEF Posture
  <2> QED
    BY <1>4, <1>5, <1>6, <1>7, <2>1, PrepareLine
<1>8. CASE ~(Len(q.cached) = 1 /\ q.status = "IDLE_WAIT")
  BY <1>4, <1>6, <1>8
<1> QED
  BY <1>7, <1>8

\* Waiting for what a frame asked for leaves the line alone.
LEMMA StatusLine ==
  ASSUME NEW S, NEW m \in State(S), NEW x, x = StatusProcess(m)
  PROVE  SameQueues(m, x)
<1> DEFINE i == SentStatus(m)
<1>1. /\ i.sending = m.sending /\ i.backup = m.backup /\ i.cached = m.cached
  BY DEF SentStatus, State
<1> HIDE DEF i
<1>2. x \in {Await(i, "WAIT_RECV_CTS", 1), Await(i, "WAIT_RECV_DATA", i.slotnum),
             [i EXCEPT !.status = "WAIT_RECV_ACK"], WaitReplyTimerProcess(i, TRUE, 0),
             Await(i, i.status, i.slotnum)}
  BY DEF StatusProcess, i
<1>3. \A st, k : SameQueues(i, Await(i, st, k))
  BY DEF Await, SameQueues
<1>4. SameQueues(i, [i EXCEPT !.status = "WAIT_RECV_ACK"])
      /\ SameQueues(i, WaitReplyTimerProcess(i, TRUE, 0))
  BY DEF WaitReplyTimerProcess, SameQueues
<1>5. SameQueues(i, x)
  BY <1>2, <1>3, <1>4
<1> QED
  BY <1>1, <1>5 DEF SameQueues

\* So does the timer for a reply.
LEMMA ReplyLine ==
  ASSUME NEW m, NEW r
  PROVE  SameQueues(m, WaitReplyTimerProcess([m EXCEPT !.waitReply = Off], FALSE, r))
BY DEF WaitReplyTimerProcess, SameQueues

\* The end of a backoff turns to the packet first in line.
LEMMA BackoffLine ==
  ASSUME MaxBurst = 1, NEW n \in Node, NEW S, NEW m \in State(S), Posture(n, m), m.backoff = 0,
         m.backup # <<>> => m.dataSend, NEW r \in Nat, NEW x,
         x = BackoffTimerProcess([m EXCEPT !.backoff = Off], n, r)
  PROVE  Line(x) = Line(m)
<1> DEFINE i == [m EXCEPT !.backoff = Off, !.status = "IDLE_WAIT"]
<1>1. m.status \in {"BACKOFF", "BACKOFF_FAIR"}
  BY DEF Posture, Off
<1>2. m.backup = <<>>
  BY <1>1 DEF Posture
<1>3. x = prepareSendingDATA(i, n, r)
  BY DEF BackoffTimerProcess, State
<1>4. SameQueues(m, i) /\ i \in State(S)
  BY ZenonT(60) DEF State, SFAMA_Status, Timer, SameQueues
<1> HIDE DEF i
<1>5. Line(x) = Line(i)
  BY <1>2, <1>3, <1>4, PrepareLine DEF SameQueues
<1> QED
  BY <1>4, <1>5, LineFacts

\* What is sent at a boundary is no packet.
LEMMA WaitSendLine ==
  ASSUME NEW n \in Node, NEW S, NEW m \in State(S), Posture(n, m), m.busy = "nothing",
         m.waitSend = 0, NEW x, x = WaitSendTimerProcess(SendAt(m, Off, NoFrame), m.pkt)
  PROVE  SameQueues(m, x)
<1>1. Prepared(n, m) /\ ~m.statusEvent
  BY DEF Posture, Off
<1>2. m.pkt \in Answer \cup {NoFrame, Train}
  BY DEF State
<1>3. CASE m.pkt = Train
  BY <1>3 DEF WaitSendTimerProcess, SendAt, State, SameQueues
<1>4. CASE m.pkt # Train
  <2>1. m.pkt \in Frame /\ m.pkt.type # "DATA"
    BY <1>1, <1>2, <1>4 DEF Prepared, Answer, NoFrame
  <2>2. x = sendPkt(SendAt(m, Off, NoFrame), m.pkt)
    BY <1>4 DEF WaitSendTimerProcess
  <2> QED
    BY <1>1, <2>1, <2>2, SendPktFields DEF SameQueues
<1> QED
  BY <1>3, <1>4

\* A train of one packet is one packet however far it has come.
LEMMA DataSendLine ==
  ASSUME NEW n \in Node, NEW S, NEW m \in State(S), Posture(n, m), NEW x,
         x = DataSendTimerProcess(m)
  PROVE  Line(x) = Line(m)
<1>1. m.sending \in Seq(Frame) /\ m.backup \in Seq(Frame) /\ m.cached \in Seq(Frame)
  BY DEF State
<1>2. \A q \in Seq(Frame) : <<>> \o q = q /\ q \o <<>> = q
  BY ConcatEmptySeq
<1>3. CASE m.sending # <<>>
  <2> DEFINE f == Head(m.sending)
             a == [LastDataLeft(StartTrain(m)) EXCEPT !.backup = Append(@, f), !.sending = Tail(@)]
  <2>1. m.backup = <<>> /\ Tail(m.sending) = <<>> /\ m.sending = <<f>>
    <3>1. m.backup = <<>> /\ Len(m.sending) = 1
      BY <1>3, TrainFacts
    <3>2. Len(m.sending) <= 1
      BY <3>1
    <3> QED
      BY <1>1, <1>3, <3>1, <3>2, OnePacket
  <2>2. x = sendDataPkt(a, f)
    BY <1>3 DEF DataSendTimerProcess, NextOfTrain
  <2>3. Append(<<>>, f) = <<f>>
    OBVIOUS
  <2>4. a.backup = <<f>> /\ a.sending = <<>> /\ a.cached = m.cached
    <3> DEFINE i == LastDataLeft(StartTrain(m))
    <3>1. /\ SameQueues(m, i) /\ "backup" \in DOMAIN i /\ "sending" \in DOMAIN i
      BY DEF LastDataLeft, StartTrain, State, SameQueues
    <3> HIDE DEF i, f
    <3>2. a = [i EXCEPT !.backup = <<f>>, !.sending = <<>>]
      BY <2>1, <2>3, <3>1 DEF SameQueues, i
    <3> HIDE DEF a
    <3> QED
      BY <3>1, <3>2 DEF SameQueues
  <2> HIDE DEF a, f
  <2>5. x.backup = a.backup /\ x.sending = a.sending /\ x.cached = a.cached
    <3>1. CASE a.radio.trans \in {"RECV", "SEND"}
      BY <2>2, <3>1 DEF sendDataPkt, SendDown
    <3>2. CASE a.radio.trans \notin {"RECV", "SEND"}
      BY <2>2, <3>2 DEF sendDataPkt, SendDown
    <3> QED
      BY <3>1, <3>2
  <2>6. <<f>> \in Seq(Frame)
    BY <1>1, <2>1
  <2>7. Line(x) = <<f>> \o <<>> \o m.cached
    BY <2>4, <2>5 DEF Line
  <2>8. Line(m) = <<>> \o <<f>> \o m.cached
    BY <2>1 DEF Line
  <2> QED
    BY <1>2, <2>6, <2>7, <2>8
<1>4. CASE m.sending = <<>>
  <2> DEFINE a == EndOfTrain(m)
  <2>1. x = ScheduleStatus(a)
    BY <1>4 DEF DataSendTimerProcess
  <2>2. a.backup = <<>> /\ a.sending = m.backup /\ a.cached = m.cached
    BY DEF EndOfTrain, LastDataLeft, State
  <2> HIDE DEF a
  <2>3. x.backup = a.backup /\ x.sending = a.sending /\ x.cached = a.cached
    BY <2>1 DEF ScheduleStatus
  <2>4. Line(x) = <<>> \o m.backup \o m.cached /\ Line(m) = m.backup \o <<>> \o m.cached
    BY <1>4, <2>2, <2>3 DEF Line
  <2> QED
    BY <1>1, <1>2, <2>4
<1> QED
  BY <1>3, <1>4

\* What is received changes the line only if it is the ACK for the train, which goes.
LEMMA RecvLine ==
  ASSUME MaxBurst = 1, NEW n \in Node, NEW S, NEW m \in State(S), m.backup = <<>>,
         NEW f \in Frame, NEW late \in {0, 1}, NEW r \in Nat,
         NEW x, x = RecvProcess(m, n, f, late, r)
  PROVE  /\ ~(f.type = "ACK" /\ Acknowledged(m, n, f)) => Line(x) = Line(m)
         /\ f.type = "ACK" /\ Acknowledged(m, n, f) => Line(x) = m.cached
<1>1. \A k : SameQueues(m, Backoff(m, k))
  BY DEF Backoff, stopTimers, SameQueues
<1>2. SameQueues(m, m)
  BY DEF SameQueues
<1>3. ASSUME NEW st, NEW k, NEW wr
      PROVE  /\ SameQueues(m, SendAt([stopTimers(m) EXCEPT !.status = st], 1, k))
             /\ SameQueues(m, SendAt([stopTimers(m) EXCEPT !.status = st, !.waitReply = wr], 1, k))
  BY DEF SendAt, stopTimers, SameQueues
<1>4. CASE f.type = "RTS"
  <2>1. x = processRTS(m, n, f)
    BY <1>4 DEF RecvProcess
  <2>2. SameQueues(m, x)
    BY <1>1, <1>2, <1>3, <2>1 DEF processRTS
  <2> QED
    BY <1>4, <2>2, LineFacts
<1>5. CASE f.type = "CTS"
  <2>1. x = processCTS(m, n, f, late)
    BY <1>5 DEF RecvProcess
  <2>2. SameQueues(m, x)
    BY <1>1, <1>3, <2>1 DEF processCTS
  <2> QED
    BY <1>5, <2>2, LineFacts
<1>6. CASE f.type = "DATA"
  <2>1. x = processDATA(m, n, f)
    BY <1>6 DEF RecvProcess
  <2>2. SameQueues(m, x)
    BY <1>1, <1>3, <2>1 DEF processDATA
  <2> QED
    BY <1>6, <2>2, LineFacts
<1>7. CASE f.type = "ACK"
  <2>1. x = processACK(m, n, f, r)
    BY <1>7 DEF RecvProcess
  <2>2. CASE ~Acknowledged(m, n, f)
    BY <2>1, <2>2 DEF processACK
  <2>3. CASE Acknowledged(m, n, f)
    <3> DEFINE i == [stopTimers(m) EXCEPT !.status = "IDLE_WAIT", !.sending = <<>>]
    <3>1. x = prepareSendingDATA(i, n, r)
      BY <2>1, <2>3 DEF processACK
    <3>2. i \in State(S)
      <4>1. <<>> \in Seq(Frame) /\ Off \in Timer /\ "IDLE_WAIT" \in SFAMA_Status
        BY DEF Timer, SFAMA_Status
      <4> QED
        BY <4>1 DEF State, stopTimers
    <3>3. i.sending = <<>> /\ i.backup = <<>> /\ i.cached = m.cached
      BY DEF stopTimers, State
    <3> HIDE DEF i
    <3>4. Line(x) = Line(i)
      BY <3>1, <3>2, <3>3, PrepareLine
    <3> QED
      BY <1>7, <2>3, <3>2, <3>3, <3>4, LineFacts
  <2> QED
    BY <1>7, <2>2, <2>3
<1>8. f.type \in {"RTS", "CTS", "ACK", "DATA"}
  BY FrameFacts
<1> QED
  BY <1>4, <1>5, <1>6, <1>7, <1>8

\* The queue that a node keeps for each neighbour, as ReliableLinks sees it.
Queue == [l \in Hears |-> Waiting(l[1], l[2])]

\* Nothing happens to the abstract state.
LEMMA AbstractKept ==
  ASSUME submitted' = submitted, Queue' = Queue, handedUp' = handedUp
  PROVE  UNCHANGED Reliable!vars
BY DEF Reliable!vars, Queue

\* A step of node k changes no queue but its own.
LEMMA QueueStep ==
  ASSUME IInv, NEW k \in Node, NEW S, NEW x \in State(S), NEW ended, Becomes(k, x, ended)
  PROVE  Queue' = [l \in Hears |-> IF l[1] = k THEN For(l[2], Line(x)) ELSE Queue[l]]
<1>1. mac' = [mac EXCEPT ![k] = Settle(x)] /\ mac = [n \in Node |-> mac[n]]
  BY DEF Becomes, Settle, IInv, NodesOK
<1>2. SameQueues(x, Settle(x))
  BY DEF SameQueues, Settle, State
<1>3. mac'[k] = Settle(x) /\ \A n \in Node \ {k} : mac'[n] = mac[n]
  BY <1>1
<1>4. Line(mac'[k]) = Line(x)
  <2>1. Line(Settle(x)) = Line(x)
    BY <1>2, LineFacts
  <2> QED
    BY <1>3, <2>1
<1>5. ASSUME NEW l \in Hears
      PROVE  Waiting(l[1], l[2])' = IF l[1] = k THEN For(l[2], Line(x)) ELSE Queue[l]
  <2>1. l[1] \in Node
    BY MediumAssumption
  <2>2. Waiting(l[1], l[2])' = For(l[2], Line(mac'[l[1]])) /\ Queue[l] = For(l[2], Line(mac[l[1]]))
    BY DEF Waiting, Line, Queue
  <2>3. CASE l[1] = k
    BY <1>4, <2>2, <2>3
  <2>4. CASE l[1] # k
    BY <1>3, <2>1, <2>2, <2>4
  <2> QED
    BY <2>3, <2>4
<1> QED
  BY <1>5 DEF Queue

\* A step that leaves the line of its node alone leaves all queues alone.
LEMMA QueueKept ==
  ASSUME IInv, NEW k \in Node, NEW S, NEW x \in State(S), NEW ended, Becomes(k, x, ended),
         Line(x) = Line(mac[k])
  PROVE  Queue' = Queue
<1>1. Queue' = [l \in Hears |-> IF l[1] = k THEN For(l[2], Line(x)) ELSE Queue[l]]
  BY QueueStep
<1>2. \A l \in Hears : l[1] = k => Queue[l] = For(l[2], Line(mac[k]))
  BY DEF Queue, Waiting, Line
<1>3. Queue' = [l \in Hears |-> Queue[l]]
  BY <1>1, <1>2
<1> QED
  BY <1>3 DEF Queue

\* Such a step hands nothing over either.
LEMMA Stutter ==
  ASSUME IInv, NEW k \in Node, NEW S, NEW x \in State(S), NEW ended, Becomes(k, x, ended),
         Line(x) = Line(mac[k]), submitted' = submitted, handedUp' = handedUp
  PROVE  UNCHANGED Reliable!vars
BY QueueKept, AbstractKept

\* A packet from above joins the queue of its link, if its receiver is in range.
LEMMA SubmitReliable ==
  ASSUME MaxBurst = 1, IInv, HistoryOK, JInv, NEW n \in Node, Submit(n)
  PROVE  [Reliable!Next]_(Reliable!vars)
<1> DEFINE f == Data(n, Head(todo[n]))
           S == Senders(n)
           m == mac[n]
           l0 == <<n, f.DA>>
           P == UNION {{Data(k, Traffic[k][i]) : i \in DOMAIN Traffic[k]} : k \in Node}
<1>1. todo \in [Node -> Seq(Packet)] /\ todo[n] # <<>> /\ todo[n] \in Seq(Packet)
  BY NodeFacts DEF Submit
<1>2. f \in Frame
  BY <1>1, HeadTailProperties, DataFrame
<1>3. f.SA = n /\ f \in P
  <2>1. Head(todo[n]) = todo[n][1] /\ 1 \in DOMAIN todo[n]
    BY <1>1
  <2>2. PICK j \in DOMAIN Traffic[n] : Head(todo[n]) = Traffic[n][j]
    BY <2>1 DEF JInv, TodoOK
  <2> QED
    BY <2>2 DEF Data
<1>4. PICK r \in Draw : Becomes(n, TxProcess(m, n, f, r), {})
  BY DEF Submit
<1>5. submitted' = [submitted EXCEPT ![l0] = Append(@, f)] /\ handedUp' = handedUp
  BY DEF Submit
<1>6. r \in Nat /\ m \in State(S) /\ Posture(n, m) /\ (m.backup # <<>> => m.dataSend)
  BY DrawFacts, ActorFacts
<1> DEFINE x == TxProcess(m, n, f, r)
<1> HIDE DEF f, P
<1>7. x \in State(S)
  BY <1>2, <1>6, NodeFacts, TxProcessGood DEF Good, Core
<1>8. Line(x) = Append(Line(m), f) /\ Line(m) \in Seq(Frame)
  <2> HIDE DEF m, S
  <2>1. Line(x) = Append(Line(m), f)
    BY <1>2, <1>6, TxProcessLine
  <2> QED
    BY <1>6, <2>1, LineFacts
<1> HIDE DEF x, S
<1>9. Queue' = [l \in Hears |-> IF l[1] = n THEN For(l[2], Append(Line(m), f)) ELSE Queue[l]]
  BY <1>4, <1>7, <1>8, QueueStep DEF x
<1>10. ASSUME NEW l \in Hears PROVE Queue'[l] = IF l = l0 THEN Append(Queue[l], f) ELSE Queue[l]
  <2>1. l = <<l[1], l[2]>> /\ Queue[l] = For(l[2], Line(mac[l[1]]))
    BY HearsPairs DEF Queue, Waiting, Line
  <2>2. For(l[2], Append(Line(m), f)) =
          IF f.DA = l[2] THEN Append(For(l[2], Line(m)), f) ELSE For(l[2], Line(m))
    BY <1>2, <1>8, ForAppend
  <2> HIDE DEF m
  <2>3. CASE l[1] = n
    <3>1. Queue'[l] = For(l[2], Append(Line(m), f)) /\ Queue[l] = For(l[2], Line(m))
      BY <1>9, <2>1, <2>3 DEF m
    <3>2. l = l0 <=> f.DA = l[2]
      BY <2>1, <2>3
    <3> QED
      BY <2>2, <3>1, <3>2
  <2>4. CASE l[1] # n
    <3>1. Queue'[l] = Queue[l]
      BY <1>9, <2>4
    <3>2. l # l0
      BY <2>4
    <3> QED
      BY <3>1, <3>2
  <2> QED
    BY <2>3, <2>4
<1>11. Queue = [l \in Hears |-> Queue[l]] /\ Queue' = [l \in Hears |-> Queue'[l]]
  BY <1>9 DEF Queue
<1> HIDE DEF l0
<1>12. Queue' = [Queue EXCEPT ![l0] = Append(@, f)]
  BY <1>10, <1>11
<1>13. CASE l0 \in Hears
  <2>1. l0 = LinkOf(f)
    BY <1>3 DEF LinkOf, l0
  <2>2. Reliable!Submit(l0, f)
    BY <1>5, <1>12, <2>1 DEF Reliable!Submit, Queue
  <2> QED
    BY <1>3, <1>13, <2>2 DEF Reliable!Next, P
<1>14. CASE l0 \notin Hears
  <2>1. submitted' = submitted /\ Queue' = Queue
    BY <1>5, <1>11, <1>12, <1>14 DEF HistoryOK
  <2> QED
    BY <1>5, <2>1, AbstractKept
<1> QED
  BY <1>13, <1>14

\* The timers and events of a node change no queue.
LEMMA StatusHandlerReliable ==
  ASSUME IInv, JInv, NEW n \in Node, StatusHandler(n)
  PROVE  UNCHANGED Reliable!vars
<1> DEFINE x == StatusProcess(mac[n])
<1>1. Becomes(n, x, {}) /\ submitted' = submitted /\ handedUp' = handedUp
  BY DEF StatusHandler
<1>2. mac[n] \in State(Senders(n)) /\ mac[n].statusEvent
  BY ActorFacts DEF StatusHandler
<1>3. x \in State(Senders(n))
  BY <1>2, NodeFacts, StatusGood DEF Good, Core
<1>4. SameQueues(mac[n], x)
  BY <1>2, StatusLine
<1> HIDE DEF x
<1>5. Line(x) = Line(mac[n])
  BY <1>2, <1>4, LineFacts
<1> QED
  BY <1>1, <1>3, <1>5, Stutter

\* The boundary at which an RTS, CTS or ACK is due.
LEMMA WaitSendTimerReliable ==
  ASSUME IInv, JInv, NEW n \in Node, WaitSendTimer(n)
  PROVE  UNCHANGED Reliable!vars
<1> DEFINE m == mac[n]
           x == WaitSendTimerProcess(SendAt(m, Off, NoFrame), m.pkt)
<1>1. m.waitSend = 0 /\ Becomes(n, x, {}) /\ submitted' = submitted /\ handedUp' = handedUp
  BY DEF WaitSendTimer
<1>2. m \in State(Senders(n)) /\ Posture(n, m) /\ m.busy = "nothing"
  BY ActorFacts
<1>3. x \in State(Senders(n))
  BY <1>1, NodeFacts, WaitSendGood DEF Good, Core
<1> HIDE DEF x
<1>4. SameQueues(m, x)
  <2> HIDE DEF m
  <2> QED
    BY <1>1, <1>2, WaitSendLine DEF x
<1>5. Line(x) = Line(m)
  BY <1>2, <1>4, LineFacts
<1> QED
  BY <1>1, <1>3, <1>5, Stutter

\* No reply in time.
LEMMA WaitReplyTimerReliable ==
  ASSUME IInv, JInv, NEW n \in Node, WaitReplyTimer(n)
  PROVE  UNCHANGED Reliable!vars
<1>1. submitted' = submitted /\ handedUp' = handedUp
  BY DEF WaitReplyTimer
<1>2. PICK r \in Draw :
        Becomes(n, WaitReplyTimerProcess([mac[n] EXCEPT !.waitReply = Off], FALSE, r), {})
  BY DEF WaitReplyTimer
<1> DEFINE x == WaitReplyTimerProcess([mac[n] EXCEPT !.waitReply = Off], FALSE, r)
<1>3. mac[n] \in State(Senders(n))
  BY ActorFacts
<1>4. x \in State(Senders(n))
  BY NodeFacts, DrawFacts, WaitReplyOver DEF Good, Core
<1>5. SameQueues(mac[n], x)
  BY ReplyLine
<1>6. Becomes(n, x, {})
  BY <1>2
<1> HIDE DEF x
<1>7. Line(x) = Line(mac[n])
  BY <1>3, <1>5, LineFacts
<1> QED
  BY <1>1, <1>4, <1>6, <1>7, Stutter

\* The end of a backoff.
LEMMA BackoffTimerReliable ==
  ASSUME MaxBurst = 1, IInv, JInv, NEW n \in Node, BackoffTimer(n)
  PROVE  UNCHANGED Reliable!vars
<1>1. mac[n].backoff = 0 /\ submitted' = submitted /\ handedUp' = handedUp
  BY DEF BackoffTimer
<1>2. PICK r \in Draw : Becomes(n, BackoffTimerProcess([mac[n] EXCEPT !.backoff = Off], n, r), {})
  BY DEF BackoffTimer
<1> DEFINE x == BackoffTimerProcess([mac[n] EXCEPT !.backoff = Off], n, r)
<1>3. /\ mac[n] \in State(Senders(n)) /\ Posture(n, mac[n]) /\ r \in Nat
      /\ mac[n].backup # <<>> => mac[n].dataSend
  BY ActorFacts, DrawFacts
<1>4. x \in State(Senders(n))
  BY NodeFacts, DrawFacts, BackoffGood DEF Good, Core
<1>5. Line(x) = Line(mac[n])
  BY <1>1, <1>3, BackoffLine
<1>6. Becomes(n, x, {})
  BY <1>2
<1> HIDE DEF x
<1> QED
  BY <1>1, <1>4, <1>5, <1>6, Stutter

\* A packet leaves, or has left.
LEMMA DataSendTimerReliable ==
  ASSUME IInv, JInv, NEW n \in Node, DataSendTimer(n)
  PROVE  UNCHANGED Reliable!vars
<1> DEFINE x == DataSendTimerProcess(mac[n])
<1>1. /\ mac[n].dataSend /\ Becomes(n, x, {})
      /\ submitted' = submitted /\ handedUp' = handedUp
  BY DEF DataSendTimer
<1>2. mac[n] \in State(Senders(n)) /\ Posture(n, mac[n])
  BY ActorFacts
<1>3. x \in State(Senders(n))
  BY <1>1, NodeFacts, DataSendGood DEF Good, Core
<1>4. Line(x) = Line(mac[n])
  BY <1>2, DataSendLine
<1> HIDE DEF x
<1> QED
  BY <1>1, <1>3, <1>4, Stutter

\* Nor does the head of a frame.
LEMMA ArriveReliable ==
  ASSUME IInv, JInv, NEW s, NEW r, <<s, r>> \in Hears, Arrive(s, r)
  PROVE  UNCHANGED Reliable!vars
<1> DEFINE S == Senders(r)
           m == mac[r]
           q == RecvUp(m.radio, s)
           x == [m EXCEPT !.radio = q]
<1>1. /\ link[<<s, r>>] # <<>> /\ ~Heard(m.radio, s)
      /\ submitted' = submitted /\ handedUp' = handedUp
  BY DEF Arrive
<1>2. r \in Node /\ s \in S
  BY <1>1, HeadFacts
<1>3. m \in State(S) /\ RadioInv(S, m.radio)
  BY <1>2, ActorFacts
<1>4. CASE DeafRadio(m.radio)
  <2>1. Becomes(r, m, {<<s, r>>})
    BY <1>4, ArriveBecomes
  <2> HIDE DEF S
  <2> QED
    BY <1>1, <1>2, <1>3, <2>1, Stutter
<1>5. CASE ~DeafRadio(m.radio)
  <2>1. Becomes(r, x, {})
    BY <1>5, ArriveBecomes
  <2>2. q \in RadioState(S)
    <3>1. RadioInv(S, q)
      <4>1. Audible(S)
        BY <1>2, NodeFacts
      <4> QED
        BY <1>1, <1>2, <1>3, <4>1, RecvUpFacts DEF Heard
    <3> QED
      BY <3>1 DEF RadioInv
  <2> HIDE DEF q, S
  <2>3. x \in State(S)
    BY <1>3, <2>2 DEF State
  <2>4. SameQueues(m, x)
    BY <1>3 DEF State, SameQueues
  <2> HIDE DEF x
  <2>5. Line(x) = Line(m)
    BY <1>3, <2>4, LineFacts
  <2> QED
    BY <1>1, <1>2, <2>1, <2>3, <2>5, Stutter
<1> QED
  BY <1>4, <1>5

\* Nor does a slot boundary.
LEMMA BoundaryReliable ==
  ASSUME IInv, JInv, Boundary
  PROVE  UNCHANGED Reliable!vars
<1>1. submitted' = submitted /\ handedUp' = handedUp
  BY DEF Boundary
<1>2. ASSUME NEW n \in Node PROVE Line(mac'[n]) = Line(mac[n])
  <2> DEFINE m == mac[n]
  <2>1. m \in State(Senders(n))
    BY ActorFacts
  <2>2. mac'[n] = [m EXCEPT !.waitSend = Less(@), !.waitReply = Less(@), !.backoff = Less(@),
                            !.train = IF TrainUnderWay(n) THEN @ - 1 ELSE 0]
    BY DEF Boundary
  <2> HIDE DEF m
  <2>3. SameQueues(m, mac'[n])
    BY <2>1, <2>2 DEF State, SameQueues
  <2>4. Line(mac'[n]) = Line(m)
    BY <2>1, <2>3, LineFacts
  <2> QED
    BY <2>4 DEF m
<1>3. ASSUME NEW l \in Hears PROVE Waiting(l[1], l[2])' = Waiting(l[1], l[2])
  <2>1. l[1] \in Node
    BY MediumAssumption
  <2>2. Waiting(l[1], l[2])' = For(l[2], Line(mac'[l[1]])) /\ Waiting(l[1], l[2]) = For(l[2], Line(mac[l[1]]))
    BY DEF Waiting, Line
  <2> QED
    BY <1>2, <2>1, <2>2
<1>4. Queue' = Queue
  BY <1>3 DEF Queue
<1> QED
  BY <1>1, <1>4, AbstractKept

\* What a node keeps is its train and the packets behind it.
LEMMA TrainLine ==
  ASSUME NEW n, NEW S, NEW m \in State(S), Posture(n, m)
  PROVE  /\ Line(m) = TrainOf(m) \o m.cached
         /\ \A p : TrainOf(m) = <<p>> => p \in Frame
<1>1. m.backup # <<>> => m.sending = <<>>
  BY TrainFacts
<1>2. Line(m) = TrainOf(m) \o m.cached
  BY <1>1, LineFacts DEF TrainOf
<1>3. m.backup \in Seq(Frame) /\ m.sending \in Seq(Frame)
  BY DEF State
<1>4. ASSUME NEW p, TrainOf(m) = <<p>> PROVE p \in Frame
  <2>1. TrainOf(m) \in Seq(Frame)
    BY <1>3 DEF TrainOf
  <2>2. 1 \in DOMAIN <<p>> /\ <<p>>[1] = p
    OBVIOUS
  <2> QED
    BY <1>4, <2>1, <2>2, ElementOfSeq
<1> QED
  BY <1>2, <1>4

\* The packets of a node whose train is p, as its neighbours see them.
LEMMA TrainQueue ==
  ASSUME NEW n, NEW S, NEW m \in State(S), Posture(n, m), NEW p, TrainOf(m) = <<p>>, NEW r
  PROVE  /\ For(r, Line(m)) = IF p.DA = r THEN <<p>> \o For(r, m.cached) ELSE For(r, m.cached)
         /\ p \in Frame /\ For(r, m.cached) \in Seq(Frame)
<1>1. Line(m) = <<p>> \o m.cached /\ p \in Frame
  BY TrainLine
<1>2. m.cached \in Seq(Frame)
  BY DEF State
<1> DEFINE c == m.cached
<1>3. c \in Seq(Frame)
  BY <1>2
<1> HIDE DEF c
<1>4. For(r, c) \in Seq(Frame)
  BY <1>1, <1>3, ForAppend
<1>5. For(r, <<p>> \o c) = IF p.DA = r THEN <<p>> \o For(r, c) ELSE For(r, c)
  BY <1>1, <1>3, ForCons
<1>6. Line(m) = <<p>> \o c
  BY <1>1 DEF c
<1> QED
  BY <1>1, <1>4, <1>5, <1>6 DEF c

\* The head of a queue, and the rest.
LEMMA QueueHead ==
  ASSUME NEW p \in Frame, NEW c \in Seq(Frame), NEW q, q = <<p>> \o c
  PROVE  /\ q[1] = p /\ 1 \in 1 .. Len(q) /\ SubSeq(q, 1 + 1, Len(q)) = c
<1>1. /\ q \in Seq(Frame) /\ Len(q) = 1 + Len(c) /\ q[1] = p /\ Len(c) \in Nat
      /\ \A i \in 1 .. Len(c) : q[i + 1] = c[i]
  BY ConcatProperties
<1>2. \A i \in 2 .. Len(q) : q[i] \in Frame
  BY <1>1
<1> DEFINE t == SubSeq(q, 2, Len(q))
<1>3. /\ t \in Seq(Frame) /\ Len(t) = IF 2 <= Len(q) THEN Len(q) - 2 + 1 ELSE 0
      /\ \A i \in 1 .. Len(q) - 2 + 1 : t[i] = q[2 + i - 1]
  BY <1>1, <1>2, SubSeqProperties
<1> HIDE DEF t
<1>4. Len(t) = Len(c) /\ \A i \in 1 .. Len(c) : t[i] = c[i]
  BY <1>1, <1>3
<1>5. t = c
  BY <1>3, <1>4
<1> QED
  BY <1>1, <1>5 DEF t

\* A packet that its receiver takes is the first that the sender keeps for it.
LEMMA TakenIsFirst ==
  ASSUME IInv, JInv, NEW s \in Node, NEW r \in Node, <<s, r>> \in Hears,
         link[<<s, r>>] # <<>>, Head(link[<<s, r>>]).type = "DATA", Head(link[<<s, r>>]).DA = r
  PROVE  Queue[<<s, r>>][1] = Head(link[<<s, r>>]) /\ 1 \in 1 .. Len(Queue[<<s, r>>])
<1> DEFINE F == link[<<s, r>>]
           f == Head(F)
           m == mac[s]
<1>1. F \in Seq(Frame) /\ Carried(r, m, F)
  BY LedgerParts DEF Ledger
<1>2. 1 \in DOMAIN F /\ F[1] = f
  BY <1>1
<1>3. TrainOf(m) = <<f>>
  <2> HIDE DEF F, m
  <2>1. Has(F, "DATA", r)
    BY <1>1, HasHead DEF F
  <2> HIDE DEF f
  <2>2. F[1].type = "DATA" /\ F[1].DA = r
    BY <1>2 DEF f, F
  <2> QED
    BY <1>1, <1>2, <2>1, <2>2 DEF Carried, Carries
<1>4. m \in State(Senders(s)) /\ Posture(s, m)
  BY ActorFacts
<1>5. f.DA = r
  OBVIOUS
<1> HIDE DEF f, m
<1>6. For(r, Line(m)) = <<f>> \o For(r, m.cached) /\ f \in Frame /\ For(r, m.cached) \in Seq(Frame)
  BY <1>3, <1>4, <1>5, TrainQueue
<1>7. Queue[<<s, r>>] = For(r, Line(m))
  BY DEF Queue, Waiting, Line, m
<1> DEFINE c == For(r, m.cached)
           q == Queue[<<s, r>>]
<1>8. q = <<f>> \o c /\ c \in Seq(Frame)
  BY <1>6, <1>7
<1> HIDE DEF c, q, F
<1>9. q[1] = f /\ 1 \in 1 .. Len(q)
  BY <1>6, <1>8, QueueHead
<1> QED
  BY <1>9 DEF q, f, F

\* An acknowledged packet goes, and with it the head of its link's queue alone.
LEMMA AcknowledgedRelease ==
  ASSUME IInv, JInv, NEW s \in Node, NEW r \in Node, <<r, s>> \in Hears,
         Delivered(s, mac[r], handedUp[<<r, s>>]),
         NEW S, NEW x \in State(S), NEW ended, Becomes(r, x, ended), Line(x) = mac[r].cached,
         submitted' = submitted, handedUp' = handedUp
  PROVE  Reliable!Next
<1> DEFINE l0 == <<r, s>>
           m == mac[r]
<1>1. PICK p \in handedUp[l0] : TrainOf(m) = <<p>> /\ p.DA = s
  BY DEF Delivered
<1>2. m \in State(Senders(r)) /\ Posture(r, m)
  BY ActorFacts
<1>3. Queue' = [l \in Hears |-> IF l[1] = r THEN For(l[2], m.cached) ELSE Queue[l]]
  BY QueueStep
<1>4. p \in Frame
  BY <1>1, <1>2, TrainLine
<1>5. ASSUME NEW l \in Hears, l[1] = r
      PROVE  /\ For(l[2], m.cached) \in Seq(Frame)
             /\ Queue[l] = IF s = l[2] THEN <<p>> \o For(l[2], m.cached) ELSE For(l[2], m.cached)
  <2>1. Queue[l] = For(l[2], Line(m))
    BY <1>5 DEF Queue, Waiting, Line
  <2> DEFINE h == l[2]
  <2> HIDE DEF m, h
  <2>2. /\ For(h, Line(m)) = IF p.DA = h THEN <<p>> \o For(h, m.cached) ELSE For(h, m.cached)
        /\ For(h, m.cached) \in Seq(Frame)
    BY <1>1, <1>2, TrainQueue
  <2>3. Queue[l] = For(h, Line(m)) /\ p.DA = s
    BY <1>1, <2>1 DEF h
  <2>4. Queue[l] = IF s = h THEN <<p>> \o For(h, m.cached) ELSE For(h, m.cached)
    BY <2>2, <2>3
  <2> QED
    BY <2>2, <2>4 DEF h
<1>6. /\ Queue[l0][1] = p /\ 1 \in 1 .. Len(Queue[l0])
      /\ SubSeq(Queue[l0], 1 + 1, Len(Queue[l0])) = For(s, m.cached)
  <2> DEFINE c == For(s, m.cached)
             q == Queue[l0]
  <2>1. q = <<p>> \o c /\ c \in Seq(Frame)
    BY <1>5
  <2> HIDE DEF c, q
  <2>2. q[1] = p /\ 1 \in 1 .. Len(q) /\ SubSeq(q, 1 + 1, Len(q)) = c
    BY <1>4, <2>1, QueueHead
  <2> QED
    BY <2>2 DEF c, q
<1>7. ASSUME NEW l \in Hears
      PROVE  Queue'[l] = IF l = l0 THEN SubSeq(Queue[l0], 1 + 1, Len(Queue[l0])) ELSE Queue[l]
  <2>1. Queue'[l] = IF l[1] = r THEN For(l[2], m.cached) ELSE Queue[l]
    BY <1>3
  <2>2. l = <<l[1], l[2]>>
    BY HearsPairs
  <2>3. CASE l = l0
    BY <1>6, <2>1, <2>3
  <2>4. CASE l # l0 /\ l[1] = r
    BY <1>5, <2>1, <2>2, <2>4
  <2>5. CASE l[1] # r
    BY <2>1, <2>5
  <2> QED
    BY <2>3, <2>4, <2>5
<1>8. Queue = [l \in Hears |-> Queue[l]] /\ Queue' = [l \in Hears |-> Queue'[l]]
  BY <1>3 DEF Queue
<1> HIDE DEF l0
<1>9. Queue' = [Queue EXCEPT ![l0] = SubSeq(@, 1 + 1, Len(@))]
  BY <1>7, <1>8
<1>10. \A i \in 1 .. 1 : Queue[l0][i] \in handedUp[l0]
  BY <1>1, <1>6
<1>11. Reliable!Release(l0, 1)
  BY <1>9, <1>10 DEF Reliable!Release, Queue
<1>12. l0 \in Hears
  BY DEF l0
<1> QED
  BY <1>6, <1>11, <1>12 DEF Reliable!Next, Queue

\* A packet that is new to its receiver is handed up.
LEMMA TakenHandUp ==
  ASSUME HistoryOK, NEW l0 \in Hears, NEW f, Queue[l0][1] = f, 1 \in 1 .. Len(Queue[l0]),
         Queue' = Queue, submitted' = submitted,
         handedUp' = [handedUp EXCEPT ![l0] = @ \cup {f}]
  PROVE  [Reliable!Next]_(Reliable!vars)
<1>1. CASE f \in handedUp[l0]
  <2>1. handedUp[l0] \cup {f} = handedUp[l0]
    BY <1>1
  <2>2. handedUp' = handedUp
    BY <2>1 DEF HistoryOK
  <2> QED
    BY <2>2, AbstractKept
<1>2. CASE f \notin handedUp[l0]
  <2>1. Reliable!HandUp(l0, 1)
    BY <1>2 DEF Reliable!HandUp, Queue
  <2> QED
    BY <2>1 DEF Reliable!Next, Queue
<1> QED
  BY <1>1, <1>2

\* The end of a frame hands a packet up, lets one go, or changes no queue.
LEMMA RecvReliable ==
  ASSUME MaxBurst = 1, IInv, HistoryOK, JInv, NEW s, NEW r, <<s, r>> \in Hears, Recv(s, r)
  PROVE  [Reliable!Next]_(Reliable!vars)
<1> DEFINE l0 == <<s, r>>
           S == Senders(r) \ {s}
           f == Head(link[l0])
           m == Listener(s, r)
           taken == f.type = "DATA" /\ ForUs(m, r, f)
           acked == f.type = "ACK" /\ Acknowledged(m, r, f)
<1>1. /\ Settled /\ Heard(mac[r].radio, s) /\ submitted' = submitted
      /\ handedUp' = IF taken THEN [handedUp EXCEPT ![l0] = @ \cup {f}] ELSE handedUp
  BY DEF Recv, Listener
<1>2. /\ s \in Node /\ r \in Node /\ link[l0] # <<>> /\ f \in Frame
      /\ Stamped(s, f) /\ Good(m, S, Blocked(r)) /\ Audible(S) /\ Listens(m)
  BY <1>1, ListenerFacts
<1>3. PICK late \in {0, 1}, d \in Draw : Becomes(r, RecvProcess(m, r, f, late, d), {l0})
  BY DEF Recv, Listener
<1> DEFINE x == RecvProcess(m, r, f, late, d)
<1>4. d \in Nat /\ mac[r] \in State(Senders(r))
  BY <1>2, ActorFacts, DrawFacts
<1>5. Becomes(r, x, {l0})
  BY <1>3
<1>6. SameQueues(mac[r], m) /\ m.cached = mac[r].cached
  BY <1>4 DEF Listener, SameQueues, State
<1>7. Line(m) = Line(mac[r])
  BY <1>4, <1>6, LineFacts
<1> HIDE DEF S, f, m
<1>8. x \in State(S) /\ m \in State(S)
  <2>1. Good(x, S, Blocked(r))
    BY <1>2, <1>4, RecvProcessGood
  <2> QED
    BY <1>2, <2>1 DEF Good, Core
<1>9. /\ ~acked => Line(x) = Line(mac[r])
      /\ acked => Line(x) = mac[r].cached
  BY <1>2, <1>4, <1>6, <1>7, <1>8, RecvLine DEF Listens
<1> HIDE DEF x
<1>10. CASE acked
  <2>1. f.type = "ACK" /\ f.DA = r /\ handedUp' = handedUp
    BY <1>1, <1>10 DEF Acknowledged
  <2>2. <<r, s>> \in Hears /\ Delivered(s, mac[r], handedUp[<<r, s>>])
    BY <1>2, <2>1, AckIsDelivered DEF f
  <2> QED
    BY <1>1, <1>2, <1>5, <1>8, <1>9, <1>10, <2>1, <2>2, AcknowledgedRelease
<1>11. CASE ~acked
  <2>1. Queue' = Queue
    BY <1>2, <1>5, <1>8, <1>9, <1>11, QueueKept
  <2>2. CASE taken
    <3>1. f.DA = r /\ handedUp' = [handedUp EXCEPT ![l0] = @ \cup {f}]
      BY <1>1, <2>2 DEF ForUs
    <3>2. Queue[l0][1] = f /\ 1 \in 1 .. Len(Queue[l0])
      BY <1>2, <2>2, <3>1, TakenIsFirst DEF f
    <3> QED
      BY <1>1, <2>1, <3>1, <3>2, TakenHandUp
  <2>3. CASE ~taken
    BY <1>1, <2>1, <2>3, AbstractKept
  <2> QED
    BY <2>2, <2>3
<1> QED
  BY <1>10, <1>11

\* In the initial state nothing is kept.
LEMMA InitReliable == Init => Reliable!Init
<1> SUFFICES ASSUME Init PROVE Reliable!Init
  OBVIOUS
<1>1. PICK g \in [Node -> UnsetSlotnum] : mac = [n \in Node |-> NewMac(g[n])]
  BY DEF Init
<1>2. submitted = [l \in Hears |-> <<>>] /\ handedUp = [l \in Hears |-> {}]
  BY DEF Init
<1>3. \A r : For(r, <<>>) = <<>>
  <2> SUFFICES ASSUME NEW r PROVE For(r, <<>>) = <<>>
    OBVIOUS
  <2>1. {i \in DOMAIN <<>> : <<>>[i].DA = r} = {}
    OBVIOUS
  <2>2. Pick(<<>>, {}) \in Seq(Frame) /\ Len(Pick(<<>>, {})) = Cardinality({})
    <3>1. <<>> \in Seq(Frame) /\ {} \subseteq DOMAIN <<>>
      OBVIOUS
    <3> QED
      BY <3>1, PickFacts
  <2>3. Pick(<<>>, {}) = <<>>
    BY <2>2, FS_EmptySet, EmptySeq
  <2> QED
    BY <2>1, <2>3 DEF For
<1>4. ASSUME NEW l \in Hears PROVE Waiting(l[1], l[2]) = <<>>
  <2>1. mac[l[1]].backup = <<>> /\ mac[l[1]].sending = <<>> /\ mac[l[1]].cached = <<>>
    BY <1>1, MediumAssumption DEF NewMac
  <2>2. <<>> \o <<>> \o <<>> = <<>>
    OBVIOUS
  <2> QED
    BY <1>3, <2>1, <2>2 DEF Waiting
<1> QED
  BY <1>2, <1>4 DEF Reliable!Init

\* A step that drops no packet is a step of the reliable links, or changes nothing there.
LEMMA NextReliable ==
  MaxBurst = 1 =>
    (IInv /\ HistoryOK /\ JInv /\ [Next]_vars => [Reliable!Next]_(Reliable!vars))
<1> SUFFICES ASSUME MaxBurst = 1, IInv, HistoryOK, JInv, [Next]_vars
             PROVE  [Reliable!Next]_(Reliable!vars)
  OBVIOUS
<1>1. ASSUME NEW n \in Node, Submit(n) PROVE [Reliable!Next]_(Reliable!vars)
  BY <1>1, SubmitReliable
<1>2. ASSUME NEW n \in Node, StatusHandler(n) PROVE UNCHANGED Reliable!vars
  BY <1>2, StatusHandlerReliable
<1>3. ASSUME NEW n \in Node, WaitSendTimer(n) PROVE UNCHANGED Reliable!vars
  BY <1>3, WaitSendTimerReliable
<1>4. ASSUME NEW n \in Node, WaitReplyTimer(n) PROVE UNCHANGED Reliable!vars
  BY <1>4, WaitReplyTimerReliable
<1>5. ASSUME NEW n \in Node, BackoffTimer(n) PROVE UNCHANGED Reliable!vars
  BY <1>5, BackoffTimerReliable
<1>6. ASSUME NEW n \in Node, DataSendTimer(n) PROVE UNCHANGED Reliable!vars
  BY <1>6, DataSendTimerReliable
<1>7. ASSUME NEW l \in Hears, Arrive(l[1], l[2]) PROVE UNCHANGED Reliable!vars
  BY <1>7, HearsPairs, ArriveReliable
<1>8. ASSUME NEW l \in Hears, Recv(l[1], l[2]) PROVE [Reliable!Next]_(Reliable!vars)
  BY <1>8, HearsPairs, RecvReliable
<1>9. CASE Boundary
  BY <1>9, BoundaryReliable
<1>10. CASE UNCHANGED vars
  BY <1>10 DEF vars, Reliable!vars, Waiting
<1> QED
  BY <1>1, <1>2, <1>3, <1>4, <1>5, <1>6, <1>7, <1>8, <1>9, <1>10 DEF Next
----------------------------------------------------------------------------
(* The theorems *)

\* The parts of IInv hold together in every reachable state of every network.
THEOREM Invariance == Spec => []IInv
  BY InitIInv, NextIInv, PTL DEF Spec

\* Every field of a node keeps its type: no timer runs below zero, and no frame
\* or flag of a step outlives it.
THEOREM TypeCorrect == Spec => []TypeOK
<1>1. IInv => TypeOK
  <2> SUFFICES ASSUME IInv PROVE TypeOK
    OBVIOUS
  <2>1. ASSUME NEW n \in Node
        PROVE  /\ mac[n].radio \in RadioState(Node)
               /\ mac[n].status \in SFAMA_Status
               /\ \A t \in {"waitSend", "waitReply", "backoff"} : mac[n][t] \in Nat \cup {Off}
               /\ mac[n].dataSend \in BOOLEAN /\ mac[n].statusEvent \in BOOLEAN
               /\ mac[n].onAir \in {"nothing", "control", "data"}
               /\ mac[n].train \in Nat /\ mac[n].slotnum \in Nat
               /\ mac[n].out = NoFrame /\ mac[n].busy = "nothing"
    <3>1. Good(mac[n], Senders(n), Blocked(n)) /\ Fresh(mac[n]) /\ Senders(n) \subseteq Node
          /\ Audible(Senders(n))
      BY NodeFacts, SendersAudible
    <3>2. Good(mac[n], Node, Blocked(n))
      BY <3>1, MoreSenders
    <3>3. mac[n] \in State(Node)
      BY <3>2 DEF Good, Core
    <3> QED
      BY <3>1, <3>3 DEF State, Timer, Fresh
  <2> QED
    BY <2>1 DEF TypeOK, IInv, RestOK, Kinds
<1> QED
  BY <1>1, Invariance, PTL

\* Slotted FAMA never forgets a queued packet by having neither a timer nor an
\* event pending, however frames, timers and packets from above interleave,
\* unless an RTS, CTS or ACK met a busy radio.
THEOREM StallCorrect == Spec => []StallNeedsBusyRadio
<1>1. IInv => StallNeedsBusyRadio
  <2> SUFFICES ASSUME IInv, NEW n \in Node,
                      mac[n].backup \o mac[n].sending \o mac[n].cached # <<>>,
                      mac[n].waitSend = Off, mac[n].waitReply = Off, mac[n].backoff = Off,
                      ~(mac[n].dataSend \/ mac[n].statusEvent)
               PROVE  Blocked(n)
    BY DEF StallNeedsBusyRadio, Blocked
  <2>1. Good(mac[n], Senders(n), Blocked(n)) /\ Fresh(mac[n])
    BY NodeFacts
  <2>2. ~Pending(mac[n])
    BY DEF Pending
  <2>3. Engaged(mac[n])
    <3> SUFFICES ASSUME mac[n].backup = <<>>, mac[n].sending = <<>>, mac[n].cached = <<>>
                 PROVE  FALSE
      BY DEF Engaged
    <3>1. <<>> \o <<>> \o <<>> = <<>>
      OBVIOUS
    <3> QED
      BY <3>1
  <2> QED
    BY <2>1, <2>2, <2>3 DEF Good, Fresh
<1> QED
  BY <1>1, Invariance, PTL

\* With trains of one packet every RTS, CTS, packet and ACK, sent or still to be sent,
\* belongs to an exchange that both ends agree on, unless a packet met a busy radio.
THEOREM HandshakesHold == MaxBurst = 1 => (Spec => []Handshakes)
<1>1. Init => Handshakes
  BY InitIInv, InitJInv DEF Handshakes
<1>2. MaxBurst = 1 => (Handshakes /\ [Next]_vars => Handshakes')
  BY NextHandshakes
<1> SUFFICES ASSUME MaxBurst = 1 PROVE Spec => []Handshakes
  OBVIOUS
<1>3. Handshakes /\ [Next]_vars => Handshakes'
  BY <1>2
<1> QED
  BY <1>1, <1>3, PTL DEF Spec

\* With trains of one packet, as long as no packet meets a busy radio, status_event is
\* never scheduled while it is pending, whatever handshakes run into each other: no
\* train ends after its node has moved on.
THEOREM SingleNeverAborted == MaxBurst = 1 => (Spec => [](NoDataDropped => NeverAborted))
<1> SUFFICES ASSUME MaxBurst = 1 PROVE Spec => [](NoDataDropped => NeverAborted)
  OBVIOUS
<1>1. Handshakes => (NoDataDropped => NeverAborted)
  BY DEF Handshakes, JInv, NeverAborted
<1>2. Spec => []Handshakes
  BY HandshakesHold
<1> QED
  BY <1>1, <1>2, PTL

\* With trains of one packet, as long as no packet meets a busy radio, Slotted FAMA
\* implements reliable links: through lost answers, repeated packets and three queues
\* no packet is lost, doubled or overtaken, and it goes only after its receiver has it.
THEOREM SingleIsReliable == MaxBurst = 1 => (Spec /\ []NoDataDropped => ReliableSpec)
<1> SUFFICES ASSUME MaxBurst = 1 PROVE Spec /\ []NoDataDropped => ReliableSpec
  OBVIOUS
<1>1. Spec => []Handshakes
  BY HandshakesHold
<1>2. Handshakes /\ NoDataDropped /\ [Next]_vars => [Reliable!Next]_(Reliable!vars)
  BY NextReliable DEF Handshakes
<1> QED
  BY <1>1, <1>2, InitReliable, PTL DEF Spec, ReliableSpec, Reliable!Spec

\* What ReliableLinks promises, with the proofs of it.
Promise == INSTANCE ReliableLinks_proofs WITH
  Links <- Hears,
  Packets <- UNION {{Data(n, Traffic[n][i]) : i \in DOMAIN Traffic[n]} : n \in Node},
  LinkOf <- LinkOf,
  queue <- [l \in Hears |-> Waiting(l[1], l[2])],
  arrived <- handedUp

\* It is the same specification.
LEMMA ReliableIsPromise == ReliableSpec => Promise!Spec
<1>1. Reliable!Init <=> Promise!Init
  BY DEF Reliable!Init, Promise!Init
<1>2. [Reliable!Next]_(Reliable!vars) <=> [Promise!Next]_(Promise!vars)
  BY DEF Reliable!Next, Promise!Next, Reliable!vars, Promise!vars, Reliable!Submit, Promise!Submit,
         Reliable!HandUp, Promise!HandUp, Reliable!Release, Promise!Release
<1> QED
  BY <1>1, <1>2, PTL DEF ReliableSpec, Reliable!Spec, Promise!Spec

\* So no packet is lost: of those handed down for a neighbour the node keeps the youngest,
\* in their order, and its neighbour has handed up all the others.
THEOREM SingleNothingLost == MaxBurst = 1 => (Spec /\ []NoDataDropped => []Reliable!NothingLost)
<1> SUFFICES ASSUME MaxBurst = 1 PROVE Spec /\ []NoDataDropped => []Reliable!NothingLost
  OBVIOUS
<1>1. Spec /\ []NoDataDropped => ReliableSpec
  BY SingleIsReliable
<1>2. Promise!Spec => []Promise!NothingLost
  BY Promise!SpecNothingLost
<1>3. Reliable!NothingLost <=> Promise!NothingLost
  BY DEF Reliable!NothingLost, Promise!NothingLost, Reliable!Gone, Promise!Gone
<1> QED
  BY <1>1, <1>2, <1>3, ReliableIsPromise, PTL

\* What node n has released went over one of its links, whose other end handed it up.
ReleasedFrom(n) ==
  \A k \in released[n] : \E l \in Hears : l[1] = n /\ \E p \in handedUp[l] : p.no = k

ReleasedOK ==
  /\ released = [n \in Node |-> released[n]]
  /\ \A n \in Node : ReleasedFrom(n)

\* What was handed up stays so.
LEMMA HandedUpGrows ==
  ASSUME HistoryOK, [Next]_vars PROVE \A l \in Hears : handedUp[l] \subseteq handedUp'[l]
<1>1. \/ handedUp' = handedUp
      \/ \E l, f : handedUp' = [handedUp EXCEPT ![l] = @ \cup {f}]
  BY DEF Next, vars, Submit, StatusHandler, WaitSendTimer, WaitReplyTimer, BackoffTimer,
         DataSendTimer, Arrive, Recv, Boundary
<1> QED
  BY <1>1 DEF HistoryOK

\* An ACK releases the one packet of the train, which its sender has handed up.
LEMMA RecvReleases ==
  ASSUME MaxBurst = 1, IInv, HistoryOK, JInv, NEW s, NEW r, <<s, r>> \in Hears, Recv(s, r)
  PROVE  \/ released' = released
         \/ /\ s \in Node /\ r \in Node /\ <<r, s>> \in Hears
            /\ \E p \in handedUp[<<r, s>>] : released' = [released EXCEPT ![r] = @ \cup {p.no}]
<1> DEFINE f == Head(link[<<s, r>>])
           m == Listener(s, r)
           acked == f.type = "ACK" /\ Acknowledged(m, r, f)
<1>1. /\ Settled /\ Heard(mac[r].radio, s)
      /\ released' = IF acked THEN [released EXCEPT ![r] = @ \cup {p.no : p \in ToSet(m.sending)}]
                     ELSE released
  BY DEF Recv, Listener
<1>2. /\ s \in Node /\ r \in Node /\ link[<<s, r>>] # <<>>
      /\ Stamped(s, f) /\ Listens(m)
  BY <1>1, ListenerFacts
<1>3. mac[r] \in State(Senders(r))
  BY <1>2, ActorFacts
<1>4. m.backup = mac[r].backup /\ m.sending = mac[r].sending
  BY <1>3 DEF Listener, State
<1> HIDE DEF f, m
<1> SUFFICES ASSUME acked
             PROVE  /\ <<r, s>> \in Hears
                    /\ \E p \in handedUp[<<r, s>>] : released' = [released EXCEPT ![r] = @ \cup {p.no}]
  BY <1>1, <1>2
<1>5. <<r, s>> \in Hears /\ Delivered(s, mac[r], handedUp[<<r, s>>])
  BY <1>2, AckIsDelivered DEF f, Acknowledged
<1>6. PICK p \in handedUp[<<r, s>>] : TrainOf(mac[r]) = <<p>>
  BY <1>5 DEF Delivered
<1>7. m.sending = <<p>>
  BY <1>2, <1>4, <1>6 DEF Listens, TrainOf
<1>8. {q.no : q \in ToSet(m.sending)} = {p.no}
  <2>1. ToSet(<<p>>) = {p}
    BY DEF ToSet
  <2> QED
    BY <1>7, <2>1
<1>9. released' = [released EXCEPT ![r] = @ \cup {p.no}]
  BY <1>1, <1>8
<1> QED
  BY <1>5, <1>9

\* Every step keeps it so.
LEMMA NextReleasedOK ==
  MaxBurst = 1 => (ReleasedOK /\ Handshakes /\ NoDataDropped /\ [Next]_vars => ReleasedOK')
<1> SUFFICES ASSUME MaxBurst = 1, ReleasedOK, Handshakes, NoDataDropped, [Next]_vars
             PROVE  ReleasedOK'
  OBVIOUS
<1>1. IInv /\ HistoryOK /\ JInv
  BY DEF Handshakes
<1>2. \A l \in Hears : handedUp[l] \subseteq handedUp'[l]
  BY <1>1, HandedUpGrows
<1>3. CASE released' = released
  BY <1>2, <1>3 DEF ReleasedOK, ReleasedFrom
<1>4. ASSUME NEW r \in Node, NEW s \in Node, <<r, s>> \in Hears, NEW p \in handedUp[<<r, s>>],
             released' = [released EXCEPT ![r] = @ \cup {p.no}]
      PROVE  ReleasedOK'
  <2>1. released' = [n \in Node |-> released'[n]]
    BY <1>4 DEF ReleasedOK
  <2>2. ASSUME NEW n \in Node, NEW k \in released'[n]
        PROVE  \E l \in Hears : l[1] = n /\ \E q \in handedUp'[l] : q.no = k
    <3>1. CASE k \in released[n]
      BY <1>2, <3>1 DEF ReleasedOK, ReleasedFrom
    <3>2. CASE k \notin released[n]
      <4>1. n = r /\ k = p.no
        BY <1>4, <2>2, <3>2 DEF ReleasedOK
      <4>2. p \in handedUp'[<<r, s>>] /\ <<r, s>>[1] = r
        BY <1>2, <1>4
      <4> QED
        BY <1>4, <4>1, <4>2
    <3> QED
      BY <3>1, <3>2
  <2> QED
    BY <2>1, <2>2 DEF ReleasedOK, ReleasedFrom
<1>5. CASE \E l \in Hears : Recv(l[1], l[2])
  <2>1. PICK l \in Hears : Recv(l[1], l[2])
    BY <1>5
  <2>2. <<l[1], l[2]>> \in Hears
    BY HearsPairs
  <2> DEFINE s == l[1]
             r == l[2]
  <2>3. <<s, r>> \in Hears /\ Recv(s, r)
    BY <2>1, <2>2
  <2> HIDE DEF s, r
  <2>4. CASE /\ s \in Node /\ r \in Node /\ <<r, s>> \in Hears
             /\ \E p \in handedUp[<<r, s>>] : released' = [released EXCEPT ![r] = @ \cup {p.no}]
    BY <1>4, <2>4
  <2> QED
    BY <1>1, <1>3, <2>3, <2>4, RecvReleases
<1>6. CASE ~\E l \in Hears : Recv(l[1], l[2])
  <2>1. released' = released
    BY <1>6 DEF Next, vars, Submit, StatusHandler, WaitSendTimer, WaitReplyTimer, BackoffTimer,
                DataSendTimer, Arrive, Boundary
  <2> QED
    BY <1>3, <2>1
<1> QED
  BY <1>5, <1>6

\* The packets of a node have different numbers, as those of one generator do.
Numbered ==
  \A n \in Node : \A i, j \in DOMAIN Traffic[n] :
     Traffic[n][i].no = Traffic[n][j].no => Traffic[n][i] = Traffic[n][j]

\* A packet on a link is the one of its number, wherever its node's packets go.
LEMMA SameNumber ==
  ASSUME Numbered, Promise!Typed, Promise!Placed,
         NEW l \in Hears, NEW p \in ToSet(submitted[l]), NEW k \in Hears, k[1] = l[1],
         NEW q \in handedUp[k], q.no = p.no
  PROVE  p \in handedUp[l]
<1> DEFINE P == UNION {{Data(n, Traffic[n][i]) : i \in DOMAIN Traffic[n]} : n \in Node}
<1>1. submitted[l] \in Seq(P) /\ handedUp[k] \subseteq P
  BY DEF Promise!Typed
<1>2. PICK j \in DOMAIN submitted[l] : p = submitted[l][j]
  BY DEF ToSet
<1>3. p \in P /\ q \in P /\ LinkOf(p) = l /\ LinkOf(q) = k
  <2>1. p \in P /\ q \in P
    BY <1>1, <1>2
  <2>2. LinkOf(p) = l /\ LinkOf(q) = k
    BY <1>2 DEF Promise!Placed
  <2> QED
    BY <2>1, <2>2
<1>4. PICK n \in Node : \E i \in DOMAIN Traffic[n] : p = Data(n, Traffic[n][i])
  BY <1>3
<1>5. PICK m \in Node : \E h \in DOMAIN Traffic[m] : q = Data(m, Traffic[m][h])
  BY <1>3
<1>6. l[1] = n /\ k[1] = m
  BY <1>3, <1>4, <1>5 DEF LinkOf, Data
<1>7. PICK i \in DOMAIN Traffic[n] : p = Data(n, Traffic[n][i])
  BY <1>4
<1>8. PICK h \in DOMAIN Traffic[n] : q = Data(n, Traffic[n][h])
  BY <1>5, <1>6
<1>9. Traffic[n][i].no = Traffic[n][h].no
  BY <1>7, <1>8 DEF Data
<1>10. p = q
  BY <1>7, <1>8, <1>9 DEF Numbered
<1> QED
  BY <1>3, <1>10

\* With trains of one packet what a node releases was received, as long as no packet
\* meets a busy radio: the fault that run sfama_burst shows needs longer trains.
THEOREM SingleReleasedWasReceived ==
  MaxBurst = 1 /\ Numbered => (Spec /\ []NoDataDropped => []ReleasedWasReceived)
<1> SUFFICES ASSUME MaxBurst = 1, Numbered
             PROVE  Spec /\ []NoDataDropped => []ReleasedWasReceived
  OBVIOUS
<1>1. Spec => []Handshakes
  BY HandshakesHold
<1>2. Init => ReleasedOK
  BY DEF Init, ReleasedOK, ReleasedFrom
<1>3. ReleasedOK /\ Handshakes /\ NoDataDropped /\ [Next]_vars => ReleasedOK'
  BY NextReleasedOK
<1>4. Spec /\ []NoDataDropped => ReliableSpec
  BY SingleIsReliable
<1>5. Promise!Spec => [](Promise!Typed /\ Promise!Placed)
  BY Promise!SpecPlaced
<1>6. ReleasedOK /\ Promise!Typed /\ Promise!Placed => ReleasedWasReceived
  <2> SUFFICES ASSUME ReleasedOK, Promise!Typed, Promise!Placed,
                      NEW l \in Hears, NEW p \in ToSet(submitted[l]), p.no \in released[l[1]]
               PROVE  p \in handedUp[l]
    BY DEF ReleasedWasReceived
  <2>1. PICK k \in Hears : k[1] = l[1] /\ \E q \in handedUp[k] : q.no = p.no
    <3>1. l[1] \in Node
      BY MediumAssumption
    <3> QED
      BY <3>1 DEF ReleasedOK, ReleasedFrom
  <2> QED
    BY <2>1, SameNumber
<1> QED
  BY <1>1, <1>2, <1>3, <1>4, <1>5, <1>6, ReliableIsPromise, PTL DEF Spec
=============================================================================
