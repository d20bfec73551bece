--------------------------- MODULE UWALOHA_proofs ---------------------------
(***************************************************************************)
(* Proofs about UWALOHA for every network, traffic, set of acknowledging   *)
(* nodes and bound.  Good is the part of the invariant that concerns one   *)
(* node; every operator of UWALOHA keeps it, from a state that lacks at    *)
(* most what the operator is called to restore.  The links tie the nodes   *)
(* together.                                                               *)
(***************************************************************************)
EXTENDS UWALOHA, Radio_proofs, SequenceTheorems, WellFoundedInduction

Received == [Node -> SUBSET (Node \X Nat)]

DataOf(n) == [type : {"DATA"}, SA : {n}, DA : Node \cup {Broadcast}, no : Nat]

\* An acknowledgement of n for what n has received, given who received what.
AckOf(n, H) ==
  {f \in [type : {"ACK"}, SA : {n}, DA : Node, no : Nat] : <<f.DA, f.no>> \in H[n]}

\* An element of the table of n that is marked only if the target received it.
ElemOf(n, H) ==
  {e \in [target : Node, pkt : Nat, acked : BOOLEAN, retries : Nat] :
     e.acked => <<n, e.pkt>> \in H[e.target]}

BagsOf(S) == UNION {[T -> Nat \ {0}] : T \in SUBSET S}

\* The type of a node that may have data of Q to send and hear the nodes of S.
State(n, Q, S, H) ==
  [ackOn : BOOLEAN, radio : RadioState(S), status : {"PASSIVE", "BACKOFF", "WAIT_ACK"},
   bo : 0 .. MAXIMUMCOUNTER - 1, blocked : BOOLEAN, queue : Seq(Q),
   statusEvent : BOOLEAN, isAck : BOOLEAN, backoffTimer : BOOLEAN, waitTimer : BOOLEAN,
   retry : BagsOf(AckOf(n, H)), table : Seq(ElemOf(n, H)), out : Q \cup AckOf(n, H) \cup {NoFrame},
   crash : {"none", "empty queue", "idle timer"}, stuck : SUBSET {"DATA", "ACK"}]

Ascending(q) == \A i, j \in DOMAIN q : i <= j => q[i].no <= q[j].no

\* Nothing that is still queued is older than the data that goes out.
OldestFirst(m) ==
  /\ Ascending(m.queue)
  /\ m.out.type = "DATA" => \A i \in DOMAIN m.queue : m.out.no <= m.queue[i].no

\* The status of the radio, the end of the transmission, the ACK timer and
\* the flags agree, whatever has been blocked.
Control(m) ==
  /\ Trans(m) \in {"IDLE", "SEND", "RECV"}
  /\ Trans(m) = "SEND" <=> m.statusEvent
  /\ Trans(m) = "RECV" <=> Active(m.radio.chan) # {}
  /\ m.waitTimer => m.queue # <<>> /\ Head(m.queue).DA # Broadcast /\ m.ackOn
  /\ m.status = "WAIT_ACK" => m.waitTimer
  /\ m.blocked => m.statusEvent
  /\ m.statusEvent /\ ~m.blocked => m.isAck /\ m.ackOn

Core(n, m, Q, S, H) == m \in State(n, Q, S, H) /\ RadioInv(S, m.radio) /\ OldestFirst(m) /\ Control(m)

\* The timers and the status agree, until an ACK is blocked.
InStep(m, b) ==
  "ACK" \notin b =>
    /\ m.waitTimer <=> m.status = "WAIT_ACK"
    /\ m.backoffTimer <=> m.status = "BACKOFF"
    /\ m.backoffTimer => m.queue # <<>>

\* Queued data has something to go on with, until a frame is blocked.
GoesOn(m, b) == b = {} /\ m.queue # <<>> => m.blocked \/ m.backoffTimer \/ m.waitTimer

\* b is what of n has ever met a busy radio.
Good(n, m, Q, S, H, b) ==
  /\ Core(n, m, Q, S, H)
  /\ InStep(m, b \cup m.stuck)
  /\ GoesOn(m, b \cup m.stuck)
  /\ m.crash # "none" => "ACK" \in b \cup m.stuck

\* Between two steps.
Fresh(m) == m.out = NoFrame /\ m.stuck = {} /\ m.crash = "none"

\* Ready for sendDataPkt.
Ready(m, b) == "ACK" \notin b => ~m.waitTimer /\ ~m.backoffTimer /\ m.queue # <<>>
----------------------------------------------------------------------------
(* Frames, bags and sequences *)

\* An address is a natural number, and broadcast is nobody's.
LEMMA Addresses == Node \subseteq Nat /\ Broadcast \notin Node
  BY UWALOHAAssumption

\* The nodes are finitely many and have powers.
LEMMA NodesAudible == Audible(Node)
  BY MediumAssumption DEF Audible

\* The bound of bo_counter.
LEMMA Bound == MAXIMUMCOUNTER = 3
  BY DEF MAXIMUMCOUNTER

\* What n queues is data of its own.
LEMMA DataFacts ==
  ASSUME NEW n \in Node, NEW f \in DataOf(n)
  PROVE  /\ f.type = "DATA" /\ f.SA = n /\ f.no \in Nat
         /\ f.DA \in Node \cup {Broadcast} /\ f # NoFrame
BY DEF DataOf, NoFrame

\* What n acknowledges it has received.
LEMMA AckFacts ==
  ASSUME NEW n \in Node, NEW H, NEW f \in AckOf(n, H)
  PROVE  /\ f.type = "ACK" /\ f.SA = n /\ f.no \in Nat /\ f.DA \in Node
         /\ <<f.DA, f.no>> \in H[n] /\ f # NoFrame
BY DEF AckOf, NoFrame

\* A bag over S: a function from some of S to positive counts.
LEMMA BagMember ==
  ASSUME NEW S, NEW b
  PROVE  b \in BagsOf(S) <=> (DOMAIN b \subseteq S /\ b \in [DOMAIN b -> Nat \ {0}])
  BY DEF BagsOf

\* One copy more is still a bag over the same set.
LEMMA AddToBag ==
  ASSUME NEW S, NEW b \in BagsOf(S), NEW p \in S
  PROVE  b (+) SetToBag({p}) \in BagsOf(S)
<1> DEFINE c == b (+) SetToBag({p})
<1>1. b \in [DOMAIN b -> Nat \ {0}] /\ DOMAIN b \subseteq S
  BY BagMember
<1>2. c = [e \in DOMAIN b \cup {p} |->
             (IF e \in DOMAIN b THEN b[e] ELSE 0) + (IF e \in {p} THEN 1 ELSE 0)]
  BY DEF (+), SetToBag
<1> HIDE DEF c
<1>3. DOMAIN c = DOMAIN b \cup {p} /\ \A e \in DOMAIN c : c[e] \in Nat \ {0}
  BY <1>1, <1>2
<1>4. c \in [DOMAIN c -> Nat \ {0}]
  BY <1>2, <1>3
<1> QED
  BY <1>1, <1>3, <1>4, BagMember DEF c

\* So is what is left when copies are taken away.
LEMMA TakeFromBag ==
  ASSUME NEW S, NEW b \in BagsOf(S), NEW T
  PROVE  b (-) SetToBag(T) \in BagsOf(S)
<1> DEFINE d == [e \in DOMAIN b |-> IF e \in T THEN b[e] - 1 ELSE b[e]]
           c == b (-) SetToBag(T)
<1>1. b \in [DOMAIN b -> Nat \ {0}] /\ DOMAIN b \subseteq S
  BY BagMember
<1>2. c = [e \in {x \in DOMAIN d : d[x] > 0} |-> d[e]]
  BY DEF (-), SetToBag
<1>3. DOMAIN c \subseteq DOMAIN b /\ \A e \in DOMAIN c : c[e] \in Nat \ {0}
  BY <1>1, <1>2
<1>4. c \in [DOMAIN c -> Nat \ {0}]
  <2> HIDE DEF d, c
  <2> QED
    BY <1>2, <1>3
<1> QED
  BY <1>1, <1>3, <1>4, BagMember

\* Without its head a queue in order is in order, and its head is the oldest.
LEMMA AscendingTail ==
  ASSUME NEW S, NEW q \in Seq(S), q # <<>>, \A x \in S : x.no \in Nat, Ascending(q)
  PROVE  /\ Tail(q) \in Seq(S) /\ Head(q) \in S /\ Ascending(Tail(q))
         /\ \A i \in DOMAIN q : Head(q).no <= q[i].no
         /\ \A i \in DOMAIN Tail(q) : Head(q).no <= Tail(q)[i].no
         /\ \A i \in DOMAIN Tail(q) : i + 1 \in DOMAIN q /\ Tail(q)[i] = q[i + 1]
<1>1. /\ Head(q) \in S /\ Tail(q) \in Seq(S) /\ Len(Tail(q)) = Len(q) - 1
      /\ \A i \in 1 .. Len(Tail(q)) : Tail(q)[i] = q[i + 1]
  BY HeadTailProperties
<1>2. Len(q) \in Nat \ {0} /\ DOMAIN q = 1 .. Len(q) /\ DOMAIN Tail(q) = 1 .. Len(q) - 1
  BY <1>1, EmptySeq, LenProperties
<1>3. Head(q) = q[1] /\ 1 \in DOMAIN q
  BY <1>2
<1>4. \A i \in DOMAIN Tail(q) : i \in Nat /\ i + 1 \in DOMAIN q /\ Tail(q)[i] = q[i + 1]
  BY <1>1, <1>2
<1>5. \A i \in DOMAIN q : Head(q).no <= q[i].no
  BY <1>2, <1>3 DEF Ascending
<1>6. Ascending(Tail(q))
  BY <1>4 DEF Ascending
<1>7. \A i \in DOMAIN Tail(q) : Head(q).no <= Tail(q)[i].no
  BY <1>4, <1>5
<1> QED
  BY <1>1, <1>4, <1>5, <1>6, <1>7

\* A queue in order stays so when nothing newer is in front of what is appended.
LEMMA AscendingAppend ==
  ASSUME NEW S, NEW q \in Seq(S), NEW x \in S, Ascending(q), \A y \in S : y.no \in Nat,
         \A i \in DOMAIN q : q[i].no <= x.no
  PROVE  /\ Append(q, x) \in Seq(S) /\ Append(q, x) # <<>> /\ Len(Append(q, x)) = Len(q) + 1
         /\ Ascending(Append(q, x))
         /\ \A i \in DOMAIN Append(q, x) : Append(q, x)[i] = x \/
                                           (i \in DOMAIN q /\ Append(q, x)[i] = q[i])
         /\ q # <<>> => Head(Append(q, x)) = Head(q)
<1> DEFINE a == Append(q, x)
<1>1. /\ a \in Seq(S) /\ a # <<>> /\ Len(a) = Len(q) + 1
      /\ \A i \in 1 .. Len(q) : a[i] = q[i]
      /\ a[Len(q) + 1] = x
  BY AppendProperties
<1>2. Len(q) \in Nat /\ DOMAIN q = 1 .. Len(q) /\ DOMAIN a = 1 .. Len(q) + 1
  BY <1>1, LenProperties
<1>3. q # <<>> => Head(a) = Head(q)
  BY HeadTailAppend
<1> HIDE DEF a
<1>4. \A i \in DOMAIN a : i \in 1 .. Len(q) \/ i = Len(q) + 1
  BY <1>2
<1>5. \A i \in DOMAIN q : q[i] \in S
  BY <1>2, ElementOfSeq
<1>6. ASSUME NEW i \in DOMAIN a, NEW j \in DOMAIN a, i <= j
      PROVE  a[i].no <= a[j].no
  <2>1. CASE j \in 1 .. Len(q)
    <3>1. i \in 1 .. Len(q)
      BY <1>2, <1>6, <2>1
    <3> QED
      BY <1>1, <1>2, <1>6, <2>1, <3>1 DEF Ascending
  <2>2. CASE j = Len(q) + 1
    <3>1. a[j] = x
      BY <1>1, <2>2
    <3>2. a[i].no <= x.no
      BY <1>1, <1>2, <1>4
    <3> QED
      BY <3>1, <3>2
  <2> QED
    BY <1>4, <2>1, <2>2
<1>7. Ascending(a)
  BY <1>6 DEF Ascending
<1>8. \A i \in DOMAIN a : a[i] = x \/ (i \in DOMAIN q /\ a[i] = q[i])
  BY <1>1, <1>2, <1>4
<1> QED
  BY <1>1, <1>3, <1>7, <1>8 DEF a
----------------------------------------------------------------------------
(* Chanl_Status_Table *)

\* Some natural number of a non-empty set is its least.
LEMMA MinOfNaturals ==
  ASSUME NEW T, T \subseteq Nat, T # {}
  PROVE  Min(T) \in T
<1> DEFINE R == OpToRel(<, Nat)
<1>1. R = {ss \in Nat \X Nat : ss[1] < ss[2]}
  BY DEF OpToRel
<1>2. IsWellFoundedOn(R, Nat)
  BY NatLessThanWellFounded
<1> HIDE DEF R
<1>3. PICK x \in T : \A y \in T : ~(<<y, x>> \in R)
  BY <1>2, WFMin
<1>4. \A y \in T : x <= y
  <2> SUFFICES ASSUME NEW y \in T, y < x PROVE FALSE
    OBVIOUS
  <2>1. <<y, x>> \in Nat \X Nat
    OBVIOUS
  <2>2. <<y, x>> \in R
    BY <1>1, <2>1
  <2> QED
    BY <1>3, <2>2
<1> QED
  BY <1>4 DEF Min

\* find_elem returns an element of the table with that key, or none.
LEMMA FindElemFacts ==
  ASSUME NEW S, NEW t \in Seq(S), NEW e
  PROVE  \/ Matches(t, e) = {} /\ find_elem(t, e) = Elem(-1, -1)
         \/ /\ Min(Matches(t, e)) \in 1 .. Len(t)
            /\ find_elem(t, e) = t[Min(Matches(t, e))]
            /\ find_elem(t, e) \in S /\ SameKey(find_elem(t, e), e)
<1>1. CASE Matches(t, e) = {}
  BY <1>1 DEF find_elem
<1>2. CASE Matches(t, e) # {}
  <2>1. DOMAIN t = 1 .. Len(t) /\ Len(t) \in Nat
    BY LenProperties
  <2>2. Matches(t, e) \subseteq DOMAIN t /\ Matches(t, e) \subseteq Nat
    BY <2>1 DEF Matches
  <2>3. Min(Matches(t, e)) \in Matches(t, e)
    BY <1>2, <2>2, MinOfNaturals
  <2>4. find_elem(t, e) = t[Min(Matches(t, e))]
    BY <1>2 DEF find_elem
  <2>5. SameKey(find_elem(t, e), e)
    BY <2>3, <2>4 DEF Matches
  <2> QED
    BY <2>1, <2>2, <2>3, <2>4, <2>5, ElementOfSeq
<1> QED
  BY <1>1, <1>2

\* A transmission is booked: nothing becomes acknowledged by it.
LEMMA PutIntoTableType ==
  ASSUME NEW n \in Node, NEW H, NEW t \in Seq(ElemOf(n, H)), NEW d \in Node, NEW k \in Nat
  PROVE  put_into_table(t, Elem(d, k)) \in Seq(ElemOf(n, H))
<1> DEFINE e == Elem(d, k)
           sts == find_elem(t, e)
           i == Min(Matches(t, e))
<1>1. e \in ElemOf(n, H)
  BY DEF Elem, ElemOf
<1>2. CASE ~(sts.target > 0)
  BY <1>1, <1>2, AppendProperties DEF put_into_table
<1>3. CASE sts.target > 0
  <2>1. sts # Elem(-1, -1)
    BY <1>3 DEF Elem
  <2>2. i \in 1 .. Len(t) /\ sts \in ElemOf(n, H)
    BY <2>1, FindElemFacts
  <2>3. [sts EXCEPT !.retries = @ + 1] \in ElemOf(n, H)
    BY <2>2 DEF ElemOf
  <2>4. put_into_table(t, e) = [t EXCEPT ![i] = [sts EXCEPT !.retries = @ + 1]]
    BY <1>3 DEF put_into_table, Update
  <2> HIDE DEF sts, i
  <2> QED
    BY <2>2, <2>3, <2>4, ExceptSeq
<1> QED
  BY <1>2, <1>3

\* An acknowledgement is booked on the packet it names, which d has received.
LEMMA AckElemType ==
  ASSUME NEW n \in Node, NEW H, NEW t \in Seq(ElemOf(n, H)), NEW d \in Node, NEW k \in Nat,
         <<n, k>> \in H[d]
  PROVE  ack_elem(t, Elem(d, k)) \in Seq(ElemOf(n, H))
<1> DEFINE e == Elem(d, k)
           sts == find_elem(t, e)
           i == Min(Matches(t, e))
<1>1. CASE ~(sts.pkt > 0)
  BY <1>1 DEF ack_elem
<1>2. CASE sts.pkt > 0
  <2>1. sts # Elem(-1, -1)
    BY <1>2 DEF Elem
  <2>2. i \in 1 .. Len(t) /\ sts \in ElemOf(n, H) /\ SameKey(sts, e)
    BY <2>1, FindElemFacts
  <2>3. sts.target = d /\ sts.pkt = k
    BY <2>2 DEF SameKey, Elem
  <2>4. [sts EXCEPT !.acked = TRUE] \in ElemOf(n, H)
    BY <2>2, <2>3 DEF ElemOf
  <2>5. ack_elem(t, e) = [t EXCEPT ![i] = [sts EXCEPT !.acked = TRUE]]
    BY <1>2 DEF ack_elem, Update
  <2> HIDE DEF sts, i
  <2> QED
    BY <2>2, <2>4, <2>5, ExceptSeq
<1> QED
  BY <1>1, <1>2
----------------------------------------------------------------------------
(* Sending *)

\* The transmission status changes, and the channel does not.
LEMMA SetTransFacts ==
  ASSUME NEW n \in Node, NEW Q, NEW S, Audible(S), NEW H, NEW m \in State(n, Q, S, H),
         RadioInv(S, m.radio),
         NEW t \in {"IDLE", "SEND"}
  PROVE  /\ SetTrans(m, t) = [m EXCEPT !.radio = [m.radio EXCEPT !.trans = t]]
         /\ SetTrans(m, t) \in State(n, Q, S, H)
         /\ RadioInv(S, SetTrans(m, t).radio)
         /\ SetTrans(m, t).radio \in RadioState(S)
         /\ SetTrans(m, t).radio.trans = t
         /\ SetTrans(m, t).radio.chan = m.radio.chan
<1> DEFINE r == [m.radio EXCEPT !.trans = t]
<1>1. m.radio \in RadioState(S)
  BY DEF State
<1>2. RadioInv(S, r) /\ r.chan = m.radio.chan
  BY SetStatusFacts
<1>3. r \in RadioState(S) /\ r.trans = t
  BY <1>1, <1>2 DEF RadioInv, RadioState
<1> HIDE DEF r
<1>4. SetTrans(m, t) = [m EXCEPT !.radio = r]
  BY DEF SetTrans, r
<1> QED
  BY <1>2, <1>3, <1>4 DEF State, r

\* Data departs: it waits for its acknowledgement or leaves the queue.
LEMMA SendDataNowGood ==
  ASSUME NEW n \in Node, NEW Q, Q \subseteq DataOf(n), NEW S, Audible(S), NEW H, NEW b, NEW m,
         Core(n, m, Q, S, H), Fresh(m), Ready(m, b), Trans(m) = "IDLE", m.queue # <<>>
  PROVE  Good(n, SendNow(m, Head(m.queue)), Q, S, H, b)
<1> DEFINE f == Head(m.queue)
           r == SetTrans(m, "SEND").radio
           res == SendNow(m, f)
<1>1. /\ m \in State(n, Q, S, H) /\ m.queue \in Seq(Q) /\ m.table \in Seq(ElemOf(n, H))
      /\ RadioInv(S, m.radio) /\ Ascending(m.queue)
  BY DEF Core, State, OldestFirst
<1>2. \A x \in Q : x \in DataOf(n) /\ x.no \in Nat
  BY DataFacts
<1>3. /\ f \in Q /\ Tail(m.queue) \in Seq(Q) /\ Ascending(Tail(m.queue))
      /\ \A i \in DOMAIN m.queue : f.no <= m.queue[i].no
      /\ \A i \in DOMAIN Tail(m.queue) : f.no <= Tail(m.queue)[i].no
  BY <1>1, <1>2, AscendingTail
<1>4. f.type = "DATA" /\ f.no \in Nat /\ f.DA \in Node \cup {Broadcast}
  BY <1>2, <1>3, DataFacts
<1>5. /\ r \in RadioState(S) /\ RadioInv(S, r) /\ r.trans = "SEND" /\ r.chan = m.radio.chan
  <2>1. m \in State(n, Q, S, H) /\ RadioInv(S, m.radio)
    BY <1>1
  <2> HIDE DEF f, res
  <2> QED
    BY <2>1, SetTransFacts
<1>6. Active(r.chan) = {}
  BY <1>5 DEF Core, Control
<1> HIDE DEF f, r
<1>7. CASE f.DA # Broadcast /\ m.ackOn
  <2> DEFINE t == put_into_table(m.table, Elem(f.DA, f.no))
  <2>1. t \in Seq(ElemOf(n, H))
    BY <1>1, <1>4, <1>7, PutIntoTableType
  <2>2. res = [m EXCEPT !.radio = r, !.status = "WAIT_ACK", !.waitTimer = TRUE, !.isAck = FALSE,
                        !.table = t, !.out = f, !.blocked = TRUE, !.statusEvent = TRUE]
    BY <1>1, <1>4, <1>7 DEF SendNow, Departing, SetTrans, State, r
  <2> HIDE DEF t, res
  <2>3. res \in State(n, Q, S, H)
    BY <1>1, <1>3, <1>5, <2>1, <2>2 DEF State
  <2>a. /\ res.radio = r /\ res.status = "WAIT_ACK" /\ res.waitTimer = TRUE /\ res.out = f
        /\ res.blocked = TRUE /\ res.statusEvent = TRUE /\ res.queue = m.queue
        /\ res.ackOn = m.ackOn
    BY <1>1, <2>2 DEF State
  <2>b. OldestFirst(res)
    BY <1>1, <1>3, <2>a DEF OldestFirst
  <2>c. Control(res)
    BY <1>5, <1>6, <1>7, <2>a DEF Control, Trans, f
  <2>4. Core(n, res, Q, S, H)
    BY <1>5, <2>3, <2>a, <2>b, <2>c DEF Core
  <2>5. InStep(res, b \cup res.stuck) /\ GoesOn(res, b \cup res.stuck) /\ res.crash = "none"
    BY <1>1, <2>2 DEF InStep, GoesOn, Ready, Fresh, State
  <2> QED
    BY <2>4, <2>5 DEF Good, res, f
<1>8. CASE ~(f.DA # Broadcast /\ m.ackOn)
  <2>1. res = [m EXCEPT !.radio = r, !.queue = Tail(m.queue), !.status = "PASSIVE", !.out = f,
                        !.blocked = TRUE, !.statusEvent = TRUE]
    BY <1>1, <1>4, <1>8 DEF SendNow, Departing, SetTrans, State, r
  <2>2. ~m.waitTimer
    BY <1>8 DEF Core, Control, f
  <2> HIDE DEF res
  <2>3. res \in State(n, Q, S, H)
    BY <1>1, <1>3, <1>5, <2>1 DEF State
  <2>a. /\ res.radio = r /\ res.status = "PASSIVE" /\ res.waitTimer = m.waitTimer /\ res.out = f
        /\ res.blocked = TRUE /\ res.statusEvent = TRUE /\ res.queue = Tail(m.queue)
    BY <1>1, <2>1 DEF State
  <2>b. OldestFirst(res)
    BY <1>3, <2>a DEF OldestFirst
  <2>c. Control(res)
    BY <1>5, <1>6, <2>2, <2>a DEF Control, Trans
  <2>4. Core(n, res, Q, S, H)
    BY <1>5, <2>3, <2>a, <2>b, <2>c DEF Core
  <2>5. InStep(res, b \cup res.stuck) /\ GoesOn(res, b \cup res.stuck) /\ res.crash = "none"
    BY <1>1, <2>1, <2>2 DEF InStep, GoesOn, Ready, Fresh, State
  <2> QED
    BY <2>4, <2>5 DEF Good, res, f
<1> QED
  BY <1>7, <1>8 DEF f

\* A frame that met a busy radio leaves its node passive; only an ACK has a retry timer.
LEMMA SendLaterGood ==
  ASSUME NEW n \in Node, NEW Q, Q \subseteq DataOf(n), NEW S, Audible(S), NEW H, NEW b, NEW m,
         Core(n, m, Q, S, H), Fresh(m),
         NEW f, (f \in DataOf(n) /\ Ready(m, b)) \/ f \in AckOf(n, H)
  PROVE  Good(n, SendLater(m, f), Q, S, H, b)
<1> DEFINE res == SendLater(m, f)
           retry == IF f.type = "ACK" THEN m.retry (+) SetToBag({f}) ELSE m.retry
<1>1. m \in State(n, Q, S, H) /\ m.retry \in BagsOf(AckOf(n, H))
  BY DEF Core, State
<1>a. f \in DataOf(n) => f.type = "DATA"
  BY DataFacts
<1>b. f \in AckOf(n, H) => f.type = "ACK"
  BY AckFacts
<1>2. \/ f.type = "DATA" /\ f \in DataOf(n) /\ Ready(m, b)
      \/ f.type = "ACK" /\ f \in AckOf(n, H)
  BY <1>a, <1>b
<1>3. retry \in BagsOf(AckOf(n, H))
  BY <1>1, <1>2, AddToBag
<1>4. res = [m EXCEPT !.retry = retry, !.status = "PASSIVE", !.stuck = {f.type}]
  BY <1>1 DEF SendLater, retryACK, State
<1> HIDE DEF res, retry
<1>5. res \in State(n, Q, S, H)
  BY <1>1, <1>2, <1>3, <1>4 DEF State
<1>6. Core(n, res, Q, S, H)
  BY <1>1, <1>4, <1>5 DEF Core, Control, OldestFirst, Trans, State
<1>7. InStep(res, b \cup res.stuck) /\ GoesOn(res, b \cup res.stuck) /\ res.crash = "none"
  BY <1>1, <1>2, <1>4 DEF InStep, GoesOn, Ready, Fresh, State
<1> QED
  BY <1>6, <1>7 DEF Good, res

\* The radio of a node of UWALOHA is never switched off.
LEMMA SendPktCases ==
  ASSUME NEW m, Control(m), NEW f
  PROVE  \/ Trans(m) = "IDLE" /\ sendPkt(m, f) = SendNow(m, f)
         \/ sendPkt(m, f) = SendLater(m, f)
BY DEF Control, sendPkt

\* An acknowledgement is sent, put off or blocked.
LEMMA SendAckGood ==
  ASSUME NEW n \in Node, NEW Q, Q \subseteq DataOf(n), NEW S, Audible(S), NEW H, NEW b, NEW m,
         Good(n, m, Q, S, H, b), Fresh(m), NEW f \in AckOf(n, H)
  PROVE  Good(n, sendPkt(m, f), Q, S, H, b)
<1> DEFINE r == SetTrans(m, "SEND").radio
           res == SendNow(m, f)
<1>1. Core(n, m, Q, S, H) /\ Control(m) /\ m \in State(n, Q, S, H) /\ RadioInv(S, m.radio)
  BY DEF Good, Core
<1>2. CASE sendPkt(m, f) = SendLater(m, f)
  BY <1>1, <1>2, SendLaterGood
<1>3. CASE Trans(m) = "IDLE" /\ sendPkt(m, f) = SendNow(m, f)
  <2>1. /\ r \in RadioState(S) /\ RadioInv(S, r) /\ r.trans = "SEND" /\ r.chan = m.radio.chan
    BY <1>1, SetTransFacts
  <2>2. f.type = "ACK"
    BY AckFacts
  <2> HIDE DEF r
  <2>3. res = [m EXCEPT !.radio = r, !.isAck = TRUE, !.out = f, !.blocked = TRUE, !.statusEvent = TRUE]
    BY <1>1, <2>2 DEF SendNow, SetTrans, State, r
  <2> HIDE DEF res
  <2>4. res \in State(n, Q, S, H)
    BY <1>1, <2>1, <2>3 DEF State
  <2>a. /\ res.radio = r /\ res.isAck = TRUE /\ res.out = f /\ res.blocked = TRUE
        /\ res.statusEvent = TRUE /\ res.queue = m.queue /\ res.waitTimer = m.waitTimer
        /\ res.status = m.status /\ res.ackOn = m.ackOn
    BY <1>1, <2>3 DEF State
  <2>b. OldestFirst(res)
    BY <1>1, <2>2, <2>a DEF Core, OldestFirst
  <2>c. Control(res)
    BY <1>1, <1>3, <2>1, <2>a DEF Control, Trans
  <2>5. Core(n, res, Q, S, H)
    BY <2>1, <2>4, <2>a, <2>b, <2>c DEF Core
  <2>6. InStep(res, b \cup res.stuck) /\ GoesOn(res, b \cup res.stuck) /\ res.crash = "none"
    BY <1>1, <2>3 DEF Good, InStep, GoesOn, Fresh, State
  <2> QED
    BY <1>3, <2>5, <2>6 DEF Good, res
<1> QED
  BY <1>1, <1>2, <1>3, SendPktCases

\* Only an ACK that was blocked can have led here with an empty queue.
LEMMA SendDataPktGood ==
  ASSUME NEW n \in Node, NEW Q, Q \subseteq DataOf(n), NEW S, Audible(S), NEW H, NEW b, NEW m,
         Core(n, m, Q, S, H), Fresh(m), Ready(m, b), NEW sends \in BOOLEAN
  PROVE  Good(n, sendDataPkt(m, sends), Q, S, H, b)
<1>1. m \in State(n, Q, S, H) /\ m.queue \in Seq(Q) /\ Control(m)
  BY DEF Core, State
<1>2. CASE m.queue = <<>>
  <2> DEFINE res == Crash(m, "empty queue")
  <2>1. res = [m EXCEPT !.crash = "empty queue"]
    BY DEF Crash
  <2> HIDE DEF res
  <2>2. res \in State(n, Q, S, H)
    BY <1>1, <2>1 DEF State
  <2>3. /\ res.radio = m.radio /\ res.status = m.status /\ res.waitTimer = m.waitTimer
        /\ res.queue = m.queue /\ res.blocked = m.blocked /\ res.statusEvent = m.statusEvent
        /\ res.isAck = m.isAck /\ res.ackOn = m.ackOn /\ res.out = m.out /\ res.stuck = m.stuck
    BY <1>1, <2>1 DEF State
  <2>4. Core(n, res, Q, S, H)
    BY <2>2, <2>3 DEF Core, OldestFirst, Control, Trans
  <2>5. "ACK" \in b
    BY <1>2 DEF Ready
  <2>6. Good(n, res, Q, S, H, b)
    BY <2>4, <2>5 DEF Good, InStep, GoesOn
  <2> QED
    BY <1>2, <2>6 DEF sendDataPkt, res
<1>3. CASE m.queue # <<>> /\ sends
  <2>1. Head(m.queue) \in Q
    BY <1>1, <1>3, HeadTailProperties
  <2>2. Good(n, sendPkt(m, Head(m.queue)), Q, S, H, b)
    BY <1>1, <1>3, <2>1, SendPktCases, SendDataNowGood, SendLaterGood
  <2> QED
    BY <1>3, <2>2 DEF sendDataPkt
<1>4. CASE m.queue # <<>> /\ ~sends
  <2> DEFINE res == [m EXCEPT !.status = "BACKOFF", !.backoffTimer = TRUE]
  <2>1. res \in State(n, Q, S, H)
    BY <1>1 DEF State
  <2>2. /\ res.radio = m.radio /\ res.status = "BACKOFF" /\ res.waitTimer = m.waitTimer
        /\ res.queue = m.queue /\ res.blocked = m.blocked /\ res.statusEvent = m.statusEvent
        /\ res.isAck = m.isAck /\ res.ackOn = m.ackOn /\ res.out = m.out /\ res.stuck = m.stuck
        /\ res.backoffTimer = TRUE /\ res.crash = m.crash
    BY <1>1 DEF State
  <2> HIDE DEF res
  <2>3. Core(n, res, Q, S, H)
    BY <2>1, <2>2 DEF Core, OldestFirst, Control, Trans
  <2>4. InStep(res, b) /\ GoesOn(res, b) /\ res.stuck = {} /\ res.crash = "none"
    BY <1>4, <2>2 DEF InStep, GoesOn, Ready, Fresh
  <2>5. Good(n, res, Q, S, H, b)
    BY <2>3, <2>4 DEF Good
  <2> QED
    BY <1>4, <2>5 DEF sendDataPkt, res
<1> QED
  BY <1>2, <1>3, <1>4

\* A passive node with a queue sends or backs off.
LEMMA ProcessPassiveGood ==
  ASSUME NEW n \in Node, NEW Q, Q \subseteq DataOf(n), NEW S, Audible(S), NEW H, NEW b, NEW m,
         Core(n, m, Q, S, H), Fresh(m), InStep(m, b), NEW sends \in BOOLEAN
  PROVE  Good(n, processPassive(m, sends), Q, S, H, b)
<1>1. CASE m.status = "PASSIVE" /\ ~m.blocked /\ m.queue # <<>>
  <2>1. Ready(m, b)
    BY <1>1 DEF Ready, InStep, Core, State
  <2> QED
    BY <1>1, <2>1, SendDataPktGood DEF processPassive
<1>2. CASE ~(m.status = "PASSIVE" /\ ~m.blocked /\ m.queue # <<>>)
  <2>1. m.status \in {"PASSIVE", "BACKOFF", "WAIT_ACK"} /\ m.stuck = {} /\ m.crash = "none"
    BY DEF Core, State, Fresh
  <2>2. GoesOn(m, b)
    BY <1>2, <2>1 DEF GoesOn, InStep
  <2>3. b \cup m.stuck = b
    BY <2>1
  <2> QED
    BY <1>2, <2>1, <2>2, <2>3 DEF processPassive, Good
<1> QED
  BY <1>1, <1>2

\* WaitACKTimer: the packet is kept for a repetition or given up.
LEMMA DoBackoffGood ==
  ASSUME NEW n \in Node, NEW Q, Q \subseteq DataOf(n), NEW S, Audible(S), NEW H, NEW b, NEW m,
         Good(n, m, Q, S, H, b), Fresh(m), m.waitTimer, m.statusEvent => m.isAck,
         NEW sends \in BOOLEAN
  PROVE  Good(n, doBackoff([m EXCEPT !.waitTimer = FALSE], sends), Q, S, H, b)
<1> DEFINE late == [m EXCEPT !.waitTimer = FALSE]
<1>1. /\ m \in State(n, Q, S, H) /\ m.queue \in Seq(Q) /\ m.bo \in 0 .. MAXIMUMCOUNTER - 1
      /\ RadioInv(S, m.radio) /\ Ascending(m.queue) /\ Control(m)
      /\ b \cup m.stuck = b
  BY DEF Good, Core, State, OldestFirst, Fresh
<1>2. m.queue # <<>> /\ m.ackOn
  BY <1>1 DEF Control
<1>3. /\ late.bo = m.bo /\ late.queue = m.queue /\ late \in State(n, Q, S, H)
  BY <1>1 DEF State
<1>4. CASE m.bo + 1 < MAXIMUMCOUNTER
  <2> DEFINE res == [late EXCEPT !.bo = @ + 1, !.status = "BACKOFF", !.backoffTimer = TRUE]
  <2>1. m.bo + 1 \in 0 .. MAXIMUMCOUNTER - 1
    BY <1>1, <1>4, Bound
  <2>2. res \in State(n, Q, S, H)
    BY <1>1, <2>1 DEF State
  <2>3. /\ res.radio = m.radio /\ res.status = "BACKOFF" /\ res.waitTimer = FALSE
        /\ res.queue = m.queue /\ res.blocked = m.blocked /\ res.statusEvent = m.statusEvent
        /\ res.isAck = m.isAck /\ res.ackOn = m.ackOn /\ res.out = m.out /\ res.stuck = m.stuck
        /\ res.backoffTimer = TRUE /\ res.crash = m.crash
    BY <1>1 DEF State
  <2>4. doBackoff(late, sends) = res
    BY <1>3, <1>4 DEF doBackoff
  <2> HIDE DEF res
  <2>5. Core(n, res, Q, S, H)
    BY <1>1, <2>2, <2>3 DEF Good, Core, OldestFirst, Control, Trans
  <2>6. InStep(res, b) /\ GoesOn(res, b) /\ res.stuck = {} /\ res.crash = "none"
    BY <1>2, <2>3 DEF InStep, GoesOn, Fresh
  <2> QED
    BY <1>1, <2>3, <2>4, <2>5, <2>6 DEF Good
<1>5. CASE ~(m.bo + 1 < MAXIMUMCOUNTER)
  <2> DEFINE res == [late EXCEPT !.bo = 0, !.queue = Tail(@), !.status = "PASSIVE",
                                 !.blocked = FALSE]
  <2>1. Tail(m.queue) \in Seq(Q) /\ Ascending(Tail(m.queue))
    BY <1>1, <1>2, DataFacts, AscendingTail
  <2>2. 0 \in 0 .. MAXIMUMCOUNTER - 1
    BY Bound
  <2>3. res \in State(n, Q, S, H)
    BY <1>1, <2>1, <2>2 DEF State
  <2>4. /\ res.radio = m.radio /\ res.status = "PASSIVE" /\ res.waitTimer = FALSE
        /\ res.queue = Tail(m.queue) /\ res.blocked = FALSE /\ res.statusEvent = m.statusEvent
        /\ res.isAck = m.isAck /\ res.ackOn = m.ackOn /\ res.out = m.out /\ res.stuck = m.stuck
        /\ res.backoffTimer = m.backoffTimer /\ res.crash = m.crash
    BY <1>1 DEF State
  <2>5. doBackoff(late, sends) = processPassive(res, sends)
    BY <1>2, <1>3, <1>5 DEF doBackoff
  <2> HIDE DEF res
  <2>6. OldestFirst(res)
    BY <2>1, <2>4 DEF OldestFirst, Fresh, NoFrame
  <2>7. Control(res)
    BY <1>1, <1>2, <2>4 DEF Control, Trans
  <2>8. Core(n, res, Q, S, H)
    BY <1>1, <2>3, <2>4, <2>6, <2>7 DEF Core
  <2>9. InStep(m, b)
    BY <1>1 DEF Good
  <2>10. InStep(res, b) /\ Fresh(res)
    BY <1>1, <2>4, <2>9 DEF InStep, Fresh
  <2> QED
    BY <2>5, <2>8, <2>10, ProcessPassiveGood
<1> QED
  BY <1>4, <1>5

\* A packet from the routing layer goes to the end of the queue.
LEMMA TxProcessGood ==
  ASSUME NEW n \in Node, NEW Q, Q \subseteq DataOf(n), NEW S, Audible(S), NEW H, NEW b, NEW m,
         Good(n, m, Q, S, H, b), Fresh(m), NEW f \in Q,
         \A i \in DOMAIN m.queue : m.queue[i].no <= f.no, NEW sends \in BOOLEAN
  PROVE  Good(n, TxProcess(m, f, sends), Q, S, H, b)
<1> DEFINE q == [m EXCEPT !.queue = Append(m.queue, f)]
<1>1. /\ m \in State(n, Q, S, H) /\ m.queue \in Seq(Q)
      /\ RadioInv(S, m.radio) /\ Ascending(m.queue) /\ Control(m)
      /\ b \cup m.stuck = b /\ m.status \in {"PASSIVE", "BACKOFF", "WAIT_ACK"}
  BY DEF Good, Core, State, OldestFirst, Fresh
<1>2. /\ Append(m.queue, f) \in Seq(Q) /\ Append(m.queue, f) # <<>>
      /\ Len(Append(m.queue, f)) = Len(m.queue) + 1 /\ Ascending(Append(m.queue, f))
      /\ m.queue # <<>> => Head(Append(m.queue, f)) = Head(m.queue)
  BY <1>1, DataFacts, AscendingAppend
<1>3. q \in State(n, Q, S, H)
  BY <1>1, <1>2 DEF State
<1>4. /\ q.radio = m.radio /\ q.status = m.status /\ q.waitTimer = m.waitTimer
      /\ q.queue = Append(m.queue, f) /\ q.blocked = m.blocked /\ q.statusEvent = m.statusEvent
      /\ q.isAck = m.isAck /\ q.ackOn = m.ackOn /\ q.out = m.out /\ q.stuck = m.stuck
      /\ q.backoffTimer = m.backoffTimer /\ q.crash = m.crash
  BY <1>1 DEF State
<1>5. TxProcess(m, f, sends) = IF q.status = "PASSIVE" /\ Len(q.queue) = 1 /\ ~q.blocked
                                 THEN sendDataPkt(q, sends) ELSE q
  BY DEF TxProcess
<1> HIDE DEF q
<1>6. OldestFirst(q)
  BY <1>2, <1>4 DEF OldestFirst, Fresh, NoFrame
<1>7. Control(q)
  BY <1>1, <1>2, <1>4 DEF Control, Trans
<1>8. Core(n, q, Q, S, H) /\ Fresh(q)
  BY <1>1, <1>3, <1>4, <1>6, <1>7 DEF Core, Fresh
<1>9. InStep(m, b) /\ GoesOn(m, b)
  BY <1>1 DEF Good
<1>10. CASE q.status = "PASSIVE" /\ Len(q.queue) = 1 /\ ~q.blocked
  <2>1. Ready(q, b)
    BY <1>2, <1>4, <1>9, <1>10 DEF Ready, InStep
  <2> QED
    BY <1>5, <1>8, <1>10, <2>1, SendDataPktGood
<1>11. CASE ~(q.status = "PASSIVE" /\ Len(q.queue) = 1 /\ ~q.blocked)
  <2>1. InStep(q, b)
    BY <1>2, <1>4, <1>9 DEF InStep
  <2>2. GoesOn(q, b)
    <3>1. CASE m.queue = <<>>
      <4>1. Len(q.queue) = 1
        BY <1>2, <1>4, <3>1, EmptySeq
      <4> QED
        BY <1>1, <1>4, <1>9, <1>11, <4>1 DEF GoesOn, InStep
    <3>2. CASE m.queue # <<>>
      BY <1>4, <1>9, <3>2 DEF GoesOn
    <3> QED
      BY <3>1, <3>2
  <2>3. b \cup q.stuck = b /\ q.crash = "none"
    BY <1>1, <1>4 DEF Fresh
  <2> QED
    BY <1>5, <1>8, <1>11, <2>1, <2>2, <2>3 DEF Good
<1> QED
  BY <1>10, <1>11

\* The end of a transmission: a node that was blocked goes on.
LEMMA StatusProcessGood ==
  ASSUME NEW n \in Node, NEW Q, Q \subseteq DataOf(n), NEW S, Audible(S), NEW H, NEW b, NEW m,
         Good(n, m, Q, S, H, b), Fresh(m), m.statusEvent, NEW sends \in BOOLEAN
  PROVE  Good(n, StatusProcess(m, sends), Q, S, H, b)
<1> DEFINE r == SetTrans(m, "IDLE").radio
           i == [m EXCEPT !.radio = r, !.statusEvent = FALSE]
           u == [i EXCEPT !.blocked = FALSE]
<1>1. /\ m \in State(n, Q, S, H) /\ RadioInv(S, m.radio) /\ Control(m)
      /\ b \cup m.stuck = b /\ InStep(m, b) /\ GoesOn(m, b)
      /\ OldestFirst(m) /\ m.crash = "none"
  BY DEF Good, Core, Fresh
<1>2. /\ r \in RadioState(S) /\ RadioInv(S, r) /\ r.trans = "IDLE" /\ r.chan = m.radio.chan
  BY <1>1, SetTransFacts
<1>3. Active(r.chan) = {}
  BY <1>1, <1>2 DEF Control
<1>4. [SetTrans(m, "IDLE") EXCEPT !.statusEvent = FALSE] = i
  BY <1>1 DEF SetTrans, State
<1> HIDE DEF r
<1>5. /\ i \in State(n, Q, S, H) /\ i.blocked = m.blocked /\ i.ackOn = m.ackOn /\ i.isAck = m.isAck
      /\ u \in State(n, Q, S, H)
  BY <1>1, <1>2 DEF State
<1>6. /\ i.radio = r /\ i.status = m.status /\ i.waitTimer = m.waitTimer
      /\ i.queue = m.queue /\ i.statusEvent = FALSE /\ i.out = m.out /\ i.stuck = m.stuck
      /\ i.backoffTimer = m.backoffTimer /\ i.crash = m.crash
  BY <1>1 DEF State
<1>7. /\ u.radio = r /\ u.status = m.status /\ u.waitTimer = m.waitTimer
      /\ u.queue = m.queue /\ u.statusEvent = FALSE /\ u.out = m.out /\ u.stuck = m.stuck
      /\ u.backoffTimer = m.backoffTimer /\ u.crash = m.crash /\ u.blocked = FALSE
      /\ u.ackOn = m.ackOn
  BY <1>1 DEF State
<1>8. CASE m.blocked
  <2>1. StatusProcess(m, sends) = processPassive(u, sends)
    BY <1>4, <1>5, <1>8 DEF StatusProcess
  <2> HIDE DEF i, u
  <2>2. Core(n, u, Q, S, H)
    BY <1>1, <1>2, <1>3, <1>5, <1>7 DEF Core, Control, OldestFirst, Trans
  <2>3. InStep(u, b) /\ Fresh(u)
    BY <1>1, <1>7 DEF InStep, Fresh
  <2> QED
    BY <2>1, <2>2, <2>3, ProcessPassiveGood
<1>9. CASE ~m.blocked
  <2>1. m.isAck /\ m.ackOn
    BY <1>1, <1>9 DEF Control
  <2>2. StatusProcess(m, sends) = i
    BY <1>4, <1>5, <1>9, <2>1 DEF StatusProcess
  <2> HIDE DEF i, u
  <2>3. Core(n, i, Q, S, H)
    BY <1>1, <1>2, <1>3, <1>5, <1>6, <1>9 DEF Core, Control, OldestFirst, Trans
  <2>4. InStep(i, b) /\ GoesOn(i, b) /\ b \cup i.stuck = b /\ i.crash = "none"
    BY <1>1, <1>5, <1>6 DEF InStep, GoesOn
  <2> QED
    BY <2>2, <2>3, <2>4 DEF Good
<1> QED
  BY <1>8, <1>9
----------------------------------------------------------------------------
(* Receiving *)

\* A change of the reception channel that keeps RECV in step with it.
LEMMA RadioOnly ==
  ASSUME NEW n \in Node, NEW Q, NEW S, NEW T, NEW H, NEW b, NEW m, Good(n, m, Q, S, H, b),
         Fresh(m), NEW r, RadioInv(T, r), r.trans \in {"IDLE", "SEND", "RECV"},
         r.trans = "SEND" <=> Trans(m) = "SEND",
         r.trans = "RECV" <=> Active(r.chan) # {}
  PROVE  Good(n, [m EXCEPT !.radio = r], Q, T, H, b) /\ Fresh([m EXCEPT !.radio = r])
<1> DEFINE res == [m EXCEPT !.radio = r]
<1>1. /\ m \in State(n, Q, S, H) /\ Control(m) /\ OldestFirst(m) /\ InStep(m, b \cup m.stuck)
      /\ GoesOn(m, b \cup m.stuck) /\ r \in RadioState(T)
  BY DEF Good, Core, RadioInv
<1>2. res \in State(n, Q, T, H)
  BY <1>1 DEF State
<1>3. /\ res.radio = r /\ res.status = m.status /\ res.waitTimer = m.waitTimer
      /\ res.queue = m.queue /\ res.blocked = m.blocked /\ res.statusEvent = m.statusEvent
      /\ res.isAck = m.isAck /\ res.ackOn = m.ackOn /\ res.out = m.out /\ res.stuck = m.stuck
      /\ res.backoffTimer = m.backoffTimer /\ res.crash = m.crash
  BY <1>1 DEF State
<1> HIDE DEF res
<1>4. Control(res)
  BY <1>1, <1>3 DEF Control, Trans
<1>5. Core(n, res, Q, T, H)
  BY <1>1, <1>2, <1>3, <1>4 DEF Core, OldestFirst
<1>6. InStep(res, b \cup res.stuck) /\ GoesOn(res, b \cup res.stuck) /\ res.crash = "none"
  BY <1>1, <1>3 DEF InStep, GoesOn, Fresh
<1>7. Good(n, res, Q, T, H, b) /\ Fresh(res)
  BY <1>3, <1>5, <1>6 DEF Good, Fresh
<1> QED
  BY <1>7 DEF res

\* The head of a frame of s.
LEMMA RecvUpGood ==
  ASSUME NEW n \in Node, NEW Q, NEW S, Audible(S), NEW H, NEW b, NEW m, Good(n, m, Q, S, H, b),
         Fresh(m), ~DeafRadio(m.radio), NEW s \in S, ~Heard(m.radio, s)
  PROVE  Good(n, [m EXCEPT !.radio = RecvUp(@, s)], Q, S, H, b)
         /\ Fresh([m EXCEPT !.radio = RecvUp(@, s)])
<1>1. RadioInv(S, m.radio) /\ Control(m)
  BY DEF Good, Core
<1>2. /\ RadioInv(S, RecvUp(m.radio, s))
      /\ Active(RecvUp(m.radio, s).chan) = Active(m.radio.chan) \cup {s}
  BY <1>1, RecvUpFacts DEF Heard
<1>3. RecvUp(m.radio, s).trans = "RECV" /\ Trans(m) # "SEND"
  BY DEF RecvUp, DeafRadio, Trans
<1> QED
  BY <1>2, <1>3, RadioOnly

\* The end of a frame of s, as far as the radio is concerned.
LEMMA EndedGood ==
  ASSUME NEW n \in Node, NEW Q, NEW S, Audible(S), NEW H, NEW b, NEW m, Good(n, m, Q, S, H, b),
         Fresh(m), NEW s, Heard(m.radio, s)
  PROVE  Good(n, [m EXCEPT !.radio = Ended(@, s)], Q, S \ {s}, H, b)
         /\ Fresh([m EXCEPT !.radio = Ended(@, s)])
<1> DEFINE r == Ended(m.radio, s)
<1>1. RadioInv(S, m.radio) /\ Control(m) /\ s \in Active(m.radio.chan)
  BY DEF Good, Core, Heard
<1>2. /\ RadioInv(S, r) /\ Active(r.chan) = Active(m.radio.chan) \ {s}
      /\ r.trans = IF m.radio.trans = "RECV" /\ Active(m.radio.chan) = {s}
                     THEN "IDLE" ELSE m.radio.trans
  <2>1. Ended(m.radio, s) = ResetCarrierSense(EndReception(m.radio, s))
    BY DEF Ended
  <2> HIDE DEF Active
  <2> QED
    BY <1>1, <2>1, EndReceptionFacts
<1> HIDE DEF r
<1>3. m.radio.trans = "RECV"
  BY <1>1 DEF Control, Trans
<1>4. r.trans \in {"IDLE", "RECV"} /\ (r.trans = "RECV" <=> Active(r.chan) # {})
  BY <1>1, <1>2, <1>3
<1>5. Active(r.chan) \subseteq S \ {s}
  <2>1. r.chan \in ChannelState(S)
    BY <1>2 DEF RadioInv, RadioState
  <2> QED
    BY <1>2, <2>1, ActiveIsFinite
<1>6. RadioInv(S \ {s}, r)
  BY <1>2, <1>5, RadioInvNarrow
<1>7. Good(n, [m EXCEPT !.radio = r], Q, S \ {s}, H, b) /\ Fresh([m EXCEPT !.radio = r])
  BY <1>3, <1>4, <1>6, RadioOnly DEF Trans
<1> QED
  BY <1>7 DEF r

\* An acknowledgement completes what waits and is booked on what it names.
LEMMA RecvAckGood ==
  ASSUME NEW n \in Node, NEW Q, Q \subseteq DataOf(n), NEW S, Audible(S), NEW H, NEW b, NEW m,
         Good(n, m, Q, S, H, b), Fresh(m), NEW f, f.SA \in Node, f.no \in Nat,
         <<n, f.no>> \in H[f.SA], NEW sends \in BOOLEAN
  PROVE  Good(n, RecvAck(m, f, sends), Q, S, H, b)
<1> DEFINE done == [m EXCEPT !.waitTimer = FALSE, !.bo = 0, !.queue = Tail(@), !.status = "PASSIVE"]
           p == processPassive(done, sends)
           t == ack_elem(p.table, Elem(f.SA, f.no))
           res == [p EXCEPT !.table = ack_elem(@, Elem(f.SA, f.no))]
<1>1. /\ m \in State(n, Q, S, H) /\ m.queue \in Seq(Q) /\ RadioInv(S, m.radio) /\ Control(m)
      /\ Ascending(m.queue) /\ b \cup m.stuck = b /\ InStep(m, b)
  BY DEF Good, Core, Fresh, State, OldestFirst
<1>2. CASE m.status # "WAIT_ACK"
  BY <1>2 DEF RecvAck
<1>3. CASE m.status = "WAIT_ACK"
  <2>1. m.waitTimer /\ m.queue # <<>> /\ m.ackOn
    BY <1>1, <1>3 DEF Control
  <2>2. Tail(m.queue) \in Seq(Q) /\ Ascending(Tail(m.queue))
    BY <1>1, <2>1, DataFacts, AscendingTail
  <2>3. 0 \in 0 .. MAXIMUMCOUNTER - 1
    BY Bound
  <2>4. done \in State(n, Q, S, H)
    BY <1>1, <2>2, <2>3 DEF State
  <2>5. /\ done.radio = m.radio /\ done.status = "PASSIVE" /\ done.waitTimer = FALSE
        /\ done.queue = Tail(m.queue) /\ done.blocked = m.blocked
        /\ done.statusEvent = m.statusEvent /\ done.isAck = m.isAck /\ done.ackOn = m.ackOn
        /\ done.out = m.out /\ done.stuck = m.stuck /\ done.backoffTimer = m.backoffTimer
        /\ done.crash = m.crash
    BY <1>1 DEF State
  <2>6. RecvAck(m, f, sends) = res
    BY <1>3, <2>1 DEF RecvAck
  <2> HIDE DEF done
  <2>7. Core(n, done, Q, S, H)
    BY <1>1, <2>2, <2>4, <2>5 DEF Core, Control, OldestFirst, Trans, Fresh, NoFrame
  <2>8. InStep(done, b) /\ Fresh(done)
    BY <1>1, <1>3, <2>5 DEF InStep, Fresh
  <2>9. Good(n, p, Q, S, H, b)
    BY <2>7, <2>8, ProcessPassiveGood
  <2> HIDE DEF p
  <2>10. p \in State(n, Q, S, H) /\ p.table \in Seq(ElemOf(n, H))
    BY <2>9 DEF Good, Core, State
  <2>11. t \in Seq(ElemOf(n, H)) /\ res = [p EXCEPT !.table = t]
    BY <2>10, AckElemType
  <2> HIDE DEF t, res
  <2>12. res \in State(n, Q, S, H)
    BY <2>10, <2>11 DEF State
  <2>13. /\ res.radio = p.radio /\ res.status = p.status /\ res.waitTimer = p.waitTimer
         /\ res.queue = p.queue /\ res.blocked = p.blocked /\ res.statusEvent = p.statusEvent
         /\ res.isAck = p.isAck /\ res.ackOn = p.ackOn /\ res.out = p.out /\ res.stuck = p.stuck
         /\ res.backoffTimer = p.backoffTimer /\ res.crash = p.crash
    BY <2>10, <2>11 DEF State
  <2>14. Core(n, res, Q, S, H)
    BY <2>9, <2>12, <2>13 DEF Good, Core, Control, OldestFirst, Trans
  <2>15. Good(n, res, Q, S, H, b)
    BY <2>9, <2>13, <2>14 DEF Good, InStep, GoesOn
  <2> QED
    BY <2>6, <2>15
<1> QED
  BY <1>2, <1>3

\* Data that this node forwards is acknowledged; H records it already.
LEMMA RecvDataGood ==
  ASSUME NEW n \in Node, NEW Q, Q \subseteq DataOf(n), NEW S, Audible(S), NEW H, NEW b, NEW m,
         Good(n, m, Q, S, H, b), Fresh(m), NEW f, f.SA \in Node, f.no \in Nat,
         <<f.SA, f.no>> \in H[n], NEW sends \in BOOLEAN
  PROVE  Good(n, RecvData(m, n, f, sends), Q, S, H, b)
<1>1. CASE <<f.SA, n>> \in Forward
  <2> DEFINE a == Ack(n, f.SA, f.no)
             p == sendPkt(m, a)
             res == [p EXCEPT !.bo = 0]
  <2>1. a \in AckOf(n, H)
    BY DEF AckOf, Ack
  <2> HIDE DEF a
  <2>2. Good(n, p, Q, S, H, b)
    BY <2>1, SendAckGood
  <2>3. RecvData(m, n, f, sends) = res
    BY <1>1 DEF RecvData, replyACK, a
  <2> HIDE DEF p
  <2>4. p \in State(n, Q, S, H) /\ 0 \in 0 .. MAXIMUMCOUNTER - 1
    BY <2>2, Bound DEF Good, Core
  <2>5. res \in State(n, Q, S, H)
    BY <2>4 DEF State
  <2>6. /\ res.radio = p.radio /\ res.status = p.status /\ res.waitTimer = p.waitTimer
        /\ res.queue = p.queue /\ res.blocked = p.blocked /\ res.statusEvent = p.statusEvent
        /\ res.isAck = p.isAck /\ res.ackOn = p.ackOn /\ res.out = p.out /\ res.stuck = p.stuck
        /\ res.backoffTimer = p.backoffTimer /\ res.crash = p.crash
    BY <2>4 DEF State
  <2> HIDE DEF res
  <2>7. Core(n, res, Q, S, H)
    BY <2>2, <2>5, <2>6 DEF Good, Core, Control, OldestFirst, Trans
  <2>8. Good(n, res, Q, S, H, b)
    BY <2>2, <2>6, <2>7 DEF Good, InStep, GoesOn
  <2> QED
    BY <2>3, <2>8
<1>2. CASE <<f.SA, n>> \notin Forward
  <2>1. Core(n, m, Q, S, H) /\ InStep(m, b)
    BY DEF Good, Fresh
  <2> QED
    BY <1>2, <2>1, ProcessPassiveGood DEF RecvData
<1> QED
  BY <1>1, <1>2
----------------------------------------------------------------------------
(* The nodes and the links together *)

Blocked(n) == {t \in {"DATA", "ACK"} : <<n, t>> \in blockedTx}

\* The nodes that may be arriving at n.
Senders(n) == {s \in Node : <<s, n>> \in Hears /\ link[<<s, n>>] # <<>>}

Frames(n, H) == DataOf(n) \cup AckOf(n, H)

\* What n has yet to send, some of it again.
ToSend(n) == Range(mac[n].queue) \cup Range(todo[n])

DataIn(q) == {f \in Range(q) : f.type = "DATA"}

Behind(X, Y) == \A x \in X, y \in Y : x.no <= y.no

InOrderOn(q) ==
  \A i, j \in DOMAIN q : i <= j /\ q[i].type = "DATA" /\ q[j].type = "DATA" => q[i].no <= q[j].no

NodesOK ==
  /\ mac = [n \in Node |-> mac[n]]
  /\ \A n \in Node : /\ Good(n, mac[n], DataOf(n), Senders(n), handedUp, Blocked(n))
                     /\ Fresh(mac[n])

LinksOK ==
  /\ link = [l \in Hears |-> link[l]]
  /\ \A l \in Hears : link[l] \in Seq(Frames(l[1], handedUp))

\* On every link: what was passed up, then what is on its way, then what is
\* queued, then what the routing layer still has.
OrderOK ==
  /\ \A n \in Node : Ascending(todo[n]) /\ Behind(Range(mac[n].queue), Range(todo[n]))
  /\ \A l \in Hears :
       /\ InOrderOn(link[l])
       /\ Behind(DataIn(link[l]), ToSend(l[1]))
       /\ \A f \in DataIn(link[l]) \cup ToSend(l[1]) : lastUp[l] <= f.no

HistoryOK ==
  /\ handedUp \in Received /\ lastUp \in [Hears -> Nat]
  /\ todo \in [Node -> Seq(Packet)]
  /\ blockedTx \subseteq Node \X {"DATA", "ACK"}
  /\ crash \in {"none", "empty queue", "idle timer"}
  /\ crash # "none" => \E n \in Node : "ACK" \in Blocked(n)

IInv == NodesOK /\ LinksOK /\ OrderOK /\ HistoryOK

\* The nodes a node hears are finitely many and have powers.
LEMMA SendersAudible == \A n \in Node : Audible(Senders(n)) /\ Senders(n) \subseteq Node
<1> SUFFICES ASSUME NEW n \in Node PROVE Audible(Senders(n)) /\ Senders(n) \subseteq Node
  OBVIOUS
<1>1. Senders(n) \subseteq Node
  BY DEF Senders
<1>2. IsFiniteSet(Senders(n))
  BY <1>1, MediumAssumption, FS_Subset
<1> QED
  BY <1>1, <1>2, MediumAssumption DEF Audible

\* More senders and more receptions, and only the data that is queued.
LEMMA GoodChange ==
  ASSUME NEW n \in Node, NEW Q, NEW P, NEW S, Audible(S), NEW T, S \subseteq T, NEW H, NEW I,
         H \in Received, I \in Received, \A k \in Node : H[k] \subseteq I[k],
         NEW b, NEW m, Good(n, m, Q, S, H, b), Range(m.queue) \subseteq P,
         m.out \in P \cup AckOf(n, H) \cup {NoFrame}
  PROVE  Good(n, m, P, T, I, b)
<1>1. /\ m \in State(n, Q, S, H) /\ m.queue \in Seq(Q) /\ m.table \in Seq(ElemOf(n, H))
      /\ m.retry \in BagsOf(AckOf(n, H)) /\ RadioInv(S, m.radio)
  BY DEF Good, Core, State
<1>2. m.queue \in Seq(P)
  BY <1>1, SeqOfRange, SeqMonotonic
<1>3. AckOf(n, H) \subseteq AckOf(n, I) /\ ElemOf(n, H) \subseteq ElemOf(n, I)
  BY DEF AckOf, ElemOf
<1>4. m.table \in Seq(ElemOf(n, I))
  BY <1>1, <1>3, SeqMonotonic
<1>5. m.retry \in BagsOf(AckOf(n, I))
  BY <1>1, <1>3, BagMember
<1>6. RadioInv(T, m.radio)
  <2>1. m.radio.chan \in ChannelState(S)
    BY <1>1 DEF RadioInv, RadioState
  <2>2. Active(m.radio.chan) \subseteq S
    BY <2>1, ActiveIsFinite
  <2> QED
    BY <1>1, <2>2, RadioInvNarrow
<1>7. m.radio \in RadioState(T)
  BY <1>6 DEF RadioInv
<1>8. m.out \in P \cup AckOf(n, I) \cup {NoFrame}
  BY <1>3
<1>9. m \in State(n, P, T, I)
  BY <1>1, <1>2, <1>4, <1>5, <1>7, <1>8 DEF State
<1> QED
  BY <1>6, <1>9 DEF Good, Core

\* What a step has sent and whether it was blocked goes into the variables.
Settle(m) == [m EXCEPT !.out = NoFrame, !.stuck = {}, !.crash = "none"]

\* Between two steps nothing is left to be sent and blocked ACKs are on record.
LEMMA Settled ==
  ASSUME NEW n \in Node, NEW Q, NEW S, NEW H, NEW b, NEW m, Good(n, m, Q, S, H, b)
  PROVE  /\ Good(n, Settle(m), Q, S, H, b \cup m.stuck)
         /\ Fresh(Settle(m)) /\ Settle(m).queue = m.queue
<1> DEFINE s == Settle(m)
<1>1. m \in State(n, Q, S, H) /\ Core(n, m, Q, S, H)
  BY DEF Good, Core
<1>2. s \in State(n, Q, S, H)
  BY <1>1 DEF State, Settle
<1>3. /\ s.radio = m.radio /\ s.status = m.status /\ s.waitTimer = m.waitTimer
      /\ s.queue = m.queue /\ s.blocked = m.blocked /\ s.statusEvent = m.statusEvent
      /\ s.isAck = m.isAck /\ s.ackOn = m.ackOn /\ s.out = NoFrame /\ s.stuck = {}
      /\ s.backoffTimer = m.backoffTimer /\ s.crash = "none"
  BY <1>1 DEF State, Settle
<1> HIDE DEF s
<1>4. Core(n, s, Q, S, H)
  BY <1>1, <1>2, <1>3 DEF Core, Control, OldestFirst, Trans, NoFrame
<1>5. b \cup m.stuck \cup s.stuck = b \cup m.stuck
  BY <1>3
<1>6. InStep(s, b \cup m.stuck) /\ GoesOn(s, b \cup m.stuck)
  BY <1>3 DEF Good, InStep, GoesOn
<1>7. Good(n, s, Q, S, H, b \cup m.stuck) /\ Fresh(s)
  BY <1>3, <1>4, <1>5, <1>6 DEF Good, Fresh
<1> QED
  BY <1>3, <1>7 DEF s

\* The oldest data of a link leaves it first.
LEMMA LinkTail ==
  ASSUME NEW F, NEW q \in Seq(F), q # <<>>, InOrderOn(q), \A f \in F : f.no \in Nat
  PROVE  /\ Tail(q) \in Seq(F) /\ InOrderOn(Tail(q)) /\ Range(Tail(q)) \subseteq Range(q)
         /\ Head(q) \in Range(q)
         /\ Head(q).type = "DATA" => \A f \in DataIn(Tail(q)) : Head(q).no <= f.no
<1>1. /\ Head(q) \in F /\ Tail(q) \in Seq(F) /\ Len(Tail(q)) = Len(q) - 1
      /\ \A i \in 1 .. Len(Tail(q)) : Tail(q)[i] = q[i + 1]
  BY HeadTailProperties
<1>2. Len(q) \in Nat \ {0} /\ DOMAIN q = 1 .. Len(q) /\ DOMAIN Tail(q) = 1 .. Len(q) - 1
  BY <1>1, EmptySeq, LenProperties
<1>3. Head(q) = q[1] /\ 1 \in DOMAIN q
  BY <1>2
<1>4. \A i \in DOMAIN Tail(q) : i \in Nat /\ i + 1 \in DOMAIN q /\ Tail(q)[i] = q[i + 1] /\ 1 <= i + 1
  BY <1>1, <1>2
<1>5. InOrderOn(Tail(q))
  BY <1>4 DEF InOrderOn
<1>6. Range(Tail(q)) \subseteq Range(q) /\ Head(q) \in Range(q)
  BY <1>3, <1>4 DEF Range
<1>7. ASSUME Head(q).type = "DATA", NEW f \in DataIn(Tail(q))
      PROVE  Head(q).no <= f.no
  <2>1. PICK i \in DOMAIN Tail(q) : f = Tail(q)[i] /\ f.type = "DATA"
    BY DEF DataIn, Range
  <2> QED
    BY <1>3, <1>4, <1>7, <2>1 DEF InOrderOn
<1> QED
  BY <1>1, <1>5, <1>6, <1>7

\* What is sent last is the newest data of the link.
LEMMA LinkAppend ==
  ASSUME NEW F, NEW q \in Seq(F), NEW x \in F, InOrderOn(q), \A f \in F : f.no \in Nat,
         x.type = "DATA" => \A f \in DataIn(q) : f.no <= x.no
  PROVE  /\ Append(q, x) \in Seq(F) /\ InOrderOn(Append(q, x))
         /\ Range(Append(q, x)) \subseteq Range(q) \cup {x}
         /\ Append(q, x) # <<>>
<1> DEFINE a == Append(q, x)
<1>1. /\ a \in Seq(F) /\ Len(a) = Len(q) + 1 /\ a # <<>>
      /\ \A i \in 1 .. Len(q) : a[i] = q[i]
      /\ a[Len(q) + 1] = x
  BY AppendProperties
<1>2. Len(q) \in Nat /\ DOMAIN q = 1 .. Len(q) /\ DOMAIN a = 1 .. Len(q) + 1
  BY <1>1, LenProperties
<1> HIDE DEF a
<1>3. \A i \in DOMAIN a : (i \in DOMAIN q /\ a[i] = q[i]) \/ (i = Len(q) + 1 /\ a[i] = x)
  <2>1. \A i \in DOMAIN a : i \in 1 .. Len(q) \/ i = Len(q) + 1
    BY <1>2
  <2> QED
    BY <1>1, <1>2, <2>1
<1>4. Range(a) \subseteq Range(q) \cup {x}
  BY <1>3 DEF Range
<1>5. ASSUME NEW i \in DOMAIN a, NEW j \in DOMAIN a, i <= j,
             a[i].type = "DATA", a[j].type = "DATA"
      PROVE  a[i].no <= a[j].no
  <2>1. CASE j = Len(q) + 1 /\ a[j] = x
    <3>1. CASE i = Len(q) + 1
      BY <1>1, <2>1, <3>1
    <3>2. CASE i \in DOMAIN q /\ a[i] = q[i]
      <4>1. a[i] \in DataIn(q)
        BY <1>5, <3>2 DEF DataIn, Range
      <4> QED
        BY <1>5, <2>1, <4>1
    <3> QED
      BY <1>3, <3>1, <3>2
  <2>2. CASE j \in DOMAIN q /\ a[j] = q[j]
    <3>1. i \in DOMAIN q /\ a[i] = q[i]
      BY <1>2, <1>3, <1>5, <2>2
    <3> QED
      BY <1>5, <2>2, <3>1 DEF InOrderOn
  <2> QED
    BY <1>3, <2>1, <2>2
<1>6. InOrderOn(a)
  BY <1>5 DEF InOrderOn
<1> QED
  BY <1>1, <1>4, <1>6 DEF a

\* Node n becomes m, having had data of Q to send, and the receptions that
\* ended leave those of S.
Moves(n, m, Q, S, ended) ==
  /\ Becomes(n, m, ended)
  /\ Q \subseteq DataOf(n) /\ Audible(S)
  /\ Good(n, m, Q, S, handedUp', Blocked(n))
  /\ \A s \in S : <<s, n>> \in Hears /\ link[<<s, n>>] # <<>> /\ <<s, n>> \notin ended
  /\ ended \subseteq Hears
  /\ \A l \in ended : l[2] = n /\ link[l] # <<>>
  /\ Behind(Q, Range(todo'[n]))
  /\ \A l \in Hears : l[1] = n => Behind(DataIn(link[l]), Q) /\ \A f \in Q : lastUp[l] <= f.no
  /\ handedUp' \in Received /\ \A k \in Node : handedUp[k] \subseteq handedUp'[k]
  /\ todo' \in [Node -> Seq(Packet)]
  /\ \A k \in Node : Ascending(todo'[k]) /\ Range(todo'[k]) \subseteq Range(todo[k])
  /\ lastUp' \in [Hears -> Nat]
  /\ \A l \in Hears : \/ lastUp'[l] = lastUp[l]
                      \/ /\ l \in ended /\ Head(link[l]).type = "DATA"
                         /\ lastUp'[l] = Head(link[l]).no

\* A node that has received more may send whatever it could before.
LEMMA FramesMono ==
  ASSUME NEW H \in Received, NEW I \in Received, \A k \in Node : H[k] \subseteq I[k], NEW n \in Node
  PROVE  Frames(n, H) \subseteq Frames(n, I) /\ \A f \in Frames(n, I) : f.no \in Nat /\ f # NoFrame
<1>1. Frames(n, H) \subseteq Frames(n, I)
  BY DEF Frames, AckOf
<1>2. \A f \in Frames(n, I) : f.no \in Nat /\ f # NoFrame
  BY DataFacts, AckFacts DEF Frames
<1> QED
  BY <1>1, <1>2

\* What Carry does to one link.
LEMMA LinkMoves ==
  ASSUME IInv, NEW n \in Node, NEW m, NEW Q, NEW S, NEW ended, Moves(n, m, Q, S, ended),
         NEW l \in Hears
  PROVE  /\ link'[l] \in Seq(Frames(l[1], handedUp'))
         /\ InOrderOn(link'[l])
         /\ Range(link'[l]) \subseteq
              Range(link[l]) \cup (IF l[1] = n /\ m.out # NoFrame THEN {m.out} ELSE {})
         /\ l \notin ended /\ link[l] # <<>> => link'[l] # <<>>
         /\ l \in ended /\ Head(link[l]).type = "DATA" =>
              Head(link[l]).no \in Nat /\ \A f \in DataIn(link'[l]) : Head(link[l]).no <= f.no
<1> DEFINE F == Frames(l[1], handedUp')
           rest == IF l \in ended THEN Tail(link[l]) ELSE link[l]
<1>1. l[1] \in Node
  BY MediumAssumption
<1>2. handedUp \in Received /\ handedUp' \in Received /\ \A k \in Node : handedUp[k] \subseteq handedUp'[k]
  BY DEF IInv, HistoryOK, Moves
<1>3. link[l] \in Seq(Frames(l[1], handedUp)) /\ InOrderOn(link[l])
  BY DEF IInv, LinksOK, OrderOK
<1>4. Frames(l[1], handedUp) \subseteq F /\ \A f \in F : f.no \in Nat /\ f # NoFrame
  BY <1>1, <1>2, FramesMono
<1> HIDE DEF F
<1>5. link[l] \in Seq(F)
  BY <1>3, <1>4, SeqMonotonic
<1>6. l \in ended => link[l] # <<>>
  BY DEF Moves
<1>7. /\ rest \in Seq(F) /\ InOrderOn(rest) /\ Range(rest) \subseteq Range(link[l])
      /\ l \notin ended /\ link[l] # <<>> => rest # <<>>
      /\ l \in ended /\ Head(link[l]).type = "DATA" =>
           Head(link[l]).no \in Nat /\ \A f \in DataIn(rest) : Head(link[l]).no <= f.no
  <2>1. CASE l \in ended
    <3>1. rest = Tail(link[l])
      BY <2>1
    <3>2. Head(link[l]) \in F
      BY <1>5, <1>6, <2>1, HeadTailProperties
    <3> HIDE DEF rest
    <3> QED
      BY <1>3, <1>4, <1>5, <1>6, <2>1, <3>1, <3>2, LinkTail
  <2>2. CASE l \notin ended
    BY <1>3, <1>5, <2>2
  <2> QED
    BY <2>1, <2>2
<1>8. link'[l] = IF l[1] = n /\ m.out # NoFrame THEN Append(rest, m.out) ELSE rest
  BY DEF Moves, Becomes, Carry
<1> HIDE DEF rest
<1>9. CASE l[1] = n /\ m.out # NoFrame
  <2>1. m.out \in Q \cup AckOf(n, handedUp') /\ Q \subseteq DataOf(n)
    BY <1>9 DEF Moves, Good, Core, State
  <2>2. m.out \in F
    BY <1>9, <2>1 DEF F, Frames
  <2>3. m.out.type = "DATA" => m.out \in Q
    BY <2>1, AckFacts
  <2>4. DataIn(rest) \subseteq DataIn(link[l])
    BY <1>7 DEF DataIn
  <2>5. \A f \in DataIn(link[l]), g \in Q : f.no <= g.no
    BY <1>9 DEF Moves, Behind
  <2>6. m.out.type = "DATA" => \A f \in DataIn(rest) : f.no <= m.out.no
    BY <2>3, <2>4, <2>5
  <2>7. /\ link'[l] \in Seq(F) /\ InOrderOn(link'[l]) /\ Range(link'[l]) \subseteq Range(rest) \cup {m.out}
        /\ link'[l] # <<>>
    BY <1>4, <1>7, <1>8, <1>9, <2>2, <2>6, LinkAppend
  <2>8. ASSUME l \in ended, Head(link[l]).type = "DATA", NEW f \in DataIn(link'[l])
        PROVE  Head(link[l]).no <= f.no
    <3>1. Head(link[l]) \in DataIn(link[l])
      BY <1>3, <1>4, <1>5, <1>6, <2>8, LinkTail DEF DataIn
    <3>2. f \in DataIn(rest) \/ (f = m.out /\ m.out \in Q)
      BY <2>3, <2>7 DEF DataIn
    <3> QED
      BY <1>7, <2>5, <2>8, <3>1, <3>2
  <2>9. Range(link'[l]) \subseteq Range(link[l]) \cup {m.out}
    BY <1>7, <2>7
  <2>10. l \in ended /\ Head(link[l]).type = "DATA" => Head(link[l]).no \in Nat
    BY <1>7
  <2> QED
    BY <1>9, <2>7, <2>8, <2>9, <2>10 DEF F
<1>10. CASE ~(l[1] = n /\ m.out # NoFrame)
  <2>1. link'[l] = rest
    BY <1>8, <1>10
  <2> QED
    BY <1>7, <1>10, <2>1 DEF F
<1> QED
  BY <1>9, <1>10

\* The record of n is replaced by m, and every other node stays good.
LEMMA NodesMove ==
  ASSUME IInv, NEW n \in Node, NEW m, NEW Q, NEW S, NEW ended, Moves(n, m, Q, S, ended)
  PROVE  NodesOK' /\ mac'[n].queue = m.queue
<1> DEFINE s == Settle(m)
           I == handedUp'
<1>1. /\ handedUp \in Received /\ I \in Received /\ \A k \in Node : handedUp[k] \subseteq I[k]
  BY DEF IInv, HistoryOK, Moves
<1>2. /\ mac = [k \in Node |-> mac[k]]
      /\ \A k \in Node : Good(k, mac[k], DataOf(k), Senders(k), handedUp, Blocked(k)) /\ Fresh(mac[k])
  BY DEF IInv, NodesOK
<1>3. mac' = [mac EXCEPT ![n] = s]
  BY DEF Moves, Becomes, Settle
<1>4. /\ Good(n, s, Q, S, I, Blocked(n) \cup m.stuck) /\ Fresh(s) /\ s.queue = m.queue
      /\ m.stuck \subseteq {"DATA", "ACK"} /\ s.queue \in Seq(Q) /\ s.out = NoFrame
  <2>1. Good(n, m, Q, S, I, Blocked(n))
    BY DEF Moves
  <2> HIDE DEF I
  <2>2. Good(n, s, Q, S, I, Blocked(n) \cup m.stuck) /\ Fresh(s) /\ s.queue = m.queue
    BY <2>1, Settled
  <2>3. m.stuck \subseteq {"DATA", "ACK"}
    BY <2>1 DEF Good, Core, State
  <2> HIDE DEF s, I
  <2>4. s.queue \in Seq(Q) /\ s.out = NoFrame
    BY <2>2 DEF Good, Core, State, Fresh
  <2> QED
    BY <2>2, <2>3, <2>4
<1> HIDE DEF s, I
<1>5. mac' = [k \in Node |-> mac'[k]] /\ mac'[n] = s /\ \A k \in Node \ {n} : mac'[k] = mac[k]
  BY <1>2, <1>3
<1>6. Blocked(n)' = Blocked(n) \cup m.stuck /\ \A k \in Node \ {n} : Blocked(k)' = Blocked(k)
  BY <1>4 DEF Blocked, Moves, Becomes
<1>7. /\ S \subseteq Senders(n)'
      /\ \A k \in Node \ {n} : Senders(k) \subseteq Senders(k)'
  <2>1. \A l \in Hears : l \notin ended /\ link[l] # <<>> => link'[l] # <<>>
    BY LinkMoves
  <2>2. \A l \in ended : l[2] = n
    BY DEF Moves
  <2>3. ASSUME NEW k \in S PROVE k \in Senders(n)'
    <3>1. <<k, n>> \in Hears /\ link[<<k, n>>] # <<>> /\ <<k, n>> \notin ended
      BY DEF Moves
    <3>2. k \in Node /\ link'[<<k, n>>] # <<>>
      BY <2>1, <3>1, MediumAssumption
    <3> QED
      BY <3>1, <3>2 DEF Senders
  <2>4. ASSUME NEW k \in Node \ {n}, NEW j \in Senders(k) PROVE j \in Senders(k)'
    <3>1. <<j, k>> \in Hears /\ link[<<j, k>>] # <<>> /\ j \in Node
      BY DEF Senders
    <3>2. <<j, k>> \notin ended
      BY <2>2
    <3>3. link'[<<j, k>>] # <<>>
      BY <2>1, <3>1, <3>2
    <3> QED
      BY <3>1, <3>3 DEF Senders
  <2> QED
    BY <2>3, <2>4
<1>8. Good(n, s, DataOf(n), Senders(n)', I, Blocked(n)')
  <2>1. Range(s.queue) \subseteq DataOf(n)
    BY <1>4, RangeOfSeq DEF Moves
  <2>2. Audible(S)
    BY DEF Moves
  <2>3. s.out \in DataOf(n) \cup AckOf(n, I) \cup {NoFrame}
    BY <1>4
  <2>4. \A k \in Node : I[k] \subseteq I[k]
    OBVIOUS
  <2>5. Good(n, s, Q, S, I, Blocked(n)')
    BY <1>4, <1>6
  <2> QED
    BY <1>1, <1>7, <2>1, <2>2, <2>3, <2>4, <2>5, GoodChange
<1>9. ASSUME NEW k \in Node \ {n}
      PROVE  Good(k, mac[k], DataOf(k), Senders(k)', I, Blocked(k)') /\ Fresh(mac[k])
  <2>1. Good(k, mac[k], DataOf(k), Senders(k), handedUp, Blocked(k)) /\ Fresh(mac[k])
    BY <1>2
  <2>2. mac[k].queue \in Seq(DataOf(k)) /\ mac[k].out = NoFrame
    BY <2>1 DEF Good, Core, State, Fresh
  <2>3. Range(mac[k].queue) \subseteq DataOf(k)
    BY <2>2, RangeOfSeq
  <2>4. Audible(Senders(k)) /\ Senders(k) \subseteq Senders(k)'
    BY <1>7, SendersAudible
  <2>5. mac[k].out \in DataOf(k) \cup AckOf(k, handedUp) \cup {NoFrame}
    BY <2>2
  <2>6. Good(k, mac[k], DataOf(k), Senders(k)', I, Blocked(k))
    BY <1>1, <2>1, <2>3, <2>4, <2>5, GoodChange
  <2> QED
    BY <1>6, <2>1, <2>6
<1>10. NodesOK'
  <2>1. ASSUME NEW k \in Node
        PROVE  Good(k, mac'[k], DataOf(k), Senders(k)', handedUp', Blocked(k)') /\ Fresh(mac'[k])
    <3>1. CASE k = n
      BY <1>4, <1>5, <1>8, <3>1 DEF I
    <3>2. CASE k # n
      BY <1>5, <1>9, <3>2 DEF I
    <3> QED
      BY <3>1, <3>2
  <2> QED
    BY <1>5, <2>1 DEF NodesOK
<1> QED
  BY <1>4, <1>5, <1>10

\* Neither does such a step disturb the order of data from todo to the receiver.
LEMMA OrderMoves ==
  ASSUME IInv, NEW n \in Node, NEW m, NEW Q, NEW S, NEW ended, Moves(n, m, Q, S, ended)
  PROVE  OrderOK'
<1>1. /\ mac'[n].queue = m.queue /\ \A k \in Node \ {n} : mac'[k] = mac[k]
  <2>1. mac' = [mac EXCEPT ![n] = [m EXCEPT !.out = NoFrame, !.stuck = {}, !.crash = "none"]]
    BY DEF Moves, Becomes
  <2>2. mac = [k \in Node |-> mac[k]]
    BY DEF IInv, NodesOK
  <2> QED
    BY <2>1, <2>2, NodesMove
<1>2. /\ m.queue \in Seq(Q) /\ m.out \in Q \cup AckOf(n, handedUp') \cup {NoFrame}
      /\ OldestFirst(m)
  BY DEF Moves, Good, Core, State
<1>3. Range(m.queue) \subseteq Q /\ Q \subseteq DataOf(n)
  BY <1>2, RangeOfSeq DEF Moves
<1>4. m.out.type = "DATA" => m.out \in Q /\ \A f \in Range(m.queue) : m.out.no <= f.no
  <2>1. m.out.type = "DATA" => m.out \in Q
    <3>1. NoFrame.type # "DATA"
      BY DEF NoFrame
    <3>2. \A f \in AckOf(n, handedUp') : f.type = "ACK"
      BY AckFacts
    <3> QED
      BY <1>2, <3>1, <3>2
  <2> QED
    BY <1>2, <2>1 DEF OldestFirst, Range
<1>5. \A k \in Node : /\ Ascending(todo'[k]) /\ Range(todo'[k]) \subseteq Range(todo[k])
                      /\ Behind(Range(mac[k].queue), Range(todo[k]))
  BY DEF Moves, IInv, OrderOK
<1>6. Behind(Q, Range(todo'[n]))
  BY DEF Moves
<1>7. ASSUME NEW k \in Node
      PROVE  Ascending(todo'[k]) /\ Behind(Range(mac'[k].queue), Range(todo'[k]))
  <2>1. CASE k = n
    BY <1>1, <1>3, <1>5, <1>6, <2>1 DEF Behind
  <2>2. CASE k # n
    BY <1>1, <1>5, <2>2 DEF Behind
  <2> QED
    BY <2>1, <2>2
<1>8. ASSUME NEW l \in Hears
      PROVE  /\ InOrderOn(link'[l])
             /\ Behind(DataIn(link'[l]), ToSend(l[1])')
             /\ \A f \in DataIn(link'[l]) \cup ToSend(l[1])' : lastUp'[l] <= f.no
  <2> DEFINE sent == IF l[1] = n /\ m.out # NoFrame THEN {m.out} ELSE {}
             later == IF l[1] = n THEN Q \cup Range(todo'[n]) ELSE ToSend(l[1])
  <2>1. /\ InOrderOn(link'[l]) /\ Range(link'[l]) \subseteq Range(link[l]) \cup sent
        /\ l \in ended /\ Head(link[l]).type = "DATA" =>
              Head(link[l]).no \in Nat /\ \A f \in DataIn(link'[l]) : Head(link[l]).no <= f.no
    BY LinkMoves
  <2>2. l[1] \in Node
    BY MediumAssumption
  <2>3. /\ Behind(DataIn(link[l]), ToSend(l[1]))
        /\ \A f \in DataIn(link[l]) \cup ToSend(l[1]) : lastUp[l] <= f.no
    BY DEF IInv, OrderOK
  <2>4. l[1] = n => Behind(DataIn(link[l]), Q) /\ \A f \in Q : lastUp[l] <= f.no
    BY DEF Moves
  <2>5. ToSend(l[1])' \subseteq later
    <3>1. CASE l[1] = n
      BY <1>1, <1>3, <3>1 DEF ToSend
    <3>2. CASE l[1] # n
      BY <1>1, <1>5, <2>2, <3>2 DEF ToSend
    <3> QED
      BY <3>1, <3>2
  <2>6. /\ Behind(DataIn(link[l]), later)
        /\ \A f \in later : lastUp[l] <= f.no
    <3>1. CASE l[1] = n
      BY <1>5, <2>3, <2>4, <3>1 DEF ToSend, Behind
    <3>2. CASE l[1] # n
      BY <2>3, <3>2 DEF Behind
    <3> QED
      BY <3>1, <3>2
  <2>7. DataIn(link'[l]) \subseteq DataIn(link[l]) \cup {f \in sent : f.type = "DATA"}
    BY <2>1 DEF DataIn
  <2>8. \A f \in sent : f.type = "DATA" => /\ f \in Q /\ f \in later
                                           /\ \A g \in ToSend(l[1])' : f.no <= g.no
    BY <1>1, <1>4, <1>6 DEF ToSend, Behind
  <2> HIDE DEF sent
  <2>9. Behind(DataIn(link'[l]), ToSend(l[1])')
    BY <2>5, <2>6, <2>7, <2>8 DEF Behind
  <2>10. \A f \in DataIn(link'[l]) \cup ToSend(l[1])' : lastUp[l] <= f.no
    BY <2>3, <2>5, <2>6, <2>7, <2>8
  <2>11. CASE lastUp'[l] = lastUp[l]
    BY <2>1, <2>9, <2>10, <2>11
  <2>12. CASE l \in ended /\ Head(link[l]).type = "DATA" /\ lastUp'[l] = Head(link[l]).no
    <3>1. Head(link[l]) \in DataIn(link[l])
      <4>1. link[l] \in Seq(Frames(l[1], handedUp)) /\ link[l] # <<>> /\ l[1] \in Node
        BY <2>2, <2>12 DEF IInv, LinksOK, Moves
      <4>2. 1 \in DOMAIN link[l] /\ Head(link[l]) = link[l][1]
        BY <4>1, EmptySeq, LenProperties
      <4> QED
        BY <2>12, <4>2 DEF DataIn, Range
    <3>2. \A f \in later : Head(link[l]).no <= f.no
      BY <2>6, <3>1 DEF Behind
    <3> QED
      BY <2>1, <2>5, <2>9, <2>12, <3>2
  <2> QED
    BY <2>11, <2>12 DEF Moves
<1> QED
  BY <1>7, <1>8 DEF OrderOK

\* So a step that moves one node keeps the invariant.
LEMMA MovesKeep ==
  ASSUME IInv, NEW n \in Node, NEW m, NEW Q, NEW S, NEW ended, Moves(n, m, Q, S, ended)
  PROVE  IInv'
<1>1. NodesOK'
  BY NodesMove
<1>2. LinksOK'
  <2>1. link' = [l \in Hears |-> link'[l]]
    BY DEF Moves, Becomes, Carry
  <2> QED
    BY <2>1, LinkMoves DEF LinksOK
<1>3. OrderOK'
  BY OrderMoves
<1>4. HistoryOK'
  <2>1. /\ m.stuck \subseteq {"DATA", "ACK"} /\ m.crash \in {"none", "empty queue", "idle timer"}
        /\ m.crash # "none" => "ACK" \in Blocked(n) \cup m.stuck
    BY DEF Moves, Good, Core, State
  <2>2. crash' = m.crash /\ blockedTx' = blockedTx \cup {<<n, t>> : t \in m.stuck}
    BY DEF Moves, Becomes
  <2>3. blockedTx' \subseteq Node \X {"DATA", "ACK"}
    <3>1. \A t \in m.stuck : <<n, t>> \in Node \X {"DATA", "ACK"}
      BY <2>1
    <3>2. blockedTx \subseteq Node \X {"DATA", "ACK"}
      BY DEF IInv, HistoryOK
    <3> QED
      BY <2>2, <3>1, <3>2
  <2>4. Blocked(n)' = Blocked(n) \cup m.stuck
    BY <2>1, <2>2 DEF Blocked
  <2>5. handedUp' \in Received /\ lastUp' \in [Hears -> Nat] /\ todo' \in [Node -> Seq(Packet)]
    BY DEF Moves
  <2> QED
    BY <2>1, <2>2, <2>3, <2>4, <2>5 DEF HistoryOK
<1> QED
  BY <1>1, <1>2, <1>3, <1>4 DEF IInv
----------------------------------------------------------------------------
(* The actions *)

\* The initial states satisfy the invariant.
LEMMA InitIInv == Init => IInv
<1> SUFFICES ASSUME Init PROVE IInv
  OBVIOUS
<1>1. /\ mac = [n \in Node |-> NewMac(n)] /\ link = EmptyLinks /\ todo \in Traffic
      /\ crash = "none" /\ handedUp = [n \in Node |-> {}] /\ lastUp = [l \in Hears |-> 0]
      /\ blockedTx = {}
  BY DEF Init
<1>2. handedUp \in Received
  BY <1>1 DEF Received
<1>3. ASSUME NEW n \in Node
      PROVE  Good(n, mac[n], DataOf(n), Senders(n), handedUp, Blocked(n)) /\ Fresh(mac[n])
  <2> DEFINE m == mac[n]
  <2>1. Audible(Senders(n)) /\ Blocked(n) = {}
    BY <1>1, SendersAudible DEF Blocked
  <2>2. RadioInv(Senders(n), InitRadio) /\ Active(InitRadio.chan) = {} /\ InitRadio.trans = "IDLE"
    BY <2>1, InitRadioFacts DEF InitRadio
  <2>3. InitRadio \in RadioState(Senders(n))
    BY <2>2 DEF RadioInv
  <2>4. EmptyBag \in BagsOf(AckOf(n, handedUp))
    <3>1. DOMAIN EmptyBag = {} /\ EmptyBag \in [{} -> Nat \ {0}]
      BY DEF EmptyBag, SetToBag
    <3> QED
      BY <3>1, BagMember
  <2>5. 0 \in 0 .. MAXIMUMCOUNTER - 1 /\ (n \in ACKOn) \in BOOLEAN
    BY Bound
  <2>6. m = NewMac(n)
    BY <1>1
  <2> HIDE DEF m
  <2>7. m \in State(n, DataOf(n), Senders(n), handedUp)
    <3>1. <<>> \in Seq(DataOf(n)) /\ <<>> \in Seq(ElemOf(n, handedUp))
      OBVIOUS
    <3> HIDE DEF InitRadio
    <3> QED
      BY <2>3, <2>4, <2>5, <2>6, <3>1 DEF State, NewMac
  <2>8. /\ m.radio = InitRadio /\ m.status = "PASSIVE" /\ m.blocked = FALSE /\ m.queue = <<>>
        /\ m.statusEvent = FALSE /\ m.backoffTimer = FALSE /\ m.waitTimer = FALSE
        /\ m.out = NoFrame /\ m.crash = "none" /\ m.stuck = {}
    BY <2>6 DEF NewMac
  <2>9. OldestFirst(m)
    BY <2>8 DEF OldestFirst, Ascending, NoFrame
  <2>10. Control(m)
    BY <2>2, <2>8 DEF Control, Trans
  <2>11. Core(n, m, DataOf(n), Senders(n), handedUp)
    BY <2>2, <2>7, <2>8, <2>9, <2>10 DEF Core
  <2>12. Good(n, m, DataOf(n), Senders(n), handedUp, Blocked(n)) /\ Fresh(m)
    BY <2>8, <2>11 DEF Good, InStep, GoesOn, Fresh
  <2> QED
    BY <2>12 DEF m
<1>4. NodesOK
  BY <1>1, <1>3 DEF NodesOK
<1>5. LinksOK
  BY <1>1 DEF LinksOK, EmptyLinks
<1>6. todo \in [Node -> Seq(Packet)] /\ \A n \in Node : Ascending(todo[n])
  BY <1>1, UWALOHAAssumption DEF Ascending
<1>7. OrderOK
  <2>1. \A n \in Node : mac[n].queue = <<>>
    BY <1>1 DEF NewMac
  <2>2. Range(<<>>) = {}
    BY DEF Range
  <2>3. \A l \in Hears : link[l] = <<>> /\ l[1] \in Node /\ lastUp[l] = 0
    BY <1>1, MediumAssumption DEF EmptyLinks
  <2>4. \A n \in Node : \A f \in ToSend(n) : 0 <= f.no
    <3>1. \A n \in Node : Range(todo[n]) \subseteq Packet
      BY <1>6, RangeOfSeq
    <3> QED
      BY <2>1, <2>2, <3>1 DEF ToSend, Packet
  <2>5. \A l \in Hears : InOrderOn(link[l]) /\ DataIn(link[l]) = {}
    BY <2>2, <2>3 DEF InOrderOn, DataIn
  <2>6. \A n \in Node : Ascending(todo[n]) /\ Behind(Range(mac[n].queue), Range(todo[n]))
    BY <1>6, <2>1, <2>2 DEF Behind
  <2>7. ASSUME NEW l \in Hears
        PROVE  /\ Behind(DataIn(link[l]), ToSend(l[1]))
               /\ \A f \in DataIn(link[l]) \cup ToSend(l[1]) : lastUp[l] <= f.no
    BY <2>3, <2>4, <2>5 DEF Behind
  <2> QED
    BY <2>5, <2>6, <2>7 DEF OrderOK
<1>8. HistoryOK
  BY <1>1, <1>2, <1>6 DEF HistoryOK
<1> QED
  BY <1>4, <1>5, <1>7, <1>8 DEF IInv

\* What the invariant says of one node.
LEMMA NodeFacts ==
  ASSUME IInv, NEW n \in Node
  PROVE  /\ Good(n, mac[n], Range(mac[n].queue), Senders(n), handedUp, Blocked(n))
         /\ Fresh(mac[n])
         /\ Range(mac[n].queue) \subseteq DataOf(n)
         /\ mac[n].queue \in Seq(DataOf(n))
<1>1. Good(n, mac[n], DataOf(n), Senders(n), handedUp, Blocked(n)) /\ Fresh(mac[n])
  BY DEF IInv, NodesOK
<1>2. mac[n].queue \in Seq(DataOf(n)) /\ mac[n].out = NoFrame
  BY <1>1 DEF Good, Core, State, Fresh
<1>3. Range(mac[n].queue) \subseteq DataOf(n)
  BY <1>2, RangeOfSeq
<1>4. handedUp \in Received /\ Audible(Senders(n))
  BY SendersAudible DEF IInv, HistoryOK
<1>5. Good(n, mac[n], Range(mac[n].queue), Senders(n), handedUp, Blocked(n))
  BY <1>1, <1>2, <1>4, GoodChange
<1> QED
  BY <1>1, <1>2, <1>3, <1>5

\* A step of one node that neither takes a packet nor ends a reception.
LEMMA OwnStep ==
  ASSUME IInv, NEW n \in Node, NEW m, Becomes(n, m, {}),
         Good(n, m, Range(mac[n].queue), Senders(n), handedUp, Blocked(n)),
         UNCHANGED <<todo, handedUp, lastUp>>
  PROVE  IInv'
<1> DEFINE Q == Range(mac[n].queue)
<1>1. Q \subseteq DataOf(n) /\ Audible(Senders(n))
  BY NodeFacts, SendersAudible
<1>2. \A s \in Senders(n) : <<s, n>> \in Hears /\ link[<<s, n>>] # <<>> /\ <<s, n>> \notin {}
  BY DEF Senders
<1>3. /\ \A k \in Node : Ascending(todo[k])
      /\ Behind(Q, Range(todo[n]))
      /\ handedUp \in Received /\ todo \in [Node -> Seq(Packet)] /\ lastUp \in [Hears -> Nat]
  BY DEF IInv, OrderOK, HistoryOK
<1>4. \A l \in Hears : l[1] = n => Behind(DataIn(link[l]), Q) /\ \A f \in Q : lastUp[l] <= f.no
  BY DEF IInv, OrderOK, ToSend, Behind
<1>5. Good(n, m, Q, Senders(n), handedUp', Blocked(n))
  OBVIOUS
<1>6. Moves(n, m, Q, Senders(n), {})
  <2> HIDE DEF Q
  <2> QED
    BY <1>1, <1>2, <1>3, <1>4, <1>5 DEF Moves
<1> QED
  BY <1>6, MovesKeep
\* backoff_handler has fired.
LEMMA BackoffOver ==
  ASSUME NEW n \in Node, NEW Q, NEW S, NEW H, NEW b, NEW m, Good(n, m, Q, S, H, b), Fresh(m),
         m.backoffTimer
  PROVE  LET o == [m EXCEPT !.backoffTimer = FALSE]
         IN  Core(n, o, Q, S, H) /\ Fresh(o) /\ Ready(o, b)
<1> DEFINE o == [m EXCEPT !.backoffTimer = FALSE]
<1>1. /\ m \in State(n, Q, S, H) /\ RadioInv(S, m.radio) /\ Control(m) /\ OldestFirst(m)
      /\ InStep(m, b)
  BY DEF Good, Core, Fresh
<1>2. o \in State(n, Q, S, H)
  BY <1>1 DEF State
<1>3. /\ o.radio = m.radio /\ o.status = m.status /\ o.waitTimer = m.waitTimer
      /\ o.queue = m.queue /\ o.blocked = m.blocked /\ o.statusEvent = m.statusEvent
      /\ o.isAck = m.isAck /\ o.ackOn = m.ackOn /\ o.out = m.out /\ o.stuck = m.stuck
      /\ o.backoffTimer = FALSE /\ o.crash = m.crash
  BY <1>1 DEF State
<1> HIDE DEF o
<1>4. Core(n, o, Q, S, H)
  BY <1>1, <1>2, <1>3 DEF Core, Control, OldestFirst, Trans
<1>5. Fresh(o) /\ Ready(o, b)
  BY <1>1, <1>3 DEF Fresh, Ready, InStep
<1> QED
  BY <1>4, <1>5 DEF o

\* One of the retry timers has fired.
LEMMA RetryOver ==
  ASSUME NEW n \in Node, NEW Q, NEW S, NEW H, NEW b, NEW m, Good(n, m, Q, S, H, b), Fresh(m),
         NEW f \in BagToSet(m.retry)
  PROVE  /\ f \in AckOf(n, H)
         /\ Good(n, [m EXCEPT !.retry = @ (-) SetToBag({f})], Q, S, H, b)
         /\ Fresh([m EXCEPT !.retry = @ (-) SetToBag({f})])
<1> DEFINE c == m.retry (-) SetToBag({f})
           o == [m EXCEPT !.retry = c]
<1>1. /\ m \in State(n, Q, S, H) /\ RadioInv(S, m.radio) /\ Control(m) /\ OldestFirst(m)
      /\ m.retry \in BagsOf(AckOf(n, H))
  BY DEF Good, Core, State
<1>2. f \in AckOf(n, H)
  BY <1>1, BagMember DEF BagToSet
<1>3. c \in BagsOf(AckOf(n, H))
  BY <1>1, TakeFromBag
<1> HIDE DEF c
<1>4. o \in State(n, Q, S, H)
  BY <1>1, <1>3 DEF State
<1>5. /\ o.radio = m.radio /\ o.status = m.status /\ o.waitTimer = m.waitTimer
      /\ o.queue = m.queue /\ o.blocked = m.blocked /\ o.statusEvent = m.statusEvent
      /\ o.isAck = m.isAck /\ o.ackOn = m.ackOn /\ o.out = m.out /\ o.stuck = m.stuck
      /\ o.backoffTimer = m.backoffTimer /\ o.crash = m.crash
  BY <1>1 DEF State
<1> HIDE DEF o
<1>6. Core(n, o, Q, S, H)
  BY <1>1, <1>4, <1>5 DEF Core, Control, OldestFirst, Trans
<1>7. Good(n, o, Q, S, H, b) /\ Fresh(o)
  BY <1>5, <1>6 DEF Good, InStep, GoesOn, Fresh
<1> QED
  BY <1>2, <1>7 DEF o, c

\* A packet comes from the layer above.
LEMMA SubmitIInv == ASSUME IInv, NEW n \in Node, Submit(n) PROVE IInv'
<1> DEFINE p == Head(todo[n])
           f == Data(n, p.DA, p.no)
           Q == Range(mac[n].queue) \cup {f}
           S == Senders(n)
<1>1. PICK sends \in BOOLEAN : Becomes(n, TxProcess(mac[n], f, sends), {})
  BY DEF Submit, Coin
<1>2. /\ todo[n] # <<>> /\ todo' = [todo EXCEPT ![n] = Tail(@)]
      /\ handedUp' = handedUp /\ lastUp' = lastUp
  BY DEF Submit
<1>3. todo \in [Node -> Seq(Packet)] /\ \A k \in Node : todo[k] \in Seq(Packet) /\ Ascending(todo[k])
  BY DEF IInv, HistoryOK, OrderOK
<1>4. /\ p \in Packet /\ Tail(todo[n]) \in Seq(Packet) /\ Ascending(Tail(todo[n]))
      /\ \A i \in DOMAIN todo[n] : p.no <= todo[n][i].no
      /\ \A i \in DOMAIN Tail(todo[n]) : i + 1 \in DOMAIN todo[n] /\ Tail(todo[n])[i] = todo[n][i + 1]
  <2>1. \A x \in Packet : x.no \in Nat
    BY DEF Packet
  <2> QED
    BY <1>2, <1>3, <2>1, AscendingTail
<1>5. p \in Range(todo[n]) /\ Range(Tail(todo[n])) \subseteq Range(todo[n])
  <2>1. 1 \in DOMAIN todo[n] /\ p = todo[n][1]
    BY <1>2, <1>3, EmptySeq, LenProperties
  <2> QED
    BY <1>4, <2>1 DEF Range
<1>6. f \in DataOf(n) /\ f.no = p.no
  BY <1>4 DEF DataOf, Data, Packet
<1> HIDE DEF f, p
<1>7. todo'[n] = Tail(todo[n]) /\ \A k \in Node \ {n} : todo'[k] = todo[k]
  BY <1>2, <1>3
<1>8. /\ Behind(Range(mac[n].queue), Range(todo[n]))
      /\ handedUp \in Received /\ lastUp \in [Hears -> Nat]
  BY DEF IInv, OrderOK, HistoryOK
<1>9. /\ Good(n, mac[n], Range(mac[n].queue), S, handedUp, Blocked(n)) /\ Fresh(mac[n])
      /\ Range(mac[n].queue) \subseteq DataOf(n) /\ mac[n].queue \in Seq(DataOf(n)) /\ Audible(S)
  BY NodeFacts, SendersAudible
<1>10. Q \subseteq DataOf(n)
  BY <1>6, <1>9
<1>11. Good(n, mac[n], Q, S, handedUp, Blocked(n))
  <2>1. mac[n].out \in Q \cup AckOf(n, handedUp) \cup {NoFrame}
    BY <1>9 DEF Fresh
  <2>2. Range(mac[n].queue) \subseteq Q /\ f \in Q
    OBVIOUS
  <2> HIDE DEF Q, S
  <2> QED
    BY <1>8, <1>9, <2>1, <2>2, GoodChange
<1>12. \A i \in DOMAIN mac[n].queue : mac[n].queue[i].no <= f.no
  BY <1>5, <1>6, <1>8 DEF Behind, Range
<1>13. Good(n, TxProcess(mac[n], f, sends), Q, S, handedUp, Blocked(n))
  <2>1. f \in Q
    OBVIOUS
  <2> HIDE DEF Q, S
  <2> QED
    BY <1>9, <1>10, <1>11, <1>12, <2>1, TxProcessGood
<1>14. Behind(Q, Range(todo'[n]))
  <2>1. \A g \in Range(Tail(todo[n])) : f.no <= g.no
    BY <1>4, <1>6 DEF Range
  <2> QED
    BY <1>5, <1>7, <1>8, <2>1 DEF Behind
<1>15. \A l \in Hears : l[1] = n => Behind(DataIn(link[l]), Q) /\ \A g \in Q : lastUp[l] <= g.no
  <2>1. ASSUME NEW l \in Hears, l[1] = n
        PROVE  Behind(DataIn(link[l]), Q) /\ \A g \in Q : lastUp[l] <= g.no
    <3>1. Behind(DataIn(link[l]), ToSend(n)) /\ \A g \in ToSend(n) : lastUp[l] <= g.no
      BY <2>1 DEF IInv, OrderOK
    <3>2. Range(mac[n].queue) \subseteq ToSend(n) /\ p \in ToSend(n)
      BY <1>5 DEF ToSend
    <3> QED
      BY <1>6, <3>1, <3>2 DEF Behind
  <2> QED
    BY <2>1
<1>16. /\ todo' \in [Node -> Seq(Packet)]
       /\ \A k \in Node : Ascending(todo'[k]) /\ Range(todo'[k]) \subseteq Range(todo[k])
  BY <1>2, <1>3, <1>4, <1>5, <1>7
<1>17. \A s \in S : <<s, n>> \in Hears /\ link[<<s, n>>] # <<>> /\ <<s, n>> \notin {}
  BY DEF Senders
<1>18. Moves(n, TxProcess(mac[n], f, sends), Q, S, {})
  <2> HIDE DEF Q, S
  <2> QED
    BY <1>1, <1>2, <1>8, <1>9, <1>10, <1>13, <1>14, <1>15, <1>16, <1>17 DEF Moves
<1> QED
  BY <1>18, MovesKeep

\* The event of the end of a transmission.
LEMMA StatusHandlerIInv == ASSUME IInv, NEW n \in Node, StatusHandler(n) PROVE IInv'
<1>1. PICK sends \in BOOLEAN : Becomes(n, StatusProcess(mac[n], sends), {})
  BY DEF StatusHandler, Coin
<1>2. mac[n].statusEvent /\ UNCHANGED <<todo, handedUp, lastUp>>
  BY DEF StatusHandler
<1>3. Good(n, StatusProcess(mac[n], sends), Range(mac[n].queue), Senders(n), handedUp, Blocked(n))
  BY <1>2, NodeFacts, SendersAudible, StatusProcessGood
<1> QED
  BY <1>1, <1>2, <1>3, OwnStep

\* backoff_handler fires.
LEMMA BackoffTimerIInv == ASSUME IInv, NEW n \in Node, BackoffTimer(n) PROVE IInv'
<1> DEFINE o == [mac[n] EXCEPT !.backoffTimer = FALSE]
<1>1. PICK sends \in BOOLEAN : Becomes(n, sendDataPkt(o, sends), {})
  BY DEF BackoffTimer, Coin
<1>2. mac[n].backoffTimer /\ UNCHANGED <<todo, handedUp, lastUp>>
  BY DEF BackoffTimer
<1>3. Core(n, o, Range(mac[n].queue), Senders(n), handedUp) /\ Fresh(o) /\ Ready(o, Blocked(n))
  BY <1>2, NodeFacts, BackoffOver
<1> HIDE DEF o
<1>4. Good(n, sendDataPkt(o, sends), Range(mac[n].queue), Senders(n), handedUp, Blocked(n))
  BY <1>3, NodeFacts, SendersAudible, SendDataPktGood
<1> QED
  BY <1>1, <1>2, <1>4, OwnStep

\* WaitACKTimer fires: the packet is repeated later or given up.
LEMMA WaitACKTimerIInv == ASSUME IInv, NEW n \in Node, WaitACKTimer(n) PROVE IInv'
<1>1. PICK sends \in BOOLEAN : Becomes(n, doBackoff([mac[n] EXCEPT !.waitTimer = FALSE], sends), {})
  BY DEF WaitACKTimer, Coin
<1>2. /\ mac[n].waitTimer
      /\ mac[n].statusEvent => mac[n].isAck
      /\ UNCHANGED <<todo, handedUp, lastUp>>
  BY DEF WaitACKTimer
<1>3. Good(n, doBackoff([mac[n] EXCEPT !.waitTimer = FALSE], sends), Range(mac[n].queue), Senders(n),
           handedUp, Blocked(n))
  BY <1>2, NodeFacts, SendersAudible, DoBackoffGood
<1> QED
  BY <1>1, <1>2, <1>3, OwnStep

\* The timer of data or of an ACK that met a busy radio fires.
LEMMA RetryTimerIInv == ASSUME IInv, NEW n \in Node, RetryTimer(n) PROVE IInv'
<1>1. PICK f \in BagToSet(mac[n].retry) :
        Becomes(n, sendPkt([mac[n] EXCEPT !.retry = @ (-) SetToBag({f})], f), {})
  BY DEF RetryTimer
<1> DEFINE o == [mac[n] EXCEPT !.retry = @ (-) SetToBag({f})]
<1>2. UNCHANGED <<todo, handedUp, lastUp>>
  BY DEF RetryTimer
<1>3. /\ f \in AckOf(n, handedUp) /\ Fresh(o)
      /\ Good(n, o, Range(mac[n].queue), Senders(n), handedUp, Blocked(n))
  BY NodeFacts, RetryOver
<1>4. Becomes(n, sendPkt(o, f), {})
  BY <1>1
<1> HIDE DEF o
<1>5. Good(n, sendPkt(o, f), Range(mac[n].queue), Senders(n), handedUp, Blocked(n))
  BY <1>3, NodeFacts, SendersAudible, SendAckGood
<1> QED
  BY <1>2, <1>4, <1>5, OwnStep

\* A step that takes the frame of s off the link to r.
LEMMA LinkStep ==
  ASSUME IInv, NEW s, NEW r, <<s, r>> \in Hears, link[<<s, r>>] # <<>>,
         NEW m, Becomes(r, m, {<<s, r>>}),
         Good(r, m, Range(mac[r].queue), Senders(r) \ {s}, handedUp', Blocked(r)),
         UNCHANGED todo, handedUp' \in Received, \A k \in Node : handedUp[k] \subseteq handedUp'[k],
         \/ UNCHANGED lastUp
         \/ /\ Head(link[<<s, r>>]).type = "DATA"
            /\ lastUp' = [lastUp EXCEPT ![<<s, r>>] = Head(link[<<s, r>>]).no]
  PROVE  IInv'
<1> DEFINE Q == Range(mac[r].queue)
           S == Senders(r) \ {s}
           l0 == <<s, r>>
<1>1. s \in Node /\ r \in Node
  BY MediumAssumption
<1>2. Q \subseteq DataOf(r) /\ Audible(S)
  <2>1. Q \subseteq DataOf(r) /\ Audible(Senders(r)) /\ S \subseteq Senders(r)
    BY <1>1, NodeFacts, SendersAudible
  <2> HIDE DEF Q, S
  <2> QED
    BY <2>1, FS_Subset DEF Audible
<1>3. \A k \in S : <<k, r>> \in Hears /\ link[<<k, r>>] # <<>> /\ <<k, r>> \notin {l0}
  BY DEF Senders
<1>4. {l0} \subseteq Hears /\ \A l \in {l0} : l[2] = r /\ link[l] # <<>>
  OBVIOUS
<1>5. /\ \A k \in Node : Ascending(todo[k])
      /\ Behind(Q, Range(todo[r]))
      /\ todo \in [Node -> Seq(Packet)] /\ lastUp \in [Hears -> Nat]
  BY <1>1 DEF IInv, OrderOK, HistoryOK
<1>6. \A l \in Hears : l[1] = r => Behind(DataIn(link[l]), Q) /\ \A f \in Q : lastUp[l] <= f.no
  BY DEF IInv, OrderOK, ToSend, Behind
<1>7. Head(link[l0]).no \in Nat
  <2>1. handedUp \in Received
    BY DEF IInv, HistoryOK
  <2>2. link[l0] \in Seq(Frames(s, handedUp))
    BY DEF IInv, LinksOK
  <2>3. \A k \in Node : handedUp[k] \subseteq handedUp[k]
    OBVIOUS
  <2>4. \A f \in Frames(s, handedUp) : f.no \in Nat
    BY <1>1, <2>1, <2>3, FramesMono
  <2>5. Head(link[l0]) \in Frames(s, handedUp)
    BY <2>2, HeadTailProperties
  <2> QED
    BY <2>4, <2>5
<1>8. /\ lastUp' \in [Hears -> Nat]
      /\ \A l \in Hears : \/ lastUp'[l] = lastUp[l]
                          \/ /\ l \in {l0} /\ Head(link[l]).type = "DATA"
                             /\ lastUp'[l] = Head(link[l]).no
  BY <1>5, <1>7
<1>9. Good(r, m, Q, S, handedUp', Blocked(r)) /\ Becomes(r, m, {l0})
  OBVIOUS
<1>10. Moves(r, m, Q, S, {l0})
  <2> HIDE DEF Q, S, l0
  <2> QED
    BY <1>2, <1>3, <1>4, <1>5, <1>6, <1>8, <1>9 DEF Moves
<1> QED
  BY <1>1, <1>10, MovesKeep

\* The frame at the head of a link.
LEMMA HeadFacts ==
  ASSUME IInv, NEW s, NEW r, <<s, r>> \in Hears, link[<<s, r>>] # <<>>
  PROVE  /\ s \in Node /\ r \in Node /\ s \in Senders(r)
         /\ Head(link[<<s, r>>]) \in Frames(s, handedUp)
         /\ Head(link[<<s, r>>]).SA = s /\ Head(link[<<s, r>>]).no \in Nat
<1>1. s \in Node /\ r \in Node
  BY MediumAssumption
<1>2. Head(link[<<s, r>>]) \in Frames(s, handedUp)
  <2>1. link[<<s, r>>] \in Seq(Frames(s, handedUp))
    BY DEF IInv, LinksOK
  <2> QED
    BY <2>1, HeadTailProperties
<1> QED
  BY <1>1, <1>2, DataFacts, AckFacts DEF Frames, Senders

\* What is on the channel of a node is on a link to it.
LEMMA HeardIsSender ==
  ASSUME IInv, NEW r \in Node, NEW s, Heard(mac[r].radio, s)
  PROVE  s \in Senders(r) /\ <<s, r>> \in Hears /\ link[<<s, r>>] # <<>>
<1>1. mac[r].radio.chan \in ChannelState(Senders(r))
  BY NodeFacts DEF Good, Core, RadioInv, RadioState
<1>2. s \in Senders(r)
  BY <1>1, SendersAudible, ActiveIsFinite DEF Heard
<1> QED
  BY <1>2 DEF Senders

\* A step that leaves nothing to be sent changes only what Becomes names.
LEMMA SilentBecomes ==
  ASSUME IInv, NEW n \in Node, NEW m, NEW Q, NEW S, Good(n, m, Q, S, handedUp, Blocked(n)), Fresh(m),
         mac' = [mac EXCEPT ![n] = m], NEW ended, UNCHANGED <<crash, blockedTx>>, crash = "none",
         \A l \in Hears : link'[l] = IF l \in ended THEN Tail(link[l]) ELSE link[l],
         link' = [l \in Hears |-> link'[l]]
  PROVE  Becomes(n, m, ended)
<1>1. m \in State(n, Q, S, handedUp) /\ m.out = NoFrame /\ m.stuck = {} /\ m.crash = "none"
  BY DEF Good, Core, Fresh
<1>2. [m EXCEPT !.out = NoFrame, !.stuck = {}, !.crash = "none"] = m
  BY <1>1 DEF State
<1>3. mac' = [mac EXCEPT ![n] = [m EXCEPT !.out = NoFrame, !.stuck = {}, !.crash = "none"]]
  BY <1>2
<1>4. link' = Carry(link, n, m.out, ended)
  <2>1. Carry(link, n, m.out, ended) = [l \in Hears |-> IF l \in ended THEN Tail(link[l]) ELSE link[l]]
    BY <1>1 DEF Carry
  <2> QED
    BY <2>1
<1>5. crash' = m.crash /\ blockedTx' = blockedTx \cup {<<n, t>> : t \in m.stuck}
  BY <1>1
<1> QED
  BY <1>3, <1>4, <1>5 DEF Becomes

\* The head of a frame reaches r.
LEMMA ArriveIInv == ASSUME IInv, NEW s, NEW r, <<s, r>> \in Hears, Arrive(s, r) PROVE IInv'
<1> DEFINE l0 == <<s, r>>
           S == Senders(r)
<1>1. /\ crash = "none" /\ link[l0] # <<>> /\ ~Heard(mac[r].radio, s)
      /\ UNCHANGED <<todo, crash, handedUp, lastUp, blockedTx>>
  BY DEF Arrive
<1>2. /\ s \in Node /\ r \in Node /\ s \in S
  BY <1>1, HeadFacts
<1>3. /\ Good(r, mac[r], Range(mac[r].queue), S, handedUp, Blocked(r)) /\ Fresh(mac[r]) /\ Audible(S)
  BY <1>2, NodeFacts, SendersAudible
<1>4. link = [l \in Hears |-> link[l]] /\ mac = [n \in Node |-> mac[n]] /\ handedUp \in Received
  BY DEF IInv, LinksOK, NodesOK, HistoryOK
<1>5. CASE DeafRadio(mac[r].radio)
  <2>1. link' = [link EXCEPT ![l0] = Tail(@)] /\ mac' = mac
    BY <1>5 DEF Arrive
  <2>2. /\ \A l \in Hears : link'[l] = IF l \in {l0} THEN Tail(link[l]) ELSE link[l]
        /\ link' = [l \in Hears |-> link'[l]]
    BY <1>4, <2>1
  <2>3. mac' = [mac EXCEPT ![r] = mac[r]]
    BY <1>2, <1>4, <2>1
  <2>4. Becomes(r, mac[r], {l0})
    <3> HIDE DEF l0, S
    <3> QED
      BY <1>1, <1>2, <1>3, <2>2, <2>3, SilentBecomes
  <2>5. Good(r, mac[r], Range(mac[r].queue), S \ {s}, handedUp, Blocked(r))
    <3>1. RadioInv(S, mac[r].radio) /\ mac[r].radio.chan \in ChannelState(S)
      BY <1>3 DEF Good, Core, RadioInv, RadioState
    <3> HIDE DEF S
    <3>2. Active(mac[r].radio.chan) \subseteq S \ {s}
      BY <1>1, <1>3, <3>1, ActiveIsFinite DEF Heard
    <3>3. RadioInv(S \ {s}, mac[r].radio)
      BY <1>3, <3>1, <3>2, RadioInvNarrow
    <3>4. mac[r].radio \in RadioState(S \ {s})
      BY <3>3 DEF RadioInv
    <3> QED
      BY <1>3, <3>3, <3>4 DEF Good, Core, State
  <2>6. handedUp' = handedUp /\ todo' = todo /\ lastUp' = lastUp
    BY <1>1
  <2> QED
    BY <1>1, <1>4, <2>4, <2>5, <2>6, LinkStep
<1>6. CASE ~DeafRadio(mac[r].radio)
  <2> DEFINE m == [mac[r] EXCEPT !.radio = RecvUp(@, s)]
  <2>1. mac' = [mac EXCEPT ![r].radio = RecvUp(@, s)] /\ link' = link
    BY <1>6 DEF Arrive
  <2>2. mac' = [mac EXCEPT ![r] = m]
    BY <2>1
  <2>3. Good(r, m, Range(mac[r].queue), S, handedUp, Blocked(r)) /\ Fresh(m)
    BY <1>1, <1>2, <1>3, <1>6, RecvUpGood
  <2>4. /\ \A l \in Hears : link'[l] = IF l \in {} THEN Tail(link[l]) ELSE link[l]
        /\ link' = [l \in Hears |-> link'[l]]
    BY <1>4, <2>1
  <2>5. Becomes(r, m, {})
    <3> HIDE DEF m, S
    <3> QED
      BY <1>1, <1>2, <2>2, <2>3, <2>4, SilentBecomes
  <2>6. UNCHANGED <<todo, handedUp, lastUp>>
    BY <1>1
  <2> HIDE DEF m
  <2> QED
    BY <1>2, <2>3, <2>5, <2>6, OwnStep
<1> QED
  BY <1>5, <1>6

\* What the three ends of a reception have in common.
LEMMA LastBitFacts ==
  ASSUME IInv, NEW s, NEW r, <<s, r>> \in Hears, LastBit(s, r)
  PROVE  /\ s \in Node /\ r \in Node /\ link[<<s, r>>] # <<>>
         /\ Head(link[<<s, r>>]) \in Frames(s, handedUp)
         /\ Head(link[<<s, r>>]).SA = s /\ Head(link[<<s, r>>]).no \in Nat
         /\ Audible(Senders(r) \ {s})
         /\ Range(mac[r].queue) \subseteq DataOf(r)
         /\ Good(r, AfterReception(s, r), Range(mac[r].queue), Senders(r) \ {s}, handedUp, Blocked(r))
         /\ Fresh(AfterReception(s, r))
<1>1. Heard(mac[r].radio, s) /\ r \in Node
  BY MediumAssumption DEF LastBit
<1>2. link[<<s, r>>] # <<>> /\ s \in Senders(r)
  BY <1>1, HeardIsSender
<1>3. Audible(Senders(r)) /\ Audible(Senders(r) \ {s})
  <2>1. Audible(Senders(r)) /\ Senders(r) \ {s} \subseteq Senders(r)
    BY <1>1, SendersAudible
  <2> QED
    BY <2>1, FS_Subset DEF Audible
<1>4. /\ Good(r, AfterReception(s, r), Range(mac[r].queue), Senders(r) \ {s}, handedUp, Blocked(r))
      /\ Fresh(AfterReception(s, r))
  BY <1>1, <1>3, NodeFacts, EndedGood DEF AfterReception
<1> QED
  BY <1>1, <1>2, <1>3, <1>4, HeadFacts, NodeFacts

\* A reception ends in nothing that is handed up.
LEMMA RecvNothingIInv == ASSUME IInv, NEW s, NEW r, <<s, r>> \in Hears, RecvNothing(s, r) PROVE IInv'
<1>1. LastBit(s, r) /\ Becomes(r, AfterReception(s, r), {<<s, r>>}) /\ UNCHANGED <<todo, handedUp, lastUp>>
  BY DEF RecvNothing
<1>2. handedUp \in Received
  BY DEF IInv, HistoryOK
<1>3. Good(r, AfterReception(s, r), Range(mac[r].queue), Senders(r) \ {s}, handedUp, Blocked(r))
      /\ link[<<s, r>>] # <<>>
  BY <1>1, LastBitFacts
<1>4. handedUp' = handedUp /\ todo' = todo /\ lastUp' = lastUp
  BY <1>1
<1> QED
  BY <1>1, <1>2, <1>3, <1>4, LinkStep

\* An acknowledgement is received.
LEMMA RecvAckFrameIInv == ASSUME IInv, NEW s, NEW r, <<s, r>> \in Hears, RecvAckFrame(s, r) PROVE IInv'
<1> DEFINE f == Head(link[<<s, r>>])
           S == Senders(r) \ {s}
           Q == Range(mac[r].queue)
           a == AfterReception(s, r)
<1>1. /\ LastBit(s, r) /\ f.type = "ACK" /\ Addressed(r, f) /\ UNCHANGED <<todo, handedUp, lastUp>>
  BY DEF RecvAckFrame
<1>2. PICK sends \in BOOLEAN : Becomes(r, RecvAck(a, f, sends), {<<s, r>>})
  BY DEF RecvAckFrame, Coin
<1>3. handedUp \in Received
  BY DEF IInv, HistoryOK
<1>4. /\ s \in Node /\ r \in Node /\ link[<<s, r>>] # <<>> /\ f \in Frames(s, handedUp)
      /\ f.SA = s /\ f.no \in Nat /\ Audible(S) /\ Q \subseteq DataOf(r)
      /\ Good(r, a, Q, S, handedUp, Blocked(r)) /\ Fresh(a)
  BY <1>1, LastBitFacts
<1>5. <<r, f.no>> \in handedUp[s]
  <2>1. f \in AckOf(s, handedUp)
    BY <1>1, <1>4, DataFacts DEF Frames
  <2>2. f.DA = r
    BY <1>1 DEF Addressed
  <2> QED
    BY <1>4, <2>1, <2>2, AckFacts
<1>6. Good(r, RecvAck(a, f, sends), Q, S, handedUp, Blocked(r))
  <2> HIDE DEF Q, S, a, f
  <2> QED
    BY <1>4, <1>5, RecvAckGood
<1>7. handedUp' = handedUp /\ todo' = todo /\ lastUp' = lastUp
  BY <1>1
<1> HIDE DEF a, f
<1> QED
  BY <1>2, <1>3, <1>4, <1>6, <1>7, LinkStep

\* Data is received, handed up and acknowledged.
LEMMA RecvDataFrameIInv == ASSUME IInv, NEW s, NEW r, <<s, r>> \in Hears, RecvDataFrame(s, r) PROVE IInv'
<1> DEFINE f == Head(link[<<s, r>>])
           S == Senders(r) \ {s}
           Q == Range(mac[r].queue)
           a == AfterReception(s, r)
<1>1. /\ LastBit(s, r) /\ f.type = "DATA" /\ UNCHANGED todo
      /\ handedUp' = [handedUp EXCEPT ![r] = @ \cup {<<s, f.no>>}]
      /\ lastUp' = [lastUp EXCEPT ![<<s, r>>] = f.no]
  BY DEF RecvDataFrame
<1>2. PICK sends \in BOOLEAN : Becomes(r, RecvData(a, r, f, sends), {<<s, r>>})
  BY DEF RecvDataFrame, Coin
<1>3. handedUp \in Received
  BY DEF IInv, HistoryOK
<1>4. /\ s \in Node /\ r \in Node /\ link[<<s, r>>] # <<>>
      /\ f.SA = s /\ f.no \in Nat /\ Audible(S) /\ Q \subseteq DataOf(r)
      /\ Good(r, a, Q, S, handedUp, Blocked(r)) /\ Fresh(a)
  BY <1>1, LastBitFacts
<1>5. /\ handedUp' \in Received /\ \A k \in Node : handedUp[k] \subseteq handedUp'[k]
      /\ <<s, f.no>> \in handedUp'[r]
  <2>1. <<s, f.no>> \in Node \X Nat
    BY <1>4
  <2> QED
    BY <1>1, <1>3, <1>4, <2>1 DEF Received
<1>6. a.queue \in Seq(Q) /\ a.out = NoFrame
  BY <1>4 DEF Good, Core, State, Fresh
<1>7. Good(r, a, Q, S, handedUp', Blocked(r))
  <2>1. Range(a.queue) \subseteq Q
    BY <1>6, RangeOfSeq
  <2>2. a.out \in Q \cup AckOf(r, handedUp) \cup {NoFrame}
    BY <1>6
  <2> HIDE DEF Q, S, a, f
  <2> QED
    BY <1>3, <1>4, <1>5, <2>1, <2>2, GoodChange
<1>8. Good(r, RecvData(a, r, f, sends), Q, S, handedUp', Blocked(r))
  <2> HIDE DEF Q, S, a, f
  <2> QED
    BY <1>4, <1>5, <1>7, RecvDataGood
<1>9. todo' = todo
  BY <1>1
<1> HIDE DEF a
<1> QED
  BY <1>1, <1>2, <1>4, <1>5, <1>8, <1>9, LinkStep

\* A link is the pair of its ends.
LEMMA HearsPairs == \A l \in Hears : <<l[1], l[2]>> = l
  BY MediumAssumption

\* Every step keeps the invariant: one case for each disjunct of Next.
LEMMA NextIInv == IInv /\ [Next]_vars => IInv'
<1> SUFFICES ASSUME IInv, [Next]_vars PROVE IInv'
  OBVIOUS
<1>1. ASSUME NEW n \in Node, Submit(n) PROVE IInv'
  BY <1>1, SubmitIInv
<1>2. ASSUME NEW n \in Node, StatusHandler(n) PROVE IInv'
  BY <1>2, StatusHandlerIInv
<1>3. ASSUME NEW n \in Node, BackoffTimer(n) PROVE IInv'
  BY <1>3, BackoffTimerIInv
<1>4. ASSUME NEW n \in Node, WaitACKTimer(n) PROVE IInv'
  BY <1>4, WaitACKTimerIInv
<1>5. ASSUME NEW n \in Node, RetryTimer(n) PROVE IInv'
  BY <1>5, RetryTimerIInv
<1>6. ASSUME NEW l \in Hears, Arrive(l[1], l[2]) PROVE IInv'
  BY <1>6, HearsPairs, ArriveIInv
<1>7. ASSUME NEW l \in Hears, RecvNothing(l[1], l[2]) PROVE IInv'
  BY <1>7, HearsPairs, RecvNothingIInv
<1>8. ASSUME NEW l \in Hears, RecvAckFrame(l[1], l[2]) PROVE IInv'
  BY <1>8, HearsPairs, RecvAckFrameIInv
<1>9. ASSUME NEW l \in Hears, RecvDataFrame(l[1], l[2]) PROVE IInv'
  BY <1>9, HearsPairs, RecvDataFrameIInv
<1>10. CASE UNCHANGED vars
  <2>1. /\ mac' = mac /\ link' = link /\ todo' = todo /\ crash' = crash /\ handedUp' = handedUp
        /\ lastUp' = lastUp /\ blockedTx' = blockedTx
    BY <1>10 DEF vars
  <2>2. \A n \in Node : Senders(n)' = Senders(n) /\ Blocked(n)' = Blocked(n) /\ ToSend(n)' = ToSend(n)
    BY <2>1 DEF Senders, Blocked, ToSend
  <2>3. NodesOK'
    BY <2>1, <2>2 DEF IInv, NodesOK
  <2>4. LinksOK'
    BY <2>1 DEF IInv, LinksOK
  <2>5. OrderOK'
    <3>1. \A l \in Hears : l[1] \in Node
      BY MediumAssumption
    <3> QED
      BY <2>1, <2>2, <3>1 DEF IInv, OrderOK
  <2>6. HistoryOK'
    BY <2>1, <2>2 DEF IInv, HistoryOK
  <2> QED
    BY <2>3, <2>4, <2>5, <2>6 DEF IInv
<1> QED
  BY <1>1, <1>2, <1>3, <1>4, <1>5, <1>6, <1>7, <1>8, <1>9, <1>10 DEF Next
----------------------------------------------------------------------------
(* The theorems *)

\* The parts of IInv hold together in every reachable state of every network.
THEOREM Invariance == Spec => []IInv
  BY InitIInv, NextIInv, PTL DEF Spec

\* Every field of a node keeps its type: in particular bo_counter, which
\* doBackoff raises and three handlers clear, stays below MAXIMUMCOUNTER.
THEOREM TypeCorrect == Spec => []TypeOK
<1>1. IInv => TypeOK
  <2> SUFFICES ASSUME IInv PROVE TypeOK
    OBVIOUS
  <2>1. ASSUME NEW n \in Node
        PROVE  /\ mac[n].radio \in RadioState(Node)
               /\ mac[n].status \in {"PASSIVE", "BACKOFF", "WAIT_ACK"}
               /\ mac[n].bo \in 0 .. MAXIMUMCOUNTER - 1
               /\ mac[n].blocked \in BOOLEAN /\ mac[n].statusEvent \in BOOLEAN
               /\ mac[n].isAck \in BOOLEAN
               /\ mac[n].backoffTimer \in BOOLEAN /\ mac[n].waitTimer \in BOOLEAN
               /\ mac[n].out = NoFrame
    <3>1. /\ mac[n] \in State(n, Range(mac[n].queue), Senders(n), handedUp)
          /\ RadioInv(Senders(n), mac[n].radio) /\ mac[n].out = NoFrame
      BY NodeFacts DEF Good, Core, Fresh
    <3>2. mac[n].radio.chan \in ChannelState(Senders(n))
      BY <3>1 DEF RadioInv, RadioState
    <3>3. Active(mac[n].radio.chan) \subseteq Node
      BY <3>2, SendersAudible, ActiveIsFinite
    <3>4. RadioInv(Node, mac[n].radio)
      BY <3>1, <3>3, SendersAudible, RadioInvNarrow
    <3>5. mac[n].radio \in RadioState(Node)
      BY <3>4 DEF RadioInv
    <3> QED
      BY <3>1, <3>5 DEF State
  <2>2. crash \in {"none", "empty queue", "idle timer"}
    BY DEF IInv, HistoryOK
  <2> QED
    BY <2>1, <2>2 DEF TypeOK
<1> QED
  BY <1>1, Invariance, PTL

\* Control state and timers of every node agree.
LEMMA NodeControl == ASSUME IInv, NEW n \in Node PROVE Control(mac[n])
  BY NodeFacts DEF Good, Core

\* No node ever sends over a reception or schedules a pending status_event,
\* however data, acknowledgements, retries and receptions interleave.
THEOREM HalfDuplexCorrect == Spec => []HalfDuplex
<1>1. IInv => HalfDuplex
  BY NodeControl DEF HalfDuplex, Control
<1> QED
  BY <1>1, Invariance, PTL

\* cancel() never meets an idle WaitACKTimer, and what is acknowledged is
\* still at the head of the queue.
THEOREM WaitingCorrect == Spec => []WaitingHasTimer
<1>1. IInv => WaitingHasTimer
  BY NodeControl DEF WaitingHasTimer, Control
<1> QED
  BY <1>1, Invariance, PTL

\* The only way to front() of an empty queue starts with an ACK that finds
\* its radio busy.
THEOREM CrashCorrect == Spec => []CrashNeedsBlockedAck
<1>1. IInv => CrashNeedsBlockedAck
  BY DEF IInv, HistoryOK, CrashNeedsBlockedAck, Blocked
<1> QED
  BY <1>1, Invariance, PTL

\* Data is left in the queue without a timer only where sendPkt once found
\* the radio busy.
THEOREM StallCorrect == Spec => []StallNeedsBusyRadio
<1>1. IInv => StallNeedsBusyRadio
  <2> SUFFICES ASSUME IInv, NEW n \in Node, mac[n].queue # <<>>,
                      ~(mac[n].statusEvent \/ mac[n].backoffTimer \/ mac[n].waitTimer)
               PROVE  \E t \in {"DATA", "ACK"} : <<n, t>> \in blockedTx
    BY DEF StallNeedsBusyRadio
  <2>1. GoesOn(mac[n], Blocked(n)) /\ Control(mac[n])
    BY NodeFacts DEF Good, Core, Fresh
  <2>2. Blocked(n) # {}
    BY <2>1 DEF GoesOn, Control
  <2> QED
    BY <2>2 DEF Blocked
<1> QED
  BY <1>1, Invariance, PTL

\* Whatever is lost, repeated or late, and although RecvProcess does not
\* compare an ACK with the packet that waits, the channel status table never
\* credits a neighbour with a packet it did not pass up.
THEOREM AckedCorrect == Spec => []AckedWasReceived
<1>1. IInv => AckedWasReceived
  <2> SUFFICES ASSUME IInv, NEW n \in Node, NEW i \in DOMAIN mac[n].table, mac[n].table[i].acked
               PROVE  <<n, mac[n].table[i].pkt>> \in handedUp[mac[n].table[i].target]
    BY DEF AckedWasReceived
  <2>1. mac[n].table \in Seq(ElemOf(n, handedUp))
    BY NodeFacts DEF Good, Core, State
  <2>2. mac[n].table[i] \in ElemOf(n, handedUp)
    BY <2>1, LenProperties, ElementOfSeq
  <2> QED
    BY <2>2 DEF ElemOf
<1> QED
  BY <1>1, Invariance, PTL

\* On every link the numbers of the data passed up never go back, through
\* any number of losses, repetitions and packets given up.
THEOREM OrderCorrect == Spec => InOrder
<1>1. IInv /\ [Next]_vars => [\A l \in Hears : lastUp'[l] >= lastUp[l]]_vars
  <2> SUFFICES ASSUME IInv, [Next]_vars, NEW l \in Hears PROVE lastUp'[l] >= lastUp[l]
    OBVIOUS
  <2>1. lastUp \in [Hears -> Nat]
    BY DEF IInv, HistoryOK
  <2>2. CASE lastUp' = lastUp
    BY <2>1, <2>2
  <2>3. ASSUME NEW s, NEW r, <<s, r>> \in Hears, RecvDataFrame(s, r)
        PROVE  lastUp'[l] >= lastUp[l]
    <3> DEFINE f == Head(link[<<s, r>>])
    <3>1. /\ LastBit(s, r) /\ f.type = "DATA"
          /\ lastUp' = [lastUp EXCEPT ![<<s, r>>] = f.no]
      BY <2>3 DEF RecvDataFrame
    <3>2. link[<<s, r>>] # <<>> /\ f.no \in Nat
      BY <2>3, <3>1, LastBitFacts
    <3>3. f \in DataIn(link[<<s, r>>])
      <4>1. link[<<s, r>>] \in Seq(Frames(s, handedUp))
        BY <2>3 DEF IInv, LinksOK
      <4>2. 1 \in DOMAIN link[<<s, r>>] /\ f = link[<<s, r>>][1]
        BY <3>2, <4>1, EmptySeq, LenProperties
      <4> QED
        BY <3>1, <4>2 DEF DataIn, Range
    <3>4. lastUp[<<s, r>>] <= f.no
      BY <2>3, <3>3 DEF IInv, OrderOK
    <3> HIDE DEF f
    <3> QED
      BY <2>1, <3>1, <3>2, <3>4
  <2>4. lastUp' = lastUp \/ \E k \in Hears : RecvDataFrame(k[1], k[2])
    BY DEF Next, vars, Submit, StatusHandler, BackoffTimer, WaitACKTimer, RetryTimer, Arrive,
           RecvNothing, RecvAckFrame
  <2> QED
    BY <2>2, <2>3, <2>4, HearsPairs
<1> QED
  BY <1>1, Invariance, PTL DEF Spec, InOrder
=============================================================================
