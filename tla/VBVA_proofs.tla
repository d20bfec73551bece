---------------------------- MODULE VBVA_proofs ----------------------------
(***************************************************************************)
(* Proofs about VBVA for every placing of the nodes, width of the pipes,   *)
(* delays and choice of source and target.  Good is the part of the        *)
(* invariant that concerns one node, t being the target of the flow;       *)
(* Pending is what may be on the agenda.                                   *)
(***************************************************************************)
EXTENDS VBVA, WellFoundedInduction, FiniteSetTheorems, TLAPS

Fields == {"status", "heard", "kept", "num_recv", "sent", "originated", "unmarked", "out"}
Kinds == {"frame", "forward", "centered", "shift", "backpressure"}
Mark == [o : Node, status : {"FRESHED", "DEAD"}]

\* What a node records of the forwarders it hears.
Table(h, n) == \A f \in DOMAIN h : <<f, n>> \in Hears /\ h[f] \in Mark

\* Everything but the end of the data comes from a node, and of a pipe, that is not
\* at the target, so that there is a vector from there to the target.
Copy(p, t) == p \in Message /\ p.o # t /\ p.f # t

\* The target waits for no timer of its own.
Pending(e, t) ==
  /\ e \in [to : Node, what : Kinds, pkt : Message, left : Nat]
  /\ Copy(e.pkt, t) \/ (e.what = "frame" /\ e.pkt.type = "DATA_TERMINATION")
  /\ e.what = "frame" => <<e.pkt.f, e.to>> \in Hears
  /\ e.what = "shift" => e.pkt.f = e.to
  /\ e.what # "frame" => e.to # t

Typed(m, n, t) ==
  /\ DOMAIN m = Fields /\ m.status \in PacketStatus /\ Table(m.heard, n)
  /\ m.kept = NoCopy \/ (\E p : Copy(p, t) /\ m.kept = {p})
  /\ m.num_recv \in Nat /\ m.sent \in Nat
  /\ \A e \in m.out : Pending(e, t)

\* The target counts the packet when it ends it, and never keeps or forwards it.
Taken(m, n, t) ==
  IF n = t
    THEN /\ m.kept = NoCopy
         /\ m.status \in {"none", "SUPPRESSED", "VOID_SUPPRESSED", "TERMINATED"}
         /\ m.num_recv = 0 \/ (m.num_recv = 1 /\ m.status = "TERMINATED")
    ELSE m.num_recv = 0

Good(m, n, t) == Typed(m, n, t) /\ Taken(m, n, t)

\* What most operations leave alone.
Same(m, k) ==
  k.status = m.status /\ k.heard = m.heard /\ k.kept = m.kept /\ k.num_recv = m.num_recv

\* A handler leads from a good record to a good one, and hands nothing over itself.
Handled(m, k, n, t) == Good(k, n, t) /\ k.originated = m.originated

IInv ==
  /\ flow \in Flow /\ DOMAIN node = Node
  /\ \A n \in Node : Good(node[n], n, Target) /\ node[n].out = {}
  /\ \A e \in BagToSet(agenda) : Pending(e, Target)
  /\ ~node[Source].originated =>
       /\ BagToSet(agenda) = {}
       /\ \A n \in Node : node[n].status = "none" /\ node[n].heard = NoRecord
  /\ faults \in 0 .. MaxFaults[flow]
----------------------------------------------------------------------------
(* The geometry *)

\* A non-empty set of naturals has a least element.
LEMMA Least ==
  ASSUME NEW S \in SUBSET Nat, S # {}
  PROVE  \E x \in S : \A y \in S : x <= y
<1>. DEFINE R == OpToRel(<, Nat)
<1>1. R = {ss \in Nat \X Nat : ss[1] < ss[2]}
  BY DEF OpToRel
<1>2. IsWellFoundedOn(R, Nat)
  BY NatLessThanWellFounded
<1>. HIDE DEF R
<1>3. PICK x \in S : \A y \in S : ~(<<y, x>> \in R)
  BY <1>2, WFMin
<1>4. \A y \in S : x <= y
  <2>. SUFFICES ASSUME NEW y \in S, y < x PROVE FALSE
    OBVIOUS
  <2>1. <<y, x>> \in Nat \X Nat
    OBVIOUS
  <2>2. <<y, x>> \in R
    BY <1>1, <2>1
  <2>. QED  BY <1>3, <2>2
<1>. QED  BY <1>4

\* The square root keeps the order.
LEMMA SquareOrder ==
  ASSUME NEW a \in Nat, NEW b \in Nat, Square(a) < Square(b)
  PROVE  a < b
<1>. SUFFICES ASSUME b <= a PROVE FALSE
  OBVIOUS
<1>. b * b <= a * a
  OBVIOUS
<1>. QED  BY DEF Square

\* Squares are natural and keep the order of the naturals.
LEMMA SquareNat ==
  /\ \A a \in Int : Square(a) \in Nat
  /\ \A a, b \in Nat : a <= b => Square(a) <= Square(b)
<1>1. ASSUME NEW a \in Int PROVE a * a \in Nat
  BY SMT
<1>2. ASSUME NEW a \in Nat, NEW b \in Nat, a <= b PROVE a * a <= b * b
  BY <1>2
<1>. QED  BY <1>1, <1>2 DEF Square

\* The first c with v < Square(c * unit + unit) begins the interval that holds the root.
LEMMA LowerEnd ==
  ASSUME NEW v \in Nat, NEW unit \in Nat \ {0}
  PROVE  \E c \in Nat : IsRoot(unit * c, v, unit)
<1>. DEFINE S == {c \in Nat : v < Square(unit * c + unit)}
<1>1. v \in S
  <2>1. unit * v + unit >= v + 1 /\ unit * v + unit \in Nat
    OBVIOUS
  <2>2. Square(v + 1) <= Square(unit * v + unit)
    BY <2>1, SquareNat
  <2>3. v < Square(v + 1)
    BY DEF Square
  <2>4. Square(v + 1) \in Nat /\ Square(unit * v + unit) \in Nat
    BY <2>1, SquareNat
  <2>. QED  BY <2>2, <2>3, <2>4
<1>2. PICK c \in S : \A y \in S : c <= y
  BY <1>1, Least
<1>3. Square(unit * c) <= v
  <2>1. CASE c = 0
    BY <2>1 DEF Square
  <2>2. CASE c # 0
    <3>1. c - 1 \in Nat /\ c - 1 \notin S
      BY <1>2, <2>2
    <3>2. unit * (c - 1) + unit = unit * c /\ unit * c \in Nat
      OBVIOUS
    <3>3. ~(v < Square(unit * c))
      BY <3>1, <3>2
    <3>. QED  BY <3>2, <3>3, SquareNat
  <2>. QED  BY <2>1, <2>2
<1>. QED  BY <1>2, <1>3 DEF IsRoot

\* The root to within a hundred exists.
LEMMA Hundreds ==
  ASSUME NEW v \in Nat
  PROVE  \E x \in Nat : IsRoot(100 * x, v, 100)
<1>1. 100 \in Nat \ {0}
  OBVIOUS
<1>. QED  BY <1>1, LowerEnd, Zenon

\* Root is the integer square root: its defining inequality has a solution.
LEMMA RootFacts ==
  ASSUME NEW v \in Nat
  PROVE  Root[v] \in Nat /\ IsRoot(Root[v], v, 1)
<1>. DEFINE N == 26 + v \div 1000000
            c == CHOOSE x \in 0 .. N : IsRoot(100 * x, v, 100)
            r == CHOOSE x \in 100 * c .. 100 * c + 99 : IsRoot(x, v, 1)
<1>1. c \in Nat /\ IsRoot(100 * c, v, 100)
  <2>1. PICK x \in Nat : IsRoot(100 * x, v, 100)
    BY Hundreds, Zenon
  <2>2. (100 * x) * (100 * x) <= v
    BY <2>1, SMT DEF IsRoot, Square
  <2>3. N \in Nat /\ x <= N
    <3>. DEFINE q == v \div 1000000
    <3>1. q \in Nat /\ v < 1000000 * q + 1000000
      BY SMT
    <3>. HIDE DEF q
    <3>2. N = 26 + q
      BY SMT DEF q
    <3>. HIDE DEF N, c
    <3>. SUFFICES ASSUME x > N PROVE FALSE
      BY <3>1, <3>2, SMT
    <3>3. 10000 * (x * x) < 1000000 * (x - 25)
      BY <2>2, <3>1, <3>2, SMT
    <3>4. x * x < 100 * (x - 25)
      BY <3>3, <3>1, SMT
    <3>5. (x - 50) * (x - 50) < 0
      BY <3>4, SMT
    <3>. QED  BY <3>5, SMT
  <2>. HIDE DEF N
  <2>4. x \in 0 .. N
    BY <2>3, SMT
  <2>5. c \in 0 .. N /\ IsRoot(100 * c, v, 100)
    BY <2>1, <2>4, Zenon
  <2>. QED  BY <2>3, <2>5, SMT
<1>2. r \in Nat /\ IsRoot(r, v, 1)
  <2>. HIDE DEF c, N
  <2>1. PICK x \in Nat : IsRoot(1 * x, v, 1)
    BY LowerEnd, SMT
  <2>2. Square(x) <= v /\ v < Square(x + 1) /\ Square(100 * c) <= v /\ v < Square(100 * c + 100)
    BY <1>1, <2>1, SMT DEF IsRoot
  <2>3. Square(x) < Square(100 * c + 100) /\ Square(100 * c) < Square(x + 1)
    BY <1>1, <2>2, SquareNat, SMT
  <2>4. x < 100 * c + 100 /\ 100 * c < x + 1
    BY <1>1, <2>3, SquareOrder, SMT
  <2>5. x \in 100 * c .. 100 * c + 99
    BY <1>1, <2>4, SMT
  <2>6. x \in 100 * c .. 100 * c + 99 /\ IsRoot(x, v, 1)
    <3>. 1 * x = x
      OBVIOUS
    <3>. QED  BY <2>1, <2>5
  <2>7. r \in 100 * c .. 100 * c + 99 /\ IsRoot(r, v, 1)
    BY <2>6, Zenon
  <2>. QED  BY <1>1, <2>7, SMT
<1>. QED  BY <1>2, SMT DEF Root

\* Different nodes are at least one unit apart.
LEMMA SquaredDistanceFacts ==
  ASSUME NEW a \in Node, NEW b \in Node
  PROVE  /\ SquaredDistance(a, b) \in Nat
         /\ SquaredDistance(a, b) = SquaredDistance(b, a)
         /\ a # b => SquaredDistance(a, b) >= 1
<1>1. X[a] \in Int /\ X[b] \in Int /\ Y[a] \in Int /\ Y[b] \in Int
  BY VBVAGeometryAssumption
<1>2. a # b => X[a] # X[b] \/ Y[a] # Y[b]
  BY VBVAGeometryAssumption
<1>3. \A i, j \in Int : Square(i - j) \in Nat /\ Square(i - j) = Square(j - i)
  BY SMT DEF Square
<1>4. \A i, j \in Int : i # j => Square(i - j) >= 1
  <2>. SUFFICES ASSUME NEW k \in Int, k # 0 PROVE k * k >= 1
    BY DEF Square
  <2>. QED  BY SMT
<1>. DEFINE x == Square(X[a] - X[b])
            y == Square(Y[a] - Y[b])
<1>5. x \in Nat /\ y \in Nat /\ x = Square(X[b] - X[a]) /\ y = Square(Y[b] - Y[a])
  BY <1>1, <1>3
<1>6. a # b => x >= 1 \/ y >= 1
  BY <1>1, <1>2, <1>4
<1>7. SquaredDistance(a, b) = x + y /\ SquaredDistance(b, a) = x + y
  BY <1>5 DEF SquaredDistance
<1>. HIDE DEF x, y
<1>. QED  BY <1>5, <1>6, <1>7

\* Who is heard is within range.
LEMMA DistanceFacts ==
  ASSUME NEW a \in Node, NEW b \in Node
  PROVE  /\ distance[<<a, b>>] \in Nat
         /\ <<a, b>> \in Hears \/ <<b, a>> \in Hears => distance[<<a, b>>] <= TransmitDistance
<1>. DEFINE v == SquaredDistance(a, b)
<1>1. v \in Nat /\ v = SquaredDistance(b, a)
  BY SquaredDistanceFacts
<1>2. distance[<<a, b>>] = Root[v]
  BY DEF distance
<1>. HIDE DEF v
<1>3. Root[v] \in Nat /\ Square(Root[v]) <= v
  BY <1>1, RootFacts DEF IsRoot
<1>4. ASSUME <<a, b>> \in Hears \/ <<b, a>> \in Hears
      PROVE  Root[v] <= TransmitDistance
  <2>1. v <= Square(TransmitDistance)
    BY <1>1, <1>4 DEF Hears, v
  <2>2. TransmitDistance \in Nat /\ Square(TransmitDistance) \in Nat /\ Square(Root[v]) \in Nat
    BY <1>3, SquareNat, VBVAGeometryAssumption
  <2>3. Square(Root[v]) < Square(TransmitDistance + 1)
    BY <1>1, <1>3, <2>1, <2>2 DEF Square
  <2>4. Root[v] < TransmitDistance + 1
    BY <1>3, <2>2, <2>3, SquareOrder
  <2>. QED  BY <1>3, <2>2, <2>4
<1>. QED  BY <1>2, <1>3, <1>4

\* The vector from one node to another has a length.
LEMMA LengthFacts ==
  ASSUME NEW a \in Node, NEW b \in Node, a # b
  PROVE  Length[<<a, b>>] \in Nat \ {0}
<1>. DEFINE v == 100 * SquaredDistance(a, b)
<1>1. v \in Nat /\ v >= 1
  BY SquaredDistanceFacts
<1>2. Length[<<a, b>>] = Root[v]
  BY DEF Length
<1>. HIDE DEF v
<1>3. Root[v] \in Nat /\ v < Square(Root[v] + 1)
  BY <1>1, RootFacts DEF IsRoot
<1>4. Root[v] # 0
  BY <1>1, <1>3 DEF Square
<1>. QED  BY <1>2, <1>3, <1>4

\* So one can divide by it to project a third node.
LEMMA ProjectionFacts ==
  ASSUME NEW s \in Node, NEW t \in Node, NEW m \in Node, s # t
  PROVE  projection(s, t, m) \div Width[m] \in Int
<1>1. X[s] \in Int /\ X[t] \in Int /\ X[m] \in Int /\ Y[s] \in Int /\ Y[t] \in Int /\ Y[m] \in Int
      /\ Width[m] \in Nat \ {0}
  BY VBVAGeometryAssumption
<1>2. Cross(s, t, m) \in Int
  BY <1>1 DEF Cross
<1>3. Magnitude(Cross(s, t, m)) * 1000 \in Int
  BY <1>2, SMT DEF Magnitude
<1>4. \A i \in Int, k \in Nat \ {0} : i \div k \in Int
  BY SMT
<1>5. projection(s, t, m) \in Int
  BY <1>3, <1>4, LengthFacts, SMT DEF projection
<1>. QED  BY <1>1, <1>4, <1>5

\* How far behind the ideal a node is, is an integer.
LEMMA LagFacts ==
  ASSUME NEW f \in Node, NEW t \in Node, NEW m \in Node, f # t
  PROVE  Lag(f, t, m) \in Int
<1>1. X[f] \in Int /\ X[t] \in Int /\ X[m] \in Int /\ Y[f] \in Int /\ Y[t] \in Int /\ Y[m] \in Int
      /\ TransmitDistance \in Nat \ {0}
  BY VBVAGeometryAssumption
<1>2. Dot(f, t, m) \in Int
  BY <1>1 DEF Dot
<1>3. Dot(f, t, m) * 1000 \in Int
  BY <1>2, SMT
<1>4. \A i \in Int, k \in Nat \ {0} : i \div k \in Int
  BY SMT
<1>5. Advance(f, t, m) \in Int
  BY <1>3, <1>4, LengthFacts, SMT DEF Advance
<1>6. 100 * TransmitDistance - Advance(f, t, m) \in Int
  BY <1>1, <1>5
<1>. QED  BY <1>1, <1>4, <1>6 DEF Lag
----------------------------------------------------------------------------
(* Delays *)

\* A root of hundredths is natural.
LEMMA RootOfNat ==
  ASSUME NEW h \in Nat
  PROVE  RootOf[h] \in Nat
<1>1. 100 * h \in Nat
  OBVIOUS
<1>2. Root[100 * h] \in Nat
  BY <1>1, RootFacts
<1>3. Root[100 * h] * DELAY \in Nat
  BY <1>2, VBVAAssumption
<1>4. (Root[100 * h] * DELAY) \div 100 \in Nat
  BY <1>3, SMT
<1>. QED  BY <1>4 DEF RootOf

\* The constants of the code, in ticks and metres.
LEMMA ConstantsNat ==
  /\ DELAY \in Nat /\ JITTER \in Nat /\ MetresPerTick \in Nat \ {0} /\ TransmitDistance \in Nat
  /\ d3 \in Nat /\ Jitters \subseteq Nat
<1>1. TransmitDistance \in Nat /\ MetresPerTick \in Nat \ {0} /\ DELAY \in Nat /\ JITTER \in Nat
  BY VBVAAssumption, VBVAGeometryAssumption
<1>2. \A i \in Nat, k \in Nat \ {0} : i \div k \in Nat
  BY SMT
<1>3. Jitters \subseteq Nat
  BY <1>1, VBVAAssumption
<1>. QED  BY <1>1, <1>2, <1>3 DEF d3

\* Shifts and backpressure are never sent into the past.
LEMMA FixedDelays ==
  ShiftDelay \in Nat /\ SourceShiftDelay \in Nat /\ BackpressureDelay \in Nat
<1>1. RootOf[150] \in Nat /\ RootOf[300] \in Nat
  BY RootOfNat, SMT
<1>. QED  BY <1>1, ConstantsNat, SMT DEF ShiftDelay, SourceShiftDelay, BackpressureDelay

\* Neither does a frame arrive before it was sent.
LEMMA TransitNat ==
  ASSUME NEW n \in Node, NEW r \in Node
  PROVE  Transit(n, r) \in Nat
<1>1. distance[<<n, r>>] \in Nat
  BY DistanceFacts
<1>2. distance[<<n, r>>] + MetresPerTick - 1 \in Nat
  BY <1>1, ConstantsNat
<1>3. \A i \in Nat, k \in Nat \ {0} : i \div k \in Nat
  BY SMT
<1>. QED  BY <1>2, <1>3, ConstantsNat DEF Transit

\* Who hears a copy forwards it no earlier than now.
LEMMA ForwardDelayNat ==
  ASSUME flow \in Flow, NEW n \in Node, NEW p, Copy(p, Target), <<p.f, n>> \in Hears
  PROVE  ForwardDelay(n, p) \in Nat
<1>1. p.o \in Node /\ p.f \in Node /\ Target \in Node /\ p.o # Target /\ p.f # Target
  BY VBVAAssumption DEF Copy, Message, Target
<1>2. calculateDelay(p.o, Target, n, p.f) \in Int
  BY <1>1, ProjectionFacts, LagFacts DEF calculateDelay
<1>3. Positive(calculateDelay(p.o, Target, n, p.f)) \in Nat
  BY <1>2 DEF Positive
<1>4. RootOf[Positive(calculateDelay(p.o, Target, n, p.f))] \in Nat
  BY <1>3, RootOfNat
<1>5. 2 * (TransmitDistance - distance[<<n, p.f>>]) \in Nat
  BY <1>1, DistanceFacts, ConstantsNat
<1>6. \A i \in Nat, k \in Nat \ {0} : i \div k \in Nat
  BY SMT
<1>7. (2 * (TransmitDistance - distance[<<n, p.f>>])) \div MetresPerTick \in Nat
  BY <1>5, <1>6, ConstantsNat
<1>. QED  BY <1>4, <1>7, ConstantsNat DEF ForwardDelay

\* The wait of a node that may be the centre is natural.
LEMMA CenteredDelayNat ==
  ASSUME flow \in Flow, NEW n \in Node, NEW p, p.f \in Node, p.f # Target
  PROVE  CenteredDelay(n, p) \in Nat
<1>1. Target \in Node
  BY VBVAAssumption DEF Target
<1>2. projection(p.f, Target, n) \div Width[n] \in Int /\ Lag(p.f, Target, n) \in Int
  BY <1>1, ProjectionFacts, LagFacts
<1>3. 100 * Positive(100 - (projection(p.f, Target, n) \div Width[n]) + Lag(p.f, Target, n)) \in Nat
  BY <1>2, SMT DEF Positive
<1>4. calculateSelfCenteredDelay(Target, n, p.f) \in Nat
  BY <1>3, RootFacts DEF calculateSelfCenteredDelay
<1>5. RootOf[calculateSelfCenteredDelay(Target, n, p.f)] \in Nat
  BY <1>4, RootOfNat
<1>. QED  BY <1>5 DEF CenteredDelay
----------------------------------------------------------------------------
(* What a node puts on the agenda *)

\* The fields of a message.
LEMMA MessageFacts ==
  ASSUME NEW p \in Message
  PROVE  p.type \in Control \cup {"DATA"} /\ p.o \in Node /\ p.f \in Node
BY DEF Message

\* A message from its fields.
LEMMA MessageMade ==
  ASSUME NEW type \in Control \cup {"DATA"}, NEW o \in Node, NEW f \in Node
  PROVE  [type |-> type, o |-> o, f |-> f] \in Message
BY DEF Message

\* A copy that n passes on is again a copy from elsewhere than the target.
LEMMA Prepares ==
  ASSUME NEW n \in Node, NEW t, n # t, NEW p, Copy(p, t)
  PROVE  Copy(Prepared(n, p), t) /\ Prepared(n, p).f = n /\ Prepared(n, p).type = p.type
BY DEF Copy, Prepared, Message

\* A copy stays one when its type changes.
LEMMA Retypes ==
  ASSUME NEW t, NEW p, Copy(p, t), NEW type \in Control \cup {"DATA"}
  PROVE  Copy([p EXCEPT !.type = type], t) /\ [p EXCEPT !.type = type].f = p.f
BY DEF Copy, Message

\* Listeners are nodes that hear.
LEMMA AudibleFacts ==
  ASSUME NEW n \in Node, NEW r \in Listeners(n)
  PROVE  r \in Node /\ <<n, r>> \in Hears
BY DEF Listeners

\* An event is put on the agenda.
LEMMA Puts ==
  ASSUME NEW n \in Node, NEW t, n # t, NEW m, Good(m, n, t),
         NEW what \in Kinds \ {"frame"}, NEW p, Copy(p, t), what = "shift" => p.f = n,
         NEW left \in Nat
  PROVE  /\ Handled(m, Put(m, n, what, p, left), n, t)
         /\ Same(m, Put(m, n, what, p, left))
<1>. DEFINE e == At(n, what, p, left)
            k == Put(m, n, what, p, left)
<1>1. e.to = n /\ e.what = what /\ e.pkt = p /\ e.left = left
      /\ e \in [to : Node, what : Kinds, pkt : Message, left : Nat]
  BY DEF At, Copy
<1>. HIDE DEF e
<1>2. Pending(e, t)
  BY <1>1 DEF Pending
<1>3. /\ DOMAIN k = Fields /\ k.out = m.out \cup {e} /\ Same(m, k)
      /\ k.sent = m.sent /\ k.originated = m.originated
  BY DEF Good, Typed, Fields, Put, Same, e
<1>. HIDE DEF k
<1>4. Typed(k, n, t)
  BY <1>2, <1>3 DEF Good, Typed, Same
<1>5. Taken(k, n, t)
  BY <1>3 DEF Good, Taken, Same
<1>. QED  BY <1>3, <1>4, <1>5 DEF Handled, Good, k

\* A message is sent to all listeners.
LEMMA Sends ==
  ASSUME NEW n \in Node, NEW t, NEW m, Good(m, n, t),
         NEW p \in Message, p.f = n, Copy(p, t) \/ p.type = "DATA_TERMINATION",
         NEW delay \in Nat
  PROVE  /\ Handled(m, MACsend(m, n, p, delay), n, t)
         /\ Same(m, MACsend(m, n, p, delay))
<1>. DEFINE frames == {At(r, "frame", p, delay + Transit(n, r)) : r \in Listeners(n)}
            k == MACsend(m, n, p, delay)
<1>1. ASSUME NEW r \in Listeners(n)
      PROVE  Pending(At(r, "frame", p, delay + Transit(n, r)), t)
  <2>. DEFINE e == At(r, "frame", p, delay + Transit(n, r))
              left == delay + Transit(n, r)
  <2>1. r \in Node /\ <<n, r>> \in Hears
    BY AudibleFacts
  <2>2. left \in Nat
    BY <2>1, TransitNat
  <2>. HIDE DEF left
  <2>3. /\ e.to = r /\ e.what = "frame" /\ e.pkt = p
        /\ e \in [to : Node, what : Kinds, pkt : Message, left : Nat]
    BY <2>1, <2>2 DEF At, Kinds, left
  <2>. HIDE DEF e
  <2>4. Pending(e, t)
    BY <2>1, <2>3 DEF Pending
  <2>. QED  BY <2>4 DEF e
<1>2. \A e \in frames : Pending(e, t)
  BY <1>1
<1>3. /\ DOMAIN k = Fields /\ k.out = m.out \cup frames /\ Same(m, k)
      /\ k.sent = (IF p.type = "DATA" THEN m.sent + 1 ELSE m.sent)
      /\ k.originated = m.originated
  <2>. HIDE DEF frames
  <2>. QED  BY DEF Good, Typed, Fields, MACsend, Same, frames
<1>. HIDE DEF k, frames
<1>4. k.sent \in Nat
  BY <1>3 DEF Good, Typed
<1>5. Typed(k, n, t)
  BY <1>2, <1>3, <1>4 DEF Good, Typed, Same
<1>6. Taken(k, n, t)
  BY <1>3 DEF Good, Taken, Same
<1>. QED  BY <1>3, <1>5, <1>6 DEF Handled, Good, k

----------------------------------------------------------------------------
(* The tables and the status *)

\* The status of the packet changes, at the target only to a final one.
LEMMA SetsStatus ==
  ASSUME NEW n \in Node, NEW t, NEW m, Good(m, n, t), NEW s \in PacketStatus,
         n = t => s \in {"SUPPRESSED", "VOID_SUPPRESSED", "TERMINATED"}
                  /\ (m.num_recv = 0 \/ s = "TERMINATED")
  PROVE  /\ Handled(m, [m EXCEPT !.status = s], n, t)
         /\ [m EXCEPT !.status = s].status = s
         /\ [m EXCEPT !.status = s].kept = m.kept
         /\ [m EXCEPT !.status = s].heard = m.heard
         /\ [m EXCEPT !.status = s].num_recv = m.num_recv
<1>. DEFINE k == [m EXCEPT !.status = s]
<1>1. /\ DOMAIN k = Fields /\ k.status = s /\ k.heard = m.heard /\ k.kept = m.kept
      /\ k.num_recv = m.num_recv /\ k.sent = m.sent /\ k.out = m.out
      /\ k.originated = m.originated
  BY DEF Good, Typed, Fields
<1>. HIDE DEF k
<1>2. Typed(k, n, t)
  BY <1>1 DEF Good, Typed
<1>3. Taken(k, n, t)
  BY <1>1 DEF Good, Taken
<1>4. Handled(m, k, n, t)
  BY <1>1, <1>2, <1>3 DEF Handled, Good
<1>. QED  BY <1>1, <1>4 DEF k

\* The record of heard neighbours changes.
LEMMA SetsHeard ==
  ASSUME NEW n \in Node, NEW t, NEW m, Good(m, n, t), NEW h, Table(h, n)
  PROVE  /\ Handled(m, [m EXCEPT !.heard = h], n, t)
         /\ [m EXCEPT !.heard = h].status = m.status
         /\ [m EXCEPT !.heard = h].kept = m.kept
         /\ [m EXCEPT !.heard = h].num_recv = m.num_recv
<1>. DEFINE k == [m EXCEPT !.heard = h]
<1>1. /\ DOMAIN k = Fields /\ k.status = m.status /\ k.heard = h /\ k.kept = m.kept
      /\ k.num_recv = m.num_recv /\ k.sent = m.sent /\ k.out = m.out
      /\ k.originated = m.originated
  BY DEF Good, Typed, Fields
<1>. HIDE DEF k
<1>2. Typed(k, n, t)
  BY <1>1 DEF Good, Typed
<1>3. Taken(k, n, t)
  BY <1>1 DEF Good, Taken
<1>4. Handled(m, k, n, t)
  BY <1>1, <1>2, <1>3 DEF Handled, Good
<1>. QED  BY <1>1, <1>4 DEF k

\* A node other than the target keeps a copy.
LEMMA Keeps ==
  ASSUME NEW n \in Node, NEW t, n # t, NEW m, Good(m, n, t), NEW p, Copy(p, t)
  PROVE  /\ Handled(m, AddNewPacket(m, p), n, t)
         /\ AddNewPacket(m, p).status = m.status
         /\ AddNewPacket(m, p).num_recv = m.num_recv
<1>. DEFINE k == AddNewPacket(m, p)
<1>1. /\ DOMAIN k = Fields /\ k.status = m.status /\ k.heard = m.heard /\ k.kept = {p}
      /\ k.num_recv = m.num_recv /\ k.sent = m.sent /\ k.out = m.out
      /\ k.originated = m.originated
  BY DEF Good, Typed, Fields, AddNewPacket
<1>. HIDE DEF k
<1>2. Typed(k, n, t)
  BY <1>1 DEF Good, Typed
<1>3. Taken(k, n, t)
  BY <1>1 DEF Good, Taken
<1>4. Handled(m, k, n, t)
  BY <1>1, <1>2, <1>3 DEF Handled, Good
<1>. QED  BY <1>1, <1>4 DEF k

\* The record of heard neighbours is emptied.
LEMMA Deletes ==
  ASSUME NEW n \in Node, NEW t, NEW m, Good(m, n, t)
  PROVE  /\ Handled(m, delete_hash(m), n, t)
         /\ delete_hash(m).status = m.status
         /\ delete_hash(m).kept = m.kept
         /\ delete_hash(m).num_recv = m.num_recv
<1>1. DOMAIN NoRecord = {}
  BY DEF NoRecord
<1>2. Table(NoRecord, n)
  BY <1>1 DEF Table
<1>. QED  BY <1>2, SetsHeard DEF delete_hash

\* A forwarder that n can hear is recorded.
LEMMA Records ==
  ASSUME NEW n \in Node, NEW t, NEW m, Good(m, n, t), NEW p, Copy(p, t), <<p.f, n>> \in Hears
  PROVE  /\ Handled(m, recordPacket(m, p), n, t)
         /\ recordPacket(m, p).status = m.status
         /\ recordPacket(m, p).kept = m.kept
         /\ recordPacket(m, p).num_recv = m.num_recv
<1>. DEFINE new == [o |-> p.o, status |-> "FRESHED"]
            h == [f \in DOMAIN m.heard \cup {p.f} |-> IF f = p.f THEN new ELSE m.heard[f]]
<1>1. new \in Mark
  BY DEF Mark, Copy, Message
<1>2. Table(h, n)
  <2>. HIDE DEF new
  <2>. QED  BY <1>1 DEF Good, Typed, Table
<1>3. recordPacket(m, p) = [m EXCEPT !.heard = h]
  BY DEF recordPacket
<1>. HIDE DEF h
<1>. QED  BY <1>2, <1>3, SetsHeard

\* A recorded neighbour is marked dead.
LEMMA Marks ==
  ASSUME NEW n \in Node, NEW t, NEW m, Good(m, n, t), NEW x
  PROVE  /\ Handled(m, MarkNextHopStatus(m, x, "DEAD"), n, t)
         /\ MarkNextHopStatus(m, x, "DEAD").status = m.status
         /\ MarkNextHopStatus(m, x, "DEAD").kept = m.kept
         /\ MarkNextHopStatus(m, x, "DEAD").num_recv = m.num_recv
<1>1. CASE x \in DOMAIN m.heard
  <2>. DEFINE new == [m.heard[x] EXCEPT !.status = "DEAD"]
              h == [m.heard EXCEPT ![x] = new]
  <2>1. new \in Mark
    BY <1>1 DEF Mark, Good, Typed, Table
  <2>2. Table(h, n)
    <3>. HIDE DEF new
    <3>. QED  BY <1>1, <2>1 DEF Good, Typed, Table
  <2>3. MarkNextHopStatus(m, x, "DEAD") = [m EXCEPT !.heard = h]
    BY <1>1 DEF MarkNextHopStatus
  <2>. HIDE DEF h
  <2>4. /\ Handled(m, [m EXCEPT !.heard = h], n, t)
        /\ [m EXCEPT !.heard = h].status = m.status
        /\ [m EXCEPT !.heard = h].kept = m.kept
        /\ [m EXCEPT !.heard = h].num_recv = m.num_recv
    BY <2>2, SetsHeard
  <2>. QED  BY <2>3, <2>4
<1>2. CASE x \notin DOMAIN m.heard
  BY <1>2 DEF MarkNextHopStatus, Handled
<1>. QED  BY <1>1, <1>2

\* A mark that went astray is put on record.
LEMMA SetsUnmarked ==
  ASSUME NEW n \in Node, NEW t, NEW m, Good(m, n, t), NEW u
  PROVE  /\ Handled(m, [m EXCEPT !.unmarked = u], n, t)
         /\ Same(m, [m EXCEPT !.unmarked = u])
<1>. DEFINE k == [m EXCEPT !.unmarked = u]
<1>1. /\ DOMAIN k = Fields /\ Same(m, k) /\ k.sent = m.sent /\ k.out = m.out
      /\ k.originated = m.originated
  BY DEF Good, Typed, Fields, Same
<1>. HIDE DEF k
<1>2. Typed(k, n, t)
  BY <1>1 DEF Good, Typed, Same
<1>3. Taken(k, n, t)
  BY <1>1 DEF Good, Taken, Same
<1>4. Handled(m, k, n, t)
  BY <1>1, <1>2, <1>3 DEF Handled, Good
<1>. QED  BY <1>1, <1>4 DEF k

\* Two parts of one handler.
LEMMA HandledTwice ==
  ASSUME NEW n, NEW t, NEW m, NEW k, NEW l, Handled(m, k, n, t), Handled(k, l, n, t)
  PROVE  Handled(m, l, n, t)
BY DEF Handled
----------------------------------------------------------------------------
(* The agent *)

\* The timer for a vector shift is set.
LEMMA Shifts ==
  ASSUME NEW n \in Node, NEW t, n # t, NEW m, Good(m, n, t),
         NEW p, Copy(p, t), NEW delay \in Nat
  PROVE  /\ Handled(m, set_shift_timer(m, n, p, delay), n, t)
         /\ Same(m, set_shift_timer(m, n, p, delay))
<1>. DEFINE shift == generateVectorShiftPacket(n, p.f)
            q == IF m.status = "CENTER_FORWARDED" THEN [shift EXCEPT !.type = "EXPENSION"] ELSE shift
<1>1. Copy(shift, t) /\ shift.f = n
  BY DEF generateVectorShiftPacket, Copy, Message, Control
<1>. HIDE DEF shift
<1>2. Copy([shift EXCEPT !.type = "EXPENSION"], t) /\ [shift EXCEPT !.type = "EXPENSION"].f = n
  BY <1>1, Retypes DEF Control
<1>3. Copy(q, t) /\ q.f = n
  BY <1>1, <1>2
<1>4. set_shift_timer(m, n, p, delay) = Put(m, n, "shift", q, delay)
  BY DEF set_shift_timer, shift
<1>. HIDE DEF q
<1>5. Handled(m, Put(m, n, "shift", q, delay), n, t) /\ Same(m, Put(m, n, "shift", q, delay))
  BY <1>3, Puts DEF Kinds
<1>. QED  BY <1>4, <1>5

\* A termination is broadcast.
LEMMA Terminations ==
  ASSUME NEW n \in Node, NEW t, NEW m, Good(m, n, t)
  PROVE  /\ Handled(m, sendDataTermination(m, n), n, t)
         /\ Same(m, sendDataTermination(m, n))
<1>. DEFINE p == [type |-> "DATA_TERMINATION", o |-> n, f |-> n]
<1>1. p \in Message /\ p.f = n /\ p.type = "DATA_TERMINATION"
  BY DEF Message, Control
<1>2. sendDataTermination(m, n) = MACsend(m, n, p, 0)
  BY DEF sendDataTermination
<1>. HIDE DEF p
<1>3. Handled(m, MACsend(m, n, p, 0), n, t) /\ Same(m, MACsend(m, n, p, 0))
  BY <1>1, Sends
<1>. QED  BY <1>2, <1>3

\* The packet reaches the sink, which has not counted it.
LEMMA Arrives ==
  ASSUME NEW n \in Node, NEW m, Good(m, n, n), m.num_recv = 0
  PROVE  Handled(m, DataForSink(m, n), n, n)
<1>. DEFINE s == sendDataTermination(m, n)
            k == DataForSink(m, n)
<1>1. Handled(m, s, n, n) /\ Same(m, s)
  BY Terminations
<1>2. DOMAIN s = Fields
  BY <1>1 DEF Handled, Good, Typed
<1>. HIDE DEF s
<1>3. /\ DOMAIN k = Fields /\ k.status = "TERMINATED" /\ k.heard = s.heard /\ k.kept = s.kept
      /\ k.num_recv = s.num_recv + 1 /\ k.sent = s.sent /\ k.out = s.out
      /\ k.originated = s.originated
  BY <1>2 DEF DataForSink, SinkRecv, s, Fields
<1>. HIDE DEF k
<1>4. Typed(k, n, n)
  BY <1>1, <1>3 DEF Handled, Good, Typed, PacketStatus
<1>5. Taken(k, n, n)
  BY <1>1, <1>3 DEF Handled, Good, Taken, Same
<1>6. Handled(m, k, n, n)
  BY <1>1, <1>3, <1>4, <1>5 DEF Handled, Good
<1>. QED  BY <1>6 DEF k

\* processCenteredPacket, at any node.
LEMMA Centers ==
  ASSUME flow \in Flow, NEW n \in Node, NEW m, Good(m, n, Target),
         NEW p, Copy(p, Target), n = Target => m.num_recv = 0
  PROVE  Handled(m, processCenteredPacket(m, n, p), n, Target)
<1>. DEFINE own == [type |-> "DATA", o |-> n, f |-> n]
            k == delete_hash(m)
            delay == CenteredDelay(n, p)
            later == Put(k, n, "centered", own, delay)
<1>1. ASSUME n # Target PROVE Handled(m, later, n, Target)
  <2>1. Handled(m, k, n, Target)
    BY Deletes
  <2>2. Copy(own, Target)
    BY <1>1 DEF Copy, Message
  <2>3. delay \in Nat
    BY CenteredDelayNat DEF Copy, Message
  <2>. HIDE DEF own, delay, k
  <2>4. Good(k, n, Target)
    BY <2>1 DEF Handled
  <2>5. Handled(k, later, n, Target)
    BY <1>1, <2>2, <2>3, <2>4, Puts DEF Kinds
  <2>. QED  BY <2>1, <2>5, HandledTwice
<1>2. Handled(m, m, n, Target)
  BY DEF Handled
<1>3. n = Target => Handled(m, DataForSink(m, n), n, Target) /\ m.kept = NoCopy
  BY Arrives DEF Good, Taken
<1>4. processCenteredPacket(m, n, p) =
        IF calculateSelfCenteredDelay(Target, n, p.f) > 120 THEN m
        ELSE IF p.type \in {"V_SHIFT", "EXPENSION"}
          THEN (IF m.kept = NoCopy THEN m ELSE later)
        ELSE IF n = Target THEN DataForSink(m, n)
        ELSE later
  BY DEF processCenteredPacket
<1>. HIDE DEF later
<1>. QED  BY <1>1, <1>2, <1>3, <1>4

\* processBackpressurePacket, at any node.
LEMMA Presses ==
  ASSUME flow \in Flow, NEW n \in Node, NEW m, Good(m, n, Target),
         NEW p, Copy(p, Target), NEW x, NEW j \in Nat
  PROVE  Handled(m, processBackpressurePacket(m, n, p, x, j), n, Target)
<1>. DEFINE k == MarkNextHopStatus(m, x, "DEAD")
            marked == [k EXCEPT !.unmarked = @ \/ x # p.f]
            cleared == delete_hash(marked)
            bypass == [cleared EXCEPT !.status = "FLOODED"]
            delay == BackpressureDelay + JITTER + j
            waiting == generateBackpressurePacket(bypass, n, p, delay)
            type == IF m.status = "FORWARDED" THEN "V_SHIFT_DATA" ELSE "EXPENSION_DATA"
            ended == [marked EXCEPT !.status = "TERMINATED"]
            back == MACsend(ended, n, generateControlDataPacket(n, p, "BACKPRESSURE"), 0)
            started == MACsend(waiting, n, generateControlDataPacket(n, p, type), 0)
<1>1. Handled(m, marked, n, Target) /\ Good(marked, n, Target) /\ marked.status = m.status
  <2>1. Handled(m, k, n, Target) /\ k.status = m.status
    BY Marks
  <2>. HIDE DEF k
  <2>2. Handled(k, marked, n, Target) /\ Same(k, marked)
    BY <2>1, SetsUnmarked DEF Handled
  <2>. HIDE DEF marked
  <2>. QED  BY <2>1, <2>2 DEF Handled, Same
<1>2. ASSUME n # Target, NEW c \in {"BACKPRESSURE", "V_SHIFT_DATA", "EXPENSION_DATA"}
      PROVE  /\ generateControlDataPacket(n, p, c) \in Message
             /\ generateControlDataPacket(n, p, c).f = n
             /\ Copy(generateControlDataPacket(n, p, c), Target)
  <2>. DEFINE q == [p EXCEPT !.type = c]
  <2>1. Copy(q, Target)
    BY Retypes DEF Control
  <2>. HIDE DEF q
  <2>2. Copy(Prepared(n, q), Target) /\ Prepared(n, q).f = n
    BY <1>2, <2>1, Prepares
  <2>. QED  BY <2>2 DEF generateControlDataPacket, q, Copy
<1>3. ASSUME n # Target PROVE Handled(m, back, n, Target)
  <2>. HIDE DEF marked
  <2>1. Handled(marked, ended, n, Target)
    BY <1>1, <1>3, SetsStatus DEF PacketStatus
  <2>2. Good(ended, n, Target)
    BY <2>1 DEF Handled
  <2>. HIDE DEF ended
  <2>. DEFINE q == generateControlDataPacket(n, p, "BACKPRESSURE")
  <2>3. q \in Message /\ q.f = n /\ Copy(q, Target)
    BY <1>2, <1>3
  <2>. HIDE DEF q
  <2>4. Handled(ended, MACsend(ended, n, q, 0), n, Target)
    BY <2>2, <2>3, Sends
  <2>. QED  BY <1>1, <2>1, <2>4, HandledTwice DEF q
<1>4. ASSUME n # Target PROVE Handled(m, started, n, Target)
  <2>. HIDE DEF marked
  <2>1. Handled(marked, cleared, n, Target) /\ Good(cleared, n, Target)
    BY <1>1, Deletes DEF Handled
  <2>. HIDE DEF cleared
  <2>2. Handled(cleared, bypass, n, Target) /\ Good(bypass, n, Target)
    <3>1. Handled(cleared, bypass, n, Target)
      BY <1>4, <2>1, SetsStatus DEF PacketStatus
    <3>. QED  BY <3>1 DEF Handled
  <2>. HIDE DEF bypass
  <2>. DEFINE held == [p EXCEPT !.type = "BACKPRESSURE"]
  <2>3. Copy(held, Target)
    BY Retypes DEF Control
  <2>4. delay \in Nat
    BY FixedDelays, ConstantsNat
  <2>. HIDE DEF held, delay
  <2>5. Handled(bypass, Put(bypass, n, "backpressure", held, delay), n, Target)
    BY <1>4, <2>2, <2>3, <2>4, Puts DEF Kinds
  <2>6. Handled(bypass, waiting, n, Target) /\ Good(waiting, n, Target)
    BY <2>5 DEF generateBackpressurePacket, Handled, held
  <2>. HIDE DEF waiting
  <2>. DEFINE q == generateControlDataPacket(n, p, type)
  <2>7. q \in Message /\ q.f = n /\ Copy(q, Target)
    <3>1. type \in {"BACKPRESSURE", "V_SHIFT_DATA", "EXPENSION_DATA"}
      OBVIOUS
    <3>. QED  BY <1>2, <1>4, <3>1
  <2>. HIDE DEF q
  <2>8. Handled(waiting, MACsend(waiting, n, q, 0), n, Target)
    BY <2>6, <2>7, Sends
  <2>9. Handled(waiting, started, n, Target)
    BY <2>8 DEF q
  <2>10. Handled(m, cleared, n, Target)
    BY <1>1, <2>1, HandledTwice
  <2>11. Handled(m, bypass, n, Target)
    BY <2>2, <2>10, HandledTwice
  <2>12. Handled(m, waiting, n, Target)
    BY <2>6, <2>11, HandledTwice
  <2>. HIDE DEF started
  <2>. QED  BY <2>9, <2>12, HandledTwice
<1>5. Handled(m, m, n, Target)
  BY DEF Handled
<1>6. m.status \in {"FORWARDED", "CENTER_FORWARDED", "FLOODED"} => n # Target
  BY DEF Good, Taken
<1>7. processBackpressurePacket(m, n, p, x, j) =
        IF m.status \notin {"FORWARDED", "CENTER_FORWARDED", "FLOODED"} \/ m.heard = NoRecord THEN m
        ELSE IF ~IsStuckNode(marked, n) THEN marked
        ELSE IF m.status = "FLOODED" THEN back
        ELSE started
  BY DEF processBackpressurePacket
<1>. HIDE DEF marked, back, started
<1>. QED  BY <1>1, <1>3, <1>4, <1>5, <1>6, <1>7

\* ConsiderNew, at any node.
LEMMA Considers ==
  ASSUME flow \in Flow, NEW n \in Node, NEW m, Good(m, n, Target),
         NEW p, Copy(p, Target), NEW j \in Nat,
         n # Source => <<p.f, n>> \in Hears,
         n = Target => m.num_recv = 0
  PROVE  Handled(m, ConsiderNew(m, n, p, j), n, Target)
<1>. DEFINE added == AddNewPacket(m, p)
            centre == [added EXCEPT !.status = "CENTER_FORWARDED"]
            shifting == set_shift_timer(centre, n, p, SourceShiftDelay)
            sent == MACsend(shifting, n, Prepared(n, p), j)
            recorded == recordPacket(m, p)
            kept == AddNewPacket(recorded, p)
            silent == [kept EXCEPT !.status = "SUPPRESSED"]
            delay == ForwardDelay(n, p) + j
            waiting == Put(silent, n, "forward", p, delay)
<1>1. Source \in Node /\ Source # Target
  BY VBVAAssumption DEF Source, Target
<1>2. ASSUME n = Source PROVE Handled(m, sent, n, Target)
  <2>1. Handled(m, added, n, Target) /\ Good(added, n, Target)
    BY <1>1, <1>2, Keeps DEF Handled
  <2>. HIDE DEF added
  <2>2. Handled(added, centre, n, Target) /\ Good(centre, n, Target)
    <3>1. Handled(added, centre, n, Target)
      BY <1>1, <1>2, <2>1, SetsStatus DEF PacketStatus
    <3>. QED  BY <3>1 DEF Handled
  <2>. HIDE DEF centre
  <2>3. Handled(centre, shifting, n, Target) /\ Good(shifting, n, Target)
    BY <1>1, <1>2, <2>2, FixedDelays, Shifts DEF Handled
  <2>. HIDE DEF shifting
  <2>. DEFINE q == Prepared(n, p)
  <2>4. q \in Message /\ Copy(q, Target) /\ q.f = n
    BY <1>1, <1>2, Prepares DEF Copy
  <2>. HIDE DEF q
  <2>5. Handled(shifting, MACsend(shifting, n, q, j), n, Target)
    BY <2>3, <2>4, Sends
  <2>6. Handled(shifting, sent, n, Target)
    BY <2>5 DEF q
  <2>. HIDE DEF sent
  <2>7. Handled(m, centre, n, Target)
    BY <2>1, <2>2, HandledTwice
  <2>8. Handled(m, shifting, n, Target)
    BY <2>3, <2>7, HandledTwice
  <2>. QED  BY <2>6, <2>8, HandledTwice
<1>3. ASSUME n # Source, n # Target
      PROVE  Handled(m, kept, n, Target) /\ Handled(m, waiting, n, Target)
  <2>1. Handled(m, recorded, n, Target) /\ Good(recorded, n, Target)
    BY <1>3, Records DEF Handled
  <2>. HIDE DEF recorded
  <2>2. Handled(recorded, kept, n, Target) /\ Good(kept, n, Target)
    BY <1>3, <2>1, Keeps DEF Handled
  <2>. HIDE DEF kept
  <2>3. Handled(kept, silent, n, Target) /\ Good(silent, n, Target)
    <3>1. Handled(kept, silent, n, Target)
      BY <1>3, <2>2, SetsStatus DEF PacketStatus
    <3>. QED  BY <3>1 DEF Handled
  <2>. HIDE DEF silent
  <2>4. delay \in Nat
    BY <1>3, ForwardDelayNat
  <2>. HIDE DEF delay
  <2>5. Handled(silent, waiting, n, Target)
    BY <1>3, <2>3, <2>4, Puts DEF Kinds
  <2>. HIDE DEF waiting
  <2>6. Handled(m, kept, n, Target)
    BY <2>1, <2>2, HandledTwice
  <2>7. Handled(m, silent, n, Target)
    BY <2>3, <2>6, HandledTwice
  <2>. QED  BY <2>5, <2>6, <2>7, HandledTwice
<1>4. n = Target => Handled(m, DataForSink(m, n), n, Target)
  BY Arrives
<1>5. ConsiderNew(m, n, p, j) =
        IF n = Source THEN sent
        ELSE IF n = Target THEN DataForSink(m, n)
        ELSE IF IsCloseEnough(n, p.o, Target) THEN waiting
        ELSE kept
  BY DEF ConsiderNew
<1>. HIDE DEF sent, waiting, kept
<1>. QED  BY <1>2, <1>3, <1>4, <1>5

\* recv: what is heard, or what the source itself starts.
LEMMA Receives ==
  ASSUME flow \in Flow, NEW n \in Node, NEW m, Good(m, n, Target),
         NEW p \in Message, Copy(p, Target) \/ p.type = "DATA_TERMINATION",
         NEW x, NEW j \in Nat,
         \/ <<p.f, n>> \in Hears
         \/ n = Source /\ m.status = "none" /\ m.heard = NoRecord
  PROVE  Handled(m, recv(m, n, p, x, j), n, Target)
<1>. DEFINE ended == [m EXCEPT !.status = "TERMINATED"]
            relay == [m EXCEPT !.status = "SUPPRESSED"]
            bypasser == [m EXCEPT !.status = "VOID_SUPPRESSED"]
<1>1. Handled(m, m, n, Target)
  BY DEF Handled
<1>2. n = Target /\ m.status # "TERMINATED" => m.num_recv = 0
  BY DEF Good, Taken
<1>3. Handled(m, ended, n, Target)
  BY SetsStatus DEF PacketStatus
<1>4. ASSUME Copy(p, Target), m.status # "TERMINATED"
      PROVE  /\ Handled(m, processCenteredPacket(relay, n, p), n, Target)
             /\ Handled(m, processCenteredPacket(bypasser, n, p), n, Target)
  <2>1. /\ Handled(m, relay, n, Target) /\ relay.num_recv = m.num_recv
        /\ Handled(m, bypasser, n, Target) /\ bypasser.num_recv = m.num_recv
    <3>1. relay.num_recv = m.num_recv /\ bypasser.num_recv = m.num_recv
      BY DEF Good, Typed, Fields
    <3>2. Handled(m, relay, n, Target)
      BY <1>2, <1>4, SetsStatus DEF PacketStatus
    <3>3. Handled(m, bypasser, n, Target)
      BY <1>2, <1>4, SetsStatus DEF PacketStatus
    <3>. QED  BY <3>1, <3>2, <3>3
  <2>. HIDE DEF relay, bypasser
  <2>2. Good(relay, n, Target) /\ Good(bypasser, n, Target)
    BY <2>1 DEF Handled
  <2>3. /\ Handled(relay, processCenteredPacket(relay, n, p), n, Target)
        /\ Handled(bypasser, processCenteredPacket(bypasser, n, p), n, Target)
    BY <1>2, <1>4, <2>1, <2>2, Centers
  <2>. QED  BY <2>1, <2>3, HandledTwice
<1>5. ASSUME Copy(p, Target)
      PROVE  Handled(m, processBackpressurePacket(m, n, p, x, j), n, Target)
  BY <1>5, Presses
<1>6. ASSUME Copy(p, Target), m.status # "none" \/ m.heard # NoRecord
      PROVE  Handled(m, recordPacket(m, p), n, Target)
  BY <1>6, Records
<1>7. ASSUME Copy(p, Target), m.status # "TERMINATED"
      PROVE  Handled(m, ConsiderNew(m, n, p, j), n, Target)
  BY <1>2, <1>7, Considers
<1>. HIDE DEF ended, relay, bypasser
<1>8. CASE m.status = "TERMINATED"
  BY <1>1, <1>8 DEF recv
<1>9. CASE m.status # "TERMINATED" /\ p.type = "DATA_TERMINATION"
  <2>1. recv(m, n, p, x, j) = ended
    BY <1>9 DEF recv, ended
  <2>. QED  BY <1>3, <2>1
<1>10. CASE m.status # "TERMINATED" /\ p.type \in {"V_SHIFT", "V_SHIFT_DATA"}
  <2>1. recv(m, n, p, x, j) =
          IF IsNewlyTouchedNode(m) THEN processCenteredPacket(relay, n, p) ELSE m
    BY <1>10 DEF recv, relay
  <2>. QED  BY <1>1, <1>4, <1>10, <2>1
<1>11. CASE m.status # "TERMINATED" /\ p.type \in {"EXPENSION", "EXPENSION_DATA"}
  <2>1. recv(m, n, p, x, j) =
          IF m.status \in {"none", "SUPPRESSED"}
            THEN processCenteredPacket(bypasser, n, p) ELSE m
    BY <1>11 DEF recv, bypasser
  <2>. QED  BY <1>1, <1>4, <1>11, <2>1
<1>12. CASE m.status # "TERMINATED" /\ p.type = "BACKPRESSURE"
  <2>1. recv(m, n, p, x, j) = processBackpressurePacket(m, n, p, x, j)
    BY <1>12 DEF recv
  <2>. QED  BY <1>5, <1>12, <2>1
<1>13. CASE m.status # "TERMINATED" /\ p.type = "DATA"
  <2>1. recv(m, n, p, x, j) =
          IF m.status # "none" \/ m.heard # NoRecord THEN recordPacket(m, p)
          ELSE ConsiderNew(m, n, p, j)
    BY <1>13 DEF recv
  <2>. QED  BY <1>6, <1>7, <1>13, <2>1
<1>14. p.type \in Control \cup {"DATA"}
  BY MessageFacts
<1>. QED  BY <1>8, <1>9, <1>10, <1>11, <1>12, <1>13, <1>14 DEF Control

\* A copy is forwarded with its status.
LEMMA Forwards ==
  ASSUME NEW n \in Node, NEW t, n # t, NEW m, Good(m, n, t), NEW p, Copy(p, t),
         NEW status \in PacketStatus, NEW j \in Nat
  PROVE  Handled(m, Forward(m, n, p, status, j), n, t)
<1>. DEFINE delay == ShiftDelay + j
            shifting == set_shift_timer(m, n, p, delay)
            done == [shifting EXCEPT !.status = status]
            q == Prepared(n, p)
<1>1. delay \in Nat
  BY FixedDelays
<1>. HIDE DEF delay
<1>2. Handled(m, shifting, n, t)
  BY <1>1, Shifts
<1>3. Good(shifting, n, t)
  BY <1>2 DEF Handled
<1>. HIDE DEF shifting
<1>4. Handled(shifting, done, n, t)
  BY <1>3, SetsStatus
<1>5. Good(done, n, t)
  BY <1>4 DEF Handled
<1>. HIDE DEF done
<1>6. q \in Message /\ Copy(q, t) /\ q.f = n
  BY Prepares DEF Copy
<1>. HIDE DEF q
<1>7. Handled(done, MACsend(done, n, q, 0), n, t)
  BY <1>5, <1>6, Sends
<1>8. Handled(m, done, n, t)
  BY <1>2, <1>4, HandledTwice
<1>9. Handled(m, MACsend(done, n, q, 0), n, t)
  BY <1>7, <1>8, HandledTwice
<1>. QED  BY <1>9 DEF Forward, done, shifting, delay, q

\* process_forward_timeout and process_selfcentered_timeout.
LEMMA ForwardTimeouts ==
  ASSUME NEW n \in Node, NEW m, n # Target, Good(m, n, Target), NEW p, Copy(p, Target), NEW j \in Nat
  PROVE  /\ Handled(m, process_forward_timeout(m, n, p, j), n, Target)
         /\ Handled(m, process_selfcentered_timeout(m, n, p, j), n, Target)
<1>1. Handled(m, m, n, Target)
  BY DEF Handled
<1>2. ASSUME NEW s \in {"FORWARDED", "CENTER_FORWARDED"}
      PROVE  Handled(m, Forward(m, n, p, s, j), n, Target)
  BY Forwards DEF PacketStatus
<1>3. process_forward_timeout(m, n, p, j) = m
      \/ process_forward_timeout(m, n, p, j) = Forward(m, n, p, "FORWARDED", j)
  BY DEF process_forward_timeout
<1>4. \/ process_selfcentered_timeout(m, n, p, j) = m
      \/ process_selfcentered_timeout(m, n, p, j) = Forward(m, n, p, "FORWARDED", j)
      \/ process_selfcentered_timeout(m, n, p, j) = Forward(m, n, p, "CENTER_FORWARDED", j)
  BY DEF process_selfcentered_timeout
<1>. QED  BY <1>1, <1>2, <1>3, <1>4

\* process_void_avoidance_timeout.
LEMMA ShiftTimeouts ==
  ASSUME NEW n \in Node, NEW m, n # Target, Good(m, n, Target),
         NEW p, Copy(p, Target), p.f = n, NEW j \in Nat
  PROVE  Handled(m, process_void_avoidance_timeout(m, n, p, j), n, Target)
<1>. DEFINE flood == [m EXCEPT !.status = "FLOODED"]
            flooded == MACsend(flood, n, p, 0)
            cleared == delete_hash(flooded)
            delay == BackpressureDelay + j
            waiting == generateBackpressurePacket(cleared, n, LookupCopy(m), delay)
<1>1. Handled(m, m, n, Target)
  BY DEF Handled
<1>2. Handled(m, flood, n, Target)
  BY SetsStatus DEF PacketStatus
<1>3. Good(flood, n, Target)
  BY <1>2 DEF Handled
<1>. HIDE DEF flood
<1>4. Handled(flood, flooded, n, Target)
  BY <1>3, Sends DEF Copy
<1>5. Handled(m, flooded, n, Target)
  BY <1>2, <1>4, HandledTwice
<1>6. ASSUME m.kept # NoCopy PROVE Handled(m, waiting, n, Target)
  <2>1. Copy(LookupCopy(m), Target)
    BY <1>6 DEF Good, Typed, LookupCopy
  <2>. DEFINE q == LookupCopy(m)
              held == [q EXCEPT !.type = "BACKPRESSURE"]
  <2>2. Copy(held, Target)
    <3>. HIDE DEF q
    <3>1. Copy(q, Target)
      BY <2>1 DEF q
    <3>. QED  BY <3>1, Retypes DEF Control
  <2>3. Good(flooded, n, Target)
    BY <1>5 DEF Handled
  <2>. HIDE DEF flooded
  <2>4. Handled(flooded, cleared, n, Target)
    BY <2>3, Deletes
  <2>5. Good(cleared, n, Target)
    BY <2>4 DEF Handled
  <2>. HIDE DEF cleared
  <2>6. delay \in Nat
    BY FixedDelays
  <2>. HIDE DEF held, delay
  <2>7. Handled(cleared, Put(cleared, n, "backpressure", held, delay), n, Target)
    BY <2>2, <2>5, <2>6, Puts DEF Kinds
  <2>8. Handled(cleared, waiting, n, Target)
    BY <2>7 DEF generateBackpressurePacket, held
  <2>9. Handled(m, cleared, n, Target)
    BY <1>5, <2>4, HandledTwice
  <2>. HIDE DEF waiting
  <2>. QED  BY <2>8, <2>9, HandledTwice
<1>7. process_void_avoidance_timeout(m, n, p, j) =
        IF m.status \in {"TERMINATED", "FLOODED"} \/ ~IsVoidNode(m, n, p.o) THEN m
        ELSE IF m.kept = NoCopy THEN flooded
        ELSE waiting
  BY DEF process_void_avoidance_timeout, flood
<1>. HIDE DEF flooded, waiting
<1>. QED  BY <1>1, <1>5, <1>6, <1>7

\* process_backpressure_timeout.
LEMMA BackpressureTimeouts ==
  ASSUME NEW n \in Node, NEW m, n # Target, Good(m, n, Target), NEW p, Copy(p, Target)
  PROVE  Handled(m, process_backpressure_timeout(m, n, p), n, Target)
<1>. DEFINE ended == [m EXCEPT !.status = "TERMINATED"]
            q == Prepared(n, p)
<1>1. Handled(m, m, n, Target)
  BY DEF Handled
<1>2. Handled(m, ended, n, Target)
  BY SetsStatus DEF PacketStatus
<1>3. Good(ended, n, Target)
  BY <1>2 DEF Handled
<1>4. q \in Message /\ Copy(q, Target) /\ q.f = n
  BY Prepares DEF Copy
<1>. HIDE DEF ended, q
<1>5. Handled(ended, MACsend(ended, n, q, 0), n, Target)
  BY <1>3, <1>4, Sends
<1>6. Handled(m, MACsend(ended, n, q, 0), n, Target)
  BY <1>2, <1>5, HandledTwice
<1>7. process_backpressure_timeout(m, n, p) \in {m, MACsend(ended, n, q, 0)}
  BY DEF process_backpressure_timeout, ended, q
<1>. QED  BY <1>1, <1>6, <1>7
----------------------------------------------------------------------------
(* The steps *)

\* Source and target are different nodes.
LEMMA FlowFacts ==
  ASSUME flow \in Flow
  PROVE  Source \in Node /\ Target \in Node /\ Source # Target
BY VBVAAssumption DEF Source, Target

\* A node that knows nothing of the packet.
LEMMA NewNodeGood ==
  ASSUME NEW n \in Node, NEW t
  PROVE  /\ Good(NewNode, n, t) /\ NewNode.out = {} /\ NewNode.status = "none"
         /\ NewNode.heard = NoRecord
<1>1. DOMAIN NoRecord = {}
  BY DEF NoRecord
<1>2. DOMAIN NewNode = Fields
  BY DEF NewNode, Fields
<1>. QED  BY <1>1, <1>2 DEF NewNode, Good, Typed, Taken, Table, PacketStatus, NoCopy

\* What is taken from and put into a bag, as sets.
LEMMA BagFacts ==
  ASSUME NEW B, NEW S, NEW T
  PROVE  BagToSet((B (-) SetToBag(S)) (+) SetToBag(T)) \subseteq BagToSet(B) \cup T
         /\ BagToSet(B (-) SetToBag(S)) \subseteq BagToSet(B)
BY DEF BagToSet, SetToBag, (+), (-)

\* A handler of node n ran: m is what it made of the record.
LEMMA BecomesIInv ==
  ASSUME IInv, NEW n \in Node, NEW e, NEW m, Handled(node[n], m, n, Target),
         Becomes(n, m, e), node[Source].originated
  PROVE  IInv'
<1>. DEFINE k == [m EXCEPT !.out = {}]
<1>1. Typed(m, n, Target) /\ Taken(m, n, Target) /\ m.originated = node[n].originated
  BY DEF Handled, Good
<1>2. /\ DOMAIN k = Fields /\ k.status = m.status /\ k.heard = m.heard /\ k.kept = m.kept
      /\ k.num_recv = m.num_recv /\ k.sent = m.sent /\ k.out = {} /\ k.originated = m.originated
  BY <1>1 DEF Typed, Fields
<1>3. /\ flow' = flow /\ faults' = faults /\ Target' = Target /\ Source' = Source
      /\ node' = [node EXCEPT ![n] = k]
      /\ BagToSet(agenda') \subseteq BagToSet(agenda) \cup m.out
  BY BagFacts DEF Becomes, Target, Source
<1>. HIDE DEF k
<1>4. Good(k, n, Target) /\ k.out = {}
  <2>1. Typed(k, n, Target)
    BY <1>1, <1>2 DEF Typed
  <2>2. Taken(k, n, Target)
    BY <1>1, <1>2 DEF Taken
  <2>. QED  BY <1>2, <2>1, <2>2 DEF Good
<1>5. DOMAIN node' = Node /\ node'[n] = k /\ \A a \in Node \ {n} : node'[a] = node[a]
  BY <1>3 DEF IInv
<1>6. \A a \in Node : Good(node'[a], a, Target) /\ node'[a].out = {}
  BY <1>4, <1>5 DEF IInv
<1>7. \A x \in BagToSet(agenda') : Pending(x, Target)
  BY <1>1, <1>3 DEF IInv, Typed
<1>8. node'[Source].originated
  BY <1>1, <1>2, <1>5, FlowFacts DEF IInv
<1>. QED  BY <1>3, <1>5, <1>6, <1>7, <1>8 DEF IInv

\* The initial states satisfy the invariant.
LEMMA InitIInv == Init => IInv
<1>. SUFFICES ASSUME Init PROVE IInv
  OBVIOUS
<1>1. \A n \in Node : node[n] = NewNode
  BY DEF Init
<1>2. \A n \in Node : Good(node[n], n, Target) /\ node[n].out = {}
                       /\ node[n].status = "none" /\ node[n].heard = NoRecord
  BY <1>1, NewNodeGood
<1>3. BagToSet(agenda) = {}
  BY DEF Init, EmptyBag, SetToBag, BagToSet
<1>4. MaxFaults[flow] \in Nat /\ flow \in Flow
  BY VBVAAssumption DEF Init
<1>. QED  BY <1>2, <1>3, <1>4 DEF Init, IInv

\* The source is told to send.
LEMMA SendStep ==
  ASSUME IInv, NEW n \in Node, Send(n)
  PROVE  IInv'
<1>. DEFINE m == [node[n] EXCEPT !.originated = TRUE]
            p == sendpkt(n)
<1>1. PICK j \in Jitters : Becomes(n, recv(m, n, p, NoNode, j), {})
  BY DEF Send
<1>2. /\ n = Source /\ ~node[Source].originated /\ j \in Nat /\ flow \in Flow
      /\ Good(node[n], n, Target) /\ node[n].out = {} /\ BagToSet(agenda) = {}
      /\ n # Target /\ node[n].status = "none" /\ node[n].heard = NoRecord
      /\ DOMAIN node = Node
  BY FlowFacts, ConstantsNat DEF Send, IInv
<1>3. /\ DOMAIN m = Fields /\ m.status = node[n].status /\ m.heard = node[n].heard
      /\ m.kept = node[n].kept /\ m.num_recv = node[n].num_recv /\ m.sent = node[n].sent
      /\ m.out = node[n].out /\ m.originated = TRUE
  BY <1>2 DEF Good, Typed, Fields
<1>. HIDE DEF m
<1>4. Good(m, n, Target)
  BY <1>2, <1>3 DEF Good, Typed, Taken
<1>5. p \in Message /\ Copy(p, Target)
  BY <1>2 DEF sendpkt, Message, Copy
<1>. HIDE DEF p
<1>. DEFINE r == recv(m, n, p, NoNode, j)
            k == [r EXCEPT !.out = {}]
<1>6. Handled(m, r, n, Target)
  BY <1>2, <1>3, <1>4, <1>5, Receives
<1>. HIDE DEF r
<1>7. /\ Typed(r, n, Target) /\ Taken(r, n, Target) /\ r.originated = TRUE
  BY <1>3, <1>6 DEF Handled, Good
<1>8. /\ DOMAIN k = Fields /\ k.status = r.status /\ k.heard = r.heard /\ k.kept = r.kept
      /\ k.num_recv = r.num_recv /\ k.sent = r.sent /\ k.out = {} /\ k.originated = TRUE
  BY <1>7 DEF Typed, Fields
<1>9. /\ flow' = flow /\ faults' = faults /\ Target' = Target /\ Source' = Source
      /\ node' = [node EXCEPT ![n] = k]
      /\ BagToSet(agenda') \subseteq r.out
  BY <1>1, <1>2, BagFacts DEF Becomes, Target, Source, r
<1>. HIDE DEF k
<1>10. Good(k, n, Target)
  <2>1. Typed(k, n, Target)
    BY <1>7, <1>8 DEF Typed
  <2>2. Taken(k, n, Target)
    BY <1>7, <1>8 DEF Taken
  <2>. QED  BY <2>1, <2>2 DEF Good
<1>11. DOMAIN node' = Node /\ node'[n] = k /\ \A a \in Node \ {n} : node'[a] = node[a]
  BY <1>2, <1>9
<1>12. \A a \in Node : Good(node'[a], a, Target) /\ node'[a].out = {}
  BY <1>8, <1>10, <1>11 DEF IInv
<1>13. \A x \in BagToSet(agenda') : Pending(x, Target)
  BY <1>7, <1>9 DEF Typed
<1>14. node'[Source].originated
  BY <1>2, <1>8, <1>11
<1>. QED  BY <1>9, <1>11, <1>12, <1>13, <1>14 DEF IInv

\* What an event on the agenda, or a fault, can rely on.
LEMMA DueFacts ==
  ASSUME IInv, NEW what, NEW e \in Due(what)
  PROVE  /\ flow \in Flow /\ node[Source].originated
         /\ e.what = what /\ e.to \in Node /\ e.pkt \in Message
         /\ Pending(e, Target) /\ Good(node[e.to], e.to, Target)
BY DEF IInv, Due, Pending

\* A frame arrives.
LEMMA RecvStep ==
  ASSUME IInv, NEW e \in Due("frame"), Recv(e)
  PROVE  IInv'
<1>. DEFINE n == e.to
            m == node[n]
            p == e.pkt
<1>1. /\ flow \in Flow /\ node[Source].originated /\ n \in Node /\ p \in Message
      /\ Good(m, n, Target) /\ <<p.f, n>> \in Hears
      /\ Copy(p, Target) \/ p.type = "DATA_TERMINATION"
  <2>1. /\ flow \in Flow /\ node[Source].originated /\ n \in Node /\ p \in Message
        /\ e.what = "frame" /\ Pending(e, Target) /\ Good(m, n, Target)
    BY DueFacts
  <2>2. <<p.f, n>> \in Hears /\ (Copy(p, Target) \/ p.type = "DATA_TERMINATION")
    <3>. HIDE DEF m
    <3>. QED  BY <2>1 DEF Pending
  <2>. QED  BY <2>1, <2>2
<1>2. ASSUME NEW x, NEW j \in Jitters
      PROVE  Handled(m, recv(m, n, p, x, j), n, Target)
  <2>1. j \in Nat
    BY ConstantsNat
  <2>. HIDE DEF n, m, p
  <2>. QED  BY <1>1, <2>1, Receives
<1>3. Handled(m, m, n, Target)
  BY <1>1 DEF Handled
<1>. HIDE DEF n, m, p
<1>4. \E k : Handled(m, k, n, Target) /\ Becomes(n, k, {e})
  <2>1. PICK j \in Jitters :
          IF p.type # "BACKPRESSURE" THEN Becomes(n, recv(m, n, p, NoNode, j), {e})
          ELSE \E upstream \in Upstream(n, p), x \in Unset(m) :
                 Becomes(n, IF upstream THEN recv(m, n, p, x, j) ELSE m, {e})
    BY DEF Recv, n, m, p
  <2>2. CASE p.type # "BACKPRESSURE"
    BY <1>2, <2>1, <2>2
  <2>3. CASE p.type = "BACKPRESSURE"
    <3>1. PICK upstream \in Upstream(n, p), x \in Unset(m) :
            Becomes(n, IF upstream THEN recv(m, n, p, x, j) ELSE m, {e})
      BY <2>1, <2>3
    <3>2. CASE upstream
      <4>1. Becomes(n, recv(m, n, p, x, j), {e})
        BY <3>1, <3>2
      <4>. QED  BY <1>2, <4>1
    <3>3. CASE ~upstream
      <4>1. Becomes(n, m, {e})
        BY <3>1, <3>3
      <4>. QED  BY <1>3, <4>1
    <3>. QED  BY <3>2, <3>3
  <2>. QED  BY <2>2, <2>3
<1>. QED  BY <1>1, <1>4, BecomesIInv DEF m

\* One of the four kinds of timers fires.
LEMMA TimerStep ==
  ASSUME IInv, NEW what \in Kinds \ {"frame"}, NEW e \in Due(what),
         \/ what = "forward" /\ ForwardTimer(e)
         \/ what = "centered" /\ CenteredTimer(e)
         \/ what = "shift" /\ ShiftTimer(e)
         \/ what = "backpressure" /\ BackpressureTimer(e)
  PROVE  IInv'
<1>. DEFINE n == e.to
            m == node[n]
            p == e.pkt
<1>1. /\ flow \in Flow /\ node[Source].originated /\ n \in Node /\ n # Target
      /\ Good(m, n, Target) /\ Copy(p, Target) /\ (what = "shift" => p.f = n)
  <2>1. /\ flow \in Flow /\ node[Source].originated /\ n \in Node /\ e.what = what
        /\ Pending(e, Target) /\ Good(m, n, Target)
    BY DueFacts
  <2>2. n # Target /\ Copy(p, Target) /\ (what = "shift" => p.f = n)
    <3>. HIDE DEF m
    <3>. QED  BY <2>1 DEF Pending
  <2>. QED  BY <2>1, <2>2
<1>2. Jitters \subseteq Nat
  BY ConstantsNat
<1>. HIDE DEF n, m, p
<1>3. \E k : Handled(m, k, n, Target) /\ Becomes(n, k, {e})
  <2>1. CASE what = "forward" /\ ForwardTimer(e)
    <3>1. PICK j \in Jitters : Becomes(n, process_forward_timeout(m, n, p, j), {e})
      BY <2>1 DEF ForwardTimer, n, m, p
    <3>2. Handled(m, process_forward_timeout(m, n, p, j), n, Target)
      BY <1>1, <1>2, ForwardTimeouts
    <3>. QED  BY <3>1, <3>2
  <2>2. CASE what = "centered" /\ CenteredTimer(e)
    <3>1. PICK j \in Jitters : Becomes(n, process_selfcentered_timeout(m, n, p, j), {e})
      BY <2>2 DEF CenteredTimer, n, m, p
    <3>2. Handled(m, process_selfcentered_timeout(m, n, p, j), n, Target)
      BY <1>1, <1>2, ForwardTimeouts
    <3>. QED  BY <3>1, <3>2
  <2>3. CASE what = "shift" /\ ShiftTimer(e)
    <3>1. PICK j \in Jitters : Becomes(n, process_void_avoidance_timeout(m, n, p, j), {e})
      BY <2>3 DEF ShiftTimer, n, m, p
    <3>2. Handled(m, process_void_avoidance_timeout(m, n, p, j), n, Target)
      BY <1>1, <1>2, <2>3, ShiftTimeouts
    <3>. QED  BY <3>1, <3>2
  <2>4. CASE what = "backpressure" /\ BackpressureTimer(e)
    <3>1. Becomes(n, process_backpressure_timeout(m, n, p), {e})
      BY <2>4 DEF BackpressureTimer, n, m, p
    <3>2. Handled(m, process_backpressure_timeout(m, n, p), n, Target)
      BY <1>1, BackpressureTimeouts
    <3>. QED  BY <3>1, <3>2
  <2>. QED  BY <2>1, <2>2, <2>3, <2>4
<1>. QED  BY <1>1, <1>3, BecomesIInv DEF m

\* A frame is lost.
LEMMA LoseStep ==
  ASSUME IInv, NEW e \in Due("frame"), Lose(e)
  PROVE  IInv'
<1>1. /\ flow' = flow /\ node' = node /\ Target' = Target /\ Source' = Source
      /\ BagToSet(agenda') \subseteq BagToSet(agenda) /\ faults' = faults + 1
      /\ faults < MaxFaults[flow]
  BY BagFacts DEF Lose, Target, Source
<1>2. MaxFaults[flow] \in Nat /\ faults' \in 0 .. MaxFaults[flow]
  BY <1>1, VBVAAssumption DEF IInv
<1>3. node[Source].originated
  BY DueFacts
<1>. QED  BY <1>1, <1>2, <1>3 DEF IInv

\* A node loses its table.
LEMMA ResetStep ==
  ASSUME IInv, NEW n \in Node, Reset(n)
  PROVE  IInv'
<1>. DEFINE k == delete_hash(node[n])
<1>1. /\ flow' = flow /\ agenda' = agenda /\ Target' = Target /\ Source' = Source
      /\ faults' = faults + 1 /\ faults < MaxFaults[flow] /\ node[n].heard # NoRecord
      /\ node' = [node EXCEPT ![n] = k]
  BY DEF Reset, Target, Source
<1>2. MaxFaults[flow] \in Nat /\ faults' \in 0 .. MaxFaults[flow]
  BY <1>1, VBVAAssumption DEF IInv
<1>3. node[Source].originated
  BY <1>1 DEF IInv
<1>4. Good(node[n], n, Target) /\ node[n].out = {}
  BY DEF IInv
<1>5. Handled(node[n], k, n, Target)
  BY <1>4, Deletes
<1>6. k.out = {}
  BY <1>4 DEF delete_hash, Good, Typed, Fields
<1>. HIDE DEF k
<1>7. DOMAIN node' = Node /\ node'[n] = k /\ \A a \in Node \ {n} : node'[a] = node[a]
  BY <1>1 DEF IInv
<1>8. \A a \in Node : Good(node'[a], a, Target) /\ node'[a].out = {}
  BY <1>5, <1>6, <1>7 DEF IInv, Handled
<1>9. node'[Source].originated
  BY <1>3, <1>5, <1>7, FlowFacts DEF IInv, Handled
<1>. QED  BY <1>1, <1>2, <1>7, <1>8, <1>9 DEF IInv

\* The next event is that with the least time left.
LEMMA TickStep ==
  ASSUME IInv, Tick
  PROVE  IInv'
<1>. DEFINE times == {x.left : x \in BagToSet(agenda)}
            d == CHOOSE x \in times : \A x1 \in BagToSet(agenda) : x <= x1.left
            later == {[x EXCEPT !.left = @ - d] : x \in BagToSet(agenda)}
<1>1. \A x \in BagToSet(agenda) : Pending(x, Target) /\ x.left \in Nat
  BY DEF IInv, Pending
<1>2. BagToSet(agenda) # {}
  <2>1. SUFFICES ASSUME BagToSet(agenda) = {} PROVE FALSE
    OBVIOUS
  <2>. QED  BY <2>1 DEF Tick, EmptyBag, SetToBag, BagToSet
<1>3. d \in Nat /\ \A x \in BagToSet(agenda) : d <= x.left
  <2>1. times \in SUBSET Nat /\ times # {}
    BY <1>1, <1>2
  <2>2. PICK x \in times : \A y \in times : x <= y
    BY <2>1, Least
  <2>3. \A x1 \in BagToSet(agenda) : x <= x1.left
    BY <2>2
  <2>4. d \in times /\ \A x1 \in BagToSet(agenda) : d <= x1.left
    BY <2>2, <2>3
  <2>. QED  BY <2>1, <2>4
<1>4. /\ BagToSet(agenda') = later /\ node' = node /\ flow' = flow /\ faults' = faults
      /\ Target' = Target /\ Source' = Source
  BY DEF Tick, BagToSet, Target, Source
<1>. HIDE DEF d
<1>5. \A x \in later : Pending(x, Target)
  <2>. SUFFICES ASSUME NEW x \in BagToSet(agenda)
                PROVE  Pending([x EXCEPT !.left = @ - d], Target)
    OBVIOUS
  <2>. DEFINE y == [x EXCEPT !.left = @ - d]
              left == x.left - d
  <2>1. left \in Nat
    BY <1>1, <1>3
  <2>2. Pending(x, Target)
    BY <1>1
  <2>3. y = [x EXCEPT !.left = left]
    OBVIOUS
  <2>. HIDE DEF left
  <2>4. /\ y \in [to : Node, what : Kinds, pkt : Message, left : Nat]
        /\ y.to = x.to /\ y.what = x.what /\ y.pkt = x.pkt
    BY <2>1, <2>2, <2>3 DEF Pending
  <2>. HIDE DEF y
  <2>5. Pending(y, Target)
    BY <2>2, <2>4 DEF Pending
  <2>. QED  BY <2>5 DEF y
<1>6. node[Source].originated
  BY <1>2 DEF IInv
<1>. QED  BY <1>4, <1>5, <1>6 DEF IInv

\* Every step keeps the invariant: one case for each disjunct of Next.
LEMMA NextIInv == IInv /\ [Next]_vars => IInv'
<1>. SUFFICES ASSUME IInv, [Next]_vars PROVE IInv'
  OBVIOUS
<1>1. CASE UNCHANGED vars
  BY <1>1 DEF vars, IInv, Target, Source
<1>2. CASE Tick
  BY <1>2, TickStep
<1>3. ASSUME NEW n \in Node, Send(n) \/ Reset(n) PROVE IInv'
  BY <1>3, SendStep, ResetStep
<1>4. ASSUME NEW e \in Due("frame"), Recv(e) \/ Lose(e) PROVE IInv'
  BY <1>4, RecvStep, LoseStep
<1>5. ASSUME NEW e \in Due("forward"), ForwardTimer(e) PROVE IInv'
  BY <1>5, TimerStep DEF Kinds
<1>6. ASSUME NEW e \in Due("centered"), CenteredTimer(e) PROVE IInv'
  BY <1>6, TimerStep DEF Kinds
<1>7. ASSUME NEW e \in Due("shift"), ShiftTimer(e) PROVE IInv'
  BY <1>7, TimerStep DEF Kinds
<1>8. ASSUME NEW e \in Due("backpressure"), BackpressureTimer(e) PROVE IInv'
  BY <1>8, TimerStep DEF Kinds
<1>. QED  BY <1>1, <1>2, <1>3, <1>4, <1>5, <1>6, <1>7, <1>8 DEF Next, Event
----------------------------------------------------------------------------
(* The theorems *)

\* Every node's record and the agenda are as the handlers of
\* vectorbasedvoidavoidance.cc leave them, for every flow, place and delay.
THEOREM Invariance == Spec => []IInv
  BY InitIInv, NextIInv, PTL DEF Spec

\* A node records only forwarders it can hear and keeps at most one copy of a packet,
\* and every timer is set to a time that is not in the past, wherever the nodes are.
THEOREM TypeCorrect == Spec => []TypeOK
<1>1. IInv => TypeOK
  <2>. SUFFICES ASSUME IInv PROVE TypeOK
    OBVIOUS
  <2>1. ASSUME NEW n \in Node
        PROVE  /\ node[n].status \in PacketStatus
               /\ \A f \in DOMAIN node[n].heard :
                    /\ <<f, n>> \in Hears
                    /\ node[n].heard[f] \in [o : Node, status : {"FRESHED", "DEAD"}]
               /\ node[n].kept \subseteq Message /\ Cardinality(node[n].kept) <= 1
               /\ {node[n].num_recv, node[n].sent} \subseteq Nat /\ node[n].out = {}
    <3>1. Typed(node[n], n, Target) /\ node[n].out = {}
      BY DEF IInv, Good
    <3>2. node[n].kept \subseteq Message /\ Cardinality(node[n].kept) <= 1
      <4>1. CASE node[n].kept = {}
        BY <4>1, FS_EmptySet
      <4>2. ASSUME NEW p, Copy(p, Target), node[n].kept = {p}
            PROVE  node[n].kept \subseteq Message /\ Cardinality(node[n].kept) <= 1
        BY <4>2, FS_Singleton, SMTT(30) DEF Copy
      <4>. QED  BY <3>1, <4>1, <4>2 DEF Typed, NoCopy
    <3>. QED  BY <3>1, <3>2 DEF Typed, Table, Mark
  <2>2. BagToSet(agenda) \subseteq
          [to : Node, what : {"frame", "forward", "centered", "shift", "backpressure"},
           pkt : Message, left : Nat]
    BY DEF IInv, Pending, Kinds
  <2>3. faults \in 0 .. MaxFaults[flow]
    BY DEF IInv
  <2>. QED  BY <2>1, <2>2, <2>3 DEF TypeOK
<1>. QED  BY <1>1, Invariance, PTL

\* The sink agent counts a packet at most once, and at its target only: whoever forwards
\* it, DataForSink ends the packet at the target and a target sets no timer.
THEOREM OnceCorrect == Spec => []DeliveredOnce
<1>1. IInv => DeliveredOnce
  <2>. SUFFICES ASSUME IInv, NEW n \in Node
                PROVE  node[n].num_recv <= (IF n = Target THEN 1 ELSE 0)
    BY DEF DeliveredOnce
  <2>1. Taken(node[n], n, Target)
    BY DEF IInv, Good
  <2>. QED  BY <2>1 DEF Taken
<1>. QED  BY <1>1, Invariance, PTL
=============================================================================
