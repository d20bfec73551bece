---------------------------- MODULE VBVAGeometry ----------------------------
(***************************************************************************)
(* The geometry of uw_routing/vectorbasedvoidavoidance.cc in the plane and *)
(* in fixed point.  What only compares projections on one vector is exact; *)
(* a desirableness is in hundredths, because the length of a vector and    *)
(* the square root that makes a delay of a desirableness are rounded down. *)
(*                                                                         *)
(* A position is named by the node that is there: what a packet carries as *)
(* info.o, info.f and info.t are positions of nodes, and calculatePosition *)
(* lets every node know its own.                                           *)
(***************************************************************************)
EXTENDS Integers

CONSTANTS
  Node,
  X, Y,                \* [Node -> Int]: positions, in metres
  Width,               \* [Node -> Nat]: width of the pipe, as each agent has it
  TransmitDistance     \* UnderwaterChannel::Transmit_distance()

ASSUME VBVAGeometryAssumption ==
  /\ X \in [Node -> Int] /\ Y \in [Node -> Int] /\ Width \in [Node -> Nat \ {0}]
  /\ TransmitDistance \in Nat \ {0}
  /\ \A a, b \in Node : a # b => <<X[a], Y[a]>> # <<X[b], Y[b]>>

Square(v) == v * v
Positive(v) == IF v < 0 THEN 0 ELSE v

\* The integer square root.  The interval in which TLC looks for its hundreds is
\* short and long enough: c * c <= v \div 10000 gives c <= 25 + v \div 1000000.
IsRoot(r, v, unit) == Square(r) <= v /\ v < Square(r + unit)
Root == [v \in Nat |->
  LET hundreds == CHOOSE c \in 0 .. 26 + v \div 1000000 : IsRoot(100 * c, v, 100)
  IN  CHOOSE r \in 100 * hundreds .. 100 * hundreds + 99 : IsRoot(r, v, 1)]

SquaredDistance(a, b) == Square(X[a] - X[b]) + Square(Y[a] - Y[b])

\* Functions, so that TLC computes them once: metres, and tenths of a metre.
distance == [pair \in Node \X Node |-> Root[SquaredDistance(pair[1], pair[2])]]
Length == [pair \in Node \X Node |-> Root[100 * SquaredDistance(pair[1], pair[2])]]

\* The vectors from s to a and from s to b.
Dot(s, a, b) == (X[a] - X[s]) * (X[b] - X[s]) + (Y[a] - Y[s]) * (Y[b] - Y[s])
Cross(s, a, b) == (X[a] - X[s]) * (Y[b] - Y[s]) - (Y[a] - Y[s]) * (X[b] - X[s])

\* The mapped distance of f on the vector from s to t is Dot(s, t, f) over the
\* length of the vector, which is the same for all that it is compared with.
Further(s, t, f, m) == Dot(s, t, f) > Dot(s, t, m)

IsUpstreamNode(m, f, t) == Dot(m, t, f) > 0

Magnitude(v) == IF v < 0 THEN -v ELSE v

\* How far m is from the vector from s to t, in hundredths of a metre.
projection(s, t, m) == (Magnitude(Cross(s, t, m)) * 1000) \div Length[<<s, t>>]

IsCloseEnough(m, s, t) == projection(s, t, m) <= 100 * Width[m]

\* d * cos_theta, the advance of m over f towards t, in hundredths of a metre.
Advance(f, t, m) == (Dot(f, t, m) * 1000) \div Length[<<f, t>>]

Lag(f, t, m) == (100 * TransmitDistance - Advance(f, t, m)) \div TransmitDistance

\* calculateDelay: the worse, the farther from the pipe and the closer to f.
calculateDelay(s, t, m, f) == (projection(s, t, m) \div Width[m]) + Lag(f, t, m)

\* The farther from the vector the better: a void is to be bypassed.
calculateSelfCenteredDelay(t, m, f) ==
  Root[100 * Positive(100 - (projection(f, t, m) \div Width[m]) + Lag(f, t, m))]
=============================================================================
