--------------------------- MODULE ReliableLinks ---------------------------
(***************************************************************************)
(* What a MAC with acknowledgements promises the layer above it, without   *)
(* frames, timers or collisions.  A link is a pair of nodes; the sender    *)
(* keeps the packets for each receiver in the order they were handed down, *)
(* may repeat any of them, and lets go only of packets that have arrived,  *)
(* the oldest first.                                                       *)
(***************************************************************************)
EXTENDS Sequences, Naturals

CONSTANTS
  Links,
  Packets,
  LinkOf(_)    \* the link that a packet is for

VARIABLES
  submitted,   \* [Links -> Seq(Packets)]: all that was handed down
  queue,       \* [Links -> Seq(Packets)]: what the sender still keeps
  arrived      \* [Links -> SUBSET Packets]: what the receiver has handed up

vars == <<submitted, queue, arrived>>

Init ==
  /\ submitted = [l \in Links |-> <<>>]
  /\ queue = [l \in Links |-> <<>>]
  /\ arrived = [l \in Links |-> {}]

Submit(l, p) ==
  /\ l = LinkOf(p)
  /\ submitted' = [submitted EXCEPT ![l] = Append(@, p)]
  /\ queue' = [queue EXCEPT ![l] = Append(@, p)]
  /\ UNCHANGED arrived

\* Only what is still kept can be on its way.
HandUp(l, i) ==
  /\ queue[l][i] \notin arrived[l]
  /\ arrived' = [arrived EXCEPT ![l] = @ \cup {queue[l][i]}]
  /\ UNCHANGED <<submitted, queue>>

\* An acknowledgement stands for the k oldest packets.
Release(l, k) ==
  /\ \A i \in 1 .. k : queue[l][i] \in arrived[l]
  /\ queue' = [queue EXCEPT ![l] = SubSeq(@, k + 1, Len(@))]
  /\ UNCHANGED <<submitted, arrived>>

Next ==
  \E l \in Links :
    \/ \E p \in Packets : Submit(l, p)
    \/ \E i \in 1 .. Len(queue[l]) : Release(l, i) \/ HandUp(l, i)

Spec == Init /\ [][Next]_vars

----------------------------------------------------------------------------
(* Properties *)

\* The number of packets that the sender has let go of.
Gone(l) == Len(submitted[l]) - Len(queue[l])

\* The sender keeps the youngest packets, and all older ones have arrived:
\* none is lost, doubled or moved, whatever is repeated on the way.
NothingLost ==
  \A l \in Links :
    /\ Gone(l) \in 0 .. Len(submitted[l])
    /\ \A i \in 1 .. Gone(l) : submitted[l][i] \in arrived[l]
    /\ \A i \in 1 .. Len(queue[l]) : queue[l][i] = submitted[l][Gone(l) + i]
=============================================================================
