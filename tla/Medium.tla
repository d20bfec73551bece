------------------------------- MODULE Medium -------------------------------
(***************************************************************************)
(* The acoustic medium between nodes whose radios are those of module      *)
(* Radio: UnderwaterChannel::sendUp gives every hearer its own copy of a   *)
(* frame, after the propagation delay of that pair of nodes.  A link       *)
(* carries the frames of one sender to one hearer in the order they were   *)
(* sent, since all take the same way; the frames of different senders      *)
(* overlap at a hearer in every order.  The head of a link may be          *)
(* arriving: then the sender is on the hearer's reception channel.         *)
(***************************************************************************)
EXTENDS Radio, Sequences, FiniteSets

CONSTANTS
  Node,
  Hears    \* <<s, r>>: r is within range of s

ASSUME MediumAssumption ==
  /\ IsFiniteSet(Node) /\ Hears \subseteq Node \X Node
  /\ \A n \in Node : RxPr(n) \in Nat
  /\ \A n \in Node : <<n, n>> \notin Hears    \* rnode == tnode is passed over

NoFrame == [type |-> "none"]

EmptyLinks == [l \in Hears |-> <<>>]

\* Node n sends out (or NoFrame) on all its links, and the receptions that
\* end take their frames off the links in ended.
Carry(link, n, out, ended) ==
  [l \in Hears |->
     LET rest == IF l \in ended THEN Tail(link[l]) ELSE link[l]
     IN  IF l[1] = n /\ out # NoFrame THEN Append(rest, out) ELSE rest]

Heard(radio, s) == s \in Active(radio.chan)

\* UnderwaterPhy::sendUp: a radio that is off or sending hears nothing.
DeafRadio(radio) == radio.trans \in {"SEND", "SLEEP"}

\* A frame ends at its hearer after its sender has finished sending it: it is
\* no longer the last one on the link, or the sender is not sending.
Ends(frames, sending) == Len(frames) > 1 \/ ~sending

\* The radio after IncommingChannelProcess, RecvProcess left out.
Ended(radio, s) == ResetCarrierSense(EndReception(radio, s))
=============================================================================
