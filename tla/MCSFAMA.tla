------------------------------ MODULE MCSFAMA ------------------------------
(* Two nodes, or three in a line whose ends do not hear each other.  All   *)
(* signals are equally strong: whatever overlaps collides.  In the line a  *)
(* train takes three slots: with four, a node that missed the CTS because  *)
(* it was sending its RTS is back before the train is over.                *)
EXTENDS SFAMA, TLC

MCRxPr(n) == 1

Pair == {2, 3}
PairHears == {<<2, 3>>, <<3, 2>>}
Line == {2, 3, 4}
LineHears == {<<2, 3>>, <<3, 2>>, <<3, 4>>, <<4, 3>>}

P(d, k) == [DA |-> d, no |-> k]

BothWays == (2 :> <<P(3, 1), P(3, 2)>>) @@ (3 :> <<P(2, 1)>>)
Relay == (2 :> <<P(3, 1), P(3, 2)>>) @@ (3 :> <<P(4, 1), P(2, 2)>>) @@ (4 :> <<P(3, 1)>>)
=============================================================================
