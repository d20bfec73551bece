----------------------------- MODULE MCUWALOHA -----------------------------
(* Two nodes with packets for each other, or three in a line whose middle  *)
(* node hears both; equal powers, so that frames that overlap at a hearer  *)
(* destroy each other.                                                     *)
EXTENDS UWALOHA

CONSTANT Bcast

\* Node 2 is loud enough to be heard over any other.
MCRxPr(n) == IF n = 2 THEN 4 ELSE 1

Pair == {2, 3}
PairHears == {<<2, 3>>, <<3, 2>>}

Line == {2, 3, 4}
LineHears == {<<2, 3>>, <<3, 2>>, <<3, 4>>, <<4, 3>>}
LineForward == {<<2, 3>>, <<3, 2>>}

P(d, k) == [DA |-> d, no |-> k]

BothWays == (2 :> <<P(3, 1), P(3, 2)>>) @@ (3 :> <<P(2, 1)>>)
Crossing == (2 :> <<P(3, 1)>>) @@ (3 :> <<P(2, 1)>>) @@ (4 :> <<P(Bcast, 1)>>)
PairTraffic == {BothWays}
LineTraffic == {BothWays @@ (4 :> <<>>), Crossing}
=====
