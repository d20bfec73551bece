------------------------------- MODULE MCRMAC -------------------------------
(* A node between two that do not hear each other receives from both, or   *)
(* receives from one and sends to the other.                               *)
EXTENDS RMAC, TLC

MCRxPr(n) == 1
Star == {1, 2, 3}
StarHears == {<<1, 2>>, <<2, 1>>, <<1, 3>>, <<3, 1>>}
MCProp(a, b) == IF 3 \in {a, b} THEN 3 ELSE 2
StarWake == (1 :> 12) @@ (2 :> 0) @@ (3 :> 23)
P(d, k) == [to |-> d, no |-> k]
ToCentre == (1 :> <<>>) @@ (2 :> <<P(1, 1), P(1, 2)>>) @@ (3 :> <<P(1, 1)>>)
Relay == (1 :> <<P(3, 1)>>) @@ (2 :> <<P(1, 1)>>) @@ (3 :> <<>>)
JustCentre == {ToCentre}
BothTraffics == {ToCentre, Relay}
=============================================================================
