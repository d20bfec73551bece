------------------------------- MODULE MCTMAC -------------------------------
(* Nodes on a line hear their neighbours only.                             *)
EXTENDS TMAC, TLC

MCRxPr(s) == IF s[1] = 1 THEN 2 ELSE 1
MCProp(a, b) == IF 3 \in {a, b} THEN 8 ELSE 7
Line == {1, 2, 3}
LineHears == {<<1, 2>>, <<2, 1>>, <<2, 3>>, <<3, 2>>}
P(d, k) == [to |-> d, no |-> k]
Hidden == (1 :> <<P(2, 1)>>) @@ (2 :> <<>>) @@ (3 :> <<P(2, 1)>>)
Relay == (1 :> <<>>) @@ (2 :> <<P(1, 1)>>) @@ (3 :> <<P(2, 1)>>)
Queued == (1 :> <<P(2, 1), P(2, 2)>>) @@ (2 :> <<>>) @@ (3 :> <<>>)
None == [n \in Line |-> <<>>]
MCStarts == {[phase |-> 1, packets |-> None]}
            \cup {[phase |-> 3, packets |-> p] : p \in {Hidden, Queued, Relay}}
=============================================================================
