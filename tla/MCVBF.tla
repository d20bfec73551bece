------------------------------- MODULE MCVBF -------------------------------
(* Two networks out of each other's range.  A diamond: the source 1, the     *)
(* relays 2 and 3, and 4 behind them.  A line: 5, the relay 6, and 7.        *)
(* Positions are in thirds of the transmission range; the pipe is one third  *)
(* wide.  Directions are rounded to the x axis, desirableness to thirds.     *)
EXTENDS VBF, TLC

Places == 1 .. 7
X(n) == CASE n \in {1, 5} -> 0 [] n \in {2, 3, 6} -> 2 [] n \in {4, 7} -> 4
Y(n) == IF n = 3 THEN 1 ELSE 0
Links == {<<1, 2>>, <<1, 3>>, <<2, 3>>, <<2, 4>>, <<3, 4>>, <<5, 6>>, <<6, 7>>}
MCHears == Links \cup {<<l[2], l[1]>> : l \in Links}

Everybody == [n \in Places |-> {0}]

Along(n, t, f) == IF X(t) >= X(f) THEN X(n) - X(f) ELSE X(f) - X(n)
MCClose(n, s, t) == Y(n) <= 1
MCDesire(n, s, t, f) == 3 * Y(n) + 3 - (IF Along(n, t, f) > 3 THEN 3 ELSE Along(n, t, f))

MCTarget == [n \in Places |-> CASE n = 1 -> 4 [] n = 5 -> 7 [] n = 7 -> 5 [] OTHER -> n]

Order(n, script) == [m \in Places |-> IF m = n THEN script ELSE <<>>]
MCScripts ==
  {Order(1, <<"send">>), [Order(5, <<"send">>) EXCEPT ![6] = <<"reset-state">>], Order(5, <<"cbr-start">>),
   Order(5, <<"ready">>),
   Order(5, <<"exp-start", "announce", "stop">>), Order(7, <<"ready">>)}
=============================================================================
