------------------------------- MODULE MCVBVA -------------------------------
(* Four networks far apart: two relays inside the pipe of 1, a void next to   *)
(* 5 that 7 and 8 bypass, the twelve nodes of vbva_example.tcl with their    *)
(* narrow pipes, and two relays of 22 that lead nowhere, with a way around   *)
(* that only 22 can reach.                                                   *)
EXTENDS VBVA

Places == 1 .. 29
MCX == <<0, 70, 70, 140,
         0, 60, 60, 145, 200,
         0, -10, -10, 20, 100, 150, 200, 200, 250, 150, 100, 200,
         0, 60, 60, -60, -20, 70, 150, 200>>
MCY == <<0, 0, 20, 0,
         1000, 1000, 1070, 1060, 1000,
         2010, 2050, 2090, 2180, 2210, 2250, 2200, 2150, 2050, 2080, 2100, 2000,
         3000, 3055, 2945, 3070, 3160, 3165, 3130, 3050>>
Example == 10 .. 21
MCWidth == [n \in Places |-> CASE n \in Example -> 1 [] n < 10 -> 40 [] OTHER -> 80]
MCFlow == {<<1, 4>>, <<5, 9>>, <<21, 10>>, <<22, 29>>}
MCMaxFaults == [f \in MCFlow |-> IF f[1] \in {1, 5} THEN 2 ELSE 0]
=============================================================================
