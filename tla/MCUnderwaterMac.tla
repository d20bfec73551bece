-------------------------- MODULE MCUnderwaterMac --------------------------
(* The signals one node hears: one that captures the channel over any      *)
(* other, two that only get through on a quiet channel, and one below the  *)
(* receive threshold.                                                      *)
EXTENDS UnderwaterMac

CONSTANTS strong, weak, faint, lost

AllSignals == {strong, weak, faint, lost}
TwoSignals == {strong, weak}
MCRxPr(p) == CASE p = strong -> 9 [] p = weak -> 3 [] p = faint -> 2 [] OTHER -> 1
=============================================================================
