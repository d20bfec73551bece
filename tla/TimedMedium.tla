---------------------------- MODULE TimedMedium ----------------------------
(***************************************************************************)
(* The acoustic medium for protocols that compute with propagation delays: *)
(* UnderwaterChannel::sendUp schedules a copy of a frame at every hearer   *)
(* after the delay of that pair, and UnderwaterMac::recv the end of its    *)
(* reception after its transmission time.  Time is counted in whole ticks; *)
(* a copy and a timer hold what is left of their time.                     *)
(***************************************************************************)
EXTENDS Radio, FiniteSets, SequencesExt

CONSTANTS
  Node,
  Hears,       \* <<s, r>>: r is within range of s
  Prop(_, _)   \* propagation delay

\* A signal is named by who sends what to whom: nobody sends the same twice
\* without a pause.
Signal(types) == Node \X types \X Node

ASSUME TimedMediumAssumption ==
  /\ Hears \subseteq Node \X Node
  /\ \A s, r \in Node : Prop(s, r) \in Nat

NoFrame == [type |-> "none"]

\* left is the time until the copy begins to arrive, or, arriving, until it ends.
Copies(n, f, txtime) ==
  {[src |-> n, dst |-> r, frame |-> f, txtime |-> txtime, arriving |-> FALSE,
    left |-> Prop(n, r)] : r \in {r \in Node : <<n, r>> \in Hears}}

\* UnderwaterPhy::sendUp: a radio that is off or sending hears nothing.
DeafRadio(radio) == radio.trans \in {"SEND", "SLEEP"}

\* The copies after c has begun to arrive, or was not heard at all.
Begin(air, c, radio) ==
  (air \ {c}) \cup
  (IF DeafRadio(radio) THEN {} ELSE {[c EXCEPT !.arriving = TRUE, !.left = c.txtime]})

signal(c) == <<c.src, c.frame.type, c.frame.dst>>

Heard(radio, c) == IF DeafRadio(radio) THEN radio ELSE RecvUp(radio, signal(c))

AirLater(air, d) == {[c EXCEPT !.left = @ - d] : c \in air}

Larger(a, b) == IF a > b THEN a ELSE b
Smaller(a, b) == IF a < b THEN a ELSE b

----------------------------------------------------------------------------
(* Timers: what is left of each; one that is not pending is Off. *)

Off == -1

Pending(at) == {t \in DOMAIN at : at[t] # Off}

\* A node is a record with its timers in at.  Scheduler::schedule aborts when the
\* event is pending.
Schedule(m, t, d) ==
  IF m.at[t] = Off THEN [m EXCEPT !.at[t] = d] ELSE [m EXCEPT !.abort = TRUE]

Cancel(m, t) == [m EXCEPT !.at[t] = Off]

TimersLater(at, d) == [t \in DOMAIN at |-> IF at[t] = Off THEN Off ELSE at[t] - d]
=============================================================================
