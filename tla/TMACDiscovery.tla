--------------------------- MODULE TMACDiscovery ---------------------------
(***************************************************************************)
(* Phases one and two of uw_mac/tmac.cc, which find out the delay to each  *)
(* neighbour and when it wakes up, as operators on the record of a node.   *)
(* In phase one a node broadcasts an ND at a random time of its window and *)
(* then answers every ND it has heard with an ACKND; in phase two it       *)
(* broadcasts when its next duty cycle begins.  A node that is receiving   *)
(* when it would send backs off.                                           *)
(*                                                                         *)
(* An operator that draws a random number returns a set of records.        *)
(***************************************************************************)
EXTENDS TimedMedium, Integers, Sequences

CONSTANTS
  Uniform,            \* \subseteq 0 .. 9: what Random::uniform() yields, in tenths
  ShortTx,            \* getTxTime(short_packet_size_)
  ND_window, ACKND_window, PhaseOne_window, PhaseTwo_window, PhaseTwo_interval,
  PhaseOne_cycle, PhaseTwo_cycle, IntervalPhase2Phase3, PeriodInterval,
  UnsetSum            \* what sumLatency holds before the first sum

ASSUME DiscoveryAssumption ==
  /\ Uniform \subseteq 0 .. 9 /\ UnsetSum \subseteq Int
  /\ {ShortTx, ND_window, ACKND_window, PhaseTwo_window, PeriodInterval} \subseteq Nat \ {0}
  /\ {PhaseTwo_interval, PhaseOne_cycle, PhaseTwo_cycle, IntervalPhase2Phase3} \subseteq Nat
  /\ PhaseOne_window >= ND_window + ACKND_window
  /\ PhaseTwo_interval + PhaseTwo_window < IntervalPhase2Phase3 + PhaseTwo_cycle * PhaseTwo_window

TABLE_SIZE == 10
MAXIMUMBACKOFF == 4
MAC_BROADCAST == -1

\* Random::uniform() * window
Draws(window) == {(u * window) \div 10 : u \in Uniform}

\* A packet that is itself an event, for the handler h.
Put(m, h, f, t) == [m EXCEPT !.scheduled = @ \cup {[handler |-> h, frame |-> f, left |-> t]}]

\* Sends f through a radio that can: it goes to status s afterwards.
SendDown(m, f, txtime, s) ==
  Schedule([m EXCEPT !.radio = InterruptRecv(@), !.next_status = s, !.out = f], "status", txtime)

----------------------------------------------------------------------------
(* Sending with backoff *)

\* Mutant: the time since the cycle began is forgotten.
StampCycle(m, f, now) ==
  [f EXCEPT !.ts = now, !.interval = IF m.phase = 2 THEN m.next_period ELSE @]

\* What is written into the packet as it leaves.
Stamp(m, f, now) ==
  [f EXCEPT !.ts = now,
            !.interval = IF m.phase = 2 THEN m.next_period - (now - m.cycle_start) ELSE @]

TxND(m, f, window, now) ==
  CASE m.radio.trans = "RECV" ->
         LET d1 == window - (now - m.cycle_start)
         IN  IF d1 > 0
               THEN {Put([m EXCEPT !.window = window], "backoff", f, t) : t \in Draws(d1)}
               ELSE {[m EXCEPT !.backoffs = 0]}
    [] m.radio.trans = "SEND" -> {m}
    [] OTHER -> {SendDown([m EXCEPT !.backoffs = 0], Stamp(m, f, now), ShortTx, "IDLE")}

\* TBackoffHandler, one for all packets.
BackoffHandler(m, f, now) ==
  LET c == [m EXCEPT !.backoffs = @ + 1]
  IN  IF c.backoffs < MAXIMUMBACKOFF THEN TxND(c, f, m.window, now)
      ELSE {[c EXCEPT !.backoffs = 0]}

----------------------------------------------------------------------------
(* Phase one *)

InitND(m) ==
  {Schedule(Schedule(m, "nd", delay), "ackndwindow",
            ND_window + (PhaseOne_window - ACKND_window - ND_window) \div 2) : delay \in Draws(ND_window)}

\* TNDHandler
SendND(m, n, now) ==
  TxND([m EXCEPT !.cycle_start = now],
       [type |-> "ND", src |-> n, dst |-> MAC_BROADCAST, ts |-> 0, interval |-> 0], ND_window, now)

ProcessNDPacket(m, f, now) ==
  IF Len(m.arrivals) >= TABLE_SIZE THEN m
  ELSE [m EXCEPT !.arrivals = Append(@, [addr |-> f.src, arrival |-> now, sending |-> f.ts])]

\* Answers leave in a random order, at times drawn one by one.
SendShortAckND(m, n) ==
  LET ack(r) == [type |-> "ACKND", src |-> n, dst |-> r.addr, ts |-> 0, interval |-> 0,
                 sending |-> r.sending, arrival |-> r.arrival]
  IN  FoldLeft(LAMBDA ms, r : {Put(x, "acknd", ack(r), t) : x \in ms, t \in Draws(ACKND_window)},
               {[m EXCEPT !.arrivals = <<>>]}, m.arrivals)

\* The clocks of the two nodes cancel out.  The sum of a new entry is not set.
ProcessShortACKNDPacket(m, f, now) ==
  LET latency == ((now - f.sending) - (f.ts - f.arrival)) \div 2
      known == f.src \in DOMAIN m.latencies
      add(r) == [sum |-> r.sum + latency, num |-> r.num + 1]
      with(r) == [m EXCEPT !.latencies = [k \in DOMAIN @ \cup {f.src} |-> IF k = f.src THEN r ELSE @[k]]]
  IN  IF known THEN {with(add(m.latencies[f.src]))}
      ELSE IF Cardinality(DOMAIN m.latencies) >= TABLE_SIZE THEN {m}
      ELSE {with(add([sum |-> s, num |-> 0])) : s \in UnsetSum}

\* The latency includes the transmission time; of a stranger it is 0.
CheckLatency(m, k) ==
  IF k \in DOMAIN m.latencies THEN m.latencies[k].sum \div m.latencies[k].num ELSE 0

----------------------------------------------------------------------------
(* Phase two *)

syn(n) == [type |-> "SYN", src |-> n, dst |-> MAC_BROADCAST, ts |-> 0, interval |-> 0]

\* next_period loses the window but gains the interval.
StartPhaseTwo(m, n, now) ==
  IF m.two = 0 THEN {m}
  ELSE LET c == [m EXCEPT !.phase = 2, !.cycle_start = now, !.two = @ - 1,
                          !.next_period = @ - (PhaseTwo_window - PhaseTwo_interval)]
       IN  {Schedule(Put(c, "syn", syn(n), delay), "phasetwo", PhaseTwo_window + PhaseTwo_interval) :
              delay \in Draws(PhaseTwo_window)}

InitPhaseTwo(m, n, now) ==
  LET next == IntervalPhase2Phase3 + PhaseTwo_cycle * PhaseTwo_window
  IN  StartPhaseTwo(Schedule([m EXCEPT !.next_period = next], "phasethree", next), n, now)

\* The handler of phasetwo_event sends at once and does not start another cycle.
SendSYN(m, n, now) == TxND(m, syn(n), PhaseTwo_window, now)

\* How long after the own duty cycle that of the sender begins.
ProcessSYN(m, f, now) ==
  IF f.src \notin DOMAIN m.latencies THEN m
  ELSE LET d == (f.interval - CheckLatency(m, f.src)) - (m.next_period - (now - m.cycle_start))
       IN  IF f.src \notin DOMAIN m.periods /\ Cardinality(DOMAIN m.periods) >= TABLE_SIZE THEN m
           ELSE [m EXCEPT !.periods = [k \in DOMAIN @ \cup {f.src} |->
                                         IF k = f.src THEN d % PeriodInterval ELSE @[k]]]

\* PhaseOne_cycle_ times phase one, then phase two.
InitPhaseOne(m, n, now) ==
  IF m.one = 0 THEN InitPhaseTwo(m, n, now)
  ELSE {Schedule(x, "phaseone", PhaseOne_window) : x \in InitND([m EXCEPT !.phase = 1, !.one = @ - 1])}
=============================================================================
