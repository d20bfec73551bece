-------------------------------- MODULE RMAC --------------------------------
(***************************************************************************)
(* Phase three of uw_mac/rmac.cc, over uw_mac/uwbuffer.cc.  A node wakes   *)
(* up every PeriodInterval for a duty cycle that begins with a window for  *)
(* ACKREV packets.  A sender asks with a REV for time to send; a receiver  *)
(* that has collected REVs over two periods chooses one and tells all its  *)
(* neighbours with ACKREVs, each in the window of that neighbour; the data *)
(* comes in the time reserved, and an ACKDATA with a bitmap in some later  *)
(* duty cycle of the sender.                                               *)
(*                                                                         *)
(* A node is a record; the functions of class RMac are operators on it,    *)
(* those that draw a random number from a record to a set of records.      *)
(* What phases one and two learn, the delay to each neighbour and where    *)
(* its cycle begins, is given, exactly.                                    *)
(***************************************************************************)
EXTENDS TimedMedium, Integers, Sequences

CONSTANTS
  WakeAt,            \* [Node -> Nat]: when the first duty cycle of a node begins
  PeriodInterval,
  Duration,          \* duration_: of a duty cycle
  ShortTx,           \* max_short_packet_transmissiontime, of ACKREV and ACKDATA too
  RevTx,             \* the transmission time of a REV, whose size is left 0
  LargeTx, MaxLarge, \* of DATA, and max_large_packet_transmissiontime
  Traffic,           \* what the layers above may hand down: each [Node -> Seq] of [to, no]
  UnsetBit,          \* \subseteq BOOLEAN: what a bitmap holds that was never written
  NoisyTypes,        \* the types of frame that noise may destroy
  MaxNoise           \* bound: how many it destroys

ASSUME RMACAssumption ==
  /\ WakeAt \in [Node -> 0 .. PeriodInterval - 1]
  /\ {PeriodInterval, Duration, ShortTx, RevTx, LargeTx, MaxLarge} \subseteq Nat \ {0}
  /\ 2 * ShortTx < Duration /\ Duration < PeriodInterval
  /\ LargeTx <= MaxLarge /\ MaxNoise \in Nat

VARIABLES
  mac,       \* the record of each node
  air,       \* the copies of frames under way
  noise,     \* the types of the frames noise has destroyed
  handedUp,  \* history: [Node -> set of <<from, no>>]
  released   \* history: [Node -> set of packets taken out of the buffer]

vars == <<mac, air, noise, handedUp, released>>

TABLE_SIZE == 20

MacStatus == {"IDLE", "REV", "ACKREV", "RECV", "WAIT_ACKREV", "WAIT_ACKDATA",
              "FORBIDDED", "TRANSMISSION"}

FrameType == {"REV", "ACKREV", "DATA", "ACKDATA"}

Timers == {"wakeup", "sleep", "ackwindow", "timeout", "transmission", "mac_recv", "status"}

\* The buffer takes one packet (MAXIMUM_BUFFER) from the layer above.
First(q) == IF q = <<>> THEN <<>> ELSE <<Head(q)>>
Rest(q) == IF q = <<>> THEN <<>> ELSE Tail(q)

NewMac(n, packets) ==
  [radio |-> InitRadio, mac_status |-> "IDLE", elapsed |-> 0, collect_rev |-> FALSE,
   at |-> [t \in Timers |-> IF t = "wakeup" THEN WakeAt[n] ELSE Off],
   next_status |-> "SLEEP", receiver |-> n, window |-> [status |-> 0, duration |-> 0, from |-> n],
   buffer |-> <<>>, queue |-> packets,
   current |-> <<>>, num_block |-> 0,      \* TransmissionBuffer; what current_p points to
   reservations |-> <<>>, reserved |-> 0,  \* reservation_table and its index
   silences |-> <<>>,                      \* reserved_time_table
   ackdata |-> [k \in {} |-> 0],           \* ackdata_table: the block per sender
   ack_rev |-> <<>>, scheduled |-> {},     \* packets that are events
   out |-> NoFrame, abort |-> FALSE,
   collected |-> 0, hasty |-> FALSE,       \* history: sleeps since the table was empty; see
   overruled |-> FALSE]                    \* ArrangeReservation; see TxACKData

----------------------------------------------------------------------------
(* Scheduling and sending *)

TxTime(f) == CASE f.type = "DATA" -> LargeTx [] f.type = "REV" -> RevTx [] OTHER -> ShortTx

\* The common end of TxACKRev, TxRev and TxACKData.  A radio that is sending
\* frees the packet.
Transmit(m, f) ==
  IF m.radio.trans = "SEND" THEN m
  ELSE Schedule([m EXCEPT !.radio = InterruptRecv(@),
                          !.next_status = IF m.radio.trans = "SLEEP" THEN "SLEEP" ELSE "IDLE",
                          !.out = f], "status", TxTime(f))

StatusHandler(m) ==
  IF m.next_status = "SLEEP" THEN [m EXCEPT !.radio = Poweroff(@)]
  ELSE IF m.radio.trans = "SLEEP" THEN m
  ELSE [m EXCEPT !.radio.trans = m.next_status]

----------------------------------------------------------------------------
(* What phases one and two have learned *)

\* The latency includes the transmission time; of a stranger it is 0.
CheckLatency(n, k) == IF <<n, k>> \in Hears THEN Prop(n, k) + ShortTx ELSE 0

Delay(n, k) == CheckLatency(n, k) - ShortTx

CheckDifference(n, k) == (WakeAt[k] - WakeAt[n]) % PeriodInterval

\* In its own cycle, when n must send for a frame to reach k as k wakes up.
SendAt(n, k) ==
  LET d == CheckDifference(n, k) - Delay(n, k) IN IF d < 0 THEN d + PeriodInterval ELSE d

Neighbours(n) == {k \in Node : <<n, k>> \in Hears}

\* period_table, which InitPhaseThree sorts, and the copies of it that are
\* sorted by SendAt.
PeriodTable(n) == SetToSortSeq(Neighbours(n), LAMBDA j, k : CheckDifference(n, j) < CheckDifference(n, k))
SendTable(n) == SetToSortSeq(Neighbours(n), LAMBDA j, k : SendAt(n, j) < SendAt(n, k))

----------------------------------------------------------------------------
(* When to send *)

\* The gaps of the duty cycle of k, as n has to send for them: where each begins
\* and the slots in it.  Entries that the table does not use are taken to end
\* the loop.
Gaps(n, k) ==
  LET first == SendAt(n, k)
      last == first + Duration - ShortTx
      others == SelectSeq([i \in DOMAIN SendTable(n) |-> SendAt(n, SendTable(n)[i])],
                          LAMBDA t : first < t /\ t < last)
      ends == <<first>> \o others \o <<last>>
  IN  [i \in 1 .. Len(others) + 1 |->
         [start |-> ends[i], slots |-> (ends[i + 1] - ends[i] - ShortTx) \div ShortTx]]

num_slot(n, k) == FoldLeft(LAMBDA sum, g : sum + g.slots, 0, Gaps(n, k))

\* rand() % num_slot divides by zero when there is none.
ASSUME SlotsAssumption == \A n \in Node : \A k \in Neighbours(n) : num_slot(n, k) > 0

\* The time after the start of the duty cycle.  The loop over the gaps but the
\* last goes on when the slot has been found, and begins again at every gap.
rand_time(n, k, randIndex) ==
  LET look(acc, g) ==
        IF acc.sum + g.slots > randIndex
          THEN [allocated |-> TRUE,
                time |-> g.start - SendAt(n, k)
                           + (IF acc.sum <= randIndex THEN ShortTx * (randIndex - acc.sum + 1) ELSE 0),
                sum |-> IF acc.sum <= randIndex THEN randIndex + 1 ELSE acc.sum]
          ELSE [allocated |-> acc.allocated, time |-> g.start - SendAt(n, k), sum |-> acc.sum + g.slots]
      gaps == Gaps(n, k)
      found == FoldLeft(look, [allocated |-> FALSE, time |-> 0, sum |-> 0], Front(gaps))
  IN  IF found.allocated THEN found.time ELSE look(found, Last(gaps)).time

DetermineSendingTime(m, n, k) ==
  LET d == SendAt(n, k) + ShortTx - m.elapsed
  IN  {(IF d < 0 THEN d + PeriodInterval ELSE d) + rand_time(n, k, i) : i \in 0 .. num_slot(n, k) - 1}

\* The offset a sender proposes for its data: now, unless the first gap between
\* the windows of its neighbours that is long enough comes after another.
CalculateOffset(m, n, dt) ==
  LET at == [i \in DOMAIN SendTable(n) |-> SendAt(n, SendTable(n)[i])]
      ahead == {i \in DOMAIN at : at[i] + ShortTx > m.elapsed}
      index == CHOOSE i \in ahead : \A j \in ahead : i <= j
      from(i) == IF i = index THEN m.elapsed ELSE at[i - 1] + ShortTx
      long == {i \in index .. Len(at) - 1 : at[i] - from(i) >= dt}
      start == IF long = {} THEN Len(at) ELSE CHOOSE i \in long : \A j \in long : i <= j
  IN  IF ahead = {} \/ start = index THEN m.elapsed ELSE from(start)

----------------------------------------------------------------------------
(* The sender's request *)

Put(m, f, t) == [m EXCEPT !.scheduled = @ \cup {[frame |-> f, left |-> t]}]

MakeReservation(m, n) ==
  LET k == Head(m.buffer).to
      rev == [type |-> "REV", src |-> n, dst |-> k, block |-> m.num_block,
              duration |-> MaxLarge, interval |-> CalculateOffset(m, n, MaxLarge)]
  IN  {Put([m EXCEPT !.current = m.buffer], rev, t) : t \in DetermineSendingTime(m, n, k)}

TxRev(m, f) ==
  IF m.mac_status \in {"FORBIDDED", "WAIT_ACKREV"} THEN m
  ELSE Transmit(Schedule([m EXCEPT !.mac_status = "WAIT_ACKREV"], "timeout", 5 * PeriodInterval), f)

ProcessRevPacket(m, f) ==
  IF m.mac_status # "IDLE" \/ m.reserved >= TABLE_SIZE THEN m
  ELSE LET r == [addr |-> f.src, duration |-> f.duration, interval |-> f.interval, block |-> f.block]
       IN  [m EXCEPT !.reservations = IF m.reserved < Len(@) THEN [@ EXCEPT ![m.reserved + 1] = r]
                                      ELSE Append(@, r),
                     !.reserved = @ + 1]

----------------------------------------------------------------------------
(* reserved_time_table: when others have the medium *)

\* One entry per node; a new one only if the table has room.
InsertReservedTimeTable(m, addr, start, dt) ==
  LET r == [addr |-> addr, start |-> start, duration |-> dt]
      at == {i \in DOMAIN m.silences : m.silences[i].addr = addr}
  IN  IF Len(m.silences) >= TABLE_SIZE THEN m
      ELSE IF at # {} THEN [m EXCEPT !.silences[CHOOSE i \in at : \A j \in at : j <= i] = r]
      ELSE [m EXCEPT !.silences = Append(@, r)]

\* The loop that moves the entries up lowers the index at every turn, so more
\* than one entry is lost.
DeleteRecord(t, i) == SubSeq(RemoveAt(t, i), 1, Len(t) - ((Len(t) - i + 2) \div 2))

\* Entries that are over go; while there is one, the node is FORBIDDED.
ProcessReservedTimeTable(m, n) ==
  LET step(acc, x) ==
        IF acc.i > Len(acc.t) THEN acc
        ELSE LET r == acc.t[acc.i]
                 nst == r.start - PeriodInterval - m.elapsed - Delay(n, r.addr)
             IN  IF nst < 0 /\ r.duration + nst <= 0
                   THEN [acc EXCEPT !.t = DeleteRecord(@, acc.i)]
                 ELSE [i |-> acc.i + 1, forbidden |-> TRUE,
                       t |-> [acc.t EXCEPT ![acc.i] =
                                [r EXCEPT !.start = IF nst < 0 THEN m.elapsed ELSE nst,
                                          !.duration = IF nst < 0 THEN @ + nst ELSE @]]]
      all == FoldLeft(step, [i |-> 1, t |-> m.silences, forbidden |-> m.mac_status = "FORBIDDED"], m.silences)
  IN  [m EXCEPT !.silences = all.t,
                !.mac_status = IF ~all.forbidden THEN @
                               ELSE IF all.t = <<>> THEN "IDLE" ELSE "FORBIDDED"]

----------------------------------------------------------------------------
(* The receiver's answer *)

\* The bitmap of a sender nothing came from is not initialised.
CopyBitmap(m, k) == IF k \in DOMAIN m.ackdata THEN {TRUE} ELSE UnsetBit

ScheduleACKData(m, n, k) ==
  {Put(m, [type |-> "ACKDATA", src |-> n, dst |-> k, bit |-> b], t) :
     b \in CopyBitmap(m, k), t \in DetermineSendingTime(m, n, k)}

\* Mutant: every block of a sender that was heard is taken for the last one.
IsKnownSender(m, r) == r.addr \in DOMAIN m.ackdata

IsRetransmission(m, r) == r.addr \in DOMAIN m.ackdata /\ m.ackdata[r.addr] = r.block

\* Mutant: the record goes, the index stays.
ClearRecordOnly(m, i) == [m EXCEPT !.reservations = RemoveAt(@, i)]

\* Entries move up; the last one stays behind the end of the table.
ClearReservationTable(m, i) ==
  [m EXCEPT !.reservations = [j \in DOMAIN @ |-> IF j \in i .. m.reserved - 1 THEN @[j + 1] ELSE @[j]],
            !.reserved = @ - 1]

\* Answer what was received before; the result has nothing left to answer.
ProcessRetransmission(m, n) ==
  LET step(acc, r) ==
        LET here == acc.m.reservations[acc.i]
        IN  IF IsRetransmission(m, here)
              THEN [acc EXCEPT !.m = ClearReservationTable(@, acc.i), !.answer = Append(@, here.addr)]
              ELSE [acc EXCEPT !.i = @ + 1]
      all == FoldLeft(step, [i |-> 1, m |-> m, answer |-> <<>>], SubSeq(m.reservations, 1, m.reserved))
      cleared == [all.m EXCEPT !.collected = IF all.m.reserved = 0 THEN 0 ELSE @]
  IN  FoldLeft(LAMBDA ms, k : UNION {ScheduleACKData(x, n, k) : x \in ms}, {cleared}, all.answer)

SelectReservation(m) == Range(m.reservations)

\* A packet that would leave in the window of another waits for the next period.
InsertACKRevLink(link, f, t) ==
  LET later(s, c) ==
        IF c.delay - s \in -ShortTx .. ShortTx THEN s + PeriodInterval ELSE s
      delay == FoldLeft(later, t, link)
  IN  Append(link, [frame |-> f, delay |-> delay, left |-> delay])

\* The first time from t on, in steps of a period, that is at least bound.
Until(t, bound) ==
  IF t >= bound THEN t ELSE t + PeriodInterval * ((bound - t + PeriodInterval - 1) \div PeriodInterval)

CalculateACKRevTime(m, n, k) ==
  Until(CheckDifference(n, k), m.elapsed + Delay(n, k)) - Delay(n, k) - m.elapsed

\* Mutant: as seen from now.
SetStartTimeFromNow(link, st, end) ==
  [i \in DOMAIN link |-> [link[i] EXCEPT !.frame.st = st, !.frame.duration = end - link[i].delay]]

\* What every ACKREV says of the reservation, as seen from when it is sent.
SetStartTime(link, st, end) ==
  [i \in DOMAIN link |-> [link[i] EXCEPT !.frame.st = st - link[i].delay,
                                         !.frame.duration = end - link[i].delay]]

ScheduleACKREV(m, n, r) ==
  LET rev(k) == [type |-> "ACKREV", src |-> n, dst |-> k, receiver |-> r.addr, st |-> 0, duration |-> 0]
      tell(acc, k) ==
        LET link == InsertACKRevLink(acc.link, rev(k), CalculateACKRevTime(m, n, k))
            t1 == Last(link).delay
        IN  [link |-> link, last |-> Larger(acc.last, t1 + 2 * Delay(n, k)),
             upper |-> Larger(acc.upper, t1 + Delay(n, k))]
      told == FoldLeft(tell, [link |-> m.ack_rev, last |-> 0, upper |-> 0],
                       SelectSeq(PeriodTable(n), LAMBDA k : k # r.addr))
      l == Delay(n, r.addr)
      dt == CheckDifference(n, r.addr)
      t1 == Until(CalculateACKRevTime(m, n, r.addr), told.upper)
      t3 == Larger(t1 + 2 * l + ShortTx, told.last)
      link == InsertACKRevLink(told.link, rev(r.addr), t1)
      st == Until(dt + r.interval - m.elapsed + l, t3)
      available == Until(PeriodInterval + dt - m.elapsed, st + r.duration + l)
      end == Until(PeriodInterval - m.elapsed, available + Duration - l - ShortTx)
  IN  Schedule([m EXCEPT !.mac_status = "ACKREV",
                         !.ack_rev = SetStartTime(link, st, end),
                         !.window = [status |-> 0, duration |-> r.duration, from |-> r.addr]],
               "mac_recv", st)

ArrangeReservation(m, n) ==
  IF \E i \in 1 .. m.reserved : IsRetransmission(m, m.reservations[i])
    THEN ProcessRetransmission(m, n)
    ELSE {ScheduleACKREV([m EXCEPT !.hasty = @ \/ m.collected < 2], n, r) : r \in SelectReservation(m)}

\* IsACKREVWindowCovered: the ACKREV leaves while the own window is open.
TxACKRev(m, n, c) ==
  LET sent == Transmit([m EXCEPT !.ack_rev = SelectSeq(@, LAMBDA x : x # c)], c.frame)
  IN  IF sent.out # NoFrame /\ m.elapsed \in {0, PeriodInterval}
        THEN InsertReservedTimeTable(sent, n, PeriodInterval, 4 * PeriodInterval)
        ELSE sent

\* Mutant: the timer of the REV is not cancelled.
AcceptKeepingTimer(m, src, t) ==
  Schedule([m EXCEPT !.mac_status = "TRANSMISSION", !.receiver = src], "transmission", t)

\* The answer to the REV of the node: data goes after t.
Accept(m, src, t) ==
  Schedule([Cancel(m, "timeout") EXCEPT !.mac_status = "TRANSMISSION", !.receiver = src],
           "transmission", t)

\* An ACKREV counts only in the window; its times are relative to its sending.
ProcessACKRevPacket(m, n, f, error) ==
  IF f.type # "ACKREV" \/ error THEN m
  ELSE LET l == CheckLatency(n, f.src)
           it1 == f.st - 2 * l + ShortTx
       IN  IF f.receiver # n
             THEN InsertReservedTimeTable(m, f.receiver, PeriodInterval + m.elapsed + it1,
                                          f.duration - f.st)
           ELSE IF f.dst = n /\ m.mac_status = "WAIT_ACKREV"
             THEN Accept(m, f.src, Larger(it1, 0))
           ELSE m

----------------------------------------------------------------------------
(* Data *)

\* txbuffer.next() reads through current_p.
TxData(m, n) ==
  IF m.buffer = <<>> \/ m.mac_status # "TRANSMISSION" THEN m
  ELSE IF m.current # m.buffer THEN [m EXCEPT !.abort = TRUE]
  ELSE LET on == IF m.radio.trans = "SLEEP" THEN [m EXCEPT !.radio = Poweron(@)] ELSE m
           f == [type |-> "DATA", src |-> n, dst |-> m.receiver, block |-> m.num_block,
                 no |-> Head(m.current).no]
           sent == Transmit(on, f)
       IN  Schedule([sent EXCEPT !.current = <<>>, !.mac_status = "WAIT_ACKDATA",
                                 !.radio = Poweroff(@)],
                    "timeout", 3 * PeriodInterval)

\* Open and close the window for data.
StartRECV(m, n) ==
  IF m.window.status = 0
    THEN {Schedule(Schedule([m EXCEPT !.radio = Poweron(@), !.mac_status = "RECV", !.window.status = 1],
                            "timeout", 2 * MaxLarge), "mac_recv", m.window.duration)}
    ELSE {[x EXCEPT !.radio = Poweroff(@)] : x \in ScheduleACKData(m, n, m.window.from)}

ProcessDataPacket(m, f) ==
  [Cancel(m, "timeout") EXCEPT
     !.ackdata = [k \in DOMAIN @ \cup {f.src} |-> IF k = f.src THEN f.block ELSE @[k]]]

\* The status becomes IDLE whatever it was.
TxACKData(m, f) ==
  LET now == m.elapsed
      unsafe == /\ m.mac_status = "FORBIDDED"
                /\ \E i \in DOMAIN m.silences :
                     LET r == m.silences[i]
                     IN  now + ShortTx > r.start /\ r.start + r.duration > now
  IN  IF unsafe THEN m
      ELSE Transmit([m EXCEPT !.mac_status = "IDLE", !.overruled = @ \/ m.mac_status # "IDLE"], f)

\* ResumeTxProcess: the layer above hands down its next packet when there is room.
Refill(m) ==
  IF m.buffer = <<>> THEN [m EXCEPT !.buffer = First(m.queue), !.queue = Rest(@)]
  ELSE m

\* Whoever sent it and whatever the status is.
ProcessACKDataPacket(m, f) ==
  Refill([Cancel(m, "timeout") EXCEPT !.buffer = IF f.bit THEN <<>> ELSE @,
                                      !.num_block = @ + 1, !.mac_status = "IDLE"])

RecvProcess(m, n, f, error) ==
  IF m.elapsed <= ShortTx THEN ProcessACKRevPacket(m, n, f, error)
  ELSE IF error \/ f.dst # n THEN m
  ELSE CASE f.type = "REV" -> ProcessRevPacket(m, f)
         [] f.type = "DATA" -> ProcessDataPacket(m, f)
         [] f.type = "ACKDATA" -> ProcessACKDataPacket(m, f)
         [] f.type = "ACKREV" -> m

----------------------------------------------------------------------------
(* The cycle *)

Wakeup(m) ==
  Schedule(Schedule(Schedule(
    [m EXCEPT !.radio = [Poweron(@) EXCEPT !.carrier = FALSE], !.elapsed = 0],
    "sleep", Duration), "wakeup", PeriodInterval), "ackwindow", (3 * ShortTx) \div 2)

\* When the ACKREV window has closed.
ProcessListen(m, n) ==
  LET p == ProcessReservedTimeTable(m, n)
      ResetReservation(x) == [x EXCEPT !.reservations = <<>>, !.reserved = 0, !.collected = 0]
  IN  IF p.mac_status = "IDLE"
        THEN IF p.collect_rev THEN {p}
             ELSE IF p.buffer = <<>> THEN {ResetReservation(p)}
             ELSE MakeReservation(ResetReservation([p EXCEPT !.mac_status = "REV"]), n)
      ELSE IF p.mac_status = "FORBIDDED"
        THEN {ResetReservation([Cancel(p, "timeout") EXCEPT !.ack_rev = <<>>, !.collect_rev = FALSE])}
      ELSE {ResetReservation([p EXCEPT !.collect_rev = FALSE])}

ProcessSleep(m, n) ==
  IF m.mac_status = "RECV" THEN {m}
  ELSE LET off == [m EXCEPT !.radio = Poweroff(@)]
           c == [off EXCEPT !.collected = Smaller(2, @ + 1)]
       IN  IF m.mac_status # "IDLE" \/ m.reserved = 0 THEN {off}
           ELSE IF ~m.collect_rev THEN {[c EXCEPT !.collect_rev = TRUE]}
           ELSE ArrangeReservation(c, n)

\* TimeoutHandler.
ResetMacStatus(m) ==
  IF m.mac_status = "RECV"
    THEN [Cancel(m, "mac_recv") EXCEPT !.radio = Poweroff(@), !.mac_status = "IDLE"]
    ELSE [m EXCEPT !.mac_status = "IDLE"]

----------------------------------------------------------------------------
(* Actions *)

Init ==
  /\ \E packets \in Traffic : mac = [n \in Node |-> NewMac(n, packets[n])]
  /\ air = {} /\ noise = <<>>
  /\ handedUp = [n \in Node |-> {}] /\ released = [n \in Node |-> {}]

\* Node n becomes m, and what it sends joins the copies in rest.
Becomes(n, m, rest) ==
  /\ mac' = [mac EXCEPT ![n] = [m EXCEPT !.out = NoFrame]]
  /\ air' = IF m.out = NoFrame THEN rest ELSE rest \cup Copies(n, m.out, TxTime(m.out))

Fires(n, t) == mac[n].at[t] = 0

\* The handler of timer t of node n, once the event is no longer pending.
Handle(n, t) ==
  LET m == Cancel(mac[n], t)
  IN  CASE t = "wakeup" -> {Wakeup(m)}
        [] t = "sleep" -> ProcessSleep(m, n)
        [] t = "ackwindow" -> ProcessListen(m, n)
        [] t = "timeout" -> {ResetMacStatus(m)}
        [] t = "transmission" -> {TxData(m, n)}
        [] t = "mac_recv" -> StartRECV(m, n)
        [] t = "status" -> {StatusHandler(m)}

Timer(n, t) ==
  /\ Fires(n, t)
  /\ \E m \in Handle(n, t) : Becomes(n, m, air)
  /\ UNCHANGED <<noise, handedUp, released>>

\* TxProcess.  A node looks for new packets only as its ACKREV window closes, so
\* they may as well come as it wakes up.
Submit(n) ==
  /\ Fires(n, "wakeup") /\ mac[n].buffer = <<>> /\ mac[n].queue # <<>>
  /\ Becomes(n, Refill(mac[n]), air)
  /\ UNCHANGED <<noise, handedUp, released>>

\* ReserveHandler and ACKDATAHandler.
Scheduled(n) ==
  /\ \E s \in mac[n].scheduled :
       LET m == [mac[n] EXCEPT !.scheduled = @ \ {s}]
       IN  /\ s.left = 0
           /\ Becomes(n, IF s.frame.type = "REV" THEN TxRev(m, s.frame) ELSE TxACKData(m, s.frame), air)
  /\ UNCHANGED <<noise, handedUp, released>>

ACKRev(n) ==
  /\ \E i \in DOMAIN mac[n].ack_rev :
       /\ mac[n].ack_rev[i].left = 0
       /\ Becomes(n, TxACKRev(mac[n], n, mac[n].ack_rev[i]), air)
  /\ UNCHANGED <<noise, handedUp, released>>

TimersDue ==
  \E n \in Node : \/ \E t \in Timers : Fires(n, t)
                  \/ \E s \in mac[n].scheduled : s.left = 0
                  \/ \E i \in DOMAIN mac[n].ack_rev : mac[n].ack_rev[i].left = 0

\* What is sent to arrive in a window arrives transmission_time_error_ after
\* the window opens.
Arrive(c) ==
  /\ c.left = 0 /\ ~c.arriving /\ ~TimersDue
  /\ mac' = [mac EXCEPT ![c.dst].radio = Heard(@, c)]
  /\ air' = Begin(air, c, mac[c.dst].radio)
  /\ UNCHANGED <<noise, handedUp, released>>

\* The last bit of c: noise may have destroyed it, whatever else did.
End(c) ==
  LET n == c.dst
      f == c.frame
      m == [mac[n] EXCEPT !.radio = EndReception(@, signal(c))]
      clear == Decodable(mac[n].radio, signal(c))
      got(error) == RecvProcess(m, n, f, error)
      isData == m.elapsed > ShortTx /\ f.dst = n
  IN  /\ c.left = 0 /\ c.arriving /\ ~TimersDue
      /\ \E error \in (IF clear THEN {FALSE} ELSE {TRUE})
                      \cup (IF Len(noise) < MaxNoise /\ f.type \in NoisyTypes THEN {TRUE} ELSE {}) :
           /\ noise' = IF error /\ clear THEN Append(noise, f.type) ELSE noise
           /\ Becomes(n, [got(error) EXCEPT !.radio = ResetCarrierSense(@)], air \ {c})
           /\ handedUp' = IF isData /\ ~error /\ f.type = "DATA"
                            THEN [handedUp EXCEPT ![n] = @ \cup {<<f.src, f.no>>}] ELSE handedUp
           /\ released' = IF isData /\ ~error /\ f.type = "ACKDATA" /\ f.bit /\ m.buffer # <<>>
                            THEN [released EXCEPT ![n] = @ \cup {Head(m.buffer)}] ELSE released

\* Time passes to the next event.
Left(n) ==
  {mac[n].at[t] : t \in Pending(mac[n].at)} \cup {s.left : s \in mac[n].scheduled}
  \cup {mac[n].ack_rev[i].left : i \in DOMAIN mac[n].ack_rev}

Later(m, d) ==
  [m EXCEPT !.elapsed = @ + d, !.at = TimersLater(@, d),
            !.scheduled = {[s EXCEPT !.left = @ - d] : s \in @},
            !.ack_rev = [i \in DOMAIN @ |-> [@[i] EXCEPT !.left = @ - d]]]

Tick ==
  LET left == {c.left : c \in air} \cup UNION {Left(n) : n \in Node}
      d == CHOOSE x \in left : \A y \in left : x <= y
  IN  /\ d > 0
      /\ mac' = [n \in Node |-> Later(mac[n], d)]
      /\ air' = AirLater(air, d)
      /\ UNCHANGED <<noise, handedUp, released>>

Running == \A n \in Node : ~mac[n].abort

Next ==
  /\ Running
  /\ \/ \E n \in Node : Submit(n) \/ Scheduled(n) \/ ACKRev(n) \/ \E t \in Timers : Timer(n, t)
     \/ \E c \in air : Arrive(c) \/ End(c)
     \/ Tick

Spec == Init /\ [][Next]_vars

----------------------------------------------------------------------------
(* Properties *)

TypeOK ==
  \A n \in Node :
    /\ mac[n].mac_status \in MacStatus
    /\ mac[n].radio.trans \in TransmissionStatus
    /\ Active(mac[n].radio.chan) \subseteq Signal(FrameType)
    /\ mac[n].radio.chan.num = Cardinality(Active(mac[n].radio.chan))
    /\ mac[n].elapsed \in 0 .. PeriodInterval
    /\ \A t \in Timers : mac[n].at[t] \in {Off} \cup (0 .. 5 * PeriodInterval)
    /\ mac[n].reserved \in 0 .. Len(mac[n].reservations)

\* A packet leaves its buffer only after its receiver has handed it up.
ReleasedWasReceived ==
  \A n \in Node : \A p \in released[n] : <<n, p.no>> \in handedUp[p.to]

\* The bitmap is right as long as no data and no ACKREV is lost on the way.
LossNeedsLostData ==
  Range(noise) \cap {"ACKREV", "DATA"} = {} => ReleasedWasReceived

\* Only where an ACKDATA has made a node IDLE that was not, it schedules a timer
\* that is pending, or reads a buffer that has changed.
AbortNeedsACKData == \A n \in Node : mac[n].abort => mac[n].overruled

\* Data comes while its receiver waits for it, and nothing else disturbs it.
DataMeetsItsWindow ==
  \A c \in air :
    (c.arriving /\ c.frame.type = "DATA" /\ c.frame.dst = c.dst)
      => /\ mac[c.dst].mac_status = "RECV"
         /\ Decodable(mac[c.dst].radio, signal(c))

\* What has been handed up is not sent again: a repeated request for it is
\* answered at once and its record deleted from the table.
HandedUpOnce ==
  \A c \in air : c.frame.type = "DATA" /\ c.frame.dst = c.dst
                 => <<c.src, c.frame.no>> \notin handedUp[c.dst]

\* "each node has to collect reservations in two consecutive periods"
CollectsTwoPeriods == \A n \in Node : ~mac[n].hasty

=============================================================================
