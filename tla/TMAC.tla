-------------------------------- MODULE TMAC --------------------------------
(***************************************************************************)
(* uw_mac/tmac.cc over uw_mac/uwbuffer.cc: the discovery of phases one and *)
(* two, and phase three, in which all nodes wake up together and contend   *)
(* with RTS and CTS for one packet at a time.  Who overhears an RTS, a CTS *)
(* or DATA keeps silence; a record of whose silence it is, confirmed by a  *)
(* CTS or DATA, prolongs it.  A node that hears nothing for TAduration     *)
(* goes back to sleep.                                                     *)
(*                                                                         *)
(* A node is a record; the functions of class TMac are operators on it,    *)
(* those that draw a random number from a record to a set of records.      *)
(***************************************************************************)
EXTENDS TMACDiscovery

CONSTANTS
  RtsTx,              \* the transmission time of an RTS, whose size is left 0
  LargeTx,            \* getTxTime(large_packet_size_)
  MaxShort, MaxLarge, \* max_short_packet_transmissiontime, max_large_...
  MaxProp,            \* max_propagationTime
  DataTime,           \* du of SendRTS: the time of the data announced
  ContentionWindow, MinBackoffWindow, TAduration,
  Starts,             \* where runs begin: a subset of Start
  MaxNoise            \* bound: how many frames noise destroys

\* A run begins with phase one, or with phase three and latencies that are exact;
\* packets is what the layers above will hand down.
Start == [phase : {1, 3}, packets : [Node -> Seq([to : Node, no : Nat])]]

ASSUME TMACAssumption ==
  /\ {RtsTx, LargeTx, MaxShort, MaxLarge, MaxProp, DataTime, ContentionWindow,
      MinBackoffWindow, TAduration} \subseteq Nat \ {0}
  /\ MaxNoise \in Nat

VARIABLES
  mac,       \* the record of each node
  air,       \* the copies of frames under way
  now,       \* the clock, until phase three begins
  noise,     \* the number of frames noise has destroyed
  handedUp,  \* history: [Node -> set of <<from, no>>]
  released,  \* history: [Node -> set of packets taken out of the buffer]
  missed     \* history: the <<n, k>> such that n did not get the last CTS of k,
             \* or only with a frame of its own on the way to k

vars == <<mac, air, now, noise, handedUp, released, missed>>

MacStatus == {"SLEEP", "IDLE", "SILENCE", "RTS", "CTS", "RECV", "TRANSMISSION"}

FrameType == {"ND", "ACKND", "SYN", "RTS", "CTS", "DATA", "ACKDATA"}

Timers == {"nd", "ackndwindow", "phaseone", "phasetwo", "phasethree", "wakeup", "poweroff",
           "timeout", "rts_timeout", "silence", "transmission", "ack", "status"}

Fresh ==
  [radio |-> InitRadio, mac_status |-> "SLEEP", at |-> [t \in Timers |-> Off], scheduled |-> {},
   next_status |-> "SLEEP", out |-> NoFrame, abort |-> FALSE,
   phase |-> 1, one |-> PhaseOne_cycle, two |-> PhaseTwo_cycle,
   next_period |-> 0, cycle_start |-> 0, window |-> 0, backoffs |-> 0, arrivals |-> <<>>,
   latencies |-> [k \in {} |-> 0], periods |-> [k \in {} |-> 0],
   buffer |-> <<>>, queue |-> <<>>, current |-> <<>>,  \* TransmissionBuffer
   silences |-> <<>>, last_silence |-> 0,  \* silence_table, last_silenceTime: what is left
   rts_num |-> 0, cts_num |-> 0,           \* the counters of the two handlers
   receiver |-> {}, data_sender |-> {}, bit |-> FALSE]

TxTime(f) ==
  CASE f.type = "RTS" -> RtsTx [] f.type = "DATA" -> LargeTx [] OTHER -> ShortTx

NewData(m) == m.buffer # <<>>

----------------------------------------------------------------------------
(* silence_table *)

\* The last record of addr; 0 if there is none.
RecordOf(m, addr) ==
  LET at == {i \in DOMAIN m.silences : m.silences[i].addr = addr}
  IN  IF at = {} THEN 0 ELSE CHOOSE i \in at : \A j \in at : j <= i

\* Mutant: a record for every RTS.
AddSilence(m, addr, t) ==
  [m EXCEPT !.silences = Append(@, [addr |-> addr, left |-> t, confirmed |-> FALSE])]

\* An old record loses its confirmation.
InsertSilenceTable(m, addr, t) ==
  LET r == [addr |-> addr, left |-> t, confirmed |-> FALSE]
      i == RecordOf(m, addr)
  IN  [m EXCEPT !.silences = IF i = 0 THEN Append(@, r) ELSE [@ EXCEPT ![i] = r]]

ConfirmSilenceTable(m, addr, t) ==
  LET c == IF RecordOf(m, addr) = 0 THEN InsertSilenceTable(m, addr, t) ELSE m
  IN  [c EXCEPT !.silences[RecordOf(c, addr)].confirmed = TRUE]

CleanSilenceTable(m) ==
  [m EXCEPT !.silences = SelectSeq(@, LAMBDA r : r.confirmed /\ r.left > 0)]

\* Cancels the event and schedules it t later.
KeepSilence(m, t) ==
  [Schedule(Cancel(m, "silence"), "silence", t) EXCEPT !.last_silence = t]

\* A silence already kept becomes longer only.
Prolong(m, t) == IF m.last_silence < t THEN KeepSilence(m, t) ELSE m

----------------------------------------------------------------------------
(* The sender *)

\* Locks the buffer and asks; reads the head even of an empty buffer.
SendRTS(m, n) ==
  LET c == Cancel([m EXCEPT !.rts_num = 0], "rts_timeout")
      k == Head(c.buffer).to
      rts == [type |-> "RTS", src |-> n, dst |-> k,
              duration |-> (31 * CheckLatency(c, k)) \div 10 + 2 * MaxProp + 2 * DataTime - MaxShort]
  IN  IF c.mac_status = "SILENCE" THEN {c}
      ELSE IF ~NewData(c) THEN {[c EXCEPT !.abort = TRUE]}
      ELSE {Put([Cancel(c, "poweroff") EXCEPT !.mac_status = "RTS", !.current = c.buffer], "rts", rts, t) :
              t \in Draws(ContentionWindow)}

\* RTSHandler.  A radio that is sending frees the RTS, and no timer is left.
TxRTS(m, f) ==
  LET c == Cancel(m, "rts_timeout")
      t == (22 * CheckLatency(m, f.dst)) \div 10 + 2 * MinBackoffWindow
  IN  IF c.mac_status = "SILENCE" THEN {[c EXCEPT !.rts_num = 0]}
      ELSE CASE c.radio.trans = "IDLE" ->
                  {Schedule([SendDown(c, f, RtsTx, "IDLE") EXCEPT !.rts_num = 0], "rts_timeout", t)}
             [] c.radio.trans = "RECV" ->
                  {Put(c, "rts", f, MinBackoffWindow + d) : d \in Draws(MinBackoffWindow)}
             [] OTHER -> {c}

\* RTSTimeoutHandler: SendRTS resets the counter it has just raised.
RTSTimeout(m, n) ==
  LET c == [m EXCEPT !.rts_num = @ + 1]
  IN  IF c.rts_num < 2 THEN SendRTS(c, n)
      ELSE {[c EXCEPT !.rts_num = 0, !.mac_status = "IDLE", !.radio = Poweroff(@)]}

\* The answer for the sender itself.
Granted(m, f) ==
  IF m.mac_status # "RTS" THEN m
  ELSE Schedule([Cancel(m, "rts_timeout") EXCEPT !.rts_num = 0, !.receiver = {f.src}],
                "transmission", MaxProp - CheckLatency(m, f.src))

\* Goes out over a reception that is under way.
Transmit(m, f) ==
  IF m.radio.trans = "SEND" THEN m
  ELSE SendDown(m, f, TxTime(f), IF m.radio.trans = "SLEEP" THEN "SLEEP" ELSE "IDLE")

\* txbuffer.next() reads through current_p; the buffer holds one packet, so
\* this is its end.
TxData(m, n) ==
  IF ~NewData(m) \/ m.mac_status \notin {"RTS", "TRANSMISSION"} THEN m
  ELSE IF m.current = <<>> THEN [m EXCEPT !.abort = TRUE]
  ELSE LET on == IF m.radio.trans = "SLEEP" THEN [m EXCEPT !.radio = Poweron(@)] ELSE m
           f == [type |-> "DATA", src |-> n, dst |-> CHOOSE k \in m.receiver : TRUE,
                 no |-> Head(m.current).no]
           sent == Transmit([on EXCEPT !.mac_status = "TRANSMISSION", !.current = <<>>], f)
       IN  Schedule(Cancel(sent, "timeout"), "timeout", 2 * MaxProp + 2 * MinBackoffWindow + 3 * MaxLarge)

\* Mutant: nobody asks whether the buffer is full.
RefillFull(m) ==
  IF m.queue = <<>> THEN m ELSE [m EXCEPT !.buffer = <<Head(m.queue)>>, !.queue = Tail(@)]

\* TxProcess and the layer above: its next packet, when there is room.
Refill(m) ==
  IF NewData(m) \/ m.queue = <<>> THEN m
  ELSE [m EXCEPT !.buffer = <<Head(m.queue)>>, !.queue = Tail(@)]

----------------------------------------------------------------------------
(* The cycle *)

\* Ask if there is something to send.
Ask(m, n) == IF NewData(m) THEN SendRTS(m, n) ELSE {m}

\* Stays awake for another TAduration.
ReStart(m, n) ==
  LET c == Schedule(Cancel(m, "poweroff"), "poweroff", TAduration)
  IN  IF c.mac_status \in {"SILENCE", "IDLE"} THEN Ask([c EXCEPT !.mac_status = "IDLE"], n) ELSE {c}

\* Mutant: a node that is awake wakes up again.
WakeupAgain(m, n) ==
  LET c == Schedule(m, "wakeup", PeriodInterval)
  IN  Ask(Schedule([c EXCEPT !.radio = Poweron(@), !.mac_status = "IDLE"], "poweroff", TAduration), n)

Wakeup(m, n) ==
  LET c == Schedule(m, "wakeup", PeriodInterval)
  IN  IF c.mac_status # "SLEEP" THEN {c}
      ELSE Ask(Schedule([c EXCEPT !.radio = Poweron(@), !.mac_status = "IDLE"], "poweroff", TAduration), n)

\* No more clock readings are needed.
InitPhaseThree(m, n) == Wakeup([m EXCEPT !.phase = 3, !.mac_status = "SLEEP"], n)

\* PoweroffHandler.
ResetMacStatus(m) ==
  IF m.radio.trans = "RECV" THEN Schedule([m EXCEPT !.mac_status = "IDLE"], "poweroff", TAduration)
  ELSE [m EXCEPT !.mac_status = "SLEEP", !.radio = Poweroff(@)]

\* TTimeoutHandler.
SetIdle(m, n) ==
  LET c == Cancel(m, "ack")
  IN  IF c.mac_status = "SILENCE" THEN {c} ELSE ReStart([c EXCEPT !.mac_status = "IDLE"], n)

ProcessSilence(m, n) ==
  LET c == CleanSilenceTable(m)
  IN  IF c.silences = <<>> THEN ReStart(c, n)
      ELSE {KeepSilence(c, FoldLeft(LAMBDA t, r : Larger(t, r.left), 0, c.silences))}

----------------------------------------------------------------------------
(* The receiver *)

\* Mutant: nothing is planned for the time after the CTS.
TxCTSWithoutTimer(m, n, f) ==
  {IF m.radio.trans = "IDLE" THEN SendDown([m EXCEPT !.mac_status = "CTS", !.bit = FALSE], f, ShortTx, "IDLE")
   ELSE m}

\* CTSHandler calls it again after a backoff; the second time it gives up.  A radio
\* that is sending frees the CTS, and no timer is left.
TxCTS(m, n, f) ==
  LET c == [m EXCEPT !.mac_status = "CTS", !.bit = FALSE]
      t == (22 * CheckLatency(m, f.dst)) \div 10 + 2 * MinBackoffWindow + MaxShort + MaxLarge
  IN  CASE m.mac_status = "SILENCE" ->
             {[Cancel(Cancel(m, "ack"), "timeout") EXCEPT !.cts_num = 0]}
        [] m.mac_status # "SILENCE" /\ m.cts_num = 2 ->
             ReStart([Cancel(m, "ack") EXCEPT !.cts_num = 0, !.mac_status = "IDLE"], n)
        [] OTHER ->
             CASE c.radio.trans = "IDLE" ->
                    {Schedule(Cancel([SendDown(c, f, ShortTx, "IDLE") EXCEPT !.cts_num = 0], "timeout"),
                              "timeout", t)}
               [] c.radio.trans = "RECV" ->
                    {Put(c, "cts", f, MinBackoffWindow + d) : d \in Draws(MinBackoffWindow)}
               [] OTHER -> {c}

CTSHandler(m, n, f) == TxCTS([m EXCEPT !.cts_num = @ + 1], n, f)

\* The acknowledgement is planned for the time the sender has announced.
Answer(m, n, f) ==
  LET l == CheckLatency(m, f.src)
      cts == [type |-> "CTS", src |-> n, dst |-> f.src, duration |-> f.duration - l]
  IN  IF m.mac_status # "IDLE" THEN {m}
      ELSE {Schedule(Cancel(x, "ack"), "ack", f.duration - 2 * l - MaxShort) :
              x \in TxCTS(Cancel(m, "poweroff"), n, cts)}

\* An RTS for another: the node with the lower address goes first.
OverhearRTS(m, n, f) ==
  LET t == 2 * MaxProp + 2 * MaxShort + 2 * MinBackoffWindow
      noted == InsertSilenceTable(m, f.src, f.duration - 2 * CheckLatency(m, f.src))
      silent == KeepSilence([Cancel(noted, "poweroff") EXCEPT !.mac_status = "SILENCE"], t)
  IN  CASE m.mac_status = "IDLE" -> silent
        [] m.mac_status = "SILENCE" -> Prolong(noted, t)
        [] m.mac_status = "RTS" /\ f.src < n -> [Cancel(silent, "rts_timeout") EXCEPT !.rts_num = 0]
        [] OTHER -> m

ProcessRTSPacket(m, n, f) ==
  IF f.dst = n THEN Answer(m, n, f)
  ELSE {IF f.duration > 2 * CheckLatency(m, f.src) THEN OverhearRTS(m, n, f) ELSE m}

\* Mutant: a node that waits for a CTS of its own takes no notice.
OverhearCTSIfIdle(m, f) ==
  LET t == f.duration - 2 * CheckLatency(m, f.src)
  IN  IF m.mac_status # "IDLE" \/ t <= 0 THEN m
      ELSE [Schedule([Cancel(ConfirmSilenceTable(m, f.dst, t), "poweroff") EXCEPT !.mac_status = "SILENCE"],
                     "silence", t) EXCEPT !.last_silence = t]

\* A CTS for another silences whatever the node is doing.
OverhearCTS(m, f) ==
  LET t == f.duration - 2 * CheckLatency(m, f.src)
      noted == ConfirmSilenceTable(m, f.dst, t)
      quiet == IF m.mac_status = "IDLE" THEN Cancel(noted, "poweroff") ELSE noted
  IN  IF t <= 0 THEN m
      ELSE IF m.mac_status = "SILENCE" THEN Prolong(noted, t)
      ELSE [Schedule([Cancel(quiet, "timeout") EXCEPT !.mac_status = "SILENCE"], "silence", t)
              EXCEPT !.last_silence = t]

ProcessCTSPacket(m, n, f) == IF f.dst = n THEN Granted(m, f) ELSE OverhearCTS(m, f)

\* The silence DATA for another begins has no record and no last_silenceTime.
OverhearData(m, f) ==
  LET t == 2 * MaxProp + MaxLarge
      quiet == IF m.mac_status = "IDLE" THEN Cancel(m, "poweroff") ELSE m
  IN  IF m.mac_status = "SILENCE" THEN ConfirmSilenceTable(m, f.src, t)
      ELSE Schedule(Cancel([Cancel(quiet, "timeout") EXCEPT !.mac_status = "SILENCE"], "silence"), "silence", t)

\* Cancels the timeout and hands up whatever the status is.
ProcessDataPacket(m, n, f) ==
  LET c == [m EXCEPT !.data_sender = {f.src}]
  IN  IF f.dst # n THEN OverhearData(c, f)
      ELSE [Cancel(c, "timeout") EXCEPT !.bit = TRUE,
                                        !.mac_status = IF @ = "CTS" THEN "RECV" ELSE @]

\* ACKHandler: SendACKPacket, TxACKData.
SendACKPacket(m, n) ==
  IF m.data_sender = {} \/ m.mac_status # "RECV" THEN m
  ELSE Transmit(Schedule(Cancel([m EXCEPT !.mac_status = "IDLE"], "poweroff"), "poweroff", TAduration),
                [type |-> "ACKDATA", src |-> n, dst |-> CHOOSE k \in m.data_sender : TRUE, bit |-> m.bit])

\* The bitmap of the acknowledgement replaces the one of what was received.
ProcessACKDataPacket(m, n, f) ==
  IF f.dst # n \/ m.mac_status # "TRANSMISSION" THEN {m}
  ELSE LET c == [Cancel(m, "timeout") EXCEPT !.bit = f.bit, !.buffer = IF f.bit THEN <<>> ELSE @]
       IN  ReStart([Refill(c) EXCEPT !.mac_status = "IDLE"], n)

RecvProcess(m, n, f) ==
  CASE f.type = "ND" -> {ProcessNDPacket(m, f, now)}
    [] f.type = "SYN" -> {ProcessSYN(m, f, now)}
    [] f.type = "ACKND" -> IF f.dst = n THEN ProcessShortACKNDPacket(m, f, now) ELSE {m}
    [] f.type = "DATA" -> {ProcessDataPacket(m, n, f)}
    [] f.type = "ACKDATA" -> ProcessACKDataPacket(m, n, f)
    [] f.type = "RTS" -> ProcessRTSPacket(m, n, f)
    [] f.type = "CTS" -> {ProcessCTSPacket(m, n, f)}

\* TStatusHandler.
StatusHandler(m) ==
  IF m.next_status = "SLEEP" THEN [m EXCEPT !.radio = Poweroff(@)]
  ELSE IF m.radio.trans = "SLEEP" THEN m
  ELSE [m EXCEPT !.radio.trans = m.next_status]

----------------------------------------------------------------------------
(* Actions *)

Exact(n) == [k \in {k \in Node : <<k, n>> \in Hears} |-> [sum |-> Prop(n, k) + ShortTx, num |-> 1]]

NewMac(n, start) ==
  [Fresh EXCEPT !.phase = start.phase, !.queue = start.packets[n],
                !.at[IF start.phase = 1 THEN "phaseone" ELSE "phasethree"] = 0,
                !.latencies = IF start.phase = 1 THEN @ ELSE Exact(n)]

Init ==
  /\ \E start \in Starts : mac = [n \in Node |-> NewMac(n, start)]
  /\ air = {} /\ now = 0 /\ noise = 0
  /\ handedUp = [n \in Node |-> {}] /\ released = [n \in Node |-> {}]
  /\ missed = {}

\* Node n becomes m, and what it sends joins the copies in rest.
Becomes(n, m, rest) ==
  /\ mac' = [mac EXCEPT ![n] = [m EXCEPT !.out = NoFrame]]
  /\ air' = IF m.out = NoFrame THEN rest ELSE rest \cup Copies(n, m.out, TxTime(m.out))

Fires(n, t) == mac[n].at[t] = 0

\* The handler of timer t of node n, once the event is no longer pending.
Handle(n, t) ==
  LET m == Cancel(mac[n], t)
  IN  CASE t = "nd" -> SendND(m, n, now)
        [] t = "ackndwindow" -> SendShortAckND(m, n)
        [] t = "phaseone" -> InitPhaseOne(m, n, now)
        [] t = "phasetwo" -> SendSYN(m, n, now)
        [] t = "phasethree" -> InitPhaseThree(m, n)
        [] t = "wakeup" -> Wakeup(m, n)
        [] t = "poweroff" -> {ResetMacStatus(m)}
        [] t = "timeout" -> SetIdle(m, n)
        [] t = "rts_timeout" -> RTSTimeout(m, n)
        [] t = "silence" -> ProcessSilence(m, n)
        [] t = "transmission" -> {TxData(m, n)}
        [] t = "ack" -> {SendACKPacket(m, n)}
        [] t = "status" -> {StatusHandler(m)}

Timer(n, t) ==
  /\ Fires(n, t)
  /\ \E m \in Handle(n, t) : Becomes(n, m, air)
  /\ UNCHANGED <<now, noise, handedUp, released, missed>>

\* The handler of a packet that is an event.
HandlePacket(m, n, s) ==
  CASE s.handler = "rts" -> TxRTS(m, s.frame)
    [] s.handler = "cts" -> CTSHandler(m, n, s.frame)
    [] s.handler = "acknd" -> TxND(m, s.frame, ACKND_window, now)
    [] s.handler = "syn" -> TxND(m, s.frame, PhaseTwo_window, now)
    [] s.handler = "backoff" -> BackoffHandler(m, s.frame, now)

Scheduled(n) ==
  /\ \E s \in mac[n].scheduled :
       /\ s.left = 0
       /\ \E m \in HandlePacket([mac[n] EXCEPT !.scheduled = @ \ {s}], n, s) : Becomes(n, m, air)
  /\ UNCHANGED <<now, noise, handedUp, released, missed>>

Due(n) == (\E t \in Timers : Fires(n, t)) \/ (\E s \in mac[n].scheduled : s.left = 0)

\* A node looks for new packets in its handlers only, so they may as well come
\* right before one runs.
Submit(n) ==
  /\ Due(n) /\ mac[n].queue # <<>>
  /\ Becomes(n, Refill(mac[n]), air)
  /\ UNCHANGED <<now, noise, handedUp, released, missed>>

TimersDue == \E n \in Node : Due(n)

\* The history of who got the CTS that c may be.
Missed(c, got) ==
  LET pair == {<<c.dst, c.src>>}
  IN  IF c.frame.type # "CTS" THEN missed ELSE IF got THEN missed \ pair ELSE missed \cup pair

Arrive(c) ==
  /\ c.left = 0 /\ ~c.arriving /\ ~TimersDue
  /\ mac' = [mac EXCEPT ![c.dst].radio = Heard(@, c)]
  /\ air' = Begin(air, c, mac[c.dst].radio)
  /\ missed' = Missed(c, ~DeafRadio(mac[c.dst].radio))
  /\ UNCHANGED <<now, noise, handedUp, released>>

\* The last bit of c: noise may have destroyed it, whatever else did.
End(c) ==
  LET n == c.dst
      f == c.frame
      m == [mac[n] EXCEPT !.radio = EndReception(@, signal(c))]
      clear == Decodable(mac[n].radio, signal(c))
      acked == f.type = "ACKDATA" /\ f.dst = n /\ f.bit /\ m.mac_status = "TRANSMISSION"
  IN  /\ c.left = 0 /\ c.arriving /\ ~TimersDue
      /\ \E error \in (IF clear THEN {FALSE} ELSE {TRUE})
                      \cup (IF noise < MaxNoise /\ m.phase = 3 THEN {TRUE} ELSE {}) :
           /\ noise' = IF error /\ clear THEN noise + 1 ELSE noise
           /\ \E got \in (IF error THEN {m} ELSE RecvProcess(m, n, f)) :
                Becomes(n, [got EXCEPT !.radio = ResetCarrierSense(@)], air \ {c})
           /\ handedUp' = IF ~error /\ f.type = "DATA" /\ f.dst = n
                            THEN [handedUp EXCEPT ![n] = @ \cup {<<f.src, f.no>>}] ELSE handedUp
           /\ released' = IF ~error /\ acked
                            THEN [released EXCEPT ![n] = @ \cup Range(m.buffer)] ELSE released
           /\ missed' = Missed(c, ~error /\ \A d \in air : <<d.src, d.dst>> # <<n, c.src>>)
  /\ UNCHANGED now

\* Time passes to the next event.
Left(n) == {mac[n].at[t] : t \in Pending(mac[n].at)} \cup {s.left : s \in mac[n].scheduled}

Later(m, d) ==
  [m EXCEPT !.at = TimersLater(@, d),
            !.scheduled = {[s EXCEPT !.left = @ - d] : s \in @},
            !.last_silence = Larger(@ - d, 0),
            !.silences = [i \in DOMAIN @ |-> [@[i] EXCEPT !.left = Larger(@ - d, 0)]]]

Tick ==
  LET left == {c.left : c \in air} \cup UNION {Left(n) : n \in Node}
      d == CHOOSE x \in left : \A y \in left : x <= y
  IN  /\ d > 0
      /\ mac' = [n \in Node |-> Later(mac[n], d)]
      /\ air' = AirLater(air, d)
      /\ now' = IF \E n \in Node : mac[n].phase < 3 THEN now + d ELSE 0
      /\ UNCHANGED <<noise, handedUp, released, missed>>

Running == \A n \in Node : ~mac[n].abort

Next ==
  /\ Running
  /\ \/ \E n \in Node : Submit(n) \/ Scheduled(n) \/ \E t \in Timers : Timer(n, t)
     \/ \E c \in air : Arrive(c) \/ End(c)
     \/ Tick

Spec == Init /\ [][Next]_vars

----------------------------------------------------------------------------
(* Properties *)

\* The type of every field of every node.
TypeOK ==
  /\ \A n \in Node :
       /\ mac[n].mac_status \in MacStatus
       /\ mac[n].radio.trans \in TransmissionStatus
       /\ Active(mac[n].radio.chan) \subseteq Node \X FrameType \X (Node \cup {MAC_BROADCAST})
       /\ mac[n].radio.chan.num = Cardinality(Active(mac[n].radio.chan))
       /\ \A t \in Timers : mac[n].at[t] \in {Off} \cup Nat
       /\ mac[n].rts_num \in 0 .. 1 /\ mac[n].cts_num \in 0 .. 2
       /\ IsInjective([i \in DOMAIN mac[n].silences |-> mac[n].silences[i].addr])
  /\ now \in Nat /\ noise \in 0 .. MaxNoise

\* What discovery has measured is exact but for what the sums began with: all nodes
\* wake up together, so a difference is as wrong as the latency it comes from.
LearnedIsExact ==
  \A n \in Node :
    /\ \A k \in DOMAIN mac[n].latencies :
         LET r == mac[n].latencies[k]
         IN  r.sum - r.num * (Prop(n, k) + ShortTx) \in UnsetSum
    /\ \A k \in DOMAIN mac[n].periods :
         mac[n].periods[k] = (Prop(n, k) + ShortTx - CheckLatency(mac[n], k)) % PeriodInterval

\* A packet leaves its buffer only after its receiver has handed it up.
ReleasedWasReceived ==
  \A n \in Node : \A p \in released[n] : <<n, p.no>> \in handedUp[p.to]

\* No event is scheduled while it is pending, and no empty buffer is read.
NeverAborted == \A n \in Node : ~mac[n].abort

\* A node that is awake in phase three waits for something besides its next wakeup,
\* which does nothing while it is not SLEEP.
AwakeHasTimer ==
  \A n \in Node :
    (mac[n].phase = 3 /\ mac[n].mac_status # "SLEEP" /\ Pending(mac[n].at) # {"phasethree"})
      => ~(Pending(mac[n].at) \subseteq {"wakeup", "status"}) \/ mac[n].scheduled # {}

\* What meets DATA at its receiver comes from a node that has not got the CTS of the
\* receiver, or had sent by then.
DisturberMissedCTS ==
  \A c \in air :
    (c.arriving /\ c.frame.type = "DATA" /\ c.frame.dst = c.dst)
      => \A s \in Active(mac[c.dst].radio.chan) \ {signal(c)} : <<s[1], c.dst>> \in missed
=============================================================================
