------------------------------- MODULE SFAMA -------------------------------
(***************************************************************************)
(* uw_mac/slotted-fama/sfama.cc: Slotted FAMA.  A node reserves the medium *)
(* with RTS and CTS, sends a train of data packets, and keeps them until   *)
(* an ACK comes; whoever overhears the exchange backs off.                 *)
(*                                                                         *)
(* A node is a record, and the functions of class SFAMA are operators from *)
(* record to record.  Time is counted in slots, as the code counts it: a   *)
(* timer holds the number of slot boundaries still to come, and Boundary   *)
(* passes one.  slot_len_ is the time of a CTS plus the largest            *)
(* propagation delay, so a control frame sent at a boundary has been       *)
(* received by the next one, and a train within the SlotNum slots that its *)
(* RTS asked for.  Inside a slot every order is possible.                  *)
(***************************************************************************)
EXTENDS Medium, SequencesExt

CONSTANTS
  Traffic,           \* [Node -> Seq]: what the routing layer hands down: [DA, no]
  MaxBurst,          \* max_burst_
  MaxBackoffSlots,   \* max_backoff_slots_
  PktTxTime,         \* txtime() of a data packet, in some unit of time
  CTSTxTime,         \* and of a CTS
  DataSendingInterval,
  SlotLen,           \* slot_len_ in that unit
  OneSecond,         \* the whole slots in the 1 s that stands for a CTS or an ACK
  TwoSeconds,        \* and in 2 s
  UnsetSlotnum       \* what slotnum_ of the status handler may hold when built

ASSUME SFAMAAssumption ==
  /\ MaxBurst \in Nat \ {0} /\ MaxBackoffSlots \in Nat \ {0}
  /\ CTSTxTime \in Nat /\ PktTxTime \in Nat /\ CTSTxTime <= PktTxTime
  /\ DataSendingInterval \in Nat /\ SlotLen \in Nat \ {0}
  /\ Traffic \in [Node -> Seq([DA : Node, no : Nat])]
  /\ OneSecond \in Nat /\ TwoSeconds \in {2 * OneSecond, 2 * OneSecond + 1}
  /\ UnsetSlotnum \subseteq Nat /\ UnsetSlotnum # {}

VARIABLES
  mac,       \* the record of each node
  link,      \* [Hears -> Seq(Frame)]
  todo,      \* what the routing layer has yet to hand down
  aborted,   \* Scheduler::schedule met a pending status_event
  submitted, \* history: the packets handed down, per link, in order
  handedUp,  \* history: the packets passed up, per link
  released,  \* history: [Node -> set of no] released after an ACK
  dropped    \* history: the nodes whose radio was busy when they had to send, and what

vars == <<mac, link, todo, aborted, submitted, handedUp, released, dropped>>

SFAMA_Status ==
  {"IDLE_WAIT", "WAIT_SEND_RTS", "WAIT_SEND_CTS", "WAIT_RECV_CTS", "WAIT_SEND_DATA",
   "WAIT_RECV_DATA", "WAIT_SEND_ACK", "WAIT_RECV_ACK", "BACKOFF", "BACKOFF_FAIR"}

Control(type, s, d, slots) == [type |-> type, SA |-> s, DA |-> d, no |-> 0, SlotNum |-> slots]
Data(s, p) == [type |-> "DATA", SA |-> s, DA |-> p.DA, no |-> p.no, SlotNum |-> 0]
Train == [type |-> "train"]    \* wait_send_timer with pkt_ NULL: send the data

Off == -1                      \* a timer that is not pending; one at 0 is due

NewMac(g) ==
  [radio |-> InitRadio, status |-> "IDLE_WAIT",
   cached |-> <<>>, sending |-> <<>>, backup |-> <<>>,
   waitSend |-> Off, pkt |-> NoFrame, waitReply |-> Off, backoff |-> Off,
   dataSend |-> FALSE, statusEvent |-> FALSE, slotnum |-> g,
   onAir |-> "nothing", train |-> 0,
   out |-> NoFrame, abort |-> FALSE, busy |-> "nothing"]

----------------------------------------------------------------------------
(* Preparing and sending.  r is the draw of randBackoffSlots. *)

\* datasend_timer is not one of the timers that are stopped.
stopTimers(m) ==
  [m EXCEPT !.waitSend = Off, !.pkt = NoFrame, !.waitReply = Off, !.backoff = Off]

Backoff(m, slots) == [stopTimers(m) EXCEPT !.status = "BACKOFF", !.backoff = slots]

\* Whatever was to be sent is sent at the k-th boundary from now.
SendAt(m, k, f) == [m EXCEPT !.waitSend = k, !.pkt = f]

\* The packets of q that join a train to recver: at most max_burst_.
InTrain(q, recver) ==
  {i \in DOMAIN q : /\ q[i].DA = recver
                    /\ Cardinality({j \in 1 .. i : q[j].DA = recver}) <= MaxBurst}

Pick(q, I) == [i \in 1 .. Cardinality(I) |->
                 q[CHOOSE j \in I : Cardinality({k \in I : k <= j}) = i]]

\* The packets of q for r, in their order.
For(r, q) == Pick(q, {i \in DOMAIN q : q[i].DA = r})

takeTrain(m) ==
  LET I == InTrain(m.cached, Head(m.cached).DA)
  IN  [m EXCEPT !.sending = Pick(m.cached, I),
                !.cached = Pick(m.cached, DOMAIN m.cached \ I)]

\* The slots that a train of k packets asks for: getPktTrainTxTime, the first
\* slot, and one for what the division drops.
TrainSlots(k) ==
  (k * PktTxTime + (k - 1) * DataSendingInterval - CTSTxTime) \div SlotLen + 2

scheduleRTS(m, n, r) ==
  SendAt([m EXCEPT !.status = "WAIT_SEND_RTS"], 1 + r,
         Control("RTS", n, Head(m.sending).DA, TrainSlots(Len(m.sending))))

\* A train that was not acknowledged goes before anything else.
prepareSendingDATA(m, n, r) ==
  IF m.sending # <<>> THEN scheduleRTS(m, n, r)
  ELSE IF m.cached # <<>> THEN scheduleRTS(takeTrain(m), n, r)
  ELSE m

OnAir(f) == IF f.type = "DATA" THEN "data" ELSE "control"

\* A transmission starts; a radio in RECV or SEND drops the frame instead.
SendDown(m, f) ==
  IF m.radio.trans \in {"RECV", "SEND"}
    THEN [m EXCEPT !.busy = OnAir(f)]
    ELSE [m EXCEPT !.radio.trans = "SEND", !.out = f, !.onAir = OnAir(f)]

ScheduleStatus(m) ==
  IF m.statusEvent THEN [m EXCEPT !.abort = TRUE] ELSE [m EXCEPT !.statusEvent = TRUE]

KeepSlotNum(m, f) == IF f.type = "CTS" THEN [m EXCEPT !.slotnum = f.SlotNum] ELSE m

\* Control frames; the end of the transmission is the status event.
sendPkt(m, f) ==
  LET d == SendDown(KeepSlotNum(m, f), f) IN IF d.busy # "nothing" THEN d ELSE ScheduleStatus(d)

\* Mutant: data packets have a status event each, as control frames have.
sendDataPktLikeControl(m, f) == sendPkt(m, f)

sendDataPkt(m, f) == SendDown(m, f)

TxProcess(m, n, f, r) ==
  LET q == [m EXCEPT !.cached = Append(@, f)]
  IN  IF Len(q.cached) = 1 /\ q.status = "IDLE_WAIT" THEN prepareSendingDATA(q, n, r) ELSE q

\* The data packet before, if it went out, has left.
LastDataLeft(m) == [m EXCEPT !.onAir = IF @ = "data" THEN "nothing" ELSE @]

\* The boundaries that may pass before a train started now has been received.
StartTrain(m) ==
  IF m.backup = <<>> THEN [m EXCEPT !.train = TrainSlots(Len(m.sending)) - 1] ELSE m

NextOfTrain(m) ==
  sendDataPkt([LastDataLeft(StartTrain(m)) EXCEPT !.backup = Append(@, Head(m.sending)),
                                                  !.sending = Tail(@)], Head(m.sending))

\* Mutant: they go to the end of CachedPktQ_ instead.
EndOfTrainRequeued(m) ==
  [LastDataLeft(m) EXCEPT !.cached = @ \o m.backup, !.backup = <<>>, !.dataSend = FALSE]

\* All packets of the train wait in SendingPktQ_ for the ACK.
EndOfTrain(m) ==
  [LastDataLeft(m) EXCEPT !.sending = m.backup, !.backup = <<>>, !.dataSend = FALSE]

DataSendTimerProcess(m) ==
  IF m.sending # <<>> THEN NextOfTrain(m) ELSE ScheduleStatus(EndOfTrain(m))

WaitSendTimerProcess(m, f) == IF f = Train THEN [m EXCEPT !.dataSend = TRUE] ELSE sendPkt(m, f)

WaitReplyTimerProcess(m, directcall, r) ==
  IF directcall THEN [m EXCEPT !.status = "BACKOFF_FAIR", !.backoff = 1]
                ELSE [m EXCEPT !.status = "BACKOFF", !.backoff = 1 + r]

BackoffTimerProcess(m, n, r) == prepareSendingDATA([m EXCEPT !.status = "IDLE_WAIT"], n, r)

SentStatus(m) ==
  [m EXCEPT !.radio.trans = "IDLE", !.statusEvent = FALSE, !.onAir = "nothing"]

\* Mutant: nobody waits for a reply.
AwaitForever(m, status, slots) == [m EXCEPT !.status = status]

Await(m, status, slots) == [m EXCEPT !.status = status, !.waitReply = slots + 1]

\* The timer for the ACK was set when the CTS came.
StatusProcess(m) ==
  LET i == SentStatus(m)
  IN  CASE i.status = "WAIT_SEND_RTS"  -> Await(i, "WAIT_RECV_CTS", 1)
        [] i.status = "WAIT_SEND_CTS"  -> Await(i, "WAIT_RECV_DATA", i.slotnum)
        [] i.status = "WAIT_SEND_DATA" -> [i EXCEPT !.status = "WAIT_RECV_ACK"]
        [] i.status = "WAIT_SEND_ACK"  -> WaitReplyTimerProcess(i, TRUE, 0)
        [] OTHER                       -> Await(i, i.status, i.slotnum)

----------------------------------------------------------------------------
(* Receiving: error() is not looked at *)

processRTS(m, n, f) ==
  IF f.DA # n THEN Backoff(m, 1 + f.SlotNum + TwoSeconds)
  ELSE IF m.status \in {"IDLE_WAIT", "WAIT_SEND_RTS", "BACKOFF_FAIR"}
    THEN SendAt([stopTimers(m) EXCEPT !.status = "WAIT_SEND_CTS"], 1,
                Control("CTS", n, f.SA, f.SlotNum))
  ELSE m

\* Mutant: who overhears a CTS does not wait for the train.
processCTSHasty(m, n, f, late) ==
  IF f.DA = n /\ m.status = "WAIT_RECV_CTS"
    THEN SendAt([stopTimers(m) EXCEPT !.status = "WAIT_SEND_DATA",
                                      !.waitReply = 2 + f.SlotNum + late], 1, Train)
    ELSE Backoff(m, 1 + OneSecond)

\* late: 1 if the CTS ends in the last 0.1 s of its slot.
processCTS(m, n, f, late) ==
  IF f.DA = n /\ m.status = "WAIT_RECV_CTS"
    THEN SendAt([stopTimers(m) EXCEPT !.status = "WAIT_SEND_DATA",
                                      !.waitReply = 2 + f.SlotNum + late], 1, Train)
    ELSE Backoff(m, 1 + f.SlotNum + OneSecond)

ForUs(m, n, f) == f.DA = n /\ m.status = "WAIT_RECV_DATA"

processDATA(m, n, f) ==
  IF ForUs(m, n, f)
    THEN SendAt([stopTimers(m) EXCEPT !.status = "WAIT_SEND_ACK"], 1,
                Control("ACK", n, f.SA, 0))
    ELSE Backoff(m, 1 + OneSecond)

Acknowledged(m, n, f) == f.DA = n /\ m.status = "WAIT_RECV_ACK"

\* releaseSentPkts, then on to the next train.
processACK(m, n, f, r) ==
  IF Acknowledged(m, n, f)
    THEN prepareSendingDATA([stopTimers(m) EXCEPT !.status = "IDLE_WAIT",
                                                  !.sending = <<>>], n, r)
    ELSE m

RecvProcess(m, n, f, late, r) ==
  CASE f.type = "RTS"  -> processRTS(m, n, f)
    [] f.type = "CTS"  -> processCTS(m, n, f, late)
    [] f.type = "DATA" -> processDATA(m, n, f)
    [] f.type = "ACK"  -> processACK(m, n, f, r)

----------------------------------------------------------------------------
(* Actions *)

Init ==
  /\ \E g \in [Node -> UnsetSlotnum] : mac = [n \in Node |-> NewMac(g[n])]
  /\ link = EmptyLinks
  /\ todo = Traffic
  /\ aborted = FALSE
  /\ submitted = [l \in Hears |-> <<>>]
  /\ handedUp = [l \in Hears |-> {}]
  /\ released = [n \in Node |-> {}]
  /\ dropped = {}

\* Node n becomes m; what it sends goes out on its links.
Becomes(n, m, ended) ==
  /\ ~aborted
  /\ mac' = [mac EXCEPT ![n] = [m EXCEPT !.out = NoFrame, !.busy = "nothing", !.abort = FALSE]]
  /\ link' = Carry(link, n, m.out, ended)
  /\ aborted' = m.abort
  /\ dropped' = IF m.busy = "nothing" THEN dropped ELSE dropped \cup {<<n, m.busy>>}

Draw == 0 .. MaxBackoffSlots - 1

Submit(n) ==
  /\ todo[n] # <<>>
  /\ LET f == Data(n, Head(todo[n]))
     IN  /\ \E r \in Draw : Becomes(n, TxProcess(mac[n], n, f, r), {})
         /\ submitted' = [submitted EXCEPT ![<<n, f.DA>>] = Append(@, f)]
  /\ todo' = [todo EXCEPT ![n] = Tail(@)]
  /\ UNCHANGED <<handedUp, released>>

StatusHandler(n) ==
  /\ mac[n].statusEvent
  /\ Becomes(n, StatusProcess(mac[n]), {})
  /\ UNCHANGED <<todo, submitted, handedUp, released>>

WaitSendTimer(n) ==
  /\ mac[n].waitSend = 0
  /\ Becomes(n, WaitSendTimerProcess(SendAt(mac[n], Off, NoFrame), mac[n].pkt), {})
  /\ UNCHANGED <<todo, submitted, handedUp, released>>

WaitReplyTimer(n) ==
  /\ mac[n].waitReply = 0
  /\ \E r \in Draw :
       Becomes(n, WaitReplyTimerProcess([mac[n] EXCEPT !.waitReply = Off], FALSE, r), {})
  /\ UNCHANGED <<todo, submitted, handedUp, released>>

\* Not always at a boundary: the waits of one second end inside a slot.
BackoffTimer(n) ==
  /\ mac[n].backoff = 0
  /\ \E r \in Draw : Becomes(n, BackoffTimerProcess([mac[n] EXCEPT !.backoff = Off], n, r), {})
  /\ UNCHANGED <<todo, submitted, handedUp, released>>

DataSendTimer(n) ==
  /\ mac[n].dataSend
  /\ Becomes(n, DataSendTimerProcess(mac[n]), {})
  /\ UNCHANGED <<todo, submitted, handedUp, released>>

\* At a boundary the timers that are due come before anything else, and the
\* first packet of a train, sent 10 us later, before anything can arrive.
Settled ==
  \A n \in Node :
    /\ mac[n].waitSend # 0 /\ mac[n].waitReply # 0
    /\ ~(mac[n].dataSend /\ mac[n].backup = <<>>)

\* The head of a frame of s reaches r.
Arrive(s, r) ==
  /\ ~aborted /\ Settled
  /\ link[<<s, r>>] # <<>> /\ ~Heard(mac[r].radio, s)
  /\ IF DeafRadio(mac[r].radio)
       THEN /\ link' = [link EXCEPT ![<<s, r>>] = Tail(@)]
            /\ UNCHANGED mac
       ELSE /\ mac' = [mac EXCEPT ![r].radio = RecvUp(@, s)]
            /\ UNCHANGED link
  /\ UNCHANGED <<todo, aborted, submitted, handedUp, released, dropped>>

\* Its end, IncommingChannelProcess: decodable or not, it is processed.
Recv(s, r) ==
  /\ Settled
  /\ Heard(mac[r].radio, s) /\ Ends(link[<<s, r>>], mac[s].onAir # "nothing")
  /\ LET f == Head(link[<<s, r>>])
         m == [mac[r] EXCEPT !.radio = Ended(@, s)]
     IN  /\ \E late \in {0, 1}, d \in Draw :
              Becomes(r, RecvProcess(m, r, f, late, d), {<<s, r>>})
         /\ handedUp' = IF f.type = "DATA" /\ ForUs(m, r, f)
                          THEN [handedUp EXCEPT ![<<s, r>>] = @ \cup {f}] ELSE handedUp
         /\ released' = IF f.type = "ACK" /\ Acknowledged(m, r, f)
                          THEN [released EXCEPT ![r] = @ \cup {p.no : p \in ToSet(m.sending)}]
                          ELSE released
  /\ UNCHANGED <<todo, submitted>>

----------------------------------------------------------------------------
(* Time *)

\* The data of node n that is on its way, or has yet to leave.
TrainUnderWay(n) ==
  \/ mac[n].dataSend \/ mac[n].onAir = "data"
  \/ \E l \in Hears : l[1] = n /\ \E i \in DOMAIN link[l] : link[l][i].type = "DATA"

\* Nothing is due, no control frame is on its way, and no train is late.
SlotOver ==
  /\ Settled
  /\ \A n \in Node : mac[n].backoff # 0 /\ ~mac[n].statusEvent
  /\ \A l \in Hears : \A i \in DOMAIN link[l] : link[l][i].type = "DATA"
  /\ \A n \in Node : TrainUnderWay(n) => mac[n].train > 0

Less(t) == IF t = Off THEN Off ELSE t - 1

\* Something waits for a boundary: without that, time passes unnoticed.
Awaited(n) ==
  mac[n].waitSend # Off \/ mac[n].waitReply # Off \/ mac[n].backoff # Off \/ TrainUnderWay(n)

Boundary ==
  /\ ~aborted /\ SlotOver
  /\ \E n \in Node : Awaited(n)
  /\ mac' = [n \in Node |->
               [mac[n] EXCEPT !.waitSend = Less(@), !.waitReply = Less(@), !.backoff = Less(@),
                              !.train = IF TrainUnderWay(n) THEN @ - 1 ELSE 0]]
  /\ UNCHANGED <<link, todo, aborted, submitted, handedUp, released, dropped>>

Next ==
  \/ \E n \in Node : \/ Submit(n) \/ StatusHandler(n) \/ WaitSendTimer(n)
                     \/ WaitReplyTimer(n) \/ BackoffTimer(n) \/ DataSendTimer(n)
  \/ \E l \in Hears : Arrive(l[1], l[2]) \/ Recv(l[1], l[2])
  \/ Boundary

Spec == Init /\ [][Next]_vars

----------------------------------------------------------------------------
(* Properties *)

\* The type of every field of every node.
TypeOK ==
  /\ \A n \in Node :
       /\ mac[n].radio \in RadioState(Node)
       /\ mac[n].status \in SFAMA_Status
       /\ \A t \in {"waitSend", "waitReply", "backoff"} : mac[n][t] \in Nat \cup {Off}
       /\ mac[n].dataSend \in BOOLEAN /\ mac[n].statusEvent \in BOOLEAN
       /\ mac[n].onAir \in {"nothing", "control", "data"}
       /\ mac[n].train \in Nat /\ mac[n].slotnum \in Nat
       /\ mac[n].out = NoFrame /\ mac[n].busy = "nothing"
  /\ aborted \in BOOLEAN /\ dropped \subseteq Node \X {"control", "data"}

\* No data packet was ever due while its sender's radio was busy.
NoDataDropped == \A n \in Node : <<n, "data">> \notin dropped

\* The packets of node n for r: those of a running train, those that wait for an ACK,
\* and those behind them.
Waiting(n, r) == For(r, mac[n].backup \o mac[n].sending \o mac[n].cached)

LinkOf(p) == <<p.SA, p.DA>>

Reliable == INSTANCE ReliableLinks WITH
  Links <- Hears,
  Packets <- UNION {{Data(n, Traffic[n][i]) : i \in DOMAIN Traffic[n]} : n \in Node},
  LinkOf <- LinkOf,
  queue <- [l \in Hears |-> Waiting(l[1], l[2])],
  arrived <- handedUp

\* Slotted FAMA implements reliable links, with trains of one packet: through three
\* queues, failed handshakes and repeated trains no packet is lost, doubled or
\* overtaken, and it is let go of only after its receiver has handed it up.
ReliableSpec == Reliable!Spec

\* sfama.cc:392: only packets that were sent successfully are released.
ReleasedWasReceived ==
  \A l \in Hears : \A p \in ToSet(submitted[l]) : p.no \in released[l[1]] => p \in handedUp[l]

\* A node with packets to send and nothing pending once had to send an RTS, CTS or
\* ACK while its radio was busy: that is the only way the protocol stops ("do backoff??").
StallNeedsBusyRadio ==
  \A n \in Node :
    LET m == mac[n]
    IN  (/\ m.backup \o m.sending \o m.cached # <<>>
         /\ m.waitSend = Off /\ m.waitReply = Off /\ m.backoff = Off
         /\ ~(m.dataSend \/ m.statusEvent))
        => <<n, "control">> \in dropped

\* status_event is scheduled by sendPkt and at the end of a train: it is never
\* scheduled while it is pending, which would abort the simulation.
NeverAborted == ~aborted

\* What the reservation is for: a node with data to send finds its radio free, and no
\* other signal disturbs the data at the node it is sent to, hidden terminals or not.
\* It holds for trains of up to three slots; see MCSFAMA.
DataUndisturbed ==
  /\ NoDataDropped
  /\ \A l \in Hears :
       /\ Heard(mac[l[2]].radio, l[1])
       /\ Head(link[l]).type = "DATA" /\ Head(link[l]).DA = l[2]
       => Decodable(mac[l[2]].radio, l[1])
=============================================================================
