------------------------------ MODULE UWALOHA ------------------------------
(***************************************************************************)
(* uw_mac/uwaloha/uwaloha.cc: nodes running the acknowledged ALOHA MAC,    *)
(* each over a radio of module Radio, with the medium between              *)
(* them.  A node is a record; the functions of class UWALOHA are operators *)
(* from record to record, composed as the code calls them, and what a call *)
(* sends down is left in the field out for the action to put on the links. *)
(*                                                                         *)
(* Timers fire at any time after they are set, except where the code fixes *)
(* the order: WaitACKTimer outlasts the transmission it guards.            *)
(***************************************************************************)
EXTENDS Medium, ChanlStatus, Bags

CONSTANTS
  Broadcast,     \* MAC_BROADCAST
  Forward,       \* <<s, r>>: r is nearer to the target than s (passBack)
  Traffic,       \* what the routing layer may hand down: each [Node -> Seq] of [DA, no]
  ACKOn,         \* the nodes whose ACKOn is set
  Persistent,    \* TRUE: Persistent is 1.0, so sendDataPkt never defers (else it may)
  Lossy,         \* nodes that drop data at random (node 4 in the code)
  BitErrors,     \* the physical layer may set error() on any frame it accepts
  MaxInFlight,   \* bound: frames of one sender on their way to one hearer
  MaxSends       \* bound: data transmissions of all nodes together

\* What the routing layer hands down: next_hop and hdr_uwvb::pk_num.
Packet == [DA : Node \cup {Broadcast}, no : Nat]

\* Addresses are natural numbers, and a source numbers its packets one after
\* the other (pk_count of the sink agent).
ASSUME UWALOHAAssumption ==
  /\ Node \subseteq Nat /\ Broadcast \notin Node
  /\ Traffic \subseteq [Node -> Seq(Packet)]
  /\ \A t \in Traffic, n \in Node : \A i, j \in DOMAIN t[n] : i <= j => t[n][i].no <= t[n][j].no
  /\ Forward \subseteq Node \X Node
  /\ ACKOn \subseteq Node /\ Persistent \in BOOLEAN
  /\ Lossy \subseteq Node /\ BitErrors \in BOOLEAN
  /\ MaxInFlight \in Nat \ {0} /\ MaxSends \in Nat

VARIABLES
  mac,        \* the record of each node
  link,       \* [Hears -> Seq(Frame)]: frames on their way; the head may be arriving
  todo,       \* what the routing layer has yet to hand down
  crash,      \* the simulator is gone: "none", "empty queue" or "idle timer"
  handedUp,   \* history: [Node -> set of <<SA, no>>] of data passed up
  lastUp,     \* history: the number of the last data passed up, per link
  lateAck,    \* history: an ACK completed another packet than its own
  blockedTx   \* history: <<n, type>>: such a frame of n met a busy radio

vars == <<mac, link, todo, crash, handedUp, lastUp, lateAck, blockedTx>>

Data(s, d, k) == [type |-> "DATA", SA |-> s, DA |-> d, no |-> k]
Ack(s, d, k) == [type |-> "ACK", SA |-> s, DA |-> d, no |-> k]

NewMac(n) ==
  [ackOn |-> n \in ACKOn, radio |-> InitRadio, status |-> "PASSIVE", bo |-> 0, blocked |-> FALSE,
   queue |-> <<>>, statusEvent |-> FALSE, isAck |-> FALSE,
   backoffTimer |-> FALSE, waitTimer |-> FALSE, retry |-> EmptyBag,
   table |-> <<>>, out |-> NoFrame, crash |-> "none", stuck |-> {}]

Trans(m) == m.radio.trans
SetTrans(m, t) == [m EXCEPT !.radio.trans = t]

\* front() or pop() of an empty queue: undefined, the simulation is lost.
Crash(m, why) == [m EXCEPT !.crash = why]

----------------------------------------------------------------------------
(* Sending *)

\* retryACK: a timer of its own for each acknowledgement that has to wait.
retryACK(m, f) == [m EXCEPT !.retry = @ (+) SetToBag({f})]

\* The part of sendPkt for data, before it goes down.
Departing(m, f) ==
  IF f.DA # Broadcast /\ m.ackOn
    THEN [m EXCEPT !.status = "WAIT_ACK", !.waitTimer = TRUE, !.isAck = FALSE,
                   !.table = put_into_table(@, Elem(f.DA, f.no))]
    ELSE [m EXCEPT !.queue = Tail(@), !.status = "PASSIVE"]

SendNow(m, f) ==
  LET d == IF f.type = "DATA" THEN Departing(m, f) ELSE [m EXCEPT !.isAck = TRUE]
  IN  [SetTrans(d, "SEND") EXCEPT !.out = f, !.blocked = TRUE, !.statusEvent = TRUE]

\* A frame that finds the radio busy: an ACK is tried again later, data stays
\* in the queue; either way the status becomes PASSIVE.
SendLater(m, f) ==
  LET r == IF f.type = "ACK" THEN retryACK(m, f) ELSE m
  IN  [r EXCEPT !.status = "PASSIVE", !.stuck = {f.type}]

\* Mutant: RECV does not keep a node from sending.
SendOverReception(m, f) == IF Trans(m) # "SEND" THEN SendNow(m, f) ELSE SendLater(m, f)

sendPkt(m, f) == IF Trans(m) \in {"IDLE", "SLEEP"} THEN SendNow(m, f) ELSE SendLater(m, f)

\* A coin decides whether a persistent sender sends; one that does not takes
\* back one from bo_counter and doBackoff adds it again, below the maximum.
sendDataPkt(m, sends) ==
  IF m.queue = <<>> THEN Crash(m, "empty queue")
  ELSE IF sends THEN sendPkt(m, Head(m.queue))
  ELSE [m EXCEPT !.status = "BACKOFF", !.backoffTimer = TRUE]

\* Mutant: the queue is not checked.
processPassiveUnchecked(m, sends) ==
  IF m.status = "PASSIVE" /\ ~m.blocked THEN sendDataPkt(m, sends) ELSE m

processPassive(m, sends) ==
  IF m.status = "PASSIVE" /\ ~m.blocked /\ m.queue # <<>>
    THEN sendDataPkt(m, sends) ELSE m

\* Mutant: one attempt too many.
doBackoffOnceMore(m, sends) ==
  IF m.bo < MAXIMUMCOUNTER
    THEN [m EXCEPT !.bo = @ + 1, !.status = "BACKOFF", !.backoffTimer = TRUE]
    ELSE processPassive([m EXCEPT !.bo = 0, !.queue = Tail(@), !.status = "PASSIVE",
                                  !.blocked = FALSE], sends)

\* Mutant: giving up leaves the status alone.
doBackoffStillWaiting(m, sends) ==
  IF m.bo + 1 < MAXIMUMCOUNTER
    THEN [m EXCEPT !.bo = @ + 1, !.status = "BACKOFF", !.backoffTimer = TRUE]
    ELSE processPassive([m EXCEPT !.bo = 0, !.queue = Tail(@), !.blocked = FALSE], sends)

\* Mutant: giving up does not go on with the queue.
doBackoffAndRest(m, sends) ==
  IF m.bo + 1 < MAXIMUMCOUNTER
    THEN [m EXCEPT !.bo = @ + 1, !.status = "BACKOFF", !.backoffTimer = TRUE]
    ELSE [m EXCEPT !.bo = 0, !.queue = Tail(@), !.status = "PASSIVE", !.blocked = FALSE]

doBackoff(m, sends) ==
  IF m.bo + 1 < MAXIMUMCOUNTER
    THEN [m EXCEPT !.bo = @ + 1, !.status = "BACKOFF", !.backoffTimer = TRUE]
  ELSE IF m.queue = <<>> THEN Crash(m, "empty queue")
  ELSE processPassive([m EXCEPT !.bo = 0, !.queue = Tail(@), !.status = "PASSIVE",
                                !.blocked = FALSE], sends)

\* Mutant: a new packet goes before those that wait.
TxProcessInFront(m, f, sends) ==
  LET q == [m EXCEPT !.queue = <<f>> \o @]
  IN  IF q.status = "PASSIVE" /\ Len(q.queue) = 1 /\ ~q.blocked
        THEN sendDataPkt(q, sends) ELSE q

TxProcess(m, f, sends) ==
  LET q == [m EXCEPT !.queue = Append(@, f)]
  IN  IF q.status = "PASSIVE" /\ Len(q.queue) = 1 /\ ~q.blocked
        THEN sendDataPkt(q, sends) ELSE q

StatusProcess(m, sends) ==
  LET i == [SetTrans(m, "IDLE") EXCEPT !.statusEvent = FALSE]
  IN  IF i.blocked THEN processPassive([i EXCEPT !.blocked = FALSE], sends)
      ELSE IF ~i.ackOn THEN processPassive([i EXCEPT !.status = "PASSIVE"], sends)
      ELSE IF ~i.isAck THEN [i EXCEPT !.status = "WAIT_ACK"]
      ELSE i

----------------------------------------------------------------------------
(* Receiving *)

\* An acknowledgement for this node.  Its number is not compared with the
\* packet that is waiting; cancel() of an idle timer aborts the simulator.
RecvAck(m, f, sends) ==
  IF m.status # "WAIT_ACK" THEN m
  ELSE IF ~m.waitTimer THEN Crash(m, "idle timer")
  ELSE IF m.queue = <<>> THEN Crash(m, "empty queue")
  ELSE LET p == processPassive([m EXCEPT !.waitTimer = FALSE, !.bo = 0,
                                         !.queue = Tail(@), !.status = "PASSIVE"], sends)
       IN  [p EXCEPT !.table = ack_elem(@, Elem(f.SA, f.no))]

replyACK(m, n, f) == [sendPkt(m, Ack(n, f.SA, f.no)) EXCEPT !.bo = 0]

\* Data for this node or for everybody, already passed up.
RecvData(m, n, f, sends) ==
  IF <<f.SA, n>> \in Forward THEN replyACK(m, n, f) ELSE processPassive(m, sends)

Addressed(n, f) == f.DA = n \/ (f.type = "DATA" /\ f.DA = Broadcast)

----------------------------------------------------------------------------
(* Actions *)

Init ==
  /\ mac = [n \in Node |-> NewMac(n)]
  /\ link = EmptyLinks
  /\ todo \in Traffic
  /\ crash = "none"
  /\ handedUp = [n \in Node |-> {}]
  /\ lastUp = [l \in Hears |-> 0]
  /\ lateAck = FALSE
  /\ blockedTx = {}

\* The outcomes of Random::uniform(0,1) <= Persistent.
Coin == IF Persistent THEN {TRUE} ELSE BOOLEAN

\* Node n becomes m, what it sends goes out on every link it has, and a
\* reception that ends takes the frame off the link it came on.
Becomes(n, m, ended) ==
  /\ mac' = [mac EXCEPT ![n] = [m EXCEPT !.out = NoFrame, !.stuck = {},
                                         !.crash = "none"]]
  /\ link' = Carry(link, n, m.out, ended)
  /\ crash' = m.crash
  /\ blockedTx' = blockedTx \cup {<<n, t>> : t \in m.stuck}

\* A node acts only in a simulation that runs.  Bounds: it sends nothing while
\* MaxInFlight frames are still on their way, and all stop after MaxSends
\* transmissions of data.  replyACK clears bo_counter, so the code itself sets
\* no limit to the repetitions.
Room(n) ==
  /\ crash = "none"
  /\ \A l \in Hears : l[1] = n => Len(link[l]) < MaxInFlight
  /\ MapThenSumSet(LAMBDA k : MapThenSumSet(LAMBDA i : mac[k].table[i].retries + 1, DOMAIN mac[k].table),
                   Node) < MaxSends

\* The routing layer hands down its next packet (UnderwaterMac::recv, DOWN).
Submit(n) ==
  /\ todo[n] # <<>> /\ Room(n)
  /\ \E sends \in Coin :
       LET p == Head(todo[n])
       IN  Becomes(n, TxProcess(mac[n], Data(n, p.DA, p.no), sends), {})
  /\ todo' = [todo EXCEPT ![n] = Tail(@)]
  /\ UNCHANGED <<handedUp, lastUp, lateAck>>

\* The end of a transmission: UWALOHA_StatusHandler::handle.
StatusHandler(n) ==
  /\ mac[n].statusEvent /\ Room(n)
  /\ \E sends \in Coin : Becomes(n, StatusProcess(mac[n], sends), {})
  /\ UNCHANGED <<todo, handedUp, lastUp, lateAck>>

BackoffTimer(n) ==
  /\ mac[n].backoffTimer /\ Room(n)
  /\ \E sends \in Coin :
       Becomes(n, sendDataPkt([mac[n] EXCEPT !.backoffTimer = FALSE], sends), {})
  /\ UNCHANGED <<todo, handedUp, lastUp, lateAck>>

\* The timer was set to the transmission time of the data and some more.
WaitACKTimer(n) ==
  /\ mac[n].waitTimer /\ Room(n)
  /\ mac[n].statusEvent => mac[n].isAck
  /\ \E sends \in Coin :
       Becomes(n, doBackoff([mac[n] EXCEPT !.waitTimer = FALSE], sends), {})
  /\ UNCHANGED <<todo, handedUp, lastUp, lateAck>>

\* processRetryTimer
RetryTimer(n) ==
  /\ Room(n)
  /\ \E f \in BagToSet(mac[n].retry) :
       Becomes(n, sendPkt([mac[n] EXCEPT !.retry = @ (-) SetToBag({f})], f), {})
  /\ UNCHANGED <<todo, handedUp, lastUp, lateAck>>

\* The head of a frame of s reaches r; a radio that is sending drops it.
Arrive(s, r) ==
  /\ crash = "none"
  /\ link[<<s, r>>] # <<>> /\ ~Heard(mac[r].radio, s)
  /\ IF DeafRadio(mac[r].radio)
       THEN /\ link' = [link EXCEPT ![<<s, r>>] = Tail(@)]
            /\ UNCHANGED mac
       ELSE /\ mac' = [mac EXCEPT ![r].radio = RecvUp(@, s)]
            /\ UNCHANGED link
  /\ UNCHANGED <<todo, crash, handedUp, lastUp, lateAck, blockedTx>>

\* The last bit of the frame of s that is arriving at r.
LastBit(s, r) == Heard(mac[r].radio, s) /\ Ends(link[<<s, r>>], mac[s].statusEvent)

AfterReception(s, r) == [mac[r] EXCEPT !.radio = Ended(@, s)]

\* IncommingChannelProcess and RecvProcess for a frame that is in error, for
\* somebody else, or lost at random on a lossy node.
RecvNothing(s, r) ==
  /\ crash = "none"
  /\ LastBit(s, r)
  /\ LET f == Head(link[<<s, r>>])
     IN  \/ BitErrors \/ ~Decodable(mac[r].radio, s) \/ ~Addressed(r, f)
         \/ r \in Lossy /\ f.type = "DATA"
  /\ Becomes(r, AfterReception(s, r), {<<s, r>>})
  /\ UNCHANGED <<todo, handedUp, lastUp, lateAck>>

RecvAckFrame(s, r) ==
  /\ LastBit(s, r) /\ Decodable(mac[r].radio, s) /\ Room(r)
  /\ LET f == Head(link[<<s, r>>])
     IN  /\ f.type = "ACK" /\ Addressed(r, f)
         /\ \E sends \in Coin : Becomes(r, RecvAck(AfterReception(s, r), f, sends), {<<s, r>>})
         /\ lateAck' = (lateAck \/ (mac[r].status = "WAIT_ACK" /\ mac[r].queue # <<>>
                                     /\ Head(mac[r].queue).no # f.no))
  /\ UNCHANGED <<todo, handedUp, lastUp>>

RecvDataFrame(s, r) ==
  /\ LastBit(s, r) /\ Decodable(mac[r].radio, s) /\ Room(r)
  /\ LET f == Head(link[<<s, r>>])
     IN  /\ f.type = "DATA" /\ Addressed(r, f)
         /\ \E sends \in Coin : Becomes(r, RecvData(AfterReception(s, r), r, f, sends), {<<s, r>>})
         /\ handedUp' = [handedUp EXCEPT ![r] = @ \cup {<<s, f.no>>}]
         /\ lastUp' = [lastUp EXCEPT ![<<s, r>>] = f.no]
  /\ UNCHANGED <<todo, lateAck>>

Next ==
  \/ \E n \in Node : \/ Submit(n) \/ StatusHandler(n) \/ BackoffTimer(n)
                     \/ WaitACKTimer(n) \/ RetryTimer(n)
  \/ \E l \in Hears : \/ Arrive(l[1], l[2]) \/ RecvNothing(l[1], l[2])
                      \/ RecvAckFrame(l[1], l[2]) \/ RecvDataFrame(l[1], l[2])

Spec == Init /\ [][Next]_vars

----------------------------------------------------------------------------
(* Properties *)

\* Every field of every node has its type; bo_counter stays below the
\* maximum whichever timers fire and whatever resets it.
TypeOK ==
  /\ \A n \in Node :
       /\ mac[n].radio \in RadioState(Node)
       /\ mac[n].status \in {"PASSIVE", "BACKOFF", "SEND_DATA", "WAIT_ACK"}
       /\ mac[n].bo \in 0 .. MAXIMUMCOUNTER - 1
       /\ mac[n].blocked \in BOOLEAN /\ mac[n].statusEvent \in BOOLEAN
       /\ mac[n].isAck \in BOOLEAN
       /\ mac[n].backoffTimer \in BOOLEAN /\ mac[n].waitTimer \in BOOLEAN
       /\ mac[n].out = NoFrame
  /\ crash \in {"none", "empty queue", "idle timer"}

\* A node transmits only when nothing is arriving: it is in RECV exactly while
\* something is, and in SEND exactly while status_event is pending, one object
\* that NS-2 refuses to schedule twice, whatever data, acknowledgements and
\* their retries come in between.
HalfDuplex ==
  \A n \in Node :
    /\ Trans(mac[n]) = "RECV" <=> Active(mac[n].radio.chan) # {}
    /\ Trans(mac[n]) = "SEND" <=> mac[n].statusEvent

\* A node that waits for an acknowledgement will stop waiting: its timer is
\* pending, so cancel() is safe, and the packet is still in the queue.
WaitingHasTimer ==
  \A n \in Node : mac[n].status = "WAIT_ACK" => mac[n].waitTimer /\ mac[n].queue # <<>>

\* The simulation only reaches front() of an empty queue after an ACK has
\* met a busy radio, which makes a node PASSIVE while its timers run on.
CrashNeedsBlockedAck == crash # "none" => \E n \in Node : <<n, "ACK">> \in blockedTx

\* A node that has data but nothing pending to send it with once found its
\* radio busy: data that meets RECV or SEND stays in the queue with no timer.
\* Every other way through the handlers goes on with the queue.
StallNeedsBusyRadio ==
  \A n \in Node :
    LET m == mac[n]
    IN  m.queue # <<>> /\ ~(m.statusEvent \/ m.backoffTimer \/ m.waitTimer) /\ crash = "none" =>
          \E t \in {"DATA", "ACK"} : <<n, t>> \in blockedTx

\* Data reaches a neighbour in the order it was handed down: repetitions
\* follow, but an older packet is never passed up after a newer one.
InOrder ==
  [][\A l \in Hears : lastUp'[l] >= lastUp[l]]_vars

\* An element of the channel status table is marked acknowledged only if that
\* neighbour has passed that packet up.
AckedWasReceived ==
  \A n \in Node : \A i \in DOMAIN mac[n].table :
    mac[n].table[i].acked => <<n, mac[n].table[i].pkt>> \in handedUp[mac[n].table[i].target]

\* uwaloha.cc:276: an ACK that comes after WaitACKTimer is ignored.
LateAckIgnored == ~lateAck
=============================================================================
