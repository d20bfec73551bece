-------------------------------- MODULE VBVA --------------------------------
(***************************************************************************)
(* uw_routing/vectorbasedvoidavoidance.cc, vector based forwarding that    *)
(* bypasses voids, under the agent of uw_common/uw_sink_vbva.cc.  A relay  *)
(* inside the pipe forwards after a delay, like one of VBF.  A node that   *)
(* then hears nobody further on sends V_SHIFT, or EXPENSION if it is a     *)
(* source, which makes nodes outside the pipe start a pipe of their own;   *)
(* if that does not help either, BACKPRESSURE goes back to the nodes       *)
(* before it, which start new pipes in their turn.                         *)
(*                                                                         *)
(* All tables and buffers are keyed by source and packet number, and as    *)
(* long as neither the window nor the buffer is full packets do not meet   *)
(* there: the model follows one packet, and a message about it is [type,   *)
(* o, f], o being the node whose position its vector starts at and f the   *)
(* node that sent it.  Only DATA gets past recv to ConsiderNew, so the     *)
(* cases for INTEREST and the like there, and what the sink agent sends    *)
(* besides data, end at the first node.                                    *)
(*                                                                         *)
(* Time is in ticks; events of one tick come in any order.  The layers     *)
(* below deliver a frame within the delay of its distance, or lose it.     *)
(***************************************************************************)
EXTENDS VBVAGeometry, FiniteSets, Bags, Functions

CONSTANTS
  Flow,              \* <<source, target>>: who may be ordered to send, and to whom
  DELAY, JITTER,     \* in ticks
  MetresPerTick,     \* SPEED_OF_SOUND_IN_WATER
  Jitters,           \* the values that Random::uniform() * JITTER takes
  NoNode,            \* an address of no node
  NoReturn,          \* what IsUpstreamNode may return where it has no return
  MAX_NEIGHBOR,
  MaxFaults          \* bound, for each of Flow: frames lost and tables reset

Hears == {link \in Node \X Node :
            /\ link[1] # link[2]
            /\ SquaredDistance(link[1], link[2]) <= Square(TransmitDistance)}
Listeners(n) == {r \in Node : <<n, r>> \in Hears}

ASSUME VBVAAssumption ==
  /\ Flow \subseteq {pair \in Node \X Node : pair[1] # pair[2]}
  /\ {DELAY, JITTER, MetresPerTick} \subseteq Nat \ {0}
  /\ Jitters # {} /\ Jitters \subseteq 0 .. JITTER
  /\ NoNode \notin Node /\ NoReturn # {} /\ NoReturn \subseteq BOOLEAN
  /\ \A n \in Node : Cardinality(Listeners(n)) <= MAX_NEIGHBOR
  /\ MaxFaults \in [Flow -> Nat]

VARIABLES
  node,     \* the record of each node
  agenda,   \* bag of [left, to, what, pkt]: frames on their way and timers
  flow,     \* the pair of Flow that this behaviour is about
  faults    \* history: frames lost and tables reset

vars == <<node, agenda, flow, faults>>

Control == {"V_SHIFT", "EXPENSION", "BACKPRESSURE", "V_SHIFT_DATA", "EXPENSION_DATA",
            "DATA_TERMINATION"}
Message == [type : Control \cup {"DATA"}, o : Node, f : Node]

\* FRESHED and DEAD are what a record says of a forwarder; these are the
\* entries of PacketStatusTable.
PacketStatus == {"none", "SUPPRESSED", "VOID_SUPPRESSED", "FORWARDED", "CENTER_FORWARDED",
                 "FLOODED", "TERMINATED"}

NoRecord == <<>>
NoCopy == {}

NewNode ==
  [status |-> "none",
   heard |-> NoRecord,       \* PktTable: forwarder -> [o, status]
   kept |-> NoCopy,          \* void_avoidance_buffer: the packet, if it is there
   num_recv |-> 0, sent |-> 0, originated |-> FALSE,
   unmarked |-> FALSE,       \* history: BACKPRESSURE marked another than its sender
   out |-> {}]               \* what this step puts on the agenda

Source == flow[1]
Target == flow[2]

----------------------------------------------------------------------------
(* Delays.  d3 of the code is the time to the end of the range. *)

d3 == TransmitDistance \div MetresPerTick
Transit(n, r) == (distance[<<n, r>>] + MetresPerTick - 1) \div MetresPerTick

\* sqrt(h) * DELAY for h in hundredths; 3 is the worst place inside a pipe.
RootOf == [h \in Nat |-> (Root[100 * h] * DELAY) \div 100]

\* mini_threshold is 1.5.  Mutant: V_SHIFT leaves with the data.
NoShiftDelay == 0

ShiftDelay == 2 * RootOf[150] + 3 * d3

SourceShiftDelay == 2 * DELAY + JITTER + 3 * d3
BackpressureDelay == 4 * RootOf[300] + 3 * d3
ForwardDelay(n, p) ==
  RootOf[Positive(calculateDelay(p.o, Target, n, p.f))]
    + (2 * (TransmitDistance - distance[<<n, p.f>>])) \div MetresPerTick + d3
CenteredDelay(n, p) == 2 * RootOf[calculateSelfCenteredDelay(Target, n, p.f)]

At(n, what, pkt, left) == [to |-> n, what |-> what, pkt |-> pkt, left |-> left]

Put(m, n, what, pkt, left) == [m EXCEPT !.out = @ \cup {At(n, what, pkt, left)}]

\* MACsend: the copies for everybody in range leave in delay ticks.
MACsend(m, n, p, delay) ==
  [m EXCEPT !.out = @ \cup {At(r, "frame", p, delay + Transit(n, r)) : r \in Listeners(n)},
            !.sent = IF p.type = "DATA" THEN @ + 1 ELSE @]

\* MACprepare writes who sends, and from where.
Prepared(n, p) == [p EXCEPT !.f = n]

----------------------------------------------------------------------------
(* The tables. *)

\* Mutant: whose pipe it is goes for who sent it.
recordOrigin(m, p) ==
  [m EXCEPT !.heard = [f \in DOMAIN m.heard \cup {p.o} |->
                         IF f = p.o THEN [o |-> p.o, status |-> "FRESHED"] ELSE m.heard[f]]]

\* The latest copy of a forwarder replaces its record, which is FRESHED again.
recordPacket(m, p) ==
  [m EXCEPT !.heard = [f \in DOMAIN m.heard \cup {p.f} |->
                         IF f = p.f THEN [o |-> p.o, status |-> "FRESHED"] ELSE m.heard[f]]]

delete_hash(m) == [m EXCEPT !.heard = NoRecord]

\* Mutant: nobody is marked, as in the commented-out line.
MarkNobody(m, f, status) == m

MarkNextHopStatus(m, f, status) ==
  IF f \in DOMAIN m.heard THEN [m EXCEPT !.heard[f].status = status] ELSE m

\* The buffer of uw_routing_buffer.cc: one copy of a packet.
AddNewPacket(m, p) == [m EXCEPT !.kept = {p}]
LookupCopy(m) == CHOOSE p \in m.kept : TRUE

\* A forwarder that started a pipe of its own.
Centered(m, f) == m.heard[f].o = f
Alive(m, f) == m.heard[f].status # "DEAD"

IsStuckNode(m, n) ==
  /\ \A f \in DOMAIN m.heard :
       SquaredDistance(Target, f) < SquaredDistance(Target, n) => ~Alive(m, f)
  /\ m.status = "FLOODED" => \A f \in DOMAIN m.heard : Centered(m, f) => ~Alive(m, f)

IsWorthFloodingForward(m) ==
  m.heard # NoRecord => \A f \in DOMAIN m.heard : Centered(m, f) => f = Source

IsEndNode(m) == m.heard # NoRecord => \A f \in DOMAIN m.heard : ~Centered(m, f)

\* A single record is taken for that of the packet the node itself forwarded.
IsVoidNode(m, n, o) ==
  m.heard = NoRecord \/ Cardinality(DOMAIN m.heard) <= 1
    \/ \A f \in DOMAIN m.heard : ~Further(o, Target, f, n)

----------------------------------------------------------------------------
(* The agent.  j is a random delay. *)

generateVectorShiftPacket(n, start) == [type |-> "V_SHIFT", o |-> start, f |-> n]

set_shift_timer(m, n, p, delay) ==
  LET shift == generateVectorShiftPacket(n, p.f)
  IN  Put(m, n, "shift",
          IF m.status = "CENTER_FORWARDED" THEN [shift EXCEPT !.type = "EXPENSION"] ELSE shift, delay)

sendDataTermination(m, n) ==
  MACsend(m, n, [type |-> "DATA_TERMINATION", o |-> n, f |-> n], 0)

\* Mutant: the target goes on taking the packet.
DataForSinkAgain(m, n) == [sendDataTermination(m, n) EXCEPT !.num_recv = @ + 1]

\* UW_VBVA_SinkAgent::recv.
SinkRecv(m) == [m EXCEPT !.num_recv = @ + 1]

\* The target has the packet.
DataForSink(m, n) == [SinkRecv(sendDataTermination(m, n)) EXCEPT !.status = "TERMINATED"]

generateBackpressurePacket(m, n, p, delay) ==
  Put(m, n, "backpressure", [p EXCEPT !.type = "BACKPRESSURE"], delay)

\* The node begins a pipe of its own, with the data that came or that it has kept.
\* Far from a good place it gives up, and its status stays as recv has set it.
processCenteredPacket(m, n, p) ==
  LET own == [type |-> "DATA", o |-> n, f |-> n]
      later == Put(delete_hash(m), n, "centered", own, CenteredDelay(n, p))
  IN  IF calculateSelfCenteredDelay(Target, n, p.f) > 120 THEN m
      ELSE IF p.type \in {"V_SHIFT", "EXPENSION"}
        THEN (IF m.kept = NoCopy THEN m ELSE later)
      ELSE IF n = Target THEN DataForSink(m, n)
      ELSE later

\* IsUpstreamNode says TRUE, or whatever.
Upstream(n, p) == IF IsUpstreamNode(n, p.f, Target) THEN {TRUE} ELSE NoReturn

\* The packet of BACKPRESSURE with another type.
generateControlDataPacket(n, p, type) == Prepared(n, [p EXCEPT !.type = type])

\* What an unset address may be: only those that are heard of make a difference.
Unset(m) == DOMAIN m.heard \cup {NoNode}

\* The forwarder to be marked is never set.  A stuck node first starts pipes next to
\* itself, and waits for them longer than they take; the second time it gives up.
processBackpressurePacket(m, n, p, x, j) ==
  LET marked == [MarkNextHopStatus(m, x, "DEAD") EXCEPT !.unmarked = @ \/ x # p.f]
      type == IF m.status = "FORWARDED" THEN "V_SHIFT_DATA" ELSE "EXPENSION_DATA"
      bypass == [delete_hash(marked) EXCEPT !.status = "FLOODED"]
  IN  IF m.status \notin {"FORWARDED", "CENTER_FORWARDED", "FLOODED"} \/ m.heard = NoRecord THEN m
      ELSE IF ~IsStuckNode(marked, n) THEN marked
      ELSE IF m.status = "FLOODED"
        THEN MACsend([marked EXCEPT !.status = "TERMINATED"], n,
                     generateControlDataPacket(n, p, "BACKPRESSURE"), 0)
      ELSE MACsend(generateBackpressurePacket(bypass, n, p, BackpressureDelay + JITTER + j),
                   n, generateControlDataPacket(n, p, type), 0)

\* DATA that the node knows nothing of.
ConsiderNew(m, n, p, j) ==
  LET kept == AddNewPacket(recordPacket(m, p), p)
  IN  IF n = Source
        THEN MACsend(set_shift_timer([AddNewPacket(m, p) EXCEPT !.status = "CENTER_FORWARDED"], n, p,
                                     SourceShiftDelay),
                     n, Prepared(n, p), j)
      ELSE IF n = Target THEN DataForSink(m, n)
      ELSE IF IsCloseEnough(n, p.o, Target)
        THEN Put([kept EXCEPT !.status = "SUPPRESSED"], n, "forward", p, ForwardDelay(n, p) + j)
      ELSE kept

IsNewlyTouchedNode(m) == m.status = "none"

\* What each message may do to its receiver.
recv(m, n, p, x, j) ==
  CASE m.status = "TERMINATED" -> m
    [] m.status # "TERMINATED" /\ p.type = "DATA_TERMINATION" -> [m EXCEPT !.status = "TERMINATED"]
    [] m.status # "TERMINATED" /\ p.type \in {"V_SHIFT", "V_SHIFT_DATA"} ->
         IF IsNewlyTouchedNode(m)
           THEN processCenteredPacket([m EXCEPT !.status = "SUPPRESSED"], n, p) ELSE m
    [] m.status # "TERMINATED" /\ p.type \in {"EXPENSION", "EXPENSION_DATA"} ->
         IF m.status \in {"none", "SUPPRESSED"}
           THEN processCenteredPacket([m EXCEPT !.status = "VOID_SUPPRESSED"], n, p) ELSE m
    [] m.status # "TERMINATED" /\ p.type = "BACKPRESSURE" -> processBackpressurePacket(m, n, p, x, j)
    [] m.status # "TERMINATED" /\ p.type = "DATA" ->
         IF m.status # "none" \/ m.heard # NoRecord THEN recordPacket(m, p)
         ELSE ConsiderNew(m, n, p, j)

\* The data goes on, and the node listens whether somebody takes it further.
Forward(m, n, p, status, j) ==
  MACsend([set_shift_timer(m, n, p, ShiftDelay + j) EXCEPT !.status = status], n, Prepared(n, p), 0)

\* A node whose place is as good as that of those that were heard, halved for each.
\* It does not look at the status.
process_forward_timeout(m, n, p, j) ==
  LET others == Cardinality(DOMAIN m.heard)
      worth == IF m.heard = NoRecord THEN Positive(calculateDelay(p.o, Target, n, p.f)) <= 150
               ELSE \E f \in DOMAIN m.heard :
                      calculateDelay(p.o, Target, n, f) * (2 ^ (others - 1)) <= 150
  IN  IF worth THEN Forward(m, n, p, "FORWARDED", j) ELSE m

process_selfcentered_timeout(m, n, p, j) ==
  IF m.status \in {"none", "TERMINATED", "FLOODED"} \/ ~IsWorthFloodingForward(m) THEN m
  ELSE Forward(m, n, p, IF m.status = "VOID_SUPPRESSED" THEN "CENTER_FORWARDED" ELSE "FORWARDED", j)

\* Mutant: no BACKPRESSURE follows.
process_void_avoidance_silent(m, n, p, j) ==
  IF m.status \in {"TERMINATED", "FLOODED"} \/ ~IsVoidNode(m, n, p.o) THEN m
  ELSE delete_hash(MACsend([m EXCEPT !.status = "FLOODED"], n, p, 0))

process_void_avoidance_timeout(m, n, p, j) ==
  LET flooded == MACsend([m EXCEPT !.status = "FLOODED"], n, p, 0)
  IN  IF m.status \in {"TERMINATED", "FLOODED"} \/ ~IsVoidNode(m, n, p.o) THEN m
      ELSE IF m.kept = NoCopy THEN flooded
      ELSE generateBackpressurePacket(delete_hash(flooded), n, LookupCopy(m),
                                      BackpressureDelay + j)

process_backpressure_timeout(m, n, p) ==
  IF m.status \in {"none", "TERMINATED"} \/ ~IsEndNode(m) THEN m
  ELSE MACsend([m EXCEPT !.status = "TERMINATED"], n, Prepared(n, p), 0)

----------------------------------------------------------------------------
(* Actions *)

Init ==
  /\ node = [n \in Node |-> NewNode]
  /\ agenda = EmptyBag
  /\ flow \in Flow
  /\ faults = 0

\* Node n becomes m; e, if any, is done.
Becomes(n, m, e) ==
  /\ node' = [node EXCEPT ![n] = [m EXCEPT !.out = {}]]
  /\ agenda' = (agenda (-) SetToBag(e)) (+) SetToBag(m.out)
  /\ UNCHANGED <<flow, faults>>

sendpkt(n) == [type |-> "DATA", o |-> n, f |-> n]

\* The sink agent of the source hands the packet to the routing agent of its node.
Send(n) ==
  /\ n = Source /\ ~node[n].originated
  /\ \E j \in Jitters :
       Becomes(n, recv([node[n] EXCEPT !.originated = TRUE], n, sendpkt(n), NoNode, j), {})

Due(what) == {e \in BagToSet(agenda) : e.left = 0 /\ e.what = what}

\* BACKPRESSURE from further off than the node is ignored.
Recv(e) ==
  \E j \in Jitters :
    IF e.pkt.type # "BACKPRESSURE"
      THEN Becomes(e.to, recv(node[e.to], e.to, e.pkt, NoNode, j), {e})
      ELSE \E upstream \in Upstream(e.to, e.pkt), x \in Unset(node[e.to]) :
             Becomes(e.to, IF upstream THEN recv(node[e.to], e.to, e.pkt, x, j) ELSE node[e.to], {e})

\* A frame is lost below, or comes to a node whose failure_status is set.
Lose(e) ==
  /\ faults < MaxFaults[flow]
  /\ agenda' = agenda (-) SetToBag({e})
  /\ faults' = faults + 1
  /\ UNCHANGED <<node, flow>>

ForwardTimer(e) ==
  \E j \in Jitters : Becomes(e.to, process_forward_timeout(node[e.to], e.to, e.pkt, j), {e})

CenteredTimer(e) ==
  \E j \in Jitters : Becomes(e.to, process_selfcentered_timeout(node[e.to], e.to, e.pkt, j), {e})

ShiftTimer(e) ==
  \E j \in Jitters : Becomes(e.to, process_void_avoidance_timeout(node[e.to], e.to, e.pkt, j), {e})

BackpressureTimer(e) ==
  Becomes(e.to, process_backpressure_timeout(node[e.to], e.to, e.pkt), {e})

\* reset-state of the agent empties PktTable, and nothing else.
Reset(n) ==
  /\ faults < MaxFaults[flow] /\ node[n].heard # NoRecord
  /\ node' = [node EXCEPT ![n] = delete_hash(@)]
  /\ faults' = faults + 1
  /\ UNCHANGED <<agenda, flow>>

\* Time goes to the next event.
Tick ==
  /\ agenda # EmptyBag /\ \A e \in BagToSet(agenda) : e.left > 0
  /\ LET d == CHOOSE x \in {e.left : e \in BagToSet(agenda)} :
                \A e \in BagToSet(agenda) : x <= e.left
     IN  agenda' = [e \in {[x EXCEPT !.left = @ - d] : x \in BagToSet(agenda)} |->
                      agenda[[e EXCEPT !.left = @ + d]]]
  /\ UNCHANGED <<node, flow, faults>>

Event ==
  \/ \E e \in Due("frame") : Recv(e) \/ Lose(e)
  \/ \E e \in Due("forward") : ForwardTimer(e)
  \/ \E e \in Due("centered") : CenteredTimer(e)
  \/ \E e \in Due("shift") : ShiftTimer(e)
  \/ \E e \in Due("backpressure") : BackpressureTimer(e)

Next == Event \/ Tick \/ (\E n \in Node : Send(n) \/ Reset(n))

Spec == Init /\ [][Next]_vars

\* The scheduler runs what is due, and time passes; the script sends.
FairSpec == Spec /\ WF_vars(Event) /\ WF_vars(Tick) /\ WF_vars(\E n \in Node : Send(n))

----------------------------------------------------------------------------
(* Properties *)

\* The tables of a node name nodes it can hear, a kept copy is of data, and what
\* waits in the scheduler is of a kind that one of the handlers takes.
TypeOK ==
  /\ \A n \in Node :
       /\ node[n].status \in PacketStatus
       /\ \A f \in DOMAIN node[n].heard :
            /\ <<f, n>> \in Hears
            /\ node[n].heard[f] \in [o : Node, status : {"FRESHED", "DEAD"}]
       /\ node[n].kept \subseteq Message /\ Cardinality(node[n].kept) <= 1
       /\ {node[n].num_recv, node[n].sent} \subseteq Nat /\ node[n].out = {}
  /\ BagToSet(agenda) \subseteq
       [to : Node, what : {"frame", "forward", "centered", "shift", "backpressure"},
        pkt : Message, left : Nat]
  /\ faults \in 0 .. MaxFaults[flow]

\* The sink agent counts a packet once, at its target only, though the pipe and the
\* pipes around the void may all bring it there.
DeliveredOnce ==
  \A n \in Node : node[n].num_recv <= (IF n = Target THEN 1 ELSE 0)

\* The first thing a target gets of a packet is its data.  A target that is called
\* to a new pipe first takes itself for a relay and refuses the data from then on.
TargetNeverRefuses ==
  node[Target].status \notin {"none", "TERMINATED"} => faults > 0

\* A node that is stuck still has BACKPRESSURE to send in case nobody bypasses the
\* void, or hears of a node that does.  That it has no copy of the packet then, or that
\* neither follows, needs a lost frame or a reset.
FloodedIsHandled ==
  \A n \in Node : node[n].status = "FLOODED" =>
    \/ \E e \in BagToSet(agenda) : e.to = n /\ e.what = "backpressure"
    \/ \E f \in DOMAIN node[n].heard : Centered(node[n], f)
    \/ faults > 0

\* Void avoidance works: where a way exists the packet arrives, unless a frame is lost,
\* a table reset, or BACKPRESSURE marks the wrong forwarder.
Delivered ==
  <>(\/ node[Target].num_recv = 1
     \/ faults > 0
     \/ \E n \in Node : node[n].unmarked)
=============================================================================
