--------------------------------- MODULE VBF ---------------------------------
(***************************************************************************)
(* uw_routing/vectorbasedforward.cc, vector based forwarding, under the    *)
(* sink agent of uw_common/uw_sink.cc.  A packet carries its source, its   *)
(* target and the node that forwarded it last; a node inside the pipe      *)
(* around the vector to the target waits a time that is shorter the better *)
(* its position is, counts the copies it hears meanwhile, and then         *)
(* forwards the packet or drops it.                                        *)
(*                                                                         *)
(* A node is a record: its packet table, the packets its delay timers      *)
(* hold, and the fields of its agent.  The link layer below loses, delays  *)
(* and reorders; a delay timer may fire at any time.  Every node knows its *)
(* own position, as calculatePosition makes sure, so the geometry is three *)
(* constants.                                                              *)
(***************************************************************************)
EXTENDS Integers, FiniteSets, Sequences, SequencesExt, Bags

CONSTANTS
  Node,
  Hears,              \* <<s, r>>: r is within range of s
  NextHops,           \* [Node -> SUBSET (Node \cup {MAC_BROADCAST})]: see NextHop
  MAC_BROADCAST,
  Sinks,              \* nodes with sinkStatus set
  Scripts,            \* what Tcl may order: a subset of [Node -> Seq(Commands)]
  Target,             \* [Node -> Node]; address 0, which stands for a place, is left out
  Close(_, _, _),     \* node, start and target of a vector: is it inside the pipe?
  Desire(_, _, _, _), \* the same and a forwarder: how bad the node is, in Unit-ths
  Unit,
  HopByHop,           \* hop_by_hop_: the vector starts at the forwarder
  WINDOW_SIZE, MAX_NEIGHBOR,
  MaxPackets          \* bound: packets a node may originate

Commands == {"send", "ready", "announce", "cbr-start", "exp-start", "stop", "reset-state"}

ASSUME VBFAssumption ==
  /\ NextHops \in [Node -> SUBSET (Node \cup {MAC_BROADCAST})]
  /\ Scripts \subseteq [Node -> Seq(Commands)] /\ Target \in [Node -> Node]
  /\ Hears \subseteq Node \X Node
  /\ MAC_BROADCAST \notin Node
  /\ Sinks \subseteq Node /\ HopByHop \in BOOLEAN
  /\ {Unit, MAX_NEIGHBOR, MaxPackets} \subseteq Nat \ {0} /\ WINDOW_SIZE \in Nat
  /\ \A n, s, t, f \in Node : Close(n, s, t) \in BOOLEAN /\ Desire(n, s, t, f) \in Nat

\* UnderwaterChannel::sendUp passes over the sender.
ASSUME HearsOthers == \A n \in Node : <<n, n>> \notin Hears

VARIABLES
  node,    \* the record of each node
  air,     \* bag of [pkt, to]: the copies on their way
  todo     \* the Tcl commands not yet given

vars == <<node, air, todo>>

\* struct hdr_uwvb
Packet ==
  [type : {"INTEREST", "DATA_READY", "DATA", "SOURCE_DISCOVERY"}, sender : Node,
   pk_num : 0 .. MaxPackets - 1, target : Node, forwarder : Node,
   next_hop : Node \cup {MAC_BROADCAST}]

\* priority is 1.5.
Priority == (3 * Unit) \div 2

Key(p) == <<p.sender, p.pk_num>>

NewNode(n) ==
  [table |-> [k \in {} |-> <<>>], pending |-> EmptyBag,
   target |-> Target[n], running |-> FALSE, pk_count |-> 0, num_recv |-> 0,
   out |-> {},                                      \* what this step sends
   forwarded |-> {}, counted |-> {}, evicted |-> {},  \* history: sets of keys
   twice |-> {}, vanished |-> {}]

----------------------------------------------------------------------------
(* class UWPkt_Hash_Table *)

\* The keys that are window_size or more behind p; the ones in between stay.
OutOfWindow(table, p) ==
  {k \in DOMAIN table : k[1] = p.sender /\ k[2] < p.pk_num - WINDOW_SIZE}

\* Mutant: the copy that makes the entry is not counted in it.
put_uncounted(m, p) ==
  LET old == OutOfWindow(m.table, p)
  IN  [m EXCEPT
        !.table = [k \in (DOMAIN @ \ old) \cup {Key(p)} |->
                     IF k # Key(p) THEN @[k]
                     ELSE IF Key(p) \notin DOMAIN @ THEN <<>>
                     ELSE IF Len(@[k]) < MAX_NEIGHBOR THEN Append(@[k], p.forwarder)
                     ELSE @[k]],
        !.evicted = @ \cup old]

\* Mutant: the copy that makes the entry is counted twice.
put_twice(m, p) ==
  LET old == OutOfWindow(m.table, p)
  IN  [m EXCEPT
        !.table = [k \in (DOMAIN @ \ old) \cup {Key(p)} |->
                     IF k # Key(p) THEN @[k]
                     ELSE IF Key(p) \notin DOMAIN @ THEN <<p.forwarder, p.forwarder>>
                     ELSE IF Len(@[k]) < MAX_NEIGHBOR THEN Append(@[k], p.forwarder)
                     ELSE @[k]],
        !.evicted = @ \cup old]

\* Who forwarded each copy that was heard, up to MAX_NEIGHBOR of them.
put_in_hash(m, p) ==
  LET old == OutOfWindow(m.table, p)
      heard == IF Key(p) \in DOMAIN m.table THEN m.table[Key(p)] ELSE <<>>
  IN  [m EXCEPT
        !.table = [k \in (DOMAIN @ \ old) \cup {Key(p)} |->
                     IF k # Key(p) THEN @[k]
                     ELSE IF Len(heard) < MAX_NEIGHBOR THEN Append(heard, p.forwarder)
                     ELSE heard],
        !.evicted = @ \cup old]

reset(m) ==
  [m EXCEPT !.table = [k \in {} |-> <<>>], !.evicted = @ \cup DOMAIN m.table]

----------------------------------------------------------------------------
(* class VectorbasedforwardAgent *)

\* The vector starts at the source, or at the node that forwarded p.
Start(p) == IF HopByHop THEN p.forwarder ELSE p.sender

IsCloseEnough(n, p) == Close(n, Start(p), p.target)

calculateDelay(n, f, p) == Desire(n, Start(p), p.target, f)

\* MACprepare and MACsend.
MACsend(m, n, p) ==
  [m EXCEPT !.out = @ \cup {[p EXCEPT !.forwarder = n]},
            !.twice = IF Key(p) \in m.forwarded THEN @ \cup {Key(p)} ELSE @,
            !.forwarded = @ \cup {Key(p)}]

set_delaytimer(m, p) == [m EXCEPT !.pending = @ (+) SetToBag({p})]

\* The first neighbour that set-neighbors gave this node; without any, the
\* code reads past an empty set, and NextHops has to hold every outcome.
NextHop(n, p, hop) == [p EXCEPT !.next_hop = hop]

\* An agent's packet reaches the routing agent of its own node.
Originate(m, n, type, hop) ==
  LET p == [type |-> type, sender |-> n, pk_num |-> m.pk_count, target |-> m.target,
            forwarder |-> n, next_hop |-> hop]
  IN  IF m.pk_count < MaxPackets
        THEN MACsend(put_in_hash([m EXCEPT !.pk_count = @ + 1], p), n, p)
        ELSE m

\* UWSinkAgent::recv, for a packet that DataForSink hands up.
DataForSink(m, n, p, hop) ==
  CASE p.type = "DATA" ->
         [m EXCEPT !.num_recv = @ + 1, !.counted = @ \cup {Key(p)},
                   !.twice = IF Key(p) \in m.counted THEN @ \cup {Key(p)} ELSE @]
    [] p.type = "DATA_READY" /\ n \in Sinks ->
         Originate([m EXCEPT !.target = p.sender], n, "INTEREST", hop)
    [] p.type = "DATA_READY" /\ n \notin Sinks ->
         Originate([m EXCEPT !.target = p.sender, !.running = TRUE], n, "DATA", hop)

\* An INTEREST that has reached its target becomes a SOURCE_DISCOVERY and is
\* freed when its timer fires.
ConsiderNew(m, n, p, hop) ==
  LET mine == p.target = n
  IN  CASE p.type = "SOURCE_DISCOVERY" -> m
        [] p.type # "SOURCE_DISCOVERY" /\ p.sender = n -> MACsend(m, n, p)
        [] p.type = "INTEREST" /\ p.sender # n ->
             IF mine THEN set_delaytimer(m, [p EXCEPT !.type = "SOURCE_DISCOVERY"])
             ELSE IF IsCloseEnough(n, p) THEN MACsend(m, n, p) ELSE m
        [] p.type = "DATA_READY" /\ p.sender # n ->
             IF mine THEN DataForSink(m, n, p, hop) ELSE MACsend(m, n, p)
        [] p.type = "DATA" /\ p.sender # n ->
             IF mine THEN DataForSink(m, n, p, hop)
             ELSE IF IsCloseEnough(n, p) THEN set_delaytimer(m, p) ELSE m

\* Mutant: the table is not asked.
recvAgain(m, n, p, hop) == ConsiderNew(put_in_hash(m, p), n, NextHop(n, p, hop), hop)

recv(m, n, p, hop) ==
  IF Key(p) \in DOMAIN m.table THEN put_in_hash(m, p)
  ELSE ConsiderNew(put_in_hash(m, p), n, NextHop(n, p, hop), hop)

\* A node that heard one copy judges itself by the one it holds.  Of several, the best
\* position as seen from each forwarder has to be better the more there are.
WorthForwarding(n, p, heard) ==
  IF Len(heard) = 1 THEN calculateDelay(n, p.forwarder, p) <= Priority
  ELSE /\ Len(heard) # MAX_NEIGHBOR
       /\ \E f \in ToSet(heard) :
            calculateDelay(n, f, p) * (2 ^ (Len(heard) - 1)) <= Priority

timeout(m, n, p) ==
  LET rest == [m EXCEPT !.pending = @ (-) SetToBag({p})]
  IN  IF p.type # "DATA" THEN rest
      ELSE IF Key(p) \notin DOMAIN m.table
        THEN [rest EXCEPT !.vanished = @ \cup {Key(p)}]
      ELSE IF WorthForwarding(n, p, m.table[Key(p)]) THEN MACsend(rest, n, p)
      ELSE rest

----------------------------------------------------------------------------
(* Actions *)

Init ==
  /\ node = [n \in Node |-> NewNode(n)]
  /\ air = EmptyBag
  /\ todo \in Scripts

\* The nodes that a MAC below hands a packet of n up at, when nothing is lost.
Listeners(n, p) == {r \in Node : <<n, r>> \in Hears /\ p.next_hop \in {r, MAC_BROADCAST}}

\* Node n becomes m, having taken the copies in taken from the air; what it
\* sends is on its way to those that will get it.
Becomes(n, m, taken) ==
  /\ node' = [node EXCEPT ![n] = [m EXCEPT !.out = {}]]
  /\ \E got \in SUBSET UNION {{[pkt |-> p, to |-> r] : r \in Listeners(n, p)} : p \in m.out} :
       air' = (air (-) SetToBag(taken)) (+) SetToBag(got)

\* UWSinkAgent::command, and reset-state of the routing agent.
Do(n, command) ==
  LET m == node[n]
  IN  \E hop \in NextHops[n] :
        Becomes(n, CASE command = "send"      -> Originate(m, n, "DATA", hop)
                     [] command = "ready"     -> Originate(m, n, "DATA_READY", hop)
                     [] command = "announce"  -> Originate(m, n, "INTEREST", hop)
                     [] command = "cbr-start" ->
                          Originate([m EXCEPT !.running = TRUE], n, "DATA", hop)
                     [] command = "exp-start" -> [m EXCEPT !.running = TRUE]
                     [] command = "stop"      -> [m EXCEPT !.running = FALSE]
                     [] command = "reset-state" -> reset(m), {})

Tcl(n) ==
  /\ todo[n] # <<>>
  /\ Do(n, Head(todo[n]))
  /\ todo' = [todo EXCEPT ![n] = Tail(@)]

\* sink_timer_: a running agent sends on.
SinkTimer(n) ==
  /\ node[n].running /\ node[n].pk_count < MaxPackets
  /\ Do(n, "send")
  /\ UNCHANGED todo

Recv(c) ==
  /\ \E hop \in NextHops[c.to] : Becomes(c.to, recv(node[c.to], c.to, c.pkt, hop), {c})
  /\ UNCHANGED todo

DelayTimer(n) ==
  /\ \E p \in BagToSet(node[n].pending) : Becomes(n, timeout(node[n], n, p), {})
  /\ UNCHANGED todo

Next ==
  \/ \E n \in Node : Tcl(n) \/ SinkTimer(n) \/ DelayTimer(n)
  \/ \E c \in BagToSet(air) : Recv(c)

Spec == Init /\ [][Next]_vars

\* The scheduler runs every event: what was sent arrives, timers fire.
FairSpec ==
  /\ Spec
  /\ WF_vars(\E c \in BagToSet(air) : Recv(c))
  /\ \A n \in Node : WF_vars(DelayTimer(n))

----------------------------------------------------------------------------
(* Properties *)

\* The type of every field; the array of neighbours keeps to its bound.
TypeOK ==
  /\ \A n \in Node :
       LET m == node[n]
       IN  /\ \A k \in DOMAIN m.table :
                k \in Node \X Nat /\ m.table[k] \in Seq(Node) /\ Len(m.table[k]) \in 1 .. MAX_NEIGHBOR
           /\ BagToSet(m.pending) \subseteq Packet
           /\ m.target \in Node /\ m.running \in BOOLEAN
           /\ m.pk_count \in 0 .. MaxPackets /\ m.num_recv \in Nat
  /\ \A c \in BagToSet(air) : c.pkt \in Packet /\ c.to \in Node

\* The table makes a node forward or count a packet once, and a packet whose
\* timer fires is still in it, unless the window has passed over the packet.
OnceWithinWindow ==
  \A n \in Node :
    /\ node[n].twice \cup node[n].vanished \subseteq node[n].evicted
    /\ node[n].num_recv >= Cardinality(node[n].counted)
    /\ (node[n].counted \cap node[n].evicted = {})
         => (node[n].num_recv = Cardinality(node[n].counted))

\* The second decision never leaves the packet to nobody: a relay whose place is good
\* enough for what it took the packet from keeps quiet only if the window has passed
\* over the packet, or if some relay has forwarded it, so that the copies it weighs
\* itself against are not all the source's.
QuietOnlyBehindARelay ==
  [][\A n \in Node : \A p \in BagToSet(node[n].pending) \ BagToSet(node'[n].pending) :
       p.type = "DATA" /\ calculateDelay(n, p.forwarder, p) <= Priority =>
         \/ Key(p) \in node'[n].vanished
         \/ \E f \in Node \ {p.sender} : Key(p) \in node'[f].forwarded]_vars

\* What a relay judges its position by are nodes it can hear, and its own.
HeardFromNeighbours ==
  \A n \in Node : \A k \in DOMAIN node[n].table :
    \A f \in ToSet(node[n].table[k]) : <<f, n>> \in Hears \/ (f = n /\ k[1] = n)

\* The flood dies out: every packet is forwarded finitely often although the
\* table forgets packets.
EventuallyQuiet == <>[](air = EmptyBag /\ \A n \in Node : node[n].pending = EmptyBag)
=============================================================================
