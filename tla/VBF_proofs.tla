----------------------------- MODULE VBF_proofs -----------------------------
(***************************************************************************)
(* Proofs about VBF for every network, every geometry, every window and    *)
(* every script.  Each operator of VBF keeps Good, the part of the         *)
(* invariant that concerns one node; the air is what ties nodes together.  *)
(* Once is what the packet table is for.  It needs the numbers a source    *)
(* gives out, which travel with the copies: Numbered and Issued.           *)
(***************************************************************************)
EXTENDS VBF, SequenceTheorems, FiniteSetTheorems, TLAPS

USE VBFAssumption

Keys == Node \X Nat
Tables == UNION {[K -> Seq(Node)] : K \in SUBSET Keys}
BagsOf(S) == UNION {[T -> Nat \ {0}] : T \in SUBSET S}

NodeState ==
  [table : Tables, pending : BagsOf(Packet), target : Node, running : BOOLEAN,
   pk_count : 0 .. MaxPackets, num_recv : Nat, out : SUBSET Packet,
   forwarded : SUBSET Keys, counted : SUBSET Keys, evicted : SUBSET Keys,
   twice : SUBSET Keys, vanished : SUBSET Keys]

\* Node f may have told node n of a packet with key k.
Told(f, n, k) == <<f, n>> \in Hears \/ (f = n /\ k[1] = n)

GoodTable(n, t) ==
  \A k \in DOMAIN t :
    /\ Len(t[k]) \in 1 .. MAX_NEIGHBOR
    /\ \A i \in DOMAIN t[k] : Told(t[k][i], n, k)

Good(n, m) ==
  /\ m \in NodeState
  /\ GoodTable(n, m.table)
  /\ \A p \in m.out : p.forwarder = n

\* A copy that is on its way comes from a node that its receiver can hear.
GoodCopy(c) == c.pkt \in Packet /\ c.to \in Node /\ <<c.pkt.forwarder, c.to>> \in Hears

NodesAndAir ==
  /\ node \in [Node -> NodeState]
  /\ \A n \in Node : Good(n, node[n]) /\ node[n].out = {}
  /\ \A c \in DOMAIN air : GoodCopy(c)

IInv ==
  /\ NodesAndAir
  /\ todo \in [Node -> Seq(Commands)]
----------------------------------------------------------------------------
\* Both array bounds are positive.
LEMMA Bounds == MAX_NEIGHBOR \in Nat \ {0} /\ MaxPackets \in Nat \ {0}
  OBVIOUS

\* A table: a function from some keys to sequences of nodes.
LEMMA TableMember ==
  ASSUME NEW t
  PROVE  t \in Tables <=> (DOMAIN t \subseteq Keys /\ t \in [DOMAIN t -> Seq(Node)])
  BY DEF Tables

\* A bag over S: a function from some of S to positive counts.
LEMMA BagMember ==
  ASSUME NEW S, NEW b
  PROVE  b \in BagsOf(S) <=> (DOMAIN b \subseteq S /\ b \in [DOMAIN b -> Nat \ {0}])
  BY DEF BagsOf

\* One copy more is still a bag over the same set.
LEMMA AddToBag ==
  ASSUME NEW S, NEW b \in BagsOf(S), NEW p \in S
  PROVE  b (+) SetToBag({p}) \in BagsOf(S)
<1> DEFINE c == b (+) SetToBag({p})
<1>1. b \in [DOMAIN b -> Nat \ {0}] /\ DOMAIN b \subseteq S
  BY BagMember
<1>2. c = [e \in DOMAIN b \cup {p} |->
             (IF e \in DOMAIN b THEN b[e] ELSE 0) + (IF e \in {p} THEN 1 ELSE 0)]
  BY DEF (+), SetToBag
<1> HIDE DEF c
<1>3. DOMAIN c = DOMAIN b \cup {p} /\ \A e \in DOMAIN c : c[e] \in Nat \ {0}
  BY <1>1, <1>2
<1>4. c \in [DOMAIN c -> Nat \ {0}]
  BY <1>2, <1>3
<1>5. DOMAIN c \subseteq S
  BY <1>1, <1>3
<1>6. c \in BagsOf(S)
  BY <1>4, <1>5, BagMember
<1> QED
  BY <1>6 DEF c

\* So is what is left when copies are taken away.
LEMMA TakeFromBag ==
  ASSUME NEW S, NEW b \in BagsOf(S), NEW T
  PROVE  b (-) SetToBag(T) \in BagsOf(S)
<1> DEFINE d == [e \in DOMAIN b |-> IF e \in T THEN b[e] - 1 ELSE b[e]]
           c == b (-) SetToBag(T)
<1>1. b \in [DOMAIN b -> Nat \ {0}] /\ DOMAIN b \subseteq S
  BY BagMember
<1>2. c = [e \in {x \in DOMAIN d : d[x] > 0} |-> d[e]]
  BY DEF (-), SetToBag
<1>3. \A e \in DOMAIN b : d[e] \in Int
  BY <1>1
<1>4. DOMAIN c \subseteq DOMAIN b /\ \A e \in DOMAIN c : c[e] \in Nat \ {0}
  BY <1>2, <1>3
<1>5. c \in [DOMAIN c -> Nat \ {0}]
  <2> HIDE DEF d, c
  <2> QED
    BY <1>2, <1>4
<1> QED
  BY <1>1, <1>4, <1>5, BagMember
----------------------------------------------------------------------------
(* class UWPkt_Hash_Table *)

\* The key of a packet is a key.
LEMMA KeyType == \A p \in Packet : Key(p) \in Keys
  BY DEF Packet, Key, Keys

\* put_in_hash records a forwarder that n can hear and keeps the array bounded.
LEMMA PutInHashGood ==
  ASSUME NEW n \in Node, NEW m, Good(n, m), NEW p \in Packet, Told(p.forwarder, n, Key(p))
  PROVE  /\ Good(n, put_in_hash(m, p))
         /\ put_in_hash(m, p).out = m.out /\ put_in_hash(m, p).pk_count = m.pk_count
<1> DEFINE old == OutOfWindow(m.table, p)
           heard == IF Key(p) \in DOMAIN m.table THEN m.table[Key(p)] ELSE <<>>
           entry == IF Len(heard) < MAX_NEIGHBOR THEN Append(heard, p.forwarder) ELSE heard
           t == [k \in (DOMAIN m.table \ old) \cup {Key(p)} |->
                   IF k # Key(p) THEN m.table[k] ELSE entry]
<1>1. m \in NodeState /\ GoodTable(n, m.table)
  BY DEF Good
<1>2. m.table \in [DOMAIN m.table -> Seq(Node)] /\ DOMAIN m.table \subseteq Keys
  BY <1>1, TableMember DEF NodeState
<1>3. p.forwarder \in Node /\ Key(p) \in Keys
  BY KeyType DEF Packet
<1>4. heard \in Seq(Node) /\ Len(heard) \in 0 .. MAX_NEIGHBOR
      /\ \A i \in DOMAIN heard : Told(heard[i], n, Key(p))
  BY <1>1, <1>2 DEF GoodTable
<1>5. /\ entry \in Seq(Node) /\ Len(entry) \in 1 .. MAX_NEIGHBOR
      /\ \A i \in DOMAIN entry : Told(entry[i], n, Key(p))
  <2> HIDE DEF heard
  <2>1. CASE Len(heard) < MAX_NEIGHBOR
    <3>1. entry = Append(heard, p.forwarder)
      BY <2>1
    <3> HIDE DEF entry
    <3>2. /\ entry \in Seq(Node) /\ Len(entry) = Len(heard) + 1
          /\ \A i \in 1 .. Len(heard) : entry[i] = heard[i]
          /\ entry[Len(heard) + 1] = p.forwarder
      BY <3>1, <1>3, <1>4, AppendProperties
    <3>3. \A i \in DOMAIN entry :
            entry[i] = p.forwarder \/ (i \in DOMAIN heard /\ entry[i] = heard[i])
      <4>1. DOMAIN entry = 1 .. Len(heard) + 1 /\ DOMAIN heard = 1 .. Len(heard)
        BY <3>2, <1>4, LenProperties
      <4>2. Len(heard) \in Nat
        BY <1>4, LenProperties
      <4>3. \A i \in 1 .. Len(heard) + 1 : i = Len(heard) + 1 \/ i \in 1 .. Len(heard)
        BY <4>2
      <4> QED
        BY <3>2, <4>1, <4>3
    <3>4. Told(p.forwarder, n, Key(p))
      OBVIOUS
    <3>5. Len(entry) \in 1 .. MAX_NEIGHBOR
      BY <3>2, <1>4, <2>1
    <3> QED
      BY <3>2, <3>3, <3>4, <3>5, <1>4
  <2>2. CASE ~(Len(heard) < MAX_NEIGHBOR)
    BY <2>2, <1>4
  <2> QED
    BY <2>1, <2>2
<1> HIDE DEF heard, entry
<1>6. DOMAIN t \subseteq Keys /\ t \in [DOMAIN t -> Seq(Node)] /\ GoodTable(n, t)
  BY <1>1, <1>2, <1>3, <1>5 DEF GoodTable
<1>7. t \in Tables
  BY <1>6, TableMember
<1>8. put_in_hash(m, p) = [m EXCEPT !.table = t, !.evicted = m.evicted \cup old]
  BY <1>1 DEF put_in_hash, heard, entry, NodeState
<1>9. old \subseteq Keys
  BY <1>2 DEF OutOfWindow
<1> HIDE DEF t, old
<1> QED
  BY <1>1, <1>6, <1>7, <1>8, <1>9 DEF Good, NodeState

\* reset empties the table.
LEMMA ResetGood ==
  ASSUME NEW n \in Node, NEW m, Good(n, m)
  PROVE  Good(n, reset(m))
<1> DEFINE t == [k \in {} |-> <<>>]
<1>1. t \in Tables /\ GoodTable(n, t)
  BY TableMember DEF GoodTable
<1>2. DOMAIN m.table \subseteq Keys
  BY TableMember DEF Good, NodeState
<1> HIDE DEF t
<1>3. reset(m) = [m EXCEPT !.table = t, !.evicted = m.evicted \cup DOMAIN m.table]
  BY DEF reset, t, Good, NodeState
<1> QED
  BY <1>1, <1>2, <1>3 DEF Good, NodeState
----------------------------------------------------------------------------
(* class VectorbasedforwardAgent *)

\* What is sent is signed by n.
LEMMA MACsendGood ==
  ASSUME NEW n \in Node, NEW m, Good(n, m), NEW p \in Packet
  PROVE  Good(n, MACsend(m, n, p))
<1>1. [p EXCEPT !.forwarder = n] \in Packet /\ [p EXCEPT !.forwarder = n].forwarder = n
  BY DEF Packet
<1>2. Key(p) \in Keys
  BY KeyType
<1> HIDE DEF Keys
<1> QED
  BY <1>1, <1>2 DEF MACsend, Good, NodeState

\* A delay timer is set for a packet.
LEMMA SetDelayTimerGood ==
  ASSUME NEW n \in Node, NEW m, Good(n, m), NEW p \in Packet
  PROVE  Good(n, set_delaytimer(m, p))
<1>1. m.pending (+) SetToBag({p}) \in BagsOf(Packet)
  BY AddToBag DEF Good, NodeState
<1> QED
  BY <1>1 DEF set_delaytimer, Good, NodeState

\* Readdressing a packet keeps its key.
LEMMA NextHopType ==
  ASSUME NEW n \in Node, NEW p \in Packet, NEW hop \in NextHops[n]
  PROVE  NextHop(n, p, hop) \in Packet /\ Key(NextHop(n, p, hop)) = Key(p)
<1>1. hop \in Node \cup {MAC_BROADCAST}
  OBVIOUS
<1> QED
  BY <1>1 DEF NextHop, Packet, Key

\* A packet of n's own is recorded and sent.
LEMMA OriginateGood ==
  ASSUME NEW n \in Node, NEW m, Good(n, m), NEW hop \in NextHops[n],
         NEW type \in {"INTEREST", "DATA_READY", "DATA"}
  PROVE  Good(n, Originate(m, n, type, hop))
<1> DEFINE p == [type |-> type, sender |-> n, pk_num |-> m.pk_count, target |-> m.target,
                 forwarder |-> n, next_hop |-> hop]
           m1 == [m EXCEPT !.pk_count = @ + 1]
<1>1. CASE m.pk_count < MaxPackets
  <2>1. m.pk_count \in 0 .. MaxPackets - 1 /\ m.pk_count + 1 \in 0 .. MaxPackets
    <3>1. m.pk_count \in 0 .. MaxPackets
      BY DEF Good, NodeState
    <3> QED
      BY <1>1, <3>1, Bounds
  <2>2. p \in Packet
    BY <2>1 DEF Packet, Good, NodeState
  <2>3. Good(n, m1)
    BY <2>1 DEF Good, NodeState
  <2>4. Told(p.forwarder, n, Key(p))
    BY DEF Told, Key
  <2>5. Originate(m, n, type, hop) = MACsend(put_in_hash(m1, p), n, p)
    BY <1>1 DEF Originate
  <2> HIDE DEF p, m1
  <2>6. Good(n, put_in_hash(m1, p))
    BY <2>2, <2>3, <2>4, PutInHashGood
  <2> QED
    BY <2>2, <2>5, <2>6, MACsendGood
<1>2. CASE ~(m.pk_count < MaxPackets)
  BY <1>2 DEF Originate
<1> QED
  BY <1>1, <1>2

\* The sink counts, and answers DATA_READY.
LEMMA DataForSinkGood ==
  ASSUME NEW n \in Node, NEW m, Good(n, m), NEW hop \in NextHops[n],
         NEW p \in Packet, p.type \in {"DATA", "DATA_READY"}
  PROVE  Good(n, DataForSink(m, n, p, hop))
<1>1. CASE p.type = "DATA"
  <2> DEFINE r == m.num_recv + 1
             c == m.counted \cup {Key(p)}
             t == IF Key(p) \in m.counted THEN m.twice \cup {Key(p)} ELSE m.twice
  <2>1. Key(p) \in Keys
    BY KeyType
  <2> HIDE DEF Keys
  <2>2. m.num_recv \in Nat /\ m.counted \in SUBSET Keys /\ m.twice \in SUBSET Keys
    BY DEF Good, NodeState
  <2>3. r \in Nat /\ c \in SUBSET Keys /\ t \in SUBSET Keys
    BY <2>1, <2>2
  <2>4. DataForSink(m, n, p, hop) = [m EXCEPT !.num_recv = r, !.counted = c, !.twice = t]
    BY <1>1 DEF DataForSink, Good, NodeState
  <2> HIDE DEF r, c, t
  <2> QED
    BY <2>3, <2>4 DEF Good, NodeState
<1>2. p.sender \in Node
  BY DEF Packet
<1>3. CASE p.type = "DATA_READY" /\ n \in Sinks
  <2> DEFINE m1 == [m EXCEPT !.target = p.sender]
  <2>1. Good(n, m1)
    BY <1>2 DEF Good, NodeState
  <2>2. DataForSink(m, n, p, hop) = Originate(m1, n, "INTEREST", hop)
    BY <1>3 DEF DataForSink
  <2> HIDE DEF m1
  <2> QED
    BY <2>1, <2>2, OriginateGood
<1>4. CASE p.type = "DATA_READY" /\ n \notin Sinks
  <2> DEFINE m1 == [m EXCEPT !.target = p.sender, !.running = TRUE]
  <2>1. Good(n, m1)
    BY <1>2 DEF Good, NodeState
  <2>2. DataForSink(m, n, p, hop) = Originate(m1, n, "DATA", hop)
    BY <1>4 DEF DataForSink
  <2> HIDE DEF m1
  <2> QED
    BY <2>1, <2>2, OriginateGood
<1> QED
  BY <1>1, <1>3, <1>4

\* A new packet ends at the sink, is forwarded at once or waits.
LEMMA ConsiderNewGood ==
  ASSUME NEW n \in Node, NEW m, Good(n, m), NEW hop \in NextHops[n], NEW p \in Packet
  PROVE  Good(n, ConsiderNew(m, n, p, hop))
<1>1. CASE p.type = "SOURCE_DISCOVERY"
  BY <1>1 DEF ConsiderNew
<1>2. CASE p.type # "SOURCE_DISCOVERY" /\ p.sender = n
  BY <1>2, MACsendGood DEF ConsiderNew
<1>3. CASE p.type = "INTEREST" /\ p.sender # n
  <2>1. [p EXCEPT !.type = "SOURCE_DISCOVERY"] \in Packet
    BY DEF Packet
  <2>2. ConsiderNew(m, n, p, hop) \in
          {set_delaytimer(m, [p EXCEPT !.type = "SOURCE_DISCOVERY"]), MACsend(m, n, p), m}
    BY <1>3 DEF ConsiderNew
  <2> QED
    BY <2>1, <2>2, MACsendGood, SetDelayTimerGood
<1>4. CASE p.type = "DATA_READY" /\ p.sender # n
  <2>1. ConsiderNew(m, n, p, hop) \in {DataForSink(m, n, p, hop), MACsend(m, n, p)}
    BY <1>4 DEF ConsiderNew
  <2> QED
    BY <1>4, <2>1, MACsendGood, DataForSinkGood
<1>5. CASE p.type = "DATA" /\ p.sender # n
  <2>1. ConsiderNew(m, n, p, hop) \in {DataForSink(m, n, p, hop), set_delaytimer(m, p), m}
    BY <1>5 DEF ConsiderNew
  <2> QED
    BY <1>5, <2>1, SetDelayTimerGood, DataForSinkGood
<1> QED
  BY <1>1, <1>2, <1>3, <1>4, <1>5 DEF Packet

\* recv records what it hears, new or not.
LEMMA RecvGood ==
  ASSUME NEW n \in Node, NEW m, Good(n, m), NEW hop \in NextHops[n],
         NEW p \in Packet, <<p.forwarder, n>> \in Hears
  PROVE  Good(n, recv(m, n, p, hop))
<1>1. Good(n, put_in_hash(m, p))
  BY PutInHashGood DEF Told
<1>2. NextHop(n, p, hop) \in Packet
  BY NextHopType
<1>3. Good(n, ConsiderNew(put_in_hash(m, p), n, NextHop(n, p, hop), hop))
  BY <1>1, <1>2, ConsiderNewGood
<1> QED
  BY <1>1, <1>3 DEF recv

\* A delay timer fires: the packet is sent or dropped.
LEMMA TimeoutGood ==
  ASSUME NEW n \in Node, NEW m, Good(n, m), NEW p \in DOMAIN m.pending
  PROVE  Good(n, timeout(m, n, p))
<1> DEFINE rest == [m EXCEPT !.pending = @ (-) SetToBag({p})]
           lost == [rest EXCEPT !.vanished = @ \cup {Key(p)}]
<1>1. p \in Packet /\ Key(p) \in Keys
  BY BagMember, KeyType DEF Good, NodeState
<1>2. m.pending (-) SetToBag({p}) \in BagsOf(Packet)
  BY TakeFromBag DEF Good, NodeState
<1>3. Good(n, rest)
  BY <1>2 DEF Good, NodeState
<1>4. timeout(m, n, p) \in {rest, lost, MACsend(rest, n, p)}
  BY DEF timeout
<1> HIDE DEF rest, Keys
<1>5. Good(n, lost)
  BY <1>1, <1>3 DEF Good, NodeState
<1> HIDE DEF lost
<1> QED
  BY <1>1, <1>3, <1>4, <1>5, MACsendGood
----------------------------------------------------------------------------
(* Actions *)

\* The record of n is replaced by m, and m.out is in the air.
LEMMA BecomesKeeps ==
  ASSUME NodesAndAir, NEW n \in Node, NEW m, Good(n, m), NEW taken, Becomes(n, m, taken)
  PROVE  NodesAndAir'
<1> DEFINE m1 == [m EXCEPT !.out = {}]
<1>1. Good(n, m1) /\ m1.out = {}
  BY DEF Good, NodeState
<1>2. node' = [node EXCEPT ![n] = m1]
  BY DEF Becomes
<1> HIDE DEF m1
<1>3. node' \in [Node -> NodeState] /\ \A r \in Node : Good(r, node'[r]) /\ node'[r].out = {}
  BY <1>1, <1>2 DEF NodesAndAir, Good
<1>4. PICK got \in SUBSET UNION {{[pkt |-> p, to |-> r] : r \in Listeners(n, p)} : p \in m.out} :
        air' = (air (-) SetToBag(taken)) (+) SetToBag(got)
  BY DEF Becomes
<1>5. DOMAIN air' \subseteq DOMAIN air \cup got
  BY <1>4 DEF (+), (-), SetToBag
<1>6. \A p \in m.out : p \in Packet /\ p.forwarder = n
  BY DEF Good, NodeState
<1>7. \A p \in m.out : \A r \in Listeners(n, p) : GoodCopy([pkt |-> p, to |-> r])
  BY <1>6 DEF GoodCopy, Listeners
<1>8. \A c \in got : GoodCopy(c)
  BY <1>7
<1>9. \A c \in DOMAIN air' : GoodCopy(c)
  BY <1>5, <1>8 DEF NodesAndAir
<1> QED
  BY <1>3, <1>9 DEF NodesAndAir, Good, GoodCopy

\* A Tcl command starts a node.
LEMMA DoKeeps ==
  ASSUME NodesAndAir, NEW n \in Node, NEW command \in Commands, Do(n, command)
  PROVE  NodesAndAir'
<1> DEFINE m == node[n]
           started == [m EXCEPT !.running = TRUE]
           stopped == [m EXCEPT !.running = FALSE]
<1>0. Good(n, m)
  BY DEF NodesAndAir
<1>1. Good(n, m) /\ Good(n, started) /\ Good(n, stopped)
  <2> HIDE DEF m
  <2> QED
    BY <1>0 DEF Good, NodeState
<1>2. Good(n, reset(m))
  BY <1>1, ResetGood
<1>3. PICK hop \in NextHops[n] :
        \E type \in {"INTEREST", "DATA_READY", "DATA"} :
          \E r \in {Originate(m, n, type, hop), Originate(started, n, "DATA", hop),
                   started, stopped, reset(m)} : Becomes(n, r, {})
  BY DEF Do, Commands
<1> HIDE DEF m, started, stopped
<1>4. \A type \in {"INTEREST", "DATA_READY", "DATA"} :
        Good(n, Originate(m, n, type, hop)) /\ Good(n, Originate(started, n, "DATA", hop))
  BY <1>1, OriginateGood
<1> QED
  BY <1>1, <1>2, <1>3, <1>4, BecomesKeeps

\* The initial states satisfy the invariant.
LEMMA InitIInv == Init => IInv
<1> SUFFICES ASSUME Init PROVE IInv
  OBVIOUS
<1>1. ASSUME NEW n \in Node
      PROVE  NewNode(n) \in NodeState /\ Good(n, NewNode(n)) /\ NewNode(n).out = {}
  <2>1. [k \in {} |-> <<>>] \in Tables /\ GoodTable(n, [k \in {} |-> <<>>])
    BY TableMember DEF GoodTable
  <2>2. EmptyBag \in BagsOf(Packet)
    BY BagMember DEF EmptyBag, SetToBag
  <2>3. Target[n] \in Node /\ 0 \in 0 .. MaxPackets
    BY Bounds
  <2> QED
    BY <2>1, <2>2, <2>3 DEF NewNode, NodeState, Good
<1>2. DOMAIN air = {}
  BY DEF Init, EmptyBag, SetToBag
<1>3. NodesAndAir
  BY <1>1, <1>2 DEF Init, NodesAndAir
<1>4. todo \in [Node -> Seq(Commands)]
  BY DEF Init
<1> QED
  BY <1>3, <1>4 DEF IInv

\* Every step keeps the invariant: one case for each disjunct of Next.
LEMMA NextIInv == IInv /\ [Next]_vars => IInv'
<1> SUFFICES ASSUME IInv, [Next]_vars PROVE IInv'
  OBVIOUS
<1>1. ASSUME NEW n \in Node, Tcl(n) PROVE IInv'
  <2>1. todo[n] \in Seq(Commands) /\ todo[n] # <<>>
    BY <1>1 DEF IInv, Tcl
  <2>2. Head(todo[n]) \in Commands /\ Tail(todo[n]) \in Seq(Commands)
    BY <2>1, HeadTailProperties
  <2>3. NodesAndAir'
    BY <1>1, <2>2, DoKeeps DEF IInv, Tcl
  <2>4. todo' \in [Node -> Seq(Commands)]
    BY <1>1, <2>2 DEF IInv, Tcl
  <2> QED
    BY <2>3, <2>4 DEF IInv
<1>2. ASSUME NEW n \in Node, SinkTimer(n) PROVE IInv'
  <2>1. NodesAndAir'
    BY <1>2, DoKeeps DEF IInv, SinkTimer, Commands
  <2> QED
    BY <1>2, <2>1 DEF IInv, SinkTimer
<1>3. ASSUME NEW n \in Node, DelayTimer(n) PROVE IInv'
  <2>1. PICK p \in DOMAIN node[n].pending : Becomes(n, timeout(node[n], n, p), {})
    BY <1>3 DEF DelayTimer, BagToSet
  <2>2. Good(n, timeout(node[n], n, p))
    BY TimeoutGood DEF IInv, NodesAndAir
  <2>3. NodesAndAir'
    BY <2>1, <2>2, BecomesKeeps DEF IInv
  <2> QED
    BY <1>3, <2>3 DEF IInv, DelayTimer
<1>4. ASSUME NEW c \in BagToSet(air), Recv(c) PROVE IInv'
  <2>1. c.pkt \in Packet /\ c.to \in Node /\ <<c.pkt.forwarder, c.to>> \in Hears
    BY DEF IInv, NodesAndAir, GoodCopy, BagToSet
  <2>2. PICK hop \in NextHops[c.to] :
          Becomes(c.to, recv(node[c.to], c.to, c.pkt, hop), {c})
    BY <1>4 DEF Recv
  <2>3. Good(c.to, recv(node[c.to], c.to, c.pkt, hop))
    BY <2>1, RecvGood DEF IInv, NodesAndAir
  <2>4. NodesAndAir'
    BY <2>1, <2>2, <2>3, BecomesKeeps DEF IInv
  <2> QED
    BY <1>4, <2>4 DEF IInv, Recv
<1>5. CASE UNCHANGED vars
  BY <1>5 DEF IInv, NodesAndAir, vars
<1> QED
  BY <1>1, <1>2, <1>3, <1>4, <1>5 DEF Next
----------------------------------------------------------------------------
(* Once within the window *)

HIDE VBFAssumption

\* The data whose timers are running.
Waiting(m) == {p \in DOMAIN m.pending : p.type = "DATA"}

\* Number p was given out by its sender, if C is what each node has counted.
Issued(n, m, C, p) == p.pk_num < IF p.sender = n THEN m.pk_count ELSE C[p.sender]

\* What a node has done with a packet is in its table, or was evicted from it.
Remembered(m) ==
  /\ m.forwarded \cup m.counted \cup {Key(p) : p \in Waiting(m)} \subseteq DOMAIN m.table \cup m.evicted
  /\ m.twice \cup m.vanished \subseteq m.evicted

\* A packet that was not evicted waits once, and has not been forwarded.
WaitsOnce(m) ==
  \A p \in Waiting(m) : Key(p) \notin m.evicted =>
    /\ Key(p) \notin m.forwarded /\ m.pending[p] = 1
    /\ \A q \in Waiting(m) : Key(q) = Key(p) => q = p

CountedOnce(m) ==
  /\ IsFiniteSet(m.counted) /\ m.num_recv >= Cardinality(m.counted)
  /\ m.counted \cap m.evicted = {} => m.num_recv = Cardinality(m.counted)

\* The numbers a node gives out are new to it.
Numbered(n, m, C) ==
  /\ C[n] <= m.pk_count
  /\ \A k \in m.forwarded : k[1] = n => k[2] < m.pk_count
  /\ \A p \in m.out \cup DOMAIN m.pending : Issued(n, m, C, p)

Once(n, m, C) == Remembered(m) /\ WaitsOnce(m) /\ CountedOnce(m) /\ Numbered(n, m, C)

\* How many packets each node has originated.
Counts == [n \in Node |-> node[n].pk_count]

OnceInv ==
  /\ \A n \in Node : Once(n, node[n], Counts)
  /\ \A c \in DOMAIN air : c.pkt.pk_num < Counts[c.pkt.sender]

\* Packet k has not been forwarded and is not waiting, as far as the window goes.
Unsent(m, k) ==
  /\ k \in DOMAIN m.table
  /\ k \in m.forwarded \cup {Key(p) : p \in Waiting(m)} => k \in m.evicted

\* What put_in_hash leaves alone; what it drops from the table is evicted.
LEMMA PutInHashFields ==
  ASSUME NEW n \in Node, NEW m, Good(n, m), NEW p \in Packet
  PROVE  LET r == put_in_hash(m, p)
         IN  /\ DOMAIN m.table \cup m.evicted \subseteq DOMAIN r.table \cup r.evicted
             /\ m.evicted \subseteq r.evicted /\ Key(p) \in DOMAIN r.table
             /\ r.pending = m.pending /\ r.pk_count = m.pk_count /\ r.num_recv = m.num_recv
             /\ r.out = m.out /\ r.forwarded = m.forwarded /\ r.counted = m.counted
             /\ r.twice = m.twice /\ r.vanished = m.vanished
<1> DEFINE old == OutOfWindow(m.table, p)
           heard == IF Key(p) \in DOMAIN m.table THEN m.table[Key(p)] ELSE <<>>
           entry == IF Len(heard) < MAX_NEIGHBOR THEN Append(heard, p.forwarder) ELSE heard
           t == [k \in (DOMAIN m.table \ old) \cup {Key(p)} |->
                   IF k # Key(p) THEN m.table[k] ELSE entry]
<1>1. m \in NodeState
  BY DEF Good
<1>2. put_in_hash(m, p) = [m EXCEPT !.table = t, !.evicted = m.evicted \cup old]
  BY <1>1 DEF put_in_hash, NodeState
<1>3. DOMAIN t = (DOMAIN m.table \ old) \cup {Key(p)}
  OBVIOUS
<1> HIDE DEF t, old
<1> QED
  BY <1>1, <1>2, <1>3 DEF NodeState

\* A key that was new to the table has not been sent since it was last evicted.
LEMMA PutInHashOnce ==
  ASSUME NEW n \in Node, NEW C, NEW m, Good(n, m), Once(n, m, C), NEW p \in Packet
  PROVE  /\ Once(n, put_in_hash(m, p), C)
         /\ Key(p) \notin DOMAIN m.table =>
              /\ Unsent(put_in_hash(m, p), Key(p))
              /\ Key(p) \in put_in_hash(m, p).counted => Key(p) \in put_in_hash(m, p).evicted
<1> DEFINE r == put_in_hash(m, p)
<1>1. /\ DOMAIN m.table \cup m.evicted \subseteq DOMAIN r.table \cup r.evicted
      /\ m.evicted \subseteq r.evicted /\ Key(p) \in DOMAIN r.table
      /\ r.pending = m.pending /\ r.pk_count = m.pk_count /\ r.num_recv = m.num_recv
      /\ r.out = m.out /\ r.forwarded = m.forwarded /\ r.counted = m.counted
      /\ r.twice = m.twice /\ r.vanished = m.vanished
  BY PutInHashFields
<1> HIDE DEF r
<1>2. Waiting(r) = Waiting(m)
  BY <1>1 DEF Waiting
<1>3. Remembered(r)
  BY <1>1, <1>2 DEF Once, Remembered
<1>4. WaitsOnce(r)
  <2> SUFFICES ASSUME NEW q \in Waiting(m), Key(q) \notin m.evicted
               PROVE  /\ Key(q) \notin m.forwarded /\ m.pending[q] = 1
                      /\ \A x \in Waiting(m) : Key(x) = Key(q) => x = q
    <3>1. m.evicted \subseteq r.evicted /\ r.pending = m.pending /\ r.forwarded = m.forwarded
      BY <1>1
    <3> QED
      BY <1>2, <3>1 DEF WaitsOnce
  <2> QED
    BY DEF Once, WaitsOnce
<1>5. CountedOnce(r)
  BY <1>1 DEF Once, CountedOnce
<1>6. Numbered(n, r, C)
  BY <1>1 DEF Once, Numbered, Issued
<1>7. ASSUME Key(p) \notin DOMAIN m.table
      PROVE  Unsent(r, Key(p)) /\ (Key(p) \in r.counted => Key(p) \in r.evicted)
  BY <1>1, <1>2, <1>7 DEF Once, Remembered, Unsent
<1> QED
  BY <1>3, <1>4, <1>5, <1>6, <1>7 DEF Once, r

\* reset evicts all that was in the table.
LEMMA ResetOnce ==
  ASSUME NEW n \in Node, NEW C, NEW m, Good(n, m), Once(n, m, C)
  PROVE  Once(n, reset(m), C)
<1> DEFINE r == reset(m)
<1>1. /\ r.evicted = m.evicted \cup DOMAIN m.table
      /\ r.pending = m.pending /\ r.pk_count = m.pk_count /\ r.num_recv = m.num_recv
      /\ r.out = m.out /\ r.forwarded = m.forwarded /\ r.counted = m.counted
      /\ r.twice = m.twice /\ r.vanished = m.vanished
  BY DEF reset, Good, NodeState
<1> HIDE DEF r
<1>2. Waiting(r) = Waiting(m)
  BY <1>1 DEF Waiting
<1>3. Remembered(r) /\ WaitsOnce(r)
  BY <1>1, <1>2 DEF Once, Remembered, WaitsOnce
<1>4. CountedOnce(r)
  BY <1>1 DEF Once, CountedOnce
<1>5. Numbered(n, r, C)
  BY <1>1 DEF Once, Numbered, Issued
<1> QED
  BY <1>3, <1>4, <1>5 DEF Once, r

\* A packet that was not sent before is sent once.
LEMMA MACsendOnce ==
  ASSUME NEW n \in Node, NEW C, NEW m, Good(n, m), Once(n, m, C), NEW p \in Packet,
         Unsent(m, Key(p)), Issued(n, m, C, p)
  PROVE  Once(n, MACsend(m, n, p), C)
<1> DEFINE r == MACsend(m, n, p)
           q == [p EXCEPT !.forwarder = n]
<1>1. q.pk_num = p.pk_num /\ q.sender = p.sender
  BY DEF Packet
<1> HIDE DEF q
<1>2. /\ r.forwarded = m.forwarded \cup {Key(p)} /\ r.out = m.out \cup {q}
      /\ r.twice = IF Key(p) \in m.forwarded THEN m.twice \cup {Key(p)} ELSE m.twice
      /\ r.table = m.table /\ r.evicted = m.evicted /\ r.vanished = m.vanished
      /\ r.pending = m.pending /\ r.pk_count = m.pk_count /\ r.num_recv = m.num_recv
      /\ r.counted = m.counted
  BY DEF MACsend, Good, NodeState, q
<1> HIDE DEF r
<1>3. Waiting(r) = Waiting(m)
  BY <1>2 DEF Waiting
<1>4. Remembered(r)
  BY <1>2, <1>3 DEF Once, Remembered, Unsent
<1>5. WaitsOnce(r)
  BY <1>2, <1>3 DEF Once, WaitsOnce, Unsent
<1>6. CountedOnce(r)
  BY <1>2 DEF Once, CountedOnce
<1>7. Numbered(n, r, C)
  <2>1. Key(p)[1] = p.sender /\ Key(p)[2] = p.pk_num
    BY DEF Key
  <2>2. Issued(n, r, C, q)
    BY <1>1, <1>2 DEF Issued
  <2>3. \A x \in m.out \cup DOMAIN m.pending : Issued(n, r, C, x)
    BY <1>2 DEF Once, Numbered, Issued
  <2>4. \A k \in r.forwarded : k[1] = n => k[2] < r.pk_count
    BY <1>2, <2>1 DEF Once, Numbered, Issued
  <2> QED
    BY <1>2, <2>2, <2>3, <2>4 DEF Once, Numbered
<1> QED
  BY <1>4, <1>5, <1>6, <1>7 DEF Once, r

\* A bag with one copy more.
LEMMA AddOne ==
  ASSUME NEW S, NEW b \in BagsOf(S), NEW p
  PROVE  LET c == b (+) SetToBag({p})
         IN  /\ DOMAIN c = DOMAIN b \cup {p}
             /\ \A e \in DOMAIN b \ {p} : c[e] = b[e]
             /\ p \notin DOMAIN b => c[p] = 1
<1> DEFINE c == b (+) SetToBag({p})
<1>1. c = [e \in DOMAIN b \cup {p} |->
             (IF e \in DOMAIN b THEN b[e] ELSE 0) + (IF e \in {p} THEN 1 ELSE 0)]
  BY DEF (+), SetToBag
<1>2. \A e \in DOMAIN b : b[e] \in Nat
  BY BagMember
<1> HIDE DEF c
<1>3. \A e \in DOMAIN b \cup {p} :
        c[e] = (IF e \in DOMAIN b THEN b[e] ELSE 0) + (IF e \in {p} THEN 1 ELSE 0)
  BY <1>1
<1>4. DOMAIN c = DOMAIN b \cup {p}
  BY <1>1
<1>5. \A e \in DOMAIN b \ {p} : c[e] = b[e]
  BY <1>2, <1>3
<1>6. p \notin DOMAIN b => c[p] = 1
  BY <1>3
<1> QED
  BY <1>4, <1>5, <1>6 DEF c

\* A bag with one copy less.
LEMMA TakeOne ==
  ASSUME NEW S, NEW b \in BagsOf(S), NEW p \in DOMAIN b
  PROVE  LET c == b (-) SetToBag({p})
         IN  /\ DOMAIN c \subseteq DOMAIN b
             /\ \A e \in DOMAIN c \ {p} : c[e] = b[e]
             /\ p \in DOMAIN c => b[p] # 1
<1> DEFINE d == [e \in DOMAIN b |-> IF e \in {p} THEN b[e] - 1 ELSE b[e]]
           c == b (-) SetToBag({p})
<1>1. \A e \in DOMAIN b : b[e] \in Nat \ {0}
  BY BagMember
<1>2. c = [e \in {x \in DOMAIN d : d[x] > 0} |-> d[e]]
  BY DEF (-), SetToBag
<1>3. /\ DOMAIN d = DOMAIN b /\ \A e \in DOMAIN b \ {p} : d[e] = b[e]
      /\ d[p] = b[p] - 1
  OBVIOUS
<1> HIDE DEF c, d
<1>4. DOMAIN c \subseteq DOMAIN b /\ \A e \in DOMAIN c : c[e] = d[e] /\ d[e] > 0
  BY <1>2, <1>3
<1>5. p \in DOMAIN c => b[p] # 1
  BY <1>3, <1>4
<1>6. \A e \in DOMAIN c \ {p} : c[e] = b[e]
  BY <1>3, <1>4
<1> QED
  BY <1>4, <1>5, <1>6 DEF c

\* A packet that was not sent before is pending once.
LEMMA SetDelayTimerOnce ==
  ASSUME NEW n \in Node, NEW C, NEW m, Good(n, m), Once(n, m, C), NEW p \in Packet,
         p.type = "DATA" => Unsent(m, Key(p)), Issued(n, m, C, p)
  PROVE  Once(n, set_delaytimer(m, p), C)
<1> DEFINE b == m.pending (+) SetToBag({p})
           r == set_delaytimer(m, p)
<1>1. m.pending \in BagsOf(Packet)
  BY DEF Good, NodeState
<1>2. /\ DOMAIN b = DOMAIN m.pending \cup {p}
      /\ \A e \in DOMAIN m.pending \ {p} : b[e] = m.pending[e]
      /\ p \notin DOMAIN m.pending => b[p] = 1
  BY <1>1, AddOne
<1> HIDE DEF b
<1>3. /\ r.pending = b /\ r.table = m.table /\ r.evicted = m.evicted /\ r.vanished = m.vanished
      /\ r.pk_count = m.pk_count /\ r.num_recv = m.num_recv /\ r.out = m.out
      /\ r.forwarded = m.forwarded /\ r.counted = m.counted /\ r.twice = m.twice
  BY DEF set_delaytimer, Good, NodeState, b
<1> HIDE DEF r
<1>4. Waiting(r) = Waiting(m) \cup {q \in {p} : q.type = "DATA"}
  BY <1>2, <1>3 DEF Waiting
<1>5. Remembered(r)
  BY <1>3, <1>4 DEF Once, Remembered, Unsent
<1>6. WaitsOnce(r)
  <2> SUFFICES ASSUME NEW q \in Waiting(r), Key(q) \notin m.evicted
               PROVE  /\ Key(q) \notin m.forwarded /\ b[q] = 1
                      /\ \A x \in Waiting(r) : Key(x) = Key(q) => x = q
    BY <1>3 DEF WaitsOnce
  <2>1. CASE p.type = "DATA"
    <3>1. Unsent(m, Key(p)) /\ Waiting(r) = Waiting(m) \cup {p}
      BY <1>4, <2>1
    <3>2. CASE Key(q) = Key(p)
      <4>1. \A x \in Waiting(m) : Key(x) # Key(p)
        BY <3>1, <3>2 DEF Unsent
      <4>2. q = p /\ p \notin DOMAIN m.pending
        BY <2>1, <3>1, <3>2, <4>1 DEF Waiting
      <4> QED
        BY <1>2, <3>1, <3>2, <4>1, <4>2 DEF Unsent
    <3>3. CASE Key(q) # Key(p)
      <4>1. q \in Waiting(m) /\ q \in DOMAIN m.pending \ {p}
        BY <3>1, <3>3 DEF Waiting
      <4> QED
        BY <1>2, <3>1, <3>3, <4>1 DEF Once, WaitsOnce
    <3> QED
      BY <3>2, <3>3
  <2>2. CASE p.type # "DATA"
    <3>1. Waiting(r) = Waiting(m) /\ q \in DOMAIN m.pending \ {p}
      BY <1>4, <2>2 DEF Waiting
    <3> QED
      BY <1>2, <3>1 DEF Once, WaitsOnce
  <2> QED
    BY <2>1, <2>2
<1>7. CountedOnce(r)
  BY <1>3 DEF Once, CountedOnce
<1>8. Numbered(n, r, C)
  BY <1>2, <1>3 DEF Once, Numbered, Issued
<1> QED
  BY <1>5, <1>6, <1>7, <1>8 DEF Once, r

\* A packet of n's own has a number that nobody has used.
LEMMA OriginateOnce ==
  ASSUME NEW n \in Node, NEW C \in [Node -> Nat], NEW m, Good(n, m), Once(n, m, C),
         NEW hop \in NextHops[n], NEW type \in {"INTEREST", "DATA_READY", "DATA"}
  PROVE  Once(n, Originate(m, n, type, hop), C)
<1> DEFINE p == [type |-> type, sender |-> n, pk_num |-> m.pk_count, target |-> m.target,
                 forwarder |-> n, next_hop |-> hop]
           m1 == [m EXCEPT !.pk_count = @ + 1]
           r == put_in_hash(m1, p)
<1>1. CASE m.pk_count < MaxPackets
  <2>1. m.pk_count \in 0 .. MaxPackets - 1 /\ m.pk_count + 1 \in 0 .. MaxPackets
    <3>1. m.pk_count \in 0 .. MaxPackets
      BY DEF Good, NodeState
    <3> QED
      BY <1>1, <3>1, Bounds
  <2>2. p \in Packet
    <3>1. hop \in Node \cup {MAC_BROADCAST}
      BY VBFAssumption
    <3> QED
      BY <2>1, <3>1 DEF Packet, Good, NodeState
  <2>3. Good(n, m1)
    BY <2>1 DEF Good, NodeState
  <2>4. /\ m1.pk_count = m.pk_count + 1 /\ m1.pending = m.pending /\ m1.out = m.out
        /\ m1.table = m.table /\ m1.evicted = m.evicted /\ m1.vanished = m.vanished
        /\ m1.num_recv = m.num_recv /\ m1.forwarded = m.forwarded /\ m1.counted = m.counted
        /\ m1.twice = m.twice
    BY DEF Good, NodeState
  <2>5. Told(p.forwarder, n, Key(p)) /\ Key(p) = <<n, m.pk_count>> /\ p.sender = n /\ p.pk_num = m.pk_count
    BY DEF Told, Key
  <2>6. Originate(m, n, type, hop) = MACsend(r, n, p)
    BY <1>1 DEF Originate
  <2> HIDE DEF p, m1
  <2>7. Waiting(m1) = Waiting(m)
    BY <2>4 DEF Waiting
  <2>8. \A q \in m.out \cup DOMAIN m.pending : q.pk_num \in Int
    <3>1. m.out \subseteq Packet /\ DOMAIN m.pending \subseteq Packet
      BY BagMember DEF Good, NodeState
    <3> QED
      BY <3>1, Bounds DEF Packet
  <2>9. \A k \in m.forwarded : k \in Keys
    BY DEF Good, NodeState
  <2>10. Numbered(n, m1, C)
    <3>1. C[n] \in Int /\ C[n] <= m.pk_count + 1
      BY <2>1 DEF Once, Numbered
    <3>2. \A k \in m.forwarded : k[1] = n => k[2] < m.pk_count + 1
      BY <2>1, <2>9 DEF Once, Numbered, Keys
    <3>3. \A q \in m.out \cup DOMAIN m.pending : Issued(n, m1, C, q)
      BY <2>1, <2>4, <2>8 DEF Once, Numbered, Issued
    <3> QED
      BY <2>4, <3>1, <3>2, <3>3 DEF Numbered
  <2>11. Remembered(m1) /\ WaitsOnce(m1) /\ CountedOnce(m1)
    BY <2>4, <2>7 DEF Once, Remembered, WaitsOnce, CountedOnce
  <2>12. Once(n, m1, C)
    BY <2>10, <2>11 DEF Once
  <2>13. Good(n, r) /\ Once(n, r, C)
    BY <2>2, <2>3, <2>5, <2>12, PutInHashGood, PutInHashOnce
  <2>14. /\ Key(p) \in DOMAIN r.table /\ r.pk_count = m.pk_count + 1
         /\ r.pending = m.pending /\ r.forwarded = m.forwarded
    BY <2>2, <2>3, <2>4, PutInHashFields
  <2> HIDE DEF r
  <2>15. Key(p) \notin m.forwarded
    <3>1. Key(p)[1] = n /\ Key(p)[2] = m.pk_count
      BY <2>5
    <3> QED
      BY <2>1, <3>1 DEF Once, Numbered
  <2>16. \A q \in Waiting(m) : Key(q) # Key(p)
    <3> SUFFICES ASSUME NEW q \in Waiting(m), Key(q) = Key(p) PROVE FALSE
      OBVIOUS
    <3>1. q.sender = n /\ q.pk_num = m.pk_count
      BY <2>5 DEF Key
    <3> QED
      BY <2>1, <3>1 DEF Once, Numbered, Issued, Waiting
  <2>17. Unsent(r, Key(p))
    BY <2>14, <2>15, <2>16 DEF Unsent, Waiting
  <2>18. Issued(n, r, C, p)
    BY <2>1, <2>5, <2>14 DEF Issued
  <2> QED
    BY <2>2, <2>6, <2>13, <2>17, <2>18, MACsendOnce
<1>2. CASE ~(m.pk_count < MaxPackets)
  BY <1>2 DEF Originate
<1> QED
  BY <1>1, <1>2

\* A key that was not counted, or was evicted, is counted.
LEMMA DataForSinkOnce ==
  ASSUME NEW n \in Node, NEW C \in [Node -> Nat], NEW m, Good(n, m), Once(n, m, C),
         NEW hop \in NextHops[n], NEW p \in Packet, p.type \in {"DATA", "DATA_READY"},
         Unsent(m, Key(p)), Key(p) \in m.counted => Key(p) \in m.evicted
  PROVE  Once(n, DataForSink(m, n, p, hop), C)
<1>1. CASE p.type = "DATA"
  <2> DEFINE r == DataForSink(m, n, p, hop)
  <2>1. /\ r.num_recv = m.num_recv + 1 /\ r.counted = m.counted \cup {Key(p)}
        /\ r.twice = IF Key(p) \in m.counted THEN m.twice \cup {Key(p)} ELSE m.twice
        /\ r.table = m.table /\ r.evicted = m.evicted /\ r.vanished = m.vanished
        /\ r.pending = m.pending /\ r.pk_count = m.pk_count /\ r.out = m.out
        /\ r.forwarded = m.forwarded
    BY <1>1 DEF DataForSink, Good, NodeState
  <2>2. m.num_recv \in Nat
    BY DEF Good, NodeState
  <2> HIDE DEF r
  <2>3. Waiting(r) = Waiting(m)
    BY <2>1 DEF Waiting
  <2>4. Remembered(r)
    BY <2>1, <2>3 DEF Once, Remembered, Unsent
  <2>5. WaitsOnce(r)
    BY <2>1, <2>3 DEF Once, WaitsOnce
  <2>6. CountedOnce(r)
    <3>1. IsFiniteSet(m.counted) /\ Cardinality(m.counted) \in Nat
      BY FS_CardinalityType DEF Once, CountedOnce
    <3>2. CASE Key(p) \in m.counted
      <4>1. r.counted = m.counted /\ r.counted \cap r.evicted # {}
        BY <2>1, <3>2
      <4>2. IsFiniteSet(r.counted) /\ Cardinality(r.counted) = Cardinality(m.counted)
        BY <3>1, <4>1
      <4>3. m.num_recv >= Cardinality(m.counted) /\ r.num_recv = m.num_recv + 1
        BY <2>1 DEF Once, CountedOnce
      <4>4. r.num_recv >= Cardinality(r.counted)
        BY <2>2, <3>1, <4>2, <4>3
      <4> QED
        BY <4>1, <4>2, <4>4 DEF CountedOnce
    <3>3. CASE Key(p) \notin m.counted
      <4>1. Cardinality(r.counted) = Cardinality(m.counted) + 1 /\ IsFiniteSet(r.counted)
        BY <2>1, <3>1, <3>3, FS_AddElement
      <4>2. r.counted \cap r.evicted = {} => m.counted \cap m.evicted = {}
        BY <2>1
      <4> QED
        BY <2>1, <2>2, <3>1, <4>1, <4>2 DEF Once, CountedOnce
    <3> QED
      BY <3>2, <3>3
  <2>7. Numbered(n, r, C)
    BY <2>1 DEF Once, Numbered, Issued
  <2> QED
    BY <2>4, <2>5, <2>6, <2>7 DEF Once, r
<1>2. ASSUME NEW t \in Node, NEW v \in BOOLEAN
      PROVE  /\ Good(n, [m EXCEPT !.target = t, !.running = v])
             /\ Once(n, [m EXCEPT !.target = t, !.running = v], C)
  <2> DEFINE r == [m EXCEPT !.target = t, !.running = v]
  <2>1. Good(n, r)
    BY DEF Good, NodeState
  <2>2. /\ r.num_recv = m.num_recv /\ r.counted = m.counted /\ r.twice = m.twice
        /\ r.table = m.table /\ r.evicted = m.evicted /\ r.vanished = m.vanished
        /\ r.pending = m.pending /\ r.pk_count = m.pk_count /\ r.out = m.out
        /\ r.forwarded = m.forwarded
    BY DEF Good, NodeState
  <2> HIDE DEF r
  <2>3. Once(n, r, C)
    BY <2>2 DEF Once, Remembered, WaitsOnce, CountedOnce, Numbered, Issued, Waiting
  <2> QED
    BY <2>1, <2>3 DEF r
<1>3. p.sender \in Node /\ m.running \in BOOLEAN /\ m \in NodeState
  BY DEF Packet, Good, NodeState
<1>4. CASE p.type = "DATA_READY" /\ n \in Sinks
  <2> DEFINE m1 == [m EXCEPT !.target = p.sender, !.running = m.running]
  <2>1. Good(n, m1) /\ Once(n, m1, C)
    BY <1>2, <1>3
  <2>2. [m EXCEPT !.target = p.sender] = m1
    BY <1>3 DEF NodeState
  <2>3. DataForSink(m, n, p, hop) = Originate(m1, n, "INTEREST", hop)
    BY <1>4, <2>2 DEF DataForSink
  <2> HIDE DEF m1
  <2> QED
    BY <2>1, <2>3, OriginateOnce
<1>5. CASE p.type = "DATA_READY" /\ n \notin Sinks
  <2> DEFINE m1 == [m EXCEPT !.target = p.sender, !.running = TRUE]
  <2>1. Good(n, m1) /\ Once(n, m1, C)
    BY <1>2, <1>3
  <2>2. DataForSink(m, n, p, hop) = Originate(m1, n, "DATA", hop)
    BY <1>5 DEF DataForSink
  <2> HIDE DEF m1
  <2> QED
    BY <2>1, <2>2, OriginateOnce
<1> QED
  BY <1>1, <1>4, <1>5

\* A new packet is counted, sent or set pending once.
LEMMA ConsiderNewOnce ==
  ASSUME NEW n \in Node, NEW C \in [Node -> Nat], NEW m, Good(n, m), Once(n, m, C),
         NEW hop \in NextHops[n], NEW p \in Packet, Issued(n, m, C, p),
         Unsent(m, Key(p)), Key(p) \in m.counted => Key(p) \in m.evicted
  PROVE  Once(n, ConsiderNew(m, n, p, hop), C)
<1>1. CASE p.type = "SOURCE_DISCOVERY"
  BY <1>1 DEF ConsiderNew
<1>2. CASE p.type # "SOURCE_DISCOVERY" /\ p.sender = n
  BY <1>2, MACsendOnce DEF ConsiderNew
<1>3. CASE p.type = "INTEREST" /\ p.sender # n
  <2> DEFINE q == [p EXCEPT !.type = "SOURCE_DISCOVERY"]
  <2>1. q \in Packet /\ q.type # "DATA" /\ Issued(n, m, C, q)
    BY DEF Packet, Issued
  <2>2. ConsiderNew(m, n, p, hop) \in {set_delaytimer(m, q), MACsend(m, n, p), m}
    BY <1>3 DEF ConsiderNew
  <2> HIDE DEF q
  <2> QED
    BY <2>1, <2>2, MACsendOnce, SetDelayTimerOnce
<1>4. CASE p.type = "DATA_READY" /\ p.sender # n
  <2>1. ConsiderNew(m, n, p, hop) \in {DataForSink(m, n, p, hop), MACsend(m, n, p)}
    BY <1>4 DEF ConsiderNew
  <2> QED
    BY <1>4, <2>1, MACsendOnce, DataForSinkOnce
<1>5. CASE p.type = "DATA" /\ p.sender # n
  <2>1. ConsiderNew(m, n, p, hop) \in {DataForSink(m, n, p, hop), set_delaytimer(m, p), m}
    BY <1>5 DEF ConsiderNew
  <2> QED
    BY <1>5, <2>1, SetDelayTimerOnce, DataForSinkOnce
<1> QED
  BY <1>1, <1>2, <1>3, <1>4, <1>5 DEF Packet

\* recv considers a packet only if its key is not in the table.
LEMMA RecvOnce ==
  ASSUME NEW n \in Node, NEW C \in [Node -> Nat], NEW m, Good(n, m), Once(n, m, C),
         NEW hop \in NextHops[n], NEW p \in Packet, <<p.forwarder, n>> \in Hears,
         p.pk_num < C[p.sender]
  PROVE  Once(n, recv(m, n, p, hop), C)
<1> DEFINE r == put_in_hash(m, p)
           q == NextHop(n, p, hop)
<1>1. Good(n, r) /\ Once(n, r, C)
  BY PutInHashGood, PutInHashOnce DEF Told
<1>2. CASE Key(p) \in DOMAIN m.table
  BY <1>1, <1>2 DEF recv
<1>3. CASE Key(p) \notin DOMAIN m.table
  <2>1. Unsent(r, Key(p)) /\ (Key(p) \in r.counted => Key(p) \in r.evicted)
    BY <1>3, PutInHashOnce
  <2>2. q \in Packet /\ Key(q) = Key(p) /\ q.pk_num = p.pk_num /\ q.sender = p.sender
    BY NextHopType DEF NextHop, Packet
  <2>3. Issued(n, r, C, p)
    <3>1. p.pk_num \in Int /\ C[n] \in Int /\ r.pk_count \in Int /\ C[n] <= r.pk_count
      BY <1>1, Bounds DEF Packet, Once, Numbered, Good, NodeState
    <3> HIDE DEF r
    <3> QED
      BY <3>1 DEF Issued
  <2>4. Issued(n, r, C, q)
    BY <2>2, <2>3 DEF Issued
  <2>5. recv(m, n, p, hop) = ConsiderNew(r, n, q, hop)
    BY <1>3 DEF recv
  <2> HIDE DEF r, q
  <2> QED
    BY <1>1, <2>1, <2>2, <2>4, <2>5, ConsiderNewOnce
<1> QED
  BY <1>2, <1>3

\* A timer fires for a packet that is then pending no more.
LEMMA TimeoutOnce ==
  ASSUME NEW n \in Node, NEW C, NEW m, Good(n, m), Once(n, m, C), NEW p \in DOMAIN m.pending
  PROVE  Once(n, timeout(m, n, p), C)
<1> DEFINE b == m.pending (-) SetToBag({p})
           r == [m EXCEPT !.pending = b]
           lost == [r EXCEPT !.vanished = @ \cup {Key(p)}]
<1>1. m.pending \in BagsOf(Packet) /\ m \in NodeState
  BY DEF Good, NodeState
<1>2. p \in Packet
  BY <1>1, BagMember
<1>3. /\ b \in BagsOf(Packet) /\ DOMAIN b \subseteq DOMAIN m.pending
      /\ \A e \in DOMAIN b \ {p} : b[e] = m.pending[e]
      /\ p \in DOMAIN b => m.pending[p] # 1
  <2>1. b \in BagsOf(Packet)
    BY <1>1, TakeFromBag
  <2> HIDE DEF BagsOf, Packet
  <2> QED
    BY <1>1, <2>1, TakeOne
<1> HIDE DEF b
<1>4. Good(n, r)
  BY <1>3 DEF Good, NodeState
<1>5. /\ r.pending = b /\ r.table = m.table /\ r.evicted = m.evicted /\ r.vanished = m.vanished
      /\ r.pk_count = m.pk_count /\ r.num_recv = m.num_recv /\ r.out = m.out
      /\ r.forwarded = m.forwarded /\ r.counted = m.counted /\ r.twice = m.twice
  BY <1>1 DEF NodeState
<1>6. timeout(m, n, p) = IF p.type # "DATA" THEN r
                         ELSE IF Key(p) \notin DOMAIN m.table THEN lost
                         ELSE IF WorthForwarding(n, p, m.table[Key(p)]) THEN MACsend(r, n, p)
                         ELSE r
  BY DEF timeout, b
<1>7. /\ lost.pending = b /\ lost.table = m.table /\ lost.evicted = m.evicted
      /\ lost.vanished = m.vanished \cup {Key(p)} /\ lost.pk_count = m.pk_count
      /\ lost.num_recv = m.num_recv /\ lost.out = m.out /\ lost.forwarded = m.forwarded
      /\ lost.counted = m.counted /\ lost.twice = m.twice
  BY <1>1 DEF NodeState
<1> HIDE DEF r, lost
<1>8. Waiting(r) \subseteq Waiting(m) /\ Waiting(lost) = Waiting(r)
  BY <1>3, <1>5, <1>7 DEF Waiting
<1>9. WaitsOnce(r)
  <2> SUFFICES ASSUME NEW q \in Waiting(r), Key(q) \notin m.evicted
               PROVE  /\ Key(q) \notin m.forwarded /\ b[q] = 1
                      /\ \A x \in Waiting(r) : Key(x) = Key(q) => x = q
    BY <1>5 DEF WaitsOnce
  <2>1. /\ Key(q) \notin m.forwarded /\ m.pending[q] = 1
        /\ \A x \in Waiting(m) : Key(x) = Key(q) => x = q
    BY <1>8 DEF Once, WaitsOnce
  <2>2. q # p /\ q \in DOMAIN b
    BY <1>3, <1>5, <2>1 DEF Waiting
  <2> QED
    BY <1>3, <1>8, <2>1, <2>2
<1>10. Once(n, r, C)
  <2>1. Remembered(r)
    BY <1>5, <1>8 DEF Once, Remembered
  <2>2. CountedOnce(r)
    BY <1>5 DEF Once, CountedOnce
  <2>3. Numbered(n, r, C)
    BY <1>3, <1>5 DEF Once, Numbered, Issued
  <2> QED
    BY <1>9, <2>1, <2>2, <2>3 DEF Once
<1>11. CASE p.type = "DATA" /\ Key(p) \notin DOMAIN m.table
  <2>1. Key(p) \in m.evicted
    BY <1>11 DEF Once, Remembered, Waiting
  <2>2. Remembered(lost)
    BY <1>5, <1>7, <1>8, <1>10, <2>1 DEF Once, Remembered
  <2>3. WaitsOnce(lost)
    BY <1>5, <1>7, <1>8, <1>9 DEF WaitsOnce
  <2>4. CountedOnce(lost) /\ Numbered(n, lost, C)
    BY <1>5, <1>7, <1>10 DEF Once, CountedOnce, Numbered, Issued
  <2> QED
    BY <1>6, <1>11, <2>2, <2>3, <2>4 DEF Once
<1>12. CASE p.type = "DATA" /\ Key(p) \in DOMAIN m.table
  <2>1. p \in Waiting(m)
    BY <1>12 DEF Waiting
  <2>2. Key(p) \in m.forwarded => Key(p) \in m.evicted
    BY <2>1 DEF Once, WaitsOnce
  <2>3. (\E q \in Waiting(r) : Key(q) = Key(p)) => Key(p) \in m.evicted
    <3> SUFFICES ASSUME NEW q \in Waiting(r), Key(q) = Key(p), Key(p) \notin m.evicted PROVE FALSE
      OBVIOUS
    <3>1. m.pending[p] = 1 /\ q = p
      BY <1>8, <2>1 DEF Once, WaitsOnce
    <3> QED
      BY <1>3, <1>5, <3>1 DEF Waiting
  <2>4. Unsent(r, Key(p))
    BY <1>5, <1>12, <2>2, <2>3 DEF Unsent
  <2>5. Issued(n, r, C, p)
    BY <1>5 DEF Once, Numbered, Issued
  <2>6. Once(n, MACsend(r, n, p), C)
    BY <1>2, <1>4, <1>10, <2>4, <2>5, MACsendOnce
  <2> QED
    BY <1>6, <1>10, <1>12, <2>6
<1>13. CASE p.type # "DATA"
  BY <1>6, <1>10, <1>13
<1> QED
  BY <1>11, <1>12, <1>13

\* The record of n is replaced by m: nobody has used a number that was not issued.
LEMMA BecomesOnce ==
  ASSUME IInv, OnceInv, NEW n \in Node, NEW m, Good(n, m), Once(n, m, Counts), NEW taken,
         Becomes(n, m, taken)
  PROVE  OnceInv'
<1> DEFINE m1 == [m EXCEPT !.out = {}]
<1>1. /\ m1.pending = m.pending /\ m1.table = m.table /\ m1.evicted = m.evicted
      /\ m1.vanished = m.vanished /\ m1.pk_count = m.pk_count /\ m1.num_recv = m.num_recv
      /\ m1.out = {} /\ m1.forwarded = m.forwarded /\ m1.counted = m.counted /\ m1.twice = m.twice
  BY DEF Good, NodeState
<1>2. node' = [node EXCEPT ![n] = m1]
  BY DEF Becomes
<1>3. node \in [Node -> NodeState] /\ \A k \in Node : Good(k, node[k])
  BY DEF IInv, NodesAndAir
<1> HIDE DEF m1
<1>4. node'[n] = m1 /\ \A k \in Node \ {n} : node'[k] = node[k]
  BY <1>2, <1>3
<1>5. \A k \in Node : node[k].pk_count \in Int
  BY <1>3, Bounds DEF NodeState
<1>6. m.pk_count \in Int /\ node[n].pk_count <= m.pk_count
  BY Bounds DEF Once, Numbered, Counts, Good, NodeState
<1>7. /\ \A k \in Node : Counts[k] = node[k].pk_count /\ Counts'[k] = node'[k].pk_count
      /\ Counts'[n] = m.pk_count /\ \A k \in Node \ {n} : Counts'[k] = Counts[k]
  BY <1>1, <1>4 DEF Counts
<1>8. \A k \in Node : Counts[k] \in Int /\ Counts[k] <= Counts'[k]
  BY <1>5, <1>6, <1>7
<1>9. \A p \in m.out \cup DOMAIN m.pending : p \in Packet /\ p.pk_num < Counts'[p.sender]
  <2>1. m.out \cup DOMAIN m.pending \subseteq Packet
    BY BagMember DEF Good, NodeState
  <2>2. \A p \in m.out \cup DOMAIN m.pending : p.sender \in Node /\ Issued(n, m, Counts, p)
    BY <2>1 DEF Packet, Once, Numbered
  <2> QED
    BY <1>7, <2>1, <2>2 DEF Issued
<1>10. Once(n, m1, Counts')
  <2>1. Waiting(m1) = Waiting(m)
    BY <1>1 DEF Waiting
  <2>2. Remembered(m1) /\ WaitsOnce(m1) /\ CountedOnce(m1)
    BY <1>1, <2>1 DEF Once, Remembered, WaitsOnce, CountedOnce
  <2>3. Numbered(n, m1, Counts')
    <3>1. Counts'[n] <= m1.pk_count
      BY <1>1, <1>6, <1>7
    <3>2. \A p \in DOMAIN m1.pending : Issued(n, m1, Counts', p)
      BY <1>1, <1>7, <1>9 DEF Issued
    <3> QED
      BY <1>1, <3>1, <3>2 DEF Once, Numbered
  <2> QED
    BY <2>2, <2>3 DEF Once
<1>11. ASSUME NEW k \in Node \ {n} PROVE Once(k, node[k], Counts')
  <2>1. Once(k, node[k], Counts)
    BY DEF OnceInv
  <2>2. node[k].out \cup DOMAIN node[k].pending \subseteq Packet
    BY <1>3, BagMember DEF NodeState
  <2>3. \A p \in node[k].out \cup DOMAIN node[k].pending : Issued(k, node[k], Counts', p)
    <3> SUFFICES ASSUME NEW p \in node[k].out \cup DOMAIN node[k].pending
                 PROVE  Issued(k, node[k], Counts', p)
      OBVIOUS
    <3>1. p.pk_num \in Int /\ p.sender \in Node
      BY <2>2, Bounds DEF Packet
    <3>2. Issued(k, node[k], Counts, p)
      BY <2>1 DEF Once, Numbered
    <3>3. CASE p.sender = k
      BY <3>2, <3>3 DEF Issued
    <3>4. CASE p.sender # k
      <4>1. p.pk_num < Counts[p.sender]
        BY <3>2, <3>4 DEF Issued
      <4>2. Counts[p.sender] \in Int /\ Counts'[p.sender] \in Int /\ Counts[p.sender] <= Counts'[p.sender]
        BY <1>5, <1>6, <1>7, <1>8, <3>1
      <4>3. p.pk_num < Counts'[p.sender]
        BY <3>1, <4>1, <4>2
      <4> QED
        BY <3>4, <4>3 DEF Issued
    <3> QED
      BY <3>3, <3>4
  <2>4. Counts'[k] <= node[k].pk_count
    BY <1>5, <1>7
  <2>5. Numbered(k, node[k], Counts')
    BY <2>1, <2>3, <2>4 DEF Once, Numbered
  <2> QED
    BY <2>1, <2>5 DEF Once
<1>12. ASSUME NEW c \in DOMAIN air' PROVE c.pkt.pk_num < Counts'[c.pkt.sender]
  <2>1. PICK got \in SUBSET UNION {{[pkt |-> p, to |-> r] : r \in Listeners(n, p)} : p \in m.out} :
          air' = (air (-) SetToBag(taken)) (+) SetToBag(got)
    BY DEF Becomes
  <2>2. DOMAIN air' \subseteq DOMAIN air \cup got
    BY <2>1 DEF (+), (-), SetToBag
  <2>3. CASE c \in DOMAIN air
    <3>1. c.pkt \in Packet
      BY <2>3 DEF IInv, NodesAndAir, GoodCopy
    <3>2. c.pkt.pk_num \in Int /\ c.pkt.sender \in Node
      BY <3>1, Bounds DEF Packet
    <3>3. c.pkt.pk_num < Counts[c.pkt.sender]
      BY <2>3 DEF OnceInv
    <3>4. \A k \in Node : Counts'[k] \in Int
      BY <1>5, <1>6, <1>7
    <3> QED
      BY <1>8, <3>2, <3>3, <3>4
  <2>4. CASE c \in got
    <3>1. c.pkt \in m.out
      BY <2>4
    <3> QED
      BY <1>9, <3>1
  <2> QED
    BY <2>2, <2>3, <2>4
<1>13. \A k \in Node : Once(k, node'[k], Counts')
  BY <1>4, <1>10, <1>11
<1> QED
  BY <1>12, <1>13 DEF OnceInv

\* Every node counts its packets.
LEMMA CountsType == ASSUME IInv PROVE Counts \in [Node -> Nat]
  BY Bounds DEF IInv, NodesAndAir, NodeState, Counts

\* A Tcl command keeps it.
LEMMA DoOnce ==
  ASSUME IInv, OnceInv, NEW n \in Node, NEW command \in Commands, Do(n, command)
  PROVE  OnceInv'
<1> DEFINE m == node[n]
           started == [m EXCEPT !.running = TRUE]
           stopped == [m EXCEPT !.running = FALSE]
<1>1. Good(n, m) /\ Once(n, m, Counts) /\ Counts \in [Node -> Nat]
  BY CountsType DEF IInv, NodesAndAir, OnceInv
<1>2. ASSUME NEW v \in BOOLEAN
      PROVE  Good(n, [m EXCEPT !.running = v]) /\ Once(n, [m EXCEPT !.running = v], Counts)
  <2> DEFINE r == [m EXCEPT !.running = v]
  <2> HIDE DEF m
  <2>1. Good(n, r)
    BY <1>1 DEF Good, NodeState
  <2>2. /\ r.num_recv = m.num_recv /\ r.counted = m.counted /\ r.twice = m.twice
        /\ r.table = m.table /\ r.evicted = m.evicted /\ r.vanished = m.vanished
        /\ r.pending = m.pending /\ r.pk_count = m.pk_count /\ r.out = m.out
        /\ r.forwarded = m.forwarded
    BY <1>1 DEF Good, NodeState
  <2> HIDE DEF r
  <2>3. Once(n, r, Counts)
    BY <1>1, <2>2 DEF Once, Remembered, WaitsOnce, CountedOnce, Numbered, Issued, Waiting
  <2> QED
    BY <2>1, <2>3 DEF r
<1>3. Good(n, started) /\ Once(n, started, Counts) /\ Good(n, stopped) /\ Once(n, stopped, Counts)
  <2> HIDE DEF m
  <2> QED
    BY <1>2
<1>4. Good(n, reset(m)) /\ Once(n, reset(m), Counts)
  BY <1>1, ResetGood, ResetOnce
<1>5. PICK hop \in NextHops[n] :
        \E type \in {"INTEREST", "DATA_READY", "DATA"} :
          \E r \in {Originate(m, n, type, hop), Originate(started, n, "DATA", hop),
                   started, stopped, reset(m)} : Becomes(n, r, {})
  BY DEF Do, Commands
<1> HIDE DEF m, started, stopped
<1>6. ASSUME NEW type \in {"INTEREST", "DATA_READY", "DATA"}
      PROVE  /\ Good(n, Originate(m, n, type, hop)) /\ Once(n, Originate(m, n, type, hop), Counts)
             /\ Good(n, Originate(started, n, "DATA", hop))
             /\ Once(n, Originate(started, n, "DATA", hop), Counts)
  BY <1>1, <1>3, OriginateGood, OriginateOnce
<1> QED
  BY <1>3, <1>4, <1>5, <1>6, BecomesOnce

\* Initially nothing was sent.
LEMMA InitOnce == Init => OnceInv
<1> SUFFICES ASSUME Init PROVE OnceInv
  OBVIOUS
<1>1. DOMAIN air = {}
  BY DEF Init, EmptyBag, SetToBag
<1>2. ASSUME NEW n \in Node PROVE Once(n, node[n], Counts)
  <2>1. node[n] = NewNode(n) /\ Counts[n] = 0
    BY DEF Init, Counts, NewNode
  <2>2. DOMAIN NewNode(n).pending = {}
    BY DEF NewNode, EmptyBag, SetToBag
  <2>3. Waiting(NewNode(n)) = {}
    BY <2>2 DEF Waiting
  <2>4. CountedOnce(NewNode(n))
    BY FS_EmptySet DEF CountedOnce, NewNode
  <2>5. Remembered(NewNode(n)) /\ WaitsOnce(NewNode(n))
    BY <2>3 DEF Remembered, WaitsOnce, NewNode
  <2>6. Numbered(n, NewNode(n), Counts)
    BY <2>1, <2>2 DEF Numbered, NewNode
  <2> QED
    BY <2>1, <2>4, <2>5, <2>6 DEF Once
<1> QED
  BY <1>1, <1>2 DEF OnceInv

\* Every step keeps it: one case for each disjunct of Next.
LEMMA NextOnce == IInv /\ OnceInv /\ [Next]_vars => OnceInv'
<1> SUFFICES ASSUME IInv, OnceInv, [Next]_vars PROVE OnceInv'
  OBVIOUS
<1>1. ASSUME NEW n \in Node, Tcl(n) PROVE OnceInv'
  <2>1. todo[n] \in Seq(Commands) /\ todo[n] # <<>>
    BY <1>1 DEF IInv, Tcl
  <2>2. Head(todo[n]) \in Commands
    BY <2>1, HeadTailProperties
  <2> QED
    BY <1>1, <2>2, DoOnce DEF Tcl
<1>2. ASSUME NEW n \in Node, SinkTimer(n) PROVE OnceInv'
  BY <1>2, DoOnce DEF SinkTimer, Commands
<1>3. ASSUME NEW n \in Node, DelayTimer(n) PROVE OnceInv'
  <2>1. PICK p \in DOMAIN node[n].pending : Becomes(n, timeout(node[n], n, p), {})
    BY <1>3 DEF DelayTimer, BagToSet
  <2>2. Good(n, node[n]) /\ Once(n, node[n], Counts)
    BY DEF IInv, NodesAndAir, OnceInv
  <2>3. Good(n, timeout(node[n], n, p)) /\ Once(n, timeout(node[n], n, p), Counts)
    BY <2>2, TimeoutGood, TimeoutOnce
  <2> QED
    BY <2>1, <2>3, BecomesOnce
<1>4. ASSUME NEW c \in BagToSet(air), Recv(c) PROVE OnceInv'
  <2>1. /\ c.pkt \in Packet /\ c.to \in Node /\ <<c.pkt.forwarder, c.to>> \in Hears
        /\ c.pkt.pk_num < Counts[c.pkt.sender]
    BY DEF IInv, NodesAndAir, OnceInv, GoodCopy, BagToSet
  <2>2. PICK hop \in NextHops[c.to] :
          Becomes(c.to, recv(node[c.to], c.to, c.pkt, hop), {c})
    BY <1>4 DEF Recv
  <2>3. Good(c.to, node[c.to]) /\ Once(c.to, node[c.to], Counts) /\ Counts \in [Node -> Nat]
    BY <2>1, CountsType DEF IInv, NodesAndAir, OnceInv
  <2>4. /\ Good(c.to, recv(node[c.to], c.to, c.pkt, hop))
        /\ Once(c.to, recv(node[c.to], c.to, c.pkt, hop), Counts)
    BY <2>1, <2>3, RecvGood, RecvOnce
  <2> QED
    BY <2>1, <2>2, <2>4, BecomesOnce
<1>5. CASE UNCHANGED vars
  <2>1. node' = node /\ air' = air /\ Counts' = Counts
    BY <1>5 DEF vars, Counts
  <2> QED
    BY <2>1 DEF OnceInv
<1> QED
  BY <1>1, <1>2, <1>3, <1>4, <1>5 DEF Next
----------------------------------------------------------------------------
\* Types, tables and copies stay as they are in every network.
THEOREM Invariance == Spec => []IInv
<1> QED
  BY InitIInv, NextIInv, PTL DEF Spec

\* The packet tables, the timers and every field keep their types in every
\* network: in particular no array of neighbours outgrows MAX_NEIGHBOR.
THEOREM TypeCorrect == Spec => []TypeOK
<1>1. IInv => TypeOK
  <2> SUFFICES ASSUME IInv PROVE TypeOK
    OBVIOUS
  <2>1. ASSUME NEW n \in Node
        PROVE  /\ \A k \in DOMAIN node[n].table :
                    /\ k \in Node \X Nat
                    /\ node[n].table[k] \in Seq(Node) /\ Len(node[n].table[k]) \in 1 .. MAX_NEIGHBOR
               /\ BagToSet(node[n].pending) \subseteq Packet
    BY TableMember, BagMember DEF IInv, NodesAndAir, Good, NodeState, GoodTable, BagToSet, Keys
  <2>2. \A n \in Node : node[n] \in NodeState
    BY DEF IInv, NodesAndAir
  <2>3. \A c \in BagToSet(air) : c.pkt \in Packet /\ c.to \in Node
    BY DEF IInv, NodesAndAir, GoodCopy, BagToSet
  <2> QED
    BY <2>1, <2>2, <2>3 DEF TypeOK, NodeState
<1> QED
  BY <1>1, Invariance, PTL

\* In every network, with every loss and delay, the positions a relay is judged
\* by are those of nodes it can hear, or its own for its own packets.
THEOREM NeighboursCorrect == Spec => []HeardFromNeighbours
<1>1. IInv => HeardFromNeighbours
  <2> SUFFICES ASSUME IInv, NEW n \in Node, NEW k \in DOMAIN node[n].table,
                      NEW f \in ToSet(node[n].table[k])
               PROVE  Told(f, n, k)
    BY DEF HeardFromNeighbours, Told
  <2>1. PICK i \in DOMAIN node[n].table[k] : f = node[n].table[k][i]
    BY DEF ToSet
  <2>2. GoodTable(n, node[n].table)
    BY DEF IInv, NodesAndAir, Good
  <2> QED
    BY <2>1, <2>2 DEF GoodTable
<1> QED
  BY <1>1, Invariance, PTL

\* In every network, through every loss, delay, reset and number of copies: a
\* node forwards or counts a packet again, or finds it gone when its timer
\* fires, only after its window has passed over that packet.
THEOREM OnceCorrect == Spec => []OnceWithinWindow
<1>1. OnceInv => OnceWithinWindow
  <2> SUFFICES ASSUME OnceInv, NEW n \in Node
               PROVE  /\ node[n].twice \cup node[n].vanished \subseteq node[n].evicted
                      /\ CountedOnce(node[n])
    BY DEF OnceWithinWindow, CountedOnce
  <2> QED
    BY DEF OnceInv, Once, Remembered
<1> QED
  BY <1>1, Invariance, InitOnce, NextOnce, PTL DEF Spec
=============================================================================
