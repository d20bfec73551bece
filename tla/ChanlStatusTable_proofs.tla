---------------------- MODULE ChanlStatusTable_proofs ----------------------
(***************************************************************************)
(* Proofs about ChanlStatusTable for any next hops, packets and number of  *)
(* repetitions, and any sequence of the operations.                        *)
(***************************************************************************)
EXTENDS ChanlStatusTable, FiniteSetTheorems, FunctionTheorems, SequenceTheorems,
        WellFoundedInduction, TLAPS

Element == [target : Targets, pkt : Pkts, acked : BOOLEAN, retries : Nat]

Typed == table \in Seq(Element) /\ puts \in [Keys -> Nat] /\ acks \subseteq Keys

\* Of a next hop that find_elem finds, a packet has one element.
OneEach(tb) ==
  \A i, j \in DOMAIN tb : tb[i].target > 0 /\ SameKey(tb[i], tb[j]) => i = j

Counted(tb, t, p, n) == IsFiniteSet(Sent(tb, t, p)) /\ Cardinality(Sent(tb, t, p)) = n

IInv ==
  /\ Typed
  /\ OneEach(table)
  /\ \A t \in Targets, p \in Pkts : Counted(table, t, p, puts[<<t, p>>])
  /\ AckedWasAcknowledged
----------------------------------------------------------------------------
(* Least numbers and the elements of a table *)

\* A non-empty set of naturals has a least element.
LEMMA LeastOf ==
  ASSUME NEW T, T \subseteq Nat, T # {}
  PROVE  \E x \in T : \A y \in T : x <= y
<1> DEFINE R == OpToRel(<, Nat)
<1>1. R = {ss \in Nat \X Nat : ss[1] < ss[2]}
  BY DEF OpToRel
<1>2. IsWellFoundedOn(R, Nat)
  BY NatLessThanWellFounded
<1> HIDE DEF R
<1>3. PICK x \in T : \A y \in T : ~(<<y, x>> \in R)
  BY <1>2, WFMin
<1>4. \A y \in T : x <= y
  <2> SUFFICES ASSUME NEW y \in T, y < x PROVE FALSE
    OBVIOUS
  <2>1. <<y, x>> \in Nat \X Nat
    OBVIOUS
  <2>2. <<y, x>> \in R
    BY <1>1, <2>1
  <2> QED
    BY <1>3, <2>2
<1> QED
  BY <1>4

\* The elements of a table, one by one.
LEMMA TableFacts ==
  ASSUME NEW tb \in Seq(Element)
  PROVE  /\ Len(tb) \in Nat /\ DOMAIN tb = 1 .. Len(tb)
         /\ \A i \in DOMAIN tb :
              /\ tb[i] \in Element
              /\ tb[i].target \in Targets /\ tb[i].target \in Nat
              /\ tb[i].pkt \in Pkts /\ tb[i].pkt \in Nat
              /\ tb[i].retries \in Nat /\ tb[i].acked \in BOOLEAN
<1>1. Len(tb) \in Nat /\ DOMAIN tb = 1 .. Len(tb)
  BY LenProperties
<1>2. \A i \in DOMAIN tb : tb[i] \in Element
  BY <1>1, ElementOfSeq
<1> QED
  BY <1>1, <1>2, TableAssumption DEF Element

\* find_elem returns an element with that key, or none.
LEMMA FindElemFacts ==
  ASSUME NEW S, NEW tb \in Seq(S), NEW e
  PROVE  \/ Matches(tb, e) = {} /\ find_elem(tb, e) = Elem(-1, -1)
         \/ /\ Min(Matches(tb, e)) \in Matches(tb, e)
            /\ find_elem(tb, e) = tb[Min(Matches(tb, e))]
<1> DEFINE M == Matches(tb, e)
<1>1. CASE M = {}
  BY <1>1 DEF find_elem
<1>2. CASE M # {}
  <2>1. M \subseteq Nat
    BY DEF Matches
  <2>2. Min(M) \in M
    <3>1. \E x \in M : \A y \in M : x <= y
      <4> HIDE DEF M
      <4> QED
        BY <1>2, <2>1, LeastOf
    <3> QED
      BY <3>1 DEF Min
  <2> QED
    BY <1>2, <2>2 DEF find_elem
<1> QED
  BY <1>1, <1>2

\* What was sent to t of p is a set of pairs of an element and a retry.
LEMMA SentFacts ==
  ASSUME NEW tb, NEW t, NEW p
  PROVE  \A x : x \in Sent(tb, t, p) <=>
           \E i \in DOMAIN tb, r \in Nat :
             x = <<i, r>> /\ tb[i].target = t /\ tb[i].pkt = p /\ r \in 0 .. tb[i].retries
<1>1. Sent(tb, t, p) = UNION {{i} \X (0 .. tb[i].retries) : i \in Matches(tb, Elem(t, p))}
  BY DEF Sent
<1>2. \A i : i \in Matches(tb, Elem(t, p)) <=>
               i \in DOMAIN tb /\ tb[i].target = t /\ tb[i].pkt = p
  BY DEF Matches, SameKey, Elem
<1> SUFFICES ASSUME NEW x
             PROVE  x \in Sent(tb, t, p) <=>
           \E i \in DOMAIN tb, r \in Nat :
             x = <<i, r>> /\ tb[i].target = t /\ tb[i].pkt = p /\ r \in 0 .. tb[i].retries
  OBVIOUS
<1>3. ASSUME x \in Sent(tb, t, p)
      PROVE  \E i \in DOMAIN tb, r \in Nat :
               x = <<i, r>> /\ tb[i].target = t /\ tb[i].pkt = p /\ r \in 0 .. tb[i].retries
  <2>1. PICK i \in Matches(tb, Elem(t, p)) : x \in {i} \X (0 .. tb[i].retries)
    BY <1>1, <1>3
  <2>2. x = <<i, x[2]>> /\ x[2] \in 0 .. tb[i].retries /\ x[2] \in Nat
    BY <2>1
  <2> QED
    BY <1>2, <2>1, <2>2
<1>4. ASSUME NEW i \in DOMAIN tb, NEW r \in Nat, x = <<i, r>>,
             tb[i].target = t, tb[i].pkt = p, r \in 0 .. tb[i].retries
      PROVE  x \in Sent(tb, t, p)
  BY <1>1, <1>2, <1>4
<1> QED
  BY <1>3, <1>4
----------------------------------------------------------------------------
(* Putting and acknowledging *)

\* A new element has no retries and no mark.
LEMMA ElemFacts ==
  \A t \in Targets, p \in Pkts :
    /\ Elem(t, p) \in Element
    /\ Elem(t, p) = [target |-> t, pkt |-> p, acked |-> FALSE, retries |-> 0]
  BY DEF Elem, Element

\* A new element: one transmission more to t of p.
LEMMA AppendSent ==
  ASSUME NEW tb \in Seq(Element), NEW t \in Targets, NEW p \in Pkts,
         NEW u \in Targets, NEW q \in Pkts
  PROVE  Sent(Append(tb, Elem(t, p)), u, q) =
           Sent(tb, u, q) \cup (IF u = t /\ q = p THEN {<<Len(tb) + 1, 0>>} ELSE {})
<1> DEFINE new == Append(tb, Elem(t, p))
           more == IF u = t /\ q = p THEN {<<Len(tb) + 1, 0>>} ELSE {}
           n == Len(tb)
<1>1. /\ n \in Nat /\ DOMAIN tb = 1 .. n /\ DOMAIN new = 1 .. n + 1
      /\ new[n + 1] = Elem(t, p) /\ \A i \in 1 .. n : new[i] = tb[i]
  BY ElemFacts
<1>2. Elem(t, p).target = t /\ Elem(t, p).pkt = p /\ Elem(t, p).retries = 0
  BY DEF Elem
<1> HIDE DEF new, n
<1> SUFFICES ASSUME NEW x PROVE x \in Sent(new, u, q) <=> x \in Sent(tb, u, q) \cup more
  BY DEF new, n
<1>3. ASSUME x \in Sent(new, u, q) PROVE x \in Sent(tb, u, q) \cup more
  <2>1. PICK i \in DOMAIN new, r \in Nat :
          x = <<i, r>> /\ new[i].target = u /\ new[i].pkt = q /\ r \in 0 .. new[i].retries
    BY <1>3, SentFacts
  <2>2. CASE i = n + 1
    BY <1>1, <1>2, <2>1, <2>2 DEF n
  <2>3. CASE i \in 1 .. n
    <3>1. x \in Sent(tb, u, q)
      BY <1>1, <2>1, <2>3, SentFacts
    <3> QED
      BY <3>1
  <2> QED
    BY <1>1, <2>2, <2>3
<1>4. ASSUME x \in Sent(tb, u, q) PROVE x \in Sent(new, u, q)
  <2>1. PICK i \in DOMAIN tb, r \in Nat :
          x = <<i, r>> /\ tb[i].target = u /\ tb[i].pkt = q /\ r \in 0 .. tb[i].retries
    BY <1>4, SentFacts
  <2>2. i \in DOMAIN new /\ new[i] = tb[i]
    BY <1>1
  <2> QED
    BY <2>1, <2>2, SentFacts
<1>5. ASSUME x \in more PROVE x \in Sent(new, u, q)
  <2>1. u = t /\ q = p /\ x = <<n + 1, 0>>
    BY <1>5 DEF n
  <2>2. n + 1 \in DOMAIN new /\ new[n + 1].target = u /\ new[n + 1].pkt = q
        /\ 0 \in 0 .. new[n + 1].retries
    BY <1>1, <1>2, <2>1
  <2> QED
    BY <2>1, <2>2, SentFacts
<1> QED
  BY <1>3, <1>4, <1>5

\* Whatever is written to an element but its key and count changes no transmission.
LEMMA SameSent ==
  ASSUME NEW tb, NEW new, DOMAIN new = DOMAIN tb,
         \A i \in DOMAIN tb : /\ new[i].target = tb[i].target /\ new[i].pkt = tb[i].pkt
                              /\ new[i].retries = tb[i].retries,
         NEW u, NEW q
  PROVE  Sent(new, u, q) = Sent(tb, u, q)
<1> SUFFICES ASSUME NEW x PROVE x \in Sent(new, u, q) <=> x \in Sent(tb, u, q)
  OBVIOUS
<1>1. x \in Sent(new, u, q) <=>
        \E i \in DOMAIN new, r \in Nat :
          x = <<i, r>> /\ new[i].target = u /\ new[i].pkt = q /\ r \in 0 .. new[i].retries
  BY SentFacts
<1>2. x \in Sent(tb, u, q) <=>
        \E i \in DOMAIN tb, r \in Nat :
          x = <<i, r>> /\ tb[i].target = u /\ tb[i].pkt = q /\ r \in 0 .. tb[i].retries
  BY SentFacts
<1> QED
  BY <1>1, <1>2

\* One retry more of the element at k.
LEMMA RetrySent ==
  ASSUME NEW tb \in Seq(Element), NEW k \in DOMAIN tb, NEW new \in Seq(Element),
         DOMAIN new = DOMAIN tb,
         \A i \in DOMAIN tb :
           /\ new[i].target = tb[i].target /\ new[i].pkt = tb[i].pkt
           /\ new[i].retries = IF i = k THEN tb[i].retries + 1 ELSE tb[i].retries,
         NEW u \in Targets, NEW q \in Pkts
  PROVE  Sent(new, u, q) =
           Sent(tb, u, q) \cup (IF u = tb[k].target /\ q = tb[k].pkt
                                  THEN {<<k, tb[k].retries + 1>>} ELSE {})
<1> DEFINE more == IF u = tb[k].target /\ q = tb[k].pkt THEN {<<k, tb[k].retries + 1>>} ELSE {}
<1>1. \A i \in DOMAIN tb : tb[i].retries \in Nat
  BY TableFacts
<1> SUFFICES ASSUME NEW x PROVE x \in Sent(new, u, q) <=> x \in Sent(tb, u, q) \cup more
  OBVIOUS
<1>2. ASSUME x \in Sent(new, u, q) PROVE x \in Sent(tb, u, q) \cup more
  <2>1. PICK i \in DOMAIN new, r \in Nat :
          x = <<i, r>> /\ new[i].target = u /\ new[i].pkt = q /\ r \in 0 .. new[i].retries
    BY <1>2, SentFacts
  <2>2. CASE i = k /\ r = tb[k].retries + 1
    BY <2>1, <2>2
  <2>3. CASE ~(i = k /\ r = tb[k].retries + 1)
    <3>1. r \in 0 .. tb[i].retries /\ i \in DOMAIN tb /\ tb[i].target = u /\ tb[i].pkt = q
      BY <1>1, <2>1, <2>3
    <3>2. x \in Sent(tb, u, q)
      BY <2>1, <3>1, SentFacts
    <3> QED
      BY <3>2
  <2> QED
    BY <2>2, <2>3
<1>3. ASSUME x \in Sent(tb, u, q) PROVE x \in Sent(new, u, q)
  <2>1. PICK i \in DOMAIN tb, r \in Nat :
          x = <<i, r>> /\ tb[i].target = u /\ tb[i].pkt = q /\ r \in 0 .. tb[i].retries
    BY <1>3, SentFacts
  <2>2. i \in DOMAIN new /\ r \in 0 .. new[i].retries /\ new[i].target = u /\ new[i].pkt = q
    BY <1>1, <2>1
  <2> QED
    BY <2>1, <2>2, SentFacts
<1>4. ASSUME x \in more PROVE x \in Sent(new, u, q)
  <2>1. u = tb[k].target /\ q = tb[k].pkt /\ x = <<k, tb[k].retries + 1>>
    BY <1>4
  <2>2. k \in DOMAIN new /\ tb[k].retries + 1 \in Nat /\ tb[k].retries + 1 \in 0 .. new[k].retries
        /\ new[k].target = u /\ new[k].pkt = q
    BY <1>1, <2>1
  <2> QED
    BY <2>1, <2>2, SentFacts
<1> QED
  BY <1>2, <1>3, <1>4
----------------------------------------------------------------------------
(* Deleting *)

\* The loop erases something definite, and only what matches.
LEMMA ErasedFacts ==
  ASSUME NEW tb \in Seq(Element), NEW e
  PROVE  /\ Erased(tb, e) \subseteq Matches(tb, e)
         /\ Erased(tb, e) = {i \in Matches(tb, e) : i - 1 \notin Erased(tb, e)}
<1> DEFINE M == Matches(tb, e)
           upTo(n) == {i \in M : i <= n}
           Fits(E, n) == E \subseteq upTo(n) /\ E = {i \in upTo(n) : i - 1 \notin E}
           Bad == {n \in Nat : ~ \E E \in SUBSET M : Fits(E, n)}
<1>1. M \subseteq Nat \ {0} /\ M \subseteq 1 .. Len(tb) /\ Len(tb) \in Nat
  BY TableFacts DEF Matches
<1>2. Fits({}, 0)
  BY <1>1
<1>3. ASSUME NEW n \in Nat, NEW E \in SUBSET M, Fits(E, n)
      PROVE  \E F \in SUBSET M : Fits(F, n + 1)
  <2>1. CASE n + 1 \in M /\ n \notin E
    <3> DEFINE G == E \cup {n + 1}
    <3>1. G \in SUBSET M
      BY <2>1
    <3>2. upTo(n + 1) = upTo(n) \cup {n + 1}
      BY <1>1, <2>1
    <3>3. \A i \in upTo(n) : i - 1 # n + 1
      BY <1>1
    <3>4. E \subseteq upTo(n) /\ E = {i \in upTo(n) : i - 1 \notin E}
      BY <1>3
    <3>5. n + 1 \notin upTo(n)
      OBVIOUS
    <3> HIDE DEF upTo, M
    <3>6. G \subseteq upTo(n + 1)
      BY <3>2, <3>4
    <3>7. G = {i \in upTo(n + 1) : i - 1 \notin G}
      <4>1. (n + 1) - 1 = n /\ n # n + 1
        OBVIOUS
      <4>2. n \notin G
        BY <2>1, <4>1
      <4>3. \A i \in upTo(n) : i - 1 \notin G <=> i - 1 \notin E
        BY <3>3
      <4>4. \A i : i \in G <=> (i \in upTo(n) /\ i - 1 \notin E) \/ i = n + 1
        BY <3>4
      <4> HIDE DEF G
      <4> QED
        BY <3>2, <4>1, <4>2, <4>3, <4>4
    <3>8. Fits(G, n + 1)
      BY <3>6, <3>7
    <3> HIDE DEF G, Fits
    <3> QED
      BY <3>1, <3>8
  <2>2. CASE ~(n + 1 \in M /\ n \notin E)
    <3>1. E \subseteq upTo(n + 1)
      BY <1>1, <1>3
    <3>2. \A i \in upTo(n + 1) : i \in upTo(n) \/ (i = n + 1 /\ i - 1 = n /\ n \in E)
      BY <1>1, <2>2
    <3>3. \A i \in E : i \in upTo(n) /\ i - 1 \notin E
      BY <1>3
    <3>4. \A i \in upTo(n) : i - 1 \notin E => i \in E
      BY <1>3
    <3> HIDE DEF upTo, M
    <3>5. E = {i \in upTo(n + 1) : i - 1 \notin E}
      BY <3>1, <3>2, <3>3, <3>4
    <3>6. Fits(E, n + 1)
      BY <3>1, <3>5
    <3> HIDE DEF Fits
    <3> QED
      BY <3>6
  <2> QED
    BY <2>1, <2>2
<1>4. Bad = {}
  <2> SUFFICES ASSUME Bad # {} PROVE FALSE
    OBVIOUS
  <2>1. Bad \subseteq Nat
    OBVIOUS
  <2>2. PICK x \in Bad : \A y \in Bad : x <= y
    <3> HIDE DEF Bad
    <3> QED
      BY <2>1, LeastOf
  <2>3. x # 0
    <3>1. {} \in SUBSET M
      OBVIOUS
    <3> HIDE DEF Fits, M
    <3> QED
      BY <1>2, <3>1
  <2>4. x - 1 \in Nat /\ (x - 1) + 1 = x
    BY <2>1, <2>3
  <2>5. x - 1 \notin Bad
    <3> HIDE DEF Bad
    <3> QED
      BY <2>1, <2>2, <2>4
  <2> HIDE DEF Fits, M
  <2>6. PICK E \in SUBSET M : Fits(E, x - 1)
    BY <2>4, <2>5
  <2>7. \E F \in SUBSET M : Fits(F, (x - 1) + 1)
    BY <1>3, <2>4, <2>6
  <2> QED
    BY <2>4, <2>7
<1>5. PICK E \in SUBSET M : Fits(E, Len(tb))
  BY <1>1, <1>4
<1>6. upTo(Len(tb)) = M
  BY <1>1
<1> DEFINE Fine(F) == F = {i \in M : i - 1 \notin F}
<1>7. Fine(E)
  <2> HIDE DEF upTo, M
  <2> QED
    BY <1>5, <1>6
<1>8. Erased(tb, e) = CHOOSE F \in SUBSET M : Fine(F)
  BY DEF Erased
<1>9. Erased(tb, e) \in SUBSET M /\ Fine(Erased(tb, e))
  <2> HIDE DEF M, Fine
  <2>1. \E F \in SUBSET M : Fine(F)
    BY <1>7
  <2> QED
    BY <1>8, <2>1
<1> QED
  BY <1>9

\* The places that are kept, in their order: place[k] is the k-th of them.
LEMMA KeepFacts ==
  ASSUME NEW tb \in Seq(Element), NEW I, I \subseteq DOMAIN tb
  PROVE  /\ Keep(tb, I) \in Seq(Element)
         /\ \E place \in [DOMAIN Keep(tb, I) -> I] :
              /\ \A k \in DOMAIN Keep(tb, I) : Keep(tb, I)[k] = tb[place[k]]
              /\ \A j, k \in DOMAIN Keep(tb, I) : place[j] = place[k] => j = k
              /\ \A i \in I : \E k \in DOMAIN Keep(tb, I) : place[k] = i
<1> DEFINE upTo(j) == {k \in I : k <= j}
           rank == [j \in I |-> Cardinality(upTo(j))]
           c == Cardinality(I)
           at(k) == CHOOSE j \in I : Cardinality(upTo(j)) = k
           place == [k \in 1 .. c |-> at(k)]
           new == Keep(tb, I)
<1>1. DOMAIN tb = 1 .. Len(tb) /\ Len(tb) \in Nat /\ I \subseteq Nat
  BY TableFacts
<1>2. IsFiniteSet(I) /\ c \in Nat
  <2>1. IsFiniteSet(1 .. Len(tb))
    BY <1>1, FS_Interval
  <2> QED
    BY <1>1, <2>1, FS_Subset, FS_CardinalityType
<1>3. \A j \in I : IsFiniteSet(upTo(j)) /\ upTo(j) \subseteq I /\ rank[j] \in 1 .. c
  <2> SUFFICES ASSUME NEW j \in I
               PROVE  IsFiniteSet(upTo(j)) /\ upTo(j) \subseteq I /\ rank[j] \in 1 .. c
    OBVIOUS
  <2> DEFINE U == upTo(j)
  <2>1. U \subseteq I /\ j \in U /\ rank[j] = Cardinality(U)
    BY <1>1
  <2> HIDE DEF U, rank
  <2>2. IsFiniteSet(U) /\ Cardinality(U) <= c /\ Cardinality(U) \in Nat
    BY <1>2, <2>1, FS_Subset, FS_CardinalityType
  <2>3. Cardinality(U) # 0
    BY <2>1, <2>2, FS_EmptySet
  <2> QED
    BY <1>2, <2>1, <2>2, <2>3 DEF U
<1>4. \A i, j \in I : i < j => rank[i] < rank[j]
  <2> SUFFICES ASSUME NEW i \in I, NEW j \in I, i < j PROVE rank[i] < rank[j]
    OBVIOUS
  <2> DEFINE U == upTo(i)
             V == upTo(j)
  <2>1. U \subseteq V /\ j \in V /\ j \notin U /\ rank[i] = Cardinality(U) /\ rank[j] = Cardinality(V)
    BY <1>1
  <2>2. IsFiniteSet(V) /\ IsFiniteSet(U)
    BY <1>3
  <2> HIDE DEF U, V, rank
  <2>3. Cardinality(U) <= Cardinality(V) /\ Cardinality(U) \in Nat /\ Cardinality(V) \in Nat
        /\ (Cardinality(U) = Cardinality(V) => U = V)
    BY <2>1, <2>2, FS_Subset, FS_CardinalityType
  <2> QED
    BY <2>1, <2>3
<1>5. rank \in [I -> 1 .. c]
  BY <1>3
<1>6. \A i, j \in I : rank[i] = rank[j] => i = j
  <2> HIDE DEF rank, upTo
  <2> QED
    BY <1>1, <1>4, <1>5
<1>7. \A i \in 1 .. c : \E j \in I : rank[j] = i
  <2> HIDE DEF rank, upTo
  <2>1. IsFiniteSet(1 .. c) /\ Cardinality(1 .. c) = c
    BY <1>2, FS_Interval
  <2>2. rank \in Injection(I, 1 .. c)
    BY <1>5, <1>6 DEF Injection, IsInjective
  <2>3. rank \in Surjection(I, 1 .. c)
    BY <1>2, <2>1, <2>2, FS_Injection
  <2> QED
    BY <2>3 DEF Surjection
<1>8. \A k \in 1 .. c : place[k] \in I /\ rank[place[k]] = k
  <2> SUFFICES ASSUME NEW k \in 1 .. c PROVE at(k) \in I /\ rank[at(k)] = k
    OBVIOUS
  <2>1. \E j \in I : Cardinality(upTo(j)) = k
    BY <1>7
  <2>2. at(k) \in I /\ Cardinality(upTo(at(k))) = k
    <3> HIDE DEF upTo
    <3> QED
      BY <2>1
  <2> HIDE DEF at
  <2> QED
    BY <2>2
<1>9. new = [k \in 1 .. c |-> tb[place[k]]]
  <2>1. new = [k \in 1 .. c |-> tb[at(k)]]
    BY DEF Keep
  <2> HIDE DEF at, c, new
  <2> QED
    BY <2>1
<1> HIDE DEF rank, upTo, place, new
<1>10. place \in [1 .. c -> I]
  BY <1>8 DEF place
<1>11. new \in [1 .. c -> Element]
  BY <1>1, <1>9, <1>10, TableFacts
<1>12. DOMAIN new = 1 .. c /\ new \in Seq(Element)
  BY <1>2, <1>11, SeqDef
<1>13. \A i \in I : rank[i] \in 1 .. c /\ place[rank[i]] = i
  BY <1>5, <1>6, <1>8
<1>14. \A j, k \in 1 .. c : place[j] = place[k] => j = k
  BY <1>8
<1>15. \A k \in 1 .. c : new[k] = tb[place[k]]
  BY <1>9
<1> HIDE DEF c
<1>16. \E f \in [DOMAIN new -> I] :
              /\ \A k \in DOMAIN new : new[k] = tb[f[k]]
              /\ \A j, k \in DOMAIN new : f[j] = f[k] => j = k
              /\ \A i \in I : \E k \in DOMAIN new : f[k] = i
  <2>1. place \in [DOMAIN new -> I] /\ \A k \in DOMAIN new : new[k] = tb[place[k]]
    BY <1>10, <1>12, <1>15
  <2>2. \A j, k \in DOMAIN new : place[j] = place[k] => j = k
    BY <1>12, <1>14
  <2>3. \A i \in I : \E k \in DOMAIN new : place[k] = i
    BY <1>12, <1>13
  <2> QED
    BY <2>1, <2>2, <2>3
<1> QED
  BY <1>12, <1>16 DEF new

\* The elements of new are some of those of tb, each once, among them all that do
\* not match: place says where they stood.
Moved(tb, e, new, place) ==
  /\ place \in [DOMAIN new -> DOMAIN tb \ Erased(tb, e)]
  /\ \A k \in DOMAIN new : new[k] = tb[place[k]]
  /\ \A j, k \in DOMAIN new : place[j] = place[k] => j = k
  /\ \A i \in DOMAIN tb \ Matches(tb, e) : \E k \in DOMAIN new : place[k] = i

\* What delete_elems leaves are old elements, in their old order.
LEMMA DeleteFacts ==
  ASSUME NEW tb \in Seq(Element), NEW e
  PROVE  /\ delete_elems(tb, e) \in Seq(Element)
         /\ \E place : Moved(tb, e, delete_elems(tb, e), place)
<1> DEFINE I == DOMAIN tb \ Erased(tb, e)
           new == delete_elems(tb, e)
<1>1. I \subseteq DOMAIN tb /\ new = Keep(tb, I)
  BY DEF delete_elems
<1>2. \A i \in DOMAIN tb \ Matches(tb, e) : i \in I
  BY ErasedFacts
<1> HIDE DEF I, new
<1>3. PICK place \in [DOMAIN new -> I] :
              /\ \A k \in DOMAIN new : new[k] = tb[place[k]]
              /\ \A j, k \in DOMAIN new : place[j] = place[k] => j = k
              /\ \A i \in I : \E k \in DOMAIN new : place[k] = i
  BY <1>1, KeepFacts
<1>4. new \in Seq(Element)
  BY <1>1, KeepFacts
<1>5. \A i \in DOMAIN tb \ Matches(tb, e) : \E k \in DOMAIN new : place[k] = i
  BY <1>2, <1>3
<1>6. Moved(tb, e, new, place)
  BY <1>3, <1>5 DEF Moved, I
<1> QED
  BY <1>4, <1>6 DEF new

\* The transmissions of a key of which every element is kept: as many as before.
\* Of any key: not more.
LEMMA DeleteCounts ==
  ASSUME NEW tb \in Seq(Element), NEW t \in Targets, NEW p \in Pkts,
         NEW u \in Targets, NEW q \in Pkts, IsFiniteSet(Sent(tb, u, q))
  PROVE  LET new == delete_elems(tb, Elem(t, p))
         IN  /\ IsFiniteSet(Sent(new, u, q))
             /\ <<u, q>> # <<t, p>> =>
                  Cardinality(Sent(new, u, q)) = Cardinality(Sent(tb, u, q))
<1> DEFINE e == Elem(t, p)
           new == delete_elems(tb, e)
           M == Matches(tb, e)
           A == Sent(new, u, q)
           B == Sent(tb, u, q)
<1>1. new \in Seq(Element) /\ \E place : Moved(tb, e, new, place)
  <2> HIDE DEF e
  <2> QED
    BY DeleteFacts
<1> HIDE DEF new, M
<1>2. PICK place \in [DOMAIN new -> DOMAIN tb] :
              /\ \A k \in DOMAIN new : new[k] = tb[place[k]]
              /\ \A j, k \in DOMAIN new : place[j] = place[k] => j = k
              /\ \A i \in DOMAIN tb \ M : \E k \in DOMAIN new : place[k] = i
  <2>1. PICK place : Moved(tb, e, new, place)
    BY <1>1
  <2>2. place \in [DOMAIN new -> DOMAIN tb]
    BY <2>1 DEF Moved
  <2> HIDE DEF e
  <2> QED
    BY <2>1, <2>2 DEF Moved, M
<1> DEFINE f == [x \in A |-> <<place[x[1]], x[2]>>]
<1>3. <<u, q>> # <<t, p>> => \A i \in M : ~(tb[i].target = u /\ tb[i].pkt = q)
  BY DEF M, Matches, SameKey, Elem
<1>4. \A x \in A : /\ x = <<x[1], x[2]>> /\ x[1] \in DOMAIN new
                   /\ <<place[x[1]], x[2]>> \in B
  <2> SUFFICES ASSUME NEW x \in A
               PROVE  x = <<x[1], x[2]>> /\ x[1] \in DOMAIN new /\ <<place[x[1]], x[2]>> \in B
    OBVIOUS
  <2>1. PICK k \in DOMAIN new, r \in Nat :
          x = <<k, r>> /\ new[k].target = u /\ new[k].pkt = q /\ r \in 0 .. new[k].retries
    BY SentFacts
  <2>2. x[1] = k /\ x[2] = r
    BY <2>1
  <2>3. place[k] \in DOMAIN tb /\ new[k] = tb[place[k]]
    BY <1>2
  <2>4. <<place[k], r>> \in B
    BY <2>1, <2>3, SentFacts
  <2> QED
    BY <2>1, <2>2, <2>4
<1>5. <<u, q>> # <<t, p>> => \A y \in B : \E x \in A : <<place[x[1]], x[2]>> = y
  <2> SUFFICES ASSUME <<u, q>> # <<t, p>>, NEW y \in B
               PROVE  \E x \in A : <<place[x[1]], x[2]>> = y
    OBVIOUS
  <2>1. PICK i \in DOMAIN tb, r \in Nat :
          y = <<i, r>> /\ tb[i].target = u /\ tb[i].pkt = q /\ r \in 0 .. tb[i].retries
    BY SentFacts
  <2>2. i \notin M
    BY <1>3, <2>1
  <2>3. PICK k \in DOMAIN new : place[k] = i
    BY <1>2, <2>2
  <2>4. new[k] = tb[i]
    BY <1>2, <2>3
  <2>5. <<k, r>> \in A
    BY <2>1, <2>4, SentFacts
  <2>6. <<k, r>>[1] = k /\ <<k, r>>[2] = r
    OBVIOUS
  <2> QED
    BY <2>1, <2>3, <2>5, <2>6
<1> HIDE DEF A, B
<1>6. f \in [A -> B]
  BY <1>4
<1>7. \A x, y \in A : f[x] = f[y] => x = y
  <2> SUFFICES ASSUME NEW x \in A, NEW y \in A, f[x] = f[y] PROVE x = y
    OBVIOUS
  <2>1. place[x[1]] = place[y[1]] /\ x[2] = y[2]
    OBVIOUS
  <2>2. x[1] = y[1]
    BY <1>2, <1>4, <2>1
  <2> QED
    BY <1>4, <2>1, <2>2
<1>8. <<u, q>> # <<t, p>> => \A y \in B : \E x \in A : f[x] = y
  BY <1>5
<1> HIDE DEF f
<1>9. f \in Injection(A, B)
  BY <1>6, <1>7 DEF Injection, IsInjective
<1>10. <<u, q>> # <<t, p>> => f \in Surjection(A, B)
  BY <1>6, <1>8 DEF Surjection
<1>11. IsFiniteSet(B)
  BY DEF B
<1>12. IsFiniteSet(A) /\ (<<u, q>> # <<t, p>> => Cardinality(A) = Cardinality(B))
  BY <1>9, <1>10, <1>11, FS_Injection
<1> QED
  BY <1>12 DEF A, B, new

\* Of a next hop with a positive id nothing is left.
LEMMA DeleteAll ==
  ASSUME NEW tb \in Seq(Element), NEW t \in Targets, NEW p \in Pkts, OneEach(tb), t > 0
  PROVE  Sent(delete_elems(tb, Elem(t, p)), t, p) = {}
<1> DEFINE e == Elem(t, p)
           new == delete_elems(tb, e)
           M == Matches(tb, e)
<1>1. \A i : i \in M <=> i \in DOMAIN tb /\ tb[i].target = t /\ tb[i].pkt = p
  BY DEF Matches, SameKey, Elem
<1>2. \A i, j \in M : i = j
  BY <1>1 DEF OneEach, SameKey
<1>3. M \subseteq Nat
  BY <1>1, TableFacts
<1>4. Erased(tb, e) = M
  <2>1. Erased(tb, e) \subseteq M /\ Erased(tb, e) = {i \in M : i - 1 \notin Erased(tb, e)}
    BY ErasedFacts
  <2> HIDE DEF M, e
  <2>2. \A i \in M : i - 1 \notin M
    BY <1>2, <1>3
  <2> QED
    BY <2>1, <2>2
<1> HIDE DEF M, e
<1>5. PICK place : Moved(tb, e, new, place)
  BY DeleteFacts
<1>6. \A k \in DOMAIN new : ~(new[k].target = t /\ new[k].pkt = p)
  <2>1. \A k \in DOMAIN new : place[k] \in DOMAIN tb \ M /\ new[k] = tb[place[k]]
    BY <1>4, <1>5 DEF Moved
  <2> QED
    BY <1>1, <2>1
<1> HIDE DEF new
<1>7. \A x : x \notin Sent(new, t, p)
  BY <1>6, SentFacts
<1>8. Sent(new, t, p) = {}
  BY <1>7
<1> QED
  BY <1>8 DEF new, e
----------------------------------------------------------------------------
(* The statistics *)

\* The recent elements to t among the first k.
ToUp(tb, recent, t, k) == {i \in recent : tb[i].target = t /\ i <= k}

\* What the map holds after k elements.
Right(tb, recent, stat, k) ==
  /\ stat \in [{u \in Targets : ToUp(tb, recent, u, k) # {}} -> [retries : Nat, success : BOOLEAN]]
  /\ \A t \in DOMAIN stat :
       /\ IsFiniteSet(Retries(tb, ToUp(tb, recent, t, k)))
       /\ stat[t].retries = Cardinality(Retries(tb, ToUp(tb, recent, t, k)))
       /\ stat[t].success <=> \E i \in ToUp(tb, recent, t, k) : tb[i].acked

StepOf(tb, recent, stat, k) == IF k \in recent THEN Count(stat, tb[k]) ELSE stat

\* The retries of one more element.
LEMMA RetriesOfMore ==
  ASSUME NEW tb \in Seq(Element), NEW I, I \subseteq DOMAIN tb, NEW k \in DOMAIN tb, k \notin I,
         IsFiniteSet(Retries(tb, I))
  PROVE  /\ IsFiniteSet(Retries(tb, I \cup {k}))
         /\ Cardinality(Retries(tb, I \cup {k})) = Cardinality(Retries(tb, I)) + tb[k].retries
<1> DEFINE A == Retries(tb, I)
           n == tb[k].retries
           B == {k} \X (1 .. n)
<1>1. n \in Nat
  BY TableFacts
<1>2. IsFiniteSet(B) /\ Cardinality(B) = n
  <2> HIDE DEF n
  <2>1. IsFiniteSet(1 .. n) /\ Cardinality(1 .. n) = n
    BY <1>1, FS_Interval
  <2>2. IsFiniteSet({k}) /\ Cardinality({k}) = 1
    BY FS_Singleton
  <2>3. IsFiniteSet({k} \X (1 .. n)) /\ Cardinality({k} \X (1 .. n)) = 1 * n
    <3> DEFINE K == {k}
               N == 1 .. n
    <3>1. IsFiniteSet(K) /\ IsFiniteSet(N) /\ Cardinality(K) = 1 /\ Cardinality(N) = n
      BY <2>1, <2>2
    <3> HIDE DEF K, N
    <3>2. IsFiniteSet(K \X N) /\ Cardinality(K \X N) = Cardinality(K) * Cardinality(N)
      BY <3>1, FS_Product
    <3> QED
      BY <3>1, <3>2 DEF K, N
  <2>4. 1 * n = n
    BY <1>1
  <2> QED
    BY <2>3, <2>4
<1>3. Retries(tb, I \cup {k}) = A \cup B
  BY DEF Retries
<1>4. A \cap B = {}
  BY DEF Retries
<1> HIDE DEF A, B, n
<1>5. IsFiniteSet(A) /\ Cardinality(A) \in Nat
  BY FS_CardinalityType DEF A
<1>6. IsFiniteSet(A \cup B) /\ Cardinality(A \cup B) = Cardinality(A) + Cardinality(B) - Cardinality({})
  BY <1>2, <1>4, <1>5, FS_Union
<1>7. IsFiniteSet(A \cup B) /\ Cardinality(A \cup B) = Cardinality(A) + n
  BY <1>1, <1>2, <1>5, <1>6, FS_EmptySet
<1> QED
  BY <1>3, <1>7 DEF A, n

\* No next hop, no retries.
LEMMA RetriesOfNone == \A tb : IsFiniteSet(Retries(tb, {})) /\ Cardinality(Retries(tb, {})) = 0
<1>1. \A tb : Retries(tb, {}) = {}
  BY DEF Retries
<1> QED
  BY <1>1, FS_EmptySet

\* One turn of the loop.
LEMMA CountRight ==
  ASSUME NEW tb \in Seq(Element), NEW recent, recent \subseteq DOMAIN tb,
         NEW k \in 1 .. Len(tb), NEW stat, Right(tb, recent, stat, k - 1)
  PROVE  Right(tb, recent, StepOf(tb, recent, stat, k), k)
<1> DEFINE Old(t) == ToUp(tb, recent, t, k - 1)
           Up(t) == ToUp(tb, recent, t, k)
           V == [retries : Nat, success : BOOLEAN]
           dom == {u \in Targets : Old(u) # {}}
           e == tb[k]
           new == StepOf(tb, recent, stat, k)
<1>1. /\ Len(tb) \in Nat /\ DOMAIN tb = 1 .. Len(tb) /\ k \in DOMAIN tb /\ e.target \in Targets
      /\ e.retries \in Nat /\ e.acked \in BOOLEAN
  BY TableFacts
<1>2. /\ stat \in [dom -> V]
      /\ \A t \in dom : /\ IsFiniteSet(Retries(tb, Old(t)))
                        /\ stat[t].retries = Cardinality(Retries(tb, Old(t)))
                        /\ stat[t].success <=> \E i \in Old(t) : tb[i].acked
  BY DEF Right
<1>3. \A t : Up(t) = Old(t) \cup (IF k \in recent /\ e.target = t THEN {k} ELSE {})
  <2> SUFFICES ASSUME NEW t
               PROVE  Up(t) = Old(t) \cup (IF k \in recent /\ e.target = t THEN {k} ELSE {})
    OBVIOUS
  <2>1. \A i \in recent : i \in Nat /\ (i <= k <=> i <= k - 1 \/ i = k)
    BY <1>1
  <2>2. \A i : i \in Up(t) <=> i \in recent /\ tb[i].target = t /\ i <= k
    BY DEF ToUp
  <2>3. \A i : i \in Old(t) <=> i \in recent /\ tb[i].target = t /\ i <= k - 1
    BY DEF ToUp
  <2> HIDE DEF Up, Old
  <2> QED
    BY <2>1, <2>2, <2>3
<1>4. \A t : Old(t) \subseteq DOMAIN tb /\ k \notin Old(t)
  BY <1>1 DEF ToUp
<1> HIDE DEF Up, Old
<1>5. CASE k \notin recent
  <2>1. new = stat /\ \A t : Up(t) = Old(t)
    BY <1>3, <1>5 DEF StepOf
  <2> QED
    BY <1>2, <2>1, ZenonT(30) DEF Right, Up
<1>6. CASE k \in recent /\ e.target \in dom
  <2> DEFINE s == stat[e.target]
             v == [retries |-> s.retries + e.retries, success |-> s.success \/ e.acked]
  <2>1. new = [stat EXCEPT ![e.target] = v] /\ s \in V
    BY <1>2, <1>6 DEF StepOf, Count
  <2>2. v \in V /\ v.retries = s.retries + e.retries /\ (v.success <=> s.success \/ e.acked)
    BY <1>1, <2>1
  <2>3. {u \in Targets : Up(u) # {}} = dom
    BY <1>3, <1>6
  <2>4. Up(e.target) = Old(e.target) \cup {k} /\ \A t \in dom : t # e.target => Up(t) = Old(t)
    BY <1>3, <1>6
  <2> HIDE DEF v, s, dom, V, e
  <2>5. new \in [dom -> V] /\ new[e.target] = v /\ \A t \in dom : t # e.target => new[t] = stat[t]
    BY <1>2, <1>6, <2>1, <2>2
  <2>6. ASSUME NEW t \in dom
        PROVE  /\ IsFiniteSet(Retries(tb, Up(t)))
               /\ new[t].retries = Cardinality(Retries(tb, Up(t)))
               /\ new[t].success <=> \E i \in Up(t) : tb[i].acked
    <3>1. CASE t # e.target
      BY <1>2, <2>4, <2>5, <3>1
    <3>2. CASE t = e.target
      <4>1. /\ IsFiniteSet(Retries(tb, Old(t) \cup {k}))
            /\ Cardinality(Retries(tb, Old(t) \cup {k})) = Cardinality(Retries(tb, Old(t))) + tb[k].retries
        BY <1>1, <1>2, <1>4, RetriesOfMore
      <4>2. s.retries = Cardinality(Retries(tb, Old(t))) /\ (s.success <=> \E i \in Old(t) : tb[i].acked)
        BY <1>2, <3>2 DEF s
      <4>3. e.retries = tb[k].retries /\ e.acked = tb[k].acked
        BY DEF e
      <4>4. Up(t) = Old(t) \cup {k} /\ new[t] = v
        BY <2>4, <2>5, <3>2
      <4>5. new[t].retries = Cardinality(Retries(tb, Up(t)))
        BY <2>2, <4>1, <4>2, <4>3, <4>4
      <4>6. new[t].success <=> \E i \in Up(t) : tb[i].acked
        BY <2>2, <4>2, <4>3, <4>4
      <4> QED
        BY <4>1, <4>4, <4>5, <4>6
    <3> QED
      BY <3>1, <3>2
  <2> HIDE DEF new
  <2>7. DOMAIN new = dom
    BY <2>5
  <2> QED
    BY <2>3, <2>5, <2>6, <2>7 DEF Right, Up, V, new
<1>7. CASE k \in recent /\ e.target \notin dom
  <2> DEFINE v == [retries |-> e.retries, success |-> e.acked]
             dom2 == dom \cup {e.target}
  <2>1. new = [t \in dom2 |-> IF t = e.target THEN v ELSE stat[t]]
    BY <1>2, <1>7 DEF StepOf, Count
  <2>2. v \in V /\ v.retries = e.retries /\ (v.success <=> e.acked)
    BY <1>1
  <2>3. Old(e.target) = {}
    BY <1>1, <1>7
  <2>4. Up(e.target) = {} \cup {k} /\ \A t \in dom2 : t # e.target => t \in dom /\ Up(t) = Old(t)
    BY <1>3, <1>7, <2>3
  <2>5. {u \in Targets : Up(u) # {}} = dom2
    BY <1>1, <1>3, <1>7, <2>3
  <2> HIDE DEF v, dom, dom2, V, e
  <2>6. e.target \in dom2 /\ \A t \in dom2 : t # e.target => t \in dom
    BY DEF dom2
  <2>7. \A t \in dom : stat[t] \in V
    BY <1>2
  <2>8. /\ new \in [dom2 -> V] /\ new[e.target] = v
        /\ \A t \in dom2 : t # e.target => new[t] = stat[t]
    BY <2>1, <2>2, <2>6, <2>7
  <2>9. ASSUME NEW t \in dom2
        PROVE  /\ IsFiniteSet(Retries(tb, Up(t)))
               /\ new[t].retries = Cardinality(Retries(tb, Up(t)))
               /\ new[t].success <=> \E i \in Up(t) : tb[i].acked
    <3>1. CASE t # e.target
      BY <1>2, <2>4, <2>8, <3>1
    <3>2. CASE t = e.target
      <4>1. /\ IsFiniteSet(Retries(tb, {} \cup {k}))
            /\ Cardinality(Retries(tb, {} \cup {k})) = Cardinality(Retries(tb, {})) + tb[k].retries
        BY <1>1, RetriesOfNone, RetriesOfMore
      <4>2. Cardinality(Retries(tb, {})) = 0
        BY RetriesOfNone
      <4>3. e.retries = tb[k].retries /\ e.acked = tb[k].acked /\ e.retries \in Nat
        BY <1>1 DEF e
      <4>4. Up(t) = {} \cup {k} /\ new[t] = v
        BY <2>4, <2>8, <3>2
      <4>5. new[t].retries = Cardinality(Retries(tb, Up(t)))
        BY <2>2, <4>1, <4>2, <4>3, <4>4
      <4>6. new[t].success <=> \E i \in Up(t) : tb[i].acked
        BY <2>2, <4>3, <4>4
      <4> QED
        BY <4>1, <4>4, <4>5, <4>6
    <3> QED
      BY <3>1, <3>2
  <2> HIDE DEF new
  <2>10. DOMAIN new = dom2
    BY <2>8
  <2> QED
    BY <2>5, <2>8, <2>9, <2>10 DEF Right, Up, V, new
<1> QED
  BY <1>5, <1>6, <1>7

\* The loop has run up to n in f.
RunsTo(tb, recent, f, n) ==
  f = [k \in 0 .. n |-> IF k = 0 THEN NoStatistic ELSE StepOf(tb, recent, f[k - 1], k)]

\* Each element has its turn, so that there is a map after the last.
LEMMA LoopEnds ==
  ASSUME NEW tb, NEW recent, NEW n \in Nat
  PROVE  \E f : RunsTo(tb, recent, f, n)
<1> DEFINE Bad == {m \in Nat : ~ \E f : RunsTo(tb, recent, f, m)}
<1>1. ~(0 \in Bad)
  <2> DEFINE f == [k \in 0 .. 0 |-> NoStatistic]
  <2>1. f = [k \in 0 .. 0 |-> IF k = 0 THEN NoStatistic ELSE StepOf(tb, recent, f[k - 1], k)]
    <3> HIDE DEF f
    <3>1. \A k \in 0 .. 0 : k = 0
      OBVIOUS
    <3> QED
      BY <3>1 DEF f
  <2> HIDE DEF f
  <2>2. RunsTo(tb, recent, f, 0)
    BY <2>1 DEF RunsTo
  <2> QED
    BY <2>2
<1>2. ASSUME NEW m \in Nat, NEW f, RunsTo(tb, recent, f, m)
      PROVE  \E g : RunsTo(tb, recent, g, m + 1)
  <2> DEFINE last == StepOf(tb, recent, f[m], m + 1)
             g == [k \in 0 .. m + 1 |-> IF k = m + 1 THEN last ELSE f[k]]
  <2>1. \A k \in 0 .. m : f[k] = IF k = 0 THEN NoStatistic ELSE StepOf(tb, recent, f[k - 1], k)
    BY <1>2 DEF RunsTo
  <2>2. \A k \in 0 .. m : g[k] = f[k] /\ k # m + 1
    OBVIOUS
  <2>3. g[m + 1] = last /\ m + 1 # 0 /\ (m + 1) - 1 = m /\ m \in 0 .. m
    OBVIOUS
  <2>4. \A k \in 0 .. m : k # 0 => k - 1 \in 0 .. m
    OBVIOUS
  <2>5. \A k \in 0 .. m + 1 : k \in 0 .. m \/ k = m + 1
    OBVIOUS
  <2>6. \A k \in 0 .. m + 1 :
          g[k] = IF k = 0 THEN NoStatistic ELSE StepOf(tb, recent, g[k - 1], k)
    <3> SUFFICES ASSUME NEW k \in 0 .. m + 1
                 PROVE  g[k] = IF k = 0 THEN NoStatistic ELSE StepOf(tb, recent, g[k - 1], k)
      OBVIOUS
    <3> HIDE DEF g
    <3>1. CASE k = m + 1
      <4>1. g[k - 1] = f[m]
        BY <2>2, <2>3, <3>1
      <4> QED
        BY <2>3, <3>1, <4>1
    <3>2. CASE k \in 0 .. m
      <4>1. k # 0 => g[k - 1] = f[k - 1]
        BY <2>2, <2>4, <3>2
      <4>2. g[k] = f[k]
        BY <2>2, <3>2
      <4> QED
        BY <2>1, <3>2, <4>1, <4>2
    <3> QED
      BY <2>5, <3>1, <3>2
  <2>7. g = [k \in 0 .. m + 1 |-> g[k]]
    OBVIOUS
  <2> HIDE DEF g
  <2>8. RunsTo(tb, recent, g, m + 1)
    BY <2>6, <2>7 DEF RunsTo
  <2> QED
    BY <2>8
<1>3. Bad = {}
  <2> SUFFICES ASSUME Bad # {} PROVE FALSE
    OBVIOUS
  <2>1. Bad \subseteq Nat
    OBVIOUS
  <2>2. \A m \in Nat : m \notin Bad => \E f : RunsTo(tb, recent, f, m)
    OBVIOUS
  <2>3. \A m \in Bad : ~ \E f : RunsTo(tb, recent, f, m)
    OBVIOUS
  <2> HIDE DEF Bad
  <2>4. PICK x \in Bad : \A y \in Bad : x <= y
    BY <2>1, LeastOf
  <2>5. x - 1 \in Nat /\ (x - 1) + 1 = x
    BY <1>1, <2>1, <2>4
  <2>6. x - 1 \notin Bad
    BY <2>1, <2>4, <2>5
  <2>7. PICK f : RunsTo(tb, recent, f, x - 1)
    BY <2>2, <2>5, <2>6
  <2>8. \E g : RunsTo(tb, recent, g, (x - 1) + 1)
    BY <1>2, <2>5, <2>7
  <2> QED
    BY <2>3, <2>4, <2>5, <2>8
<1> QED
  BY <1>3

\* After the loop the map holds what it should, for any table and window.
LEMMA StatisticRight ==
  ASSUME NEW tb \in Seq(Element), NEW recent, recent \subseteq DOMAIN tb
  PROVE  Right(tb, recent, Statistic(tb, recent), Len(tb))
<1> DEFINE n == Len(tb)
           f == CHOOSE g : RunsTo(tb, recent, g, n)
           Bad == {k \in 0 .. n : ~ Right(tb, recent, f[k], k)}
<1>1. n \in Nat /\ DOMAIN tb = 1 .. n
  BY TableFacts
<1>2. Statistic(tb, recent) = f[n]
  BY DEF Statistic, RunsTo, StepOf
<1>3. RunsTo(tb, recent, f, n)
  <2> HIDE DEF n
  <2> QED
    BY <1>1, LoopEnds
<1> HIDE DEF f
<1>4. \A k \in 0 .. n : f[k] = IF k = 0 THEN NoStatistic ELSE StepOf(tb, recent, f[k - 1], k)
  BY <1>3 DEF RunsTo
<1>5. Right(tb, recent, f[0], 0)
  <2>1. f[0] = NoStatistic
    BY <1>1, <1>4
  <2>2. \A u : ToUp(tb, recent, u, 0) = {}
    BY <1>1 DEF ToUp
  <2>3. {u \in Targets : ToUp(tb, recent, u, 0) # {}} = {}
    BY <2>2
  <2>4. NoStatistic \in [{} -> [retries : Nat, success : BOOLEAN]] /\ DOMAIN NoStatistic = {}
    BY DEF NoStatistic
  <2> QED
    BY <2>1, <2>3, <2>4 DEF Right
<1>6. Bad = {}
  <2> SUFFICES ASSUME Bad # {} PROVE FALSE
    OBVIOUS
  <2>1. Bad \subseteq Nat
    BY <1>1
  <2>2. \A k \in 0 .. n : k \notin Bad => Right(tb, recent, f[k], k)
    OBVIOUS
  <2>3. \A k \in Bad : k \in 0 .. n /\ ~ Right(tb, recent, f[k], k)
    OBVIOUS
  <2> HIDE DEF Bad
  <2>4. PICK x \in Bad : \A y \in Bad : x <= y
    BY <2>1, LeastOf
  <2>5. x # 0 /\ x \in 1 .. n /\ x - 1 \in 0 .. n
    BY <1>1, <1>5, <2>1, <2>3, <2>4
  <2>6. x - 1 \notin Bad
    BY <2>1, <2>4, <2>5
  <2>7. Right(tb, recent, f[x - 1], x - 1)
    BY <2>2, <2>5, <2>6
  <2>8. Right(tb, recent, StepOf(tb, recent, f[x - 1], x), x)
    BY <2>5, <2>7, CountRight
  <2> QED
    BY <1>4, <2>3, <2>4, <2>5, <2>8
<1>7. n \in 0 .. n
  BY <1>1
<1>8. Right(tb, recent, f[n], n)
  BY <1>6, <1>7
<1> QED
  BY <1>2, <1>8 DEF n

\* The factor is the sum over next hops of what the definition charges for each.
LEMMA FactorFacts ==
  ASSUME table \in Seq(Element)
  PROVE  FactorMatchesDefinition
<1> SUFFICES ASSUME NEW recent \in SUBSET DOMAIN table
             PROVE
    LET To(t) == {i \in recent : table[i].target = t}
        Charge(t) == IF \E i \in To(t) : table[i].acked THEN Cardinality(Retries(table, To(t)))
                                                       ELSE MAXIMUMCOUNTER
    IN  evaluate_chanl(table, recent) =
          SumFunction([t \in {u \in Targets : To(u) # {}} |-> Charge(t)])
  BY DEF FactorMatchesDefinition
<1> DEFINE To(t) == {i \in recent : table[i].target = t}
           Charge(t) == IF \E i \in To(t) : table[i].acked THEN Cardinality(Retries(table, To(t)))
                                                          ELSE MAXIMUMCOUNTER
           dom == {u \in Targets : To(u) # {}}
           stat == Statistic(table, recent)
           n == Len(table)
<1>1. \A t : ToUp(table, recent, t, n) = To(t)
  <2>1. \A i \in recent : i <= n
    BY TableFacts
  <2> QED
    BY <2>1 DEF ToUp
<1>2. Right(table, recent, stat, n)
  BY StatisticRight
<1> HIDE DEF stat
<1>3. stat \in [dom -> [retries : Nat, success : BOOLEAN]]
  BY <1>1, <1>2 DEF Right
<1> HIDE DEF To
<1>4. \A t \in dom : /\ stat[t].retries = Cardinality(Retries(table, To(t)))
                     /\ stat[t].success <=> \E i \in To(t) : table[i].acked
  <2>1. DOMAIN stat = dom
    BY <1>3
  <2> HIDE DEF dom
  <2> QED
    BY <1>1, <1>2, <2>1 DEF Right
<1> DEFINE F == [t \in DOMAIN stat |->
                   IF ~stat[t].success THEN MAXIMUMCOUNTER ELSE stat[t].retries]
           G == [t \in dom |-> Charge(t)]
<1>5. F = G
  <2>1. DOMAIN stat = dom
    BY <1>3
  <2>2. \A t \in dom : Charge(t) = IF ~stat[t].success THEN MAXIMUMCOUNTER ELSE stat[t].retries
    BY <1>4
  <2> HIDE DEF dom, Charge
  <2> QED
    BY <2>1, <2>2
<1>6. evaluate_chanl(table, recent) = SumFunction(F)
  BY DEF evaluate_chanl, factor_of, stat
<1> HIDE DEF F, G
<1>7. evaluate_chanl(table, recent) = SumFunction(G)
  BY <1>5, <1>6
<1> QED
  BY <1>7 DEF G, dom, Charge, To
----------------------------------------------------------------------------
(* The operations *)

\* The initial states satisfy the invariant.
LEMMA InitIInv == Init => IInv
<1> SUFFICES ASSUME Init PROVE IInv
  OBVIOUS
<1>1. table = <<>> /\ puts = [k \in Keys |-> 0] /\ acks = {}
  BY DEF Init
<1>2. table \in Seq(Element) /\ DOMAIN table = {}
  BY <1>1
<1>3. Typed
  BY <1>1, <1>2 DEF Typed
<1>4. OneEach(table) /\ AckedWasAcknowledged
  BY <1>2 DEF OneEach, AckedWasAcknowledged
<1>5. \A t \in Targets, p \in Pkts : Counted(table, t, p, puts[<<t, p>>])
  <2> SUFFICES ASSUME NEW t \in Targets, NEW p \in Pkts
               PROVE  Counted(table, t, p, puts[<<t, p>>])
    OBVIOUS
  <2>1. \A x : x \notin Sent(table, t, p)
    BY <1>2, SentFacts
  <2>2. Sent(table, t, p) = {}
    BY <2>1
  <2>3. puts[<<t, p>>] = 0
    BY <1>1 DEF Keys
  <2> QED
    BY <2>2, <2>3, FS_EmptySet DEF Counted
<1> QED
  BY <1>3, <1>4, <1>5 DEF IInv

\* One transmission more of one key.
LEMMA CountOne ==
  ASSUME IInv, NEW t \in Targets, NEW p \in Pkts, NEW new, NEW x,
         puts' = [puts EXCEPT ![<<t, p>>] = @ + 1],
         Sent(new, t, p) = Sent(table, t, p) \cup {x}, x \notin Sent(table, t, p),
         \A u \in Targets, q \in Pkts :
           ~(u = t /\ q = p) => Sent(new, u, q) = Sent(table, u, q)
  PROVE  /\ puts' \in [Keys -> Nat]
         /\ \A u \in Targets, q \in Pkts : Counted(new, u, q, puts'[<<u, q>>])
<1>1. puts \in [Keys -> Nat] /\ <<t, p>> \in Keys
  BY DEF IInv, Typed, Keys
<1>2. puts' \in [Keys -> Nat] /\ puts'[<<t, p>>] = puts[<<t, p>>] + 1
  BY <1>1
<1>3. ASSUME NEW u \in Targets, NEW q \in Pkts
      PROVE  Counted(new, u, q, puts'[<<u, q>>])
  <2>1. Counted(table, u, q, puts[<<u, q>>]) /\ <<u, q>> \in Keys
    BY DEF IInv, Keys
  <2>2. CASE u = t /\ q = p
    <3> DEFINE S == Sent(table, t, p)
    <3>1. IsFiniteSet(S) /\ Cardinality(S) = puts[<<t, p>>] /\ x \notin S
      BY <2>1, <2>2 DEF Counted
    <3> HIDE DEF S
    <3>2. IsFiniteSet(S \cup {x}) /\ Cardinality(S \cup {x}) = puts[<<t, p>>] + 1
      BY <3>1, FS_AddElement
    <3>3. Counted(new, t, p, puts'[<<t, p>>])
      BY <1>2, <3>2 DEF Counted, S
    <3> QED
      BY <2>2, <3>3
  <2>3. CASE ~(u = t /\ q = p)
    <3>1. Sent(new, u, q) = Sent(table, u, q)
      BY <2>3
    <3>2. <<u, q>> # <<t, p>>
      BY <2>3
    <3>3. puts'[<<u, q>>] = puts[<<u, q>>]
      BY <1>1, <2>1, <3>2
    <3> QED
      BY <2>1, <3>1, <3>3 DEF Counted
  <2> QED
    BY <2>2, <2>3
<1> QED
  BY <1>2, <1>3

\* What a step has to show of the table it leaves.
LEMMA Kept ==
  ASSUME NEW new, table' = new, new \in Seq(Element), puts' \in [Keys -> Nat], acks' \subseteq Keys,
         OneEach(new), \A u \in Targets, q \in Pkts : Counted(new, u, q, puts'[<<u, q>>]),
         \A i \in DOMAIN new : new[i].acked => /\ new[i].pkt > 0
                                               /\ <<new[i].target, new[i].pkt>> \in acks'
  PROVE  IInv'
<1>1. Typed'
  BY DEF Typed
<1>2. OneEach(table)'
  BY DEF OneEach
<1>3. AckedWasAcknowledged'
  BY DEF AckedWasAcknowledged
<1>4. (\A u \in Targets, q \in Pkts : Counted(table, u, q, puts[<<u, q>>]))'
  <2> SUFFICES ASSUME NEW u \in Targets, NEW q \in Pkts
               PROVE  Counted(table, u, q, puts[<<u, q>>])'
    OBVIOUS
  <2>1. Counted(new, u, q, puts'[<<u, q>>])
    OBVIOUS
  <2>2. Sent(table, u, q)' = Sent(new, u, q)
    BY DEF Sent, Matches
  <2> QED
    BY <2>1, <2>2 DEF Counted
<1> QED
  BY <1>1, <1>2, <1>3, <1>4 DEF IInv

\* put_into_table either adds an element or counts a retry of the first that matches.
LEMMA PutIInv == ASSUME IInv, NEW t \in Targets, NEW p \in Pkts, Put(t, p) PROVE IInv'
<1> DEFINE e == Elem(t, p)
           M == Matches(table, e)
           sts == find_elem(table, e)
           k == Min(M)
<1>1. /\ table' = put_into_table(table, e) /\ puts' = [puts EXCEPT ![<<t, p>>] = @ + 1]
      /\ acks' = acks
  BY DEF Put
<1>2. table \in Seq(Element) /\ acks \subseteq Keys /\ OneEach(table) /\ AckedWasAcknowledged
  BY DEF IInv, Typed
<1>3. e \in Element /\ e = [target |-> t, pkt |-> p, acked |-> FALSE, retries |-> 0]
  BY ElemFacts
<1>4. \A i : i \in M <=> i \in DOMAIN table /\ table[i].target = t /\ table[i].pkt = p
  BY DEF Matches, SameKey, Elem
<1>5. \/ M = {} /\ sts = Elem(-1, -1)
      \/ k \in M /\ sts = table[k]
  BY <1>2, FindElemFacts
<1>6. Elem(-1, -1).target = -1
  BY DEF Elem
<1>7. t \in Nat
  BY TableAssumption
<1>8. Len(table) \in Nat /\ DOMAIN table = 1 .. Len(table)
  BY <1>2, TableFacts
<1>9. CASE sts.target > 0
  <2>1. k \in DOMAIN table /\ sts = table[k] /\ table[k].target = t /\ table[k].pkt = p
    BY <1>4, <1>5, <1>6, <1>9
  <2>2. table' = [table EXCEPT ![k] = [sts EXCEPT !.retries = @ + 1]]
    BY <1>1, <1>9 DEF put_into_table, Update
  <2> DEFINE new == [table EXCEPT ![k] = [sts EXCEPT !.retries = @ + 1]]
  <2>3. table[k] \in Element /\ table[k].retries \in Nat
    BY <1>2, <2>1, TableFacts
  <2> HIDE DEF sts, k, e, M
  <2>4. [sts EXCEPT !.retries = @ + 1] \in Element
    BY <2>1, <2>3 DEF Element
  <2>5. new \in Seq(Element) /\ DOMAIN new = DOMAIN table
    BY <1>2, <1>8, <2>1, <2>4, ExceptSeq
  <2>6. \A i \in DOMAIN table :
          /\ new[i].target = table[i].target /\ new[i].pkt = table[i].pkt
          /\ new[i].acked = table[i].acked
          /\ new[i].retries = IF i = k THEN table[i].retries + 1 ELSE table[i].retries
    <3> SUFFICES ASSUME NEW i \in DOMAIN table
                 PROVE  /\ new[i].target = table[i].target /\ new[i].pkt = table[i].pkt
                        /\ new[i].acked = table[i].acked
                        /\ new[i].retries = IF i = k THEN table[i].retries + 1
                                                     ELSE table[i].retries
      OBVIOUS
    <3>1. new[i] = IF i = k THEN [table[k] EXCEPT !.retries = @ + 1] ELSE table[i]
      BY <2>1
    <3>2. table[i] \in Element
      BY <1>2, TableFacts
    <3> HIDE DEF new
    <3> QED
      BY <3>1, <3>2, <2>3 DEF Element
  <2> HIDE DEF new
  <2>7. \A u \in Targets, q \in Pkts :
          Sent(new, u, q) =
            Sent(table, u, q) \cup
              (IF u = table[k].target /\ q = table[k].pkt THEN {<<k, table[k].retries + 1>>} ELSE {})
    BY <1>2, <2>1, <2>5, <2>6, RetrySent
  <2>13. /\ Sent(new, t, p) = Sent(table, t, p) \cup {<<k, table[k].retries + 1>>}
         /\ \A u \in Targets, q \in Pkts :
              ~(u = t /\ q = p) => Sent(new, u, q) = Sent(table, u, q)
    <3> DEFINE x == <<k, table[k].retries + 1>>
    <3>1. \A u \in Targets, q \in Pkts :
            Sent(new, u, q) = Sent(table, u, q) \cup (IF u = t /\ q = p THEN {x} ELSE {})
      BY <2>1, <2>7
    <3> HIDE DEF x
    <3>2. Sent(new, t, p) = Sent(table, t, p) \cup {x}
      BY <3>1
    <3>3. ASSUME NEW u \in Targets, NEW q \in Pkts, ~(u = t /\ q = p)
          PROVE  Sent(new, u, q) = Sent(table, u, q)
      <4>1. Sent(new, u, q) = Sent(table, u, q) \cup (IF u = t /\ q = p THEN {x} ELSE {})
        BY <3>1
      <4>2. Sent(new, u, q) = Sent(table, u, q) \cup {}
        BY <3>3, <4>1
      <4> QED
        BY <4>2
    <3> QED
      BY <3>2, <3>3 DEF x
  <2>8. <<k, table[k].retries + 1>> \notin Sent(table, t, p)
    <3> SUFFICES ASSUME <<k, table[k].retries + 1>> \in Sent(table, t, p) PROVE FALSE
      OBVIOUS
    <3>1. PICK i \in DOMAIN table, r \in Nat :
            <<k, table[k].retries + 1>> = <<i, r>> /\ r \in 0 .. table[i].retries
      BY SentFacts
    <3>2. i = k /\ r = table[k].retries + 1
      BY <3>1
    <3> QED
      BY <2>3, <3>1, <3>2
  <2>9. puts' \in [Keys -> Nat] /\ \A u \in Targets, q \in Pkts : Counted(new, u, q, puts'[<<u, q>>])
    BY <1>1, <2>8, <2>13, CountOne, ZenonT(30)
  <2>10. OneEach(new)
    BY <1>2, <2>5, <2>6 DEF OneEach, SameKey
  <2>11. \A i \in DOMAIN new : new[i].acked => new[i].pkt > 0 /\ <<new[i].target, new[i].pkt>> \in acks
    BY <1>2, <2>5, <2>6 DEF AckedWasAcknowledged
  <2>12. table' = new
    BY <2>2 DEF new
  <2> QED
    BY <1>1, <1>2, <2>5, <2>9, <2>10, <2>11, <2>12, Kept
<1>10. CASE ~(sts.target > 0)
  <2>1. table' = Append(table, e)
    BY <1>1, <1>10 DEF put_into_table
  <2> DEFINE new == Append(table, e)
             n == Len(table)
  <2>2. ~(t > 0) \/ M = {}
    BY <1>4, <1>5, <1>10
  <2>3. /\ new \in Seq(Element) /\ DOMAIN new = 1 .. n + 1
        /\ new[n + 1] = e /\ \A i \in 1 .. n : new[i] = table[i]
    BY <1>2, <1>3
  <2>4. \A u \in Targets, q \in Pkts :
          Sent(new, u, q) =
            Sent(table, u, q) \cup (IF u = t /\ q = p THEN {<<n + 1, 0>>} ELSE {})
    BY <1>2, AppendSent
  <2> HIDE DEF new, e, sts, k, M
  <2>11. /\ Sent(new, t, p) = Sent(table, t, p) \cup {<<n + 1, 0>>}
         /\ \A u \in Targets, q \in Pkts :
              ~(u = t /\ q = p) => Sent(new, u, q) = Sent(table, u, q)
    <3>1. Sent(new, t, p) = Sent(table, t, p) \cup {<<n + 1, 0>>}
      BY <2>4
    <3>2. ASSUME NEW u \in Targets, NEW q \in Pkts, ~(u = t /\ q = p)
          PROVE  Sent(new, u, q) = Sent(table, u, q)
      <4>1. Sent(new, u, q) = Sent(table, u, q) \cup (IF u = t /\ q = p THEN {<<n + 1, 0>>} ELSE {})
        BY <2>4
      <4>2. Sent(new, u, q) = Sent(table, u, q) \cup {}
        BY <3>2, <4>1
      <4> QED
        BY <4>2
    <3> QED
      BY <3>1, <3>2
  <2>5. <<n + 1, 0>> \notin Sent(table, t, p)
    <3> SUFFICES ASSUME <<n + 1, 0>> \in Sent(table, t, p) PROVE FALSE
      OBVIOUS
    <3>1. PICK i \in DOMAIN table, r \in Nat : <<n + 1, 0>> = <<i, r>>
      BY SentFacts
    <3> QED
      BY <1>8, <3>1
  <2>6. puts' \in [Keys -> Nat] /\ \A u \in Targets, q \in Pkts : Counted(new, u, q, puts'[<<u, q>>])
    BY <1>1, <2>5, <2>11, CountOne, ZenonT(30)
  <2>7. e.target = t /\ e.pkt = p /\ e.acked = FALSE
    BY <1>3
  <2>8. OneEach(new)
    <3> SUFFICES ASSUME NEW i \in 1 .. n + 1, NEW j \in 1 .. n + 1,
                        new[i].target > 0, SameKey(new[i], new[j])
                 PROVE  i = j
      BY <2>3 DEF OneEach
    <3>1. CASE i \in 1 .. n /\ j \in 1 .. n
      BY <1>2, <1>8, <2>3, <3>1 DEF OneEach
    <3>2. CASE i = n + 1 /\ j \in 1 .. n
      <4>1. table[j].target = t /\ table[j].pkt = p /\ t > 0
        BY <2>3, <2>7, <3>2 DEF SameKey
      <4> QED
        BY <1>4, <1>8, <2>2, <3>2, <4>1
    <3>3. CASE i \in 1 .. n /\ j = n + 1
      <4>1. table[i].target = t /\ table[i].pkt = p /\ t > 0
        BY <2>3, <2>7, <3>3 DEF SameKey
      <4> QED
        BY <1>4, <1>8, <2>2, <3>3, <4>1
    <3> QED
      BY <1>8, <3>1, <3>2, <3>3
  <2>9. \A i \in DOMAIN new : new[i].acked => new[i].pkt > 0 /\ <<new[i].target, new[i].pkt>> \in acks
    BY <1>2, <1>8, <2>3, <2>7 DEF AckedWasAcknowledged
  <2>10. table' = new
    BY <2>1 DEF new
  <2> QED
    BY <1>1, <1>2, <2>3, <2>6, <2>8, <2>9, <2>10, Kept
<1> QED
  BY <1>9, <1>10

\* ack_elem marks the first element that matches, unless its packet has id 0.
LEMMA AckIInv == ASSUME IInv, NEW t \in Targets, NEW p \in Pkts, Ack(t, p) PROVE IInv'
<1> DEFINE e == Elem(t, p)
           M == Matches(table, e)
           sts == find_elem(table, e)
           k == Min(M)
<1>1. table' = ack_elem(table, e) /\ puts' = puts /\ acks' = acks \cup {<<t, p>>}
  BY DEF Ack
<1>2. /\ table \in Seq(Element) /\ acks \subseteq Keys /\ OneEach(table) /\ AckedWasAcknowledged
      /\ puts \in [Keys -> Nat]
      /\ \A u \in Targets, q \in Pkts : Counted(table, u, q, puts[<<u, q>>])
  BY DEF IInv, Typed
<1>3. acks' \subseteq Keys
  BY <1>1, <1>2 DEF Keys
<1>4. \A i : i \in M <=> i \in DOMAIN table /\ table[i].target = t /\ table[i].pkt = p
  BY DEF Matches, SameKey, Elem
<1>5. \/ M = {} /\ sts = Elem(-1, -1)
      \/ k \in M /\ sts = table[k]
  BY <1>2, FindElemFacts
<1>6. Elem(-1, -1).pkt = -1
  BY DEF Elem
<1>7. Len(table) \in Nat /\ DOMAIN table = 1 .. Len(table)
  BY <1>2, TableFacts
<1>8. CASE sts.pkt > 0
  <2>1. k \in DOMAIN table /\ sts = table[k] /\ table[k].target = t /\ table[k].pkt = p /\ p > 0
    BY <1>4, <1>5, <1>6, <1>8
  <2>2. table' = [table EXCEPT ![k] = [sts EXCEPT !.acked = TRUE]]
    BY <1>1, <1>8 DEF ack_elem, Update
  <2> DEFINE new == [table EXCEPT ![k] = [sts EXCEPT !.acked = TRUE]]
  <2>3. table[k] \in Element
    BY <1>2, <2>1, TableFacts
  <2> HIDE DEF sts, k, e, M
  <2>4. [sts EXCEPT !.acked = TRUE] \in Element
    BY <2>1, <2>3 DEF Element
  <2>5. new \in Seq(Element) /\ DOMAIN new = DOMAIN table
    BY <1>2, <1>7, <2>1, <2>4, ExceptSeq
  <2>6. \A i \in DOMAIN table :
          /\ new[i].target = table[i].target /\ new[i].pkt = table[i].pkt
          /\ new[i].retries = table[i].retries
          /\ new[i].acked => i = k \/ table[i].acked
    <3> SUFFICES ASSUME NEW i \in DOMAIN table
                 PROVE  /\ new[i].target = table[i].target /\ new[i].pkt = table[i].pkt
                        /\ new[i].retries = table[i].retries
                        /\ new[i].acked => i = k \/ table[i].acked
      OBVIOUS
    <3>1. new[i] = IF i = k THEN [table[k] EXCEPT !.acked = TRUE] ELSE table[i]
      BY <2>1
    <3>2. table[i] \in Element
      BY <1>2, TableFacts
    <3> HIDE DEF new
    <3> QED
      BY <3>1, <3>2, <2>3 DEF Element
  <2> HIDE DEF new
  <2>7. \A u \in Targets, q \in Pkts : Sent(new, u, q) = Sent(table, u, q)
    BY <2>5, <2>6, SameSent
  <2>8. \A u \in Targets, q \in Pkts : Counted(new, u, q, puts[<<u, q>>])
    BY <1>2, <2>7 DEF Counted
  <2>9. OneEach(new)
    BY <1>2, <2>5, <2>6 DEF OneEach, SameKey
  <2>10. \A i \in DOMAIN new : new[i].acked => new[i].pkt > 0 /\ <<new[i].target, new[i].pkt>> \in acks'
    BY <1>1, <1>2, <2>1, <2>5, <2>6 DEF AckedWasAcknowledged
  <2>11. table' = new
    BY <2>2 DEF new
  <2> QED
    BY <1>1, <1>2, <1>3, <2>5, <2>8, <2>9, <2>10, <2>11, Kept
<1>9. CASE ~(sts.pkt > 0)
  <2>1. table' = table
    BY <1>1, <1>9 DEF ack_elem
  <2>2. \A i \in DOMAIN table : table[i].acked => table[i].pkt > 0 /\ <<table[i].target, table[i].pkt>> \in acks'
    BY <1>1, <1>2 DEF AckedWasAcknowledged
  <2> QED
    BY <1>1, <1>2, <1>3, <2>1, <2>2 DEF IInv, Typed, AckedWasAcknowledged, Counted, Sent
<1> QED
  BY <1>8, <1>9

\* delete_elems takes the elements of one key, and of no other.
LEMMA DeleteIInv == ASSUME IInv, NEW t \in Targets, NEW p \in Pkts, Delete(t, p) PROVE IInv'
<1> DEFINE e == Elem(t, p)
           new == delete_elems(table, e)
<1>1. /\ table' = new /\ acks' = acks
      /\ puts' = [puts EXCEPT ![<<t, p>>] =
                    IF t > 0 THEN 0 ELSE Cardinality(Sent(new, t, p))]
  BY DEF Delete
<1>2. /\ table \in Seq(Element) /\ acks \subseteq Keys /\ OneEach(table) /\ AckedWasAcknowledged
      /\ puts \in [Keys -> Nat] /\ <<t, p>> \in Keys
      /\ \A u \in Targets, q \in Pkts : Counted(table, u, q, puts[<<u, q>>])
  BY DEF IInv, Typed, Keys
<1>3. new \in Seq(Element) /\ \E place : Moved(table, e, new, place)
  <2> HIDE DEF e
  <2> QED
    BY <1>2, DeleteFacts
<1>4. PICK place \in [DOMAIN new -> DOMAIN table] :
              /\ \A k \in DOMAIN new : new[k] = table[place[k]]
              /\ \A j, k \in DOMAIN new : place[j] = place[k] => j = k
  <2> HIDE DEF new, e
  <2>1. PICK place : Moved(table, e, new, place)
    BY <1>3
  <2>2. place \in [DOMAIN new -> DOMAIN table]
    BY <2>1 DEF Moved
  <2> QED
    BY <2>1, <2>2 DEF Moved
<1>5. \A u \in Targets, q \in Pkts :
        /\ IsFiniteSet(Sent(new, u, q))
        /\ <<u, q>> # <<t, p>> => Cardinality(Sent(new, u, q)) = Cardinality(Sent(table, u, q))
  <2> SUFFICES ASSUME NEW u \in Targets, NEW q \in Pkts
               PROVE
        /\ IsFiniteSet(Sent(new, u, q))
        /\ <<u, q>> # <<t, p>> => Cardinality(Sent(new, u, q)) = Cardinality(Sent(table, u, q))
    OBVIOUS
  <2>1. IsFiniteSet(Sent(table, u, q))
    BY <1>2 DEF Counted
  <2> QED
    BY <1>2, <2>1, DeleteCounts
<1>6. t > 0 => Sent(new, t, p) = {}
  BY <1>2, DeleteAll
<1> HIDE DEF new, e
<1>7. OneEach(new)
  BY <1>2, <1>4 DEF OneEach
<1>8. \A i \in DOMAIN new : new[i].acked => new[i].pkt > 0 /\ <<new[i].target, new[i].pkt>> \in acks
  BY <1>2, <1>4 DEF AckedWasAcknowledged
<1>9. puts' \in [Keys -> Nat] /\ puts'[<<t, p>>] = Cardinality(Sent(new, t, p))
  <2>1. IsFiniteSet(Sent(new, t, p))
    BY <1>5
  <2>2. Cardinality(Sent(new, t, p)) \in Nat
    BY <2>1, FS_CardinalityType
  <2>3. t > 0 => Cardinality(Sent(new, t, p)) = 0
    BY <1>6, FS_EmptySet
  <2>4. puts' = [puts EXCEPT ![<<t, p>>] = Cardinality(Sent(new, t, p))]
    BY <1>1, <2>3
  <2> QED
    BY <1>2, <2>2, <2>4
<1>10. ASSUME NEW u \in Targets, NEW q \in Pkts
       PROVE  Counted(new, u, q, puts'[<<u, q>>])
  <2>1. CASE <<u, q>> = <<t, p>>
    <3>1. u = t /\ q = p
      BY <2>1
    <3> QED
      BY <1>5, <1>9, <3>1 DEF Counted
  <2>2. CASE <<u, q>> # <<t, p>>
    <3>1. puts'[<<u, q>>] = puts[<<u, q>>]
      BY <1>1, <1>2, <2>2 DEF Keys
    <3> QED
      BY <1>2, <1>5, <2>2, <3>1 DEF Counted
  <2> QED
    BY <2>1, <2>2
<1> QED
  BY <1>1, <1>2, <1>3, <1>7, <1>8, <1>9, <1>10, Kept

\* Every step keeps the invariant: one case for each disjunct of Next.
LEMMA NextIInv == IInv /\ [Next]_vars => IInv'
<1> SUFFICES ASSUME IInv, [Next]_vars PROVE IInv'
  OBVIOUS
<1>1. CASE UNCHANGED vars
  BY <1>1 DEF vars, IInv, Typed, AckedWasAcknowledged
<1>2. CASE Next
  BY <1>2, PutIInv, AckIInv, DeleteIInv DEF Next
<1> QED
  BY <1>1, <1>2

\* The parts of IInv hold together after every sequence of operations.
THEOREM Invariance == Spec => []IInv
  BY InitIInv, NextIInv, PTL DEF Spec

\* What is in the table is what was sent since it was last deleted: put_into_table
\* counts every transmission once, and delete_elems takes no other key's elements
\* and leaves none of a next hop with a positive id.
THEOREM CountedCorrect == Spec => []TransmissionsCounted
<1>1. IInv => TransmissionsCounted
  BY DEF IInv, Counted, TransmissionsCounted
<1> QED
  BY <1>1, Invariance, PTL

\* ack_elem marks only what an acknowledgement came for, and delete_elems moves
\* no mark to another element.
THEOREM AckedCorrect == Spec => []AckedWasAcknowledged
<1>1. IInv => AckedWasAcknowledged
  BY DEF IInv
<1> QED
  BY <1>1, Invariance, PTL

\* The factor in an acknowledgement charges each next hop once, for any table and
\* any choice of recent elements, in whatever order they stand.
THEOREM FactorCorrect == Spec => []FactorMatchesDefinition
<1>1. IInv => FactorMatchesDefinition
  BY FactorFacts DEF IInv, Typed
<1> QED
  BY <1>1, Invariance, PTL
=============================================================================
