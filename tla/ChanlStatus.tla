---------------------------- MODULE ChanlStatus ----------------------------
(***************************************************************************)
(* uw_mac/uwaloha/chanl_status_table.cc: the operations on the table in    *)
(* which a UWALOHA node keeps, per next hop and packet, whether it was     *)
(* acknowledged and how often it was sent again.  A table is the sequence  *)
(* of its elements; times are left out, except that evaluate_chanl is told *)
(* which elements are recent enough to count.                              *)
(***************************************************************************)
EXTENDS Integers, Sequences, FiniteSetsExt, SequencesExt

MAXIMUMCOUNTER == 3

Elem(target, pkt) == [target |-> target, pkt |-> pkt, acked |-> FALSE, retries |-> 0]

SameKey(e, f) == e.target = f.target /\ e.pkt = f.pkt

Matches(table, elem) == {i \in DOMAIN table : SameKey(table[i], elem)}

\* The first match, or the static element with both ids -1.
find_elem(table, elem) ==
  IF Matches(table, elem) = {} THEN Elem(-1, -1)
                               ELSE table[Min(Matches(table, elem))]

\* A write through the pointer find_elem returned.
Update(table, elem, new) == [table EXCEPT ![Min(Matches(table, elem))] = new]

\* Mutant: a packet that is sent again replaces its count.
put_afresh(table, elem) ==
  IF Matches(table, elem) = {} THEN Append(table, elem) ELSE Update(table, elem, elem)

\* An element counts as found only if its target_id is positive.
put_into_table(table, elem) ==
  LET sts == find_elem(table, elem)
  IN  IF sts.target > 0
        THEN Update(table, elem, [sts EXCEPT !.retries = @ + 1])
        ELSE Append(table, elem)

\* Mutant: the acknowledgement is booked on the newest packet to that target.
ack_newest(table, elem) ==
  LET to == {i \in DOMAIN table : table[i].target = elem.target}
  IN  IF to = {} THEN table ELSE [table EXCEPT ![Max(to)].acked = TRUE]

\* An element can be acknowledged only if its pkt_id is positive.
ack_elem(table, elem) ==
  LET sts == find_elem(table, elem)
  IN  IF sts.pkt > 0 THEN Update(table, elem, [sts EXCEPT !.acked = TRUE]) ELSE table

\* The loop steps over the element that moves into the place of an erased one:
\* an element is erased if it matches and the one before it was not erased.
Erased(table, elem) ==
  LET M == Matches(table, elem) IN CHOOSE E \in SUBSET M : E = {i \in M : i - 1 \notin E}

\* The elements at the places of I, in their order.
Keep(table, I) ==
  [k \in 1 .. Cardinality(I) |->
     table[CHOOSE i \in I : Cardinality({j \in I : j <= i}) = k]]

delete_elems(table, elem) == Keep(table, DOMAIN table \ Erased(table, elem))

\* One element counted into the map from next hops to statistics.
Count(stat, e) ==
  IF e.target \in DOMAIN stat
    THEN [stat EXCEPT ![e.target] = [retries |-> @.retries + e.retries,
                                     success |-> @.success \/ e.acked]]
    ELSE [t \in DOMAIN stat \cup {e.target} |->
            IF t = e.target THEN [retries |-> e.retries, success |-> e.acked] ELSE stat[t]]

NoStatistic == [t \in {} |-> [retries |-> 0, success |-> FALSE]]

\* The map after the loop over the table, in its order.
Statistic(table, recent) ==
  LET upTo[k \in 0 .. Len(table)] ==
        IF k = 0 THEN NoStatistic
        ELSE IF k \in recent THEN Count(upTo[k - 1], table[k])
        ELSE upTo[k - 1]
  IN  upTo[Len(table)]

\* Mutant: next hops that never answered count for nothing.
factor_of_answered(stat) ==
  SumFunction([t \in DOMAIN stat |-> IF stat[t].success THEN stat[t].retries ELSE 0])

\* evaluate_chanl in units of 1/MAXIMUMCOUNTER.
factor_of(stat) ==
  SumFunction([t \in DOMAIN stat |->
                 IF ~stat[t].success THEN MAXIMUMCOUNTER ELSE stat[t].retries])

evaluate_chanl(table, recent) == factor_of(Statistic(table, recent))
=============================================================================
