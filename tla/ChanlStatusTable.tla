-------------------------- MODULE ChanlStatusTable --------------------------
(***************************************************************************)
(* A Chanl_Status_Table under every sequence of the calls UWALOHA makes    *)
(* (sendPkt puts, RecvProcess acknowledges) and of delete_elems, with the  *)
(* history of the calls to judge the table by.                             *)
(***************************************************************************)
EXTENDS ChanlStatus

CONSTANTS Targets,   \* node ids of next hops
          Pkts,      \* pk_num of packets
          MaxPuts    \* bound: how often one packet is sent

ASSUME TableAssumption == Targets \subseteq Nat /\ Pkts \subseteq Nat /\ MaxPuts \in Nat

VARIABLES
  table,
  puts,      \* history: how often each key was put since it was last deleted
  acks       \* history: the keys an acknowledgement came for

vars == <<table, puts, acks>>

Keys == Targets \X Pkts

Init ==
  /\ table = <<>>
  /\ puts = [k \in Keys |-> 0]
  /\ acks = {}

Put(t, p) ==
  /\ puts[<<t, p>>] < MaxPuts
  /\ table' = put_into_table(table, Elem(t, p))
  /\ puts' = [puts EXCEPT ![<<t, p>>] = @ + 1]
  /\ UNCHANGED acks

Ack(t, p) ==
  /\ table' = ack_elem(table, Elem(t, p))
  /\ acks' = acks \cup {<<t, p>>}
  /\ UNCHANGED puts

\* The transmissions the table knows of: the first and each retry.
Sent(tb, t, p) ==
  UNION {{i} \X (0 .. tb[i].retries) : i \in Matches(tb, Elem(t, p))}

\* Nothing is left of a packet, except of one to node 0.
Delete(t, p) ==
  /\ table' = delete_elems(table, Elem(t, p))
  /\ puts' = [puts EXCEPT ![<<t, p>>] = IF t > 0 THEN 0 ELSE Cardinality(Sent(table', t, p))]
  /\ UNCHANGED acks

Next == \E t \in Targets, p \in Pkts : Put(t, p) \/ Ack(t, p) \/ Delete(t, p)

Spec == Init /\ [][Next]_vars

----------------------------------------------------------------------------
\* Every transmission is counted once: put_into_table either adds an element
\* or counts a retry, also for node 0, which find_elem reports as not found,
\* and delete_elems takes what one key was sent and nothing of the others.
TransmissionsCounted ==
  \A t \in Targets, p \in Pkts : Cardinality(Sent(table, t, p)) = puts[<<t, p>>]

\* Only what was acknowledged is marked so; packet 0 never is.
AckedWasAcknowledged ==
  \A i \in DOMAIN table :
    table[i].acked => table[i].pkt > 0 /\ <<table[i].target, table[i].pkt>> \in acks

\* The retries of the elements at the places of I.
Retries(tb, I) == UNION {{i} \X (1 .. tb[i].retries) : i \in I}

\* The factor that goes into an acknowledgement charges a full unit for each
\* next hop none of whose recent packets was acknowledged, and the retries
\* of all recent packets to the others, whatever the order of the elements
\* and whichever of them the 10 second window leaves out.
FactorMatchesDefinition ==
  \A recent \in SUBSET DOMAIN table :
    LET To(t) == {i \in recent : table[i].target = t}
        Charge(t) == IF \E i \in To(t) : table[i].acked THEN Cardinality(Retries(table, To(t)))
                                                       ELSE MAXIMUMCOUNTER
    IN  evaluate_chanl(table, recent) =
          SumFunction([t \in {u \in Targets : To(u) # {}} |-> Charge(t)])
=============================================================================
