# Verification of the underwater sensor network simulator

TLA+ modules, TLC configurations and TLAPS proofs for the NS-2 underwater
simulator in this repository (`uw_common`, `uw_mac`, `uw_routing`,
`uw_mobility_pattern`). The reference is the code; line numbers below are lines
of it. `PROJECT.json` maps every definition to the lines it models.

## 1. The system

A simulated node is a stack of C++ objects wired together by Tcl:

    traffic source / sink    uw_common/uw_sink.cc, uw_sink_vbva.cc
    routing agent            uw_routing/*.cc
    MAC                      uw_mac/*.cc      (subclasses of UnderwaterMac)
    UnderwaterMac            uw_mac/underwatermac.cc
    UnderwaterPhy            uw_mac/underwaterphy.cc
    UnderwaterChannel        uw_mac/underwaterchannel.cc   (shared by all nodes)

A packet goes down by direct calls (`send`, `recv` with direction DOWN,
`sendDown`, `sendUp` of the channel) and comes up at every hearer as a scheduled
event after the propagation delay of that pair. Layers share a packet by pointer
and a node by pointer: `TransmissionStatus` of `UnderwaterSensorNode` is read and
written by the physical layer, by `UnderwaterMac` and by every MAC.

Everything runs on the NS-2 scheduler, which calls one handler at a time. There
are no threads; the concurrency is in the order of events of one node (timers,
ends of transmissions, ends of receptions, packets from above) and of several
nodes. One step of a model is one call of a handler, with everything it calls.
NS-2 aborts the simulation when an event object is scheduled while it is pending
or an idle timer is cancelled, so "never twice pending" is a property, not a
matter of style.

### Inventory

| Component | State | Operations | What is hard | What makes it correct |
|---|---|---|---|---|
| Reception channel (`IncommingChannel`, underwatermac.cc:8-121) | list of arriving packets with status, counter, total power | AddNewPacket, DeleteIncommingPacket, InvalidateIncommingPacket, UpdatePacketStatus | overlaps in every order, statuses revised in place | counter = list; RECEPTION only with capture |
| UnderwaterMac | channel, carrier flag, status event | recv, IncommingChannelProcess, ResetTransmissionStatus, InterruptRecv, Poweron, Poweroff | receptions that outlive power changes and transmissions | RECV iff something arrives; what sleep cut off is not received; every accepted packet handed up once |
| UnderwaterPhy | energy, failure flag | sendUp, sendDown, UpdateIdleEnergy, power | six ways to drop a packet | see UnderwaterMac |
| UWALOHA | queue, status, bo_counter, backoff / wait-ACK / retry timers, channel status table | TxProcess, sendPkt, doBackoff, StatusProcess, RecvProcess, replyACK, retryACK | late ACKs, ACKs blocked by a busy radio, repetitions | no stall, order, acknowledged means received, no empty `front()` |
| Channel status table (chanl_status_table.cc) | list of transmissions with acks and retries | put_into_table, ack_elem, find_elem, delete_elems, evaluate_chanl | ids 0, deletion while iterating | every transmission counted, only answered ones acknowledged |
| Slotted FAMA (sfama.cc) | CachedPktQ_, SendingPktQ_, BackupSendingPktQ_, status, four timers, status event | prepareSendingDATA, scheduleRTS, sendPkt, processRTS/CTS/DATA/ACK, StatusProcess, timers | hidden terminals, trains, lost replies, timers left running | reliable links; data undisturbed |
| VBF (vectorbasedforward.cc) | packet table with window, delay timers | recv, ConsiderNew, timeout, MACsend | late duplicates, decisions taken after a delay on what was heard meanwhile | once per packet, flood ends |
| Sink agent (uw_sink.cc) | target, running_, pk_count, num_recv | start, stop, sendpkt, data_ready, bcast_interest, recv, timeout | replies sent from inside recv | counted once |
| FAMA (FAMA/fama.cc) | status PASSIVE, BACKOFF, WAIT_CTS, WAIT_DATA, WAIT_DATA_FINISH, REMOTE; queue; timers | sendRTS, processRTS, doRemote, doBackoff, processRemoteTimer | doRemote overwrites WAIT_DATA (:257); REMOTE may last | leaves REMOTE, no data lost |
| R-MAC (rmac.cc) | reservation, latency and period tables, TransmissionBuffer, mac_status (8 values) | three phases, TxRev, ProcessRevPacket, ScheduleACKREV, ArrangeReservation, TxData, ProcessACKDataPacket, ProcessRetransmission | windows computed from learned latencies, retransmission against a bitmap, sleep in between | reservations do not overlap; acknowledged bitmap |
| T-MAC (tmac.cc) | silence table, latency and period tables, TransmissionBuffer, mac_status | three phases, TxRTS, ProcessCTSPacket, InsertSilenceTable, TxData, ProcessACKDataPacket | latencies from two clocks; many handlers cancel each other's events; sleep | latencies exact, no event scheduled twice, an awake node has a timer, data disturbed only by who missed the CTS |
| COPE-MAC (copemac.cc) | reservation queue, packets per neighbour, ack waiting list | startHandShake, processMultiRev, processMultiRevAck, processDataAck, ckeckAvailability | parallel reservations on other nodes' clocks | reservations disjoint |
| UWAN-MAC (uwan-mac.cc) | wake schedule queue, contact and neighbour lists, cycle counter | wakeup, sleep, sendoutPkt, processMissingList, SYNCSchedule | schedules learned from SYNCs that may be lost | awake when a neighbour sends |
| Broadcast MAC (broadcastmac.cc) | backoff handler with one packet | TxProcess, RecvProcess, StatusProcess | one backoff slot for many packets | every packet sent or dropped |
| Channel node lists (underwaterchannel.cc:153-370) | sorted list of nodes | addNodeToList, removeNodeFromList, getAffectedNodes | removal at the ends | exactly the nodes in range |
| TransmissionBuffer (uwbuffer.cc) | linked list, current and lock pointers | AddNewPacket, DeletePacket, lookup, LockBuffer | pointers left dangling by DeletePacket | pointers in the list |
| VBVA and its sink (vectorbasedvoidavoidance.cc, uw_sink_vbva.cc) | packet table with the neighbours heard and a status, copies of packets, four kinds of timers | recv, ConsiderNew, recordPacket, processCenteredPacket, processBackpressurePacket, timeouts | a void is found by timers of several nodes; data comes back along several pipes | delivered once; found voids are handled; delivered where a way exists |
| HH-VBF | as VBF | as VBF | one timer for several packets | as VBF |
| static_routing, uw_drouting, uwflooding | routing tables, sequence numbers | recv, send_uw_drouting_pkt, forward_data | stale routes | no loops |
| Mobility, propagation, tools, Tcl and awk scripts | positions, formulas | - | real numbers, I/O | - |

`underwaterstaticmac.cc` defines `IncommingChannel` and `Mac802_11` over again
and is not part of the program; of `vectorbasedforward.cc` and
`vectorbasedforward_hop_by_hop.cc`, which define the same classes, only one can be.

## 2. Modules

    Radio            operators: one node's reception channel and status
    |-- UnderwaterMac      one node: physical layer + base MAC + a sleeping MAC above
    |   `-- MCUnderwaterMac
    |-- Medium             links between nodes with radios
    |   |-- UWALOHA  (with ChanlStatus)        `-- MCUWALOHA
    |   `-- SFAMA    (with ReliableLinks)      `-- MCSFAMA
    `-- TimedMedium        the same links in integer time
        |-- RMAC                               `-- MCRMAC
        `-- TMACDiscovery  operators: phases one and two of T-MAC
            `-- TMAC                           `-- MCTMAC
    ChanlStatus      operators: the channel status table
    `-- ChanlStatusTable   the table under every sequence of operations
    ReliableLinks    abstract: what a MAC with acknowledgements promises
    VBF              routing agent and sink agent `-- MCVBF
    VBVAGeometry     operators: projections, distances and delays in fixed point
    `-- VBVA               void avoidance and its sink `-- MCVBVA
    Proofs, each over the module of its name:
      Radio_proofs         lemmas, used by
      |-- UnderwaterMac_proofs
      |-- UWALOHA_proofs
      `-- SFAMA_proofs
      ChanlStatusTable_proofs, VBF_proofs, VBVA_proofs
      ReliableLinks_proofs (SFAMA_proofs carries its theorems over)

**Style.** A node is a record; a C++ member function is an operator from records
to records of the same name, and composed as in the code. An action is one event
of the scheduler: it applies the handler's operator and then moves what the
handler sent (`out`) to the links. Early returns are disjuncts or nested cases in
the order of the code.

**Radio, Medium, UnderwaterMac.** `AddNewPacket`, `DeleteIncommingPacket`,
`UpdatePacketStatus`, `InvalidateIncommingPacket` are the list operations;
`RecvUp` is the upward half of `recv`, `EndReception` and `ResetCarrierSense` the
two parts of IncommingChannelProcess around RecvProcess. Powers are integers, so
the tests of UpdatePacketStatus against floating-point residue disappear. Signals
are sets of names: two copies of one packet never overlap at one hearer, because a
sender is half-duplex. A link of Medium is first-in first-out because every
frame of a pair of nodes takes the same way (nodes stand still); frames of
different senders overlap freely. UnderwaterMac lets each of a finite set of
signals arrive once, with sleep, wake-up, failure and battery events between.

**UWALOHA, ChanlStatus.** All handlers. Persistent, a probability, is
1.0 or less: with less (0.5 in 3_aloha.tcl:74) a sender throws a coin (`Coin`) and may defer,
which `aloha_line` lets it do each time. Random loss
(node 4, uwaloha.cc:308) and bit errors are choices. Timers fire at any time
after they are set, except that WaitACKTimer outlasts the transmission it
guards, which is what its length is computed for. An address is a natural number
(`nsaddr_t`), and the packets of one node come down numbered in order, as
uw_sink.cc:236 numbers them (`pk_count`). `delete_elems` erases while it iterates: after
an erasure it steps over the next element, so the set of `Erased` places is defined by
"i matches and the place before was not erased". evaluate_chanl's loop is the
recursive function `Statistic` over the table.

**SFAMA.** In slot time: a timer counts slot boundaries, `Boundary` passes one
when nothing is due at this one and no control frame is on its way, because
initSlotLen makes a slot long enough for a control frame and the longest
propagation. A train takes `TrainSlots` slots, computed from the
transmission times as at sfama.cc:495-500. `OneSecond`, `TwoSeconds` are the
literals 1 and 2 of the code, which are added to seconds where slots were meant
(sfama.cc:304), expressed in slots. `UnsetSlotnum` is the uninitialised
`slotnum_` of the status handler. Slot boundaries are exact: the residue of
`getTime2ComingSlot` in floating point is left out. The history `dropped` keeps which
node met a busy radio with what: RTS, CTS and ACK are then lost for good, since nothing
is pending any more (`StallNeedsBusyRadio`); data must never meet one, which is the
first part of `DataUndisturbed` (`NoDataDropped`). No node hears itself: sendUp of the
channel passes over the sender (underwaterchannel.cc:81).

**ReliableLinks** is the abstract specification: per link the sender keeps the
packets in the order they were handed down, any packet it keeps may be handed up by
the receiver (once), and it lets go of the oldest ones when they have arrived. SFAMA
implements it under the mapping `Reliable`: the queue of a link is what
BackupSendingPktQ_, SendingPktQ_ and CachedPktQ_ hold for that receiver, in this
order, so that every move between the three queues, a failed handshake and the
repetition of a train must be a stutter. With more than one packet to a train the
code does not implement it, which is what `sfama_burst` shows; with one packet it
does, on every network (section 5).

**TimedMedium, RMAC.** R-MAC computes windows from latencies and clocks, so time is
an integer here: a copy and a timer hold what is left of their time, and `Tick`
passes time to the next event. Timers that are due fire before signals that are
due at the same instant, because what is sent to arrive in a window arrives
transmission_time_error_ after it opens. A timer per name stands for the event
objects of the code; packets that are events themselves (`scheduled`, `ack_rev`) may
be pending many at a time. `Schedule` of a pending timer sets `abort`, where NS-2
stops. What phases one and two measure, the latency to each neighbour and the
difference of the clocks, is given exactly. An operator that draws a random number
returns a set of records. A REV has size 0 in its header and so its own
transmission time. The layer above hands down a packet as the node wakes up
(`Submit`) or when the buffer of one packet is released (`Refill`). The code reads
entries of the sorted tables that were never written; the model takes them to end
the loop.

**TMACDiscovery, TMAC.** All three phases. In phase one a node measures the delay to
each neighbour from the four stamps of ND and ACKND, in phase two it broadcasts its
next wakeup; both are operators of TMACDiscovery. TMAC starts either in phase one, or
in phase three with latencies that are exact (`Starts`). An event object of the code
is a timer of `at`, and the RTS packets, which are events themselves, are in
`scheduled`. `UnsetSum` is `sumLatency` of a latency record, which is not initialised.
`missed` is history: the node has not got a CTS of that receiver, or had sent by then.
The buffer has one place (MAXIMUM_BUFFER), `Refill` follows a release. The RTS retry
limit is not reached with it.

**VBVAGeometry, VBVA.** Positions are points in the plane; projections on one
vector are compared exactly, desirableness and delays in hundredths and ticks; `Root` is
the integer square root, defined by its inequality (`IsRoot`). `MaxFaults` bounds the
losses and resets of each flow. The
tables are keyed by packet, so the model follows one packet. What is in the
scheduler, frames on their way and timers, is the bag `agenda`, each with what is left
of its time; events due at the same tick come in any order. `ConsiderNew`,
`recordPacket`, `processCenteredPacket`, `processBackpressurePacket`,
`process_forward_timeout` and `process_void_avoidance_timeout` are operators on the
record of the node. The sink counts in `num_recv`. `NoReturn` is what `IsUpstreamNode`
yields where it has no return (:1166), `NoNode` the address in a `forwarder`
that was never assigned (:739); a node whose mark goes astray for that reason is
`unmarked`. A window or a neighbour list that is full is left out.

**VBF.** Geometry is three constants: who hears whom, who is inside the pipe, how
desirable a position is. Copies are lost when sent, and arrive in any order
at any time; a delay timer fires at any time. Both are more than a particular
MAC would do, and the properties hold nevertheless. The window deletes exactly
the keys the loop at :130 deletes. `UWSinkAgent` is folded in: its `send` arrives
at `recv` of its own node's agent without an event in between. `evicted`,
`forwarded`, `counted`, `twice`, `vanished` are history.

## 3. Runs

| Run | Instance | Shows |
|---|---|---|
| `radio` | four signals of powers 9, 3, 2, 1; capture 2; receive threshold 2 | counter, carrier flag and status agree with the list, capture is decided right, what a power-off cut off is not received, every accepted packet handed up exactly once (liveness) |
| `radio_interrupt` | two signals | *violation*: InterruptRecv lets the interrupted reception succeed |
| `aloha_line` | three nodes in a line, three packets (two and one between neighbours, or one for each node), bit errors, random loss at node 4, Persistent below 1.0, MaxSends 4 | timers accompany WAIT_ACK, stalls only after a busy radio, acknowledged means received, order, half-duplex, the empty queue is only reached after a blocked ACK |
| `aloha_lateack` | two nodes, MaxInFlight 3 | *violation*: a late ACK completes another packet (uwaloha.cc:276 says it is ignored) |
| `table` | two next hops (one with id 0), two packets | counting, acks, and evaluate_chanl against a definition without order |
| `sfama_line` | three nodes, five packets, MaxBurst 1, trains of three slots | refinement of ReliableLinks, stalls only after a control frame met a busy radio, no abort, data never meets one and is undisturbed |
| `sfama_burst` | two nodes, MaxBurst 2 | *violation*: one ACK releases a packet that never left (sfama.cc:783, :392) |
| `rmac_star` | a centre and two ends that do not hear each other; the ends send to the centre, or one end sends to the centre and the centre to the other; noise destroys any one frame | data computed in three clocks arrives in its window and alone there; a packet is released unreceived only if an ACKREV or the data was lost; the scheduler aborts only after an ACKDATA made a busy node IDLE |
| `rmac_stale` | the ends send to the centre, two ACKDATA may be lost | *violation*: a request that was answered and deleted is chosen again (rmac.cc:1157, :1223) |
| `tmac_line` | three nodes on a line: discovery from the start, or two senders that do not hear each other, or a queue of two packets, or a relay; noise destroys any one frame | latencies and wakeups learned are exact but for what the sum began with, released means received, no event scheduled twice, an awake node waits for something, data is disturbed only by who missed the CTS |
| `vbf_flood` | diamond of four and line of three nodes, window 1, three packets | once per packet within the window, a relay that is good enough keeps quiet only behind another relay, the flood ends (liveness) |
| `vbva_void` | four networks: two relays in the pipe; a void with a detour; the twelve nodes of vbva_example.tcl; two relays that lead nowhere; up to two lost frames or table resets in the first two | the sink counts once, a target refuses data, or a stuck node does nothing, only after a fault, and the packet arrives (liveness) |

**Bounds.** Radio: four signals are the least with a captured overlap of three and
one below the threshold; every signal arrives once. ALOHA: MaxSends bounds the
repetitions, which the code does not bound since replyACK clears bo_counter (:401);
four transmissions leave room for a timeout, a repetition and a late ACK. SFAMA: MaxBackoffSlots 2 lets two contenders draw equal or different
slots; three slots to a train is the longest train for which `DataUndisturbed`
holds: with two, no frame meets a busy radio at all, so two would show less; with
four, a node that missed the CTS while it was sending its own RTS comes back
before the train is over and disturbs it. That is the known limit of backing off
after an overheard RTS, and the property is stated within it. VBF: with window 1
the third packet evicts the first, which is the smallest history with an
eviction; the diamond is the smallest network where two relays hear each other.
MAX_NEIGHBOR is 3 (10 in the code), HopByHop FALSE as in the scripts.

R-MAC: clocks 12, 0 and 23 of a period of 40 put the three duty cycles apart and
the windows of the ends on both sides of the centre's; propagation 2 and 3 differ;
Duration 11 leaves a choice of slots, none of which ends exactly as the receiver
falls asleep, a tie that real numbers do not have. One lost frame of any type
reaches every path of retransmission; two lost ACKDATA are the least for `rmac_stale`.
UnsetBit has both values for a bitmap that was never written.

T-MAC: ticks of 4 ms, short transmissions 1 or 2, large ones 12 or 13, the windows and
the period in proportion to the constructor's values. The random numbers are 0, 3
and 9 tenths: two answers at once, one after the other, and one at the end of the window.
Node 1 captures (power 2 against 1, threshold 2), so both a collision and a capture
occur. PhaseOne_cycle is 1. One lost frame of any type reaches every timeout.

VBVA: 50 m per tick, DELAY 30 and JITTER 3 ticks, jitters 0 and 3, so that relays
within a jitter of each other forward in either order. The networks are the least in
which each mechanism is needed: pipe, vector shift, expansion, backpressure to the
source. Faults are confined to the first two.

**Deadlock** is not checked: traffic of ALOHA and SFAMA is finite, R-MAC stops where
the scheduler aborts (`AbortNeedsACKData` says when), T-MAC when the periods are
over, VBVA when its one packet is gone, and a node of ALOHA or SFAMA
really stops when its data meets a busy radio; `StallNeedsBusyRadio` says that this
is the only reason.

**Fairness.** `UnderwaterMac`: weak fairness of RecvHandler for every packet, since
the NS-2 scheduler runs every event that was scheduled. `VBF`: weak fairness of
the arrival of copies and of each node's delay timer, for the same reason. Tcl
commands and sink timers have no fairness. `VBVA`: weak fairness of what is due
(`Event`), of time (`Tick`) and of the one order to send, since the scheduler runs
what is due and then goes on. No other run has a liveness property.

## 4. Disagreements between code and documentation

Shown by runs: `radio_interrupt`, `aloha_lateack`, `sfama_burst`, `rmac_stale`
(section 3).
Met while reading, without a run:

- underwatermac.cc:92-111: UpdatePacketStatus judges every packet on the list by its power,
  also those that are INVALID: a packet that was cut off by a power-off becomes RECEPTION
  again at the next arrival if it is strong enough, and is then handed up as received.
- underwaterphy.cc:255/291: error() set from failure_pro_ is overwritten by the
  bit-error decision of the same call.
- uwaloha.cc:195/245: a blocked ACK makes a node that waits for one PASSIVE.
- uwaloha.cc:77: a packet that is given up leaves the queue without notice.
- chanl_status_table.cc:57: erasing while iterating skips an element.
- sfama.cc:625: "cannot reach here" is reached at the end of every train.
- sfama.h: data_sending_interval_ is an int, so 0.0000001 becomes 0.
- rmac.cc:2709: TxACKData makes its node RMAC_IDLE whatever it was, so that a timer may
  be scheduled while it is pending.
- rmac.cc:793, :2656: a window in which nothing came is closed with an ACKDATA all the
  same, from an older bitmap or one never written; rmac.cc:2489 says that losses
  are not considered.
- rmac.cc:1493: DeleteRecord lowers the index inside its loop and loses entries.
- rmac.cc:1690-1765: DetermineSendingTime goes on after it has found its slot, starts again
  at every gap, reads past the table, and divides by zero when a duty cycle has no slot.
- Two nodes of R-MAC with packets for each other may both wait for an ACKREV in every
  period, because a REV counts only in RMAC_IDLE (:2505).
- rmac.cc:708: collect_rev stays TRUE once set, so requests are collected for one period
  instead of the two of the comment at rmac.cc:5-6.
- underwaterphy.cc:416: UpdateIdleEnergy returns before it reschedules its timer when
  the radio is off, so idle energy is never again accounted on the timer.
- tmac.cc, getTxTime: packet sizes, which tmac-example.tcl:27 sets in bits, are multiplied
  by 8.
- tmac.cc: sumLatency starts uninitialised; silence_table is written without a bound;
  a node overwrites its own confirmed record; TxRTS or TxCTS in SEND leaves no timer of its
  own; the retry limit of RTS is not reached; with more than one PhaseTwo_cycle the
  further ones never run; after a lost ACK the data is handed up a second time.
- sfama.cc:654: slotnum_ of the status handler is used uninitialised when a
  transmission ends in an unexpected status.
- vectorbasedvoidavoidance.cc:739, :799: `forwarder` is never assigned in
  processBackpressurePacket, so the mark goes to whatever node its value names, and
  a stuck node may never find out that it is stuck: without the clause `unmarked`
  `Delivered` fails.
- vectorbasedvoidavoidance.cc:1166: a path of IsUpstreamNode has no return.
- vectorbasedvoidavoidance.cc:1422: process_forward_timeout ignores TERMINATED, whose
  test is commented out.
- vectorbasedvoidavoidance.cc:1487: the delay of V_SHIFT is set before the status
  changes, so relays send V_SHIFT where the source sends EXPENSION.
- vectorbasedvoidavoidance.cc:1595: a node that is FLOODED without a copy of the packet
  sends no backpressure.
- vectorbasedvoidavoidance.cc, recv: INTEREST and DATA_READY are dropped without
  being freed, so their cases in ConsiderNew are dead; IsVoidNode (:1970) counts a single
  forwarder it overheard as the node's own record.
- vectorbasedforward.cc:528: recv dereferences begin() of a neighbour set that may be
  empty (the constant NextHops).
- vectorbasedforward.cc:515: a duplicate is freed by the drop target and again.
- vectorbasedforward.cc:586: an INTEREST never reaches UWSinkAgent::recv.
- vectorbasedforward_hop_by_hop.cc:691: one rescheduled timer for all packets, so
  a second packet overwrites the first.

## 5. Proofs

TLAPS checks the following for all values of the constants, from the named
assumptions only. In each module there is one lemma per operator of the model, which says that the
operator keeps what the invariant says of a node, one per action, and one that
collects the actions; the theorems follow from the invariant.

| Module | Theorem | Property |
|---|---|---|
| UnderwaterMac_proofs | TypeCorrect, CaptureCorrect, BookkeepingCorrect, AsleepCorrect, ArrivingCorrect | all safety properties of `radio` |
| | AbortCorrect | the only cause of the abort that `AcceptedIsHandedUp` excuses |
| UWALOHA_proofs | TypeCorrect, HalfDuplexCorrect, WaitingCorrect, CrashCorrect, StallCorrect, AckedCorrect, OrderCorrect | all properties of `aloha_line` |
| ChanlStatusTable_proofs | CountedCorrect, AckedCorrect, FactorCorrect | all properties of `table` |
| SFAMA_proofs | TypeCorrect, StallCorrect | two of `sfama_line`, for trains of any length |
| | HandshakesHold, SingleNeverAborted, SingleIsReliable, SingleNothingLost, SingleReleasedWasReceived | for trains of one packet: two more of `sfama_line`, and what `sfama_burst` refutes for longer ones |
| ReliableLinks_proofs | SpecNothingLost, SpecPlaced | what the abstraction promises |
| VBF_proofs | TypeCorrect, OnceCorrect | all invariants of `vbf_flood` |
| | NeighboursCorrect | what a relay weighs itself against are nodes it can hear |
| VBVA_proofs | TypeCorrect, OnceCorrect | two of `vbva_void` |

**UnderwaterMac** (`PacketsAssumption`: finitely many packets with natural powers;
`CPThreshAssumption`: the threshold is positive; `RXThreshAssumption`).
The inductive invariant is

    IInv == TypeOK /\ RadioInv(Packets, radio) /\ ArrivingIsOnChannel
              /\ CutIsInvalid /\ AbortNeedsPowerChange /\ PendingWhileSending

Few of the parts are inductive alone. The counter is right only if a packet is
never added twice, which needs ArrivingIsOnChannel; the carrier flag and the
status are reset in time only if the counter is right; and capture survives a
departure only because the total falls by the power of the leaving packet, so noise
never grows (`ScaledNoise`). What was cut off (`cut`) is INVALID until a packet is
accepted, which is why it is not received (AsleepCorrect); and while the status event is
pending the radio sends unless its power was switched (`PendingWhileSending`), so that
a second one is scheduled only then (AbortCorrect). Radio_proofs has one lemma per operator of Radio, for
any finite set of signals, and is used for the nodes of UWALOHA and SFAMA as well.

**UWALOHA** (MediumAssumption, UWALOHAAssumption; every finite network, traffic and
loss). IInv has three parts.
*Nodes*: `Good(n, mac[n], ...)` ties a node's status to its timers, its radio to the
frames on its links (RadioInv for the senders it hears), what it may send to its
queue and to what it has received. That a waiting node's packet is still at the
head of its queue (`InStep`) holds only until an ACK of the node is blocked,
because a blocked ACK makes the node PASSIVE whatever it waited for; this is what
`CrashCorrect` and `StallCorrect` are about, which name blocked frames.
*Links*: each frame is one its sender could have sent.
*Order*: along todo, queue, link and receiver, numbers never go back: what was last
passed up is no newer than any data on the link, this than any in the queue, this
than any still to be submitted. OrderCorrect needs the whole chain, since a
repetition may be on the link while the queue has gone on.

**ChanlStatusTable** (its assumption on ids only; tables of any length). IInv
holds with the types that a next hop with a positive id has at most one element per
packet, that for each key the transmissions in the table are those counted by the
history, and that a mark belongs to a key that was acknowledged. The loops are the
work: that the places erased are definite although the set refers to itself, that
the loop over the table has a value at each element (both by least
counterexample, as there is no induction theorem at hand), that what is kept stands
in its old order (`Moved`), and that the loop with its map computes what the
definition without order says (`CountRight`, `StatisticRight`).

**SFAMA**, trains of any length (MediumAssumption, SFAMAAssumption; every network, length
of train, slot, packet). A node that is engaged has something pending that will move it
(`Engaged`, `Pending`), unless its radio was busy for a control frame; this is inductive only with two
parts that say which timer it is: in WAIT_SEND_DATA WaitReplyTimer is still running,
because the end of the data sets none, and packets in BackupSendingPktQ_ have the data
timer. That the channel lists only senders with a frame on
their link is needed for the radio part. `SlotsOfTrain` shows that a train takes
two slots at least, whatever the division in prepareSendingDATA drops.

**SFAMA**, trains of one packet (`MaxBurst = 1`, the default of sfama.cc:67; every
network, traffic, slot, packet length and backoff). What ties nodes together is where
each handshake stands. JInv says it in four parts. *Posture*, of each node: which status
goes with which timers, which frame is due, and how far the train is. *Ledger*, of each
ordered pair n, h of neighbours: an RTS from n, or the CTS that h owes for it, exists only
while n is at most one slot past its RTS and its train is for h (`Asked`); a CTS that is due
now or on its way finds n in the slot in which it waits for it (`Granted`); there is at most
one copy of a packet on the link and it is the one of the train (`Carried`); and while an
ACK is due or on its way, there is only one, no packet is on the way, and h has handed up
just the packet that n holds as its train (`Owed`). This is the hard part: an ACK
carries no number (sfama.cc:379), so that it releases the right packet holds only because no older ACK
can still be there. *Stamps*: frames say who sent them and answer only nodes that hear.
*Todo*: what is still to be submitted is of the traffic. The parts hold each other up:
that the CTS is in time needs that the RTS was, that the data is alone needs that the CTS
was in time, and that the ACK is alone needs both. The slots enter where a boundary passes
only when no control frame is on its way.

JInv is kept by every step except one: a packet that is due while the radio is busy is
freed (sfama.cc:783) and the train goes on as if it had left. So the inductive invariant
is

    Handshakes == IInv /\ HistoryOK /\ (NoDataDropped => JInv)

and the theorems that follow have the hypothesis NoDataDropped. It says of the run only
that no packet of data met a busy radio, and nothing of collisions, hidden terminals,
missed answers, control frames that meet a busy radio, or timeouts, all of which are
covered. The reservation is there to make it true, but does so only within
timing relations between nodes that are two hops apart: on the line of `sfama_line`,
with trains of three slots, `DataUndisturbed` checks it in every reachable state; a
train of four slots or more breaks it (section 3, Bounds).

- `SingleNeverAborted`: the status event is not scheduled twice. A train ends before its
  node moves on, since the timer for the ACK outlasts it.
- `SingleIsReliable`: the refinement. Only three steps change the queue of a link or what
  arrived: Submit is the abstract Submit, a DATA frame that is processed is a HandUp of the
  packet at the head of the queue (or a repetition, a stutter), an ACK that is processed is a
  Release of one packet, and everything else, among it every move between the three queues,
  is a stutter. The queue of a link is a projection of the three queues in a row
  (`For`), so lemmas say what appending, taking a train and ending one do to it.
- `SingleNothingLost` takes SpecNothingLost of ReliableLinks through the refinement.
- `SingleReleasedWasReceived`: what a node has released its neighbour has handed up. The
  packets of a node must have different numbers (`Numbered`), since the property
  speaks of numbers. With two packets to a train `sfama_burst` shows it false.

**VBF** (VBFAssumption; every network, geometry, window and script). The
invariant IInv of TypeCorrect and NeighboursCorrect
holds two parts that carry each other: Good(n, node[n]), by which the table of every
node has entries of bounded length that name only nodes it can hear (or itself, for
its own packets), and whatever a step sends is signed by n; and GoodCopy for every
copy in the air, which says that its forwarder is heard by its receiver. A table is
filled from the air and the air from what nodes sign, so neither half is inductive
alone. OnceCorrect adds OnceInv on top: a key that is in no table and not evicted
has not been forwarded, counted or set pending; one that is pending was not
forwarded and is pending once; and no packet, wherever it is, has a number that its
sender has not yet issued, without which a source could meet its own next packet.

**VBVA** (the assumptions of VBVAGeometry and VBVA; every placement, range, width,
flow and any number of faults). Types include that every timer is set to a natural
number of ticks, which depends on geometry: a copy other than a DATA_TERMINATION never
comes from the target, so the vector it is projected on has a length; a frame comes
from a node in range, so `ForwardDelay` is no earlier than now; `Root` exists and
is the root (`RootFacts`). DeliveredOnce needs that the target keeps no copy, sets no
timer, and after it has counted is TERMINATED for good, and that before the source sends
every node knows nothing of the packet.

**ReliableLinks** (no assumption). `SpecNothingLost`: what the sender of a link has let
go of has arrived, and it keeps the rest in the order it was handed down; the
invariant is NothingLost with the types of the variables, by one lemma per action.
`SpecPlaced`: every packet is handed down, kept and handed up only on its link.

**Only model-checked.**

- Liveness (`AcceptedIsHandedUp`, `EventuallyQuiet`, `Delivered`), which is out of
  the prover's reach.
- SFAMA: `DataUndisturbed`, and with it that no packet of data meets a busy radio, rests
  on slot timing of nodes two hops apart and holds only for trains of up to three slots.
  `NeverAborted` and `ReliableSpec` are proved from NoDataDropped; that they hold
  on `sfama_line` without it is checked. `NeverAborted` for longer trains is neither
  proved nor checked.
- VBF: `QuietOnlyBehindARelay`. It rests on `HearsOthers`, and its invariant would have to
  say that as long as no relay has forwarded a packet, each node is told of it once, by the source.
- VBVA: `TargetNeverRefuses` and `FloodedIsHandled` compare delays along different
  paths of concrete networks; they are not consequences of a local invariant.
- RMAC: `TypeOK`, `LossNeedsLostData`, `AbortNeedsACKData`, `DataMeetsItsWindow`, and
  TMAC: `TypeOK`, `LearnedIsExact`, `ReleasedWasReceived`, `NeverAborted`,
  `AwakeHasTimer`, `DisturberMissedCTS`. Their invariants would have to relate the
  timers of several nodes in integer time. They are checked, not proved.

## 6. Not modelled

Real numbers (propagation, energy, positions, mobility), which enter as
constants or choices; memory management, whose errors are listed in section 4;
trace and statistics output; Tcl binding; sense areas, periodic interests and
target address 0 of VBF; the delay before a sink timer fires;
several packets at once and full tables in VBVA. In VBVA the position of every node, and
the position of the target that packets carry, are taken as known throughout;
calculatePosition (vectorbasedvoidavoidance.cc:576) looks a node's own up for a new DATA packet only. Whole components:
those marked not_modelled in `PROJECT.json`.

## 7. Plan

1. **Proofs**: the types and the timer invariant (`AwakeHasTimer`) of T-MAC; the types
   of R-MAC; for SFAMA, the condition on slots and network under which no packet of data
   meets a busy radio.
2. **R-MAC**, rest: phases one and two, which resemble those of TMACDiscovery, and a
   buffer of several packets with its current and lock pointers.
3. **COPE-MAC, FAMA, UWAN-MAC, broadcast MAC**, in place of a run that shows less:
   the suite is kept short enough to be run on every change.
4. **VBVA** with two packets, a full window and a full buffer.
5. The channel node lists and uw_drouting as pure algorithms.
