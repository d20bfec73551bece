------------------------ MODULE ReliableLinks_proofs ------------------------
(* NothingLost is inductive together with the types; so is that every      *)
(* packet is on its link.                                                  *)
EXTENDS ReliableLinks, TLAPS

Typed ==
  /\ submitted \in [Links -> Seq(Packets)]
  /\ queue \in [Links -> Seq(Packets)]
  /\ arrived \in [Links -> SUBSET Packets]

\* What the link of l keeps and has let go of.
Kept(l) ==
  /\ Gone(l) \in 0 .. Len(submitted[l])
  /\ \A i \in 1 .. Gone(l) : submitted[l][i] \in arrived[l]
  /\ \A i \in 1 .. Len(queue[l]) : queue[l][i] = submitted[l][Gone(l) + i]

IInv == Typed /\ NothingLost

\* The initial states satisfy the invariant.
LEMMA InitIInv == Init => IInv
BY DEF Init, IInv, Typed, NothingLost, Gone

\* A link that a step leaves alone stays as it is.
LEMMA OtherLink ==
  ASSUME NEW l \in Links, NothingLost,
         submitted'[l] = submitted[l], queue'[l] = queue[l], arrived'[l] = arrived[l]
  PROVE  Kept(l)'
BY DEF NothingLost, Kept, Gone

\* Counting on a link: s were handed down, q are kept, and the i-th of those that
\* are kept is meant, or k are let go of.
LEMMA Counting ==
  ASSUME NEW s \in Nat, NEW q \in Nat, s - q \in 0 .. s
  PROVE  /\ s - q + (q + 1) = s + 1
         /\ \A i \in 1 .. q : s - q + i \in 1 .. s
         /\ \A k \in 1 .. q : s - (q - k) = s - q + k /\ s - (q - k) \in 0 .. s
OBVIOUS

\* A packet more is kept, at the end of its queue.
LEMMA SubmitIInv ==
  ASSUME IInv, NEW l \in Links, NEW p \in Packets, Submit(l, p)
  PROVE  IInv'
<1>1. Typed'
  BY DEF IInv, Typed, Submit
<1>2. ASSUME NEW m \in Links PROVE Kept(m)'
  <2>1. CASE m # l
    BY <2>1, OtherLink DEF IInv, Typed, Submit
  <2>2. CASE m = l
    <3>1. submitted[l] \in Seq(Packets) /\ queue[l] \in Seq(Packets)
      BY DEF IInv, Typed
    <3>2. submitted'[l] = Append(submitted[l], p) /\ queue'[l] = Append(queue[l], p)
          /\ arrived'[l] = arrived[l]
      BY DEF IInv, Typed, Submit
    <3>3. Gone(l)' = Gone(l) /\ Len(submitted'[l]) = Len(submitted[l]) + 1
          /\ Len(queue'[l]) = Len(queue[l]) + 1
      <4>1. Len(submitted'[l]) = Len(submitted[l]) + 1 /\ Len(queue'[l]) = Len(queue[l]) + 1
        BY <3>1, <3>2
      <4>2. Len(submitted[l]) \in Nat /\ Len(queue[l]) \in Nat
        BY <3>1
      <4> QED BY <4>1, <4>2 DEF Gone
    <3>4. Gone(l) \in 0 .. Len(submitted[l])
      BY DEF IInv, NothingLost
    <3>5. \A i \in 1 .. Gone(l) : submitted'[l][i] \in arrived'[l]
      BY <3>1, <3>2, <3>4 DEF IInv, NothingLost
    <3>6. ASSUME NEW i \in 1 .. Len(queue'[l])
          PROVE  queue'[l][i] = submitted'[l][Gone(l) + i]
      <4>1. CASE i = Len(queue[l]) + 1
        <5>1. queue'[l][i] = p
          BY <4>1, <3>1, <3>2
        <5>2. Gone(l) + i = Len(submitted[l]) + 1
          <6>1. Len(submitted[l]) \in Nat /\ Len(queue[l]) \in Nat
            BY <3>1
          <6> QED BY <6>1, <4>1, <3>4, Counting DEF Gone
        <5>3. submitted'[l][Len(submitted[l]) + 1] = p
          BY <3>1, <3>2
        <5> QED BY <5>1, <5>2, <5>3
      <4>2. CASE i \in 1 .. Len(queue[l])
        <5>1. Gone(l) + i \in 1 .. Len(submitted[l])
          <6>1. Len(submitted[l]) \in Nat /\ Len(queue[l]) \in Nat
            BY <3>1
          <6> QED BY <6>1, <4>2, <3>4, Counting DEF Gone
        <5>2. queue'[l][i] = queue[l][i]
          BY <4>2, <3>1, <3>2
        <5>3. submitted'[l][Gone(l) + i] = submitted[l][Gone(l) + i]
          BY <5>1, <3>1, <3>2
        <5> QED BY <4>2, <5>2, <5>3 DEF IInv, NothingLost
      <4> QED BY <4>1, <4>2, <3>1, <3>3
    <3> QED BY <2>2, <3>1, <3>3, <3>4, <3>5, <3>6 DEF Kept
  <2> QED BY <2>1, <2>2
<1> QED BY <1>1, <1>2 DEF IInv, NothingLost, Kept

\* Handing a packet up moves none that is kept.
LEMMA HandUpIInv ==
  ASSUME IInv, NEW l \in Links, NEW k \in 1 .. Len(queue[l]), HandUp(l, k)
  PROVE  IInv'
<1>1. Typed'
  <2>1. queue[l][k] \in Packets
    BY DEF IInv, Typed
  <2> QED BY <2>1 DEF IInv, Typed, HandUp
<1>2. \A m \in Links : arrived[m] \subseteq arrived'[m]
  BY DEF IInv, Typed, HandUp
<1>3. NothingLost'
  BY <1>2 DEF IInv, NothingLost, Gone, HandUp
<1> QED BY <1>1, <1>3 DEF IInv

\* The oldest packets are let go of once they have arrived.
LEMMA ReleaseIInv ==
  ASSUME IInv, NEW l \in Links, NEW k \in 1 .. Len(queue[l]), Release(l, k)
  PROVE  IInv'
<1>1. queue[l] \in Seq(Packets) /\ submitted[l] \in Seq(Packets)
  BY DEF IInv, Typed
<1>2. queue'[l] = SubSeq(queue[l], k + 1, Len(queue[l]))
  BY DEF IInv, Typed, Release
<1>3. queue'[l] \in Seq(Packets) /\ Len(queue'[l]) = Len(queue[l]) - k
  BY <1>1, <1>2
<1>4. Typed'
  BY <1>2, <1>3 DEF IInv, Typed, Release
<1>5. ASSUME NEW m \in Links PROVE Kept(m)'
  <2>1. CASE m # l
    BY <2>1, OtherLink DEF IInv, Typed, Release
  <2>2. CASE m = l
    <3>1. submitted'[l] = submitted[l] /\ arrived'[l] = arrived[l]
      BY DEF Release
    <3>2. Len(submitted[l]) \in Nat /\ Len(queue[l]) \in Nat
      BY <1>1
    <3>3. /\ Gone(l) \in 0 .. Len(submitted[l]) /\ Gone(l)' = Gone(l) + k
          /\ Gone(l)' \in 0 .. Len(submitted'[l])
      <4>1. Gone(l) \in 0 .. Len(submitted[l])
        BY DEF IInv, NothingLost
      <4>2. Gone(l)' = Len(submitted[l]) - (Len(queue[l]) - k)
        BY <1>3, <3>1 DEF Gone
      <4> QED BY <4>1, <4>2, <3>1, <3>2, Counting, ZenonT(30) DEF Gone
    <3>4. ASSUME NEW i \in 1 .. Gone(l)'
          PROVE  submitted'[l][i] \in arrived'[l]
      <4>1. CASE i \in 1 .. Gone(l)
        BY <4>1, <3>1 DEF IInv, NothingLost
      <4>2. CASE i \in Gone(l) + 1 .. Gone(l) + k
        <5>1. i - Gone(l) \in 1 .. k /\ i - Gone(l) \in 1 .. Len(queue[l])
          BY <4>2, <3>2, <3>3
        <5>2. queue[l][i - Gone(l)] = submitted[l][Gone(l) + (i - Gone(l))]
          BY <5>1 DEF IInv, NothingLost
        <5>3. Gone(l) + (i - Gone(l)) = i
          BY <4>2, <3>3
        <5> QED BY <5>1, <5>2, <5>3, <3>1 DEF Release
      <4> QED BY <4>1, <4>2, <3>3
    <3>5. ASSUME NEW i \in 1 .. Len(queue'[l])
          PROVE  queue'[l][i] = submitted'[l][Gone(l)' + i]
      <4>1. queue'[l][i] = queue[l][k + i] /\ k + i \in 1 .. Len(queue[l])
        <5>1. i \in 1 .. Len(queue[l]) - k
          BY <1>3
        <5>2. k \in Nat /\ k <= Len(queue[l])
          BY <1>1
        <5>3. \A n \in 1 .. Len(queue[l]) - k :
                 /\ SubSeq(queue[l], k + 1, Len(queue[l]))[n] = queue[l][k + n]
                 /\ k + n \in 1 .. Len(queue[l])
          BY <1>1, <5>2
        <5> QED
          BY <1>2, <5>1, <5>3
      <4>2. queue[l][k + i] = submitted[l][Gone(l) + (k + i)]
        BY <4>1 DEF IInv, NothingLost
      <4>3. Gone(l) + (k + i) = Gone(l)' + i
        BY <3>3
      <4> QED BY <4>1, <4>2, <4>3, <3>1
    <3> QED BY <2>2, <3>3, <3>4, <3>5 DEF Kept
  <2> QED BY <2>1, <2>2
<1> QED BY <1>4, <1>5 DEF IInv, NothingLost, Kept

\* Every step keeps the invariant.
LEMMA NextIInv == IInv /\ [Next]_vars => IInv'
<1> SUFFICES ASSUME IInv, [Next]_vars PROVE IInv'
  OBVIOUS
<1>1. CASE Next
  BY <1>1, SubmitIInv, HandUpIInv, ReleaseIInv DEF Next
<1>2. CASE UNCHANGED vars
  BY <1>2 DEF vars, IInv, Typed, NothingLost, Gone
<1> QED BY <1>1, <1>2

\* What the sender of a link has let go of has arrived, and it keeps all the
\* rest in order.  Whatever implements ReliableLinks has this property too.
THEOREM SpecNothingLost == Spec => []NothingLost
BY InitIInv, NextIInv, PTL DEF Spec, IInv

\* Every packet is on the link that it is for.
Placed ==
  \A l \in Links :
    /\ \A i \in DOMAIN submitted[l] : LinkOf(submitted[l][i]) = l
    /\ \A i \in DOMAIN queue[l] : LinkOf(queue[l][i]) = l
    /\ \A p \in arrived[l] : LinkOf(p) = l

\* A packet that is appended, and those left by a cut, are where the others were.
LEMMA PlacedSeq ==
  ASSUME NEW l \in Links, NEW s \in Seq(Packets), \A i \in DOMAIN s : LinkOf(s[i]) = l
  PROVE  /\ \A p \in Packets : LinkOf(p) = l =>
                \A i \in DOMAIN Append(s, p) : LinkOf(Append(s, p)[i]) = l
         /\ \A k \in 1 .. Len(s) : \A i \in DOMAIN SubSeq(s, k + 1, Len(s)) :
                LinkOf(SubSeq(s, k + 1, Len(s))[i]) = l
<1>1. ASSUME NEW p \in Packets, LinkOf(p) = l, NEW i \in DOMAIN Append(s, p)
      PROVE  LinkOf(Append(s, p)[i]) = l
  <2>1. Append(s, p)[i] = p \/ (i \in DOMAIN s /\ Append(s, p)[i] = s[i])
    OBVIOUS
  <2> QED
    BY <1>1, <2>1
<1>2. ASSUME NEW k \in 1 .. Len(s), NEW i \in DOMAIN SubSeq(s, k + 1, Len(s))
      PROVE  LinkOf(SubSeq(s, k + 1, Len(s))[i]) = l
  <2>1. k + i \in DOMAIN s /\ SubSeq(s, k + 1, Len(s))[i] = s[k + i]
    OBVIOUS
  <2> QED
    BY <2>1
<1> QED
  BY <1>1, <1>2

\* Every packet stays on its link: it is handed up only where it was handed down for.
THEOREM SpecPlaced == Spec => [](Typed /\ Placed)
<1>1. Init => Placed
  <2>1. DOMAIN <<>> = {}
    OBVIOUS
  <2> QED
    BY <2>1 DEF Init, Placed
<1>2. IInv /\ Placed /\ [Next]_vars => Placed'
  <2> SUFFICES ASSUME IInv, Placed, [Next]_vars PROVE Placed'
    OBVIOUS
  <2>1. ASSUME NEW l \in Links, NEW p \in Packets, Submit(l, p) PROVE Placed'
    <3>1. LinkOf(p) = l
      BY <2>1 DEF Submit
    <3> QED
      BY <2>1, <3>1, PlacedSeq DEF Submit, Placed, IInv, Typed
  <2>2. ASSUME NEW l \in Links, NEW k \in 1 .. Len(queue[l]), HandUp(l, k) PROVE Placed'
    <3>1. k \in DOMAIN queue[l]
      BY DEF IInv, Typed
    <3> QED
      BY <2>2, <3>1 DEF HandUp, Placed, IInv, Typed
  <2>3. ASSUME NEW l \in Links, NEW k \in 1 .. Len(queue[l]), Release(l, k) PROVE Placed'
    BY <2>3, PlacedSeq DEF Release, Placed, IInv, Typed
  <2>4. CASE UNCHANGED vars
    BY <2>4 DEF vars, Placed
  <2> QED
    BY <2>1, <2>2, <2>3, <2>4 DEF Next
<1>3. IInv /\ [Next]_vars => IInv'
  BY NextIInv
<1>4. IInv => Typed
  BY DEF IInv
<1> QED
  BY <1>1, <1>2, <1>3, <1>4, InitIInv, PTL DEF Spec
=============================================================================
