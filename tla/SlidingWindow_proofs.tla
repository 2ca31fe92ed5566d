------------------------ MODULE SlidingWindow_proofs ------------------------
(***************************************************************************)
(* The properties of SlidingWindow for every window, lag and volume.       *)
(*                                                                         *)
(* WindowExact is not inductive: it says nothing of what each bucket       *)
(* holds.  RingInv does: a bucket either was never used or holds traffic   *)
(* of one recorded second of its residue class, all of it unless the       *)
(* second was displaced; and a recorded second newer than the one its      *)
(* bucket holds was displaced.  Two seconds that share a bucket are at     *)
(* least a window apart (ModSpread): a bucket that has moved on has moved  *)
(* beyond the window, and only a flow a window late can take it back.      *)
(***************************************************************************)
EXTENDS SlidingWindow, CodeLemmas

\* A used bucket: bucket i holds traffic of a recorded second, and all of it
\* unless the second was displaced.
Holds(i) ==
  /\ ring[i].timestamp \in Times
  /\ ring[i].timestamp <= newest
  /\ ring[i].timestamp % Window = i
  /\ \A m \in Measure : ring[i].sum[m] <= recorded[ring[i].timestamp][m]
  /\ ring[i].timestamp \notin displaced =>
        ring[i].sum = recorded[ring[i].timestamp]

BucketsFaithful ==
  \A i \in 0 .. (Window - 1) : ring[i].timestamp = 0 \/ Holds(i)

NoneNewer ==
  \A t \in Times :
     recorded[t] # NoTraffic =>
        /\ t <= newest
        /\ t <= ring[t % Window].timestamp \/ t \in displaced

RingInv == TypeOK /\ BucketsFaithful /\ NoneNewer

-----------------------------------------------------------------------------
\* The index of a second is an index of the ring.
LEMMA IndexInRing ==
  ASSUME NEW t \in Nat
  PROVE  t % Window \in 0 .. (Window - 1)
BY WindowAssumption

\* What a recorded flow does to the bucket it falls into, and to the others.
LEMMA RecordEffect ==
  ASSUME TypeOK, NEW t \in Times, NEW volume \in Volume
  PROVE  AddedTo(AddInstantFlow(Window, ring, t, volume), Window, ring, t, volume)
<1>1. t \in Nat /\ volume \in [Measure -> Nat] /\ ring \in Ring(Window)
  BY TimeAssumption, VolumeAssumption DEF Times, TypeOK
<1>2. QED
  BY <1>1, WindowAssumption, AddEffect

LEMMA InitRingInv == Init => RingInv
<1> SUFFICES ASSUME Init PROVE RingInv
  OBVIOUS
<1>1. NewRing(Window) \in Ring(Window)
  BY DEF NewRing, Ring, Bucket, NoTraffic
<1>2. TypeOK
  BY <1>1, TimeAssumption, BoundAssumption DEF Init, TypeOK, Times, NoTraffic
<1>3. BucketsFaithful
  BY DEF Init, NewRing, BucketsFaithful
<1>4. NoneNewer
  BY DEF Init, NoneNewer
<1>5. QED
  BY <1>2, <1>3, <1>4 DEF RingInv

LEMMA RecordRingInv ==
  ASSUME RingInv, NEW t \in Times, NEW volume \in Volume, Record(t, volume)
  PROVE  RingInv'
<1> DEFINE idx == t % Window
<1>1. TypeOK /\ BucketsFaithful /\ NoneNewer
  BY DEF RingInv
<1>2. /\ ring' \in Ring(Window)
      /\ ring'[idx].timestamp = t
      /\ ring'[idx].sum = [m \in Measure |->
            (IF ring[idx].timestamp = t THEN ring[idx].sum[m] ELSE 0) + volume[m]]
      /\ \A i \in 0 .. (Window - 1) : i # idx => ring'[i] = ring[i]
  <2>1. AddedTo(ring', Window, ring, t, volume)
    BY <1>1, RecordEffect DEF Record
  <2>2. idx \in 0 .. (Window - 1)
    BY IndexInRing, TimeAssumption DEF Times
  <2>3. ring'[idx].sum \in [Measure -> Nat]
    BY <2>1, <2>2 DEF AddedTo, Ring, Bucket
  <2>4. QED
    BY <2>1, <2>3 DEF AddedTo
<1>3. t \in Nat /\ idx \in 0 .. (Window - 1) /\ Times \subseteq Nat
  BY IndexInRing, TimeAssumption DEF Times
<1>4. volume \in [Measure -> Nat]
  BY VolumeAssumption
<1>5. /\ newest' \in Times /\ newest' \in Nat /\ newest \in Nat
      /\ newest <= newest' /\ t <= newest'
  BY <1>1, <1>3 DEF Record, TypeOK
<1>6. /\ recorded'[t] = [m \in Measure |-> recorded[t][m] + volume[m]]
      /\ \A u \in Times : u # t => recorded'[u] = recorded[u]
      /\ recorded' \in [Times -> [Measure -> Nat]]
      /\ recorded \in [Times -> [Measure -> Nat]]
  BY <1>1, <1>4 DEF Record, TypeOK
\* A flow a window late displaces every second so far of its bucket.
<1>7. /\ displaced \subseteq displaced' /\ displaced' \subseteq Times
      /\ newest - t >= Window =>
            \A u \in Times : u <= newest /\ u % Window = idx => u \in displaced'
  BY <1>1 DEF Record, TypeOK, SecondsOfBucket
<1>8. TypeOK'
  <2>1. flows' \in 0 .. MaxFlows
    BY <1>1, BoundAssumption DEF Record, TypeOK
  <2>2. QED
    BY <2>1, <1>2, <1>5, <1>6, <1>7 DEF TypeOK
<1> DEFINE ts == ring[idx].timestamp
<1>9. ts \in Nat /\ (ts = 0 \/ Holds(idx))
  BY <1>1, <1>3 DEF TypeOK, Ring, Bucket, BucketsFaithful
\* If the bucket holds a newer second, the flow is a window late.
<1>10. t < ts => newest - t >= Window
  <2> SUFFICES ASSUME t < ts PROVE newest - t >= Window
    OBVIOUS
  <2>1. Holds(idx)
    <3> HIDE DEF ts, idx
    <3>1. QED
      BY <1>9, <1>3
  <2>2. ts % Window = t % Window /\ ts <= newest
    BY <2>1 DEF Holds
  <2>3. ts - t >= Window
    BY <1>3, <1>9, <2>2, ModSpread, WindowAssumption
  <2> HIDE DEF ts, idx
  <2>4. QED
    BY <1>3, <1>5, <1>9, <2>2, <2>3, WindowAssumption
\* If the bucket is not already at t, nothing was recorded in second t, or t
\* is displaced now.
<1>11. ts # t => recorded[t] = NoTraffic \/ t \in displaced'
  <2> SUFFICES ASSUME ts # t, recorded[t] # NoTraffic, t \notin displaced'
               PROVE  FALSE
    OBVIOUS
  <2>1. t <= newest /\ t <= ts
    BY <1>1, <1>7 DEF NoneNewer
  <2>2. newest - t >= Window
    <3> HIDE DEF ts, idx
    <3>1. QED
      BY <1>3, <1>9, <1>10, <2>1
  <2>3. QED
    BY <1>7, <2>1, <2>2
<1>12. Holds(idx)'
  <2>1. \A m \in Measure : ring'[idx].sum[m] <= recorded'[t][m]
    <3> SUFFICES ASSUME NEW m \in Measure
                 PROVE  ring'[idx].sum[m] <= recorded'[t][m]
      OBVIOUS
    <3> DEFINE before == IF ts = t THEN ring[idx].sum[m] ELSE 0
    <3>1. /\ ring'[idx].sum[m] = before + volume[m]
          /\ recorded'[t][m] = recorded[t][m] + volume[m]
          /\ volume[m] \in Nat /\ recorded[t][m] \in Nat
      BY <1>2, <1>4, <1>6
    <3>2. before \in Nat /\ before <= recorded[t][m]
      <4>1. CASE ts = t
        <5>1. ring[idx].sum[m] \in Nat
          BY <1>1, <1>3 DEF TypeOK, Ring, Bucket
        <5>2. Holds(idx)
          BY <1>9, <4>1, TimeAssumption, WindowAssumption DEF Times
        <5>3. QED
          BY <4>1, <5>1, <5>2 DEF Holds
      <4>2. CASE ts # t
        BY <4>2, <3>1
      <4>3. QED
        BY <4>1, <4>2
    <3> HIDE DEF before
    <3>3. QED
      BY <3>1, <3>2
  <2>2. ASSUME t \notin displaced' PROVE ring'[idx].sum = recorded'[t]
    <3>1. CASE ts = t
      <4>1. Holds(idx)
        BY <1>9, <3>1, TimeAssumption, WindowAssumption DEF Times
      <4>2. t \notin displaced
        BY <1>7, <2>2
      <4>3. QED
        BY <1>2, <1>6, <3>1, <4>1, <4>2 DEF Holds
    <3>2. CASE ts # t
      <4>1. \A m \in Measure : recorded[t][m] = 0
        BY <1>11, <2>2, <3>2 DEF NoTraffic
      <4>2. QED
        BY <1>2, <1>6, <3>2, <4>1
    <3>3. QED
      BY <3>1, <3>2
  <2>3. QED
    BY <1>2, <1>5, <2>1, <2>2 DEF Holds
<1>13. BucketsFaithful'
  <2> SUFFICES ASSUME NEW i \in 0 .. (Window - 1)
               PROVE  ring'[i].timestamp = 0 \/ Holds(i)'
    BY DEF BucketsFaithful
  <2>1. CASE i = idx
    BY <2>1, <1>12
  <2>2. CASE i # idx
    <3>1. ring'[i] = ring[i]
      BY <2>2, <1>2
    <3>2. CASE ring[i].timestamp = 0
      BY <3>1, <3>2
    <3>3. CASE Holds(i)
      <4>1. /\ ring[i].timestamp \in Times
            /\ ring[i].timestamp <= newest
            /\ ring[i].timestamp % Window = i
        BY <3>3 DEF Holds
      <4>2. ring[i].timestamp # t
        BY <4>1, <2>2
      <4>3. ring[i].timestamp <= newest'
        <5>1. ring[i].timestamp \in Nat
          BY <4>1, <1>3
        <5>2. QED
          BY <4>1, <5>1, <1>5
      <4>4. recorded'[ring[i].timestamp] = recorded[ring[i].timestamp]
        BY <4>1, <4>2, <1>6
      <4>5. QED
        BY <3>1, <3>3, <4>1, <4>3, <4>4, <1>7 DEF Holds
    <3>4. QED
      BY <1>1, <3>2, <3>3 DEF BucketsFaithful
  <2>3. QED
    BY <2>1, <2>2
<1>14. NoneNewer'
  <2> SUFFICES ASSUME NEW u \in Times, recorded'[u] # NoTraffic
               PROVE  /\ u <= newest'
                      /\ u <= ring'[u % Window].timestamp \/ u \in displaced'
    BY DEF NoneNewer
  <2>1. CASE u = t
    BY <2>1, <1>2, <1>3, <1>5
  <2>2. CASE u # t
    <3>1. /\ u <= newest
          /\ u <= ring[u % Window].timestamp \/ u \in displaced
      BY <2>2, <1>1, <1>6 DEF NoneNewer
    <3>2. u \in Nat /\ u <= newest'
      BY <3>1, <1>3, <1>5
    <3>3. u % Window \in 0 .. (Window - 1)
      BY IndexInRing, <1>3
    <3>4. CASE u \in displaced
      BY <3>2, <3>4, <1>7
    <3>5. CASE u % Window # idx
      BY <1>2, <1>7, <3>1, <3>2, <3>3, <3>5
    <3>6. CASE u % Window = idx /\ u <= ts
      <4>1. CASE newest - t >= Window
        BY <1>7, <3>1, <3>2, <3>6, <4>1
      <4>2. CASE ~(t < ts)
        <5>1. u <= t
          <6>1. u <= ts
            BY <3>6
          <6> HIDE DEF ts, idx
          <6>2. QED
            BY <6>1, <4>2, <3>2, <1>3, <1>9
        <5>2. QED
          BY <5>1, <1>2, <3>2, <3>6
      <4>3. QED
        BY <1>10, <4>1, <4>2
    <3>7. QED
      BY <3>1, <3>4, <3>5, <3>6
  <2>3. QED
    BY <2>1, <2>2
<1>15. QED
  BY <1>8, <1>13, <1>14 DEF RingInv

LEMMA RingInvStep == RingInv /\ [Next]_vars => RingInv'
<1> SUFFICES ASSUME RingInv, [Next]_vars PROVE RingInv'
  OBVIOUS
<1>1. CASE Next
  BY <1>1, RecordRingInv DEF Next
<1>2. CASE UNCHANGED vars
  BY <1>2 DEF vars, RingInv, TypeOK, BucketsFaithful, Holds, NoneNewer
<1>3. QED
  BY <1>1, <1>2

-----------------------------------------------------------------------------
\* The seconds of a window lie after the epoch: none saturates, none is zero.
LEMMA WindowSeconds ==
  ASSUME NEW now \in Times, NEW i \in 0 .. (Window - 1)
  PROVE  /\ SaturatingSub(now, i) = now - i
         /\ now - i \in Nat \ {0}
         /\ now - i <= MaxTime
<1>1. now \in Nat /\ Window <= now /\ now <= MaxTime /\ MaxTime \in Nat
  BY TimeAssumption, WindowAssumption DEF Times
<1>2. i \in Nat /\ i < Window /\ Window \in Nat
  BY WindowAssumption
<1>3. i < now
  BY <1>1, <1>2
<1>4. SaturatingSub(now, i) = now - i
  BY <1>1, <1>2, <1>3 DEF SaturatingSub
<1>5. now - i \in Nat \ {0} /\ now - i <= MaxTime
  BY <1>1, <1>2, <1>3
<1>6. QED
  BY <1>4, <1>5

\* What the ring answers for one second of a window, against the truth.
LEMMA ReadSecondBounded ==
  ASSUME RingInv, NEW now \in Times, NEW m \in Measure,
         NEW i \in 0 .. (Window - 1)
  PROVE  LET counted == Contribution(Window, ring, now, m)[i]
             true    == TrueContribution(now, m)[i]
         IN  /\ counted <= true
             /\ now - i > newest - Window /\ now - i \notin displaced
                   => counted = true
<1> DEFINE t == now - i
           idx == t % Window
           counted == ReadSecond(Window, ring, t, m)
           true == IF t \in Times THEN recorded[t][m] ELSE 0
<1>1. /\ Contribution(Window, ring, now, m)[i] = counted
      /\ TrueContribution(now, m)[i] = true
  BY WindowSeconds DEF Contribution, TrueContribution
<1>2. t \in Nat /\ t # 0 /\ idx \in 0 .. (Window - 1)
  BY WindowSeconds, IndexInRing
<1>3. /\ ring[idx] \in Bucket
      /\ newest \in Times /\ Times \subseteq Nat /\ newest \in Nat
      /\ \A u \in Times : recorded[u] \in [Measure -> Nat]
  BY <1>2, TimeAssumption DEF RingInv, TypeOK, Ring, Times
<1>4. counted = IF ring[idx].timestamp = t THEN ring[idx].sum[m] ELSE 0
  BY DEF ReadSecond, BucketIndex
<1>5. true \in Nat
  BY <1>3
<1>6. CASE ring[idx].timestamp = t
  <2>1. Holds(idx)
    BY <1>2, <1>6 DEF RingInv, BucketsFaithful
  <2>2. counted <= true /\ (t \notin displaced => counted = true)
    BY <1>4, <1>5, <1>6, <2>1 DEF Holds
  <2>3. QED
    BY <1>1, <2>2
<1>7. CASE ring[idx].timestamp # t
  <2>1. counted = 0
    BY <1>4, <1>7
  <2>2. ASSUME t > newest - Window, t \notin displaced
        PROVE  true = 0
    <3>1. SUFFICES ASSUME t \in Times, recorded[t] # NoTraffic
                   PROVE  FALSE
      BY DEF NoTraffic
    <3>2. t <= newest /\ t <= ring[idx].timestamp
      BY <3>1, <2>2 DEF RingInv, NoneNewer
    <3> DEFINE ts == ring[idx].timestamp
    <3>3. ts \in Nat /\ t < ts
      <4>1. ts \in Nat
        BY <1>3 DEF Bucket
      <4>2. t <= ts /\ ts # t
        BY <3>2, <1>7
      <4> HIDE DEF t, ts
      <4>3. QED
        BY <4>1, <4>2, <1>2
    <3>4. Holds(idx)
      <4>1. ts # 0
        <5> HIDE DEF t, ts
        <5>1. QED
          BY <3>3, <1>2
      <4>2. QED
        BY <4>1, <1>2 DEF RingInv, BucketsFaithful
    <3>5. /\ ring[idx].timestamp % Window = t % Window
          /\ ring[idx].timestamp <= newest
      BY <3>4 DEF Holds
    <3>6. ring[idx].timestamp - t >= Window
      BY <3>3, <3>5, <1>2, ModSpread, WindowAssumption
    <3>7. QED
      BY <3>3, <3>5, <3>6, <2>2, <1>2, <1>3, WindowAssumption
  <2>3. QED
    BY <1>1, <1>5, <2>1, <2>2
<1>8. QED
  BY <1>6, <1>7

LEMMA RingInvExact == RingInv => WindowExact /\ StaleClockBounded
<1> SUFFICES ASSUME RingInv PROVE WindowExact /\ StaleClockBounded
  OBVIOUS
<1>1. StaleClockBounded
  BY ReadSecondBounded DEF StaleClockBounded
<1>2. ASSUME NEW now \in newest .. MaxTime, NEW m \in Measure,
             \A i \in 0 .. (Window - 1) : now - i \notin displaced
      PROVE  Contribution(Window, ring, now, m) = TrueContribution(now, m)
  <2>1. now \in Times /\ newest \in Nat /\ now \in Nat /\ newest <= now
    BY TimeAssumption DEF RingInv, TypeOK, Times
  <2>2. ASSUME NEW i \in 0 .. (Window - 1)
        PROVE  Contribution(Window, ring, now, m)[i] = TrueContribution(now, m)[i]
    <3>1. now - i > newest - Window
      BY <2>1, WindowAssumption
    <3>2. QED
      BY <1>2, <2>1, <3>1, ReadSecondBounded
  <2>3. QED
    BY <2>2 DEF Contribution, TrueContribution
<1>3. WindowExact
  BY <1>2 DEF WindowExact, WindowTotal, TrueTotal
<1>4. QED
  BY <1>1, <1>3

(***************************************************************************)
(* The inductive invariant holds in every reachable state: each used       *)
(* bucket of ring_buffer.rs holds traffic of exactly one second.           *)
(***************************************************************************)
THEOREM RingInvariance == Spec => []RingInv
<1>1. QED
  BY InitRingInv, RingInvStep, PTL DEF Spec

\* The state keeps its types (RingBuffer's buckets, ring_buffer.rs).
THEOREM TypeCorrect == Spec => []TypeOK
<1>1. RingInv => TypeOK
  BY DEF RingInv
<1>2. QED
  BY <1>1, RingInvariance, PTL

(***************************************************************************)
(* Whatever the window, the lag and the flows: compute_rates at a second   *)
(* no older than the newest flow totals exactly the flows of the last      *)
(* Window seconds, unless one of them was displaced by a flow a window or  *)
(* more too late.                                                          *)
(***************************************************************************)
THEOREM WindowExactness == Spec => []WindowExact
<1>1. RingInv => WindowExact
  BY RingInvExact
<1>2. QED
  BY <1>1, RingInvariance, PTL

(***************************************************************************)
(* A rate never overcounts a second; computed at an older second it misses *)
(* only seconds a full window older than the newest flow, and those that   *)
(* were displaced.                                                         *)
(***************************************************************************)
THEOREM StaleClockBound == Spec => []StaleClockBounded
<1>1. RingInv => StaleClockBounded
  BY RingInvExact
<1>2. QED
  BY <1>1, RingInvariance, PTL
=============================================================================
