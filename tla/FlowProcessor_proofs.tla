------------------------ MODULE FlowProcessor_proofs ------------------------
(***************************************************************************)
(* The flow processor is right for all addresses, flows, configurations    *)
(* and numbers of flows.                                                   *)
(*                                                                         *)
(* RatesAreTraffic speaks of one second in which rates are read, and only  *)
(* up to the bound of the runs; no step is seen to keep it.  TotalsTrue    *)
(* says it of every second from the clock on.  That a flow adds to a       *)
(* total as much as it is worth needs the buckets to be in place: stamped  *)
(* with no second of the future, and each on the index of its own second,  *)
(* so that a stamp overwritten has left the window (ReadAfterAdd).         *)
(* CaptureIsRecent is kept by an eviction since a buffer is in the order   *)
(* of arrival, its first flow the oldest.  With a window of zero seconds   *)
(* the rings have no buckets, and no flow that is processed counts in one  *)
(* (TakenAndCounted and the guard of ProcessFlow).                         *)
(*                                                                         *)
(* A total and a traffic are sums of different functions over different    *)
(* sets, compared here by what each step adds to either.                   *)
(***************************************************************************)
EXTENDS FlowProcessor, CodeLemmas, SequenceTheorems

-----------------------------------------------------------------------------
(* The traffic of the log.                                                 *)

Entry == FlowRecord(Addr)

\* What one logged flow counts for.
Counted(entry, w, prefix, key, now, m) ==
  IF /\ Passes(entry, prefix, key.direction)
     /\ key.protocol \in Classify(entry)
     /\ now - entry.time_received < w
  THEN Measured(entry, m)
  ELSE 0

\* TrueTraffic, of a log and a window that are parameters.
Traffics(entries, w, prefix, key, now, m) ==
  SumFunctionOnSet([n \in DOMAIN entries |-> Counted(entries[n], w, prefix, key, now, m)],
                   DOMAIN entries)

LEMMA TrueTrafficIs ==
  ASSUME NEW prefix, NEW key, NEW now, NEW m
  PROVE  TrueTraffic(prefix, key, now, m) = Traffics(log, window, prefix, key, now, m)
BY DEF TrueTraffic, Traffics, Counted, SumFunction

LEMMA VolumeTyped ==
  ASSUME NEW flow \in FlowRecord(Addr)
  PROVE  /\ Volume(flow) \in [Measure -> Nat]
         /\ \A m \in Measure : Measured(flow, m) = Volume(flow)[m]
<1>1. SampledBytes(flow) \in Nat /\ SampledPackets(flow) \in Nat
  BY DEF FlowRecord, SampledBytes, SampledPackets
<1>2. Volume(flow) \in [Measure -> Nat]
  BY <1>1 DEF Volume, Measure
<1>3. \A m \in Measure : Measured(flow, m) = Volume(flow)[m]
  BY DEF Measured, Volume, Measure, SampledBytes, SampledPackets
<1>4. QED
  BY <1>2, <1>3

LEMMA CountedTyped ==
  ASSUME NEW entry \in Entry, NEW w, NEW prefix, NEW key, NEW now, NEW m \in Measure
  PROVE  Counted(entry, w, prefix, key, now, m) \in Nat
<1>1. Measured(entry, m) \in Nat
  BY VolumeTyped DEF Entry
<1>2. QED
  BY <1>1 DEF Counted

LEMMA TrafficOfNone ==
  ASSUME NEW w, NEW prefix, NEW key, NEW now, NEW m
  PROVE  Traffics(<<>>, w, prefix, key, now, m) = 0
<1>1. DOMAIN <<>> = {}
  OBVIOUS
<1>2. QED
  BY <1>1, SumOfNone DEF Traffics

\* A flow that arrives counts for the traffic what it counts for itself.
LEMMA TrafficAfterFlow ==
  ASSUME NEW entries \in Seq(Entry), NEW entry \in Entry, NEW w, NEW prefix, NEW key,
         NEW now, NEW m \in Measure
  PROVE  /\ Traffics(entries, w, prefix, key, now, m) \in Nat
         /\ Traffics(Append(entries, entry), w, prefix, key, now, m)
              = Traffics(entries, w, prefix, key, now, m)
                  + Counted(entry, w, prefix, key, now, m)
<1> DEFINE more == Append(entries, entry)
           D    == DOMAIN entries
           e    == Len(entries) + 1
           f1   == [n \in D |-> Counted(entries[n], w, prefix, key, now, m)]
           f2   == [n \in DOMAIN more |-> Counted(more[n], w, prefix, key, now, m)]
<1>1. /\ Len(entries) \in Nat /\ D = 1 .. Len(entries)
      /\ more \in Seq(Entry) /\ DOMAIN more = 1 .. e
      /\ more[e] = entry /\ \A n \in D : more[n] = entries[n]
  BY LenProperties, AppendProperties
<1>2. /\ IsFiniteSet(DOMAIN more) /\ e \in DOMAIN more
      /\ IsFiniteSet(D) /\ DOMAIN more \ {e} = D
  <2>1. \A n \in Nat : IsFiniteSet(1 .. n) /\ (1 .. (n + 1)) \ {n + 1} = 1 .. n
    BY FS_Interval
  <2>2. e \in Nat /\ e \in 1 .. e
    BY <1>1
  <2> HIDE DEF more, D
  <2>3. QED
    BY <1>1, <2>1, <2>2
<1>3. \A n \in D : f1[n] \in Nat
  <2>1. \A n \in D : entries[n] \in Entry
    BY <1>1
  <2>2. QED
    BY <2>1, CountedTyped
<1>4. \A n \in DOMAIN more : f2[n] \in Nat
  <2>1. \A n \in DOMAIN more : more[n] \in Entry
    BY <1>1
  <2>2. QED
    BY <2>1, CountedTyped
<1>5. f2[e] = Counted(entry, w, prefix, key, now, m) /\ \A n \in D : f2[n] = f1[n]
  BY <1>1, <1>2
<1> HIDE DEF more, D, e, f1, f2
<1>6. SumFunctionOnSet(f2, DOMAIN more) = f2[e] + SumFunctionOnSet(f2, D)
  BY <1>2, <1>4, SumTakesOut
<1>7. SumFunctionOnSet(f2, D) = SumFunctionOnSet(f1, D)
  BY <1>2, <1>5, SumAgrees
<1>8. SumFunctionOnSet(f1, D) \in Nat
  BY <1>2, <1>3, SumType
<1>9. f2[e] \in Nat
  BY <1>2, <1>4
<1>10. /\ Traffics(entries, w, prefix, key, now, m) = SumFunctionOnSet(f1, D)
       /\ Traffics(more, w, prefix, key, now, m) = SumFunctionOnSet(f2, DOMAIN more)
  BY DEF Traffics, f1, f2, D
<1>11. QED
  BY <1>5, <1>6, <1>7, <1>8, <1>9, <1>10 DEF more

-----------------------------------------------------------------------------
(* What a drain leaves.                                                    *)

InOrder(captures) ==
  \A k \in DOMAIN captures : \A j \in 1 .. (k - 1) : captures[j].n < captures[k].n

\* One more captured flow looked at.
KeptUpTo(g, captures, direction, n) ==
  IF n = 0 THEN <<>>
  ELSE IF captures[n].direction = direction THEN g[n - 1]
  ELSE Append(g[n - 1], captures[n])

LEMMA KeptRecursion ==
  ASSUME NEW captures, NEW direction, Len(captures) \in Nat
  PROVE  \E g : /\ \A n \in 0 .. Len(captures) : g[n] = KeptUpTo(g, captures, direction, n)
                /\ Kept(captures, direction) = g[Len(captures)]
<1> DEFINE IsKept(g, n) == g = [k \in 0 .. n |-> KeptUpTo(g, captures, direction, k)]
           Q == {n \in Nat : \E g : IsKept(g, n)}
<1>1. 0 \in Q
  <2>1. IsKept([k \in 0 .. 0 |-> <<>>], 0)
    BY DEF KeptUpTo
  <2>2. QED
    BY <2>1
<1>2. ASSUME NEW n \in Nat, n \in Q PROVE n + 1 \in Q
  <2>1. PICK g : IsKept(g, n)
    BY <1>2
  <2> DEFINE h == [k \in 0 .. (n + 1) |-> KeptUpTo(g, captures, direction, k)]
  <2>2. ASSUME NEW k \in 0 .. (n + 1)
        PROVE  KeptUpTo(g, captures, direction, k) = KeptUpTo(h, captures, direction, k)
    <3>1. CASE k = 0
      BY <3>1 DEF KeptUpTo
    <3>2. CASE k # 0
      <4>1. k - 1 \in 0 .. n /\ k - 1 \in 0 .. (n + 1)
        BY <3>2
      <4>2. g[k - 1] = h[k - 1]
        BY <2>1, <4>1
      <4> HIDE DEF h
      <4>3. QED
        BY <4>2 DEF KeptUpTo
    <3>3. QED
      BY <3>1, <3>2
  <2>3. IsKept(h, n + 1)
    BY <2>2
  <2> HIDE DEF h, IsKept
  <2>4. QED
    BY <2>3
<1>3. Len(captures) \in Q
  <2> HIDE DEF Q
  <2>1. Nat \subseteq Q
    BY <1>1, <1>2, Induct
  <2>2. QED
    BY <2>1
<1>4. Kept(captures, direction) = (CHOOSE g : IsKept(g, Len(captures)))[Len(captures)]
  BY DEF Kept, KeptUpTo
<1>5. PICK g : /\ IsKept(g, Len(captures))
               /\ Kept(captures, direction) = g[Len(captures)]
  BY <1>3, <1>4
<1>6. QED
  BY <1>5

\* list holds, in order, the first n captured flows of another direction.
OthersOf(list, captures, direction, n) ==
  /\ list \in Seq(CapturedFlow) /\ Len(list) <= n
  /\ \A k \in 1 .. Len(list) : \E j \in 1 .. n :
       list[k] = captures[j] /\ captures[j].direction # direction
  /\ \A j \in 1 .. n : captures[j].direction # direction =>
       \E k \in 1 .. Len(list) : list[k] = captures[j]
  /\ InOrder(list)

LEMMA OthersGrow ==
  ASSUME NEW captures \in Seq(CapturedFlow), InOrder(captures), NEW direction,
         NEW n \in Nat, n + 1 <= Len(captures),
         NEW list, OthersOf(list, captures, direction, n),
         captures[n + 1].direction # direction
  PROVE  OthersOf(Append(list, captures[n + 1]), captures, direction, n + 1)
<1> DEFINE next == captures[n + 1]
           more == Append(list, next)
           e    == Len(list) + 1
<1>1. next \in CapturedFlow
  <2>1. n + 1 \in 1 .. Len(captures)
    BY LenProperties
  <2>2. QED
    BY <2>1
<1>2. list \in Seq(CapturedFlow) /\ Len(list) \in Nat /\ Len(list) <= n
  BY LenProperties DEF OthersOf
<1> HIDE DEF next
<1>3. /\ more \in Seq(CapturedFlow) /\ Len(more) = e
      /\ more[e] = next
      /\ \A k \in 1 .. Len(list) : more[k] = list[k]
  BY <1>1, <1>2, AppendProperties
<1>4. e \in Nat /\ e <= n + 1 /\ 1 .. e = (1 .. Len(list)) \cup {e}
  BY <1>2
<1> HIDE DEF more, e
<1>5. ASSUME NEW k \in 1 .. Len(more)
      PROVE  \E j \in 1 .. (n + 1) :
                more[k] = captures[j] /\ captures[j].direction # direction
  <2>1. CASE k = e
    BY <1>3, <2>1 DEF next
  <2>2. CASE k \in 1 .. Len(list)
    <3>1. PICK j \in 1 .. n : list[k] = captures[j] /\ captures[j].direction # direction
      BY <2>2 DEF OthersOf
    <3>2. QED
      BY <1>3, <2>2, <3>1
  <2>3. QED
    BY <1>3, <1>4, <2>1, <2>2
<1>6. ASSUME NEW j \in 1 .. (n + 1), captures[j].direction # direction
      PROVE  \E k \in 1 .. Len(more) : more[k] = captures[j]
  <2>1. CASE j = n + 1
    BY <1>3, <1>4, <2>1 DEF next
  <2>2. CASE j \in 1 .. n
    <3>1. PICK k \in 1 .. Len(list) : list[k] = captures[j]
      BY <1>6, <2>2 DEF OthersOf
    <3>2. k \in 1 .. Len(more) /\ more[k] = captures[j]
      BY <1>3, <1>4, <3>1
    <3>3. QED
      BY <3>2
  <2>3. QED
    BY <2>1, <2>2
<1>7. ASSUME NEW k \in 1 .. Len(more), NEW j \in 1 .. (k - 1)
      PROVE  more[j].n < more[k].n
  <2>1. j \in 1 .. Len(list) /\ more[j] = list[j]
    BY <1>2, <1>3, <1>4, <1>7 DEF e
  <2>2. CASE k = e
    <3>1. PICK i \in 1 .. n : list[j] = captures[i]
      BY <2>1 DEF OthersOf
    <3>2. n + 1 \in DOMAIN captures /\ i \in 1 .. ((n + 1) - 1)
      BY LenProperties
    <3>3. captures[i].n < captures[n + 1].n
      BY <3>2 DEF InOrder
    <3>4. QED
      BY <1>3, <2>1, <2>2, <3>1, <3>3 DEF next
  <2>3. CASE k \in 1 .. Len(list)
    <3>1. k \in DOMAIN list
      BY <1>2, <2>3, LenProperties
    <3>2. list[j].n < list[k].n
      BY <3>1 DEF OthersOf, InOrder
    <3>3. QED
      BY <1>3, <2>1, <2>3, <3>2
  <2>4. QED
    BY <1>3, <1>4, <2>2, <2>3
<1>8. DOMAIN more = 1 .. Len(more)
  BY <1>3, LenProperties
<1>9. QED
  BY <1>3, <1>4, <1>5, <1>6, <1>7, <1>8 DEF OthersOf, InOrder, more, next

\* A drain leaves exactly the flows of the other direction, in order.
LEMMA KeptOthers ==
  ASSUME NEW captures \in Seq(CapturedFlow), InOrder(captures), NEW direction
  PROVE  OthersOf(Kept(captures, direction), captures, direction, Len(captures))
<1>1. Len(captures) \in Nat
  BY LenProperties
<1>2. PICK g : /\ \A n \in 0 .. Len(captures) : g[n] = KeptUpTo(g, captures, direction, n)
               /\ Kept(captures, direction) = g[Len(captures)]
  BY <1>1, KeptRecursion
<1> DEFINE Q == {n \in Nat : n <= Len(captures) => OthersOf(g[n], captures, direction, n)}
<1>3. 0 \in Q
  <2>1. g[0] = <<>>
    BY <1>1, <1>2 DEF KeptUpTo
  <2>2. OthersOf(<<>>, captures, direction, 0)
    <3>1. <<>> \in Seq(CapturedFlow) /\ Len(<<>>) = 0 /\ DOMAIN <<>> = {}
      BY EmptySeq
    <3>2. QED
      BY <3>1 DEF OthersOf, InOrder
  <2>3. QED
    BY <2>1, <2>2
<1>4. ASSUME NEW n \in Nat, n \in Q PROVE n + 1 \in Q
  <2>1. SUFFICES ASSUME n + 1 <= Len(captures)
                 PROVE  OthersOf(g[n + 1], captures, direction, n + 1)
    OBVIOUS
  <2>2. OthersOf(g[n], captures, direction, n)
    BY <1>1, <1>4, <2>1
  <2>3. g[n + 1] = KeptUpTo(g, captures, direction, n + 1)
    BY <1>1, <1>2, <2>1
  <2>4. CASE captures[n + 1].direction = direction
    <3>1. g[n + 1] = g[n]
      BY <2>3, <2>4 DEF KeptUpTo
    <3>2. Len(g[n]) <= n + 1
      <4>1. Len(g[n]) \in Nat
        BY <2>2, LenProperties DEF OthersOf
      <4>2. QED
        BY <2>2, <4>1 DEF OthersOf
    <3>3. QED
      BY <2>2, <2>4, <3>1, <3>2 DEF OthersOf
  <2>5. CASE captures[n + 1].direction # direction
    <3>1. g[n + 1] = Append(g[n], captures[n + 1])
      BY <2>3, <2>5 DEF KeptUpTo
    <3>2. QED
      BY <2>1, <2>2, <2>5, <3>1, OthersGrow
  <2>6. QED
    BY <2>4, <2>5
<1>5. Len(captures) \in Q
  <2> HIDE DEF Q
  <2>1. Nat \subseteq Q
    BY <1>3, <1>4, Induct
  <2>2. QED
    BY <1>1, <2>1
<1>6. QED
  BY <1>2, <1>5

-----------------------------------------------------------------------------
(* The capture buffer.                                                     *)

\* list is captures with one more flow, at most one having made room for it
\* in a buffer that holds cap flows.
PushedOnto(list, captures, captured, cap) ==
  /\ list \in Seq(CapturedFlow) /\ Len(list) <= cap
  /\ \A k \in 1 .. Len(list) :
       list[k] = captured \/ \E j \in 1 .. Len(captures) : list[k] = captures[j]
  /\ \E k \in 1 .. Len(list) : list[k] = captured
  /\ \A j \in 1 .. Len(captures) :
       \/ \E k \in 1 .. Len(list) : list[k] = captures[j]
       \/ /\ Len(list) = cap
          /\ \A k \in 1 .. Len(list) : captures[j].n < list[k].n
  /\ InOrder(list)

\* What a buffer can hold: one of size zero holds a flow all the same.
Room(size) == IF size = 0 THEN 1 ELSE size

LEMMA PushEffect ==
  ASSUME NEW captures \in Seq(CapturedFlow), InOrder(captures),
         NEW captured \in CapturedFlow,
         \A k \in 1 .. Len(captures) : captures[k].n < captured.n,
         NEW rule, rule.capture = captures, rule.captureSize \in Nat,
         NEW cap \in Nat, cap = Room(rule.captureSize),
         Len(captures) <= cap
  PROVE  PushedOnto(PushCaptured(rule, captured), captures, captured, cap)
<1> DEFINE L == Len(captures)
           list == PushCaptured(rule, captured)
<1>1. L \in Nat /\ DOMAIN captures = 1 .. L /\ \A k \in 1 .. L : captures[k] \in CapturedFlow
  BY LenProperties
<1>2. \A k \in 1 .. L : \A j \in 1 .. (k - 1) : captures[j].n < captures[k].n
  BY <1>1 DEF InOrder
<1>3. CASE L >= rule.captureSize /\ captures # <<>>
  <2>1. L >= 1 /\ L = cap
    <3>1. L # 0
      BY <1>3, EmptySeq
    <3>2. QED
      BY <1>1, <1>3, <3>1 DEF Room
  <2>2. list = Append(Tail(captures), captured)
    BY <1>3 DEF PushCaptured
  <2>3. /\ Tail(captures) \in Seq(CapturedFlow) /\ Len(Tail(captures)) = L - 1
        /\ \A k \in 1 .. (L - 1) : Tail(captures)[k] = captures[k + 1]
    BY <1>3, HeadTailProperties
  <2> HIDE DEF list, L
  <2>4. /\ list \in Seq(CapturedFlow) /\ Len(list) = L /\ list[L] = captured
        /\ \A k \in 1 .. (L - 1) : list[k] = captures[k + 1]
    <3>1. (L - 1) + 1 = L
      BY <1>1
    <3>2. QED
      BY <2>2, <2>3, <3>1, AppendProperties
  <2>5. L \in 1 .. L /\ \A k \in 1 .. L : k = L \/ (k \in 1 .. (L - 1) /\ k + 1 \in 1 .. L)
    BY <1>1, <2>1
  <2>6. \A k \in 1 .. Len(list) :
          list[k] = captured \/ \E j \in 1 .. L : list[k] = captures[j]
    BY <2>4, <2>5
  <2>7. ASSUME NEW k \in 1 .. L, NEW j \in 1 .. (k - 1) PROVE list[j].n < list[k].n
    <3>1. j \in 1 .. (L - 1) /\ j + 1 \in 1 .. L /\ list[j] = captures[j + 1]
      BY <1>1, <2>4
    <3>2. CASE k = L
      BY <2>4, <3>1, <3>2 DEF L
    <3>3. CASE k # L
      <4>1. k + 1 \in 1 .. L /\ list[k] = captures[k + 1] /\ j + 1 \in 1 .. ((k + 1) - 1)
        BY <1>1, <2>4, <3>3
      <4>2. QED
        BY <1>2, <3>1, <4>1
    <3>4. QED
      BY <3>2, <3>3
  <2>8. ASSUME NEW j \in 1 .. L
        PROVE  \/ \E k \in 1 .. Len(list) : list[k] = captures[j]
               \/ \A k \in 1 .. Len(list) : captures[j].n < list[k].n
    <3>1. CASE j # 1
      <4>1. j - 1 \in 1 .. (L - 1) /\ j - 1 \in 1 .. L /\ (j - 1) + 1 = j
        BY <1>1, <3>1
      <4>2. list[j - 1] = captures[j]
        BY <2>4, <4>1
      <4>3. QED
        BY <2>4, <4>1, <4>2
    <3>2. CASE j = 1
      <4>1. ASSUME NEW k \in 1 .. L PROVE captures[1].n < list[k].n
        <5>1. CASE k = L
          BY <2>1, <2>4, <3>2, <5>1 DEF L
        <5>2. CASE k # L
          <6>1. k + 1 \in 1 .. L /\ list[k] = captures[k + 1] /\ 1 \in 1 .. ((k + 1) - 1)
            BY <1>1, <2>4, <5>2
          <6>2. QED
            BY <1>2, <6>1
        <5>3. QED
          BY <5>1, <5>2
      <4>2. QED
        BY <2>4, <3>2, <4>1
    <3>3. QED
      BY <3>1, <3>2
  <2>9. DOMAIN list = 1 .. L
    BY <2>4, LenProperties
  <2>10. InOrder(list)
    BY <2>7, <2>9 DEF InOrder
  <2>11. Len(list) = cap /\ \E k \in 1 .. Len(list) : list[k] = captured
    BY <2>1, <2>4, <2>5
  <2>12. list \in Seq(CapturedFlow) /\ Len(list) <= cap
    BY <2>4, <2>11
  <2>13. QED
    BY <2>6, <2>8, <2>10, <2>11, <2>12 DEF PushedOnto, L, list
<1>4. CASE ~(L >= rule.captureSize /\ captures # <<>>)
  <2>1. L < cap
    <3>1. captures = <<>> => L = 0
      BY EmptySeq
    <3>2. QED
      BY <1>1, <1>4, <3>1 DEF Room
  <2>2. list = Append(captures, captured)
    BY <1>4 DEF PushCaptured
  <2> DEFINE e == L + 1
  <2> HIDE DEF list, L
  <2>3. /\ list \in Seq(CapturedFlow) /\ Len(list) = e /\ list[e] = captured
        /\ \A k \in 1 .. L : list[k] = captures[k]
    BY <2>2, AppendProperties DEF L
  <2>4. e \in 1 .. e /\ e <= cap /\ \A k \in 1 .. e : k = e \/ k \in 1 .. L
    BY <1>1, <2>1
  <2>5. \A j \in 1 .. L : j \in 1 .. Len(list) /\ list[j] = captures[j]
    BY <1>1, <2>3
  <2>6. ASSUME NEW k \in 1 .. e, NEW j \in 1 .. (k - 1) PROVE list[j].n < list[k].n
    <3>1. j \in 1 .. L /\ list[j] = captures[j]
      BY <1>1, <2>3
    <3>2. CASE k = e
      BY <2>3, <3>1, <3>2 DEF L
    <3>3. CASE k \in 1 .. L
      BY <1>2, <2>3, <3>1, <3>3
    <3>4. QED
      BY <2>4, <3>2, <3>3
  <2>7. DOMAIN list = 1 .. e
    BY <2>3, LenProperties
  <2>8. InOrder(list)
    BY <2>6, <2>7 DEF InOrder
  <2>9. \A k \in 1 .. Len(list) :
          list[k] = captured \/ \E j \in 1 .. L : list[k] = captures[j]
    BY <2>3, <2>4
  <2>10. /\ list \in Seq(CapturedFlow) /\ Len(list) <= cap
         /\ \E k \in 1 .. Len(list) : list[k] = captured
    BY <2>3, <2>4
  <2>11. QED
    BY <2>5, <2>8, <2>9, <2>10 DEF PushedOnto, L, list
<1>5. QED
  BY <1>3, <1>4

\* Captured flows in order are as many as the flows they are.
LEMMA AsManyAsCaptured ==
  ASSUME NEW captures \in Seq(CapturedFlow), InOrder(captures),
         NEW S, IsFiniteSet(S), \A k \in 1 .. Len(captures) : captures[k].n \in S
  PROVE  Len(captures) <= Cardinality(S)
<1> DEFINE D == 1 .. Len(captures)
           number == [k \in D |-> captures[k].n]
<1>1. Len(captures) \in Nat /\ DOMAIN captures = D
      /\ \A k \in D : captures[k] \in CapturedFlow
  BY LenProperties
<1>2. \A j, k \in D : j < k => captures[j].n < captures[k].n
  <2>1. \A j, k \in D : j < k => j \in 1 .. (k - 1)
    BY <1>1
  <2>2. QED
    BY <1>1, <2>1 DEF InOrder
<1>3. \A j, k \in D : captures[j].n = captures[k].n => j = k
  <2>1. \A k \in D : captures[k].n \in Nat
    BY <1>1 DEF CapturedFlow
  <2>2. \A j, k \in D : j < k \/ k < j \/ j = k
    BY <1>1
  <2>3. QED
    BY <1>2, <2>1, <2>2
<1>4. number \in Injection(D, S)
  BY <1>3 DEF Injection, IsInjective
<1>5. Cardinality(D) <= Cardinality(S)
  BY <1>4, FS_Injection
<1>6. Cardinality(D) = Len(captures)
  BY <1>1, FS_Interval
<1>7. QED
  BY <1>5, <1>6

-----------------------------------------------------------------------------
(* The invariant.                                                          *)

WindowFits == window \in 0 .. Start

RulesAsConfigured ==
  /\ DOMAIN rules = DOMAIN config.rules
  /\ \A i \in DOMAIN rules :
       /\ rules[i] = [prefix      |-> config.rules[i].prefix,
                      buffers     |-> rules[i].buffers,
                      capture     |-> rules[i].capture,
                      captureSize |-> config.capture_buffer_size]
       /\ DOMAIN rules[i].buffers = BufferKeys(config.rules[i])

BucketsInPlace ==
  \A i \in DOMAIN rules : \A key \in DOMAIN rules[i].buffers :
     InPlace(window, rules[i].buffers[key], clock)

\* RatesAreTraffic, for every second from now on.
TotalsTrue ==
  \A i \in DOMAIN rules : \A key \in DOMAIN rules[i].buffers :
     \A now \in Nat, m \in Measure :
        now >= clock =>
          WindowTotal(window, rules[i].buffers[key], now, m)
            = Traffics(log, window, rules[i].prefix, key, now, m)

CapturesInOrder == \A i \in DOMAIN rules : InOrder(rules[i].capture)

DrainedBefore == \A scope \in Scopes : drainedTo[scope] <= Len(log)

\* The directions in which the flows of a rule pass its prefix.
Directions(i) == [n \in Capturable(i) |-> DirectionOf(i, n)]

\* What CaptureIsRecent says of a capture buffer.
Recent(capture, cap, capturable, undrained, direction) ==
  /\ Len(capture) <= cap
  /\ \A k \in DOMAIN capture :
       /\ capture[k].n \in undrained
       /\ capture[k].direction = direction[capture[k].n]
       /\ k > 1 => capture[k - 1].n < capture[k].n
  /\ \A n \in undrained \ {capture[k].n : k \in DOMAIN capture} :
       Cardinality({m \in capturable : m > n}) >= cap

\* While the task runs nothing newer was captured and nothing due is missing.
AllRecent ==
  running => \A i \in DOMAIN rules :
     Recent(rules[i].capture, Room(rules[i].captureSize), Capturable(i), Undrained(i), Directions(i))

ProcessorInv ==
  /\ TypeOK /\ WindowFits /\ RulesAsConfigured /\ BucketsInPlace /\ TotalsTrue
  /\ CapturesInOrder /\ DrainedBefore /\ AllRecent

-----------------------------------------------------------------------------
(* Rules as a start or a reload makes them.                                *)

LEMMA ConfigFacts ==
  ASSUME NEW c \in Configs
  PROVE  /\ c.window \in Nat /\ c.capture_buffer_size \in Nat /\ c.window <= Start
         /\ \A i \in DOMAIN c.rules :
              c.rules[i].prefix \subseteq Addr /\ BufferKeys(c.rules[i]) \subseteq BufferKey
<1>1. IsConfig(c, Addr, PolicyName, ExporterName) /\ c.window <= Start
  BY ConfigsAssumption, TimeAssumption
<1>2. c.window \in Nat /\ c.capture_buffer_size \in Nat
  BY <1>1 DEF IsConfig
<1>3. ASSUME NEW i \in DOMAIN c.rules
      PROVE  c.rules[i].prefix \subseteq Addr /\ BufferKeys(c.rules[i]) \subseteq BufferKey
  <2> DEFINE rule == c.rules[i]
  <2>1. IsRuleConfig(rule, Addr, PolicyName)
    BY <1>1 DEF IsConfig
  <2> HIDE DEF rule
  <2>2. ASSUME NEW protocol \in DOMAIN rule.thresholds,
               NEW direction \in DOMAIN rule.thresholds[protocol]
        PROVE  [protocol |-> protocol, direction |-> direction] \in BufferKey
    BY <2>1 DEF IsRuleConfig, BufferKey
  <2>3. BufferKeys(rule) \subseteq BufferKey
    BY <2>2 DEF BufferKeys, ThresholdKeys
  <2>4. rule.prefix \subseteq Addr
    BY <2>1 DEF IsRuleConfig
  <2>5. QED
    BY <2>3, <2>4 DEF rule
<1>4. QED
  BY <1>1, <1>2, <1>3

\* A rule that has seen no flow yet.
Fresh(rule, source, size, w) ==
  /\ rule = [prefix      |-> source.prefix,
             buffers     |-> rule.buffers,
             capture     |-> rule.capture,
             captureSize |-> size]
  /\ rule.prefix = source.prefix /\ rule.capture = <<>> /\ rule.captureSize = size
  /\ DOMAIN rule.buffers = BufferKeys(source)
  /\ \A key \in DOMAIN rule.buffers : rule.buffers[key] = NewRing(w)

LEMMA FreshRules ==
  ASSUME NEW c \in Configs, NEW w
  PROVE  /\ DOMAIN RulesOf(c, w) = DOMAIN c.rules
         /\ \A i \in DOMAIN c.rules :
              Fresh(RulesOf(c, w)[i], c.rules[i], c.capture_buffer_size, w)
<1>1. ASSUME NEW source, NEW size PROVE Fresh(FromConfig(source, w, size), source, size, w)
  <2> DEFINE buffers == [key \in BufferKeys(source) |-> NewRing(w)]
  <2>1. DOMAIN buffers = BufferKeys(source) /\ \A key \in DOMAIN buffers : buffers[key] = NewRing(w)
    OBVIOUS
  <2>2. FromConfig(source, w, size) =
          [prefix |-> source.prefix, buffers |-> buffers, capture |-> <<>>, captureSize |-> size]
    BY DEF FromConfig
  <2> HIDE DEF buffers
  <2>3. QED
    BY <2>1, <2>2 DEF Fresh
<1>2. QED
  BY <1>1 DEF RulesOf

\* The state a start or a reload makes.
FreshState ==
  /\ config \in Configs /\ rules = RulesOf(config, window) /\ window \in 0 .. Start
  /\ clock \in Start .. MaxTime /\ log = <<>> /\ drainedTo = [scope \in Scopes |-> 0]
  /\ running \in BOOLEAN

LEMMA FreshProcessorInv == FreshState => ProcessorInv
<1> SUFFICES ASSUME FreshState PROVE ProcessorInv
  OBVIOUS
<1>1. /\ config \in Configs /\ rules = RulesOf(config, window)
      /\ log = <<>> /\ drainedTo = [scope \in Scopes |-> 0]
      /\ clock \in Start .. MaxTime /\ running \in BOOLEAN
  BY DEF FreshState
<1>2. WindowFits /\ window \in Nat
  BY TimeAssumption DEF FreshState, WindowFits
<1>3. /\ DOMAIN rules = DOMAIN config.rules
      /\ \A i \in DOMAIN rules :
           /\ Fresh(rules[i], config.rules[i], config.capture_buffer_size, window)
           /\ config.rules[i].prefix \subseteq Addr
           /\ BufferKeys(config.rules[i]) \subseteq BufferKey
  BY <1>1, FreshRules, ConfigFacts
<1>4. RulesAsConfigured
  BY <1>3 DEF RulesAsConfigured, Fresh
<1>5. /\ \A i \in DOMAIN rules : rules[i].capture = <<>>
      /\ \A i \in DOMAIN rules : \A key \in DOMAIN rules[i].buffers :
           rules[i].buffers[key] = NewRing(window)
  BY <1>3 DEF Fresh
<1>6. <<>> \in Seq(CapturedFlow) /\ Len(<<>>) = 0 /\ DOMAIN <<>> = {}
  BY EmptySeq
<1>7. TypeOK
  <2>1. log \in Seq(FlowRecord(Addr))
    BY <1>1, EmptySeq
  <2>2. drainedTo \in [Scopes -> Nat]
    BY <1>1
  <2>3. \A i \in DOMAIN rules :
          /\ rules[i].prefix \subseteq Addr
          /\ DOMAIN rules[i].buffers \subseteq BufferKey
          /\ rules[i].capture \in Seq(CapturedFlow)
    BY <1>3, <1>5, <1>6 DEF Fresh
  <2>4. \A i \in DOMAIN rules : \A key \in DOMAIN rules[i].buffers :
          rules[i].buffers[key] \in Ring(window)
    BY <1>2, <1>5, NewRingFacts
  <2>5. QED
    BY <1>1, <1>2, <2>1, <2>2, <2>3, <2>4 DEF TypeOK
<1>8. BucketsInPlace
  BY <1>2, <1>5, NewRingFacts DEF BucketsInPlace
<1>9. TotalsTrue
  BY <1>1, <1>2, <1>5, NewRingFacts, TrafficOfNone DEF TotalsTrue
<1>10. CapturesInOrder /\ DrainedBefore
  BY <1>1, <1>5, <1>6 DEF CapturesInOrder, InOrder, DrainedBefore
<1>11. AllRecent
  <2>1. \A i \in DOMAIN rules : Undrained(i) = {}
    BY <1>1, <1>6 DEF Undrained, Capturable
  <2>2. \A i \in DOMAIN rules : Room(rules[i].captureSize) \in Nat
    BY <1>1, <1>3, ConfigFacts DEF Room, Fresh
  <2>3. QED
    BY <1>5, <1>6, <2>1, <2>2 DEF AllRecent, Recent
<1>12. QED
  BY <1>2, <1>4, <1>7, <1>8, <1>9, <1>10, <1>11 DEF ProcessorInv

LEMMA InitProcessorInv == Init => ProcessorInv
<1>1. Init => FreshState
  BY ConfigFacts, TimeAssumption DEF Init, FreshState
<1>2. QED
  BY <1>1, FreshProcessorInv

LEMMA ReloadProcessorInv ==
  ASSUME ProcessorInv, NEW new \in Configs, ReloadConfig(new)
  PROVE  ProcessorInv'
<1>1. window' \in 0 .. Start
  <2>1. new.window \in Nat /\ new.window <= Start
    BY ConfigFacts
  <2>2. QED
    BY <2>1, TimeAssumption DEF ReloadConfig, ProcessorInv, WindowFits
<1>2. clock' \in Start .. MaxTime
  BY DEF ReloadConfig, ProcessorInv, TypeOK
<1>3. running' \in BOOLEAN
  BY DEF ReloadConfig, ProcessorInv, TypeOK
<1>4. FreshState'
  BY <1>1, <1>2, <1>3 DEF ReloadConfig, FreshState
<1>5. QED
  BY <1>4, FreshProcessorInv, PTL

-----------------------------------------------------------------------------
(* A drain.                                                                *)

LEMMA RuleFacts ==
  ASSUME ProcessorInv, NEW i \in DOMAIN rules
  PROVE  /\ rules[i].prefix = config.rules[i].prefix
         /\ rules[i].captureSize = config.capture_buffer_size
         /\ rules[i].captureSize \in Nat
<1>1. rules[i] = [prefix      |-> config.rules[i].prefix,
                  buffers     |-> rules[i].buffers,
                  capture     |-> rules[i].capture,
                  captureSize |-> config.capture_buffer_size]
  BY DEF ProcessorInv, RulesAsConfigured
<1>2. config.capture_buffer_size \in Nat
  BY ConfigFacts DEF ProcessorInv, TypeOK
<1>3. /\ rules[i].prefix = config.rules[i].prefix
      /\ rules[i].captureSize = config.capture_buffer_size
  BY <1>1
<1>4. QED
  BY <1>2, <1>3

LEMMA StepsInOrder ==
  ASSUME NEW list \in Seq(CapturedFlow), InOrder(list), NEW k \in DOMAIN list, k > 1
  PROVE  list[k - 1].n < list[k].n
<1>1. k - 1 \in 1 .. (k - 1)
  BY LenProperties
<1>2. QED
  BY <1>1 DEF InOrder

LEMMA DrainEffect ==
  ASSUME ProcessorInv, NEW scope \in Scopes, DrainCapturedFlows(scope),
         NEW i \in DOMAIN rules
  PROVE  /\ rules'[i].prefix = rules[i].prefix
         /\ rules'[i].buffers = rules[i].buffers
         /\ rules'[i].captureSize = rules[i].captureSize
         /\ rules'[i] = [prefix      |-> config.rules[i].prefix,
                         buffers     |-> rules'[i].buffers,
                         capture     |-> rules'[i].capture,
                         captureSize |-> config.capture_buffer_size]
         /\ rules[i].prefix # scope.prefix => rules'[i].capture = rules[i].capture
         /\ rules[i].prefix = scope.prefix =>
              OthersOf(rules'[i].capture, rules[i].capture, scope.direction,
                       Len(rules[i].capture))
<1> DEFINE rule == rules[i]
           list == Kept(rule.capture, scope.direction)
<1>1. rule = [prefix      |-> config.rules[i].prefix,
              buffers     |-> rule.buffers,
              capture     |-> rule.capture,
              captureSize |-> config.capture_buffer_size]
  BY DEF ProcessorInv, RulesAsConfigured
<1>2. rules'[i] = IF rule.prefix = scope.prefix THEN [rule EXCEPT !.capture = list] ELSE rule
  BY DEF DrainCapturedFlows
<1>3. OthersOf(list, rule.capture, scope.direction, Len(rule.capture))
  BY KeptOthers DEF ProcessorInv, TypeOK, CapturesInOrder
<1> HIDE DEF list, rule
<1>4. CASE rule.prefix = scope.prefix
  <2>1. rules'[i] = [rule EXCEPT !.capture = list]
    BY <1>2, <1>4
  <2>2. rules'[i] = [prefix      |-> config.rules[i].prefix,
                     buffers     |-> rule.buffers,
                     capture     |-> list,
                     captureSize |-> config.capture_buffer_size]
    BY <1>1, <2>1
  <2>3. QED
    BY <1>1, <1>3, <1>4, <2>2 DEF rule
<1>5. CASE rule.prefix # scope.prefix
  BY <1>1, <1>2, <1>5 DEF rule
<1>6. QED
  BY <1>4, <1>5

LEMMA DrainUndrained ==
  ASSUME ProcessorInv, NEW scope \in Scopes, DrainCapturedFlows(scope),
         NEW i \in DOMAIN rules
  PROVE  /\ Capturable(i)' = Capturable(i)
         /\ Directions(i)' = Directions(i)
         /\ Undrained(i)' =
              {n \in Undrained(i) :
                 ~(rules[i].prefix = scope.prefix /\ Directions(i)[n] = scope.direction)}
<1>1. rules'[i].prefix = rules[i].prefix /\ rules'[i].buffers = rules[i].buffers
  BY DrainEffect
<1>2. log' = log /\ drainedTo' = [drainedTo EXCEPT ![scope] = Len(log)]
  BY DEF DrainCapturedFlows
<1>3. Capturable(i)' = Capturable(i)
  BY <1>1, <1>2 DEF Capturable, HasBuffers
<1>4. \A n : /\ DirectionOf(i, n)' = DirectionOf(i, n)
             /\ ScopeOf(i, n)' = ScopeOf(i, n)
  BY <1>1, <1>2 DEF DirectionOf, ScopeOf
<1>5. \A n \in Capturable(i) : n <= Len(log) /\ n \in Nat
  BY LenProperties DEF Capturable, ProcessorInv, TypeOK
<1>6. \A n : ScopeOf(i, n) = scope
               <=> rules[i].prefix = scope.prefix /\ DirectionOf(i, n) = scope.direction
  <2>1. scope \in [prefix : SUBSET Addr, direction : Direction]
    BY ScopesAssumption
  <2>2. QED
    BY <2>1 DEF ScopeOf
<1>7. drainedTo'[scope] = Len(log)
      /\ \A s \in Scopes : s # scope => drainedTo'[s] = drainedTo[s]
  BY <1>2 DEF ProcessorInv, TypeOK
<1>8. Len(log) \in Nat
  BY LenProperties DEF ProcessorInv, TypeOK
<1>9. Undrained(i)' = {n \in Capturable(i) :
                          ScopeOf(i, n) \in Scopes => n > drainedTo'[ScopeOf(i, n)]}
  BY <1>3, <1>4 DEF Undrained
<1>10. ASSUME NEW n \in Capturable(i)
       PROVE  (ScopeOf(i, n) \in Scopes => n > drainedTo'[ScopeOf(i, n)])
                <=> /\ ScopeOf(i, n) \in Scopes => n > drainedTo[ScopeOf(i, n)]
                    /\ ScopeOf(i, n) # scope
  <2>1. CASE ScopeOf(i, n) = scope
    BY <1>5, <1>7, <1>8, <2>1
  <2>2. CASE ScopeOf(i, n) # scope
    BY <1>7, <2>2
  <2>3. QED
    BY <2>1, <2>2
<1>11. Undrained(i)' = {n \in Undrained(i) : ScopeOf(i, n) # scope}
  BY <1>9, <1>10 DEF Undrained
<1>12. Directions(i)' = Directions(i)
  BY <1>3, <1>4 DEF Directions
<1>13. \A n \in Undrained(i) : Directions(i)[n] = DirectionOf(i, n)
  BY DEF Directions, Undrained
<1>14. QED
  BY <1>3, <1>6, <1>11, <1>12, <1>13

LEMMA DrainKeepsOrder ==
  ASSUME ProcessorInv, NEW scope \in Scopes, DrainCapturedFlows(scope),
         NEW i \in DOMAIN rules
  PROVE  InOrder(rules'[i].capture) /\ rules'[i].capture \in Seq(CapturedFlow)
<1>1. InOrder(rules[i].capture) /\ rules[i].capture \in Seq(CapturedFlow)
  BY DEF ProcessorInv, CapturesInOrder, TypeOK
<1>2. CASE rules[i].prefix # scope.prefix
  BY <1>1, <1>2, DrainEffect
<1>3. CASE rules[i].prefix = scope.prefix
  BY <1>3, DrainEffect DEF OthersOf
<1>4. QED
  BY <1>2, <1>3

LEMMA DrainCaptures ==
  ASSUME ProcessorInv, NEW scope \in Scopes, DrainCapturedFlows(scope),
         running, NEW i \in DOMAIN rules
  PROVE  Recent(rules'[i].capture, Room(rules'[i].captureSize), Capturable(i)', Undrained(i)',
                Directions(i)')
<1> DEFINE old == rules[i].capture
           new == rules'[i].capture
           cap == Room(rules[i].captureSize)
           capturable == Capturable(i)
           undrained == Undrained(i)
           direction == Directions(i)
<1>1. /\ Recent(old, cap, capturable, undrained, direction)
      /\ InOrder(old) /\ old \in Seq(CapturedFlow)
  BY DEF ProcessorInv, CapturesInOrder, TypeOK, AllRecent
<1>2. Room(rules'[i].captureSize) = cap /\ cap \in Nat
  BY RuleFacts, DrainEffect DEF Room
<1>3. /\ Capturable(i)' = capturable
      /\ Directions(i)' = direction
      /\ Undrained(i)' =
           {n \in undrained :
              ~(rules[i].prefix = scope.prefix /\ direction[n] = scope.direction)}
  BY DrainUndrained
<1>4. CASE rules[i].prefix # scope.prefix
  <2>1. new = old /\ Undrained(i)' = undrained
    BY <1>3, <1>4, DrainEffect
  <2>2. QED
    BY <1>1, <1>2, <1>3, <2>1
<1>5. CASE rules[i].prefix = scope.prefix
  <2> DEFINE left == {n \in undrained : direction[n] # scope.direction}
  <2>1. Undrained(i)' = left
    BY <1>3, <1>5
  <2>2. OthersOf(new, old, scope.direction, Len(old))
    BY <1>5, DrainEffect
  <2> HIDE DEF old, new, cap, capturable, undrained, direction
  <2>3. /\ new \in Seq(CapturedFlow) /\ Len(new) <= Len(old) /\ InOrder(new)
        /\ \A k \in 1 .. Len(new) : \E j \in 1 .. Len(old) :
             new[k] = old[j] /\ old[j].direction # scope.direction
        /\ \A j \in 1 .. Len(old) : old[j].direction # scope.direction =>
             \E k \in 1 .. Len(new) : new[k] = old[j]
    BY <2>2 DEF OthersOf
  <2>4. /\ Len(old) \in Nat /\ DOMAIN old = 1 .. Len(old)
        /\ Len(new) \in Nat /\ DOMAIN new = 1 .. Len(new)
    BY <1>1, <2>3, LenProperties
  <2>5. Len(new) <= cap
    BY <1>1, <1>2, <2>3, <2>4 DEF Recent
  <2>6. ASSUME NEW k \in DOMAIN new
        PROVE  /\ new[k].n \in left
               /\ new[k].direction = direction[new[k].n]
               /\ k > 1 => new[k - 1].n < new[k].n
    <3>1. PICK j \in 1 .. Len(old) : new[k] = old[j] /\ old[j].direction # scope.direction
      BY <2>3, <2>4
    <3>2. old[j].n \in undrained /\ old[j].direction = direction[old[j].n]
      BY <1>1, <2>4 DEF Recent
    <3>3. k > 1 => new[k - 1].n < new[k].n
      BY <2>3, StepsInOrder
    <3>4. QED
      BY <3>1, <3>2, <3>3
  <2>7. ASSUME NEW n \in left \ {new[k].n : k \in DOMAIN new}
        PROVE  Cardinality({m \in capturable : m > n}) >= cap
    <3>1. ASSUME NEW j \in DOMAIN old, n = old[j].n PROVE FALSE
      <4>1. old[j].direction # scope.direction
        BY <1>1, <3>1 DEF Recent
      <4>2. PICK k \in 1 .. Len(new) : new[k] = old[j]
        BY <2>3, <2>4, <4>1
      <4>3. QED
        BY <2>4, <3>1, <4>2
    <3>2. n \in undrained \ {old[k].n : k \in DOMAIN old}
      BY <3>1
    <3>3. QED
      BY <1>1, <3>2 DEF Recent
  <2> HIDE DEF left
  <2>8. Recent(new, cap, capturable, left, direction)
    BY <2>5, <2>6, <2>7 DEF Recent
  <2>9. QED
    BY <1>2, <1>3, <2>1, <2>3, <2>8 DEF new, cap, capturable, direction
<1>6. QED
  BY <1>4, <1>5

LEMMA DrainProcessorInv ==
  ASSUME ProcessorInv, NEW scope \in Scopes, DrainCapturedFlows(scope)
  PROVE  ProcessorInv'
<1>1. /\ DOMAIN rules' = DOMAIN rules
      /\ UNCHANGED <<config, window, running, clock, log>>
      /\ drainedTo' = [drainedTo EXCEPT ![scope] = Len(log)]
  BY DEF DrainCapturedFlows
<1>2. /\ TypeOK /\ WindowFits /\ RulesAsConfigured /\ BucketsInPlace /\ TotalsTrue
      /\ CapturesInOrder /\ DrainedBefore
  BY DEF ProcessorInv
<1>3. \A i \in DOMAIN rules :
        /\ rules'[i].prefix = rules[i].prefix /\ rules'[i].buffers = rules[i].buffers
        /\ rules'[i] = [prefix      |-> config.rules[i].prefix,
                        buffers     |-> rules'[i].buffers,
                        capture     |-> rules'[i].capture,
                        captureSize |-> config.capture_buffer_size]
  BY DrainEffect
<1>4. \A i \in DOMAIN rules :
        InOrder(rules'[i].capture) /\ rules'[i].capture \in Seq(CapturedFlow)
  BY DrainKeepsOrder
<1>5. Len(log) \in Nat
  BY <1>2, LenProperties DEF TypeOK
<1>6. TypeOK'
  <2>1. drainedTo' \in [Scopes -> Nat]
    BY <1>1, <1>2, <1>5 DEF TypeOK
  <2>2. \A i \in DOMAIN rules :
          /\ rules[i].prefix \subseteq Addr
          /\ DOMAIN rules[i].buffers \subseteq BufferKey
          /\ \A key \in DOMAIN rules[i].buffers : rules[i].buffers[key] \in Ring(window)
    BY <1>2 DEF TypeOK
  <2>3. \A i \in DOMAIN rules' :
          /\ rules'[i].prefix \subseteq Addr
          /\ DOMAIN rules'[i].buffers \subseteq BufferKey
          /\ \A key \in DOMAIN rules'[i].buffers : rules'[i].buffers[key] \in Ring(window')
          /\ rules'[i].capture \in Seq(CapturedFlow)
    BY <1>1, <1>3, <1>4, <2>2
  <2>4. QED
    BY <1>1, <1>2, <2>1, <2>3 DEF TypeOK
<1>7. WindowFits'
  BY <1>1, <1>2 DEF WindowFits
<1>8. RulesAsConfigured'
  <2>1. \A i \in DOMAIN rules : DOMAIN rules'[i].buffers = BufferKeys(config.rules[i])
    BY <1>2, <1>3 DEF RulesAsConfigured
  <2>2. DOMAIN rules' = DOMAIN config.rules
    BY <1>1, <1>2 DEF RulesAsConfigured
  <2>3. QED
    BY <1>1, <1>3, <2>1, <2>2 DEF RulesAsConfigured
<1>9. BucketsInPlace'
  BY <1>1, <1>2, <1>3 DEF BucketsInPlace
<1>10. TotalsTrue'
  BY <1>1, <1>2, <1>3 DEF TotalsTrue
<1>11. CapturesInOrder'
  BY <1>1, <1>4 DEF CapturesInOrder
<1>12. DrainedBefore'
  BY <1>1, <1>2, <1>5 DEF DrainedBefore, TypeOK
<1>13. AllRecent'
  BY <1>1, DrainCaptures DEF AllRecent
<1>14. QED
  BY <1>6, <1>7, <1>8, <1>9, <1>10, <1>11, <1>12, <1>13 DEF ProcessorInv

-----------------------------------------------------------------------------
(* A flow.                                                                 *)

\* A rule takes a flow that passes its prefix in a direction it has rings for.
Takes(i, flow) ==
  \E d \in Direction : HasBuffers(rules[i], d) /\ Passes(flow, rules[i].prefix, d)

DirectionFor(i, flow) ==
  IF Enters(flow, rules[i].prefix) THEN "inbound" ELSE "outbound"

Counts(i, key, flow) ==
  Passes(flow, rules[i].prefix, key.direction) /\ key.protocol \in Classify(flow)

\* A flow passes a prefix in one direction at most, and updates its rules.
LEMMA PassesOnce ==
  ASSUME NEW flow, NEW i \in DOMAIN rules
  PROVE  /\ \A d \in Direction :
              <<i, d>> \in Updates(flow) <=> Passes(flow, rules[i].prefix, d)
         /\ \A d \in Direction :
              Passes(flow, rules[i].prefix, d) => d = DirectionFor(i, flow)
<1>1. \A ip : i \in MatchingRules(ip) <=> ip \in rules[i].prefix
  BY DEF MatchingRules
<1>2. /\ <<i, "inbound">> \in Updates(flow)
           <=> i \in MatchingRules(flow.dst_ip) \ MatchingRules(flow.src_ip)
      /\ <<i, "outbound">> \in Updates(flow)
           <=> i \in MatchingRules(flow.src_ip) \ MatchingRules(flow.dst_ip)
  BY DEF Updates
<1>3. /\ <<i, "inbound">> \in Updates(flow) <=> Enters(flow, rules[i].prefix)
      /\ <<i, "outbound">> \in Updates(flow) <=> Leaves(flow, rules[i].prefix)
  BY <1>1, <1>2 DEF Enters, Leaves
<1>4. ~(Enters(flow, rules[i].prefix) /\ Leaves(flow, rules[i].prefix))
  BY DEF Enters, Leaves
<1>5. QED
  BY <1>3, <1>4 DEF Passes, Direction, DirectionFor

\* A rule takes a flow in the one direction it passes, and its rings of that
\* direction and the flow's categories count it.
LEMMA TakenAndCounted ==
  ASSUME ProcessorInv, NEW flow, NEW i \in DOMAIN rules
  PROVE  /\ TakenIn(i, flow) =
              {d \in Direction : HasBuffers(rules[i], d) /\ Passes(flow, rules[i].prefix, d)}
         /\ \A key \in DOMAIN rules[i].buffers :
              key \in CountedIn(i, flow) <=> Counts(i, key, flow)
         /\ TakenIn(i, flow) # {} <=> Takes(i, flow)
         /\ Takes(i, flow) =>
              (CHOOSE d \in TakenIn(i, flow) : TRUE) = DirectionFor(i, flow)
<1>1. TakenIn(i, flow) =
        {d \in Direction : HasBuffers(rules[i], d) /\ Passes(flow, rules[i].prefix, d)}
  BY PassesOnce DEF TakenIn
<1>2. \A key \in DOMAIN rules[i].buffers :
        key.direction \in Direction /\ HasBuffers(rules[i], key.direction)
  <2>1. DOMAIN rules[i].buffers \subseteq BufferKey
    BY DEF ProcessorInv, TypeOK
  <2>2. QED
    BY <2>1 DEF BufferKey, HasBuffers
<1>3. \A key \in DOMAIN rules[i].buffers : key \in CountedIn(i, flow) <=> Counts(i, key, flow)
  BY <1>1, <1>2 DEF CountedIn, Counts
<1>4. TakenIn(i, flow) # {} <=> Takes(i, flow)
  BY <1>1 DEF Takes
<1>5. \A d \in TakenIn(i, flow) : d = DirectionFor(i, flow)
  BY <1>1, PassesOnce
<1>6. QED
  BY <1>1, <1>3, <1>4, <1>5

\* A flow that is taken was received at a second of the run, not before the
\* one taken before it.
LEMMA TimeInRun ==
  ASSUME ProcessorInv, NEW flow \in Traffic, ProcessFlow(flow) \/ EndTask(flow)
  PROVE  /\ flow.time_received \in Nat /\ clock \in Nat
         /\ flow.time_received \in Start .. MaxTime
         /\ flow.time_received >= clock
<1> DEFINE t == flow.time_received
<1>1. t \in clock .. MaxTime
  BY DEF ProcessFlow, EndTask
<1>2. clock \in Start .. MaxTime
  BY DEF ProcessorInv, TypeOK
<1> HIDE DEF t
<1>3. QED
  BY <1>1, <1>2, TimeAssumption DEF t

LEMMA ProcessEffect ==
  ASSUME ProcessorInv, NEW flow \in Traffic, ProcessFlow(flow), NEW i \in DOMAIN rules
  PROVE  /\ rules'[i].prefix = rules[i].prefix
         /\ rules'[i].captureSize = rules[i].captureSize
         /\ rules'[i] = [prefix      |-> config.rules[i].prefix,
                         buffers     |-> rules'[i].buffers,
                         capture     |-> rules'[i].capture,
                         captureSize |-> config.capture_buffer_size]
         /\ DOMAIN rules'[i].buffers = DOMAIN rules[i].buffers
         /\ \A key \in DOMAIN rules[i].buffers :
              rules'[i].buffers[key] =
                IF Counts(i, key, flow)
                THEN AddInstantFlow(window, rules[i].buffers[key], flow.time_received,
                                    Volume(flow))
                ELSE rules[i].buffers[key]
         /\ rules'[i].capture =
              IF Takes(i, flow)
              THEN PushCaptured(rules[i], [n |-> Len(log) + 1, direction |-> DirectionFor(i, flow)])
              ELSE rules[i].capture
<1> DEFINE rule == rules[i]
           directions == TakenIn(i, flow)
           d == CHOOSE x \in directions : TRUE
<1>1. rule = [prefix      |-> config.rules[i].prefix,
              buffers     |-> rule.buffers,
              capture     |-> rule.capture,
              captureSize |-> config.capture_buffer_size]
  BY DEF ProcessorInv, RulesAsConfigured
<1>2. rules'[i] = IF directions = {} THEN rule
                  ELSE [WithCaptured(i, flow, Len(log) + 1) EXCEPT
                          !.buffers = WithCounted(i, flow)]
  BY DEF ProcessFlow
<1>3. /\ \A key \in DOMAIN rule.buffers : key \in CountedIn(i, flow) <=> Counts(i, key, flow)
      /\ directions # {} <=> Takes(i, flow)
      /\ Takes(i, flow) => d = DirectionFor(i, flow)
  BY TakenAndCounted
<1>4. directions = {} => CountedIn(i, flow) = {}
  BY DEF CountedIn
<1>5. CASE directions = {}
  <2>1. rules'[i] = rule
    BY <1>2, <1>5
  <2>2. ~Takes(i, flow)
    BY <1>3, <1>5
  <2>3. \A key \in DOMAIN rule.buffers : ~Counts(i, key, flow)
    BY <1>3, <1>4, <1>5
  <2> HIDE DEF rule
  <2>4. QED
    BY <1>1, <2>1, <2>2, <2>3 DEF rule
<1>6. CASE directions # {}
  <2>1. Takes(i, flow) /\ d = DirectionFor(i, flow)
    BY <1>3, <1>6
  <2> HIDE DEF d
  <2> DEFINE buffers ==
               [key \in DOMAIN rule.buffers |->
                  IF key \in CountedIn(i, flow)
                  THEN AddInstantFlow(window, rule.buffers[key], flow.time_received, Volume(flow))
                  ELSE rule.buffers[key]]
             capture == PushCaptured(rule, [n |-> Len(log) + 1, direction |-> d])
  <2>2. rules'[i] = [rule EXCEPT !.capture = capture, !.buffers = buffers]
    BY <1>2, <1>6 DEF WithCaptured, WithCounted, d
  <2>3. /\ DOMAIN buffers = DOMAIN rule.buffers
        /\ \A key \in DOMAIN rule.buffers :
             buffers[key] =
               IF Counts(i, key, flow)
               THEN AddInstantFlow(window, rule.buffers[key], flow.time_received, Volume(flow))
               ELSE rule.buffers[key]
    BY <1>3
  <2> HIDE DEF buffers, capture, rule
  <2>4. rules'[i] = [prefix      |-> config.rules[i].prefix,
                     buffers     |-> buffers,
                     capture     |-> capture,
                     captureSize |-> config.capture_buffer_size]
    <3> DEFINE b == rule.buffers
               c == rule.capture
    <3>1. rule = [prefix |-> config.rules[i].prefix, buffers |-> b, capture |-> c,
                  captureSize |-> config.capture_buffer_size]
      BY <1>1
    <3> HIDE DEF b, c
    <3>2. QED
      BY <2>2, <3>1
  <2>5. /\ rules'[i].prefix = rule.prefix /\ rules'[i].captureSize = rule.captureSize
        /\ rules'[i].buffers = buffers /\ rules'[i].capture = capture
    BY <1>1, <2>4
  <2>6. QED
    BY <2>1, <2>3, <2>4, <2>5 DEF rule, capture
<1>7. QED
  BY <1>5, <1>6

LEMMA ProcessUndrained ==
  ASSUME ProcessorInv, NEW flow \in Traffic, ProcessFlow(flow), NEW i \in DOMAIN rules
  PROVE  LET N == Len(log) + 1
             one == IF Takes(i, flow) THEN {N} ELSE {}
         IN  /\ Capturable(i) \subseteq 1 .. Len(log)
             /\ Capturable(i)' = Capturable(i) \cup one
             /\ Undrained(i)' = Undrained(i) \cup one
             /\ \A n \in Capturable(i) : Directions(i)'[n] = Directions(i)[n]
             /\ Takes(i, flow) => Directions(i)'[N] = DirectionFor(i, flow)
<1> DEFINE N == Len(log) + 1
           one == IF Takes(i, flow) THEN {N} ELSE {}
<1>1. /\ rules'[i].prefix = rules[i].prefix
      /\ DOMAIN rules'[i].buffers = DOMAIN rules[i].buffers
  BY ProcessEffect
<1>2. log' = Append(log, flow) /\ drainedTo' = drainedTo
  BY DEF ProcessFlow
<1>3. /\ Len(log) \in Nat /\ DOMAIN log = 1 .. Len(log)
      /\ DOMAIN log' = (1 .. Len(log)) \cup {N}
      /\ log'[N] = flow
      /\ \A n \in 1 .. Len(log) : log'[n] = log[n]
  <2> DEFINE E == FlowRecord(Addr)
  <2>1. log \in Seq(E) /\ flow \in E
    BY TrafficAssumption DEF ProcessorInv, TypeOK
  <2> HIDE DEF E
  <2>2. /\ Len(log) \in Nat /\ DOMAIN log = 1 .. Len(log)
        /\ Append(log, flow) \in Seq(E) /\ Len(Append(log, flow)) = N
        /\ Append(log, flow)[N] = flow
        /\ \A n \in 1 .. Len(log) : Append(log, flow)[n] = log[n]
    BY <2>1, LenProperties, AppendProperties
  <2>3. DOMAIN Append(log, flow) = 1 .. N
    BY <2>2, LenProperties
  <2>4. 1 .. N = (1 .. Len(log)) \cup {N}
    BY <2>2
  <2>5. QED
    BY <1>2, <2>2, <2>3, <2>4
<1>4. \A d : HasBuffers(rules'[i], d) <=> HasBuffers(rules[i], d)
  BY <1>1 DEF HasBuffers
<1>5. Capturable(i) \subseteq 1 .. Len(log)
  BY <1>3 DEF Capturable
<1>6. Capturable(i)' = Capturable(i) \cup one
  <2>1. Capturable(i)' =
          {n \in DOMAIN log' : \E d \in Direction :
             HasBuffers(rules[i], d) /\ Passes(log'[n], rules[i].prefix, d)}
    BY <1>1, <1>4 DEF Capturable
  <2>2. QED
    BY <1>3, <2>1 DEF Capturable, Takes
<1> DEFINE direction(n) == IF Enters(log'[n], rules[i].prefix)
                           THEN "inbound" ELSE "outbound"
           scope(n) == [prefix |-> rules[i].prefix, direction |-> direction(n)]
<1>7. Directions(i)' = [n \in Capturable(i)' |-> direction(n)]
  BY <1>1 DEF Directions, DirectionOf
<1>8. Undrained(i)' =
        {n \in Capturable(i)' : scope(n) \in Scopes => n > drainedTo[scope(n)]}
  BY <1>1, <1>2 DEF Undrained, ScopeOf, DirectionOf
<1>9. \A n \in Capturable(i) :
        DirectionOf(i, n) = direction(n) /\ ScopeOf(i, n) = scope(n)
  BY <1>3, <1>5 DEF DirectionOf, ScopeOf
<1>10. direction(N) = DirectionFor(i, flow)
  BY <1>3 DEF DirectionFor
<1>11. scope(N) \in Scopes => N > drainedTo[scope(N)]
  <2>1. \A s \in Scopes : drainedTo[s] <= Len(log) /\ drainedTo[s] \in Nat
    BY DEF ProcessorInv, DrainedBefore, TypeOK
  <2>2. QED
    BY <1>3, <2>1
<1> HIDE DEF direction, scope, N
<1>12. Undrained(i)' = Undrained(i) \cup one
  <2>1. Undrained(i) = {n \in Capturable(i) : scope(n) \in Scopes => n > drainedTo[scope(n)]}
    BY <1>9 DEF Undrained
  <2>2. one \subseteq {N}
    OBVIOUS
  <2> HIDE DEF one
  <2>3. QED
    BY <1>6, <1>8, <1>11, <2>1, <2>2
<1>13. \A n \in Capturable(i) : Directions(i)'[n] = Directions(i)[n]
  BY <1>6, <1>7, <1>9 DEF Directions
<1>14. Takes(i, flow) => Directions(i)'[N] = DirectionFor(i, flow)
  BY <1>6, <1>7, <1>10
<1>15. QED
  BY <1>5, <1>6, <1>12, <1>13, <1>14 DEF N

LEMMA ProcessCaptures ==
  ASSUME ProcessorInv, NEW flow \in Traffic, ProcessFlow(flow), NEW i \in DOMAIN rules
  PROVE  /\ Recent(rules'[i].capture, Room(rules'[i].captureSize), Capturable(i)', Undrained(i)',
                   Directions(i)')
         /\ InOrder(rules'[i].capture) /\ rules'[i].capture \in Seq(CapturedFlow)
<1> DEFINE N == Len(log) + 1
           one == IF Takes(i, flow) THEN {N} ELSE {}
           captured == [n |-> N, direction |-> DirectionFor(i, flow)]
           old == rules[i].capture
           new == rules'[i].capture
           cap == Room(rules[i].captureSize)
           capturable == Capturable(i)
           undrained == Undrained(i)
           before == Directions(i)
           after == Directions(i)'
<1>1. /\ Recent(old, cap, capturable, undrained, before)
      /\ InOrder(old) /\ old \in Seq(CapturedFlow)
  BY DEF ProcessFlow, ProcessorInv, CapturesInOrder, TypeOK, AllRecent
<1>2. Room(rules'[i].captureSize) = cap /\ cap \in Nat
  BY RuleFacts, ProcessEffect DEF Room
<1>3. /\ capturable \subseteq 1 .. Len(log)
      /\ Capturable(i)' = capturable \cup one
      /\ Undrained(i)' = undrained \cup one
      /\ \A n \in capturable : after[n] = before[n]
      /\ Takes(i, flow) => after[N] = DirectionFor(i, flow)
  BY ProcessUndrained
<1>4. undrained \subseteq capturable
  BY DEF Undrained
<1>5. new = IF Takes(i, flow) THEN PushCaptured(rules[i], captured) ELSE old
  BY ProcessEffect
<1>6. Len(log) \in Nat
  BY LenProperties DEF ProcessorInv, TypeOK
<1>7. CASE ~Takes(i, flow)
  <2>1. new = old /\ Capturable(i)' = capturable /\ Undrained(i)' = undrained
    BY <1>3, <1>5, <1>7
  <2> HIDE DEF old, new, cap, capturable, undrained, before, after
  <2>2. Recent(old, cap, capturable, undrained, after)
    BY <1>1, <1>3, <1>4 DEF Recent
  <2>3. QED
    BY <1>1, <1>2, <2>1, <2>2 DEF cap, new, after
<1>8. CASE Takes(i, flow)
  <2>1. captured \in CapturedFlow /\ captured.n = N /\ captured.direction = DirectionFor(i, flow)
    BY <1>6 DEF CapturedFlow, DirectionFor, Direction
  <2>2. \A k \in 1 .. Len(old) : old[k].n < captured.n
    <3>1. \A k \in 1 .. Len(old) : old[k].n \in undrained
      BY <1>1, LenProperties DEF Recent
    <3>2. QED
      BY <1>3, <1>4, <1>6, <2>1, <3>1
  <2>3. PushedOnto(new, old, captured, cap)
    <3>1. Len(old) <= cap
      BY <1>1 DEF Recent
    <3>2. rules[i].captureSize \in Nat
      BY RuleFacts
    <3>3. cap = Room(rules[i].captureSize)
      OBVIOUS
    <3>4. new = PushCaptured(rules[i], captured)
      BY <1>5, <1>8
    <3> HIDE DEF new, cap, captured
    <3>5. QED
      BY <1>1, <1>2, <2>1, <2>2, <3>1, <3>2, <3>3, <3>4, PushEffect
  <2> DEFINE capturable2 == capturable \cup {N}
             undrained2 == undrained \cup {N}
  <2>4. Capturable(i)' = capturable2 /\ Undrained(i)' = undrained2 /\ after[N] = captured.direction
    BY <1>3, <1>8, <2>1
  <2>5. N \notin capturable /\ capturable2 \subseteq 1 .. N /\ undrained2 \subseteq capturable2
    BY <1>3, <1>4, <1>6
  <2> HIDE DEF old, new, cap, capturable, undrained, before, after, captured
  <2>6. /\ new \in Seq(CapturedFlow) /\ Len(new) <= cap /\ InOrder(new)
        /\ \A k \in 1 .. Len(new) :
             new[k] = captured \/ \E j \in 1 .. Len(old) : new[k] = old[j]
        /\ \E k \in 1 .. Len(new) : new[k] = captured
        /\ \A j \in 1 .. Len(old) :
             \/ \E k \in 1 .. Len(new) : new[k] = old[j]
             \/ /\ Len(new) = cap
                /\ \A k \in 1 .. Len(new) : old[j].n < new[k].n
    BY <2>3 DEF PushedOnto
  <2>7. DOMAIN new = 1 .. Len(new) /\ DOMAIN old = 1 .. Len(old)
    BY <1>1, <2>6, LenProperties
  <2>8. ASSUME NEW k \in DOMAIN new
        PROVE  /\ new[k].n \in undrained2
               /\ new[k].direction = after[new[k].n]
               /\ k > 1 => new[k - 1].n < new[k].n
    <3>1. k > 1 => new[k - 1].n < new[k].n
      BY <2>6, StepsInOrder
    <3>2. CASE new[k] = captured
      BY <2>1, <2>4, <3>1, <3>2
    <3>3. ASSUME NEW j \in 1 .. Len(old), new[k] = old[j]
          PROVE  new[k].n \in undrained2 /\ new[k].direction = after[new[k].n]
      <4>1. old[j].n \in undrained /\ old[j].direction = before[old[j].n]
        BY <1>1, <2>7 DEF Recent
      <4>2. QED
        BY <1>3, <1>4, <3>3, <4>1
    <3>4. QED
      BY <2>6, <2>7, <3>1, <3>2, <3>3
  <2>9. ASSUME NEW n \in undrained2 \ {new[k].n : k \in DOMAIN new}
        PROVE  Cardinality({m \in capturable2 : m > n}) >= cap
    <3> DEFINE newer == {m \in capturable2 : m > n}
    <3>1. n # N /\ n \in undrained
      BY <2>1, <2>6, <2>7
    <3>2. IsFiniteSet(1 .. N) /\ newer \subseteq 1 .. N
      <4>1. N \in Int /\ newer \subseteq capturable2
        BY <1>6
      <4> HIDE DEF N, newer, capturable2
      <4>2. newer \subseteq 1 .. N
        BY <2>5, <4>1
      <4>3. QED
        BY <4>1, <4>2, FS_Interval
    <3>3. IsFiniteSet(newer) /\ Cardinality(newer) \in Nat
      BY <3>2, FS_Subset, FS_CardinalityType
    <3>4. ASSUME NEW j \in 1 .. Len(old), n = old[j].n
          PROVE  Cardinality(newer) >= cap
      <4>1. Len(new) = cap /\ \A k \in 1 .. Len(new) : n < new[k].n
        BY <2>6, <2>7, <3>4
      <4>2. \A k \in 1 .. Len(new) : new[k].n \in newer
        <5>1. TAKE k \in 1 .. Len(new)
        <5>2. new[k].n \in capturable2 /\ new[k].n > n
          <6>1. new[k].n \in undrained2 /\ n \in 1 .. N /\ new[k].n \in 1 .. N
            BY <2>5, <2>7, <2>8
          <6>2. QED
            BY <2>5, <4>1, <6>1
        <5>3. QED
          BY <5>2
      <4> HIDE DEF newer
      <4>3. Len(new) <= Cardinality(newer)
        BY <2>6, <3>3, <4>2, AsManyAsCaptured
      <4>4. QED
        BY <1>2, <3>3, <4>1, <4>3
    <3>5. ASSUME \A j \in 1 .. Len(old) : n # old[j].n
          PROVE  Cardinality(newer) >= cap
      <4> DEFINE earlier == {m \in capturable : m > n}
      <4>1. Cardinality(earlier) >= cap
        BY <1>1, <2>7, <3>1, <3>5 DEF Recent
      <4>2. earlier \subseteq newer
        OBVIOUS
      <4> HIDE DEF newer, earlier
      <4>3. Cardinality(earlier) <= Cardinality(newer) /\ Cardinality(earlier) \in Nat
        BY <3>3, <4>2, FS_Subset, FS_CardinalityType
      <4>4. QED
        BY <1>2, <3>3, <4>1, <4>3
    <3>6. QED
      BY <3>4, <3>5
  <2> HIDE DEF capturable2, undrained2
  <2>10. Recent(new, cap, capturable2, undrained2, after)
    BY <2>6, <2>8, <2>9 DEF Recent
  <2>11. QED
    BY <1>2, <2>4, <2>6, <2>10 DEF new, cap, after
<1>9. QED
  BY <1>7, <1>8

\* The rates go on being the traffic: both count the flow alike.
LEMMA ProcessTotals ==
  ASSUME ProcessorInv, NEW flow \in Traffic, ProcessFlow(flow), NEW i \in DOMAIN rules, NEW key \in DOMAIN rules[i].buffers
  PROVE  /\ rules'[i].buffers[key] \in Ring(window)
         /\ InPlace(window, rules'[i].buffers[key], flow.time_received)
         /\ \A now \in Nat, m \in Measure : now >= flow.time_received =>
              WindowTotal(window, rules'[i].buffers[key], now, m)
                = Traffics(log', window, rules[i].prefix, key, now, m)
<1> DEFINE t == flow.time_received
           ring == rules[i].buffers[key]
           added == AddInstantFlow(window, ring, t, Volume(flow))
           new == rules'[i].buffers[key]
           prefix == rules[i].prefix
<1>1. new = IF Counts(i, key, flow) THEN added ELSE ring
  BY ProcessEffect
<1>2. /\ window \in Nat /\ t \in Nat /\ clock \in Nat
      /\ window <= t /\ clock <= t
  <2>1. t \in Nat /\ clock \in Nat /\ t >= clock
    BY TimeInRun
  <2>2. window \in 0 .. Start /\ clock \in Start .. MaxTime
    BY DEF ProcessorInv, WindowFits, TypeOK
  <2> HIDE DEF t
  <2>3. QED
    BY <2>1, <2>2, TimeAssumption
<1>3. ring \in Ring(window)
  BY DEF ProcessorInv, TypeOK
<1>4. InPlace(window, ring, t)
  <2>1. InPlace(window, ring, clock)
    BY DEF ProcessorInv, BucketsInPlace
  <2>2. ASSUME NEW b \in 0 .. (window - 1)
        PROVE  ring[b].timestamp = 0
                 \/ (ring[b].timestamp <= t /\ ring[b].timestamp % window = b)
    <3>1. ring[b].timestamp \in Nat
      BY <1>3 DEF Ring, Bucket
    <3> HIDE DEF ring
    <3>2. QED
      BY <1>2, <2>1, <3>1 DEF InPlace
  <2> HIDE DEF ring
  <2>3. QED
    BY <2>2 DEF InPlace
<1>5. flow \in FlowRecord(Addr) /\ Volume(flow) \in [Measure -> Nat]
  BY TrafficAssumption, VolumeTyped
<1>6. /\ flow \in Entry /\ log \in Seq(Entry)
      /\ log' = Append(log, flow)
  BY <1>5 DEF Entry, ProcessorInv, TypeOK, ProcessFlow
<1>7. Counts(i, key, flow) => window \in Nat \ {0} /\ AddedTo(added, window, ring, t, Volume(flow))
  <2>1. Counts(i, key, flow) => window # 0
    BY TakenAndCounted DEF ProcessFlow
  <2>2. QED
    BY <1>2, <1>3, <1>5, <2>1, AddEffect
<1>8. \A now \in Nat, m \in Measure : now >= clock =>
        WindowTotal(window, ring, now, m) = Traffics(log, window, prefix, key, now, m)
  BY DEF ProcessorInv, TotalsTrue
<1>9. Counts(i, key, flow)
        <=> Passes(flow, prefix, key.direction) /\ key.protocol \in Classify(flow)
  BY DEF Counts
<1> HIDE DEF t, ring, added, new, prefix
<1>10. new \in Ring(window)
  BY <1>1, <1>3, <1>7 DEF AddedTo
<1>11. InPlace(window, new, t)
  <2>1. Counts(i, key, flow) => InPlace(window, added, t)
    BY <1>2, <1>4, <1>7 DEF InPlace, AddedTo
  <2>2. QED
    BY <1>1, <1>4, <2>1
<1>12. ASSUME NEW now \in Nat, NEW m \in Measure, now >= t
       PROVE  WindowTotal(window, new, now, m)
                = Traffics(log', window, prefix, key, now, m)
  <2> DEFINE traffic == Traffics(log, window, prefix, key, now, m)
             counted == Counted(flow, window, prefix, key, now, m)
  <2>1. WindowTotal(window, ring, now, m) = traffic
    BY <1>2, <1>8, <1>12
  <2>2. traffic \in Nat /\ Traffics(log', window, prefix, key, now, m) = traffic + counted
    BY <1>6, TrafficAfterFlow
  <2>3. counted = IF Counts(i, key, flow) /\ now - t < window
                  THEN Volume(flow)[m] ELSE 0
    BY <1>5, <1>6, <1>9, VolumeTyped DEF Counted, t
  <2> HIDE DEF traffic, counted
  <2>4. CASE Counts(i, key, flow)
    <3>1. WindowTotal(window, added, now, m)
            = WindowTotal(window, ring, now, m)
                + (IF now - t < window THEN Volume(flow)[m] ELSE 0)
      BY <1>2, <1>3, <1>4, <1>5, <1>7, <1>12, <2>4, TotalAfterAdd DEF added
    <3>2. QED
      BY <1>1, <2>1, <2>2, <2>3, <2>4, <3>1
  <2>5. CASE ~Counts(i, key, flow)
    BY <1>1, <2>1, <2>2, <2>3, <2>5
  <2>6. QED
    BY <2>4, <2>5
<1>13. QED
  BY <1>10, <1>11, <1>12 DEF new, prefix, t

LEMMA ProcessProcessorInv ==
  ASSUME ProcessorInv, NEW flow \in Traffic, ProcessFlow(flow)
  PROVE  ProcessorInv'
<1> DEFINE t == flow.time_received
<1>1. /\ DOMAIN rules' = DOMAIN rules
      /\ UNCHANGED <<config, window, running, drainedTo>>
      /\ clock' = t /\ log' = Append(log, flow)
  BY DEF ProcessFlow
<1>2. /\ TypeOK /\ WindowFits /\ RulesAsConfigured /\ DrainedBefore
  BY DEF ProcessorInv
<1>3. \A i \in DOMAIN rules :
        /\ rules'[i].prefix = rules[i].prefix
        /\ DOMAIN rules'[i].buffers = DOMAIN rules[i].buffers
        /\ rules'[i] = [prefix      |-> config.rules[i].prefix,
                        buffers     |-> rules'[i].buffers,
                        capture     |-> rules'[i].capture,
                        captureSize |-> config.capture_buffer_size]
  BY ProcessEffect
<1>4. \A i \in DOMAIN rules :
        InOrder(rules'[i].capture) /\ rules'[i].capture \in Seq(CapturedFlow)
  BY ProcessCaptures
<1>5. \A i \in DOMAIN rules : \A key \in DOMAIN rules[i].buffers :
        /\ rules'[i].buffers[key] \in Ring(window)
        /\ InPlace(window, rules'[i].buffers[key], t)
        /\ \A now \in Nat, m \in Measure : now >= t =>
             WindowTotal(window, rules'[i].buffers[key], now, m)
               = Traffics(log', window, rules[i].prefix, key, now, m)
  BY ProcessTotals
<1>6. log' \in Seq(Entry) /\ Len(log') = Len(log) + 1 /\ Len(log) \in Nat
  <2>1. flow \in Entry /\ log \in Seq(Entry)
    BY <1>2, TrafficAssumption DEF Entry, TypeOK
  <2>2. QED
    BY <1>1, <2>1, AppendProperties, LenProperties
<1>7. TypeOK'
  <2>1. \A i \in DOMAIN rules :
          rules[i].prefix \subseteq Addr /\ DOMAIN rules[i].buffers \subseteq BufferKey
    BY <1>2 DEF TypeOK
  <2>2. \A i \in DOMAIN rules' :
          /\ rules'[i].prefix \subseteq Addr
          /\ DOMAIN rules'[i].buffers \subseteq BufferKey
          /\ \A key \in DOMAIN rules'[i].buffers : rules'[i].buffers[key] \in Ring(window')
          /\ rules'[i].capture \in Seq(CapturedFlow)
    BY <1>1, <1>3, <1>4, <1>5, <2>1
  <2>3. log' \in Seq(FlowRecord(Addr))
    BY <1>6 DEF Entry
  <2>4. QED
    BY <1>1, <1>2, <2>2, <2>3, TimeInRun DEF TypeOK
<1>8. WindowFits'
  BY <1>1, <1>2 DEF WindowFits
<1>9. RulesAsConfigured'
  <2>1. \A i \in DOMAIN rules : DOMAIN rules'[i].buffers = BufferKeys(config.rules[i])
    BY <1>2, <1>3 DEF RulesAsConfigured
  <2>2. DOMAIN rules' = DOMAIN config.rules
    BY <1>1, <1>2 DEF RulesAsConfigured
  <2>3. QED
    BY <1>1, <1>3, <2>1, <2>2 DEF RulesAsConfigured
<1>10. BucketsInPlace'
  BY <1>1, <1>3, <1>5 DEF BucketsInPlace
<1>11. TotalsTrue'
  BY <1>1, <1>3, <1>5 DEF TotalsTrue
<1>12. CapturesInOrder'
  BY <1>1, <1>4 DEF CapturesInOrder
<1>13. DrainedBefore'
  <2>1. \A scope \in Scopes : drainedTo[scope] \in Nat /\ drainedTo[scope] <= Len(log)
    BY <1>2 DEF TypeOK, DrainedBefore
  <2>2. QED
    BY <1>1, <1>6, <2>1 DEF DrainedBefore
<1>14. AllRecent'
  BY <1>1, ProcessCaptures DEF AllRecent
<1>15. QED
  BY <1>7, <1>8, <1>9, <1>10, <1>11, <1>12, <1>13, <1>14 DEF ProcessorInv

-----------------------------------------------------------------------------
(* The end of the task.                                                    *)

LEMMA EndEffect ==
  ASSUME ProcessorInv, NEW flow \in Traffic, EndTask(flow), NEW i \in DOMAIN rules
  PROVE  /\ rules'[i] = [prefix      |-> config.rules[i].prefix,
                         buffers     |-> rules[i].buffers,
                         capture     |-> rules'[i].capture,
                         captureSize |-> config.capture_buffer_size]
         /\ InOrder(rules'[i].capture) /\ rules'[i].capture \in Seq(CapturedFlow)
<1> DEFINE captured == [n |-> Len(log) + 1, direction |-> DirectionFor(i, flow)]
           list == PushCaptured(rules[i], captured)
<1>1. rules[i] = [prefix      |-> config.rules[i].prefix,
                  buffers     |-> rules[i].buffers,
                  capture     |-> rules[i].capture,
                  captureSize |-> config.capture_buffer_size]
  BY DEF ProcessorInv, RulesAsConfigured
<1>2. InOrder(rules[i].capture) /\ rules[i].capture \in Seq(CapturedFlow)
  BY DEF ProcessorInv, CapturesInOrder, TypeOK
<1>3. CASE rules'[i] = rules[i]
  BY <1>1, <1>2, <1>3
<1>4. CASE Takes(i, flow) /\ rules'[i] = WithCaptured(i, flow, Len(log) + 1)
  <2>1. rules'[i] = [rules[i] EXCEPT !.capture = list]
    BY <1>4, TakenAndCounted DEF WithCaptured
  <2>2. InOrder(list) /\ list \in Seq(CapturedFlow)
    <3> DEFINE old == rules[i].capture
               size == rules[i].captureSize
               cap == Room(size)
    <3>1. Len(log) \in Nat
      BY LenProperties DEF ProcessorInv, TypeOK
    <3>2. captured \in CapturedFlow /\ captured.n = Len(log) + 1
      BY <3>1 DEF CapturedFlow, DirectionFor, Direction
    <3>3. AllRecent /\ running
      BY DEF EndTask, ProcessorInv
    <3>4. Len(old) <= cap /\ \A k \in DOMAIN old : old[k].n \in Undrained(i)
      BY <3>3 DEF AllRecent, Recent
    <3>5. \A n \in Undrained(i) : n \in 1 .. Len(log)
      BY LenProperties DEF Undrained, Capturable, ProcessorInv, TypeOK
    <3>6. \A k \in 1 .. Len(old) : old[k].n < captured.n
      BY <1>2, <3>1, <3>2, <3>4, <3>5, LenProperties
    <3>7. size \in Nat /\ cap \in Nat
      BY RuleFacts DEF Room
    <3> HIDE DEF captured
    <3>8. PushedOnto(list, old, captured, cap)
      BY <1>2, <3>2, <3>4, <3>6, <3>7, PushEffect
    <3>9. QED
      BY <3>8 DEF PushedOnto
  <2> HIDE DEF list
  <2>3. rules'[i] = [prefix      |-> config.rules[i].prefix,
                     buffers     |-> rules[i].buffers,
                     capture     |-> list,
                     captureSize |-> config.capture_buffer_size]
    <3> DEFINE b == rules[i].buffers
               c == rules[i].capture
    <3>1. rules[i] = [prefix |-> config.rules[i].prefix, buffers |-> b, capture |-> c,
                      captureSize |-> config.capture_buffer_size]
      BY <1>1
    <3> HIDE DEF b, c
    <3>2. QED
      BY <2>1, <3>1 DEF b
  <2>4. rules'[i].capture = list
    BY <2>3
  <2>5. QED
    BY <2>2, <2>3, <2>4
<1>5. QED
  BY <1>3, <1>4, TakenAndCounted DEF EndTask

LEMMA EndProcessorInv ==
  ASSUME ProcessorInv, NEW flow \in Traffic, EndTask(flow)
  PROVE  ProcessorInv'
<1> DEFINE t == flow.time_received
<1>1. /\ DOMAIN rules' = DOMAIN rules
      /\ UNCHANGED <<config, window, log, drainedTo>>
      /\ clock' = t /\ t >= clock /\ running' = FALSE
  BY TimeInRun DEF EndTask
<1>2. /\ TypeOK /\ WindowFits /\ RulesAsConfigured /\ BucketsInPlace /\ TotalsTrue
      /\ DrainedBefore
  BY DEF ProcessorInv
<1>3. \A i \in DOMAIN rules :
        /\ rules'[i] = [prefix      |-> config.rules[i].prefix,
                        buffers     |-> rules[i].buffers,
                        capture     |-> rules'[i].capture,
                        captureSize |-> config.capture_buffer_size]
        /\ InOrder(rules'[i].capture) /\ rules'[i].capture \in Seq(CapturedFlow)
  BY EndEffect
<1>4. \A i \in DOMAIN rules :
        rules'[i].prefix = rules[i].prefix /\ rules'[i].buffers = rules[i].buffers
  <2>1. ASSUME NEW i \in DOMAIN rules
        PROVE  rules'[i].prefix = config.rules[i].prefix /\ rules'[i].buffers = rules[i].buffers
    <3> DEFINE b == rules[i].buffers
               c == rules'[i].capture
    <3>1. rules'[i] = [prefix |-> config.rules[i].prefix, buffers |-> b, capture |-> c,
                       captureSize |-> config.capture_buffer_size]
      BY <1>3
    <3> HIDE DEF b, c
    <3>2. rules'[i].prefix = config.rules[i].prefix /\ rules'[i].buffers = b
      BY <3>1
    <3>3. QED
      BY <3>2 DEF b
  <2>2. QED
    BY <2>1, RuleFacts
<1>5. clock \in Nat /\ t \in Nat /\ window = 0
  BY TimeInRun DEF EndTask
<1>6. TypeOK'
  <2>1. \A i \in DOMAIN rules :
          /\ rules[i].prefix \subseteq Addr
          /\ DOMAIN rules[i].buffers \subseteq BufferKey
          /\ \A key \in DOMAIN rules[i].buffers : rules[i].buffers[key] \in Ring(window)
    BY <1>2 DEF TypeOK
  <2>2. \A i \in DOMAIN rules' :
          /\ rules'[i].prefix \subseteq Addr
          /\ DOMAIN rules'[i].buffers \subseteq BufferKey
          /\ \A key \in DOMAIN rules'[i].buffers : rules'[i].buffers[key] \in Ring(window')
          /\ rules'[i].capture \in Seq(CapturedFlow)
    BY <1>1, <1>3, <1>4, <2>1
  <2>3. QED
    BY <1>1, <1>2, <2>2, TimeInRun DEF TypeOK
<1>7. WindowFits' /\ DrainedBefore'
  BY <1>1, <1>2 DEF WindowFits, DrainedBefore
<1>8. RulesAsConfigured'
  <2>1. \A i \in DOMAIN rules : DOMAIN rules'[i].buffers = BufferKeys(config.rules[i])
    BY <1>2, <1>4 DEF RulesAsConfigured
  <2>2. DOMAIN rules' = DOMAIN config.rules
    BY <1>1, <1>2 DEF RulesAsConfigured
  <2>3. \A i \in DOMAIN rules :
          rules'[i] = [prefix      |-> config.rules[i].prefix,
                       buffers     |-> rules'[i].buffers,
                       capture     |-> rules'[i].capture,
                       captureSize |-> config.capture_buffer_size]
    BY <1>3, <1>4
  <2>4. QED
    BY <1>1, <2>1, <2>2, <2>3 DEF RulesAsConfigured
<1>9. BucketsInPlace'
  BY <1>1, <1>2, <1>4, <1>5 DEF BucketsInPlace, InPlace
<1>10. TotalsTrue'
  <2>1. \A now \in Nat : now >= t => now >= clock
    BY <1>1, <1>5
  <2>2. QED
    BY <1>1, <1>2, <1>4, <2>1 DEF TotalsTrue
<1>11. CapturesInOrder'
  BY <1>1, <1>3 DEF CapturesInOrder
<1>12. AllRecent'
  BY <1>1 DEF AllRecent
<1>13. QED
  BY <1>6, <1>7, <1>8, <1>9, <1>10, <1>11, <1>12 DEF ProcessorInv

-----------------------------------------------------------------------------
\* The invariant holds of every behaviour: a start and a reload establish it
\* afresh, a flow and a drain keep it.
THEOREM ProcessorInvariance == Spec => []ProcessorInv
<1>1. Init => ProcessorInv
  BY InitProcessorInv
<1>2. ProcessorInv /\ [Next]_vars => ProcessorInv'
  <2>1. SUFFICES ASSUME ProcessorInv, [Next]_vars PROVE ProcessorInv'
    OBVIOUS
  <2>2. ASSUME NEW flow \in Traffic, ProcessFlow(flow)
        PROVE  ProcessorInv'
    BY <2>1, <2>2, ProcessProcessorInv
  <2>3. ASSUME NEW flow \in Traffic, EndTask(flow)
        PROVE  ProcessorInv'
    BY <2>1, <2>3, EndProcessorInv
  <2>4. ASSUME NEW scope \in Scopes, DrainCapturedFlows(scope) PROVE ProcessorInv'
    BY <2>1, <2>4, DrainProcessorInv
  <2>5. ASSUME NEW new \in Configs, ReloadConfig(new) PROVE ProcessorInv'
    BY <2>1, <2>5, ReloadProcessorInv
  <2>6. CASE UNCHANGED vars
    <3>1. UNCHANGED <<config, rules, window, running, clock, log, drainedTo>>
      BY <2>6 DEF vars
    <3>2. TypeOK'
      BY <2>1, <3>1 DEF ProcessorInv, TypeOK
    <3>3. WindowFits' /\ RulesAsConfigured' /\ BucketsInPlace' /\ TotalsTrue'
      <4>1. WindowFits' /\ BucketsInPlace'
        BY <2>1, <3>1 DEF ProcessorInv, WindowFits, BucketsInPlace
      <4>2. RulesAsConfigured'
        BY <2>1, <3>1, Zenon DEF ProcessorInv, RulesAsConfigured
      <4>3. TotalsTrue'
        BY <2>1, <3>1 DEF ProcessorInv, TotalsTrue
      <4>4. QED
        BY <4>1, <4>2, <4>3
    <3>4. CapturesInOrder' /\ DrainedBefore'
      BY <2>1, <3>1 DEF ProcessorInv, CapturesInOrder, DrainedBefore
    <3>5. AllRecent'
      <4>1. \A i : Capturable(i)' = Capturable(i) /\ Undrained(i)' = Undrained(i)
        BY <3>1 DEF Capturable, Undrained, HasBuffers, ScopeOf, DirectionOf
      <4>2. \A i : Directions(i)' = Directions(i)
        BY <3>1, <4>1 DEF Directions, DirectionOf
      <4>3. AllRecent
        BY <2>1 DEF ProcessorInv
      <4>4. QED
        BY <3>1, <4>1, <4>2, <4>3 DEF AllRecent
    <3>6. QED
      BY <3>2, <3>3, <3>4, <3>5 DEF ProcessorInv
  <2>7. QED
    BY <2>1, <2>2, <2>3, <2>4, <2>5, <2>6 DEF Next
<1>3. QED
  BY <1>1, <1>2, PTL DEF Spec

\* The processor's state has its types: every ring is as long as the window,
\* and only of categories and directions there are (processor.rs).
THEOREM TypeCorrect == Spec => []TypeOK
<1>1. ProcessorInv => TypeOK
  BY DEF ProcessorInv
<1>2. QED
  BY <1>1, ProcessorInvariance, PTL

\* Every rate of compute_all_rates is that of the traffic that passed the
\* prefix in the window, whatever rules overlap or repeat it.
THEOREM RatesTrue == Spec => []RatesAreTraffic
<1>1. ProcessorInv => RatesAreTraffic
  <2>1. SUFFICES ASSUME ProcessorInv, NEW now \in clock .. MaxTime,
                        NEW snapshot \in ComputeAllRates(now), NEW m \in Measure
                 PROVE  snapshot.total[m] =
                          TrueTraffic(snapshot.prefix, snapshot.key, now, m)
    BY DEF RatesAreTraffic
  <2>2. PICK i \in DOMAIN rules : \E key \in DOMAIN rules[i].buffers :
               snapshot = RateSnapshot(i, key, now)
    BY DEF ComputeAllRates
  <2>3. PICK key \in DOMAIN rules[i].buffers : snapshot = RateSnapshot(i, key, now)
    BY <2>2
  <2>4. now \in Nat /\ now >= clock
    BY <2>1, TimeAssumption DEF ProcessorInv, TypeOK
  <2>5. WindowTotal(window, rules[i].buffers[key], now, m)
          = Traffics(log, window, rules[i].prefix, key, now, m)
    BY <2>1, <2>4 DEF ProcessorInv, TotalsTrue
  <2>6. /\ snapshot.prefix = rules[i].prefix /\ snapshot.key = key
        /\ snapshot.total[m] = WindowTotal(window, rules[i].buffers[key], now, m)
    BY <2>3 DEF RateSnapshot
  <2>7. QED
    BY <2>5, <2>6, TrueTrafficIs
<1>2. QED
  BY <1>1, ProcessorInvariance, PTL

\* find_rate finds a rate for every alert of the configuration, the same one
\* whichever rule of its prefix comes first.
THEOREM AlertsRated == Spec => []EveryAlertIsRated
<1>1. ProcessorInv => EveryAlertIsRated
  <2>1. SUFFICES ASSUME ProcessorInv, NEW alert \in AlertsOf(config)
                 PROVE  Cardinality({snapshot.total : snapshot \in
                          {s \in ComputeAllRates(clock) :
                             s.prefix = alert.prefix /\ s.key = alert.key}}) = 1
    BY DEF EveryAlertIsRated
  <2> DEFINE matching == {s \in ComputeAllRates(clock) :
                            s.prefix = alert.prefix /\ s.key = alert.key}
             total == [m \in Measure |->
                         Traffics(log, window, alert.prefix, alert.key, clock, m)]
  <2>2. PICK i \in DOMAIN config.rules : \E key \in ThresholdKeys(config.rules[i]) :
               alert \in AlertsFor(config, i, key)
    BY <2>1 DEF AlertsOf
  <2>3. PICK key \in ThresholdKeys(config.rules[i]) : alert \in AlertsFor(config, i, key)
    BY <2>2
  <2>4. alert.prefix = config.rules[i].prefix /\ alert.key = key
    BY <2>3 DEF AlertsFor
  <2>5. i \in DOMAIN rules /\ rules[i].prefix = alert.prefix
        /\ key \in DOMAIN rules[i].buffers
    BY <2>1, <2>3, <2>4, RuleFacts DEF ProcessorInv, RulesAsConfigured, BufferKeys
  <2>6. RateSnapshot(i, key, clock) \in matching
    <3>1. RateSnapshot(i, key, clock) \in ComputeAllRates(clock)
      BY <2>5 DEF ComputeAllRates
    <3>2. QED
      BY <2>4, <2>5, <3>1 DEF RateSnapshot
  <2>7. ASSUME NEW s \in matching PROVE s.total = total
    <3>1. PICK j \in DOMAIN rules : \E k \in DOMAIN rules[j].buffers :
                 s = RateSnapshot(j, k, clock)
      BY DEF ComputeAllRates
    <3>2. PICK k \in DOMAIN rules[j].buffers : s = RateSnapshot(j, k, clock)
      BY <3>1
    <3>3. clock \in Nat
      BY <2>1, TimeAssumption DEF ProcessorInv, TypeOK
    <3>4. \A m \in Measure :
            WindowTotal(window, rules[j].buffers[k], clock, m)
              = Traffics(log, window, rules[j].prefix, k, clock, m)
      BY <2>1, <3>3 DEF ProcessorInv, TotalsTrue
    <3>5. /\ rules[j].prefix = alert.prefix /\ k = alert.key
          /\ s.total = [m \in Measure |-> WindowTotal(window, rules[j].buffers[k], clock, m)]
      BY <3>2 DEF RateSnapshot
    <3>6. QED
      BY <3>4, <3>5
  <2> HIDE DEF matching, total
  <2>8. {snapshot.total : snapshot \in matching} = {total}
    BY <2>6, <2>7
  <2>9. Cardinality({snapshot.total : snapshot \in matching}) = 1
    BY <2>8, FS_Singleton
  <2>10. QED
    BY <2>9 DEF matching
<1>2. QED
  BY <1>1, ProcessorInvariance, PTL

\* While the task runs, a capture buffer of any size but zero holds, in order,
\* the latest flows of its rule that were not drained; both directions share
\* the room (process_flow, drain_captured_flows).
THEOREM CapturesTheLatest == Spec => []CaptureIsRecent
<1>1. ProcessorInv => CaptureIsRecent
  <2>1. SUFFICES ASSUME ProcessorInv, running PROVE CaptureIsRecent
    BY DEF CaptureIsRecent
  <2>2. ASSUME NEW i \in DOMAIN rules, rules[i].captureSize > 0
        PROVE  Recent(rules[i].capture, rules[i].captureSize, Capturable(i), Undrained(i),
                      Directions(i))
    <3>1. rules[i].captureSize \in Nat
      BY <2>1, RuleFacts
    <3>2. Room(rules[i].captureSize) = rules[i].captureSize
      BY <2>2, <3>1 DEF Room
    <3>3. QED
      BY <2>1, <3>2 DEF ProcessorInv, AllRecent
  <2>3. \A i \in DOMAIN rules : \A n \in Undrained(i) : Directions(i)[n] = DirectionOf(i, n)
    BY DEF Undrained, Directions
  <2>4. QED
    BY <2>2, <2>3 DEF CaptureIsRecent, Recent, CapturedBy
<1>2. QED
  BY <1>1, ProcessorInvariance, PTL

=============================================================================
