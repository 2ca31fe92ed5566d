------------------------- MODULE AttackResponse_proofs -------------------------
(***************************************************************************)
(* The safety of the daemon under attack, for every window, policy,        *)
(* attack, script timeout and number of reloads.                           *)
(*                                                                         *)
(* The properties relate what happens now to what happened over a span of  *)
(* seconds; ResponseInv says what the state remembers of the span.  The    *)
(* ring holds a set of attack seconds, at least those since the last       *)
(* reload (RingInv).  The alert's instant stands for a run of samples of   *)
(* which it tells the least or the greatest rate (AlertInv), and is no     *)
(* older than the last payload (TasksInTime); with the promptness of       *)
(* tasks that spaces the payloads.  Where the ticker stands says how far   *)
(* the published values are behind the clock (PublicationInv).             *)
(***************************************************************************)
EXTENDS AttackResponse, CodeLemmas

PublicationInv ==
  \/ /\ ticker = "due"
     /\ evaluation = clock - 1 /\ snapshots = clock - 1 /\ alert_states = clock - 1
     /\ page \subseteq {snapshots}
  \/ /\ ticker = "evaluated"
     /\ evaluation = clock /\ snapshots = clock - 1 /\ alert_states = clock - 1
     /\ page \subseteq {snapshots}
  \/ /\ ticker = "published"
     /\ evaluation = clock /\ snapshots = clock /\ alert_states = clock - 1
     /\ page \subseteq {snapshots}
  \/ /\ ticker = "idle"
     /\ evaluation = clock /\ snapshots = clock /\ alert_states = clock
     /\ page \subseteq {snapshots}

\* The ring holds the attack seconds in C: no others, and all those since the
\* last reload that have been counted.
Holding(C) ==
  /\ C \subseteq Start .. clock
  /\ clock \in C => counted
  /\ \A s \in attack :
       /\ s < clock \/ (s = clock /\ counted)
       /\ \A r \in reloads : r < s
       => s \in C
  /\ \A now \in Nat :
       now >= clock =>
         WindowTotal(Window, ring, now, "bytes") = Cardinality({s \in C : now - s < Window})

RingInv ==
  /\ InPlace(Window, ring, clock)
  /\ \E C \in SUBSET attack : Holding(C)

\* The attack filled the window that ends at second u, and k seconds before.
Filling(u, k) == u - Filled - k .. u - 1 \subseteq attack

InWindow(u) == {s \in attack : u - Window < s /\ s <= u}

\* An alert that could fire was above the trigger since it turned pending ...
PendingInv ==
  alert.tag = "pending" =>
    /\ alert.at = evaluation \/ evaluation - alert.at < policy.triggerFor
    /\ \A u \in Nat :
         alert.at <= u /\ u <= evaluation => Cardinality(InWindow(u)) >= policy.trigger

\* ... one that could resolve saw, at every sample, a pause or a reload, ...
RecoveringInv ==
  alert.tag = "recovering" /\ policy.recover <= Filled =>
    \A u \in Nat :
      alert.at <= u /\ u <= evaluation /\ Filling(u, 0) =>
        \E r \in reloads : u - Filled <= r /\ r <= u

\* ... and one that could be late is at least pending since the window filled.
AttackInv ==
  policy.trigger <= Filled /\ policy.recover <= policy.trigger /\ evaluation >= Start =>
    \A k \in Nat :
      Filling(evaluation, k) /\ (\A r \in reloads : r < evaluation - Filled - k) =>
        \/ alert.tag = "firing"
        \/ alert.tag = "pending" /\ alert.at <= evaluation - k

AlertInv == alert.at <= evaluation /\ PendingInv /\ RecoveringInv /\ AttackInv

\* A task that waits for its script has not timed out, and no payload came
\* after what the alert's instant stands for.
InTime(task) ==
  /\ task.id <= evaluation /\ task.id <= task.since /\ task.since <= clock
  /\ task.stage = "waiting" /\ task.script = "running" => clock - task.since <= Timeout
  /\ alert.tag = "firing" => task.id <= alert.at
  /\ alert.tag \in {"pending", "recovering"} => task.id < alert.at

TasksInTime == \A task \in tasks : InTime(task)

PayloadsSpaced ==
  Patient => \A t1, t2 \in tasks : t1.id < t2.id => t2.id - t1.id > Timeout

ResponseInv ==
  /\ TypeOK /\ PublicationInv /\ RingInv /\ AlertInv /\ TasksInTime /\ PayloadsSpaced

-----------------------------------------------------------------------------
(* Types.                                                                  *)

LEMMA ConstantFacts ==
  /\ Window \in Nat \ {0} /\ Start \in Nat /\ MaxTime \in Nat /\ Timeout \in Nat
  /\ Start >= Window /\ Start <= MaxTime
  /\ Filled \in Nat /\ Filled = Window - 1
BY WindowAssumption, BoundAssumption, TimeoutAssumption DEF Filled

LEMMA TypedFacts ==
  ASSUME TypeOK
  PROVE  /\ clock \in Nat /\ Start <= clock /\ clock <= MaxTime
         /\ policy \in Policy
         /\ {policy.trigger, policy.recover, policy.triggerFor, policy.recoverFor,
             policy.updateInterval} \subseteq Nat
         /\ alert \in AlertState /\ alert.at \in Nat
         /\ alert.tag \in {"normal", "pending", "firing", "recovering"}
         /\ attack \subseteq Start .. MaxTime /\ IsFiniteSet(attack)
         /\ \A s \in attack : s \in Nat /\ s >= Start
         /\ \A r \in reloads : r \in Nat /\ r <= clock
         /\ \A task \in tasks : task \in Task /\ task.id \in Nat /\ task.since \in Nat
         /\ evaluation \in Nat
<1>1. clock \in Nat /\ Start <= clock /\ clock <= MaxTime
  BY ConstantFacts DEF TypeOK
<1>2. policy \in Policy
  BY PoliciesAssumption DEF TypeOK
<1>3. {policy.trigger, policy.recover, policy.triggerFor, policy.recoverFor,
       policy.updateInterval} \subseteq Nat
  BY <1>2 DEF Policy
<1>4. attack \subseteq Start .. MaxTime
  BY AttacksAssumption DEF TypeOK
<1>5. IsFiniteSet(attack)
  <2>1. IsFiniteSet(Start .. MaxTime)
    BY ConstantFacts, FS_Interval
  <2>2. QED
    BY <1>4, <2>1, FS_Subset
<1>6. \A s \in attack : s \in Nat /\ s >= Start
  BY <1>4, ConstantFacts
<1>7. \A r \in reloads : r \in Nat /\ r <= clock
  BY <1>1, ConstantFacts DEF TypeOK
<1>8. \A task \in tasks : task \in Task /\ task.id \in Nat /\ task.since \in Nat
  BY DEF TypeOK, Task
<1>9. /\ alert \in AlertState /\ alert.at \in Nat
      /\ alert.tag \in {"normal", "pending", "firing", "recovering"}
  BY DEF TypeOK, AlertState
<1>10. evaluation \in Nat
  BY DEF TypeOK, MetricsTypeOK
<1>11. QED
  BY <1>1, <1>2, <1>3, <1>4, <1>5, <1>6, <1>7, <1>8, <1>9, <1>10

\* A page shows the snapshots it was begun with, or there is none.
LEMMA PageTyped ==
  ASSUME NEW x \in Nat, NEW p, p \subseteq {x}
  PROVE  p \subseteq Nat /\ Cardinality(p) <= 1
<1>1. Cardinality({}) = 0
  BY FS_EmptySet
<1>2. Cardinality({x}) = 1
  BY FS_Singleton
<1>3. p = {} \/ p = {x}
  OBVIOUS
<1>4. CASE p = {}
  BY <1>1, <1>4
<1>5. CASE p = {x}
  BY <1>2, <1>5
<1>6. QED
  BY <1>3, <1>4, <1>5

-----------------------------------------------------------------------------
(* The ring.                                                               *)

LEMMA OneByteTyped == OneByte \in [Measure -> Nat] /\ OneByte["bytes"] = 1
BY DEF OneByte, Measure

\* The seconds held that are in a window are finitely many.
LEMMA HeldFinite ==
  ASSUME NEW C, IsFiniteSet(C), NEW now
  PROVE  /\ IsFiniteSet({s \in C : now - s < Window})
         /\ Cardinality({s \in C : now - s < Window}) \in Nat
BY FS_Subset, FS_CardinalityType

\* A ring emptied by a reload lacks no second it should hold.
LEMMA NewRingHolds ==
  ASSUME TypeOK, clock' = clock, attack' = attack,
         \A s \in attack : s <= clock => (s = clock /\ ~counted') \/ \E r \in reloads' : r >= s,
         reloads' \subseteq Start .. clock,
         ring' = NewRing(Window)
  PROVE  RingInv'
<1>1. InPlace(Window, ring', clock') /\ ring' \in Ring(Window)
  BY NewRingFacts, ConstantFacts
<1>2. Holding({})'
  <2>1. \A now \in Nat : {s \in {} : now - s < Window} = {}
    OBVIOUS
  <2>2. \A now \in Nat : WindowTotal(Window, ring', now, "bytes") = 0
    BY NewRingFacts, ConstantFacts DEF Measure
  <2>3. ASSUME NEW s \in attack', s < clock' \/ (s = clock' /\ counted'),
               \A r \in reloads' : r < s
        PROVE  FALSE
    <3>1. s \in Nat /\ s <= clock /\ clock \in Nat
      BY <2>3, TypedFacts
    <3>2. \A r \in reloads' : r \in Nat
      BY ConstantFacts, TypedFacts
    <3>3. PICK r \in reloads' : r >= s
      BY <2>3, <3>1
    <3>4. QED
      BY <2>3, <3>1, <3>2, <3>3
  <2>4. QED
    BY <2>1, <2>2, <2>3, FS_EmptySet DEF Holding
<1>3. QED
  BY <1>1, <1>2 DEF RingInv

\* A flow adds its second to those the ring holds.
LEMMA CountFlowRingInv ==
  ASSUME TypeOK, RingInv, CountFlow
  PROVE  RingInv' /\ ring' \in Ring(Window)
<1>1. PICK C \in SUBSET attack : Holding(C)
  BY DEF RingInv
<1>d. PICK D : D = C \cup {clock}
  OBVIOUS
<1>2. ring' = AddInstantFlow(Window, ring, clock, OneByte)
  BY DEF CountFlow
<1>3. /\ Window \in Nat \ {0} /\ ring \in Ring(Window) /\ clock \in Nat /\ Window <= clock
      /\ OneByte \in [Measure -> Nat] /\ InPlace(Window, ring, clock)
  BY ConstantFacts, TypedFacts, OneByteTyped DEF TypeOK, RingInv
<1>4. InPlace(Window, ring', clock) /\ ring' \in Ring(Window)
  BY <1>2, <1>3, AddInPlace, AddEffect DEF AddedTo
<1>5. clock \in attack /\ clock \notin C /\ ~counted /\ counted' /\ IsFiniteSet(C)
  BY <1>1, TypedFacts, FS_Subset DEF CountFlow, Holding
<1>6. ASSUME NEW now \in Nat, now >= clock
      PROVE  WindowTotal(Window, ring', now, "bytes") = Cardinality({s \in D : now - s < Window})
  <2> DEFINE held == {s \in C : now - s < Window}
  <2>1. WindowTotal(Window, ring', now, "bytes")
          = WindowTotal(Window, ring, now, "bytes") + (IF now - clock < Window THEN 1 ELSE 0)
    BY <1>2, <1>3, <1>6, TotalAfterAdd, OneByteTyped DEF Measure
  <2>2. WindowTotal(Window, ring, now, "bytes") = Cardinality(held)
    BY <1>1, <1>6 DEF Holding
  <2>3. IsFiniteSet(held) /\ Cardinality(held) \in Nat /\ clock \notin held
    BY <1>5, HeldFinite
  <2>4. CASE now - clock < Window
    <3>1. {s \in D : now - s < Window} = held \cup {clock}
      BY <1>d, <2>4
    <3>2. Cardinality(held \cup {clock}) = Cardinality(held) + 1
      BY <2>3, FS_AddElement
    <3> HIDE DEF held
    <3>3. QED
      BY <2>1, <2>2, <2>4, <3>1, <3>2
  <2>5. CASE ~(now - clock < Window)
    <3>1. {s \in D : now - s < Window} = held
      BY <1>d, <2>5
    <3>2. WindowTotal(Window, ring', now, "bytes") = Cardinality(held) + 0
      BY <2>1, <2>2, <2>5
    <3> HIDE DEF held
    <3>3. WindowTotal(Window, ring', now, "bytes") = Cardinality(held)
      BY <2>3, <3>2
    <3>4. QED
      BY <3>1, <3>3
  <2>6. QED
    BY <2>4, <2>5
<1>7. Holding(D)'
  <2>1. /\ clock' = clock /\ attack' = attack /\ reloads' = reloads
    BY DEF CountFlow
  <2>2. D \subseteq Start .. clock
    <3>1. C \subseteq Start .. clock
      BY <1>1 DEF Holding
    <3>2. clock \in Start .. clock
      BY TypedFacts, ConstantFacts
    <3>3. QED
      BY <1>d, <3>1, <3>2
  <2>3. ASSUME NEW s \in attack, s < clock \/ s = clock, \A r \in reloads : r < s
        PROVE  s \in D
    BY <1>1, <1>d, <2>3 DEF Holding
  <2>4. QED
    BY <1>5, <1>6, <2>1, <2>2, <2>3 DEF Holding
<1>8. D \in SUBSET attack'
  BY <1>d, <1>5 DEF CountFlow
<1>9. QED
  BY <1>4, <1>7, <1>8 DEF RingInv, CountFlow

\* A second ends with its flow counted.
LEMMA NextSecondRingInv ==
  ASSUME TypeOK, RingInv, NextSecond
  PROVE  RingInv'
<1>1. PICK C \in SUBSET attack : Holding(C)
  BY DEF RingInv
<1>2. /\ clock' = clock + 1 /\ ~counted' /\ attack' = attack /\ reloads' = reloads
      /\ ring' = ring /\ clock \in Nat /\ (clock \in attack => counted)
  BY TypedFacts DEF NextSecond
<1>3. InPlace(Window, ring', clock')
  <2>1. \A b \in 0 .. (Window - 1) : ring[b].timestamp \in Nat
    BY DEF TypeOK, Ring, Bucket
  <2>2. QED
    BY <1>2, <2>1 DEF RingInv, InPlace
<1>4. Holding(C)'
  <2>1. C \subseteq Start .. clock' /\ clock' \notin C
    BY <1>1, <1>2, ConstantFacts DEF Holding
  <2>2. ASSUME NEW s \in attack, s < clock', \A r \in reloads : r < s
        PROVE  s \in C
    <3>1. s \in Nat
      BY TypedFacts
    <3>2. s < clock \/ s = clock
      BY <1>2, <2>2, <3>1
    <3>3. QED
      BY <1>1, <1>2, <2>2, <3>2 DEF Holding
  <2>3. \A now \in Nat : now >= clock' => now >= clock
    BY <1>2
  <2>4. QED
    BY <1>1, <1>2, <2>1, <2>2, <2>3 DEF Holding
<1>5. QED
  BY <1>2, <1>3, <1>4 DEF RingInv

\* What the alert is rated by: no more than the attack seconds in the window,
\* and all of the window but the current second while the attack fills it.
LEMMA RateBounds ==
  ASSUME TypeOK, RingInv
  PROVE  LET rate == WindowTotal(Window, ring, clock, "bytes")
         IN  /\ rate \in Nat
             /\ Cardinality(InWindow(clock)) \in Nat
             /\ rate <= Cardinality(InWindow(clock))
             /\ Filling(clock, 0) /\ (\A r \in reloads : r < clock - Filled)
                  => rate >= Filled
<1> DEFINE rate == WindowTotal(Window, ring, clock, "bytes")
<1>1. PICK C \in SUBSET attack : Holding(C)
  BY DEF RingInv
<1>2. PICK held : held = {s \in C : clock - s < Window}
  OBVIOUS
<1>3. clock \in Nat /\ IsFiniteSet(C) /\ \A s \in C : s \in Nat /\ s <= clock
  <2>1. clock \in Nat /\ IsFiniteSet(attack) /\ \A s \in attack : s \in Nat
    BY TypedFacts
  <2>2. IsFiniteSet(C)
    BY <2>1, FS_Subset
  <2>3. C \subseteq Start .. clock
    BY <1>1 DEF Holding
  <2>4. QED
    BY <2>1, <2>2, <2>3, ConstantFacts
<1>4. rate = Cardinality(held)
  BY <1>1, <1>2, <1>3 DEF Holding
<1>5. IsFiniteSet(held) /\ Cardinality(held) \in Nat
  BY <1>2, <1>3, HeldFinite
<1>6. Cardinality(held) <= Cardinality(InWindow(clock)) /\ Cardinality(InWindow(clock)) \in Nat
  <2>1. held \subseteq InWindow(clock)
    BY <1>2, <1>3, ConstantFacts DEF InWindow
  <2>2. IsFiniteSet(InWindow(clock))
    BY TypedFacts, FS_Subset DEF InWindow
  <2>3. QED
    BY <2>1, <2>2, FS_Subset, FS_CardinalityType
<1>7. ASSUME Filling(clock, 0), \A r \in reloads : r < clock - Filled
      PROVE  Filled <= Cardinality(held)
  <2> DEFINE a == clock - Filled
             b == clock - 1
  <2>1. a \in Int /\ b \in Int /\ Filled \in Nat
    BY <1>3, ConstantFacts
  <2>2. a .. b \subseteq attack
    BY <1>7, <2>1 DEF Filling
  <2>3. ASSUME NEW s \in a .. b
        PROVE  s \in held
    <3>1. s \in attack /\ s < clock /\ clock - s < Window
      BY <1>3, <2>1, <2>2, ConstantFacts
    <3>2. \A r \in reloads : r < s
      BY <1>3, <1>7, <2>1, TypedFacts
    <3>3. QED
      BY <1>1, <1>2, <3>1, <3>2 DEF Holding
  <2>4. Cardinality(a .. b) = Filled
    <3>1. Cardinality(a .. b) = IF a > b THEN 0 ELSE b - a + 1
      BY <2>1, FS_Interval
    <3>2. QED
      BY <1>3, <2>1, <3>1
  <2> HIDE DEF a, b
  <2>5. a .. b \in SUBSET held
    BY <2>3
  <2>6. QED
    BY <1>5, <2>4, <2>5, FS_Subset
<1>8. QED
  BY <1>4, <1>5, <1>6, <1>7

-----------------------------------------------------------------------------
(* A tick.                                                                 *)

\* One evaluation, spelled out for the alert and for the tasks.
Sample(rate) ==
  LET NoPayload == tasks' = tasks
      Payload   == \/ tasks' = tasks
                   \/ \E size \in Sizes : tasks' = tasks \cup {NewTask(clock, size)}
      Stays     == alert' = alert
      Turns(tag) == alert'.tag = tag /\ alert'.at = clock
  IN  \/ alert.tag = "normal" /\ rate >= policy.trigger /\ Turns("pending") /\ NoPayload
      \/ alert.tag = "normal" /\ rate < policy.trigger /\ Stays /\ NoPayload
      \/ alert.tag = "pending" /\ rate < policy.trigger /\ alert' = Normal /\ NoPayload
      \/ alert.tag = "pending" /\ rate >= policy.trigger
           /\ clock - alert.at >= policy.triggerFor /\ Turns("firing") /\ Payload
      \/ alert.tag = "pending" /\ rate >= policy.trigger
           /\ clock - alert.at < policy.triggerFor /\ Stays /\ NoPayload
      \/ alert.tag = "firing" /\ rate < policy.recover /\ Turns("recovering") /\ NoPayload
      \/ alert.tag = "firing" /\ rate >= policy.recover
           /\ clock - alert.at >= policy.updateInterval /\ Turns("firing") /\ Payload
      \/ alert.tag = "firing" /\ rate >= policy.recover
           /\ clock - alert.at < policy.updateInterval /\ Stays /\ NoPayload
      \/ alert.tag = "recovering" /\ rate >= policy.recover /\ Turns("firing") /\ NoPayload
      \/ alert.tag = "recovering" /\ rate < policy.recover
           /\ clock - alert.at >= policy.recoverFor /\ alert' = Normal /\ Payload
      \/ alert.tag = "recovering" /\ rate < policy.recover
           /\ clock - alert.at < policy.recoverFor /\ Stays /\ NoPayload

\* Sample is the Evaluate of the model, at the rate of the ring.
LEMMA EvaluateIsSample ==
  ASSUME TypeOK, RingInv, Evaluate
  PROVE  Sample(WindowTotal(Window, ring, clock, "bytes"))
<1> DEFINE rate == WindowTotal(Window, ring, clock, "bytes")
           o == EvaluateAlert(policy, alert, rate, clock)
<1>1. /\ rate \in Nat /\ clock \in Nat /\ policy \in Policy /\ alert \in AlertState
  BY RateBounds, TypedFacts
<1>2. /\ alert' = o.state
      /\ o.action = "none" => tasks' = tasks
      /\ o.action # "none" =>
           \/ tasks' = tasks
           \/ \E size \in Sizes : tasks' = tasks \cup {NewTask(clock, size)}
  <2>1. \A size : ExecuteScript(script_path, clock, size) \in {{}, {NewTask(clock, size)}}
    BY DEF ExecuteScript
  <2>2. QED
    BY <2>1 DEF Evaluate
<1>3. \A st, a : Outcome(st, a).state = st /\ Outcome(st, a).action = a
  BY DEF Outcome
<1> HIDE DEF o, rate
<1>4. QED
  BY <1>1, <1>2, <1>3, EvaluateCases, StateFields DEF o, rate, Sample

\* What a tick leaves alone, and where it puts the evaluation.
LEMMA EvaluateFrame ==
  ASSUME TypeOK, PublicationInv, Evaluate
  PROVE  /\ evaluation = clock - 1 /\ evaluation' = clock /\ clock' = clock
         /\ policy' = policy /\ attack' = attack /\ reloads' = reloads
         /\ \A u, k : Filling(u, k)' <=> Filling(u, k)
         /\ \A u : InWindow(u)' = InWindow(u)
<1>1. /\ evaluation = clock - 1 /\ evaluation' = clock /\ clock' = clock
      /\ policy' = policy /\ attack' = attack /\ reloads' = reloads
  BY DEF PublicationInv, Evaluate, Evaluated
<1>2. QED
  BY <1>1 DEF Filling, InWindow

\* A pending alert has been above the trigger at every sample since.
LEMMA EvaluatePendingInv ==
  ASSUME TypeOK, PublicationInv, RingInv, AlertInv, Evaluate
  PROVE  alert'.at <= evaluation' /\ PendingInv'
<1>1. PICK rate \in Nat : Sample(rate) /\ rate <= Cardinality(InWindow(clock))
  BY EvaluateIsSample, RateBounds
<1>2. /\ evaluation = clock - 1 /\ evaluation' = clock /\ clock \in Nat
      /\ policy.trigger \in Nat /\ policy.triggerFor \in Nat /\ alert.at \in Nat
      /\ Cardinality(InWindow(clock)) \in Nat /\ alert.at <= evaluation
  BY EvaluateFrame, TypedFacts, RateBounds DEF AlertInv
<1>3. alert'.at <= evaluation'
  BY <1>1, <1>2, StateFields DEF Sample
<1>4. ASSUME alert'.tag = "pending"
      PROVE  /\ alert'.at = clock \/ clock - alert'.at < policy.triggerFor
             /\ \A u \in Nat : alert'.at <= u /\ u <= clock =>
                  Cardinality(InWindow(u)) >= policy.trigger
  <2>1. \/ alert'.at = clock /\ rate >= policy.trigger
        \/ /\ alert.tag = "pending" /\ rate >= policy.trigger
           /\ clock - alert.at < policy.triggerFor /\ alert' = alert
    BY <1>1, <1>4, StateFields DEF Sample
  <2>2. rate >= policy.trigger => Cardinality(InWindow(clock)) >= policy.trigger
    BY <1>1, <1>2
  <2>3. ASSUME NEW u \in Nat, alert'.at <= u, u <= clock
        PROVE  Cardinality(InWindow(u)) >= policy.trigger
    <3>1. CASE u = clock
      BY <2>1, <2>2, <3>1
    <3>2. CASE u # clock
      <4>1. u <= evaluation /\ alert'.at # clock
        BY <1>2, <2>3, <3>2
      <4>2. alert' = alert /\ alert.tag = "pending"
        BY <2>1, <4>1
      <4>3. QED
        BY <2>3, <4>1, <4>2 DEF AlertInv, PendingInv
    <3>3. QED
      BY <3>1, <3>2
  <2>4. QED
    BY <2>1, <2>3
<1>5. PendingInv'
  BY <1>4, EvaluateFrame DEF PendingInv
<1>6. QED
  BY <1>3, <1>5

\* A rate below recover while the attack fills the window takes a reload.
LEMMA EvaluateRecoveringInv ==
  ASSUME TypeOK, PublicationInv, RingInv, AlertInv, Evaluate
  PROVE  RecoveringInv'
<1>1. PICK rate \in Nat :
        /\ Sample(rate)
        /\ Filling(clock, 0) /\ (\A r \in reloads : r < clock - Filled) => rate >= Filled
  BY EvaluateIsSample, RateBounds
<1>2. /\ evaluation = clock - 1 /\ evaluation' = clock /\ clock \in Nat
      /\ policy.recover \in Nat /\ alert.at \in Nat /\ Filled \in Nat
      /\ \A r \in reloads : r \in Nat /\ r <= clock
  BY EvaluateFrame, TypedFacts, ConstantFacts
<1>3. ASSUME alert'.tag = "recovering", policy.recover <= Filled, NEW u \in Nat,
             alert'.at <= u, u <= clock, Filling(u, 0)
      PROVE  \E r \in reloads : u - Filled <= r /\ r <= u
  <2>1. /\ rate < policy.recover
        /\ alert'.at = clock \/ (alert.tag = "recovering" /\ alert' = alert)
    BY <1>1, <1>3, StateFields DEF Sample
  <2>2. CASE u = clock
    <3>1. ~(rate >= Filled)
      BY <1>2, <1>3, <2>1
    <3>2. PICK r \in reloads : ~(r < clock - Filled)
      BY <1>1, <1>3, <2>2, <3>1
    <3>3. r \in Nat /\ r <= u /\ u - Filled <= r
      BY <1>2, <2>2, <3>2
    <3>4. QED
      BY <3>3
  <2>3. CASE u # clock
    <3>1. u <= evaluation /\ alert'.at # clock
      BY <1>2, <1>3, <2>3
    <3>2. QED
      BY <1>3, <2>1, <3>1 DEF AlertInv, RecoveringInv
  <2>4. QED
    BY <2>2, <2>3
<1>4. QED
  BY <1>3, EvaluateFrame DEF RecoveringInv

\* A filled window leaves no alert normal or recovering.
LEMMA EvaluateAttackInv ==
  ASSUME TypeOK, PublicationInv, RingInv, AlertInv, Evaluate
  PROVE  AttackInv'
<1>1. PICK rate \in Nat :
        /\ Sample(rate)
        /\ Filling(clock, 0) /\ (\A r \in reloads : r < clock - Filled) => rate >= Filled
  BY EvaluateIsSample, RateBounds
<1>2. /\ evaluation = clock - 1 /\ evaluation' = clock /\ clock \in Nat /\ Start \in Nat
      /\ {policy.trigger, policy.recover} \subseteq Nat /\ alert.at \in Nat
      /\ Filled \in Nat /\ alert.at <= evaluation
      /\ \A r \in reloads : r \in Nat
      /\ \A s \in attack : s >= Start
  BY EvaluateFrame, TypedFacts, ConstantFacts DEF AlertInv
<1>3. ASSUME policy.trigger <= Filled, policy.recover <= policy.trigger, NEW k \in Nat,
             Filling(clock, k), \A r \in reloads : r < clock - Filled - k
      PROVE  alert'.tag = "firing" \/ (alert'.tag = "pending" /\ alert'.at <= clock - k)
  <2>1. rate >= policy.trigger /\ rate >= policy.recover
    <3>1. Filling(clock, 0)
      BY <1>2, <1>3 DEF Filling
    <3>2. \A r \in reloads : r < clock - Filled
      BY <1>2, <1>3
    <3>3. QED
      BY <1>1, <1>2, <1>3, <3>1, <3>2
  <2>2. CASE k = 0
    BY <1>1, <1>2, <2>1, <2>2 DEF Sample
  <2>3. CASE k # 0
    <3>1. k - 1 \in Nat /\ evaluation - Filled - (k - 1) = clock - Filled - k
      BY <1>2, <2>3
    <3>2. Filling(evaluation, k - 1)
      BY <1>2, <1>3, <3>1 DEF Filling
    <3>3. evaluation >= Start
      <4>1. clock - 1 \in attack
        BY <1>2, <1>3, <2>3 DEF Filling
      <4>2. QED
        BY <1>2, <4>1
    <3>4. \A r \in reloads : r < evaluation - Filled - (k - 1)
      BY <1>3, <3>1
    <3>5. alert.tag = "firing" \/ (alert.tag = "pending" /\ alert.at <= evaluation - (k - 1))
      BY <1>3, <3>1, <3>2, <3>3, <3>4 DEF AlertInv, AttackInv
    <3>6. evaluation - (k - 1) = clock - k
      BY <1>2
    <3>7. QED
      BY <1>1, <1>2, <2>1, <3>5, <3>6 DEF Sample
  <2>4. QED
    BY <2>2, <2>3
<1>4. QED
  BY <1>3, EvaluateFrame DEF AttackInv

\* A new payload comes when the time limit of all earlier ones has passed.
LEMMA EvaluatePayload ==
  ASSUME TypeOK, PublicationInv, RingInv, TasksInTime, Evaluate
  PROVE  \/ tasks' = tasks
         \/ \E size \in Sizes :
              /\ tasks' = tasks \cup {NewTask(clock, size)}
              /\ alert' = Normal \/ (alert'.tag = "firing" /\ alert'.at = clock)
              /\ Patient => \A task \in tasks : clock - task.id > Timeout
<1>1. PICK rate \in Nat : Sample(rate)
  BY EvaluateIsSample, RateBounds
<1>2. /\ evaluation = clock - 1 /\ clock \in Nat /\ Timeout \in Nat /\ alert.at \in Nat
      /\ {policy.triggerFor, policy.recoverFor, policy.updateInterval} \subseteq Nat
      /\ \A task \in tasks : task.id \in Nat
  BY EvaluateFrame, TypedFacts, ConstantFacts
<1>3. CASE tasks' = tasks
  BY <1>3
<1>4. CASE tasks' # tasks
  <2>1. PICK size \in Sizes : tasks' = tasks \cup {NewTask(clock, size)}
    BY <1>1, <1>4 DEF Sample
  <2>2. \/ /\ alert.tag = "pending" /\ clock - alert.at >= policy.triggerFor
           /\ alert'.tag = "firing" /\ alert'.at = clock
        \/ /\ alert.tag = "firing" /\ clock - alert.at >= policy.updateInterval
           /\ alert'.tag = "firing" /\ alert'.at = clock
        \/ /\ alert.tag = "recovering" /\ clock - alert.at >= policy.recoverFor
           /\ alert' = Normal
    BY <1>1, <1>4 DEF Sample
  <2>3. ASSUME Patient, NEW task \in tasks
        PROVE  clock - task.id > Timeout
    <3>1. InTime(task)
      BY DEF TasksInTime
    <3>2. /\ alert.tag = "firing" => task.id <= alert.at
          /\ alert.tag \in {"pending", "recovering"} => task.id < alert.at
      BY <3>1 DEF InTime
    <3>3. QED
      BY <1>2, <2>2, <2>3, <3>2 DEF Patient
  <2>4. QED
    BY <2>1, <2>2, <2>3
<1>5. QED
  BY <1>3, <1>4

\* A tick adds at most one task, whose payload is far enough from the others.
LEMMA EvaluateTasks ==
  ASSUME TypeOK, PublicationInv, RingInv, TasksInTime, PayloadsSpaced, Evaluate
  PROVE  tasks' \subseteq Task /\ TasksInTime' /\ PayloadsSpaced'
<1>1. PICK rate \in Nat : Sample(rate)
  BY EvaluateIsSample, RateBounds
<1>2. /\ evaluation = clock - 1 /\ evaluation' = clock /\ clock' = clock /\ clock \in Nat
      /\ policy' = policy /\ alert.at \in Nat /\ Timeout \in Nat
      /\ \A task \in tasks : task.id \in Nat /\ task.since \in Nat
      /\ tasks \subseteq Task
  BY EvaluateFrame, TypedFacts, ConstantFacts DEF TypeOK
<1>3. ASSUME NEW task \in tasks PROVE InTime(task)'
  <2>1. InTime(task)
    BY DEF TasksInTime
  <2>2. task.id < clock /\ task.id <= task.since /\ task.since <= clock
    BY <1>2, <2>1 DEF InTime
  <2>3. /\ alert'.tag = "firing" => task.id <= alert'.at
        /\ alert'.tag \in {"pending", "recovering"} => task.id < alert'.at
    <3>1. \/ alert' = alert \/ alert' = Normal \/ alert'.at = clock
      BY <1>1 DEF Sample
    <3>2. QED
      BY <1>2, <2>1, <2>2, <3>1, StateFields DEF InTime
  <2>4. QED
    BY <1>2, <2>1, <2>2, <2>3 DEF InTime
<1>4. CASE tasks' = tasks
  BY <1>2, <1>3, <1>4 DEF TasksInTime, PayloadsSpaced, Patient
<1>5. ASSUME NEW size \in Sizes,
             tasks' = tasks \cup {NewTask(clock, size)},
             alert' = Normal \/ (alert'.tag = "firing" /\ alert'.at = clock),
             Patient => \A task \in tasks : clock - task.id > Timeout
      PROVE  tasks' \subseteq Task /\ TasksInTime' /\ PayloadsSpaced'
  <2>1. PICK new : new = NewTask(clock, size)
    OBVIOUS
  <2>2. /\ new \in Task /\ new.id = clock /\ new.since = clock /\ new.stage = "queued"
        /\ tasks' = tasks \cup {new}
    BY <1>2, <1>5, <2>1 DEF NewTask, Task
  <2>3. InTime(new)'
    BY <1>2, <1>5, <2>2, StateFields DEF InTime
  <2>4. TasksInTime'
    BY <1>3, <2>2, <2>3 DEF TasksInTime
  <2>5. \A task \in tasks : task.id < clock
    BY <1>2 DEF TasksInTime, InTime
  <2>6. PayloadsSpaced'
    <3> SUFFICES ASSUME Patient, NEW t1 \in tasks', NEW t2 \in tasks', t1.id < t2.id
                 PROVE  t2.id - t1.id > Timeout
      BY <1>2 DEF PayloadsSpaced, Patient
    <3>1. t1 # new
      BY <1>2, <2>2, <2>5
    <3>2. CASE t2 = new
      BY <1>5, <2>2, <3>1, <3>2
    <3>3. CASE t2 # new
      BY <2>2, <3>1, <3>3 DEF PayloadsSpaced
    <3>4. QED
      BY <3>2, <3>3
  <2>7. QED
    BY <1>2, <2>2, <2>4, <2>6
<1>6. QED
  BY <1>4, <1>5, EvaluatePayload

-----------------------------------------------------------------------------
(* The other steps.                                                        *)

\* A step of a script task keeps its payload; only the write of the payload
\* begins to wait for the script.
LEMMA ScriptStepEffect ==
  ASSUME TypeOK, TasksInTime, NEW task \in tasks, ScriptStep(task)
  PROVE  \E changed \in Task :
           /\ tasks' \subseteq tasks \cup {changed}
           /\ changed.id = task.id
           /\ changed.since \in {task.since, clock}
           /\ changed.stage = "waiting" /\ changed.script = "running" => changed.since = clock
<1>1. task \in Task /\ clock \in Nat
  BY TypedFacts
<1>2. ASSUME NEW stage \in {"writing", "waiting", "over"},
             NEW script \in {"none", "running", "gone"}, Enters(task, stage, script)
      PROVE  \E changed \in Task :
               /\ tasks' \subseteq tasks \cup {changed}
               /\ changed.id = task.id
               /\ changed.since = clock
  <2>1. PICK changed : changed = [task EXCEPT !.stage = stage, !.script = script, !.since = clock]
    OBVIOUS
  <2>2. changed \in Task /\ changed.id = task.id /\ changed.since = clock
    BY <1>1, <2>1 DEF Task
  <2>3. tasks' \subseteq tasks \cup {changed}
    BY <1>2, <2>1 DEF Enters, Becomes
  <2>4. QED
    BY <2>2, <2>3
<1>3. CASE ScriptExits(task)
  <2>1. PICK changed : changed = [task EXCEPT !.script = "gone"]
    OBVIOUS
  <2>2. /\ changed \in Task /\ changed.id = task.id /\ changed.since = task.since
        /\ changed.script = "gone"
    BY <1>1, <2>1 DEF Task
  <2>3. tasks' \subseteq tasks \cup {changed}
    BY <1>3, <2>1 DEF ScriptExits, Becomes
  <2>4. QED
    BY <2>2, <2>3
<1>4. CASE ~ScriptExits(task)
  <2>1. \E stage \in {"writing", "waiting", "over"}, script \in {"none", "running", "gone"} :
           Enters(task, stage, script)
    <3>1. task.script \in {"none", "running", "gone"}
      BY <1>1 DEF Task
    <3>2. QED
      BY <1>4, <3>1 DEF ScriptStep, Spawn, Write, WriteFails, Reap, WaitFails, Kill
  <2>2. QED
    BY <1>2, <2>1
<1>5. QED
  BY <1>3, <1>4

LEMMA RunScriptTasks ==
  ASSUME TypeOK, TasksInTime, PayloadsSpaced, RunScript
  PROVE  tasks' \subseteq Task /\ TasksInTime' /\ PayloadsSpaced'
<1>1. PICK task \in tasks : ScriptStep(task)
  BY DEF RunScript
<1>2. PICK changed \in Task :
        /\ tasks' \subseteq tasks \cup {changed}
        /\ changed.id = task.id
        /\ changed.since \in {task.since, clock}
        /\ changed.stage = "waiting" /\ changed.script = "running" => changed.since = clock
  BY <1>1, ScriptStepEffect
<1>3. /\ clock' = clock /\ evaluation' = evaluation /\ alert' = alert /\ policy' = policy
  BY DEF RunScript, daemonVars, metricsVars
<1>4. clock \in Nat /\ Timeout \in Nat /\ task.id \in Nat /\ task.since \in Nat
  BY TypedFacts, ConstantFacts
<1>5. \A t \in tasks : InTime(t)'
  BY <1>3 DEF TasksInTime, InTime
<1>6. InTime(changed)'
  <2>1. InTime(task)
    BY DEF TasksInTime
  <2>2. changed.id <= changed.since /\ changed.since <= clock
    BY <1>2, <1>4, <2>1 DEF InTime
  <2>3. QED
    BY <1>2, <1>3, <1>4, <2>1, <2>2 DEF InTime
<1>7. PayloadsSpaced'
  <2>1. \A t \in tasks' : \E u \in tasks : t.id = u.id
    BY <1>2
  <2>2. QED
    BY <1>3, <2>1 DEF PayloadsSpaced, Patient
<1>8. QED
  BY <1>2, <1>5, <1>6, <1>7 DEF TasksInTime, TypeOK

LEMMA NextSecondTasks ==
  ASSUME TypeOK, TasksInTime, NextSecond
  PROVE  TasksInTime'
<1>1. /\ clock' = clock + 1 /\ tasks' = tasks /\ alert' = alert /\ evaluation' = evaluation
      /\ \A task \in tasks : ~Due(task)
  BY DEF NextSecond
<1>2. SUFFICES ASSUME NEW task \in tasks PROVE InTime(task)'
  BY <1>1 DEF TasksInTime
<1>3. /\ clock \in Nat /\ Timeout \in Nat /\ task.id \in Nat /\ task.since \in Nat
      /\ InTime(task)
  BY TypedFacts, ConstantFacts DEF TasksInTime
<1>4. task.stage = "waiting" /\ task.script = "running" => clock + 1 - task.since <= Timeout
  BY <1>1, <1>3 DEF Due, Expired
<1>5. QED
  BY <1>1, <1>3, <1>4 DEF InTime

-----------------------------------------------------------------------------
(* All steps.                                                              *)

LEMMA PublicationStep ==
  ASSUME TypeOK, PublicationInv, [Next]_vars
  PROVE  PublicationInv'
<1>0. clock \in Nat
  BY TypedFacts
<1>1. CASE Evaluate
  BY <1>0, <1>1 DEF Evaluate, Evaluated, PublicationInv
<1>2. CASE Publish
  <2>1. CASE PublishSnapshots
    BY <1>2, <2>1 DEF Publish, PublishSnapshots, PublicationInv
  <2>2. CASE PublishStates
    BY <1>2, <2>2 DEF Publish, PublishStates, PublicationInv
  <2> QED
    BY <1>2, <2>1, <2>2 DEF Publish
<1>3. CASE Scrape
  BY <1>3 DEF Scrape, ReadSnapshots, RenderPage, PublicationInv, daemonVars
<1>4. CASE NextSecond
  BY <1>0, <1>4 DEF NextSecond, PublicationInv
<1>5. CASE CountFlow \/ Reload \/ RunScript \/ UNCHANGED vars
  BY <1>5 DEF CountFlow, Reload, RunScript, vars, metricsVars, PublicationInv
<1>6. QED
  BY <1>1, <1>2, <1>3, <1>4, <1>5 DEF Next

\* Where the ticker stands gives the types of what it publishes.
LEMMA MetricsTyped ==
  ASSUME PublicationInv', clock' \in Nat, clock' >= 1
  PROVE  MetricsTypeOK'
<1>1. /\ ticker' \in {"due", "evaluated", "published", "idle"}
      /\ evaluation' \in Nat /\ snapshots' \in Nat /\ alert_states' \in Nat
      /\ page' \subseteq {snapshots'}
  BY DEF PublicationInv
<1>2. page' \subseteq Nat /\ Cardinality(page') <= 1
  BY <1>1, PageTyped
<1>3. QED
  BY <1>1, <1>2 DEF MetricsTypeOK

LEMMA InitResponseInv == Init => ResponseInv
<1> SUFFICES ASSUME Init PROVE ResponseInv
  OBVIOUS
<1>1. NewRing(Window) \in Ring(Window) /\ Normal \in AlertState /\ Normal.at = 0
      /\ Normal.tag = "normal"
  BY NewRingFacts, ConstantFacts, StatesTyped, StateFields
<1>2. /\ clock = Start /\ evaluation = Start - 1 /\ snapshots = Start - 1
      /\ alert_states = Start - 1 /\ page = {} /\ ticker = "due" /\ Start - 1 \in Nat
  BY ConstantFacts DEF Init, MetricsInit
<1>3. TypeOK
  <2>1. MetricsTypeOK
    <3>1. Cardinality(page) <= 1
      BY <1>2, FS_EmptySet
    <3>2. QED
      BY <1>2, <3>1 DEF MetricsTypeOK
  <2>2. clock \in Start .. MaxTime
    BY <1>2, ConstantFacts
  <2>3. QED
    BY <1>1, <2>1, <2>2 DEF Init, TypeOK
<1>4. PublicationInv
  BY <1>2 DEF PublicationInv
<1>5. RingInv
  <2>1. InPlace(Window, ring, clock)
    BY NewRingFacts, ConstantFacts DEF Init
  <2>2. \A s \in attack : s \in Nat /\ s >= Start
    BY <1>3, TypedFacts
  <2>3. Holding({})
    <3>1. \A now \in Nat : {s \in {} : now - s < Window} = {}
      OBVIOUS
    <3>2. \A now \in Nat : WindowTotal(Window, ring, now, "bytes") = 0
      BY NewRingFacts, ConstantFacts DEF Init, Measure
    <3>3. ~counted /\ \A s \in attack : ~(s < clock)
      BY <1>2, <2>2, ConstantFacts DEF Init
    <3>4. QED
      BY <3>1, <3>2, <3>3, FS_EmptySet DEF Holding
  <2>4. QED
    BY <2>1, <2>3 DEF RingInv
<1>6. AlertInv
  <2>1. alert = Normal /\ ~(evaluation >= Start)
    BY <1>2, ConstantFacts DEF Init
  <2>2. QED
    BY <1>1, <1>2, <2>1 DEF AlertInv, PendingInv, RecoveringInv, AttackInv
<1>7. TasksInTime /\ PayloadsSpaced
  BY DEF Init, TasksInTime, PayloadsSpaced
<1>8. QED
  BY <1>3, <1>4, <1>5, <1>6, <1>7 DEF ResponseInv

LEMMA TypeStep ==
  ASSUME ResponseInv, [Next]_vars
  PROVE  TypeOK'
<1>1. /\ TypeOK /\ PublicationInv /\ RingInv /\ TasksInTime /\ PayloadsSpaced
  BY DEF ResponseInv
<1>2. /\ clock \in Nat /\ Start <= clock /\ clock <= MaxTime /\ Start \in Nat /\ Start >= 1
      /\ MaxTime \in Nat
  BY <1>1, TypedFacts, ConstantFacts
<1>3. clock' \in Start .. MaxTime /\ clock' \in Nat /\ clock' >= 1 /\ clock' >= clock
  BY <1>2 DEF Next, CountFlow, Evaluate, Reload, RunScript, Publish, Scrape, NextSecond, vars
<1>4. MetricsTypeOK'
  BY <1>1, <1>3, PublicationStep, MetricsTyped
<1>5. ring' \in Ring(Window)
  <2>1. CASE CountFlow
    BY <1>1, <2>1, CountFlowRingInv
  <2>2. CASE Reload
    BY <2>2, NewRingFacts, ConstantFacts DEF Reload
  <2>3. CASE ~CountFlow /\ ~Reload
    BY <1>1, <2>3 DEF TypeOK, Next, Evaluate, RunScript, Publish, Scrape, NextSecond,
                      vars, daemonVars
  <2>4. QED
    BY <2>1, <2>2, <2>3
<1>6. alert' \in AlertState /\ tasks' \subseteq Task
  <2>1. CASE Evaluate
    <3>1. alert' \in AlertState
      BY <1>1, <2>1, RateBounds, TypedFacts, ActionsFollowStates DEF Evaluate
    <3>2. QED
      BY <1>1, <2>1, <3>1, EvaluateTasks
  <2>2. CASE RunScript
    BY <1>1, <2>2, RunScriptTasks DEF TypeOK, RunScript, daemonVars
  <2>3. CASE ~Evaluate /\ ~RunScript
    BY <1>1, <2>3 DEF TypeOK, Next, CountFlow, Reload, Publish, Scrape, NextSecond,
                      vars, daemonVars
  <2>4. QED
    BY <2>1, <2>2, <2>3
<1>7. /\ policy' \in Policies /\ script_path' \in ScriptPath
      /\ attack' \in Attacks /\ counted' \in BOOLEAN
  BY <1>1 DEF TypeOK, Next, CountFlow, Evaluate, Reload, RunScript, Publish, Scrape,
              NextSecond, vars, daemonVars
<1>8. reloads' \subseteq Start .. clock'
  <2>1. reloads' \subseteq reloads \cup {clock}
    BY DEF Next, CountFlow, Evaluate, Reload, RunScript, Publish, Scrape, NextSecond,
           vars, daemonVars
  <2>2. reloads \subseteq Start .. clock
    BY <1>1 DEF TypeOK
  <2>3. QED
    BY <1>2, <1>3, <2>1, <2>2
<1>9. QED
  BY <1>3, <1>4, <1>5, <1>6, <1>7, <1>8 DEF TypeOK

LEMMA RingStep ==
  ASSUME ResponseInv, [Next]_vars
  PROVE  RingInv'
<1>1. TypeOK /\ RingInv
  BY DEF ResponseInv
<1>2. CASE CountFlow
  BY <1>1, <1>2, CountFlowRingInv
<1>3. CASE Reload
  <2>1. /\ ring' = NewRing(Window) /\ reloads' = reloads \cup {clock}
        /\ clock' = clock /\ attack' = attack
    BY <1>3 DEF Reload
  <2>2. \A s \in attack : s <= clock => \E r \in reloads' : r >= s
    BY <2>1
  <2>3. reloads' \subseteq Start .. clock
    BY <1>1, <2>1, TypedFacts, ConstantFacts DEF TypeOK
  <2>4. QED
    BY <1>1, <2>1, <2>2, <2>3, NewRingHolds
<1>4. CASE NextSecond
  BY <1>1, <1>4, NextSecondRingInv
<1>5. CASE Evaluate \/ RunScript \/ Publish \/ Scrape \/ UNCHANGED vars
  <2>1. UNCHANGED <<ring, clock, counted, attack, reloads>>
    BY <1>5 DEF Evaluate, RunScript, Publish, Scrape, vars, daemonVars
  <2>2. PICK C \in SUBSET attack : Holding(C)
    BY <1>1 DEF RingInv
  <2>3. Holding(C)'
    BY <2>1, <2>2 DEF Holding
  <2>4. QED
    BY <1>1, <2>1, <2>3 DEF RingInv
<1>6. QED
  BY <1>2, <1>3, <1>4, <1>5 DEF Next

LEMMA AlertStep ==
  ASSUME ResponseInv, [Next]_vars
  PROVE  AlertInv'
<1>1. TypeOK /\ PublicationInv /\ RingInv /\ AlertInv
  BY DEF ResponseInv
<1>2. CASE Evaluate
  BY <1>1, <1>2, EvaluatePendingInv, EvaluateRecoveringInv, EvaluateAttackInv DEF AlertInv
<1>3. CASE ~Evaluate
  <2>1. UNCHANGED <<policy, alert, evaluation, attack>> /\ reloads \subseteq reloads'
    BY <1>3 DEF Next, CountFlow, Reload, RunScript, Publish, PublishSnapshots, PublishStates,
                Scrape, ReadSnapshots, RenderPage, NextSecond, vars, daemonVars, metricsVars
  <2>2. \A u, k : Filling(u, k)' <=> Filling(u, k)
    BY <2>1 DEF Filling
  <2>3. \A u : InWindow(u)' = InWindow(u)
    BY <2>1 DEF InWindow
  <2>4. PendingInv' /\ alert'.at <= evaluation'
    BY <1>1, <2>1, <2>3 DEF AlertInv, PendingInv
  <2>5. RecoveringInv'
    BY <1>1, <2>1, <2>2 DEF AlertInv, RecoveringInv
  <2>6. AttackInv'
    BY <1>1, <2>1, <2>2 DEF AlertInv, AttackInv
  <2>7. QED
    BY <2>4, <2>5, <2>6 DEF AlertInv
<1>4. QED
  BY <1>2, <1>3

LEMMA TasksStep ==
  ASSUME ResponseInv, [Next]_vars
  PROVE  TasksInTime' /\ PayloadsSpaced'
<1>1. TypeOK /\ PublicationInv /\ RingInv /\ TasksInTime /\ PayloadsSpaced
  BY DEF ResponseInv
<1>2. CASE Evaluate
  BY <1>1, <1>2, EvaluateTasks
<1>3. CASE RunScript
  BY <1>1, <1>3, RunScriptTasks
<1>4. CASE NextSecond
  <2>1. PayloadsSpaced'
    BY <1>1, <1>4 DEF NextSecond, PayloadsSpaced, Patient
  <2>2. QED
    BY <1>1, <1>4, <2>1, NextSecondTasks
<1>5. CASE CountFlow \/ Reload \/ Publish \/ Scrape \/ UNCHANGED vars
  <2>1. UNCHANGED <<policy, alert, evaluation, clock, tasks>>
    BY <1>5 DEF CountFlow, Reload, Publish, PublishSnapshots, PublishStates,
                Scrape, ReadSnapshots, RenderPage, vars, daemonVars, metricsVars
  <2>2. QED
    BY <1>1, <2>1 DEF TasksInTime, InTime, PayloadsSpaced, Patient
<1>6. QED
  BY <1>2, <1>3, <1>4, <1>5 DEF Next

LEMMA ResponseInvStep == ResponseInv /\ [Next]_vars => ResponseInv'
BY TypeStep, PublicationStep, RingStep, AlertStep, TasksStep DEF ResponseInv

-----------------------------------------------------------------------------
(***************************************************************************)
(* The inductive invariant holds in every behaviour of ring, alert,        *)
(* scripts and metrics endpoint under attack.                              *)
(***************************************************************************)
THEOREM ResponseInvariance == Spec => []ResponseInv
BY InitResponseInv, ResponseInvStep, PTL DEF Spec

(***************************************************************************)
(* Ring, alert, script tasks and published values keep their types.        *)
(***************************************************************************)
THEOREM TypeCorrect == Spec => []TypeOK
<1>1. ResponseInv => TypeOK
  BY DEF ResponseInv
<1>2. QED
  BY <1>1, ResponseInvariance, PTL

(***************************************************************************)
(* A page never mixes rates with the states of a later evaluation, nor     *)
(* with states more than one evaluation old (run_ticker, spawn).           *)
(***************************************************************************)
THEOREM PagesConsistent == Spec => []PageConsistent
<1>1. ResponseInv => PageConsistent
  <2>1. SUFFICES ASSUME ResponseInv PROVE PageConsistent
    OBVIOUS
  <2>2. clock \in Nat
    BY <2>1, TypedFacts DEF ResponseInv
  <2>3. QED
    BY <2>1, <2>2 DEF ResponseInv, PublicationInv, PageConsistent
<1>2. QED
  BY <1>1, ResponseInvariance, PTL

(***************************************************************************)
(* For every window, policy and attack: one that fills the window but for  *)
(* one second, and lasts as long again as the alert is to hold, has the    *)
(* alert firing (ring_buffer.rs, evaluate, run_ticker).                    *)
(***************************************************************************)
THEOREM Detection == Spec => []DetectsInTime
<1>1. ResponseInv => DetectsInTime
  <2> DEFINE span == Hold + Filled
  <2>1. SUFFICES ASSUME ResponseInv, ticker # "due", policy.trigger <= Filled,
                        policy.recover <= policy.trigger,
                        Sustained(span), ReloadsSince(span) = {}
                 PROVE  alert.tag = "firing"
    BY DEF DetectsInTime
  <2>2. /\ clock \in Nat /\ Filled \in Nat /\ Start \in Nat /\ Start <= clock
        /\ policy.triggerFor \in Nat /\ alert.at \in Nat
        /\ \A r \in reloads : r \in Nat
    BY <2>1, TypedFacts, ConstantFacts DEF ResponseInv
  <2>3. evaluation = clock
    BY <2>1 DEF ResponseInv, PublicationInv
  <2>4. Hold \in Nat /\ Hold >= 1 /\ Hold >= policy.triggerFor
    BY <2>2 DEF Hold
  <2>5. Filling(evaluation, Hold)
    BY <2>1, <2>2, <2>3, <2>4 DEF Sustained, Filling
  <2>6. \A r \in reloads : r < evaluation - Filled - Hold
    BY <2>1, <2>2, <2>3, <2>4 DEF ReloadsSince
  <2>7. alert.tag = "firing" \/ (alert.tag = "pending" /\ alert.at <= evaluation - Hold)
    BY <2>1, <2>2, <2>3, <2>4, <2>5, <2>6 DEF ResponseInv, AlertInv, AttackInv
  <2>8. alert.tag = "pending" =>
          alert.at = evaluation \/ evaluation - alert.at < policy.triggerFor
    BY <2>1 DEF ResponseInv, AlertInv, PendingInv
  <2>9. QED
    BY <2>2, <2>3, <2>4, <2>7, <2>8
<1>2. QED
  BY <1>1, ResponseInvariance, PTL

(***************************************************************************)
(* With durations beyond the script timeout, scripts of one alert run in   *)
(* the order of their payloads, however long each takes, except those no   *)
(* task waits for or that read late (execute_script).                      *)
(***************************************************************************)
THEOREM ScriptOrder == Spec => []ScriptsInTurn
<1>1. ResponseInv => ScriptsInTurn
  <2>1. SUFFICES ASSUME ResponseInv, Patient, NEW earlier \in tasks, NEW later \in tasks,
                        earlier.id < later.id, earlier.script = "running",
                        earlier.stage = "waiting", ~(earlier.since > earlier.id)
                 PROVE  FALSE
    BY DEF ScriptsInTurn, Unsupervised, ReadLate
  <2>2. /\ clock \in Nat /\ Timeout \in Nat /\ earlier.id \in Nat /\ later.id \in Nat
        /\ earlier.since \in Nat /\ later.since \in Nat
    BY <2>1, TypedFacts, ConstantFacts DEF ResponseInv
  <2>3. InTime(earlier) /\ InTime(later)
    BY <2>1 DEF ResponseInv, TasksInTime
  <2>4. clock - earlier.id <= Timeout
    BY <2>1, <2>2, <2>3 DEF InTime
  <2>5. later.id <= clock
    BY <2>2, <2>3 DEF InTime
  <2>6. later.id - earlier.id > Timeout
    BY <2>1 DEF ResponseInv, PayloadsSpaced
  <2>7. QED
    BY <2>2, <2>4, <2>5, <2>6
<1>2. QED
  BY <1>1, ResponseInvariance, PTL

(***************************************************************************)
(* An alert never fires on less than the trigger's worth of attack in the  *)
(* window of every second of its trigger_for, whatever was in the ring     *)
(* before (get_or_reset_bucket, evaluate).                                 *)
(***************************************************************************)
THEOREM FiringOnAttack == Spec => FiresOnAttack
<1>1. ResponseInv /\ [Next]_vars /\ alert.tag = "pending" /\ alert'.tag = "firing" =>
        \A second \in clock - policy.triggerFor .. clock :
           Cardinality({s \in attack : second - Window < s /\ s <= second}) >= policy.trigger
  <2>1. SUFFICES ASSUME ResponseInv, [Next]_vars, alert.tag = "pending", alert'.tag = "firing",
                        NEW second \in clock - policy.triggerFor .. clock
                 PROVE  Cardinality(InWindow(second)) >= policy.trigger
    BY DEF InWindow
  <2>2. Evaluate
    BY <2>1 DEF Next, CountFlow, Reload, RunScript, Publish, Scrape, NextSecond, vars, daemonVars
  <2>3. TypeOK /\ PublicationInv /\ RingInv /\ PendingInv
    BY <2>1 DEF ResponseInv, AlertInv
  <2>4. PICK rate \in Nat : Sample(rate) /\ rate <= Cardinality(InWindow(clock))
    BY <2>2, <2>3, EvaluateIsSample, RateBounds
  <2>5. /\ clock \in Nat /\ alert.at \in Nat /\ evaluation = clock - 1
        /\ policy.trigger \in Nat /\ policy.triggerFor \in Nat
        /\ Cardinality(InWindow(clock)) \in Nat
    BY <2>2, <2>3, TypedFacts, EvaluateFrame, RateBounds
  <2>6. rate >= policy.trigger /\ clock - alert.at >= policy.triggerFor
    BY <2>1, <2>4 DEF Sample, Normal
  <2>7. second \in Nat /\ alert.at <= second /\ second <= clock
    BY <2>1, <2>5, <2>6
  <2>8. CASE second = clock
    BY <2>4, <2>5, <2>6, <2>8
  <2>9. CASE second # clock
    <3>1. second <= evaluation
      BY <2>5, <2>7, <2>9
    <3>2. QED
      BY <2>1, <2>3, <2>7, <3>1 DEF PendingInv
  <2>10. QED
    BY <2>8, <2>9
<1>2. QED
  BY <1>1, ResponseInvariance, PTL DEF Spec, FiresOnAttack

(***************************************************************************)
(* While an attack fills the window, one reload does not make an alert     *)
(* resolve that recovers for at least a window: it takes a second reload   *)
(* (FlowProcessor::reload_config, evaluate).                               *)
(***************************************************************************)
THEOREM RidingOutReload == Spec => RidesOutReload
<1> DEFINE span == policy.recoverFor + Filled
<1>1. ResponseInv /\ [Next]_vars /\ alert.tag = "recovering" /\ alert'.tag = "normal" =>
        \/ policy.recover > Filled \/ policy.recoverFor < Window
        \/ ~Sustained(span)
        \/ Cardinality(ReloadsSince(span)) > 1
  <2>1. SUFFICES ASSUME ResponseInv, [Next]_vars,
                        alert.tag = "recovering", alert'.tag = "normal",
                        ~(policy.recover > Filled), ~(policy.recoverFor < Window),
                        Sustained(span)
                 PROVE  Cardinality(ReloadsSince(span)) > 1
    OBVIOUS
  <2>2. Evaluate
    BY <2>1 DEF Next, CountFlow, Reload, RunScript, Publish, Scrape, NextSecond, vars, daemonVars
  <2>3. TypeOK /\ PublicationInv /\ RingInv /\ RecoveringInv
    BY <2>1 DEF ResponseInv, AlertInv
  <2>4. PICK rate \in Nat :
          /\ Sample(rate)
          /\ Filling(clock, 0) /\ (\A r \in reloads : r < clock - Filled) => rate >= Filled
    BY <2>2, <2>3, EvaluateIsSample, RateBounds
  <2>5. /\ clock \in Nat /\ alert.at \in Nat /\ evaluation = clock - 1
        /\ policy.recover \in Nat /\ policy.recoverFor \in Nat
        /\ Window \in Nat \ {0} /\ Filled \in Nat /\ Filled = Window - 1
        /\ \A r \in reloads : r \in Nat
    BY <2>2, <2>3, TypedFacts, EvaluateFrame, ConstantFacts
  <2>6. rate < policy.recover /\ clock - alert.at >= policy.recoverFor
    BY <2>1, <2>4 DEF Sample, Normal
\* The window was not full when the alert began to recover ...
  <2>7. PICK first \in reloads : clock - span <= first /\ first <= clock - policy.recoverFor
    <3> DEFINE u == clock - policy.recoverFor
    <3>1. u \in Nat /\ alert.at <= u /\ u <= evaluation
      BY <2>1, <2>5, <2>6
    <3>2. Filling(u, 0)
      BY <2>1, <2>5 DEF Sustained, Filling
    <3>3. \E r \in reloads : u - Filled <= r /\ r <= u
      <4> HIDE DEF u
      <4>1. QED
        BY <2>1, <2>3, <2>5, <3>1, <3>2 DEF RecoveringInv
    <3>4. QED
      BY <2>5, <3>3
\* ... nor is it now.
  <2>8. PICK second \in reloads : clock - Filled <= second
    <3>1. Filling(clock, 0)
      BY <2>1, <2>5 DEF Sustained, Filling
    <3>2. ~(rate >= Filled)
      BY <2>1, <2>5, <2>6
    <3>3. QED
      BY <2>4, <2>5, <3>1, <3>2
  <2>9. first # second /\ {first, second} \subseteq ReloadsSince(span)
    BY <2>1, <2>5, <2>7, <2>8 DEF ReloadsSince
  <2>10. IsFiniteSet(ReloadsSince(span))
    <3>1. IsFiniteSet(Start .. clock)
      BY <2>5, ConstantFacts, FS_Interval
    <3>2. ReloadsSince(span) \subseteq Start .. clock
      BY <2>3 DEF ReloadsSince, TypeOK
    <3>3. QED
      BY <3>1, <3>2, FS_Subset
  <2>11. Cardinality({first, second}) = 2
    <3>1. IsFiniteSet({first}) /\ Cardinality({first}) = 1
      BY FS_Singleton
    <3>2. Cardinality({first} \cup {second}) = Cardinality({first}) + 1
      BY <2>9, <3>1, FS_AddElement
    <3>3. {first} \cup {second} = {first, second}
      OBVIOUS
    <3>4. QED
      BY <3>1, <3>2, <3>3
  <2> HIDE DEF span
  <2>12. 2 <= Cardinality(ReloadsSince(span)) /\ Cardinality(ReloadsSince(span)) \in Nat
    BY <2>9, <2>10, <2>11, FS_Subset, FS_CardinalityType
  <2>13. QED
    BY <2>12
<1>2. QED
  BY <1>1, ResponseInvariance, PTL DEF Spec, RidesOutReload
===============================================================================
