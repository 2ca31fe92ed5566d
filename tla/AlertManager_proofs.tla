------------------------ MODULE AlertManager_proofs ------------------------
(***************************************************************************)
(* The safety of AlertManager for all keys, configurations, rates and      *)
(* numbers of ticks.                                                       *)
(*                                                                         *)
(* ActiveHoldsOwn is not inductive: that an identifier drawn in a tick is  *)
(* new, and so has no other owner, rests on every identifier naming its    *)
(* tick (issued), and that it is not already closed on the closed ones     *)
(* being a part of the issued.                                             *)
(* AnalysedOnce rests in the same way on the flows being numbered in the   *)
(* order they are captured.                                                *)
(***************************************************************************)
EXTENDS AlertManager, CodeLemmas, SequenceTheorems

\* Every identifier names a tick that has been and a position.
IssuedInTheirTick == issued \subseteq (1 .. ticks) \X Nat

\* Only incidents that were opened have ended.
EndedWereIssued == closed \cup abandoned \subseteq issued

\* Only flows that were captured are buffered or analysed.
CapturedSoFar == \A s \in Scope : captured[s] \cup analysed[s] \subseteq 1 .. flows

ManagerInv ==
  /\ TypeOK /\ IssuedInTheirTick /\ EndedWereIssued /\ ActiveHoldsOwn
  /\ CapturedSoFar /\ AnalysedOnce

-----------------------------------------------------------------------------
\* A function on the first numbers is a sequence.
LEMMA FunctionIsSeq ==
  ASSUME NEW S, NEW n \in Nat, NEW f \in [1 .. n -> S]
  PROVE  f \in Seq(S) /\ DOMAIN f = 1 .. n
BY SeqDef

\* The positions of a sequence are positive numbers, its elements of its type.
LEMMA SeqPositions ==
  ASSUME NEW S, NEW list \in Seq(S)
  PROVE  /\ \A i \in DOMAIN list : i \in Nat /\ i >= 1 /\ list[i] \in S
         /\ \E n \in Nat : DOMAIN list = 1 .. n
BY LenProperties

\* The alert add_metric_alerts builds is an instance without an incident.
LEMMA NewAlertTyped ==
  ASSUME NEW spot \in Spot
  PROVE  /\ NewAlert(spot) \in Instance /\ NewAlert(spot).key = spot.key
         /\ ~Active(NewAlert(spot)) /\ NewAlert(spot).id = NilId
BY DEF Spot, NewAlert, Instance, Normal, AlertState, Id, NilId, Active

\* What one tick does to the alert at each position.
LEMMA TickCases ==
  ASSUME TypeOK, NEW rates \in [KeysOf(alerts) -> Rate], NEW gap \in Gap, Evaluate(rates, gap)
  PROVE  /\ now + gap \in Nat
         /\ DOMAIN alerts' = DOMAIN alerts
         /\ \A i \in DOMAIN alerts :
              LET action == OutcomeAt(rates, now + gap, i).action
              IN  /\ action \in AlertAction
                  /\ alerts'[i] = Advanced(rates, now + gap, i)
                  /\ alerts'[i] \in Instance /\ alerts'[i].key = alerts[i].key
                  /\ action = "fire" =>
                       ~Active(alerts[i]) /\ Active(alerts'[i])
                       /\ alerts'[i].id = <<ticks + 1, i>>
                  /\ action # "fire" => alerts'[i].id = alerts[i].id
                  /\ action = "update" => Active(alerts[i]) /\ Active(alerts'[i])
                  /\ action = "resolve" => Active(alerts[i]) /\ ~Active(alerts'[i])
                  /\ action = "none" => (Active(alerts[i]) <=> Active(alerts'[i]))
<1> DEFINE t == now + gap
<1>1. t \in Nat /\ ticks \in Nat
  BY SampleAssumption, BoundAssumption DEF TypeOK
<1>2. alerts' = [i \in DOMAIN alerts |-> Advanced(rates, t, i)]
  BY DEF Evaluate
<1>3. ASSUME NEW i \in DOMAIN alerts
      PROVE  LET o == OutcomeAt(rates, t, i)
             IN  /\ i \in Nat /\ alerts[i] \in Instance
                 /\ o.state \in AlertState /\ o.action \in AlertAction
                 /\ o.action = "fire"    => ~Open(alerts[i].state) /\ Open(o.state)
                 /\ o.action = "update"  => Open(alerts[i].state) /\ Open(o.state)
                 /\ o.action = "resolve" => Open(alerts[i].state) /\ ~Open(o.state)
                 /\ o.action = "none"    => (Open(alerts[i].state) <=> Open(o.state))
  <2>1. i \in Nat /\ alerts[i] \in Instance
    BY SeqPositions DEF TypeOK
  <2>2. /\ alerts[i].policy \in Policy /\ alerts[i].state \in AlertState
        /\ rates[alerts[i].key] \in Nat
    <3>1. alerts[i].policy \in Policy /\ alerts[i].state \in AlertState
      BY <2>1 DEF Instance
    <3>2. alerts[i].key \in KeysOf(alerts)
      BY DEF KeysOf
    <3>3. QED
      BY <3>1, <3>2, SampleAssumption
  <2> HIDE DEF t
  <2>3. QED
    BY <1>1, <2>1, <2>2, ActionsFollowStates DEF OutcomeAt
<1> HIDE DEF t
<1>4. ASSUME NEW i \in DOMAIN alerts
      PROVE  LET action == OutcomeAt(rates, t, i).action
             IN  /\ Advanced(rates, t, i) \in Instance
                 /\ Advanced(rates, t, i).key = alerts[i].key
                 /\ Advanced(rates, t, i).state = OutcomeAt(rates, t, i).state
                 /\ action = "fire" => Advanced(rates, t, i).id = <<ticks + 1, i>>
                 /\ action # "fire" => Advanced(rates, t, i).id = alerts[i].id
  <2> DEFINE o == OutcomeAt(rates, t, i)
  <2>1. alerts[i] \in Instance /\ o.state \in AlertState /\ <<ticks + 1, i>> \in Id
    BY <1>1, <1>3 DEF Id
  <2> DEFINE id == IF o.action = "fire" THEN <<ticks + 1, i>> ELSE alerts[i].id
  <2>2. Advanced(rates, t, i) = [alerts[i] EXCEPT !.state = o.state, !.id = id]
    BY DEF Advanced, FreshId
  <2>3. id \in Id
    BY <2>1 DEF Instance
  <2> HIDE DEF o, id
  <2>4. /\ Advanced(rates, t, i) \in Instance
        /\ Advanced(rates, t, i).key = alerts[i].key
        /\ Advanced(rates, t, i).state = o.state
        /\ Advanced(rates, t, i).id = id
    BY <2>1, <2>2, <2>3 DEF Instance
  <2>5. QED
    BY <2>4 DEF o, id
<1>5. QED
  BY <1>1, <1>2, <1>3, <1>4 DEF Active, Open, t

-----------------------------------------------------------------------------
(* The loop of a tick.  It is a recursive function of the position; that    *)
(* there is one is an induction over the positions.                         *)

LEMMA LoopDefined ==
  ASSUME alerts \in Seq(Instance), NEW rates, NEW t
  PROVE  /\ Loop(rates, t)[0] = NothingDrained
         /\ \A n \in 0 .. Len(alerts) : n > 0 =>
              Loop(rates, t)[n] = AfterAlert(Loop(rates, t)[n - 1], rates, t, n)
<1> DEFINE N == Len(alerts)
           Body(g, n) == IF n = 0 THEN NothingDrained ELSE AfterAlert(g[n - 1], rates, t, n)
           Q == {m \in Nat : \E g : g = [n \in 0 .. m |-> Body(g, n)]}
<1>1. N \in Nat
  BY LenProperties
<1>2. \A g, h, n : (n # 0 => g[n - 1] = h[n - 1]) => Body(g, n) = Body(h, n)
  OBVIOUS
<1>3. Loop(rates, t) = CHOOSE g : g = [n \in 0 .. N |-> Body(g, n)]
  BY DEF Loop
<1>4. \A g : Body(g, 0) = NothingDrained
  OBVIOUS
<1>5. \A g, n : n # 0 => Body(g, n) = AfterAlert(g[n - 1], rates, t, n)
  OBVIOUS
<1> HIDE DEF Body, N
<1>6. 0 \in Q
  <2> DEFINE g == [n \in 0 .. 0 |-> NothingDrained]
  <2>1. g = [n \in 0 .. 0 |-> Body(g, n)]
    BY <1>4
  <2>2. QED
    BY <2>1
<1>7. ASSUME NEW m \in Nat, m \in Q PROVE m + 1 \in Q
  <2>1. PICK g : g = [n \in 0 .. m |-> Body(g, n)]
    BY <1>7
  <2> DEFINE h == [n \in 0 .. (m + 1) |-> Body(g, n)]
  <2>2. \A n \in 0 .. m : h[n] = g[n]
    <3>1. TAKE n \in 0 .. m
    <3>2. n \in 0 .. (m + 1)
      OBVIOUS
    <3>3. QED
      BY <2>1, <3>2
  <2>3. \A n \in 0 .. (m + 1) : n # 0 => n - 1 \in 0 .. m
    OBVIOUS
  <2> HIDE DEF h
  <2>4. \A n \in 0 .. (m + 1) : Body(h, n) = Body(g, n)
    BY <1>2, <2>2, <2>3
  <2>5. h = [n \in 0 .. (m + 1) |-> Body(h, n)]
    BY <2>4 DEF h
  <2>6. QED
    BY <2>5
<1>8. N \in Q
  <2> HIDE DEF Q
  <2>1. QED
    BY <1>1, <1>6, <1>7, Induct
<1>9. Loop(rates, t) = [n \in 0 .. N |-> Body(Loop(rates, t), n)]
  BY <1>3, <1>8
<1>10. QED
  BY <1>1, <1>4, <1>5, <1>9 DEF N

\* The scopes asked for by the alerts up to a position.
Asked(rates, t, n) ==
  {ScopeOf[alerts[i].key] : i \in {j \in Answering(rates, t, {"fire", "update"}) : j <= n}}

\* The scopes whose buffers the tick drains.
Drained(rates, t) == Asked(rates, t, Len(alerts))

\* What the loop holds when some scopes were asked for: their flows are in the
\* map, and no longer in the buffers.
Took(loop, asked) ==
  /\ loop.captured = [s \in Scope |-> IF s \in asked THEN {} ELSE captured[s]]
  /\ loop.drained = [s \in asked |-> captured[s]]

\* One more alert, whether it is the first of its scope to ask or not.
LEMMA TakesOne ==
  ASSUME NEW loop, NEW asked \in SUBSET Scope, Took(loop, asked), NEW s \in Scope
  PROVE  Took(DrainOnce(loop, s), asked \cup {s})
<1>1. CASE s \in asked
  <2>1. DrainOnce(loop, s) = loop /\ asked \cup {s} = asked
    BY <1>1 DEF DrainOnce, Took
  <2>2. QED
    BY <2>1
<1>2. CASE s \notin asked
  <2> DEFINE after == DrainOnce(loop, s)
  <2>1. /\ after.captured = [loop.captured EXCEPT ![s] = {}]
        /\ after.drained = With(loop.drained, s, loop.captured[s])
    BY <1>2 DEF DrainOnce, Took, DrainCapturedFlows
  <2>2. loop.captured[s] = captured[s] /\ DOMAIN loop.drained = asked
    BY <1>2 DEF Took
  <2> HIDE DEF after
  <2>3. after.captured = [x \in Scope |-> IF x \in asked \cup {s} THEN {} ELSE captured[x]]
    BY <2>1 DEF Took
  <2>4. after.drained = [x \in asked \cup {s} |-> captured[x]]
    BY <1>2, <2>1, <2>2 DEF Took, With
  <2>5. QED
    BY <2>3, <2>4 DEF Took, after
<1>3. QED
  BY <1>1, <1>2

(***************************************************************************)
(* After any number of alerts the map holds, for every scope one of them   *)
(* asked for, the flows that were captured for it before the tick.         *)
(***************************************************************************)
LEMMA LoopTakes ==
  ASSUME TypeOK, NEW rates, NEW t, NEW n \in 0 .. Len(alerts)
  PROVE  Took(Loop(rates, t)[n], Asked(rates, t, n))
<1> DEFINE loop(m) == Loop(rates, t)[m]
           asked(m) == Asked(rates, t, m)
           Q == {m \in Nat : m <= Len(alerts) => Took(loop(m), asked(m))}
<1>1. /\ alerts \in Seq(Instance) /\ Len(alerts) \in Nat
      /\ DOMAIN alerts = 1 .. Len(alerts)
      /\ \A i \in DOMAIN alerts : ScopeOf[alerts[i].key] \in Scope
  <2>1. alerts \in Seq(Instance) /\ \A i \in DOMAIN alerts : alerts[i] \in Instance
    BY SeqPositions DEF TypeOK
  <2>2. QED
    BY <2>1, LenProperties, ScopeAssumption DEF Instance
<1>2. /\ loop(0) = NothingDrained
      /\ \A m \in 0 .. Len(alerts) : m > 0 => loop(m) = AfterAlert(loop(m - 1), rates, t, m)
  BY <1>1, LoopDefined
<1>3. Answering(rates, t, {"fire", "update"}) \subseteq 1 .. Len(alerts)
  BY <1>1 DEF Answering
<1>4. asked(0) = {}
  BY <1>1, <1>3 DEF Asked
<1>5. \A m : asked(m) \subseteq Scope
  BY <1>1, <1>3 DEF Asked
<1>6. ASSUME NEW m \in Nat, m + 1 <= Len(alerts)
      PROVE  asked(m + 1) = asked(m) \cup
               (IF m + 1 \in Answering(rates, t, {"fire", "update"})
                THEN {ScopeOf[alerts[m + 1].key]} ELSE {})
  <2>1. \A j \in 1 .. Len(alerts) : j <= m + 1 <=> j <= m \/ j = m + 1
    BY <1>1
  <2>2. QED
    BY <1>3, <2>1 DEF Asked
<1> HIDE DEF loop, asked
<1>7. 0 \in Q
  <2>1. captured = [s \in Scope |-> captured[s]]
    BY DEF TypeOK
  <2>2. captured = [s \in Scope |-> IF s \in {} THEN {} ELSE captured[s]]
    BY <2>1
  <2>3. [s \in {} |-> {}] = [s \in {} |-> captured[s]]
    OBVIOUS
  <2>4. Took(NothingDrained, {})
    BY <2>2, <2>3 DEF Took, NothingDrained
  <2>5. QED
    BY <1>2, <1>4, <2>4
<1>8. ASSUME NEW m \in Nat, m \in Q PROVE m + 1 \in Q
  <2> SUFFICES ASSUME m + 1 <= Len(alerts) PROVE Took(loop(m + 1), asked(m + 1))
    OBVIOUS
  <2>1. m + 1 \in 0 .. Len(alerts) /\ m + 1 > 0 /\ (m + 1) - 1 = m /\ m <= Len(alerts)
        /\ m + 1 \in DOMAIN alerts
    BY <1>1
  <2>2. Took(loop(m), asked(m))
    BY <1>8, <2>1
  <2>3. loop(m + 1) = AfterAlert(loop(m), rates, t, m + 1)
    BY <1>2, <2>1
  <2>4. CASE m + 1 \in Answering(rates, t, {"fire", "update"})
    <3>1. loop(m + 1) = DrainOnce(loop(m), ScopeOf[alerts[m + 1].key])
      BY <2>3, <2>4 DEF AfterAlert
    <3>2. asked(m + 1) = asked(m) \cup {ScopeOf[alerts[m + 1].key]}
      BY <1>6, <2>4
    <3>3. ScopeOf[alerts[m + 1].key] \in Scope /\ asked(m) \in SUBSET Scope
      BY <1>1, <1>5, <2>1
    <3>4. QED
      BY <2>2, <3>1, <3>2, <3>3, TakesOne
  <2>5. CASE m + 1 \notin Answering(rates, t, {"fire", "update"})
    <3>1. loop(m + 1) = loop(m)
      BY <2>3, <2>5 DEF AfterAlert
    <3>2. asked(m + 1) = asked(m)
      BY <1>6, <2>5
    <3>3. QED
      BY <2>2, <3>1, <3>2
  <2>6. QED
    BY <2>4, <2>5
<1>9. n \in Q
  <2> HIDE DEF Q
  <2>1. n \in Nat
    BY <1>1
  <2>2. QED
    BY <1>7, <1>8, <2>1, Induct
<1>10. QED
  BY <1>1, <1>9 DEF loop, asked

(***************************************************************************)
(* What the loop leaves behind: each alert that asks gets the flows that   *)
(* were captured for its scope, the others none, and exactly the buffers   *)
(* that were asked for are empty.                                          *)
(***************************************************************************)
LEMMA LoopResult ==
  ASSUME TypeOK, NEW rates, NEW t
  PROVE  /\ \A i \in DOMAIN alerts : FlowsFor(Loop(rates, t), rates, t, i) =
              IF i \in Answering(rates, t, {"fire", "update"})
              THEN captured[ScopeOf[alerts[i].key]] ELSE {}
         /\ Loop(rates, t)[Len(alerts)].captured =
              [s \in Scope |-> IF s \in Drained(rates, t) THEN {} ELSE captured[s]]
<1>1. Len(alerts) \in Nat /\ DOMAIN alerts = 1 .. Len(alerts)
  BY LenProperties DEF TypeOK
<1>2. ASSUME NEW i \in DOMAIN alerts, i \in Answering(rates, t, {"fire", "update"})
      PROVE  Loop(rates, t)[i].drained[ScopeOf[alerts[i].key]] = captured[ScopeOf[alerts[i].key]]
  <2>1. i \in 0 .. Len(alerts) /\ i <= i
    BY <1>1
  <2>2. ScopeOf[alerts[i].key] \in Asked(rates, t, i)
    BY <1>2, <2>1 DEF Asked
  <2>3. Took(Loop(rates, t)[i], Asked(rates, t, i))
    BY <2>1, LoopTakes
  <2>4. Loop(rates, t)[i].drained = [s \in Asked(rates, t, i) |-> captured[s]]
    BY <2>3 DEF Took
  <2>5. QED
    BY <2>2, <2>4
<1>3. Len(alerts) \in 0 .. Len(alerts)
  BY <1>1
<1>4. Took(Loop(rates, t)[Len(alerts)], Drained(rates, t))
  BY <1>3, LoopTakes DEF Drained
<1>5. QED
  BY <1>2, <1>4 DEF FlowsFor, Took

LEMMA InitManagerInv == Init => ManagerInv
<1> SUFFICES ASSUME Init PROVE ManagerInv
  OBVIOUS
<1>1. PICK config \in Configs :
        /\ alerts = [i \in DOMAIN config.alerts |-> NewAlert(config.alerts[i])]
        /\ script = config.script
  BY DEF Init
<1>2. config.alerts \in Seq(Spot) /\ config.script \in Script \cup {NoScript}
  BY ConfigsAssumption
<1>3. \A i \in DOMAIN alerts : alerts[i] \in Instance /\ ~Active(alerts[i])
  BY <1>1, <1>2, SeqPositions, NewAlertTyped
<1>4. alerts \in Seq(Instance)
  <2>1. PICK n \in Nat : DOMAIN config.alerts = 1 .. n
    BY <1>2, SeqPositions
  <2>2. alerts \in [1 .. n -> Instance]
    BY <1>1, <1>3, <2>1
  <2>3. QED
    BY <2>2, FunctionIsSeq
<1>5. TypeOK
  BY <1>1, <1>2, <1>4, BoundAssumption DEF Init, TypeOK
<1>6. ActiveHoldsOwn
  BY <1>3 DEF ActiveHoldsOwn
<1>7. IssuedInTheirTick /\ EndedWereIssued /\ CapturedSoFar /\ AnalysedOnce
  BY DEF Init, issued, IssuedInTheirTick, EndedWereIssued, CapturedSoFar, AnalysedOnce
<1>8. QED
  BY <1>5, <1>6, <1>7 DEF ManagerInv

-----------------------------------------------------------------------------
\* The histories after a tick: fires open incidents, resolves close them.
LEMMA TickHistory ==
  ASSUME TypeOK, NEW rates \in [KeysOf(alerts) -> Rate], NEW gap \in Gap, Evaluate(rates, gap)
  PROVE  LET action(i) == OutcomeAt(rates, now + gap, i).action
         IN  /\ ticks' = ticks + 1 /\ ticks \in Nat /\ ticks' \in 0 .. MaxTicks
             /\ abandoned' = abandoned
             /\ opened' = opened \cup
                  {[id |-> <<ticks + 1, i>>, key |-> alerts[i].key] :
                     i \in {j \in DOMAIN alerts : action(j) = "fire"}}
             /\ issued' = issued \cup
                  {<<ticks + 1, i>> : i \in {j \in DOMAIN alerts : action(j) = "fire"}}
             /\ closed' = closed \cup
                  {alerts[i].id : i \in {j \in DOMAIN alerts : action(j) = "resolve"}}
<1> DEFINE t == now + gap
           action(i) == OutcomeAt(rates, t, i).action
<1>1. ticks' = ticks + 1 /\ ticks \in Nat /\ ticks' \in 0 .. MaxTicks /\ abandoned' = abandoned
  BY BoundAssumption DEF TypeOK, Evaluate
<1>2. Answering(rates, t, {"fire"}) = {j \in DOMAIN alerts : action(j) = "fire"}
  BY DEF Answering
<1>3. Answering(rates, t, {"resolve"}) = {j \in DOMAIN alerts : action(j) = "resolve"}
  BY DEF Answering
<1>4. \A i \in DOMAIN alerts : action(i) = "fire" =>
          Advanced(rates, t, i).id = <<ticks + 1, i>>
  BY TickCases
<1>5. /\ opened' = opened \cup
           {[id |-> Advanced(rates, t, i).id, key |-> alerts[i].key] :
              i \in Answering(rates, t, {"fire"})}
      /\ closed' = closed \cup {alerts[i].id : i \in Answering(rates, t, {"resolve"})}
  BY DEF Evaluate
<1> HIDE DEF t, action
<1>6. opened' = opened \cup
        {[id |-> <<ticks + 1, i>>, key |-> alerts[i].key] :
           i \in {j \in DOMAIN alerts : action(j) = "fire"}}
  BY <1>2, <1>4, <1>5
<1>7. issued' = issued \cup
        {<<ticks + 1, i>> : i \in {j \in DOMAIN alerts : action(j) = "fire"}}
  <2> DEFINE new == {[id |-> <<ticks + 1, i>>, key |-> alerts[i].key] :
                       i \in {j \in DOMAIN alerts : action(j) = "fire"}}
  <2>1. {incident.id : incident \in new}
          = {<<ticks + 1, i>> : i \in {j \in DOMAIN alerts : action(j) = "fire"}}
    <3> DEFINE F == {j \in DOMAIN alerts : action(j) = "fire"}
               Opening(i) == [id |-> <<ticks + 1, i>>, key |-> alerts[i].key]
    <3>1. \A i : Opening(i).id = <<ticks + 1, i>>
      OBVIOUS
    <3>2. new = {Opening(i) : i \in F}
      OBVIOUS
    <3> HIDE DEF F, Opening, new
    <3>3. {incident.id : incident \in new} = {<<ticks + 1, i>> : i \in F}
      BY <3>1, <3>2
    <3>4. QED
      BY <3>3 DEF F
  <2>2. opened' = opened \cup new
    BY <1>6
  <2> HIDE DEF new
  <2>3. {incident.id : incident \in opened \cup new}
          = {incident.id : incident \in opened} \cup {incident.id : incident \in new}
    OBVIOUS
  <2>4. QED
    BY <2>1, <2>2, <2>3 DEF issued
<1>8. QED
  BY <1>1, <1>3, <1>5, <1>6, <1>7 DEF t, action

LEMMA EvaluateTypeOK ==
  ASSUME TypeOK, NEW rates \in [KeysOf(alerts) -> Rate], NEW gap \in Gap, Evaluate(rates, gap)
  PROVE  TypeOK'
<1> DEFINE t == now + gap
<1>1. /\ t \in Nat /\ DOMAIN alerts' = DOMAIN alerts
      /\ \A i \in DOMAIN alerts :
           /\ alerts'[i] \in Instance /\ alerts'[i] = Advanced(rates, t, i)
           /\ OutcomeAt(rates, t, i).action \in AlertAction
  BY TickCases
<1>2. alerts' = [i \in DOMAIN alerts |-> Advanced(rates, t, i)]
  BY DEF Evaluate
<1>3. \A i \in DOMAIN alerts : i \in Nat /\ alerts[i] \in Instance
  BY SeqPositions DEF TypeOK
<1>4. alerts' \in Seq(Instance)
  <2>1. PICK n \in Nat : DOMAIN alerts = 1 .. n
    BY SeqPositions DEF TypeOK
  <2>2. alerts' \in [1 .. n -> Instance]
    BY <1>1, <1>2, <2>1
  <2>3. QED
    BY <2>2, FunctionIsSeq
<1>5. \A s \in Scope : captured[s] \subseteq Flow /\ analysed[s] \subseteq Flow
  BY DEF TypeOK
<1>6. sent' \subseteq Payload
  <2>1. sent' = {PayloadFor(Loop(rates, t), rates, t, i) :
                    i \in Answering(rates, t, {"fire", "update", "resolve"})}
    BY DEF Evaluate
  <2> HIDE DEF t
  <2>2. ASSUME NEW i \in DOMAIN alerts
        PROVE  FlowsFor(Loop(rates, t), rates, t, i) \in SUBSET Flow
    <3>1. ScopeOf[alerts[i].key] \in Scope
      BY <1>3, ScopeAssumption DEF Instance
    <3>2. FlowsFor(Loop(rates, t), rates, t, i) \in {captured[ScopeOf[alerts[i].key]], {}}
      BY LoopResult
    <3>3. QED
      BY <1>5, <3>1, <3>2
  <2>3. ASSUME NEW i \in DOMAIN alerts PROVE PayloadFor(Loop(rates, t), rates, t, i) \in Payload
    BY <1>1, <1>3, <2>2 DEF PayloadFor, Payload, Instance
  <2>4. QED
    BY <2>1, <2>3 DEF Answering
<1>7. captured' \in [Scope -> SUBSET Flow] /\ analysed' \in [Scope -> SUBSET Flow]
  <2>1. captured' = [s \in Scope |-> IF s \in Drained(rates, t) THEN {} ELSE captured[s]]
    BY LoopResult DEF Evaluate
  <2>2. analysed' = [s \in Scope |->
          analysed[s] \cup UNION {p.flows : p \in {q \in sent' : ScopeOf[q.key] = s}}]
    BY DEF Evaluate
  <2>3. \A p \in sent' : p.flows \subseteq Flow
    BY <1>6 DEF Payload
  <2> HIDE DEF t
  <2>4. QED
    BY <1>5, <2>1, <2>2, <2>3
<1>8. opened' \subseteq Incident /\ closed' \subseteq Id
  <2>1. \A i \in DOMAIN alerts :
          Advanced(rates, t, i).id \in Id /\ alerts[i].id \in Id /\ alerts[i].key \in Key
    BY <1>1, <1>3 DEF Instance
  <2>2. /\ opened' = opened \cup
             {[id |-> Advanced(rates, t, i).id, key |-> alerts[i].key] :
                i \in Answering(rates, t, {"fire"})}
        /\ closed' = closed \cup {alerts[i].id : i \in Answering(rates, t, {"resolve"})}
    BY DEF Evaluate
  <2>3. \A actions : Answering(rates, t, actions) \subseteq DOMAIN alerts
    BY DEF Answering
  <2> HIDE DEF t
  <2>4. QED
    BY <2>1, <2>2, <2>3 DEF TypeOK, Incident
<1>9. QED
  BY <1>1, <1>4, <1>6, <1>7, <1>8, TickHistory DEF TypeOK, Evaluate

\* The incidents opened under an identifier.
OpenedAs(incidents, id) == {incident \in incidents : incident.id = id}

LEMMA ActiveWasIssued ==
  ASSUME ActiveHoldsOwn, NEW i \in DOMAIN alerts, Active(alerts[i])
  PROVE  alerts[i].id \in issued
<1>1. [id |-> alerts[i].id, key |-> alerts[i].key] \in opened
  BY DEF ActiveHoldsOwn
<1>2. QED
  BY <1>1 DEF issued

LEMMA EvaluateActiveHoldsOwn ==
  ASSUME ManagerInv, NEW rates \in [KeysOf(alerts) -> Rate], NEW gap \in Gap, Evaluate(rates, gap)
  PROVE  IssuedInTheirTick' /\ EndedWereIssued' /\ ActiveHoldsOwn'
<1> DEFINE action(i) == OutcomeAt(rates, now + gap, i).action
           fresh(i)  == <<ticks + 1, i>>
<1>1. TypeOK /\ IssuedInTheirTick /\ EndedWereIssued /\ ActiveHoldsOwn
  BY DEF ManagerInv
<1>2. /\ DOMAIN alerts' = DOMAIN alerts
      /\ \A i \in DOMAIN alerts :
           /\ action(i) \in AlertAction /\ i \in Nat
           /\ action(i) = "fire" =>
                Active(alerts'[i]) /\ alerts'[i].id = fresh(i)
           /\ action(i) \in {"update", "none"} =>
                alerts'[i].id = alerts[i].id /\ (Active(alerts'[i]) => Active(alerts[i]))
           /\ action(i) = "resolve" => Active(alerts[i]) /\ ~Active(alerts'[i])
  BY <1>1, TickCases, SeqPositions DEF TypeOK
<1>3. /\ ticks' = ticks + 1 /\ ticks \in Nat /\ abandoned' = abandoned
      /\ opened' = opened \cup {[id |-> fresh(i), key |-> alerts[i].key] :
                                  i \in {j \in DOMAIN alerts : action(j) = "fire"}}
      /\ issued' = issued \cup {fresh(i) : i \in {j \in DOMAIN alerts : action(j) = "fire"}}
      /\ closed' = closed \cup
           {alerts[i].id : i \in {j \in DOMAIN alerts : action(j) = "resolve"}}
  BY <1>1, TickHistory
<1>4. \A i, j : fresh(i) = fresh(j) => i = j
  OBVIOUS
<1>5. \A i : fresh(i) \notin issued
  BY <1>1, <1>3 DEF IssuedInTheirTick
<1>6. \A i \in Nat : fresh(i) \in (1 .. ticks') \X Nat
  BY <1>3
<1>7. (1 .. ticks) \X Nat \subseteq (1 .. ticks') \X Nat
  BY <1>3
<1> HIDE DEF action, fresh
<1>8. IssuedInTheirTick'
  BY <1>1, <1>2, <1>3, <1>6, <1>7 DEF IssuedInTheirTick
<1>9. EndedWereIssued'
  BY <1>1, <1>2, <1>3, ActiveWasIssued DEF EndedWereIssued
<1>10. ASSUME NEW i \in DOMAIN alerts, Active(alerts'[i])
       PROVE  \/ action(i) = "fire" /\ alerts'[i].id = fresh(i)
              \/ /\ action(i) \in {"update", "none"} /\ Active(alerts[i])
                 /\ alerts'[i].id = alerts[i].id
  BY <1>2, <1>10 DEF AlertAction
<1>11. ASSUME NEW i \in DOMAIN alerts, Active(alerts'[i])
       PROVE  alerts'[i].id \notin closed' \cup abandoned'
  <2>1. CASE action(i) = "fire"
    BY <1>1, <1>2, <1>3, <1>5, <2>1, ActiveWasIssued DEF EndedWereIssued
  <2>2. CASE action(i) # "fire"
    BY <1>1, <1>2, <1>3, <1>10, <1>11, <2>2 DEF ActiveHoldsOwn
  <2>3. QED
    BY <2>1, <2>2
<1>12. ASSUME NEW i \in DOMAIN alerts, NEW j \in DOMAIN alerts,
              Active(alerts'[i]), Active(alerts'[j]), alerts'[j].id = alerts'[i].id
       PROVE  j = i
  BY <1>1, <1>4, <1>5, <1>10, <1>12, ActiveWasIssued DEF ActiveHoldsOwn
<1>13. ASSUME NEW i \in DOMAIN alerts, Active(alerts'[i])
       PROVE  OpenedAs(opened', alerts'[i].id) = {[id |-> alerts'[i].id, key |-> alerts'[i].key]}
  <2> DEFINE new(j) == [id |-> fresh(j), key |-> alerts[j].key]
             news   == {new(j) : j \in {k \in DOMAIN alerts : action(k) = "fire"}}
  <2>1. OpenedAs(opened', alerts'[i].id)
          = OpenedAs(opened, alerts'[i].id) \cup OpenedAs(news, alerts'[i].id)
    BY <1>3 DEF OpenedAs
  <2>2. alerts'[i].key = alerts[i].key
    BY <1>1, TickCases
  <2>3. CASE action(i) = "fire"
    <3>1. alerts'[i].id = fresh(i)
      BY <1>2, <2>3
    <3>2. OpenedAs(opened, fresh(i)) = {}
      BY <1>5 DEF OpenedAs, issued
    <3>3. OpenedAs(news, fresh(i)) = {new(i)}
      BY <1>4, <2>3 DEF OpenedAs
    <3>4. QED
      BY <2>1, <2>2, <3>1, <3>2, <3>3
  <2>4. CASE action(i) # "fire"
    <3>1. Active(alerts[i]) /\ alerts'[i].id = alerts[i].id
      BY <1>10, <1>13, <2>4
    <3>2. alerts[i].id \in issued
      BY <1>1, <3>1, ActiveWasIssued
    <3>3. OpenedAs(news, alerts[i].id) = {}
      BY <1>5, <3>2 DEF OpenedAs
    <3>4. OpenedAs(opened, alerts[i].id) = {[id |-> alerts[i].id, key |-> alerts[i].key]}
      BY <1>1, <3>1 DEF ActiveHoldsOwn, OpenedAs
    <3>5. QED
      BY <2>1, <2>2, <3>1, <3>3, <3>4
  <2>5. QED
    BY <2>3, <2>4
<1>14. ActiveHoldsOwn'
  BY <1>2, <1>11, <1>12, <1>13 DEF ActiveHoldsOwn, OpenedAs
<1>15. QED
  BY <1>8, <1>9, <1>14

\* The payloads of a tick carry, scope by scope, what the tick drained.
LEMMA TickAnalyses ==
  ASSUME TypeOK, NEW rates \in [KeysOf(alerts) -> Rate], NEW gap \in Gap,
         Evaluate(rates, gap), NEW s \in Scope
  PROVE  /\ UNION {p.flows : p \in {q \in sent' : ScopeOf[q.key] = s}}
              = IF s \in Drained(rates, now + gap) THEN captured[s] ELSE {}
         /\ captured'[s] = IF s \in Drained(rates, now + gap) THEN {} ELSE captured[s]
         /\ \A p \in sent' : p.action \in {"fire", "update"} =>
              p.flows = captured[ScopeOf[p.key]]
<1> DEFINE t == now + gap
           payload(i) == PayloadFor(Loop(rates, t), rates, t, i)
           asking == Answering(rates, t, {"fire", "update"})
           told == Answering(rates, t, {"fire", "update", "resolve"})
<1>1. /\ \A i \in DOMAIN alerts : FlowsFor(Loop(rates, t), rates, t, i) =
              IF i \in asking THEN captured[ScopeOf[alerts[i].key]] ELSE {}
      /\ Loop(rates, t)[Len(alerts)].captured =
              [x \in Scope |-> IF x \in Drained(rates, t) THEN {} ELSE captured[x]]
  BY LoopResult
<1>2. sent' = {payload(i) : i \in told} /\ captured' = Loop(rates, t)[Len(alerts)].captured
  BY DEF Evaluate
<1>3. /\ asking \subseteq told /\ told \subseteq DOMAIN alerts
      /\ \A i \in DOMAIN alerts :
           i \in asking <=> OutcomeAt(rates, t, i).action \in {"fire", "update"}
  BY DEF Answering
<1>4. \A i \in DOMAIN alerts :
        /\ payload(i).key = alerts[i].key
        /\ payload(i).action = OutcomeAt(rates, t, i).action
        /\ payload(i).flows = IF i \in asking THEN captured[ScopeOf[alerts[i].key]] ELSE {}
  BY <1>1 DEF PayloadFor
<1>5. Drained(rates, t) = {ScopeOf[alerts[i].key] : i \in asking}
  <2>1. Len(alerts) \in Nat /\ DOMAIN alerts = 1 .. Len(alerts)
    BY LenProperties DEF TypeOK
  <2>2. \A i \in asking : i <= Len(alerts)
    BY <1>3, <2>1
  <2>3. QED
    BY <2>2 DEF Drained, Asked
<1> HIDE DEF t, payload, asking, told
<1>6. CASE s \in Drained(rates, t)
  <2>1. PICK i \in asking : ScopeOf[alerts[i].key] = s
    BY <1>5, <1>6
  <2>2. payload(i) \in sent' /\ ScopeOf[payload(i).key] = s /\ payload(i).flows = captured[s]
    BY <1>2, <1>3, <1>4, <2>1
  <2>3. \A p \in sent' : ScopeOf[p.key] = s => p.flows \subseteq captured[s]
    BY <1>2, <1>3, <1>4
  <2>4. UNION {p.flows : p \in {q \in sent' : ScopeOf[q.key] = s}} = captured[s]
    BY <2>2, <2>3
  <2>5. QED
    BY <1>1, <1>2, <1>3, <1>4, <1>6, <2>4 DEF t
<1>7. CASE s \notin Drained(rates, t)
  <2>1. \A p \in sent' : ScopeOf[p.key] = s => p.flows = {}
    BY <1>2, <1>3, <1>4, <1>5, <1>7
  <2>2. UNION {p.flows : p \in {q \in sent' : ScopeOf[q.key] = s}} = {}
    BY <2>1
  <2>3. QED
    BY <1>1, <1>2, <1>3, <1>4, <1>7, <2>2 DEF t
<1>8. QED
  BY <1>6, <1>7

\* A tick moves the flows it drains from the captured to the analysed.
LEMMA EvaluateAnalysedOnce ==
  ASSUME ManagerInv, NEW rates \in [KeysOf(alerts) -> Rate], NEW gap \in Gap, Evaluate(rates, gap)
  PROVE  CapturedSoFar' /\ AnalysedOnce'
<1> DEFINE drained == Drained(rates, now + gap)
<1>1. \A s \in Scope :
        /\ captured'[s] = IF s \in drained THEN {} ELSE captured[s]
        /\ analysed'[s] = analysed[s] \cup (IF s \in drained THEN captured[s] ELSE {})
  <2>1. TAKE s \in Scope
  <2>2. analysed'[s] = analysed[s] \cup
          UNION {p.flows : p \in {q \in sent' : ScopeOf[q.key] = s}}
    BY DEF Evaluate
  <2>3. QED
    BY <2>2, TickAnalyses DEF ManagerInv
<1>2. flows' = flows
  BY DEF Evaluate
<1> HIDE DEF drained
<1>3. QED
  BY <1>1, <1>2 DEF ManagerInv, CapturedSoFar, AnalysedOnce

-----------------------------------------------------------------------------
\* A set of numbers with an upper bound has a greatest element.
LEMMA GreatestOf ==
  ASSUME NEW n \in Nat, NEW S \in SUBSET (1 .. n), S # {}
  PROVE  \E i \in S : \A j \in S : j <= i
<1> DEFINE T == {n - i : i \in S}
<1>1. T \subseteq Nat /\ T # {}
  <2>1. \A i \in 1 .. n : n - i \in Nat
    OBVIOUS
  <2>2. QED
    BY <2>1
<1> HIDE DEF T
<1>2. PICK m \in T : \A d \in T : ~(<<d, m>> \in OpToRel(<, Nat))
  BY <1>1, NatLessThanWellFounded, WFMin
<1>3. \A d \in T : m <= d
  <2>1. \A d, e \in Nat : d < e => <<d, e>> \in OpToRel(<, Nat)
    BY DEF OpToRel
  <2>2. \A d \in T : d \in Nat /\ m \in Nat /\ ~(d < m)
    BY <1>1, <1>2, <2>1
  <2>3. QED
    BY <2>2
<1>4. PICK i \in S : m = n - i
  BY DEF T
<1>5. \A j \in S : n - i <= n - j
  BY <1>3, <1>4 DEF T
<1>6. \A j \in S : j <= i
  BY <1>5
<1>7. QED
  BY <1>6

\* The map `previous` has, for a key of some alert, one of its alerts.
LEMMA PreviousHasKey ==
  ASSUME alerts \in Seq(Instance), NEW k \in KeysOf(alerts)
  PROVE  PreviousFor(k) \in DOMAIN alerts /\ alerts[PreviousFor(k)].key = k
<1> DEFINE S == {i \in DOMAIN alerts : alerts[i].key = k}
<1>1. PICK n \in Nat : DOMAIN alerts = 1 .. n
  BY SeqPositions
<1>2. S \in SUBSET (1 .. n) /\ S # {}
  BY <1>1 DEF KeysOf
<1> HIDE DEF S
<1>3. PICK i \in S : \A j \in S : j <= i
  BY <1>1, <1>2, GreatestOf
<1>4. QED
  BY <1>3 DEF S, PreviousFor

\* What a reload does to the alert at each new position.
LEMMA ReloadCases ==
  ASSUME TypeOK, NEW config \in Configs, ReloadConfig(config)
  PROVE  /\ config.alerts \in Seq(Spot)
         /\ DOMAIN alerts' = DOMAIN config.alerts
         /\ \A i \in DOMAIN config.alerts :
              LET k == config.alerts[i].key
              IN  /\ alerts'[i] \in Instance /\ alerts'[i].key = k /\ k \in Key
                  /\ TakesOver(config.alerts, i) =>
                       /\ PreviousFor(k) \in DOMAIN alerts
                       /\ alerts[PreviousFor(k)].key = k
                       /\ alerts'[i].state = alerts[PreviousFor(k)].state
                       /\ alerts'[i].id = alerts[PreviousFor(k)].id
                  /\ ~TakesOver(config.alerts, i) =>
                       ~Active(alerts'[i]) /\ alerts'[i].id = NilId
<1> DEFINE spots == config.alerts
<1>1. spots \in Seq(Spot)
  BY ConfigsAssumption
<1>2. alerts' = [i \in DOMAIN spots |-> CarriedOver(spots, i)]
  BY DEF ReloadConfig
<1> HIDE DEF spots
<1>3. ASSUME NEW i \in DOMAIN spots
      PROVE  LET k == spots[i].key
             IN  /\ alerts'[i] \in Instance /\ alerts'[i].key = k /\ k \in Key
                 /\ TakesOver(spots, i) =>
                      /\ PreviousFor(k) \in DOMAIN alerts
                      /\ alerts[PreviousFor(k)].key = k
                      /\ alerts'[i].state = alerts[PreviousFor(k)].state
                      /\ alerts'[i].id = alerts[PreviousFor(k)].id
                 /\ ~TakesOver(spots, i) =>
                      ~Active(alerts'[i]) /\ alerts'[i].id = NilId
  <2> DEFINE k == spots[i].key
             new == NewAlert(spots[i])
             old == alerts[PreviousFor(k)]
  <2>1. spots[i] \in Spot /\ k \in Key
    <3>1. spots[i] \in Spot
      BY <1>1, SeqPositions
    <3>2. QED
      BY <3>1 DEF Spot
  <2>2. /\ new \in Instance /\ new.key = k
        /\ ~Active(new) /\ new.id = NilId
    BY <2>1, NewAlertTyped
  <2>3. CASE TakesOver(spots, i)
    <3>1. PreviousFor(k) \in DOMAIN alerts /\ old.key = k
      BY <2>3, PreviousHasKey DEF TakesOver, TypeOK
    <3>2. old \in Instance
      BY <3>1, SeqPositions DEF TypeOK
    <3>3. alerts'[i] = [new EXCEPT !.state = old.state, !.id = old.id]
      BY <1>2, <2>3 DEF CarriedOver
    <3> HIDE DEF new, old, k
    <3>4. /\ alerts'[i] \in Instance /\ alerts'[i].key = k
          /\ alerts'[i].state = old.state /\ alerts'[i].id = old.id
      BY <2>2, <3>2, <3>3 DEF Instance
    <3>5. QED
      BY <2>1, <2>3, <3>1, <3>4 DEF k, old
  <2>4. CASE ~TakesOver(spots, i)
    BY <1>2, <2>1, <2>2, <2>4 DEF CarriedOver
  <2>5. QED
    BY <2>3, <2>4
<1>4. QED
  BY <1>1, <1>2, <1>3 DEF spots

LEMMA ReloadTypeOK ==
  ASSUME TypeOK, NEW config \in Configs, ReloadConfig(config)
  PROVE  TypeOK'
<1>1. PICK n \in Nat : DOMAIN config.alerts = 1 .. n
  BY ReloadCases, SeqPositions
<1>2. alerts' = [i \in DOMAIN config.alerts |-> CarriedOver(config.alerts, i)]
  BY DEF ReloadConfig
<1>3. alerts' \in [1 .. n -> Instance]
  BY <1>1, <1>2, ReloadCases
<1>4. alerts' \in Seq(Instance)
  BY <1>3, FunctionIsSeq
<1>5. script' \in Script \cup {NoScript}
  BY ConfigsAssumption DEF ReloadConfig, TypeOK
<1>6. \A i \in DOMAIN alerts : alerts[i].id \in Id
  <2>1. \A i \in DOMAIN alerts : alerts[i] \in Instance
    BY SeqPositions DEF TypeOK
  <2>2. QED
    BY <2>1 DEF Instance
<1>7. abandoned' \subseteq Id
  BY <1>6 DEF ReloadConfig, TypeOK
<1>8. QED
  BY <1>4, <1>5, <1>7 DEF ReloadConfig, TypeOK

LEMMA ReloadActiveHoldsOwn ==
  ASSUME ManagerInv, NEW config \in Configs, ReloadConfig(config)
  PROVE  EndedWereIssued' /\ ActiveHoldsOwn'
<1> DEFINE spots == config.alerts
           dropped == {j \in DOMAIN alerts :
                         Active(alerts[j]) /\ alerts[j].key \notin KeysOf(spots)}
           old(i) == PreviousFor(spots[i].key)
<1>1. TypeOK /\ EndedWereIssued /\ ActiveHoldsOwn
  BY DEF ManagerInv
<1>2. /\ abandoned' = abandoned \cup {alerts[i].id : i \in dropped}
      /\ opened' = opened /\ issued' = issued /\ closed' = closed
  BY DEF ReloadConfig, issued
<1>3. EndedWereIssued'
  BY <1>1, <1>2, ActiveWasIssued DEF EndedWereIssued
<1>4. DOMAIN alerts' = DOMAIN spots
  BY <1>1, ReloadCases
<1>5. ASSUME NEW i \in DOMAIN spots, Active(alerts'[i])
      PROVE  /\ TakesOver(spots, i) /\ old(i) \in DOMAIN alerts
             /\ alerts[old(i)].key = spots[i].key
             /\ Active(alerts[old(i)]) /\ alerts'[i].id = alerts[old(i)].id
  BY <1>1, <1>5, ReloadCases DEF Active
<1>6. ASSUME NEW i \in DOMAIN spots, Active(alerts'[i])
      PROVE  alerts'[i].id \notin closed' \cup abandoned'
  <2>1. spots[i].key \in KeysOf(spots)
    BY DEF KeysOf
  <2>2. old(i) \notin dropped
    BY <1>5, <1>6, <2>1
  <2>3. \A j \in dropped : alerts[j].id # alerts[old(i)].id
    BY <1>1, <1>5, <1>6, <2>2 DEF ActiveHoldsOwn
  <2>4. QED
    BY <1>1, <1>2, <1>5, <1>6, <2>3 DEF ActiveHoldsOwn
<1>7. ASSUME NEW i \in DOMAIN spots, NEW j \in DOMAIN spots,
             Active(alerts'[i]), Active(alerts'[j]), alerts'[j].id = alerts'[i].id
      PROVE  j = i
  <2>1. old(i) = old(j)
    BY <1>1, <1>5, <1>7 DEF ActiveHoldsOwn
  <2>2. spots[i].key = spots[j].key
    BY <1>5, <1>7, <2>1
  <2>3. i <= j /\ j <= i
    BY <1>5, <1>7, <2>2 DEF TakesOver
  <2>4. i \in Nat /\ j \in Nat
    BY <1>1, ReloadCases, SeqPositions
  <2>5. QED
    BY <2>3, <2>4
<1>8. ASSUME NEW i \in DOMAIN spots, Active(alerts'[i])
      PROVE  OpenedAs(opened', alerts'[i].id) = {[id |-> alerts'[i].id, key |-> alerts'[i].key]}
  <2>1. alerts'[i].key = alerts[old(i)].key
    BY <1>1, <1>5, <1>8, ReloadCases
  <2>2. OpenedAs(opened, alerts[old(i)].id)
          = {[id |-> alerts[old(i)].id, key |-> alerts[old(i)].key]}
    BY <1>1, <1>5, <1>8 DEF ActiveHoldsOwn, OpenedAs
  <2>3. QED
    BY <1>2, <1>5, <1>8, <2>1, <2>2
<1>9. ActiveHoldsOwn'
  BY <1>4, <1>6, <1>7, <1>8 DEF ActiveHoldsOwn, OpenedAs
<1>10. QED
  BY <1>3, <1>9

-----------------------------------------------------------------------------
\* A captured flow has a new number; forgetting flows leaves fewer.
LEMMA CaptureManagerInv ==
  ASSUME ManagerInv, NEW scopes \in SUBSET Scope, Capture(scopes)
  PROVE  ManagerInv'
<1>1. flows \in Nat /\ flows' = flows + 1 /\ flows' \in 0 .. MaxFlows /\ flows' \in Flow
  BY BoundAssumption DEF ManagerInv, TypeOK, Capture, Flow
<1>2. \A s \in Scope :
        /\ captured'[s] = IF s \in scopes THEN captured[s] \cup {flows'} ELSE captured[s]
        /\ captured[s] \subseteq Flow /\ analysed'[s] = analysed[s]
  BY <1>1 DEF ManagerInv, TypeOK, Capture
<1>3. TypeOK'
  <2>1. captured' \in [Scope -> SUBSET Flow]
    BY <1>1, <1>2 DEF Capture
  <2>2. QED
    BY <1>1, <2>1 DEF ManagerInv, TypeOK, Capture
<1>4. CapturedSoFar' /\ AnalysedOnce'
  <2>1. \A s \in Scope : captured[s] \cup analysed[s] \subseteq 1 .. flows
    BY DEF ManagerInv, CapturedSoFar
  <2>2. flows' \notin 1 .. flows /\ flows' \in 1 .. flows' /\ 1 .. flows \subseteq 1 .. flows'
    BY <1>1
  <2>3. CapturedSoFar'
    BY <1>2, <2>1, <2>2 DEF CapturedSoFar
  <2>4. AnalysedOnce'
    BY <1>2, <2>1, <2>2 DEF ManagerInv, AnalysedOnce
  <2>5. QED
    BY <2>3, <2>4
<1>5. IssuedInTheirTick' /\ EndedWereIssued' /\ ActiveHoldsOwn'
  BY DEF ManagerInv, Capture, issued, IssuedInTheirTick, EndedWereIssued, ActiveHoldsOwn
<1>6. QED
  BY <1>3, <1>4, <1>5 DEF ManagerInv

LEMMA ForgetManagerInv ==
  ASSUME ManagerInv, ForgetCaptured
  PROVE  ManagerInv'
<1>1. TypeOK'
  BY DEF ManagerInv, TypeOK, ForgetCaptured
<1>2. CapturedSoFar' /\ AnalysedOnce'
  BY DEF ManagerInv, CapturedSoFar, AnalysedOnce, ForgetCaptured
<1>3. IssuedInTheirTick' /\ EndedWereIssued' /\ ActiveHoldsOwn'
  BY DEF ManagerInv, ForgetCaptured, issued, IssuedInTheirTick, EndedWereIssued, ActiveHoldsOwn
<1>4. QED
  BY <1>1, <1>2, <1>3 DEF ManagerInv

LEMMA ManagerInvStep == ManagerInv /\ [Next]_vars => ManagerInv'
<1> SUFFICES ASSUME ManagerInv, [Next]_vars PROVE ManagerInv'
  OBVIOUS
<1>1. ASSUME NEW rates \in [KeysOf(alerts) -> Rate], NEW gap \in Gap, Evaluate(rates, gap)
      PROVE  ManagerInv'
  BY <1>1, EvaluateTypeOK, EvaluateActiveHoldsOwn, EvaluateAnalysedOnce DEF ManagerInv
<1>2. ASSUME NEW config \in Configs, ReloadConfig(config) PROVE ManagerInv'
  <2>1. TypeOK' /\ EndedWereIssued' /\ ActiveHoldsOwn'
    BY <1>2, ReloadTypeOK, ReloadActiveHoldsOwn DEF ManagerInv
  <2>2. IssuedInTheirTick' /\ CapturedSoFar' /\ AnalysedOnce'
    BY <1>2 DEF ManagerInv, ReloadConfig, issued, IssuedInTheirTick, CapturedSoFar, AnalysedOnce
  <2>3. QED
    BY <2>1, <2>2 DEF ManagerInv
<1>3. ASSUME NEW scopes \in SUBSET Scope, Capture(scopes) PROVE ManagerInv'
  BY <1>3, CaptureManagerInv
<1>4. CASE ForgetCaptured
  BY <1>4, ForgetManagerInv
<1>5. CASE UNCHANGED vars
  BY <1>5 DEF vars, ManagerInv, TypeOK, issued, IssuedInTheirTick, EndedWereIssued,
              ActiveHoldsOwn, CapturedSoFar, AnalysedOnce
<1>6. QED
  BY <1>1, <1>2, <1>3, <1>4, <1>5 DEF Next, Tick, Reload

-----------------------------------------------------------------------------
(***************************************************************************)
(* The inductive invariant holds of every behaviour of AlertManager, with  *)
(* repeated keys in its configurations or without: an active alert holds   *)
(* the identifier of one open incident of its own key, identifiers name    *)
(* past ticks, and flows that were analysed are captured no more.          *)
(***************************************************************************)
THEOREM ManagerInvariance == Spec => []ManagerInv
BY InitManagerInv, ManagerInvStep, PTL DEF Spec

(***************************************************************************)
(* The alerts are always instances of AlertInstance, the payloads carry    *)
(* actions and captured flows, the histories identifiers.                  *)
(***************************************************************************)
THEOREM TypeCorrect == Spec => []TypeOK
<1>1. ManagerInv => TypeOK
  BY DEF ManagerInv
<1>2. QED
  BY <1>1, ManagerInvariance, PTL

(***************************************************************************)
(* For every configuration, also one that repeats a key, every sequence of *)
(* rates and every reload: an active alert, and no other, holds the        *)
(* identifier of one open incident, and that incident was opened for the   *)
(* alert's own key (AlertManager::evaluate and reload_config).             *)
(***************************************************************************)
THEOREM OwnIncident == Spec => []ActiveHoldsOwn
<1>1. ManagerInv => ActiveHoldsOwn
  BY DEF ManagerInv
<1>2. QED
  BY <1>1, ManagerInvariance, PTL

(***************************************************************************)
(* However many alerts share a scope and however reloads empty the         *)
(* buffers, no captured flow is analysed for a scope in two ticks          *)
(* (AlertManager::evaluate, FlowProcessor::drain_captured_flows).          *)
(***************************************************************************)
THEOREM FlowsAnalysedOnce == Spec => []AnalysedOnce
<1>1. ManagerInv => AnalysedOnce
  BY DEF ManagerInv
<1>2. QED
  BY <1>1, ManagerInvariance, PTL

(***************************************************************************)
(* For every order of the alerts and any number of them in a scope: those  *)
(* that fire or update in a tick analyse all flows captured for the scope, *)
(* although the first of them empties the buffer (LoopTakes), and what     *)
(* left a buffer was analysed.                                             *)
(***************************************************************************)
THEOREM ScopeAnalysedTogether == Spec => AnalysedTogether
<1> DEFINE Together ==
             /\ \A p \in sent' : p.action \in {"fire", "update"} =>
                  p.flows = captured[ScopeOf[p.key]]
             /\ \A s \in Scope :
                  captured[s] \ captured'[s] \subseteq UNION {p.flows : p \in
                    {q \in sent' : ScopeOf[q.key] = s}}
<1>1. TypeOK /\ Tick => Together
  <2>1. SUFFICES ASSUME TypeOK, NEW rates \in [KeysOf(alerts) -> Rate], NEW gap \in Gap,
                        Evaluate(rates, gap)
                 PROVE  Together
    BY DEF Tick
  <2>2. ASSUME NEW p \in sent', p.action \in {"fire", "update"}
        PROVE  p.flows = captured[ScopeOf[p.key]]
    <3>1. PICK i \in DOMAIN alerts : p.key = alerts[i].key
      BY <2>1, <2>2 DEF Evaluate, Answering, PayloadFor
    <3>2. alerts[i] \in Instance
      BY <2>1, SeqPositions DEF TypeOK
    <3>3. ScopeOf[alerts[i].key] \in Scope
      BY <3>2, ScopeAssumption DEF Instance
    <3>4. QED
      BY <2>1, <2>2, <3>3, TickAnalyses
  <2>3. ASSUME NEW s \in Scope
        PROVE  captured[s] \ captured'[s] \subseteq
                 UNION {p.flows : p \in {q \in sent' : ScopeOf[q.key] = s}}
    BY <2>1, TickAnalyses
  <2>4. QED
    BY <2>2, <2>3
<1>2. QED
  BY <1>1, TypeCorrect, PTL DEF AnalysedTogether

-----------------------------------------------------------------------------
(***************************************************************************)
(* NoOrphan and the contract of AlertIncidents do not hold for every       *)
(* configuration: reload_config keeps one of two alerts with the same key, *)
(* and nothing in the code rejects a configuration that has two.  The      *)
(* theorems below say what is true when none has.                          *)
(***************************************************************************)
DistinctConfigs == \A config \in Configs : DistinctKeys(config.alerts)

ContractInv == ManagerInv /\ DistinctKeys(alerts) /\ NoOrphan

LEMMA InitContractInv ==
  ASSUME DistinctConfigs, Init
  PROVE  ContractInv
<1>1. PICK config \in Configs :
        alerts = [i \in DOMAIN config.alerts |-> NewAlert(config.alerts[i])]
  BY DEF Init
<1>2. config.alerts \in Seq(Spot)
  BY ConfigsAssumption
<1>3. \A i \in DOMAIN alerts : alerts[i].key = config.alerts[i].key
  BY <1>1, <1>2, SeqPositions, NewAlertTyped
<1>4. DOMAIN alerts = DOMAIN config.alerts
  BY <1>1
<1>5. DistinctKeys(alerts)
  BY <1>3, <1>4 DEF DistinctConfigs, DistinctKeys
<1>6. NoOrphan
  BY DEF Init, NoOrphan, issued
<1>7. QED
  BY <1>5, <1>6, InitManagerInv DEF ContractInv

LEMMA EvaluateContractInv ==
  ASSUME ContractInv, NEW rates \in [KeysOf(alerts) -> Rate], NEW gap \in Gap, Evaluate(rates, gap)
  PROVE  DistinctKeys(alerts') /\ NoOrphan'
<1> DEFINE action(i) == OutcomeAt(rates, now + gap, i).action
<1>1. TypeOK /\ DistinctKeys(alerts) /\ NoOrphan
  BY DEF ContractInv, ManagerInv
<1>2. /\ DOMAIN alerts' = DOMAIN alerts
      /\ \A i \in DOMAIN alerts :
           /\ action(i) \in AlertAction
           /\ alerts'[i].key = alerts[i].key
           /\ action(i) = "fire" =>
                ~Active(alerts[i]) /\ Active(alerts'[i])
                /\ alerts'[i].id = <<ticks + 1, i>>
           /\ action(i) # "fire" => alerts'[i].id = alerts[i].id
           /\ action(i) \in {"update", "none"} /\ Active(alerts[i]) => Active(alerts'[i])
  BY <1>1, TickCases
<1>3. /\ abandoned' = abandoned
      /\ issued' = issued \cup
           {<<ticks + 1, i>> : i \in {j \in DOMAIN alerts : action(j) = "fire"}}
      /\ closed' = closed \cup
           {alerts[i].id : i \in {j \in DOMAIN alerts : action(j) = "resolve"}}
  BY <1>1, TickHistory
<1> HIDE DEF action
<1>4. DistinctKeys(alerts')
  BY <1>1, <1>2 DEF DistinctKeys
<1>5. ASSUME NEW id \in issued' \ (closed' \cup abandoned')
      PROVE  \E i \in DOMAIN alerts' : Active(alerts'[i]) /\ alerts'[i].id = id
  <2>1. CASE id \in issued
    <3>1. PICK i \in DOMAIN alerts : Active(alerts[i]) /\ alerts[i].id = id
      BY <1>1, <1>3, <1>5, <2>1 DEF NoOrphan
    <3>2. action(i) \in {"update", "none"}
      BY <1>2, <1>3, <1>5, <3>1 DEF AlertAction
    <3>3. QED
      BY <1>2, <3>1, <3>2
  <2>2. CASE id \notin issued
    BY <1>2, <1>3, <1>5, <2>2
  <2>3. QED
    BY <2>1, <2>2
<1>6. NoOrphan'
  BY <1>5 DEF NoOrphan
<1>7. QED
  BY <1>4, <1>6

\* In a reload to distinct keys each new alert takes over the one old alert of
\* its key, if there is one.
LEMMA ReloadTakesOver ==
  ASSUME TypeOK, DistinctKeys(alerts), DistinctConfigs,
         NEW config \in Configs, ReloadConfig(config)
  PROVE  /\ DistinctKeys(alerts') /\ KeysOf(alerts') = KeysOf(config.alerts)
         /\ \A j \in DOMAIN alerts' :
              /\ \A i \in DOMAIN alerts : alerts[i].key = alerts'[j].key =>
                   alerts'[j].state = alerts[i].state /\ alerts'[j].id = alerts[i].id
              /\ alerts'[j].key \notin KeysOf(alerts) => ~Active(alerts'[j])
<1> DEFINE spots == config.alerts
<1>1. DistinctKeys(spots)
  BY DEF DistinctConfigs
<1>2. /\ DOMAIN alerts' = DOMAIN spots /\ spots \in Seq(Spot)
      /\ \A i \in DOMAIN spots : alerts'[i].key = spots[i].key
  BY ReloadCases
<1>3. \A i, j \in DOMAIN spots : spots[j].key = spots[i].key => i <= j
  BY <1>1, <1>2, SeqPositions DEF DistinctKeys
<1>4. \A j \in DOMAIN spots : TakesOver(spots, j) <=> spots[j].key \in KeysOf(alerts)
  BY <1>3 DEF TakesOver
<1>5. DistinctKeys(alerts') /\ KeysOf(alerts') = KeysOf(spots)
  BY <1>1, <1>2 DEF DistinctKeys, KeysOf
<1>6. ASSUME NEW j \in DOMAIN alerts', NEW i \in DOMAIN alerts,
             alerts[i].key = alerts'[j].key
      PROVE  alerts'[j].state = alerts[i].state /\ alerts'[j].id = alerts[i].id
  <2>1. TakesOver(spots, j)
    BY <1>2, <1>4, <1>6 DEF KeysOf
  <2>2. PreviousFor(spots[j].key) = i
    BY <1>2, <1>6, <2>1, ReloadCases DEF DistinctKeys
  <2>3. QED
    BY <1>2, <1>6, <2>1, <2>2, ReloadCases
<1>7. ASSUME NEW j \in DOMAIN alerts', alerts'[j].key \notin KeysOf(alerts)
      PROVE  ~Active(alerts'[j])
  BY <1>2, <1>4, <1>7, ReloadCases
<1>8. QED
  BY <1>5, <1>6, <1>7

LEMMA ReloadNoOrphan ==
  ASSUME ContractInv, DistinctConfigs, NEW config \in Configs, ReloadConfig(config)
  PROVE  NoOrphan'
<1>1. TypeOK /\ DistinctKeys(alerts) /\ NoOrphan
  BY DEF ContractInv, ManagerInv
<1>2. /\ issued' = issued /\ closed' = closed
      /\ abandoned' = abandoned \cup
           {alerts[i].id : i \in {j \in DOMAIN alerts :
              Active(alerts[j]) /\ alerts[j].key \notin KeysOf(config.alerts)}}
  BY DEF ReloadConfig, issued
<1>3. ASSUME NEW id \in issued' \ (closed' \cup abandoned')
      PROVE  \E j \in DOMAIN alerts' : Active(alerts'[j]) /\ alerts'[j].id = id
  <2>1. PICK i \in DOMAIN alerts : Active(alerts[i]) /\ alerts[i].id = id
    BY <1>1, <1>2, <1>3 DEF NoOrphan
  <2>2. alerts[i].key \in KeysOf(alerts')
    BY <1>1, <1>2, <1>3, <2>1, ReloadTakesOver
  <2>3. PICK j \in DOMAIN alerts' : alerts'[j].key = alerts[i].key
    BY <2>2 DEF KeysOf
  <2>4. alerts'[j].state = alerts[i].state /\ alerts'[j].id = alerts[i].id
    BY <1>1, <2>3, ReloadTakesOver
  <2>5. QED
    BY <2>1, <2>4 DEF Active
<1>4. QED
  BY <1>3 DEF NoOrphan

LEMMA ContractInvStep ==
  ASSUME DistinctConfigs
  PROVE  ContractInv /\ [Next]_vars => ContractInv'
<1> SUFFICES ASSUME ContractInv, [Next]_vars PROVE ContractInv'
  OBVIOUS
<1>1. ManagerInv'
  BY ManagerInvStep DEF ContractInv
<1>2. ASSUME NEW rates \in [KeysOf(alerts) -> Rate], NEW gap \in Gap, Evaluate(rates, gap)
      PROVE  DistinctKeys(alerts') /\ NoOrphan'
  BY <1>2, EvaluateContractInv
<1>3. ASSUME NEW config \in Configs, ReloadConfig(config)
      PROVE  DistinctKeys(alerts') /\ NoOrphan'
  BY <1>3, ReloadTakesOver, ReloadNoOrphan DEF ContractInv, ManagerInv
<1>4. ASSUME NEW scopes \in SUBSET Scope, Capture(scopes)
      PROVE  DistinctKeys(alerts') /\ NoOrphan'
  BY <1>4 DEF Capture, ContractInv, NoOrphan, issued
<1>5. ASSUME ForgetCaptured PROVE DistinctKeys(alerts') /\ NoOrphan'
  BY <1>5 DEF ForgetCaptured, ContractInv, NoOrphan, issued
<1>6. ASSUME UNCHANGED vars PROVE DistinctKeys(alerts') /\ NoOrphan'
  BY <1>6 DEF vars, ContractInv, NoOrphan, issued
<1>7. DistinctKeys(alerts') /\ NoOrphan'
  BY <1>2, <1>3, <1>4, <1>5, <1>6 DEF Next, Tick, Reload, ContractInv
<1>8. QED
  BY <1>1, <1>7 DEF ContractInv

(***************************************************************************)
(* Without repeated keys every incident that was opened and neither        *)
(* resolved nor dropped with its key is held by an active alert, across    *)
(* any ticks and reloads: none is orphaned (AlertManager::reload_config).  *)
(***************************************************************************)
THEOREM NoneOrphaned ==
  ASSUME DistinctConfigs
  PROVE  Spec => []NoOrphan
<1>1. Init => ContractInv
  BY InitContractInv
<1>2. ContractInv /\ [Next]_vars => ContractInv'
  BY ContractInvStep
<1>3. ContractInv => NoOrphan
  BY DEF ContractInv
<1>4. QED
  BY <1>1, <1>2, <1>3, PTL DEF Spec

-----------------------------------------------------------------------------
\* IncidentOf for any list of alerts, to speak of it before and after a step.
IncidentIn(list, k) ==
  IF \E i \in DOMAIN list : Active(list[i]) /\ list[i].key = k
  THEN list[CHOOSE i \in DOMAIN list : Active(list[i]) /\ list[i].key = k].id
  ELSE NilId

LEMMA IncidentIs ==
  ASSUME NEW list, DistinctKeys(list), NEW k
  PROVE  /\ \A i \in DOMAIN list :
              Active(list[i]) /\ list[i].key = k => IncidentIn(list, k) = list[i].id
         /\ (\A i \in DOMAIN list : list[i].key = k => ~Active(list[i])) =>
              IncidentIn(list, k) = NilId
<1>1. ASSUME NEW i \in DOMAIN list, Active(list[i]), list[i].key = k
      PROVE  IncidentIn(list, k) = list[i].id
  <2> DEFINE c == CHOOSE j \in DOMAIN list : Active(list[j]) /\ list[j].key = k
  <2>1. c \in DOMAIN list /\ list[c].key = k
    BY <1>1
  <2>2. c = i
    BY <1>1, <2>1 DEF DistinctKeys
  <2>3. QED
    BY <1>1, <2>2 DEF IncidentIn
<1>2. QED
  BY <1>1 DEF IncidentIn

\* An active alert names a real incident.
LEMMA ActiveIsOpen ==
  ASSUME ManagerInv, NEW i \in DOMAIN alerts, Active(alerts[i])
  PROVE  alerts[i].id \in Id \ {NilId} /\ alerts[i].id \in issued
<1>1. alerts[i].id \in issued
  BY ActiveWasIssued DEF ManagerInv
<1>2. alerts[i].id \in (1 .. ticks) \X Nat /\ ticks \in Nat
  BY <1>1, BoundAssumption DEF ManagerInv, TypeOK, IssuedInTheirTick
<1>3. QED
  BY <1>1, <1>2 DEF Id, NilId

\* The three kinds of keys of AlertIncidents!Tick are those of the alerts that
\* answer fire, those that stay active, and those that answer resolve.
LEMMA TickIncidents ==
  ASSUME ContractInv, NEW rates \in [KeysOf(alerts) -> Rate], NEW gap \in Gap, Evaluate(rates, gap)
  PROVE  LET action(i) == OutcomeAt(rates, now + gap, i).action
             before(k) == IncidentIn(alerts, k)
             after(k)  == IncidentIn(alerts', k)
         IN  /\ \A i \in DOMAIN alerts :
                  LET k == alerts[i].key
                  IN  /\ k \in Key
                      /\ action(i) \in AlertAction
                      /\ before(k) \in Id /\ after(k) \in Id
                      /\ action(i) = "fire" => before(k) = NilId /\ after(k) # NilId
                                             /\ after(k) = <<ticks + 1, i>>
                      /\ action(i) = "update" => before(k) # NilId /\ after(k) = before(k)
                      /\ action(i) = "resolve" => before(k) # NilId /\ after(k) = NilId
                      /\ action(i) = "none" => after(k) = before(k)
                      /\ action(i) \in {"update", "resolve"} => before(k) = alerts[i].id
             /\ \A k : k \notin KeysOf(alerts) => before(k) = NilId /\ after(k) = NilId
<1> DEFINE action(i) == OutcomeAt(rates, now + gap, i).action
           before(k) == IncidentIn(alerts, k)
           after(k)  == IncidentIn(alerts', k)
<1>1. ManagerInv /\ TypeOK /\ DistinctKeys(alerts)
  BY DEF ContractInv, ManagerInv
<1>2. DistinctKeys(alerts')
  BY EvaluateContractInv
<1>3. /\ DOMAIN alerts' = DOMAIN alerts
      /\ \A i \in DOMAIN alerts :
           /\ action(i) \in AlertAction
           /\ alerts'[i].key = alerts[i].key
           /\ action(i) = "fire" =>
                ~Active(alerts[i]) /\ Active(alerts'[i])
                /\ alerts'[i].id = <<ticks + 1, i>>
           /\ action(i) # "fire" => alerts'[i].id = alerts[i].id
           /\ action(i) = "update" => Active(alerts[i]) /\ Active(alerts'[i])
           /\ action(i) = "resolve" => Active(alerts[i]) /\ ~Active(alerts'[i])
           /\ action(i) = "none" => (Active(alerts[i]) <=> Active(alerts'[i]))
  BY <1>1, TickCases
<1>4. \A i \in DOMAIN alerts : alerts[i].key \in Key /\ i \in Nat
  <2>1. \A i \in DOMAIN alerts : alerts[i] \in Instance /\ i \in Nat
    BY <1>1, SeqPositions DEF TypeOK
  <2>2. QED
    BY <2>1 DEF Instance
<1>5. \A i \in DOMAIN alerts :
        /\ Active(alerts[i]) => before(alerts[i].key) = alerts[i].id
        /\ ~Active(alerts[i]) => before(alerts[i].key) = NilId
  BY <1>1, IncidentIs DEF DistinctKeys
<1>6. \A i \in DOMAIN alerts :
        /\ Active(alerts'[i]) => after(alerts[i].key) = alerts'[i].id
        /\ ~Active(alerts'[i]) => after(alerts[i].key) = NilId
  BY <1>2, <1>3, IncidentIs DEF DistinctKeys
<1>7. \A k : k \notin KeysOf(alerts) => before(k) = NilId /\ after(k) = NilId
  BY <1>1, <1>2, <1>3, IncidentIs DEF KeysOf
<1>8. \A i \in DOMAIN alerts : Active(alerts[i]) => alerts[i].id \in Id \ {NilId}
  BY <1>1, ActiveIsOpen
<1>9. NilId \in Id /\ \A i \in Nat : <<ticks + 1, i>> \in Id \ {NilId}
  <2>1. ticks \in Nat
    BY <1>1, BoundAssumption DEF TypeOK
  <2>2. QED
    BY <2>1 DEF NilId, Id
<1> HIDE DEF action, before, after
<1>10. ASSUME NEW i \in DOMAIN alerts
       PROVE  LET k == alerts[i].key
              IN  /\ k \in Key
                  /\ action(i) \in AlertAction
                  /\ before(k) \in Id /\ after(k) \in Id
                  /\ action(i) = "fire" => before(k) = NilId /\ after(k) # NilId
                                         /\ after(k) = <<ticks + 1, i>>
                  /\ action(i) = "update" => before(k) # NilId /\ after(k) = before(k)
                  /\ action(i) = "resolve" => before(k) # NilId /\ after(k) = NilId
                  /\ action(i) = "none" => after(k) = before(k)
                  /\ action(i) \in {"update", "resolve"} => before(k) = alerts[i].id
  BY <1>3, <1>4, <1>5, <1>6, <1>8, <1>9 DEF AlertAction
<1>11. QED
  BY <1>7, <1>10 DEF action, before, after

LEMMA EvaluateRefines ==
  ASSUME ContractInv, NEW rates \in [KeysOf(alerts) -> Rate], NEW gap \in Gap, Evaluate(rates, gap)
  PROVE  Incidents!Tick
<1> DEFINE t == now + gap
           action(i) == OutcomeAt(rates, t, i).action
           before(k) == IncidentIn(alerts, k)
           after(k)  == IncidentIn(alerts', k)
           opens     == {k \in Key : before(k) = NilId /\ after(k) # NilId}
           closes    == {k \in Key : before(k) # NilId /\ after(k) = NilId}
           continued == {k \in Key : before(k) # NilId /\ after(k) # NilId}
           updated   == {alerts[i].key : i \in Answering(rates, t, {"update"})}
           notice(k, a, id) == [key |-> k, action |-> a, id |-> id]
<1>1. /\ \A i \in DOMAIN alerts :
           LET k == alerts[i].key
           IN  /\ k \in Key
               /\ action(i) \in AlertAction
               /\ before(k) \in Id /\ after(k) \in Id
               /\ action(i) = "fire" => before(k) = NilId /\ after(k) # NilId
                                      /\ after(k) = <<ticks + 1, i>>
               /\ action(i) = "update" => before(k) # NilId /\ after(k) = before(k)
               /\ action(i) = "resolve" => before(k) # NilId /\ after(k) = NilId
               /\ action(i) = "none" => after(k) = before(k)
               /\ action(i) \in {"update", "resolve"} => before(k) = alerts[i].id
      /\ \A k : k \notin KeysOf(alerts) => before(k) = NilId /\ after(k) = NilId
  BY TickIncidents
<1>2. /\ ticks \in Nat
      /\ \A i \in DOMAIN alerts :
           /\ alerts'[i] = Advanced(rates, t, i)
           /\ action(i) = "fire" => alerts'[i].id = <<ticks + 1, i>>
           /\ action(i) # "fire" => alerts'[i].id = alerts[i].id
           /\ alerts'[i].key = alerts[i].key
      /\ DOMAIN alerts' = DOMAIN alerts
  BY TickCases, TickHistory DEF ContractInv, ManagerInv
<1>3. ManagerInv /\ IssuedInTheirTick
  BY DEF ContractInv, ManagerInv
<1>4. /\ sent' = {PayloadFor(Loop(rates, t), rates, t, i) :
                     i \in Answering(rates, t, {"fire", "update", "resolve"})}
      /\ issued' = issued \cup
           {<<ticks + 1, i>> : i \in {j \in DOMAIN alerts : action(j) = "fire"}}
  BY <1>3, TickHistory DEF Evaluate, ManagerInv
<1>5. \A a : Answering(rates, t, a) = {i \in DOMAIN alerts : action(i) \in a}
  BY DEF Answering
<1>6. \A i \in DOMAIN alerts :
        /\ PayloadFor(Loop(rates, t), rates, t, i).key = alerts[i].key
        /\ PayloadFor(Loop(rates, t), rates, t, i).action = action(i)
        /\ PayloadFor(Loop(rates, t), rates, t, i).id = Advanced(rates, t, i).id
  BY DEF PayloadFor
<1>7. /\ \A k : IncidentOf(k) = before(k)
      /\ [k \in Key |-> IncidentOf(k)] = [k \in Key |-> before(k)]
      /\ [k \in Key |-> IncidentOf(k)]' = [k \in Key |-> after(k)]
  BY DEF IncidentOf, IncidentIn
<1>8. \A k, a, id : Incidents!Notice(k, a, id) = notice(k, a, id)
  BY DEF Incidents!Notice
<1>9. KeysOf(alerts') = KeysOf(alerts)
  BY <1>2 DEF KeysOf
<1> HIDE DEF t, action, before, after
<1>10. /\ Incidents!Opened = opens /\ Incidents!Closed = closes
       /\ Incidents!Continued = continued
  BY <1>7 DEF Incidents!Opened, Incidents!Closed, Incidents!Continued
<1>11. \A k \in Key : k \in opens <=>
          \E i \in DOMAIN alerts : alerts[i].key = k /\ action(i) = "fire"
  BY <1>1 DEF KeysOf, AlertAction
<1>12. \A k \in Key : k \in closes <=>
          \E i \in DOMAIN alerts : alerts[i].key = k /\ action(i) = "resolve"
  BY <1>1 DEF KeysOf, AlertAction
<1>13. updated \in SUBSET continued
  BY <1>1, <1>5
<1>14. [k \in Key |-> after(k)] \in [Key -> (Id \ {NilId}) \cup {NilId}]
  <2>1. NilId \in Id
    BY DEF Id, NilId
  <2>2. QED
    BY <1>1, <2>1 DEF KeysOf
<1>15. opens \subseteq KeysOf(alerts)
  BY <1>1
<1>16. \A k \in opens : after(k) \notin issued
  BY <1>1, <1>2, <1>3, <1>11 DEF IssuedInTheirTick
<1>17. \A j, k \in opens : after(j) = after(k) => j = k
  BY <1>1, <1>11
<1>18. \A k \in continued : after(k) = before(k)
  BY <1>1 DEF KeysOf, AlertAction
<1>19. issued' = issued \cup {after(k) : k \in opens}
  BY <1>1, <1>2, <1>4, <1>5, <1>11
<1>20. {[key |-> p.key, action |-> p.action, id |-> p.id] : p \in sent}' =
              {notice(k, "fire", after(k)) : k \in opens}
         \cup {notice(k, "update", before(k)) : k \in updated}
         \cup {notice(k, "resolve", before(k)) : k \in closes}
  <2> DEFINE told == {notice(alerts[i].key, action(i), alerts'[i].id) :
                        i \in {j \in DOMAIN alerts :
                                 action(j) \in {"fire", "update", "resolve"}}}
             tells == {notice(k, "fire", after(k)) : k \in opens}
                 \cup {notice(k, "update", before(k)) : k \in updated}
                 \cup {notice(k, "resolve", before(k)) : k \in closes}
  <2>1. {[key |-> p.key, action |-> p.action, id |-> p.id] : p \in sent}' = told
    BY <1>2, <1>4, <1>5, <1>6
  <2>2. told \subseteq tells
    BY <1>1, <1>2, <1>5, <1>11, <1>12
  <2>3. tells \subseteq told
    BY <1>1, <1>2, <1>5, <1>11, <1>12
  <2>4. QED
    BY <2>1, <2>2, <2>3
<1>21. \A k \in Key : /\ [l \in Key |-> IncidentOf(l)][k] = before(k)
                    /\ ([l \in Key |-> IncidentOf(l)]')[k] = after(k)
  BY <1>7
<1>22. opens \subseteq Key /\ closes \subseteq Key /\ continued \subseteq Key
  OBVIOUS
<1> DEFINE incident == [k \in Key |-> IncidentOf(k)]
<1> HIDE DEF incident, opens, closes, continued, updated
<1>23. /\ \A k \in opens : incident'[k] \notin issued
       /\ \A j, k \in opens : incident'[j] = incident'[k] => j = k
       /\ \A k \in continued : incident'[k] = incident[k]
  BY <1>16, <1>17, <1>18, <1>21, <1>22 DEF incident
<1>24. issued' = issued \cup {incident'[k] : k \in opens}
  BY <1>19, <1>21, <1>22 DEF incident
<1>25. {[key |-> p.key, action |-> p.action, id |-> p.id] : p \in sent}' =
              {Incidents!Notice(k, "fire", incident'[k]) : k \in opens}
         \cup {Incidents!Notice(k, "update", incident[k]) : k \in updated}
         \cup {Incidents!Notice(k, "resolve", incident[k]) : k \in closes}
  <2>1. /\ \A k \in opens : notice(k, "fire", after(k)) = Incidents!Notice(k, "fire", incident'[k])
        /\ \A k \in updated : notice(k, "update", before(k)) = Incidents!Notice(k, "update", incident[k])
        /\ \A k \in closes : notice(k, "resolve", before(k)) = Incidents!Notice(k, "resolve", incident[k])
    BY <1>8, <1>13, <1>21, <1>22 DEF incident
  <2> HIDE DEF notice
  <2>2. QED
    BY <1>20, <2>1
<1>26. incident' \in [Key -> (Id \ {NilId}) \cup {NilId}]
  BY <1>7, <1>14 DEF incident
<1>27. QED
  BY <1>9, <1>10, <1>13, <1>15, <1>23, <1>24, <1>25, <1>26 DEF Incidents!Tick, incident

LEMMA ReloadRefines ==
  ASSUME ContractInv, DistinctConfigs, NEW config \in Configs, ReloadConfig(config)
  PROVE  Incidents!Reconfigure
<1> DEFINE before(k) == IncidentIn(alerts, k)
           after(k)  == IncidentIn(alerts', k)
<1>1. TypeOK /\ DistinctKeys(alerts)
  BY DEF ContractInv, ManagerInv
<1>2. /\ DistinctKeys(alerts')
      /\ \A j \in DOMAIN alerts' :
           /\ \A i \in DOMAIN alerts : alerts[i].key = alerts'[j].key =>
                alerts'[j].state = alerts[i].state /\ alerts'[j].id = alerts[i].id
           /\ alerts'[j].key \notin KeysOf(alerts) => ~Active(alerts'[j])
  BY <1>1, ReloadTakesOver
<1>3. sent' = {} /\ issued' = issued
  BY DEF ReloadConfig, issued
<1>4. ASSUME NEW k \in KeysOf(alerts') PROVE after(k) = before(k)
  <2>1. PICK j \in DOMAIN alerts' : alerts'[j].key = k
    BY <1>4 DEF KeysOf
  <2>2. CASE k \notin KeysOf(alerts)
    <3>1. after(k) = NilId
      BY <1>2, <2>1, <2>2, IncidentIs DEF DistinctKeys
    <3>2. before(k) = NilId
      BY <1>1, <2>2, IncidentIs DEF KeysOf
    <3>3. QED
      BY <3>1, <3>2
  <2>3. CASE k \in KeysOf(alerts)
    <3>1. PICK i \in DOMAIN alerts : alerts[i].key = k
      BY <2>3 DEF KeysOf
    <3>2. alerts'[j].state = alerts[i].state /\ alerts'[j].id = alerts[i].id
      BY <1>2, <2>1, <3>1
    <3>3. Active(alerts'[j]) <=> Active(alerts[i])
      BY <3>2 DEF Active
    <3>4. CASE Active(alerts[i])
      BY <1>1, <1>2, <2>1, <3>1, <3>2, <3>3, <3>4, IncidentIs
    <3>5. CASE ~Active(alerts[i])
      <4>1. before(k) = NilId
        BY <1>1, <3>1, <3>5, IncidentIs DEF DistinctKeys
      <4>2. after(k) = NilId
        BY <1>2, <2>1, <3>3, <3>5, IncidentIs DEF DistinctKeys
      <4>3. QED
        BY <4>1, <4>2
    <3>6. QED
      BY <3>4, <3>5
  <2>4. QED
    BY <2>2, <2>3
<1>5. ASSUME NEW k \in Key, k \notin KeysOf(alerts') PROVE after(k) = NilId
  BY <1>2, <1>5, IncidentIs DEF KeysOf
<1>6. KeysOf(alerts') \in SUBSET Key
  <2>1. alerts' \in Seq(Instance)
    BY <1>1, ReloadTypeOK DEF TypeOK
  <2>2. \A i \in DOMAIN alerts' : alerts'[i] \in Instance
    BY <2>1, SeqPositions
  <2>3. QED
    BY <2>2 DEF KeysOf, Instance
<1>7. [k \in Key |-> IncidentOf(k)]' = [k \in Key |-> after(k)]
  BY DEF IncidentOf, IncidentIn
<1>8. \A k \in Key : [l \in Key |-> IncidentOf(l)][k] = before(k)
  BY DEF IncidentOf, IncidentIn
<1> HIDE DEF before, after
<1>9. [k \in Key |-> after(k)] =
        [k \in Key |-> IF k \in KeysOf(alerts') THEN before(k) ELSE NilId]
  BY <1>4, <1>5
<1>10. [k \in Key |-> IncidentOf(k)]' =
         [k \in Key |-> IF k \in KeysOf(alerts')
                        THEN [l \in Key |-> IncidentOf(l)][k] ELSE NilId]
  BY <1>7, <1>8, <1>9
<1>11. {[key |-> p.key, action |-> p.action, id |-> p.id] : p \in sent}' = {}
  BY <1>3
<1>12. QED
  BY <1>3, <1>6, <1>10, <1>11 DEF Incidents!Reconfigure

LEMMA StutterRefines ==
  ASSUME alerts' = alerts, issued' = issued, sent' = sent
  PROVE  UNCHANGED Incidents!abstractVars
BY DEF Incidents!abstractVars, KeysOf, IncidentOf

(***************************************************************************)
(* Without repeated keys AlertManager implements AlertIncidents, step by   *)
(* step: a tick is one evaluation of the abstract incidents, a reload one  *)
(* reconfiguration, and what happens to captured flows a stuttering step.  *)
(* The script sees one fire, updates and at most one resolve per incident, *)
(* each under the incident's own identifier.                               *)
(***************************************************************************)
THEOREM ContractKept ==
  ASSUME DistinctConfigs
  PROVE  Spec => KeepsContract
<1>1. Init => ContractInv
  BY InitContractInv
<1>2. ContractInv /\ [Next]_vars => ContractInv'
  BY ContractInvStep
<1>3. Init => Incidents!Init
  <2>1. SUFFICES ASSUME Init PROVE Incidents!Init
    OBVIOUS
  <2>2. ManagerInv
    BY <2>1, InitManagerInv
  <2>3. \A i \in DOMAIN alerts : alerts[i] \in Instance
    BY <2>2, SeqPositions DEF ManagerInv, TypeOK
  <2>4. KeysOf(alerts) \in SUBSET Key
    BY <2>3 DEF KeysOf, Instance
  <2>5. \A i \in DOMAIN alerts : ~Active(alerts[i])
    BY <2>1, <2>2, ActiveIsOpen DEF Init, issued
  <2>6. \A k : IncidentOf(k) = NilId
    BY <2>5 DEF IncidentOf
  <2>7. sent = {} /\ issued = {}
    BY <2>1 DEF Init, issued
  <2>8. QED
    BY <2>4, <2>6, <2>7 DEF Incidents!Init
<1>4. ContractInv /\ [Next]_vars => [Incidents!Next]_(Incidents!abstractVars)
  <2> SUFFICES ASSUME ContractInv, [Next]_vars
               PROVE  [Incidents!Next]_(Incidents!abstractVars)
    OBVIOUS
  <2>1. ASSUME NEW rates \in [KeysOf(alerts) -> Rate], NEW gap \in Gap, Evaluate(rates, gap)
        PROVE  Incidents!Tick
    BY <2>1, EvaluateRefines
  <2>2. ASSUME NEW config \in Configs, ReloadConfig(config)
        PROVE  Incidents!Reconfigure
    BY <2>2, ReloadRefines
  <2>3. ASSUME NEW scopes \in SUBSET Scope, Capture(scopes)
        PROVE  UNCHANGED Incidents!abstractVars
    BY <2>3, StutterRefines DEF Capture, issued
  <2>4. ASSUME ForgetCaptured PROVE UNCHANGED Incidents!abstractVars
    BY <2>4, StutterRefines DEF ForgetCaptured, issued
  <2>5. ASSUME UNCHANGED vars PROVE UNCHANGED Incidents!abstractVars
    BY <2>5, StutterRefines DEF vars, issued
  <2>6. QED
    BY <2>1, <2>2, <2>3, <2>4, <2>5 DEF Next, Tick, Reload, Incidents!Next
<1>5. QED
  BY <1>1, <1>2, <1>3, <1>4, PTL DEF Spec, KeepsContract, Incidents!Spec
=============================================================================
