----------------------- MODULE AlertHysteresis_proofs -----------------------
(***************************************************************************)
(* The properties of AlertHysteresis for all policies, rates and gaps.     *)
(*                                                                         *)
(* The properties speak of runs of samples, the code of one stored         *)
(* instant.  TimersInv ties them together: the instant of a pending        *)
(* (recovering) alert lies within the current run above trigger (below     *)
(* recover), so a duration measured from it never exceeds the run's.       *)
(* RunsInv adds, while no thresholds are inverted, that a run starts just  *)
(* there and that no other state can coexist with it.                      *)
(***************************************************************************)
EXTENDS AlertHysteresis, CodeLemmas

TimersInv ==
  /\ state.at <= now /\ aboveSince <= now /\ belowSince <= now /\ lastNotice <= now
  /\ state.tag = "pending"    => aboveSince # NoRun /\ aboveSince <= state.at
  /\ state.tag = "recovering" => belowSince # NoRun /\ belowSince <= state.at
  /\ state.tag = "recovering" => lastNotice # NoRun
  /\ state.tag = "firing"     => lastNotice # NoRun /\ lastNotice <= state.at

RunsInv ==
  ~inverted =>
    /\ policy.recover <= policy.trigger
    /\ aboveSince # NoRun => state.tag = "firing" \/ state = Pending(aboveSince)
    /\ belowSince # NoRun => state.tag = "normal" \/ state = Recovering(belowSince)

HystInv ==
  TypeOK /\ TimersInv /\ RunsInv /\ FireOnlyAfterHold /\ ResolveOnlyAfterQuiet

-----------------------------------------------------------------------------
\* A run that survives a sample is the old one or begins at the sample.
LEMMA RunTyped ==
  ASSUME NEW since \in Instant, NEW holds \in BOOLEAN, NEW t \in Nat, since <= t
  PROVE  /\ Run(since, holds, t) \in Instant
         /\ Run(since, holds, t) <= t
         /\ holds <=> Run(since, holds, t) # NoRun
         /\ holds /\ since # NoRun => Run(since, holds, t) = since
         /\ holds /\ since = NoRun => Run(since, holds, t) = t
BY DEF Run, Instant, NoRun

\* The comparison behind `inverted`.
LEMMA InvertedMeans ==
  ASSUME NEW p \in Policies
  PROVE  /\ Inverted(p) \in BOOLEAN
         /\ ~Inverted(p) => p.recover <= p.trigger
<1>1. p.recover \in Nat /\ p.trigger \in Nat
  BY PoliciesAssumption DEF Policy
<1>2. Inverted(p) \in BOOLEAN
  BY DEF Inverted
<1>3. ~Inverted(p) => p.recover <= p.trigger
  BY <1>1 DEF Inverted
<1>4. QED
  BY <1>2, <1>3

LEMMA InitHystInv == Init => HystInv
<1> SUFFICES ASSUME Init PROVE HystInv
  OBVIOUS
<1>1. policy \in Policies /\ inverted = Inverted(policy)
  BY DEF Init
<1>2. inverted \in BOOLEAN
  BY <1>1, InvertedMeans
<1>3. TypeOK
  BY <1>1, <1>2, BoundAssumption, StatesTyped
     DEF Init, TypeOK, Instant, NoRun, AlertAction
<1>4. TimersInv
  BY StateFields DEF Init, TimersInv, NoRun
<1>5. RunsInv
  BY <1>1, InvertedMeans DEF Init, RunsInv
<1>6. QED
  BY <1>3, <1>4, <1>5 DEF Init, HystInv, FireOnlyAfterHold, ResolveOnlyAfterQuiet

-----------------------------------------------------------------------------
\* What a sample does to the state: one of the transitions of evaluate.
LEMMA SampleCases ==
  ASSUME HystInv, NEW rate \in Rate, NEW gap \in Gap, Evaluate(rate, gap)
  PROVE  LET t == now + gap
             Goes(s, a) == state' = s /\ action' = a
         IN  \/ state.tag = "normal" /\ rate >= policy.trigger /\ Goes(Pending(t), "none")
             \/ state.tag = "normal" /\ rate < policy.trigger /\ Goes(state, "none")
             \/ state.tag = "pending" /\ rate < policy.trigger /\ Goes(Normal, "none")
             \/ state.tag = "pending" /\ rate >= policy.trigger
                /\ t - state.at >= policy.triggerFor /\ Goes(Firing(t), "fire")
             \/ state.tag = "pending" /\ rate >= policy.trigger
                /\ t - state.at < policy.triggerFor /\ Goes(state, "none")
             \/ state.tag = "firing" /\ rate < policy.recover
                /\ Goes(Recovering(t), "none")
             \/ state.tag = "firing" /\ rate >= policy.recover
                /\ t - state.at >= policy.updateInterval /\ Goes(Firing(t), "update")
             \/ state.tag = "firing" /\ rate >= policy.recover
                /\ t - state.at < policy.updateInterval /\ Goes(state, "none")
             \/ state.tag = "recovering" /\ rate >= policy.recover
                /\ Goes(Firing(t), "none")
             \/ state.tag = "recovering" /\ rate < policy.recover
                /\ t - state.at >= policy.recoverFor /\ Goes(Normal, "resolve")
             \/ state.tag = "recovering" /\ rate < policy.recover
                /\ t - state.at < policy.recoverFor /\ Goes(state, "none")
<1> DEFINE t == now + gap
           o == EvaluateAlert(policy, state, rate, t)
<1>1. policy \in Policy /\ state \in AlertState /\ rate \in Nat /\ t \in Nat
  BY PoliciesAssumption, RateAssumption, GapAssumption, BoundAssumption
     DEF HystInv, TypeOK
<1>2. state.at <= t
  BY <1>1, GapAssumption, BoundAssumption DEF HystInv, TypeOK, TimersInv, AlertState
<1>3. state' = o.state /\ action' = o.action
  BY DEF Evaluate
<1>4. \A s, a : Outcome(s, a).state = s /\ Outcome(s, a).action = a
  BY DEF Outcome
<1> HIDE DEF t, o
<1>5. QED
  BY <1>1, <1>2, <1>3, <1>4, EvaluateCases DEF t, o

\* The history after a sample.
LEMMA SampleHistory ==
  ASSUME HystInv, NEW rate \in Rate, NEW gap \in Gap, Evaluate(rate, gap)
  PROVE  /\ now' = now + gap /\ now' \in 0 .. MaxNow /\ now <= now' /\ now \in Nat
         /\ aboveSince' \in Instant /\ aboveSince' <= now'
         /\ rate >= policy.trigger <=> aboveSince' # NoRun
         /\ rate >= policy.trigger /\ aboveSince # NoRun => aboveSince' = aboveSince
         /\ rate >= policy.trigger /\ aboveSince = NoRun => aboveSince' = now'
         /\ belowSince' \in Instant /\ belowSince' <= now'
         /\ rate < policy.recover <=> belowSince' # NoRun
         /\ rate < policy.recover /\ belowSince # NoRun => belowSince' = belowSince
         /\ rate < policy.recover /\ belowSince = NoRun => belowSince' = now'
         /\ lastNotice' \in Instant /\ lastNotice' <= now'
         /\ action' \in {"fire", "update"} => lastNotice' = now'
         /\ action' \notin {"fire", "update"} => lastNotice' = lastNotice
<1>1. /\ now \in Nat /\ gap \in Nat /\ now' = now + gap
      /\ now' \in 0 .. MaxNow /\ now <= now'
  BY GapAssumption, BoundAssumption DEF HystInv, TypeOK, Evaluate
<1>2. /\ aboveSince \in Instant /\ aboveSince <= now'
      /\ belowSince \in Instant /\ belowSince <= now'
      /\ lastNotice \in Instant /\ lastNotice <= now'
  BY <1>1 DEF HystInv, TypeOK, TimersInv, Instant, NoRun
<1>3. /\ aboveSince' = Run(aboveSince, rate >= policy.trigger, now')
      /\ belowSince' = Run(belowSince, rate < policy.recover, now')
      /\ lastNotice' = IF action' \in {"fire", "update"} THEN now' ELSE lastNotice
  BY DEF Evaluate
<1>4. now' \in Nat
  BY <1>1, BoundAssumption
<1>5. /\ aboveSince' \in Instant /\ aboveSince' <= now'
      /\ rate >= policy.trigger <=> aboveSince' # NoRun
      /\ rate >= policy.trigger /\ aboveSince # NoRun => aboveSince' = aboveSince
      /\ rate >= policy.trigger /\ aboveSince = NoRun => aboveSince' = now'
  <2> DEFINE holds == rate >= policy.trigger
  <2>1. holds \in BOOLEAN
    OBVIOUS
  <2>2. aboveSince' = Run(aboveSince, holds, now')
    BY <1>3
  <2> HIDE DEF holds
  <2>3. /\ aboveSince' \in Instant /\ aboveSince' <= now'
        /\ holds <=> aboveSince' # NoRun
        /\ holds /\ aboveSince # NoRun => aboveSince' = aboveSince
        /\ holds /\ aboveSince = NoRun => aboveSince' = now'
    BY <1>2, <1>4, <2>1, <2>2, RunTyped
  <2>4. QED
    BY <2>3 DEF holds
<1>6. /\ belowSince' \in Instant /\ belowSince' <= now'
      /\ rate < policy.recover <=> belowSince' # NoRun
      /\ rate < policy.recover /\ belowSince # NoRun => belowSince' = belowSince
      /\ rate < policy.recover /\ belowSince = NoRun => belowSince' = now'
  <2> DEFINE holds == rate < policy.recover
  <2>1. holds \in BOOLEAN
    OBVIOUS
  <2>2. belowSince' = Run(belowSince, holds, now')
    BY <1>3
  <2> HIDE DEF holds
  <2>3. /\ belowSince' \in Instant /\ belowSince' <= now'
        /\ holds <=> belowSince' # NoRun
        /\ holds /\ belowSince # NoRun => belowSince' = belowSince
        /\ holds /\ belowSince = NoRun => belowSince' = now'
    BY <1>2, <1>4, <2>1, <2>2, RunTyped
  <2>4. QED
    BY <2>3 DEF holds
<1>7. lastNotice' \in Instant /\ lastNotice' <= now'
  BY <1>2, <1>3, <1>4 DEF Instant
<1>8. QED
  BY <1>1, <1>3, <1>5, <1>6, <1>7

LEMMA SampleHystInv == HystInv /\ Sample => HystInv'
<1> SUFFICES ASSUME HystInv, NEW rate \in Rate, NEW gap \in Gap, Evaluate(rate, gap)
             PROVE  HystInv'
  BY DEF Sample
<1>1. policy' = policy /\ policy \in Policies /\ policy \in Policy
  BY PoliciesAssumption DEF HystInv, TypeOK, Evaluate
<1>2. /\ policy.trigger \in Nat /\ policy.recover \in Nat /\ rate \in Nat
      /\ policy.triggerFor \in Nat /\ policy.recoverFor \in Nat
      /\ policy.updateInterval \in Nat
  BY <1>1, RateAssumption DEF Policy
<1>3. now' \in Nat
  BY SampleHistory, BoundAssumption
<1>4. TypeOK'
  <2>1. state' \in AlertState /\ action' \in AlertAction
    BY <1>3, SampleCases, SampleHistory, StatesTyped
       DEF HystInv, TypeOK, AlertAction
  <2>2. inverted' \in BOOLEAN
    BY DEF HystInv, TypeOK, Evaluate
  <2>3. QED
    BY <1>1, <2>1, <2>2, SampleHistory DEF TypeOK
<1>5. /\ state.at \in Nat /\ aboveSince \in Instant /\ belowSince \in Instant
      /\ lastNotice \in Instant
  BY DEF HystInv, TypeOK, AlertState
<1>6. TimersInv'
  BY <1>2, <1>3, <1>5, SampleCases, SampleHistory, StateFields
     DEF HystInv, TimersInv, Instant, NoRun
<1>7. RunsInv'
  <2>1. SUFFICES ASSUME ~inverted
                 PROVE  /\ policy.recover <= policy.trigger
                        /\ aboveSince' # NoRun =>
                             state'.tag = "firing" \/ state' = Pending(aboveSince')
                        /\ belowSince' # NoRun =>
                             state'.tag = "normal" \/ state' = Recovering(belowSince')
    BY <1>1 DEF RunsInv, Evaluate
  <2>2. policy.recover <= policy.trigger
    BY <2>1 DEF HystInv, RunsInv
  <2>3. /\ aboveSince # NoRun => state.tag = "firing" \/ state = Pending(aboveSince)
        /\ belowSince # NoRun => state.tag = "normal" \/ state = Recovering(belowSince)
    BY <2>1 DEF HystInv, RunsInv
  <2>4. aboveSince # NoRun => aboveSince \in Nat
    BY <1>5 DEF Instant
  <2>5. belowSince # NoRun => belowSince \in Nat
    BY <1>5 DEF Instant
  <2>6. aboveSince' # NoRun =>
          state'.tag = "firing" \/ state' = Pending(aboveSince')
    BY <1>2, <1>3, <2>2, <2>3, <2>4, <2>5, SampleCases, SampleHistory, StateFields
       DEF HystInv, TimersInv
  <2>7. belowSince' # NoRun =>
          state'.tag = "normal" \/ state' = Recovering(belowSince')
    BY <1>2, <1>3, <2>2, <2>3, <2>4, <2>5, SampleCases, SampleHistory, StateFields
       DEF HystInv, TimersInv
  <2>8. QED
    BY <2>2, <2>6, <2>7
<1>8. FireOnlyAfterHold'
  BY <1>1, <1>2, <1>3, <1>5, SampleCases, SampleHistory
     DEF HystInv, TimersInv, FireOnlyAfterHold, Instant, NoRun
<1>9. ResolveOnlyAfterQuiet'
  BY <1>1, <1>2, <1>3, <1>5, SampleCases, SampleHistory
     DEF HystInv, TimersInv, ResolveOnlyAfterQuiet, Instant, NoRun
<1>10. QED
  BY <1>4, <1>6, <1>7, <1>8, <1>9 DEF HystInv

LEMMA ReloadHystInv ==
  ASSUME HystInv, NEW p \in Policies, Reload(p)
  PROVE  HystInv'
<1>1. inverted' \in BOOLEAN
  BY DEF Reload
<1>2. TypeOK'
  BY <1>1 DEF HystInv, Reload, TypeOK, AlertAction
<1>3. TimersInv'
  BY DEF HystInv, Reload, TimersInv
<1>4. ASSUME ~inverted' PROVE ~inverted /\ ~Inverted(p)
  BY <1>4 DEF Reload
<1>5. RunsInv'
  BY <1>4, InvertedMeans DEF HystInv, Reload, RunsInv
<1>6. QED
  BY <1>2, <1>3, <1>5 DEF HystInv, Reload, FireOnlyAfterHold, ResolveOnlyAfterQuiet

LEMMA HystInvStep == HystInv /\ [Next]_vars => HystInv'
<1> SUFFICES ASSUME HystInv, [Next]_vars PROVE HystInv'
  OBVIOUS
<1>1. CASE Sample
  BY <1>1, SampleHystInv
<1>2. ASSUME NEW p \in Policies, Reload(p) PROVE HystInv'
  BY <1>2, ReloadHystInv
<1>3. CASE UNCHANGED vars
  BY <1>3 DEF vars, HystInv, TypeOK, TimersInv, RunsInv, Inverted,
              FireOnlyAfterHold, ResolveOnlyAfterQuiet
<1>4. QED
  BY <1>1, <1>2, <1>3 DEF Next

-----------------------------------------------------------------------------
(***************************************************************************)
(* The inductive invariant holds of every behaviour of an alert instance   *)
(* that AlertInstance::evaluate samples and reload_config re-parameterises.*)
(***************************************************************************)
THEOREM HystInvariance == Spec => []HystInv
BY InitHystInv, HystInvStep, PTL DEF Spec

(***************************************************************************)
(* The instance stays in one of the four states of AlertState, and its     *)
(* clock, action and history stay in their ranges.                         *)
(***************************************************************************)
THEOREM TypeCorrect == Spec => []TypeOK
<1>1. HystInv => TypeOK
  BY DEF HystInv
<1>2. QED
  BY <1>1, HystInvariance, PTL

(***************************************************************************)
(* For every configuration, sampling and reload history: evaluate answers  *)
(* Fire only after trigger_for of samples at or above the trigger.         *)
(***************************************************************************)
THEOREM FiringIsHeld == Spec => []FireOnlyAfterHold
<1>1. HystInv => FireOnlyAfterHold
  BY DEF HystInv
<1>2. QED
  BY <1>1, HystInvariance, PTL

(***************************************************************************)
(* For every configuration, sampling and reload history: evaluate answers  *)
(* Resolve only after recover_for of samples below the recover threshold.  *)
(***************************************************************************)
THEOREM ResolvingIsQuiet == Spec => []ResolveOnlyAfterQuiet
<1>1. HystInv => ResolveOnlyAfterQuiet
  BY DEF HystInv
<1>2. QED
  BY <1>1, HystInvariance, PTL

\* What SampleCases and SampleHistory are about, in one bundle of types.
LEMMA SampleTypes ==
  ASSUME HystInv, NEW rate \in Rate, NEW gap \in Gap, Evaluate(rate, gap)
  PROVE  /\ policy.trigger \in Nat /\ policy.recover \in Nat /\ rate \in Nat
         /\ policy.triggerFor \in Nat /\ policy.recoverFor \in Nat
         /\ policy.updateInterval \in Nat
         /\ state.at \in Nat /\ now' \in Nat /\ policy \in Policies
         /\ aboveSince \in Instant /\ belowSince \in Instant /\ lastNotice \in Instant
<1>1. policy \in Policy /\ policy \in Policies
  BY PoliciesAssumption DEF HystInv, TypeOK
<1>2. now' \in Nat
  BY SampleHistory, BoundAssumption
<1>3. QED
  BY <1>1, <1>2, RateAssumption DEF HystInv, TypeOK, Policy, AlertState

(***************************************************************************)
(* Two notices of one alert are update_interval apart, at every sample of  *)
(* every behaviour: evaluate never asks for an early re-analysis.          *)
(***************************************************************************)
THEOREM UpdateSpacing == Spec => UpdatesSpaced
<1>1. HystInv /\ action' = "update" /\ Sample =>
         lastNotice # NoRun /\ now' - lastNotice >= policy.updateInterval
  <2>1. SUFFICES ASSUME HystInv, action' = "update",
                        NEW rate \in Rate, NEW gap \in Gap, Evaluate(rate, gap)
                 PROVE  lastNotice # NoRun /\ now' - lastNotice >= policy.updateInterval
    BY DEF Sample
  <2>2. state.tag = "firing" /\ now' - state.at >= policy.updateInterval
    BY <2>1, SampleCases, SampleHistory
  <2>3. QED
    BY <2>1, <2>2, SampleTypes DEF HystInv, TimersInv, Instant, NoRun
<1>2. QED
  BY <1>1, HystInvariance, PTL DEF Spec, UpdatesSpaced

(***************************************************************************)
(* Without inverted thresholds a run of samples at or above trigger that   *)
(* has lasted trigger_for leaves the alert firing, for every sampling and  *)
(* across reloads (evaluate never lets a sustained attack pass).           *)
(***************************************************************************)
THEOREM SustainedAttack == Spec => SustainedAttackFires
<1>1. HystInv /\ ~inverted /\ Sample /\ aboveSince # NoRun /\ aboveSince' = aboveSince
      /\ now' - aboveSince >= policy.triggerFor
      => state'.tag = "firing"
  <2>1. SUFFICES ASSUME HystInv, ~inverted, aboveSince # NoRun, aboveSince' = aboveSince,
                        now' - aboveSince >= policy.triggerFor,
                        NEW rate \in Rate, NEW gap \in Gap, Evaluate(rate, gap)
                 PROVE  state'.tag = "firing"
    BY DEF Sample
  <2>2. rate >= policy.trigger /\ rate >= policy.recover
    BY <2>1, SampleTypes, SampleHistory DEF HystInv, RunsInv
  <2>3. state.tag = "firing" \/ state = Pending(aboveSince)
    BY <2>1 DEF HystInv, RunsInv
  <2>4. aboveSince \in Nat
    BY <2>1, SampleTypes DEF Instant
  <2>5. QED
    BY <2>1, <2>2, <2>3, <2>4, SampleTypes, SampleCases, SampleHistory, StateFields
<1>2. QED
  BY <1>1, HystInvariance, PTL DEF Spec, SustainedAttackFires

(***************************************************************************)
(* Without inverted thresholds a run of samples below recover that has     *)
(* lasted recover_for leaves the alert normal, for every sampling and      *)
(* across reloads (evaluate never keeps a finished incident open).         *)
(***************************************************************************)
THEOREM SustainedQuiet == Spec => SustainedQuietResolves
<1>1. HystInv /\ ~inverted /\ Sample /\ belowSince # NoRun /\ belowSince' = belowSince
      /\ now' - belowSince >= policy.recoverFor
      => state'.tag = "normal"
  <2>1. SUFFICES ASSUME HystInv, ~inverted, belowSince # NoRun, belowSince' = belowSince,
                        now' - belowSince >= policy.recoverFor,
                        NEW rate \in Rate, NEW gap \in Gap, Evaluate(rate, gap)
                 PROVE  state'.tag = "normal"
    BY DEF Sample
  <2>2. rate < policy.recover /\ rate < policy.trigger
    BY <2>1, SampleTypes, SampleHistory DEF HystInv, RunsInv
  <2>3. state.tag = "normal" \/ state = Recovering(belowSince)
    BY <2>1 DEF HystInv, RunsInv
  <2>4. belowSince \in Nat
    BY <2>1, SampleTypes DEF Instant
  <2>5. QED
    BY <2>1, <2>2, <2>3, <2>4, SampleTypes, SampleCases, SampleHistory, StateFields
<1>2. QED
  BY <1>1, HystInvariance, PTL DEF Spec, SustainedQuietResolves
=============================================================================
