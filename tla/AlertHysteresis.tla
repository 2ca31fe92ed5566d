--------------------------- MODULE AlertHysteresis ---------------------------
(***************************************************************************)
(* One alert instance over time: the ticker evaluates it against a rate at *)
(* irregular instants, and a reload may change its policy under it while   *)
(* its state and its timers carry over.                                    *)
(*                                                                         *)
(* aboveSince, belowSince and lastNotice are history variables: the first  *)
(* sample of the current unbroken run of samples at or above the trigger   *)
(* threshold, the same for samples below the recover threshold, and the    *)
(* instant of the last "fire" or "update".  inverted remembers a policy    *)
(* whose recover threshold is above its trigger: nothing rejects one.      *)
(***************************************************************************)
EXTENDS AlertInstance

CONSTANTS
  Policies,  \* the policies the configuration may give the instance
  Rate,      \* the rates it may be sampled at
  Gap,       \* the times that may pass between two samples
  MaxNow     \* bound on the clock

ASSUME PoliciesAssumption == Policies \subseteq Policy

ASSUME RateAssumption == Rate \subseteq Nat

\* Two ticks may come at the same instant: missed ticks are made up in bursts.
ASSUME GapAssumption == Gap \subseteq Nat

ASSUME BoundAssumption == MaxNow \in Nat

VARIABLES
  policy,      \* thresholds and durations in force
  state,       \* AlertInstance::state
  now,         \* the monotonic clock, at the last evaluation
  action,      \* what the last evaluation returned
  aboveSince,  \* history: start of the run at or above trigger, or NoRun
  belowSince,  \* history: start of the run below recover, or NoRun
  lastNotice,  \* history: instant of the last fire or update, or NoRun
  inverted     \* history: whether an inverted policy was ever in force

vars == <<policy, state, now, action, aboveSince, belowSince, lastNotice, inverted>>

NoRun == -1

Instant == Nat \cup {NoRun}

TypeOK ==
  /\ policy \in Policies
  /\ state \in AlertState
  /\ now \in 0 .. MaxNow
  /\ action \in AlertAction
  /\ {aboveSince, belowSince, lastNotice} \subseteq Instant
  /\ inverted \in BOOLEAN

Inverted(p) == p.recover > p.trigger

Init ==
  /\ policy \in Policies
  /\ state = Normal
  /\ now = 0
  /\ action = "none"
  /\ aboveSince = NoRun /\ belowSince = NoRun /\ lastNotice = NoRun
  /\ inverted = Inverted(policy)

\* The run of samples that ends now: continued, begun or broken.
Run(since, holds, t) ==
  CASE ~holds                   -> NoRun
    [] holds /\ since = NoRun   -> t
    [] holds /\ since # NoRun   -> since

\* AlertInstance::evaluate at `gap` after the last evaluation.
Evaluate(rate, gap) ==
  LET t       == now + gap
      outcome == EvaluateAlert(policy, state, rate, t)
  IN  /\ t <= MaxNow
      /\ now' = t
      /\ state' = outcome.state
      /\ action' = outcome.action
      /\ aboveSince' = Run(aboveSince, rate >= policy.trigger, t)
      /\ belowSince' = Run(belowSince, rate < policy.recover, t)
      /\ lastNotice' = IF outcome.action \in {"fire", "update"} THEN t ELSE lastNotice
      /\ UNCHANGED <<policy, inverted>>

Sample == \E rate \in Rate, gap \in Gap : Evaluate(rate, gap)

\* reload_config: new thresholds and durations, the state carried over.
Reload(p) ==
  /\ policy' = p
  /\ action' = "none"
  /\ inverted' = (inverted \/ Inverted(p))
  /\ UNCHANGED <<state, now, aboveSince, belowSince, lastNotice>>

Next == Sample \/ \E p \in Policies : Reload(p)

Spec == Init /\ [][Next]_vars

-----------------------------------------------------------------------------
(***************************************************************************)
(* An alert fires only when every sample since some instant at least       *)
(* trigger_for ago was at or above the trigger threshold then in force:    *)
(* no dip, however short, is bridged (AlertInstance::evaluate, pending).   *)
(***************************************************************************)
FireOnlyAfterHold ==
  action = "fire" =>
     aboveSince # NoRun /\ now - aboveSince >= policy.triggerFor

(***************************************************************************)
(* An alert resolves only when every sample of at least recover_for was    *)
(* below the recover threshold (AlertInstance::evaluate, recovering).      *)
(***************************************************************************)
ResolveOnlyAfterQuiet ==
  action = "resolve" =>
     belowSince # NoRun /\ now - belowSince >= policy.recoverFor

(***************************************************************************)
(* Updates are rate-limited: a script is not asked to re-analyse earlier   *)
(* than update_interval after the last fire or update, whatever the alert  *)
(* went through in between (AlertInstance::evaluate, firing).              *)
(***************************************************************************)
UpdatesSpaced ==
  [][action' = "update" /\ Sample =>
        lastNotice # NoRun /\ now' - lastNotice >= policy.updateInterval]_vars

(***************************************************************************)
(* While no recover threshold was above its trigger threshold, a run of    *)
(* samples at or above trigger that has lasted trigger_for, and more than  *)
(* one sample, leaves the alert firing: neither a recovery in progress nor *)
(* a reload makes the machine miss a sustained attack.                     *)
(***************************************************************************)
SustainedAttackFires ==
  [][ /\ ~inverted /\ Sample
      /\ aboveSince # NoRun /\ aboveSince' = aboveSince
      /\ now' - aboveSince >= policy.triggerFor
      => state'.tag = "firing" ]_vars

(***************************************************************************)
(* While no recover threshold was above its trigger threshold, a run of    *)
(* samples below recover that has lasted recover_for, and more than one    *)
(* sample, leaves the alert normal: no incident outlives its quiet time.   *)
(***************************************************************************)
SustainedQuietResolves ==
  [][ /\ ~inverted /\ Sample
      /\ belowSince # NoRun /\ belowSince' = belowSince
      /\ now' - belowSince >= policy.recoverFor
      => state'.tag = "normal" ]_vars

(***************************************************************************)
(* What README.md says of mitigation_update_interval, "Re-analysis         *)
(* interval while alert is firing": an alert that is firing before and     *)
(* after a sample is re-analysed at that sample when the interval has      *)
(* passed since its last analysis.                                         *)
(***************************************************************************)
ReanalysisOnSchedule ==
  [][ /\ Sample
      /\ state.tag = "firing" /\ state'.tag = "firing"
      /\ lastNotice # NoRun /\ now' - lastNotice >= policy.updateInterval
      => action' = "update" ]_vars
=============================================================================
