---------------------------- MODULE AlertInstance ----------------------------
(***************************************************************************)
(* The alert state machine of alert.rs: AlertInstance::evaluate as an      *)
(* operator, from an instance's thresholds and durations (its policy), its *)
(* state, a rate and an instant to the next state and the action the       *)
(* caller has to carry out.  The module has no variables; AlertHysteresis  *)
(* runs one instance, AlertManager all of them.                            *)
(*                                                                         *)
(* Rates and instants are natural numbers: evaluate only compares rates    *)
(* with the two thresholds and elapsed times with the three durations.     *)
(***************************************************************************)
EXTENDS Integers

Policy == [trigger : Nat, recover : Nat,
           triggerFor : Nat, recoverFor : Nat, updateInterval : Nat]

\* `at` is the field since (pending, recovering) or last_update (firing).
AlertState ==
  [tag : {"normal", "pending", "firing", "recovering"}, at : Nat]

Normal         == [tag |-> "normal",     at |-> 0]
Pending(at)    == [tag |-> "pending",    at |-> at]
Firing(at)     == [tag |-> "firing",     at |-> at]
Recovering(at) == [tag |-> "recovering", at |-> at]

\* Option<AlertAction>
AlertAction == {"none", "fire", "update", "resolve"}

Outcome(state, action) == [state |-> state, action |-> action]

\* Mutant of EvaluateNormal: the hold is counted from before the sample.
EvaluateNormalBackdated(p, s, rate, now) ==
  IF rate >= p.trigger
  THEN Outcome(Pending(now - p.triggerFor), "none")
  ELSE Outcome(s, "none")

EvaluateNormal(p, s, rate, now) ==
  IF rate >= p.trigger THEN Outcome(Pending(now), "none") ELSE Outcome(s, "none")

\* Mutant of EvaluatePending: fires only after more than trigger_for.
EvaluatePendingLate(p, s, rate, now) ==
  CASE rate < p.trigger            -> Outcome(Normal, "none")
    [] /\ rate >= p.trigger
       /\ now - s.at > p.triggerFor -> Outcome(Firing(now), "fire")
    [] OTHER                       -> Outcome(s, "none")

\* Mutant of EvaluatePending: a dip below the threshold is forgiven.
EvaluatePendingForgiving(p, s, rate, now) ==
  IF rate >= p.trigger /\ now - s.at >= p.triggerFor
  THEN Outcome(Firing(now), "fire")
  ELSE Outcome(s, "none")

EvaluatePending(p, s, rate, now) ==
  CASE rate < p.trigger            -> Outcome(Normal, "none")
    [] /\ rate >= p.trigger
       /\ now - s.at >= p.triggerFor -> Outcome(Firing(now), "fire")
    [] OTHER                       -> Outcome(s, "none")

\* Mutant of EvaluateFiring: an update at every sample.
EvaluateFiringEager(p, s, rate, now) ==
  IF rate < p.recover
  THEN Outcome(Recovering(now), "none")
  ELSE Outcome(Firing(now), "update")

\* Mutant of EvaluateFiring: the quiet is counted from the last update.
EvaluateFiringStale(p, s, rate, now) ==
  CASE rate < p.recover            -> Outcome(Recovering(s.at), "none")
    [] /\ rate >= p.recover
       /\ now - s.at >= p.updateInterval -> Outcome(Firing(now), "update")
    [] OTHER                       -> Outcome(s, "none")

EvaluateFiring(p, s, rate, now) ==
  CASE rate < p.recover            -> Outcome(Recovering(now), "none")
    [] /\ rate >= p.recover
       /\ now - s.at >= p.updateInterval -> Outcome(Firing(now), "update")
    [] OTHER                       -> Outcome(s, "none")

\* Mutant of EvaluateRecovering: resolves only after more than recover_for.
EvaluateRecoveringLate(p, s, rate, now) ==
  CASE rate >= p.recover           -> Outcome(Firing(now), "none")
    [] /\ rate < p.recover
       /\ now - s.at > p.recoverFor -> Outcome(Normal, "resolve")
    [] OTHER                       -> Outcome(s, "none")

\* Mutant of EvaluateRecovering: a rate that climbs back does not reset it.
EvaluateRecoveringDeaf(p, s, rate, now) ==
  IF rate < p.recover /\ now - s.at >= p.recoverFor
  THEN Outcome(Normal, "resolve")
  ELSE Outcome(s, "none")

EvaluateRecovering(p, s, rate, now) ==
  CASE rate >= p.recover           -> Outcome(Firing(now), "none")
    [] /\ rate < p.recover
       /\ now - s.at >= p.recoverFor -> Outcome(Normal, "resolve")
    [] OTHER                       -> Outcome(s, "none")

EvaluateAlert(p, s, rate, now) ==
  CASE s.tag = "normal"     -> EvaluateNormal(p, s, rate, now)
    [] s.tag = "pending"    -> EvaluatePending(p, s, rate, now)
    [] s.tag = "firing"     -> EvaluateFiring(p, s, rate, now)
    [] s.tag = "recovering" -> EvaluateRecovering(p, s, rate, now)
=============================================================================
