-------------------------- MODULE MCAlertHysteresis --------------------------
(* AlertHysteresis with rates below, between and above the two thresholds   *)
(* and durations of zero, one and several samples.                          *)
EXTENDS AlertHysteresis

MCPolicy(trigger, recover, triggerFor, recoverFor) ==
  [trigger |-> trigger, recover |-> recover, triggerFor |-> triggerFor,
   recoverFor |-> recoverFor, updateInterval |-> 2]

\* Policies that keep recover at or below trigger, as in the README example.
OrderedPolicies ==
  {MCPolicy(2, 1, 2, 2), MCPolicy(3, 2, 0, 3), MCPolicy(2, 2, 1, 0)}

\* The configuration is not checked for that order: one policy inverts it.
AnyPolicies == OrderedPolicies \cup {MCPolicy(1, 3, 1, 1)}
=============================================================================
