--------------------------- MODULE MCAlertManager ---------------------------
(* AlertManager with two alerts of one prefix and one of another; the       *)
(* configurations reorder them, drop some, name no script and change their  *)
(* policies.                                                                *)
EXTENDS AlertManager

CONSTANTS a, b, c, prefix1, prefix2, script1

MCKey == {a, b, c}

MCScopeOf == [k \in MCKey |-> IF k = c THEN prefix2 ELSE prefix1]

MCPolicy(trigger, hold) ==
  [trigger |-> trigger, recover |-> 1, triggerFor |-> hold,
   recoverFor |-> hold, updateInterval |-> 1]

Quick == MCPolicy(1, 0)

Slow == MCPolicy(2, 2)

MCSpot(key, policy) == [key |-> key, policy |-> policy]

MCConfig(spots) == [script |-> script1, alerts |-> spots]

\* Two alerts of a prefix in both orders, and one of each prefix.
ThreeKeys ==
  {MCConfig(<<MCSpot(a, Quick), MCSpot(b, Slow)>>),
   MCConfig(<<MCSpot(b, Quick), MCSpot(a, Slow)>>),
   [script |-> NoScript, alerts |-> <<MCSpot(b, Quick), MCSpot(c, Quick)>>]}

\* Two rules give one key two thresholds, as for a warning and an alarm.
RepeatedKeys ==
  {MCConfig(<<MCSpot(a, Quick), MCSpot(a, Slow)>>),
   MCConfig(<<MCSpot(a, Slow), MCSpot(b, Quick), MCSpot(a, Quick)>>)}
=============================================================================
