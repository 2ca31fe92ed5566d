--------------------------- MODULE MCAttackResponse ---------------------------
(* AttackResponse with a window of three seconds, attacks that pause at     *)
(* most once, and a patient and an impatient policy.                         *)
EXTENDS AttackResponse

MCPolicies ==
  {[trigger |-> 2, recover |-> 2, triggerFor |-> 1, recoverFor |-> 3, updateInterval |-> 2],
   [trigger |-> 2, recover |-> 1, triggerFor |-> 0, recoverFor |-> 3, updateInterval |-> 9]}

MCAttacks ==
  {(a .. b) \cup (c .. d) : a \in {Start}, b \in Start .. MaxTime,
                            c \in Start .. MaxTime, d \in {MaxTime}}
=============================================================================
