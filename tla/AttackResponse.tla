---------------------------- MODULE AttackResponse ----------------------------
(***************************************************************************)
(* The daemon under attack, end to end and under one clock: the ring that  *)
(* counts the attack (RingBuffer), the alert evaluated on it every second  *)
(* (AlertInstance), the scripts its payloads run (ScriptRunner), the page  *)
(* that shows it (Metrics), and reloads that empty the ring and keep the   *)
(* alert.                                                                  *)
(*                                                                         *)
(* The attack is one flow of one byte in each of its seconds; a second     *)
(* ends when its flow was counted, its tick was evaluated and published,   *)
(* and no script task has a step left that is due.  Daemon treats ticks    *)
(* and flows that wait; here everything is as prompt as the code means it  *)
(* to be.  `reloads` is a history variable.                                *)
(***************************************************************************)
EXTENDS RingBuffer, AlertInstance, ScriptRunner, Metrics, FiniteSets

CONSTANTS
  Window,     \* the seconds of the sliding window
  Policies,   \* the thresholds, on the bytes of a window, and the durations
  Attacks,    \* the seconds an attack may take
  Start,      \* the first second of the run
  MaxTime,    \* bound on the clock
  MaxReloads  \* bound on the seconds with a reload

ASSUME WindowAssumption == Window \in Nat \ {0} /\ Start \in Nat /\ Start >= Window

ASSUME PoliciesAssumption == Policies \subseteq Policy

ASSUME AttacksAssumption == Attacks \subseteq SUBSET (Start .. MaxTime)

ASSUME BoundAssumption == MaxTime \in Nat /\ MaxReloads \in Nat /\ Start <= MaxTime

VARIABLES
  policy,      \* the alert's policy
  script_path, \* AlertManager::script_path
  attack,      \* the seconds of the attack
  counted,     \* whether the flow of this second was processed
  ring,        \* the bucket ring the alert is rated by
  alert,       \* the alert's state
  reloads      \* history: the seconds in which a reload took place

daemonVars == <<policy, script_path, attack, counted, ring, alert, reloads>>

vars == <<daemonVars, clock, tasks, metricsVars>>

TypeOK ==
  /\ policy \in Policies
  /\ script_path \in ScriptPath
  /\ attack \in Attacks
  /\ clock \in Start .. MaxTime
  /\ counted \in BOOLEAN
  /\ ring \in Ring(Window)
  /\ alert \in AlertState
  /\ tasks \subseteq Task
  /\ reloads \subseteq Start .. clock
  /\ MetricsTypeOK

-----------------------------------------------------------------------------
OneByte == [bytes |-> 1, packets |-> 1, flows |-> 1]

Init ==
  /\ policy \in Policies
  /\ script_path \in ScriptPath
  /\ attack \in Attacks
  /\ clock = Start
  /\ counted = FALSE
  /\ ring = NewRing(Window)
  /\ alert = Normal
  /\ tasks = {}
  /\ reloads = {}
  /\ MetricsInit(Start)

CountFlow ==
  /\ clock \in attack /\ ~counted
  /\ ring' = AddInstantFlow(Window, ring, clock, OneByte)
  /\ counted' = TRUE
  /\ UNCHANGED <<policy, script_path, attack, alert, reloads, clock, tasks, metricsVars>>

\* One pass of run_ticker up to the end of AlertManager::evaluate.
Evaluate ==
  LET outcome == EvaluateAlert(policy, alert, WindowTotal(Window, ring, clock, "bytes"), clock)
  IN  /\ Evaluated(clock)
      /\ alert' = outcome.state
      /\ IF outcome.action = "none"
         THEN tasks' = tasks
         ELSE \E size \in Sizes : tasks' = tasks \cup ExecuteScript(script_path, clock, size)
      /\ UNCHANGED <<policy, script_path, attack, counted, ring, reloads, clock>>

\* A reload with the configuration unchanged, its script included.
Reload ==
  /\ Cardinality(reloads \ {clock}) < MaxReloads
  /\ ring' = NewRing(Window)
  /\ reloads' = reloads \cup {clock}
  /\ UNCHANGED <<policy, script_path, attack, counted, alert, clock, tasks, metricsVars>>

RunScript ==
  /\ \E task \in tasks : ScriptStep(task)
  /\ UNCHANGED <<daemonVars, clock, metricsVars>>

Publish ==
  /\ PublishSnapshots \/ PublishStates
  /\ UNCHANGED <<daemonVars, clock, tasks>>

Scrape ==
  /\ ReadSnapshots \/ RenderPage
  /\ UNCHANGED <<daemonVars, clock, tasks>>

NextSecond ==
  /\ clock < MaxTime
  /\ clock \in attack => counted
  /\ ticker = "idle"
  /\ \A task \in tasks : ~Due(task)
  /\ clock' = clock + 1
  /\ counted' = FALSE
  /\ ticker' = "due"
  /\ UNCHANGED <<policy, script_path, attack, ring, alert, reloads, tasks>>
  /\ UNCHANGED <<evaluation, snapshots, alert_states, page>>

Next ==
  \/ CountFlow \/ Evaluate \/ Reload \/ RunScript \/ Publish \/ Scrape \/ NextSecond

Spec == Init /\ [][Next]_vars

-----------------------------------------------------------------------------
\* The attack lasted, and no reload came, from `first` seconds ago until now.
Sustained(first) == clock - first .. clock - 1 \subseteq attack

ReloadsSince(first) == {second \in reloads : second >= clock - first}

\* The seconds an attack must fill before a rate is sure to be the peak rate
\* less one second, whether or not the flow of the current second is in.
Filled == Window - 1

\* An alert is pending for one sample before it fires, even without trigger_for.
Hold == IF policy.triggerFor = 0 THEN 1 ELSE policy.triggerFor

(***************************************************************************)
(* An attack that reaches the trigger while one second of the window is    *)
(* still missing has the alert firing once it has filled the window and    *)
(* lasted trigger_for, or a second when that is zero, unless a reload      *)
(* emptied the ring in between; a dip before it or an incident still       *)
(* recovering does not delay it (ring, evaluate and ticker together).      *)
(***************************************************************************)
DetectsInTime ==
  LET span == Hold + Filled
  IN  /\ ticker # "due"
      /\ policy.trigger <= Filled /\ policy.recover <= policy.trigger
      /\ Sustained(span) /\ ReloadsSince(span) = {}
      => alert.tag = "firing"

(***************************************************************************)
(* An alert fires only if in every second of the last trigger_for the      *)
(* window held as many attack seconds as the trigger takes: neither old    *)
(* buckets nor a reload makes up traffic.                                  *)
(***************************************************************************)
FiresOnAttack ==
  [][alert.tag = "pending" /\ alert'.tag = "firing" =>
       \A second \in clock - policy.triggerFor .. clock :
          Cardinality({s \in attack : second - Window < s /\ s <= second})
            >= policy.trigger]_vars

(***************************************************************************)
(* An alert that recovers for at least a window's length rides out a       *)
(* reload: while the attack goes on, the ring fills again before the alert *)
(* resolves.  Only a second reload within that time makes it resolve.      *)
(***************************************************************************)
RidesOutReload ==
  [][alert.tag = "recovering" /\ alert'.tag = "normal" =>
       LET span == policy.recoverFor + Filled
       IN  \/ policy.recover > Filled \/ policy.recoverFor < Window
           \/ ~Sustained(span)
           \/ Cardinality(ReloadsSince(span)) > 1]_vars

Patient ==
  /\ policy.triggerFor >= Timeout /\ policy.recoverFor >= Timeout
  /\ policy.updateInterval > Timeout

(***************************************************************************)
(* When the alert's durations exceed the script timeout, a script runs     *)
(* only after those of all earlier payloads of the alert have ended, so    *)
(* they see fire, update and resolve in order, except for a script whose   *)
(* task gave up on it (its write or the wait failed), cannot finish its    *)
(* write, or finished it late (there is no queue in execute_script; only   *)
(* the timeouts keep the tasks apart).                                     *)
(***************************************************************************)
ScriptsInTurn ==
  Patient =>
    \A earlier, later \in tasks :
       earlier.id < later.id /\ earlier.script = "running" /\ later.script = "running"
         => Unsupervised(earlier) \/ ReadLate(earlier)
=============================================================================
