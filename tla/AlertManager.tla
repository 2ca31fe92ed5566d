---------------------------- MODULE AlertManager ----------------------------
(***************************************************************************)
(* All alert instances together: AlertManager::evaluate, run by the ticker *)
(* under the manager's lock, and AlertManager::reload_config, run on       *)
(* SIGHUP under the same lock.  A tick advances every instance, gives each *)
(* new incident a fresh identifier and drains the flows captured for the   *)
(* scopes it analyses; a reload rebuilds the instances and carries their   *)
(* state over by key.                                                      *)
(*                                                                         *)
(* A key is (prefix, protocol, direction, metric), its scope the (prefix,  *)
(* direction) the processor captures flows for.  opened, closed, abandoned *)
(* and analysed are history variables.                                     *)
(***************************************************************************)
EXTENDS AlertInstance, Sequences, FiniteSets

CONSTANTS
  Key, Scope,
  ScopeOf,   \* the scope of each key
  Script,    \* alert scripts a configuration may name
  NoScript,
  Configs,   \* what Config::load may return, flattened to alerts in order
  Rate, Gap,
  MaxTicks,  \* bound on the evaluations
  MaxFlows   \* bound on the flows captured

Spot == [key : Key, policy : Policy]

ASSUME ScopeAssumption == ScopeOf \in [Key -> Scope]

ASSUME ConfigsAssumption ==
  Configs \subseteq [script : Script \cup {NoScript}, alerts : Seq(Spot)]

ASSUME SampleAssumption == Rate \subseteq Nat /\ Gap \subseteq Nat

ASSUME BoundAssumption == MaxTicks \in Nat /\ MaxFlows \in Nat

VARIABLES
  alerts,     \* AlertManager::alerts
  script,     \* AlertManager::script_path
  now,        \* the instant of the last evaluation
  ticks,      \* evaluations so far
  captured,   \* the flows in the processor's capture buffers, by scope
  sent,       \* the payloads of the last step
  flows,      \* number of flows captured so far
  opened,     \* history: the incidents that fired, [identifier, key of the alert]
  closed,     \* history: the identifiers of those that were resolved
  abandoned,  \* history: the identifiers of those whose key a reload removed
  analysed    \* history: the flows analysed so far, by scope

vars == <<alerts, script, now, ticks, captured, sent, flows,
          opened, closed, abandoned, analysed>>

\* Uuid::new_v4 never returns a value twice; the identifier drawn in a tick
\* for the alert at a position is named after both.
Id == Nat \X Nat

NilId == <<0, 0>>

\* Mutant of FreshId: all alerts that fire in a tick share one identifier.
FreshIdPerTick(tick, position) == <<tick, 1>>

FreshId(tick, position) == <<tick, position>>

Instance == [key : Key, policy : Policy, state : AlertState, id : Id]

Flow == 1 .. MaxFlows

Payload == [key : Key, id : Id, action : AlertAction, flows : SUBSET Flow]

Incident == [id : Id, key : Key]

\* The identifiers in use, now or earlier.
issued == {incident.id : incident \in opened}

Active(alert) == alert.state.tag \in {"firing", "recovering"}

TypeOK ==
  /\ alerts \in Seq(Instance)
  /\ script \in Script \cup {NoScript}
  /\ now \in Nat /\ ticks \in 0 .. MaxTicks /\ flows \in 0 .. MaxFlows
  /\ captured \in [Scope -> SUBSET Flow] /\ analysed \in [Scope -> SUBSET Flow]
  /\ sent \subseteq Payload
  /\ opened \subseteq Incident /\ closed \subseteq Id /\ abandoned \subseteq Id

\* add_metric_alerts
NewAlert(spot) ==
  [key |-> spot.key, policy |-> spot.policy, state |-> Normal, id |-> NilId]

Init ==
  /\ \E config \in Configs :
       /\ alerts = [i \in DOMAIN config.alerts |-> NewAlert(config.alerts[i])]
       /\ script = config.script
  /\ now = 0 /\ ticks = 0 /\ flows = 0
  /\ captured = [s \in Scope |-> {}] /\ analysed = [s \in Scope |-> {}]
  /\ sent = {} /\ opened = {} /\ closed = {} /\ abandoned = {}

-----------------------------------------------------------------------------
\* The keys of a sequence of alerts, instances or not.
KeysOf(list) == {list[i].key : i \in DOMAIN list}

\* evaluate's outcome for the alert at a position, at instant t.
OutcomeAt(rates, t, i) ==
  EvaluateAlert(alerts[i].policy, alerts[i].state, rates[alerts[i].key], t)

\* Mutant of Advanced: every notice draws an identifier, not only a fire.
AdvancedAlwaysFresh(rates, t, i) ==
  LET outcome == OutcomeAt(rates, t, i)
  IN  [alerts[i] EXCEPT
         !.state = outcome.state,
         !.id    = IF outcome.action = "none" THEN @ ELSE FreshId(ticks + 1, i)]

\* The alert after its evaluation.
Advanced(rates, t, i) ==
  LET outcome == OutcomeAt(rates, t, i)
  IN  [alerts[i] EXCEPT
         !.state = outcome.state,
         !.id    = IF outcome.action = "fire" THEN FreshId(ticks + 1, i) ELSE @]

\* The positions that answer with one of the actions.
Answering(rates, t, actions) ==
  {i \in DOMAIN alerts : OutcomeAt(rates, t, i).action \in actions}

-----------------------------------------------------------------------------
(* The loop of a tick carries the capture buffers of the processor and the  *)
(* map `drained` of what was taken out of them from alert to alert.         *)

\* The map with one more entry.
With(map, s, value) ==
  [x \in DOMAIN map \cup {s} |-> IF x = s THEN value ELSE map[x]]

\* Mutant of DrainCapturedFlows: the buffers are read but not emptied.
CopyCapturedFlows(buffers, s) == buffers

\* FlowProcessor::drain_captured_flows, as far as the buffers go.
DrainCapturedFlows(buffers, s) == [buffers EXCEPT ![s] = {}]

\* Mutant of DrainOnce: every alert drains, whatever was drained before.
DrainForEach(loop, s) ==
  [captured |-> DrainCapturedFlows(loop.captured, s),
   drained  |-> With(loop.drained, s, loop.captured[s])]

\* The entry of a scope in `drained`; the first alert that asks drains for it.
DrainOnce(loop, s) ==
  IF s \in DOMAIN loop.drained
  THEN loop
  ELSE [captured |-> DrainCapturedFlows(loop.captured, s),
        drained  |-> With(loop.drained, s, loop.captured[s])]

NothingDrained == [captured |-> captured, drained |-> [s \in {} |-> {}]]

\* The loop after the alert at a position: only a fire or an update asks.
AfterAlert(loop, rates, t, i) ==
  IF i \in Answering(rates, t, {"fire", "update"})
  THEN DrainOnce(loop, ScopeOf[alerts[i].key])
  ELSE loop

Loop(rates, t) ==
  LET after[n \in 0 .. Len(alerts)] ==
        IF n = 0 THEN NothingDrained ELSE AfterAlert(after[n - 1], rates, t, n)
  IN  after

\* The flows analysed for the alert at a position.
FlowsFor(loop, rates, t, i) ==
  IF i \in Answering(rates, t, {"fire", "update"})
  THEN loop[i].drained[ScopeOf[alerts[i].key]]
  ELSE {}

PayloadFor(loop, rates, t, i) ==
  [key |-> alerts[i].key, id |-> Advanced(rates, t, i).id,
   action |-> OutcomeAt(rates, t, i).action, flows |-> FlowsFor(loop, rates, t, i)]

\* One tick: every alert is evaluated at the same instant.
Evaluate(rates, gap) ==
  LET t    == now + gap
      loop == Loop(rates, t)
  IN  /\ ticks < MaxTicks
      /\ now' = t
      /\ ticks' = ticks + 1
      /\ alerts' = [i \in DOMAIN alerts |-> Advanced(rates, t, i)]
      /\ sent' = {PayloadFor(loop, rates, t, i) :
                    i \in Answering(rates, t, {"fire", "update", "resolve"})}
      /\ captured' = loop[Len(alerts)].captured
      /\ opened' = opened \cup
           {[id |-> Advanced(rates, t, i).id, key |-> alerts[i].key] :
              i \in Answering(rates, t, {"fire"})}
      /\ closed' = closed \cup {alerts[i].id : i \in Answering(rates, t, {"resolve"})}
      /\ analysed' = [s \in Scope |->
           analysed[s] \cup UNION {p.flows : p \in {q \in sent' : ScopeOf[q.key] = s}}]
      /\ UNCHANGED <<script, flows, abandoned>>

\* Two alerts of one key are evaluated on one rate.
Tick == \E rates \in [KeysOf(alerts) -> Rate], gap \in Gap : Evaluate(rates, gap)

-----------------------------------------------------------------------------
\* `previous` is collected into a map: of two alerts with one key the last stays.
PreviousFor(k) ==
  CHOOSE i \in DOMAIN alerts :
    /\ alerts[i].key = k
    /\ \A j \in DOMAIN alerts : alerts[j].key = k => j <= i

\* Mutant of TakesOver: the old state is taken by position, not by key.
TakesOverByPosition(spots, i) ==
  i \in DOMAIN alerts /\ spots[i].key = alerts[i].key

\* previous.remove: only the first new alert of a key takes the old state.
TakesOver(spots, i) ==
  /\ spots[i].key \in KeysOf(alerts)
  /\ \A j \in DOMAIN spots : spots[j].key = spots[i].key => i <= j

\* Mutant of CarriedOver: the old alert is found by position.
CarriedOverByPosition(spots, i) ==
  IF TakesOver(spots, i) /\ i \in DOMAIN alerts
  THEN [NewAlert(spots[i]) EXCEPT !.state = alerts[i].state, !.id = alerts[i].id]
  ELSE NewAlert(spots[i])

CarriedOver(spots, i) ==
  IF TakesOver(spots, i)
  THEN [NewAlert(spots[i]) EXCEPT
          !.state = alerts[PreviousFor(spots[i].key)].state,
          !.id    = alerts[PreviousFor(spots[i].key)].id]
  ELSE NewAlert(spots[i])

\* A configuration without alert_script leaves the script of an earlier one.
ReloadConfig(config) ==
  /\ alerts' = [i \in DOMAIN config.alerts |-> CarriedOver(config.alerts, i)]
  /\ script' = IF config.script = NoScript THEN script ELSE config.script
  /\ sent' = {}
  /\ abandoned' = abandoned \cup
       {alerts[i].id : i \in {j \in DOMAIN alerts :
          Active(alerts[j]) /\ alerts[j].key \notin KeysOf(config.alerts)}}
  /\ UNCHANGED <<now, ticks, captured, flows, opened, closed, analysed>>

Reload == \E config \in Configs : ReloadConfig(config)

\* FlowProcessor::process_flow captures a flow for the scopes it belongs to.
Capture(scopes) ==
  /\ flows < MaxFlows
  /\ flows' = flows + 1
  /\ captured' = [s \in Scope |->
       IF s \in scopes THEN captured[s] \cup {flows + 1} ELSE captured[s]]
  /\ UNCHANGED <<alerts, script, now, ticks, sent, opened, closed, abandoned, analysed>>

\* FlowProcessor::reload_config starts with new, empty capture buffers.
ForgetCaptured ==
  /\ captured' = [s \in Scope |-> {}]
  /\ UNCHANGED <<alerts, script, now, ticks, sent, flows,
                 opened, closed, abandoned, analysed>>

Next ==
  \/ Tick
  \/ Reload
  \/ \E scopes \in (SUBSET Scope) \ {{}} : Capture(scopes)
  \/ ForgetCaptured

Spec == Init /\ [][Next]_vars

-----------------------------------------------------------------------------
\* No two alerts of the manager, or of a configuration, have one key.
DistinctKeys(list) ==
  \A i, j \in DOMAIN list : list[i].key = list[j].key => i = j

(***************************************************************************)
(* What the comment on reload_config says: a reload does not orphan a      *)
(* firing alert.  Every incident that was opened and neither resolved nor  *)
(* dropped with its key is still held by an active alert, the only thing   *)
(* that can send its resolve.                                              *)
(***************************************************************************)
NoOrphan ==
  \A id \in issued \ (closed \cup abandoned) :
     \E i \in DOMAIN alerts : Active(alerts[i]) /\ alerts[i].id = id

(***************************************************************************)
(* An active alert, and no other, holds the identifier of an incident that *)
(* was neither resolved nor abandoned, and that was opened for the alert's *)
(* own key and no other: updates and resolves never name a dead or a       *)
(* foreign incident, whatever reloads reorder, drop or add, even when a    *)
(* configuration repeats a key (evaluate, reload_config).                  *)
(***************************************************************************)
ActiveHoldsOwn ==
  \A i \in DOMAIN alerts : Active(alerts[i]) =>
     /\ alerts[i].id \notin closed \cup abandoned
     /\ {incident \in opened : incident.id = alerts[i].id}
          = {[id |-> alerts[i].id, key |-> alerts[i].key]}
     /\ \A j \in DOMAIN alerts : Active(alerts[j]) /\ alerts[j].id = alerts[i].id => j = i

(***************************************************************************)
(* All alerts of a scope that fire or update in one tick analyse the same  *)
(* flows, all that were captured for the scope before the tick, whichever  *)
(* of them drains the buffer; and no flow leaves a buffer unanalysed       *)
(* (the loop of evaluate and its map `drained`; the test                   *)
(* concurrent_alerts_share_captured_flows).                                *)
(***************************************************************************)
AnalysedTogether ==
  [][Tick =>
       /\ \A p \in sent' : p.action \in {"fire", "update"} =>
            p.flows = captured[ScopeOf[p.key]]
       /\ \A s \in Scope :
            captured[s] \ captured'[s] \subseteq UNION {p.flows : p \in
              {q \in sent' : ScopeOf[q.key] = s}}]_vars

(***************************************************************************)
(* No flow is analysed for a scope in two ticks: a buffer that was drained *)
(* holds only flows captured later (evaluate, drain_captured_flows).       *)
(***************************************************************************)
AnalysedOnce == \A s \in Scope : captured[s] \cap analysed[s] = {}

-----------------------------------------------------------------------------
\* The incident of each key: that of its active alert.
IncidentOf(k) ==
  IF \E i \in DOMAIN alerts : Active(alerts[i]) /\ alerts[i].key = k
  THEN alerts[CHOOSE i \in DOMAIN alerts : Active(alerts[i]) /\ alerts[i].key = k].id
  ELSE NilId

Incidents == INSTANCE AlertIncidents WITH
  Id         <- Id \ {NilId},
  NoIncident <- NilId,
  configured <- KeysOf(alerts),
  incident   <- [k \in Key |-> IncidentOf(k)],
  notices    <- {[key |-> p.key, action |-> p.action, id |-> p.id] : p \in sent}

(***************************************************************************)
(* The alert manager keeps the contract of AlertIncidents with the alert   *)
(* script, whatever the rates, ticks and reloads: one fire, updates and    *)
(* one resolve per incident, all under its own identifier.                 *)
(***************************************************************************)
KeepsContract == Incidents!Spec
=============================================================================
