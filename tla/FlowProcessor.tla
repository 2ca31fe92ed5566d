---------------------------- MODULE FlowProcessor ----------------------------
(***************************************************************************)
(* The flow processor of processor.rs: rules with a prefix, a ring buffer  *)
(* for each (protocol category, direction) that has thresholds, and a      *)
(* bounded buffer of captured flows.  A flow updates every rule it enters  *)
(* or leaves; the alert manager drains captured flows; a reload starts all *)
(* rules afresh.                                                           *)
(*                                                                         *)
(* A prefix is the set of addresses it covers; the lookup table of         *)
(* networks is represented by asking each rule.  Flows arrive in the order *)
(* of their seconds here; SlidingWindow treats the late ones.  A window of *)
(* zero seconds at the start makes rings without buckets, and the first    *)
(* flow to be counted in one ends the task.  log and drainedTo are history *)
(* variables.                                                              *)
(***************************************************************************)
EXTENDS RingBuffer, Configuration, FiniteSets

CONSTANTS
  Addr,      \* addresses
  Traffic,   \* the flows that may arrive, each with its second
  PolicyName, ExporterName,
  Configs,   \* the configurations a file may hold
  Scopes,    \* the (prefix, direction) pairs the alert manager drains
  Start,     \* the first second of the run
  MaxTime,   \* bound on the seconds
  MaxFlows   \* bound on the flows between two reloads

ASSUME TrafficAssumption == Traffic \subseteq FlowRecord(Addr)

ASSUME ConfigsAssumption ==
  \A c \in Configs : IsConfig(c, Addr, PolicyName, ExporterName)

ASSUME ScopesAssumption ==
  Scopes \subseteq [prefix : SUBSET Addr, direction : Direction]

ASSUME TimeAssumption ==
  /\ Start \in Nat /\ MaxTime \in Nat /\ MaxFlows \in Nat
  /\ Start <= MaxTime
  /\ \A c \in Configs : c.window <= Start

VARIABLES
  config,     \* the configuration last loaded, which the alert manager has too
  rules,      \* FlowProcessor::rules
  window,     \* FlowProcessor::window_secs
  running,    \* does the task that takes the flows run
  clock,      \* the second of the newest flow
  log,        \* history: the flows since the last reload
  drainedTo   \* history: for each scope, the length of log when last drained

vars == <<config, rules, window, running, clock, log, drainedTo>>

CapturedFlow == [n : Nat, direction : Direction]

TypeOK ==
  /\ config \in Configs
  /\ window \in Nat /\ running \in BOOLEAN
  /\ clock \in Start .. MaxTime
  /\ \A i \in DOMAIN rules :
       /\ rules[i].prefix \subseteq Addr
       /\ DOMAIN rules[i].buffers \subseteq BufferKey
       /\ \A key \in DOMAIN rules[i].buffers : rules[i].buffers[key] \in Ring(window)
       /\ rules[i].capture \in Seq(CapturedFlow)
  /\ log \in Seq(FlowRecord(Addr))
  /\ drainedTo \in [Scopes -> Nat]

-----------------------------------------------------------------------------
\* What one flow adds to a bucket.
Volume(flow) ==
  [bytes |-> SampledBytes(flow), packets |-> SampledPackets(flow), flows |-> 1]

\* ProcessedRule::from_config
FromConfig(rule, seconds, size) ==
  [prefix      |-> rule.prefix,
   buffers     |-> [key \in BufferKeys(rule) |-> NewRing(seconds)],
   capture     |-> <<>>,
   captureSize |-> size]

RulesOf(c, seconds) ==
  [i \in DOMAIN c.rules |-> FromConfig(c.rules[i], seconds, c.capture_buffer_size)]

\* Mutant of MatchingRules: a second rule of a prefix replaces the first.
MatchingLastRule(ip) ==
  {i \in DOMAIN rules :
     /\ ip \in rules[i].prefix
     /\ \A j \in DOMAIN rules : rules[j].prefix = rules[i].prefix => j <= i}

MatchingRules(ip) == {i \in DOMAIN rules : ip \in rules[i].prefix}

\* A flow within a prefix updates nothing; one that enters is inbound, one
\* that leaves is outbound.
Updates(flow) ==
  LET srcRules == MatchingRules(flow.src_ip)
      dstRules == MatchingRules(flow.dst_ip)
  IN       {<<i, "inbound">> : i \in dstRules \ srcRules}
      \cup {<<i, "outbound">> : i \in srcRules \ dstRules}

HasBuffers(rule, direction) ==
  \E key \in DOMAIN rule.buffers : key.direction = direction

\* The oldest captured flow makes room when the buffer is full.
PushCaptured(rule, captured) ==
  LET full == Len(rule.capture) >= rule.captureSize /\ rule.capture # <<>>
  IN  Append(IF full THEN Tail(rule.capture) ELSE rule.capture, captured)

\* The direction, if any, in which a rule takes a flow.
TakenIn(i, flow) ==
  {d \in Direction : <<i, d>> \in Updates(flow) /\ HasBuffers(rules[i], d)}

\* The rule with the flow, the n-th, in its capture buffer.
WithCaptured(i, flow, n) ==
  [rules[i] EXCEPT !.capture = PushCaptured(rules[i],
     [n |-> n, direction |-> CHOOSE d \in TakenIn(i, flow) : TRUE])]

\* The rings of a rule that count a flow.
CountedIn(i, flow) ==
  {key \in DOMAIN rules[i].buffers :
     key.direction \in TakenIn(i, flow) /\ key.protocol \in Classify(flow)}

\* The rings of a rule after a flow.
WithCounted(i, flow) ==
  [key \in DOMAIN rules[i].buffers |->
     IF key \in CountedIn(i, flow)
     THEN AddInstantFlow(window, rules[i].buffers[key], flow.time_received, Volume(flow))
     ELSE rules[i].buffers[key]]

Init ==
  /\ config \in Configs
  /\ Validate(config)
  /\ window = config.window /\ running = TRUE
  /\ rules = RulesOf(config, window)
  /\ clock = Start
  /\ log = <<>>
  /\ drainedTo = [scope \in Scopes |-> 0]

\* The processor task takes a flow.
ProcessFlow(flow) ==
  /\ running /\ Len(log) < MaxFlows
  /\ flow.time_received \in clock .. MaxTime
  /\ window = 0 => \A i \in DOMAIN rules : CountedIn(i, flow) = {}
  /\ rules' = [i \in DOMAIN rules |->
       IF TakenIn(i, flow) = {}
       THEN rules[i]
       ELSE [WithCaptured(i, flow, Len(log) + 1) EXCEPT !.buffers = WithCounted(i, flow)]]
  /\ clock' = flow.time_received
  /\ log' = Append(log, flow)
  /\ UNCHANGED <<config, window, running, drainedTo>>

\* bucket_index divides by the length of a ring: without buckets, the first
\* rule that counts the flow ends the task, and it and those reached before it
\* have captured the flow.  The loop takes the rules in the order of the table.
EndTask(flow) ==
  /\ running /\ Len(log) < MaxFlows
  /\ flow.time_received \in clock .. MaxTime
  /\ window = 0
  /\ \E reached \in SUBSET {i \in DOMAIN rules : TakenIn(i, flow) # {}} :
       /\ Cardinality({i \in reached : CountedIn(i, flow) # {}}) = 1
       /\ rules' = [i \in DOMAIN rules |->
            IF i \in reached THEN WithCaptured(i, flow, Len(log) + 1) ELSE rules[i]]
  /\ clock' = flow.time_received
  /\ running' = FALSE
  /\ UNCHANGED <<config, window, log, drainedTo>>

\* Mutant of Kept: the drain empties the buffer in both directions.
KeptNothing(captures, direction) == <<>>

\* What a drain of the direction leaves of the captured flows, in order.
Kept(captures, direction) ==
  LET kept[n \in 0 .. Len(captures)] ==
        IF n = 0 THEN <<>>
        ELSE IF captures[n].direction = direction THEN kept[n - 1]
        ELSE Append(kept[n - 1], captures[n])
  IN  kept[Len(captures)]

\* Every rule of the prefix hands its captured flows of the direction over.
DrainCapturedFlows(scope) ==
  /\ rules' = [i \in DOMAIN rules |->
       IF rules[i].prefix = scope.prefix
       THEN [rules[i] EXCEPT !.capture = Kept(@, scope.direction)]
       ELSE rules[i]]
  /\ drainedTo' = [drainedTo EXCEPT ![scope] = Len(log)]
  /\ UNCHANGED <<config, window, running, clock, log>>

\* Mutant of ReloadConfig: the rings are built with the window as configured.
ReloadConfigAsGiven(new) ==
  /\ Validate(new)
  /\ config' = new
  /\ window' = IF new.window > 0 THEN new.window ELSE window
  /\ rules' = RulesOf(new, new.window)
  /\ log' = <<>>
  /\ drainedTo' = [scope \in Scopes |-> 0]
  /\ UNCHANGED <<running, clock>>

\* A configuration whose window is below a second keeps the old window; one
\* that is not valid, or has a prefix that does not parse, changes nothing.
ReloadConfig(new) ==
  /\ Validate(new)
  /\ config' = new
  /\ window' = IF new.window > 0 THEN new.window ELSE window
  /\ rules' = RulesOf(new, window')
  /\ log' = <<>>
  /\ drainedTo' = [scope \in Scopes |-> 0]
  /\ UNCHANGED <<running, clock>>

Next ==
  \/ \E flow \in Traffic : ProcessFlow(flow) \/ EndTask(flow)
  \/ \E scope \in Scopes : DrainCapturedFlows(scope)
  \/ \E new \in Configs : ReloadConfig(new)

Spec == Init /\ [][Next]_vars

-----------------------------------------------------------------------------
\* The direction in which a logged flow passes a prefix, by its endpoints.
Enters(flow, prefix) == flow.dst_ip \in prefix /\ flow.src_ip \notin prefix
Leaves(flow, prefix) == flow.src_ip \in prefix /\ flow.dst_ip \notin prefix

Passes(flow, prefix, direction) ==
  IF direction = "inbound" THEN Enters(flow, prefix) ELSE Leaves(flow, prefix)

\* What the exporter saw for each sampled flow.
Measured(flow, m) ==
  CASE m = "bytes"   -> flow.bytes * flow.sampling_rate
    [] m = "packets" -> flow.packets * flow.sampling_rate
    [] m = "flows"   -> 1

\* The traffic of a category that passed a prefix in the window up to now.
TrueTraffic(prefix, key, now, m) ==
  SumFunction([n \in DOMAIN log |->
     IF /\ Passes(log[n], prefix, key.direction)
        /\ key.protocol \in Classify(log[n])
        /\ now - log[n].time_received < window
     THEN Measured(log[n], m)
     ELSE 0])

RateSnapshot(i, key, now) ==
  [prefix |-> rules[i].prefix, key |-> key,
   total  |-> [m \in Measure |-> WindowTotal(window, rules[i].buffers[key], now, m)]]

ComputeAllRates(now) ==
  UNION {{RateSnapshot(i, key, now) : key \in DOMAIN rules[i].buffers} : i \in DOMAIN rules}

(***************************************************************************)
(* compute_all_rates answers, for every rule and every category and        *)
(* direction it has a threshold for, the traffic of the last window that   *)
(* entered (left) the prefix since the last reload, whatever other rules   *)
(* overlap or repeat the prefix.  Two rules of one prefix therefore answer *)
(* alike, which is why find_rate may take the first.                       *)
(***************************************************************************)
RatesAreTraffic ==
  \A now \in clock .. MaxTime : \A snapshot \in ComputeAllRates(now) :
     \A m \in Measure :
        snapshot.total[m] = TrueTraffic(snapshot.prefix, snapshot.key, now, m)

(***************************************************************************)
(* Every alert that the alert manager makes of the configuration finds its *)
(* rate among the snapshots, one that does not depend on which of several  *)
(* rules of its prefix comes first; find_rate would take a missing one for *)
(* no traffic (from_config, reload_config and find_rate agree).            *)
(***************************************************************************)
EveryAlertIsRated ==
  LET snapshots == ComputeAllRates(clock)
  IN  \A alert \in AlertsOf(config) :
        Cardinality({snapshot.total : snapshot \in
          {s \in snapshots : s.prefix = alert.prefix /\ s.key = alert.key}}) = 1

\* The flows a rule should have captured, as positions in log.
Capturable(i) ==
  {n \in DOMAIN log : \E d \in Direction :
     HasBuffers(rules[i], d) /\ Passes(log[n], rules[i].prefix, d)}

DirectionOf(i, n) ==
  IF Enters(log[n], rules[i].prefix) THEN "inbound" ELSE "outbound"

ScopeOf(i, n) == [prefix |-> rules[i].prefix, direction |-> DirectionOf(i, n)]

Undrained(i) ==
  {n \in Capturable(i) : ScopeOf(i, n) \in Scopes => n > drainedTo[ScopeOf(i, n)]}

CapturedBy(i) == {rules[i].capture[k].n : k \in DOMAIN rules[i].capture}

(***************************************************************************)
(* While the task runs, a rule's capture buffer holds, in arrival order    *)
(* and no more of them than capture_buffer_size, only flows that passed    *)
(* its prefix and were not yet drained in their direction; one is missing  *)
(* only when as many newer ones of either direction as the buffer holds    *)
(* have arrived (process_flow, drain_captured_flows).  A size of zero is   *)
(* excluded: the code then holds one flow all the same.                    *)
(***************************************************************************)
CaptureIsRecent ==
  running => \A i \in DOMAIN rules :
     LET capture == rules[i].capture
         size    == rules[i].captureSize
     IN  size > 0 =>
           /\ Len(capture) <= size
           /\ \A k \in DOMAIN capture :
                /\ capture[k].n \in Undrained(i)
                /\ capture[k].direction = DirectionOf(i, capture[k].n)
                /\ k > 1 => capture[k - 1].n < capture[k].n
           /\ \A n \in Undrained(i) \ CapturedBy(i) :
                Cardinality({m \in Capturable(i) : m > n}) >= size

(***************************************************************************)
(* What README.md says of directions, "inbound (destination IP matches     *)
(* prefix)": the inbound traffic of a rule is that of all flows to its     *)
(* prefix (process_flow).                                                  *)
(***************************************************************************)
InboundByDestination ==
  \A snapshot \in ComputeAllRates(clock) :
     snapshot.key = [protocol |-> "any", direction |-> "inbound"] =>
       snapshot.total["flows"] = Cardinality({n \in DOMAIN log :
         log[n].dst_ip \in snapshot.prefix /\ clock - log[n].time_received < window})
=============================================================================
