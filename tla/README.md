# NetAlert: specifications, model checking and proofs

NetAlert is a daemon that receives NetFlow and sFlow records, keeps per-second
traffic sums for the prefixes of its rules, runs an alert state machine for every
threshold, and calls a script when an alert fires, has to be re-analysed or is over.
This directory specifies it in TLA+, checks the specifications with TLC and proves
theorems about them with TLAPS. Paths are relative to the repository (`src/` here is
the directory that holds the crate, so the Rust files are `src/src/*.rs`).

## Inventory

| Component | State | Operations | What is hard | What makes it correct |
| --- | --- | --- | --- | --- |
| Ring buffer (`ring_buffer.rs`) | one bucket per second of the window, each stamped with its second | record a flow, sum the window | buckets are reused; flows come late; the reader's clock may be behind the writer's | sums are those of the window, nothing forgotten, nothing left over |
| Alert state machine (`alert.rs`, `AlertInstance`) | `AlertState` with one instant | `evaluate` | one instant stands for a run of samples; it survives dips, recoveries and reloads | fires, resolves and updates neither early nor late |
| Alert manager (`alert.rs`, `AlertManager`) | all instances, their identifiers, the script path | `evaluate`, `reload_config` | states carried over by key; several alerts fire in one tick and share captured flows | each incident has one identifier, one trigger and one resolve; flows are analysed together and once |
| Flow processor (`processor.rs`, `ProtocolCategory::classify`) | rules with rings and capture buffers, a prefix table | `process_flow`, `drain_captured_flows`, `compute_all_rates`, `reload_config` | nested and repeated prefixes, direction, categories, eviction | rates are the traffic that entered or left the prefix; captures are the most recent |
| Tasks, channel, locks (`main.rs`) | bounded channel, processor lock, alert lock, health counters, sampling rates | receive, process, tick, reload on SIGHUP | four kinds of tasks interleave; two locks are nested; reload has three steps and may fail after the first | no flow vanishes uncounted, no deadlock, alerts meet the rates of their own configuration, the last configuration wins |
| Mitigation analysis (`mitigation.rs`) | none, pure | `analyze_flows` | greedy selection, narrowing of destinations, coverage | a rule drops the traffic it was made for, as precisely as the traffic allows, and none the alert is not about |
| Script runner (`alert.rs`, `execute_script`) | one task and one process per payload | spawn, write, wait, kill | no order between scripts, time limit on part of the work | scripts of one alert run in the order of their payloads |
| Metrics endpoint (`prometheus.rs`) | published snapshots and states under a lock each | publish, scrape | two locks, a scrape in between | a page mixes at most two consecutive evaluations, and never rates with later states |
| Configuration (`config.rs`) | none | `load`, `validate` | what validation lets through | every alert made of a file has a ring made of the same file |
| Flow record (`flow.rs`) | none | conversion, sampled volumes | defaults, overridden sampling rates | volumes are those of the exporter |
| Command line, logging, packaging | none | | | |

Interaction: receivers send flow records through the channel to the processor task,
which calls the flow processor under the processor lock. The ticker computes rates
under that lock and, still holding it, evaluates the alert manager under the alert lock;
the manager drains capture buffers from the flow processor, calls the mitigation
analysis and hands payloads to the script runner. The ticker then publishes for the
metrics endpoint. SIGHUP makes the main task load the configuration and replace
sampling rates, rules and alerts, each under its own lock.

`PROJECT.json` lists the hazards at their lines with the properties that watch them.

## Modules

`RingBuffer`, `AlertInstance`, `FlowRecords` and `Configuration` have no variables: they are
the values and functions of the code, shared by the state machines above them.

    RingBuffer     <- SlidingWindow    <- MCSlidingWindow,    SlidingWindow_proofs
    AlertInstance  <- AlertHysteresis  <- MCAlertHysteresis,  AlertHysteresis_proofs
                   <- AlertManager     <- MCAlertManager,     AlertManager_proofs
    AlertIncidents <- (INSTANCE) AlertManager
    FlowRecords    <- Configuration
    RingBuffer, Configuration  <- FlowProcessor <- MCFlowProcessor, FlowProcessor_proofs
    FlowRecords    <- Mitigation       <- MCMitigation,       Mitigation_proofs
    RingBuffer, AlertInstance, ScriptRunner, Metrics
                   <- AttackResponse   <- MCAttackResponse,   AttackResponse_proofs
    Daemon         <- MCDaemon,         Daemon_proofs
    RingBuffer, AlertInstance <- CodeLemmas <- all proofs but those of Daemon

**RingBuffer, SlidingWindow.** A ring is a function from indices to buckets;
`AddInstantFlow`, `GetOrResetBucket` and `WindowTotal` are the methods of the same names
(`compute_rates` without its constant factors: division by the window, 8 bits a byte).
`SlidingWindow` records flows in any order within `Lag` seconds of the newest and keeps,
as history, what was really received in each second. The channel is FIFO and receivers
stamp a flow before they send it, so lateness comes only from two receivers overtaking
each other or a clock stepped back; a backlog delays all flows alike. `Lag` may exceed the
window: such a flow takes its bucket away from a newer second. `displaced` remembers the
seconds so far of that bucket, the only ones whose sum may be too small afterwards.

**AlertInstance, AlertHysteresis.** `EvaluateAlert` is `AlertInstance::evaluate`, a
function of policy, state, rate and instant. `AlertHysteresis` samples one instance at
irregular instants (ticks may come late or in bursts, even at one instant) and lets a
reload change its policy while the state carries over. History variables remember when
the current run of samples above trigger (below recover) began.

**AlertManager, AlertIncidents.** `AlertManager` holds all instances in the order of the
configuration. `Evaluate` is one whole tick: every alert is advanced at one instant, each
that fires gets a fresh identifier (named after tick and position, since `Uuid::new_v4`
never repeats), and the payloads are produced. `Loop` carries the capture buffers and the
map `drained` from alert to alert, as the code's loop does: the first alert of a scope that
asks drains its buffer (`DrainOnce`), later ones find what it took. `opened` records each
incident with the key it was opened for. `find_rate` depends on the key only, so rates are any function of the key;
`FlowProcessor` shows that repeated rules answer alike. `ReloadConfig` rebuilds the alerts:
the old states are collected by key, the last one staying, and the first new alert of a
key takes it. A configuration is already flattened to its alerts in order, with the
policy each gets. `AlertIncidents` is the contract with the script, with no timers: per
key an incident opens under an unused identifier, its updates and its resolve carry it,
and only the configuration can withdraw it silently. The refinement mapping takes the
identifier of the active alert of each key.

**FlowRecords, Configuration.** A flow record is what `from_common_flow` makes of a decoded
flow, with zero for what is missing; one without a receive time makes the receiver panic and
yields no record (`Converts`). An optional value is the set of what it holds, and a
TCP flag byte the set of its flags. The receivers' override of the sampling rate is here
too. `IsConfig` is the type serde gives a file, `Validate` what `Config::validate` asks of
it, and `BufferKeys`, `AlertsOf` and `ExporterSamplingRates` what the processor, the alert
manager and the receivers each make of it. Volumes are unbounded here: the 64-bit product
overflows only when the bytes of one record times its sampling rate exceed 2^64.

**FlowProcessor.** A prefix is the set of addresses it covers. `ProcessFlow` is the whole
handler: matching rules, direction (traffic within a prefix is skipped), the check for any
buffer in the direction, the capture buffer with its eviction, and the rings of the
categories. A window of zero seconds, which the start accepts, makes rings without buckets,
and the first flow to be counted ends the task (`EndTask`). A configuration is one of
`Configuration`; a reload with one that is not valid
is refused. The configuration last loaded is kept as a variable so that the alerts made of
it can be compared with the rates. A configuration whose prefix does not parse leaves the processor as it was,
which is no step here; `Daemon` follows it through the reload.

**Daemon.** Flows are counted; sampling rates, rules and alerts carry the version of the
configuration they were made of. A tokio lock is the queue of
tasks that asked for it, first come first served, its head being the holder; a critical
section that awaits nothing is one step, and the ticker's, which awaits the second lock,
is two. A window below one second gives rings without buckets: the first flow that
matches a rule then panics the processor task, which frees the lock and closes the
channel.

**Mitigation.** `analyze_flows` as a state machine with one action per iteration of its
loop. A pattern is a function from its fields to values; `BestCandidates` answers all the
patterns `find_best_candidate` may choose, since ties within one set of fields are broken by
the order of a hash map. Ratios the code computes in floating point are compared as products
of integers. `ComputeDestinationPrefix` walks halves of prefixes of `Bits`-bit addresses, as
a recursive function. Flows are a set: equal records count as one of their joint volume.
The limit of ten rules is the constant `MaxRules`. What a router does with a rule
(`RuleMatches`) follows BGP Flow Spec: every component that is present has to match and the
listed flags have to be set. `basis` remembers the pattern of each rule and the flows it was
found in.

**ScriptRunner.** A task per payload: spawn the script, write the payload, wait, kill at the
timeout; without a script there is no task. Spawning, writing and waiting may fail, upon
which the task ends and leaves the process to itself; a script exits when it likes and may
never read. A payload is small (it fits the
pipe, so writing it never waits) or large.

**Metrics.** Published rates and alert states are represented by the second of their
evaluation. The ticker replaces one after the other; the server thread takes the two read
locks one after the other and keeps the first while it waits for the second, so the ticker
cannot replace the rates under a page.

**AttackResponse.** One ring, one alert, its scripts, the published page and reloads under
one clock. The alert is evaluated on the sum the ring holds, so what a reload or an old
bucket does to the ring reaches the alert and its scripts. A second ends only when its flow,
its tick and every script step that is due are done: promptness is the assumption here,
while `Daemon` treats ticks and flows that wait.

## Runs

| Run | Question | Bounds | Result |
| --- | --- | --- | --- |
| `sliding_window` | are the sums those of the window, also for late flows and stale clocks? | window 3, lag 4, 7 seconds, 5 flows of 2 volumes | holds |
| `alert_hysteresis` | does an alert act neither early nor, with thresholds in order, late? | 4 policies, one inverted, 4 rates, gaps 0 to 2, 9 time units | holds |
| `alert_reanalysis` | is a firing alert re-analysed at its interval? | gaps of 1, 7 time units | violated |
| `alert_manager` | do ticks and reloads keep every incident's story whole and every captured flow analysed once? | 3 keys of two scopes, 3 configurations, 2 flows, 5 ticks | holds |
| `alert_orphan` | does a reload orphan an alert when keys repeat? | configurations of 2 and 3 alerts with a repeated key, 6 ticks | violated |
| `flow_processor` | is each rate the traffic of its prefix, category and direction, has every alert a rate, and what do capture buffers keep? | nested and repeated prefixes, windows 2, 3 and 0, sizes 2, 1 and 0, 3 flows in 4 seconds, drains in both directions | holds |
| `internal_traffic` | is all traffic to a prefix inbound? | flows within a prefix | violated |
| `daemon` | are flows accounted for, evaluations and sampling rates consistent with the rules, locks free of deadlock, and does everything get through? | 2 receivers, channel of 1, 3 flows, 2 edits of any kind, a panic | holds |
| `mitigation` | are rules within the category (but for the DNS port), sharp, narrow, and consistent with the removal of flows? | every set of up to 5 of 14 inbound flows, 9 categories, with and without a threshold, 3 rules, 4-bit addresses, a prefix given by an address inside it | holds |
| `outbound_rules` | does a rule drop something it was made for, outbound? | 4 outbound flows, up to 3 at once | violated |
| `forced_protocol` | do all flows of a category share what is forced into its rules? | the inbound flows, up to 3 at once | violated |
| `under_attack` | are attacks and only attacks detected, in time, across reloads; do scripts run in turn; are pages consistent? | window 3, 2 policies, attacks that pause at most once, 2 seconds with reloads, script timeout 1, 7 seconds | holds |

Why the bounds suffice. A ring of three buckets over seven seconds sees every bucket kept,
reused, overtaken, hit by a late flow and taken back by one a window too late. Nine time units hold a hold time, a recovery, a
bounce and a resolve of every policy. Five ticks hold an incident of the quick policy from its pending
sample to its resolve, and a second incident of the key when a reload dropped the first, with reloads
anywhere, two alerts of one scope that fire in one tick and one of another beside them. Three flows fill the processor's hand and
a channel of one, and drop one. Two edits put a second SIGHUP inside the reload of the
first. Five flows at once hold a flood, what shares its port or its source, a second attack
and what should be left alone, over enough iterations to meet the rule limit, the threshold
and the case without a pattern. Seven seconds under attack hold the filling of the window, the
trigger time, a pause, a recovery and a reload in it. Each run that holds also has a mutant of the code that breaks each of
its properties (`PROJECT.json`, "mutants"; the mutated operators stand before the
definitions they mutate).

What the violated runs show:

- *Re-analysis can be late.* A dip below recover for one sample sends a firing alert to
  recovering and back, and the way back restarts the update interval without an analysis
  (`alert.rs:115`), against "Re-analysis interval while alert is firing" (`README.md:43`).
- *A reload can orphan a firing alert.* Two rules on one key are accepted. The map of old
  states keeps one of them (`alert.rs:184-193`), so the other firing alert restarts as
  normal and its resolve is never sent, what the comment at `alert.rs:176-179` excludes.
- *Internal traffic is not inbound* (`processor.rs:148-153`), against "destination IP
  matches prefix" (`README.md:77`). The code says so in a comment; the README does not.
- *Outbound rules drop nothing* (`mitigation.rs:515-527`). The pattern's source of an
  outbound flow is an address of the prefix, and it, or the prefix itself, becomes the rule's
  destination; the flows the rule was made for go elsewhere. The loop counts them as removed
  ("Estimate remaining rate after previous rules would be applied", line 434).
- *ICMPv6 is not ICMP to a router* (`mitigation.rs:408`). The category holds protocols 1 and
  58, its rules name 1, and "they're trivially true for 100% of remaining flows"
  (line 401) does not hold.

Two more disagreements have no run of their own; the passing runs meet the case and their
properties state the exception:

- *A DNS rule names no protocol* (`mitigation.rs:406`), while "the protocol is always included
  in generated rules" (`mitigation.rs:361-363`). A flow of another protocol that carries a port,
  as `from_common_flow` lets it (SCTP to port 53), is dropped with the DNS traffic.
  `RulesStayInCategory` excepts exactly that (`AnyToDns`).
- *`capture_buffer_size: 0` holds one flow.* The eviction finds nothing to evict and the flow is
  pushed all the same (`processor.rs:172-178`), against "Max flows captured per rule"
  (`README.md:42`). `CaptureIsRecent` excludes a size of zero.

Smaller ones seen on the way, none of which contradicts a document:

- A flow that comes a window or more too late (a clock stepped back) erases the newer second
  that holds its bucket; `WindowExact` and `StaleClockBounded` say that nothing else is lost.
- With a `recover_for` shorter than the window an alert resolves when a reload has emptied its
  ring; `RidesOutReload` is stated for longer ones.
- After a configuration whose prefix does not parse, its sampling rates stay in force with the
  rules of the one before, until a reload gets through; `RatesMatchRules` says when.
- The prefix of a rule is narrowed on all remaining flows, so up to a fifth of them may escape
  a rule and are still counted as removed; `EscapesBounded` shows that it is never more.
- Rules do not name the flags ECE and CWR, so a rule for a pattern with them drops more than
  the pattern matches; `LeftAlone` leaves such patterns out.
- When most of the traffic has nothing to pivot on, such as UDP fragments from many sources,
  the prefix may be narrowed to their target while the pattern is one of other flows: the
  rule then drops nothing at all.
- The remaining rate of a packet or flow alert is estimated from bytes.
- With the default durations (10, 20 and 30 seconds) and a script timeout of 30 seconds, scripts
  of one alert may overlap; `ScriptsInTurn` is stated for longer durations.
- An alert is pending for one sample before it fires, so with `trigger_for: 0s` it fires a second
  after its trigger was reached; `DetectsInTime` allows for it (`Hold`).
- `netalert_alert_state` has no rule labels, so two rules on one key give two series of the
  same name with different values.
- `thresholds: {tcp: {}}` passes the check for at least one threshold and makes no alert, and
  an exporter's sampling rate of zero hides its bytes and packets.

Fairness is assumed in `daemon` only: weak fairness of each receiver's, the
processor's, the ticker's and the main task's steps. The runtime polls every task that can
go on, tokio's locks are fair queues, and the interval keeps ticking. Arrival of flows,
edits and signals are not assumed. `CHECK_DEADLOCK FALSE` appears where a run stops at its
bounds; `Daemon` is checked for deadlock.

## Proofs

All proofs hold for every value of the constants that satisfies the named assumptions.

`SlidingWindow_proofs` proves type correctness, `WindowExact` and `StaleClockBounded`. The
properties are not inductive. `RingInv` adds what a bucket holds: traffic of the second in its
stamp, all of it unless that second was displaced, its stamp falling on its own index; and that
a second with traffic which is newer than the one in its bucket was displaced. The step lemma
needs that two seconds that share an index are at least a window apart (`ModSpread`), so that
only a flow a window late finds a newer second in its bucket; the properties follow since
`SumFunction` gets the same function on both sides. Assumptions: a positive window, times above
the window; the lag is any number.

`AlertHysteresis_proofs` proves type correctness, the two safety invariants and the three
action properties. `TimersInv` ties the stored instant to the history: a pending
(recovering) alert's instant lies in the current run above trigger (below recover), and an
update instant is not before the last notice. `RunsInv` adds, while no thresholds were inverted, that
such a run begins at that very instant and excludes the other states. `EvaluateCases` spells
`evaluate` out as its eleven transitions (in `CodeLemmas`, as the alert
manager's proofs use it too); every step proof is a case split over them. With
inverted thresholds, which nothing rejects, `SustainedAttackFires` would fail, since a rate
may be above trigger and below recover at once; `inverted` remembers whether any were in
force.

`Mitigation_proofs` proves all that `mitigation` checks: type correctness,
`RulesStayInCategory`, `LeftAlone`, `NarrowestDominant`, `EscapesBounded` and `SharpEnough`.
`MitigationInv` remembers how each rule was made: from a pattern found in flows of the
category that remained at that point, and that nothing that remains now matches its pattern.
The rest are facts about one rule.

- *Category.* `RuleStays`: the fields left out of the search are exactly those the category
  forces, so the forced values are in the rule; and a pattern's flags come from a flow of the
  category, so a SYN alert's rule asks for SYN. `DroppedMatches`: a rule is at least as narrow
  as its pattern. Outbound, where the rule has the pattern's source as its destination, this
  holds only because captured flows cross the border of the prefix (`CrossingAssumption`,
  from the directions of `process_flow`). Flows may carry ports in any protocol; the statement
  excepts what a DNS rule, which names port 53 and no protocol, drops of other protocols.
  `InputsAssumption` says that a call has finitely many flows, a `Vec` of them.
- *Volumes.* `BytesSplit`: part of the flows and the rest carry all bytes between them,
  whatever order the sum takes (`SumSplits`).
- *Narrowing.* `HalvesFacts`: the halves of a prefix share its addresses out; `Nested`: of two
  prefixes with an address in common the shorter contains the longer. Both are facts about
  division by powers of two (`PowerOfTwo`, `Quotient`, `Coarser`). `DescentExists` shows by
  induction over the bits that are left that the recursive function of
  `ComputeDestinationPrefix` is one, and `DescentSettles` where it ends: at a prefix that
  dominates and has no half that does. Two prefixes that dominate share a flow, so a longer
  one would lie in one of the halves, which would dominate (`NoLongerDominates`).
  What a rule misses of the flows its pattern matches lies outside the narrowed prefix
  (`MatchingIsDropped`), hence the fifth of `EscapesBounded`.
- *Search.* `OneFieldMore`: a value that enough of the chosen flows share makes a candidate
  with one more field, whose score is not greater (`BestScores`). With at most five fields
  that leaves the value six sevenths of the chosen bytes.

`AttackResponse_proofs` proves all that `under_attack` checks: type correctness,
`DetectsInTime`, `ScriptsInTurn`, `PageConsistent`, `FiresOnAttack` and `RidesOutReload`. They
speak of spans of seconds, of which the state keeps only traces; `ResponseInv` says what
the traces mean. `RingInv`: there is a set of attack seconds, none newer than the clock and
all that were counted since the last reload among them, of which every window total from now
on is the size. `AlertInv`: a pending alert was above the trigger at every sample since its
instant; a recovering one saw a pause or a reload in every window since; and while an attack
fills the window the alert is firing, or pending since the window was full. `TasksInTime`: a
task that waits for its script is within the time limit, since a second does not end with
a kill due; and the alert's instant is no older than the last payload, from which payloads are
further apart than the time limit (`PayloadsSpaced`). `PublicationInv`: where the ticker stands
says how far the published rates and states are behind the clock, and a page's read lock keeps
its rates. Assumptions: a positive window no longer than the second the run starts in, and
the bounds of the run.

`AlertManager_proofs` proves type correctness, `ActiveHoldsOwn`, `AnalysedOnce`,
`AnalysedTogether`, and, when no configuration repeats a key, `NoOrphan` and the refinement of
`AlertIncidents`. `ManagerInv` adds that identifiers were issued in past ticks, so that a fresh
one is fresh and has no other owner; that an incident that ended was issued; and that captured
and analysed flows are among those that arrived. `LoopTakes` follows the loop of a tick, by
induction over the positions: after each, `drained` has the scopes that were asked for with what
their buffers held before the tick, those buffers are empty and the others untouched. The lemmas about a tick say what it does to the alert at each
position (`ActionsFollowStates`: an action is a change between active and not active), and
those about a reload that a new alert has the state of an old alert of its key, or none.
`DistinctConfigs` is a hypothesis of `NoneOrphaned` and `ContractKept`, not an assumption of
the model: validation accepts repeated keys, and `alert_orphan` shows that both fail with
them. With it, `ContractInv` keeps keys distinct among the alerts, so the reload's map from key
to state loses nothing. In the refinement a tick is the abstract `Evaluate` with the sets of
keys that fire, update and resolve read off the payloads, a reload is the abstract
reconfiguration, and a capture or a flush stutters.

`FlowProcessor_proofs` proves type correctness, `RatesAreTraffic`, `EveryAlertIsRated` and
`CaptureIsRecent`. `ProcessorInv` says of every second from now on what `RatesAreTraffic` says
of one (`TotalsTrue`), that buckets are stamped with no second of the future and lie on the
index of their own (`BucketsInPlace`), that rules and rings are those of the configuration,
that buffers are in the order of arrival and that no drain was later than the last flow. A
step adds the same to both sides: `TotalAfterAdd` to the sum of a ring, where a bucket that is
taken over has left every window that can still be read, and `TrafficAfterFlow` to the traffic
in the log. Both rest on how `SumFunctionOnSet` answers to one more element, one changed value
or all zeros; the fold adds in an order of its own choice, so `SumsAgree` shows first that the
order does not matter. That is an induction, which `CodeLemmas` does with a set for the predicate:
a number outside it would have a least one (`Induct`). Assumptions: windows no longer than the second the
run starts in (Unix time), and the clock starting within the bound.

`Daemon_proofs` proves type correctness, `FlowsAccounted`, `GaugeSettles`, `AlertsNeverAhead` and
`RatesMatchRules` for any number of receivers, flows and edits. `LocksInv` says who is in the
queue of which lock, once, as his program counter has it, and that a ticker that asks for the
second lock still holds the first; `VersionsInv` that a configuration is loaded first, then in the sampling
rates, the rules and the alerts, and that only a refused one is left in the rates alone; `DepthInv` that the gauge is at most what the channel holds, except
between `recv` and the store. A receiver that enters or leaves its hold on a flow changes the
number of flows in hand by one (`BusyCounts`).

Only model-checked: liveness, in `Daemon`, which is beyond the prover. Every invariant and
every other action property that a passing run checks is the subject of a theorem. The runs
that expect a violation show where a document or a comment is wrong, and have none.

## Plan

The plan of modules and theorems is carried out. What could be added is detail: labels of the
metrics page, so that two rules on one key give the two series described above, and the
estimate of a packet alert's remaining rate next to its true rate.

## Not modelled

Decoding of NetFlow and sFlow and parsing of YAML (libraries), the text of the metrics page
and of payloads, the command line, logging and the build files: no state that the daemon's
behaviour depends on. Shutdown ends the process with all its state; a receive error is
logged and changes nothing. An interval other than one second between evaluations is covered
by the irregular samples of `AlertHysteresis`, not by `AttackResponse`.
