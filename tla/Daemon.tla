------------------------------- MODULE Daemon -------------------------------
(***************************************************************************)
(* The tasks of the daemon and what they share (main.rs): receivers read   *)
(* flows and offer them to a bounded channel; the processor task takes     *)
(* them and applies each under the processor lock; the ticker computes     *)
(* rates under that lock and, still holding it, evaluates the alerts under *)
(* theirs; SIGHUP makes the main task load the file and replace sampling   *)
(* rates, rules and alerts one after another, each under its own lock.     *)
(*                                                                         *)
(* A flow is only counted here: FlowProcessor and AlertManager say what    *)
(* the critical sections do.  A configuration is the version of the file   *)
(* it was loaded from and what Config::load and FlowProcessor make of it.  *)
(* The tokio locks are first come, first served: a lock is the queue of    *)
(* the tasks that asked for it, the first of which holds it.  A critical   *)
(* section that awaits nothing is one step.                                *)
(***************************************************************************)
EXTENDS Integers, Sequences, FiniteSets

CONSTANTS
  Receiver,     \* the receivers, NetFlow and sFlow
  Capacity,     \* the channel's, 10000 in main
  WindowAtStart,\* whether the first configuration's window may reach a second
  MaxReceived,  \* bound on the flows received
  MaxEdits      \* bound on the edits of the configuration file

ASSUME CapacityAssumption == Capacity \in Nat \ {0}

ASSUME StartAssumption == WindowAtStart \subseteq BOOLEAN

ASSUME BoundAssumption ==
  MaxReceived \in Nat /\ MaxEdits \in Nat /\ IsFiniteSet(Receiver)

\* What becomes of a configuration file: Config::load rejects it; it loads but
\* a prefix does not parse; its window is below a second; or nothing is wrong.
Kind == {"unreadable", "badPrefix", "shortWindow", "good"}

VARIABLES
  receiver,   \* where each receiver is in its loop
  channel,    \* number of flows in the channel
  processor,  \* where the processor task is in its loop
  ticker,     \* where the ticker is in its loop
  reloader,   \* where reload_config is
  procLock, alertLock,   \* the queues of the two locks
  file,       \* the configuration file
  hangup,     \* SIGHUP was delivered and not yet received
  loaded,     \* the configuration reload_config has loaded
  rates, rules, alerts,  \* the versions in force in the three shared structures
  buckets,    \* whether the rings of the rules have any buckets
  computed,   \* the version of the rules behind the ticker's snapshots
  received, dropped, depth,  \* the health counters
  processed,  \* history: flows applied
  lost,       \* history: flows that went down with the processor task
  asked       \* history: the version of the file at the last SIGHUP

flowVars   == <<receiver, channel, received, dropped, lost>>
configVars == <<file, hangup, loaded, rates, rules, alerts, buckets, asked>>
vars == <<flowVars, configVars, processor, ticker, reloader, procLock, alertLock,
          computed, depth, processed>>

Task == {"processor", "ticker", "reloader"}

Holds(task, lock) == lock # <<>> /\ Head(lock) = task

Version == 0 .. MaxEdits

TypeOK ==
  /\ receiver \in [Receiver -> {"reading", "rating", "sending", "stopped"}]
  /\ channel \in 0 .. Capacity
  /\ processor \in {"receiving", "gauging", "waiting", "stopped"}
  /\ ticker \in {"idle", "waiting", "holding"}
  /\ reloader \in {"idle", "rates", "processor", "alerts"}
  /\ procLock \in Seq(Task) /\ alertLock \in Seq(Task)
  /\ file \in [version : Version, kind : Kind] /\ loaded \in [version : Version, kind : Kind]
  /\ hangup \in BOOLEAN /\ buckets \in BOOLEAN
  /\ {rates, rules, alerts, computed, asked} \subseteq Version
  /\ {received, dropped, processed, lost} \subseteq 0 .. MaxReceived
  /\ depth \in 0 .. Capacity

Init ==
  /\ receiver = [r \in Receiver |-> "reading"]
  /\ processor = "receiving" /\ ticker = "idle" /\ reloader = "idle"
  /\ channel = 0 /\ procLock = <<>> /\ alertLock = <<>>
  /\ buckets \in WindowAtStart
  /\ file = [version |-> 0, kind |-> "good"] /\ loaded = file
  /\ hangup = FALSE
  /\ rates = 0 /\ rules = 0 /\ alerts = 0 /\ computed = 0 /\ asked = 0
  /\ received = 0 /\ dropped = 0 /\ depth = 0 /\ processed = 0 /\ lost = 0

-----------------------------------------------------------------------------
\* run_receiver_loop: a flow arrives and is counted.
Read(r) ==
  /\ receiver[r] = "reading" /\ received < MaxReceived
  /\ receiver' = [receiver EXCEPT ![r] = "rating"]
  /\ received' = received + 1
  /\ UNCHANGED <<channel, dropped, lost, configVars, processor, ticker, reloader,
                 procLock, alertLock, computed, depth, processed>>

\* It gets the sampling rate configured for its exporter.
OverrideRate(r) ==
  /\ receiver[r] = "rating"
  /\ receiver' = [receiver EXCEPT ![r] = "sending"]
  /\ UNCHANGED <<channel, received, dropped, lost, configVars, processor, ticker,
                 reloader, procLock, alertLock, computed, depth, processed>>

\* Mutant of Accepted: the channel takes any number of flows.
AcceptedAlways(r) ==
  /\ processor # "stopped"
  /\ channel' = channel + 1
  /\ receiver' = [receiver EXCEPT ![r] = "reading"]
  /\ UNCHANGED <<dropped, lost>>

\* try_send puts the flow into a channel with room ...
Accepted(r) ==
  /\ processor # "stopped" /\ channel < Capacity
  /\ channel' = channel + 1
  /\ receiver' = [receiver EXCEPT ![r] = "reading"]
  /\ UNCHANGED <<dropped, lost>>

\* Mutant of RefusedFull: the drop is not counted.
RefusedFullSilently(r) ==
  /\ processor # "stopped" /\ channel = Capacity
  /\ receiver' = [receiver EXCEPT ![r] = "reading"]
  /\ UNCHANGED <<channel, dropped, lost>>

\* ... drops and counts it when there is none ...
RefusedFull(r) ==
  /\ processor # "stopped" /\ channel = Capacity
  /\ dropped' = dropped + 1
  /\ receiver' = [receiver EXCEPT ![r] = "reading"]
  /\ UNCHANGED <<channel, lost>>

\* ... and ends the receiver when the channel is closed.
RefusedClosed(r) ==
  /\ processor = "stopped"
  /\ receiver' = [receiver EXCEPT ![r] = "stopped"]
  /\ lost' = lost + 1
  /\ UNCHANGED <<channel, dropped>>

TrySend(r) ==
  /\ receiver[r] = "sending"
  /\ Accepted(r) \/ RefusedFull(r) \/ RefusedClosed(r)
  /\ UNCHANGED <<received, configVars, processor, ticker, reloader, procLock,
                 alertLock, computed, depth, processed>>

-----------------------------------------------------------------------------
\* Mutant of Receive: flows are taken two at a time.
ReceiveBatch ==
  /\ processor = "receiving" /\ channel > 1
  /\ channel' = channel - 1
  /\ processor' = "gauging"
  /\ UNCHANGED <<receiver, received, dropped, lost, configVars, ticker, reloader,
                 procLock, alertLock, computed, depth, processed>>

\* run_flow_processor: rx.recv.
Receive ==
  /\ processor = "receiving" /\ channel > 0
  /\ channel' = channel - 1
  /\ processor' = "gauging"
  /\ UNCHANGED <<receiver, received, dropped, lost, configVars, ticker, reloader,
                 procLock, alertLock, computed, depth, processed>>

\* Mutant of StoreDepth: the depth from before rx.recv is stored.
StoreDepthBefore ==
  /\ processor = "gauging"
  /\ depth' = IF channel < Capacity THEN channel + 1 ELSE channel
  /\ processor' = "waiting"
  /\ procLock' = Append(procLock, "processor")
  /\ UNCHANGED <<flowVars, configVars, ticker, reloader, alertLock, computed, processed>>

\* The depth is stored and the processor lock asked for.
StoreDepth ==
  /\ processor = "gauging"
  /\ depth' = channel
  /\ processor' = "waiting"
  /\ procLock' = Append(procLock, "processor")
  /\ UNCHANGED <<flowVars, configVars, ticker, reloader, alertLock, computed, processed>>

\* Mutant of ProcessFlow: the lock is not released.
ProcessFlowKeepingLock ==
  /\ processor = "waiting" /\ Holds("processor", procLock)
  /\ processor' = "receiving"
  /\ processed' = processed + 1
  /\ UNCHANGED <<flowVars, configVars, ticker, reloader, procLock, alertLock,
                 computed, depth>>

\* process_flow; the lock is released when the loop turns.
ProcessFlow ==
  /\ processor = "waiting" /\ Holds("processor", procLock)
  /\ processor' = "receiving"
  /\ processed' = processed + 1
  /\ procLock' = Tail(procLock)
  /\ UNCHANGED <<flowVars, configVars, ticker, reloader, alertLock, computed, depth>>

\* A flow that matches a rule divides by the ring's length: without buckets the
\* task panics, which frees the lock and closes the channel.
Panic ==
  /\ processor = "waiting" /\ Holds("processor", procLock) /\ ~buckets
  /\ processor' = "stopped"
  /\ procLock' = Tail(procLock)
  /\ channel' = 0
  /\ lost' = lost + channel + 1
  /\ UNCHANGED <<receiver, received, dropped, configVars, ticker, reloader, alertLock,
                 computed, depth, processed>>

-----------------------------------------------------------------------------
\* run_ticker: the interval has passed; the ticker asks for the processor lock.
Tick ==
  /\ ticker = "idle"
  /\ ticker' = "waiting"
  /\ procLock' = Append(procLock, "ticker")
  /\ UNCHANGED <<flowVars, configVars, processor, reloader, alertLock, computed,
                 depth, processed>>

\* compute_all_rates; the lock is kept while the ticker asks for the other.
ComputeRates ==
  /\ ticker = "waiting" /\ Holds("ticker", procLock)
  /\ ticker' = "holding"
  /\ computed' = rules
  /\ alertLock' = Append(alertLock, "ticker")
  /\ UNCHANGED <<flowVars, configVars, processor, reloader, procLock, depth, processed>>

\* AlertManager::evaluate and the release of both locks.
EvaluateAlerts ==
  /\ ticker = "holding" /\ Holds("ticker", alertLock)
  /\ ticker' = "idle"
  /\ alertLock' = Tail(alertLock)
  /\ procLock' = Tail(procLock)
  /\ UNCHANGED <<flowVars, configVars, processor, reloader, computed, depth, processed>>

-----------------------------------------------------------------------------
\* main's select on SIGHUP, then Config::load.
StartReload ==
  /\ reloader = "idle" /\ hangup
  /\ hangup' = FALSE
  /\ IF file.kind = "unreadable"
     THEN UNCHANGED <<loaded, reloader>>
     ELSE loaded' = file /\ reloader' = "rates"
  /\ UNCHANGED <<flowVars, file, rates, rules, alerts, buckets, asked, processor,
                 ticker, procLock, alertLock, computed, depth, processed>>

\* Mutant of ReplaceRates: the file is read again for the rates.
ReplaceRatesOfFile ==
  /\ reloader = "rates"
  /\ rates' = file.version
  /\ reloader' = "processor"
  /\ procLock' = Append(procLock, "reloader")
  /\ UNCHANGED <<flowVars, file, hangup, loaded, rules, alerts, buckets, asked,
                 processor, ticker, alertLock, computed, depth, processed>>

ReplaceRates ==
  /\ reloader = "rates"
  /\ rates' = loaded.version
  /\ reloader' = "processor"
  /\ procLock' = Append(procLock, "reloader")
  /\ UNCHANGED <<flowVars, file, hangup, loaded, rules, alerts, buckets, asked,
                 processor, ticker, alertLock, computed, depth, processed>>

\* Mutant of ReloadProcessor: an error is logged and the reload goes on.
ReloadProcessorRegardless ==
  /\ reloader = "processor" /\ Holds("reloader", procLock)
  /\ procLock' = Tail(procLock)
  /\ reloader' = "alerts"
  /\ alertLock' = Append(alertLock, "reloader")
  /\ rules' = IF loaded.kind = "badPrefix" THEN rules ELSE loaded.version
  /\ buckets' = (buckets \/ loaded.kind = "good")
  /\ UNCHANGED <<flowVars, file, hangup, loaded, rates, alerts, asked, processor,
                 ticker, computed, depth, processed>>

\* FlowProcessor::reload_config.  When it fails the reload ends there, with the
\* sampling rates of the new configuration and the rules of the old one.
ReloadProcessor ==
  /\ reloader = "processor" /\ Holds("reloader", procLock)
  /\ procLock' = Tail(procLock)
  /\ IF loaded.kind = "badPrefix"
     THEN /\ reloader' = "idle"
          /\ UNCHANGED <<rules, buckets, alertLock>>
     ELSE /\ reloader' = "alerts"
          /\ rules' = loaded.version
          /\ buckets' = (buckets \/ loaded.kind = "good")
          /\ alertLock' = Append(alertLock, "reloader")
  /\ UNCHANGED <<flowVars, file, hangup, loaded, rates, alerts, asked, processor,
                 ticker, computed, depth, processed>>

\* Mutant of ReloadAlerts: signals that came during the reload are discarded.
ReloadAlertsForgetting ==
  /\ reloader = "alerts" /\ Holds("reloader", alertLock)
  /\ reloader' = "idle"
  /\ alerts' = loaded.version
  /\ hangup' = FALSE
  /\ alertLock' = Tail(alertLock)
  /\ UNCHANGED <<flowVars, file, loaded, rates, rules, buckets, asked, processor,
                 ticker, procLock, computed, depth, processed>>

\* AlertManager::reload_config
ReloadAlerts ==
  /\ reloader = "alerts" /\ Holds("reloader", alertLock)
  /\ reloader' = "idle"
  /\ alerts' = loaded.version
  /\ alertLock' = Tail(alertLock)
  /\ UNCHANGED <<flowVars, file, hangup, loaded, rates, rules, buckets, asked, processor,
                 ticker, procLock, computed, depth, processed>>

\* The operator writes another configuration file ...
Edit ==
  /\ file.version < MaxEdits
  /\ \E kind \in Kind : file' = [version |-> file.version + 1, kind |-> kind]
  /\ UNCHANGED <<flowVars, hangup, loaded, rates, rules, alerts, buckets, asked, processor,
                 ticker, reloader, procLock, alertLock, computed, depth, processed>>

\* ... and signals the daemon.  Signals not yet received are one.
Hangup ==
  /\ asked < file.version
  /\ hangup' = TRUE
  /\ asked' = file.version
  /\ UNCHANGED <<flowVars, file, loaded, rates, rules, alerts, buckets, processor, ticker,
                 reloader, procLock, alertLock, computed, depth, processed>>

-----------------------------------------------------------------------------
ReceiverStep(r) == OverrideRate(r) \/ TrySend(r)

ProcessorStep == Receive \/ StoreDepth \/ ProcessFlow \/ Panic

TickerStep == Tick \/ ComputeRates \/ EvaluateAlerts

ReloaderStep == StartReload \/ ReplaceRates \/ ReloadProcessor \/ ReloadAlerts

Next ==
  \/ \E r \in Receiver : Read(r) \/ ReceiverStep(r)
  \/ ProcessorStep
  \/ TickerStep
  \/ ReloaderStep
  \/ Edit
  \/ Hangup

\* The runtime polls every task that can go on, and the interval keeps ticking.
Fairness ==
  /\ \A r \in Receiver : WF_vars(ReceiverStep(r))
  /\ WF_vars(ProcessorStep)
  /\ WF_vars(TickerStep)
  /\ WF_vars(ReloaderStep)

Spec == Init /\ [][Next]_vars

FairSpec == Spec /\ Fairness

-----------------------------------------------------------------------------
\* The flows some task has in hand.
InHand ==
  Cardinality({r \in Receiver : receiver[r] \in {"rating", "sending"}})
    + (IF processor \in {"gauging", "waiting"} THEN 1 ELSE 0)

(***************************************************************************)
(* Every flow received is applied, still under way, or counted as dropped; *)
(* flows vanish uncounted only once the processor task has died            *)
(* (run_receiver_loop's "drop (and count)", run_flow_processor).           *)
(***************************************************************************)
FlowsAccounted ==
  /\ received = processed + dropped + lost + channel + InHand
  /\ processor # "stopped" => lost = 0

(***************************************************************************)
(* Although a receiver may send between recv and the store of the depth,   *)
(* the gauge netalert_flow_channel_depth is zero whenever the channel is   *)
(* empty and the processor waits for a flow (run_flow_processor).          *)
(***************************************************************************)
GaugeSettles == processor = "receiving" /\ channel = 0 => depth = 0

(***************************************************************************)
(* An evaluation never judges rates by alerts of a newer configuration     *)
(* than the rules the rates were computed with; and the two agree unless a *)
(* reload is just between the processor and the alert manager (run_ticker  *)
(* keeps the processor lock, reload_config goes from rules to alerts).     *)
(***************************************************************************)
AlertsNeverAhead ==
  ticker = "holding" =>
    /\ alerts <= computed
    /\ reloader # "alerts" => alerts = computed

(***************************************************************************)
(* The rules are never of a newer configuration than the sampling rates.   *)
(* Once a reload has replaced the rules the two agree, and between reloads *)
(* they differ only if the last configuration that was loaded is one the   *)
(* processor refused, whose rates are then in force (reload_config returns *)
(* between its steps).                                                     *)
(***************************************************************************)
RatesMatchRules ==
  /\ rules <= rates
  /\ reloader = "alerts" => rates = rules
  /\ reloader = "idle" /\ rates # rules =>
       loaded = [version |-> rates, kind |-> "badPrefix"]

(***************************************************************************)
(* A flow in the channel does not wait forever, whatever ticks and reloads *)
(* come in between: once no more arrive, all are applied or counted        *)
(* (run_flow_processor, run_receiver_loop).                                *)
(***************************************************************************)
FlowsSettle == <>[](channel + InHand = 0)

(***************************************************************************)
(* The last configuration the operator signalled comes into force, even if *)
(* the signal arrived during the reload of an earlier one, unless it is    *)
(* refused or edited again (main's SIGHUP loop, reload_config).            *)
(***************************************************************************)
LastConfigWins ==
  \A v \in Version :
    (asked = v /\ file.version = v /\ file.kind \in {"good", "shortWindow"})
      ~> ({alerts, rules, rates} = {v} \/ file.version # v)

(***************************************************************************)
(* Every tick is evaluated: the ticker always gets both locks (run_ticker).*)
(***************************************************************************)
TicksEvaluate == ticker = "waiting" ~> ticker = "idle"
=============================================================================
