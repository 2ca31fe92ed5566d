---------------------------- MODULE Daemon_proofs ----------------------------
(***************************************************************************)
(* The safety of Daemon for any receivers, any capacity of the channel and *)
(* any number of flows and edits.                                          *)
(*                                                                         *)
(* AlertsNeverAhead rests on the locks: between ComputeRates and           *)
(* EvaluateAlerts the ticker is the first in the queue of the processor    *)
(* lock, so no reload can replace the rules behind its snapshots.  That in *)
(* turn needs that a task queues for a lock exactly while its program      *)
(* counter says so, and only once (LocksInv).                              *)
(***************************************************************************)
EXTENDS Daemon, FiniteSetTheorems, SequenceTheorems, TLAPS

\* The tasks in the queue of a lock, and that none is there twice.
Queued(lock) == {lock[i] : i \in DOMAIN lock}

Once(lock) == \A i, j \in DOMAIN lock : lock[i] = lock[j] => i = j

\* A task is in a lock's queue while it waits for the lock or holds it.
LocksInv ==
  /\ Once(procLock) /\ Once(alertLock)
  /\ "processor" \in Queued(procLock) <=> processor = "waiting"
  /\ "ticker"    \in Queued(procLock) <=> ticker \in {"waiting", "holding"}
  /\ "reloader"  \in Queued(procLock) <=> reloader = "processor"
  /\ "processor" \notin Queued(alertLock)
  /\ "ticker"    \in Queued(alertLock) <=> ticker = "holding"
  /\ "reloader"  \in Queued(alertLock) <=> reloader = "alerts"
  /\ ticker = "holding" => Holds("ticker", procLock)

\* Versions only grow, and the reload passes them on in one order.
VersionsInv ==
  /\ alerts <= rules /\ rules <= loaded.version /\ loaded.version <= file.version
  /\ reloader # "alerts" => alerts = rules
  /\ reloader = "alerts" => rules = loaded.version
  /\ ticker = "holding" => computed = rules
  /\ rules <= rates /\ rates <= loaded.version
  /\ reloader # "rates" => rates = loaded.version
  /\ reloader = "idle" /\ rates # rules => loaded.kind = "badPrefix"

\* Since the depth was stored flows were only added.
DepthInv == processor \in {"receiving", "waiting"} => depth <= channel

DaemonInv == TypeOK /\ LocksInv /\ VersionsInv /\ DepthInv /\ FlowsAccounted

-----------------------------------------------------------------------------
\* Asking for a lock puts a task at the end of the queue.
LEMMA AskForLock ==
  ASSUME NEW lock \in Seq(Task), Once(lock), NEW task \in Task, task \notin Queued(lock)
  PROVE  LET next == Append(lock, task)
         IN  /\ next \in Seq(Task) /\ Once(next)
             /\ Queued(next) = Queued(lock) \cup {task}
             /\ \A t : Holds(t, lock) => Holds(t, next)
<1> DEFINE next == Append(lock, task)
<1>1. /\ next \in Seq(Task) /\ Len(next) = Len(lock) + 1 /\ Len(lock) \in Nat
      /\ \A i \in 1 .. Len(lock) : next[i] = lock[i]
      /\ next[Len(lock) + 1] = task
      /\ DOMAIN lock = 1 .. Len(lock) /\ DOMAIN next = 1 .. Len(lock) + 1
  OBVIOUS
<1> HIDE DEF next
<1>2. Once(next)
  BY <1>1 DEF Once, Queued
<1>3. Queued(next) = Queued(lock) \cup {task}
  BY <1>1 DEF Queued
<1>4. ASSUME NEW t, Holds(t, lock) PROVE Holds(t, next)
  <2>1. Len(lock) >= 1 /\ lock[1] = t
    BY <1>1, <1>4 DEF Holds
  <2>2. next # <<>> /\ Head(next) = next[1]
    BY <1>1
  <2>3. QED
    BY <1>1, <2>1, <2>2 DEF Holds
<1>5. QED
  BY <1>1, <1>2, <1>3, <1>4 DEF next

\* Releasing a lock takes its holder, and no other task, out of the queue.
LEMMA ReleaseLock ==
  ASSUME NEW lock \in Seq(Task), Once(lock), NEW task, Holds(task, lock)
  PROVE  LET next == Tail(lock)
         IN  /\ next \in Seq(Task) /\ Once(next)
             /\ Queued(next) = Queued(lock) \ {task}
<1> DEFINE next == Tail(lock)
<1>1. lock # <<>> /\ lock[1] = task /\ Len(lock) \in Nat /\ Len(lock) >= 1
  BY DEF Holds
<1>2. /\ next \in Seq(Task) /\ Len(next) = Len(lock) - 1
      /\ \A i \in 1 .. Len(next) : next[i] = lock[i + 1]
      /\ DOMAIN lock = 1 .. Len(lock) /\ DOMAIN next = 1 .. Len(lock) - 1
  BY <1>1, HeadTailProperties, LenProperties
<1> HIDE DEF next
<1>3. Once(next)
  <2>1. \A i \in DOMAIN next : i \in Int /\ i + 1 \in DOMAIN lock /\ next[i] = lock[i + 1]
    BY <1>1, <1>2
  <2>2. QED
    BY <2>1 DEF Once
<1>4. Queued(next) \subseteq Queued(lock) \ {task}
  BY <1>1, <1>2 DEF Queued, Once
<1>5. Queued(lock) \ {task} \subseteq Queued(next)
  <2>1. SUFFICES ASSUME NEW i \in DOMAIN lock, lock[i] # task
                 PROVE  lock[i] \in Queued(next)
    BY DEF Queued
  <2>2. i - 1 \in DOMAIN next /\ next[i - 1] = lock[i]
    BY <1>1, <1>2, <2>1
  <2>3. QED
    BY <2>2 DEF Queued
<1>6. QED
  BY <1>2, <1>3, <1>4, <1>5 DEF next

\* The holder of a lock is in its queue, and it is the only one.
LEMMA HolderQueued ==
  ASSUME NEW lock \in Seq(Task), NEW task, Holds(task, lock)
  PROVE  task \in Queued(lock) /\ \A t : Holds(t, lock) => t = task
<1>1. 1 \in DOMAIN lock /\ lock[1] = task
  BY DEF Holds
<1>2. QED
  BY <1>1 DEF Queued, Holds

LEMMA InitDaemonInv == Init => DaemonInv
<1> SUFFICES ASSUME Init PROVE DaemonInv
  OBVIOUS
<1>1. TypeOK
  <2>1. /\ channel \in 0 .. Capacity /\ depth \in 0 .. Capacity
        /\ {received, dropped, processed, lost} \subseteq 0 .. MaxReceived
        /\ {rates, rules, alerts, computed, asked} \subseteq Version
    BY CapacityAssumption, BoundAssumption DEF Init, Version
  <2>2. file \in [version : Version, kind : Kind] /\ loaded \in [version : Version, kind : Kind]
    BY BoundAssumption DEF Init, Version, Kind
  <2>3. procLock \in Seq(Task) /\ alertLock \in Seq(Task)
    BY DEF Init
  <2>4. QED
    BY <2>1, <2>2, <2>3, StartAssumption DEF Init, TypeOK
<1>2. LocksInv
  BY DEF Init, LocksInv, Queued, Once
<1>3. VersionsInv /\ DepthInv
  BY DEF Init, VersionsInv, DepthInv
<1>4. FlowsAccounted
  <2>1. {r \in Receiver : receiver[r] \in {"rating", "sending"}} = {}
    BY DEF Init
  <2>2. Cardinality({r \in Receiver : receiver[r] \in {"rating", "sending"}}) = 0
    BY <2>1, FS_EmptySet
  <2>3. InHand = 0
    BY <2>2 DEF Init, InHand
  <2>4. QED
    BY <2>3 DEF Init, FlowsAccounted
<1>5. QED
  BY <1>1, <1>2, <1>3, <1>4 DEF DaemonInv

-----------------------------------------------------------------------------
\* The steps that touch the locks.
LockStep ==
  \/ StoreDepth \/ ProcessFlow \/ Panic \/ Tick \/ ComputeRates \/ EvaluateAlerts
  \/ ReplaceRates \/ ReloadProcessor \/ ReloadAlerts

\* All others leave the locks alone.
LEMMA OtherSteps ==
  ASSUME DaemonInv, [Next]_vars, ~LockStep
  PROVE  /\ procLock' = procLock /\ alertLock' = alertLock /\ ticker' = ticker
         /\ processor' = "waiting" <=> processor = "waiting"
         /\ reloader' = "processor" <=> reloader = "processor"
         /\ reloader' = "alerts" <=> reloader = "alerts"
<1>1. ASSUME NEW r \in Receiver, Read(r) \/ ReceiverStep(r)
      PROVE  UNCHANGED <<procLock, alertLock, processor, ticker, reloader>>
  BY <1>1 DEF Read, ReceiverStep, OverrideRate, TrySend
<1>2. ASSUME Edit \/ Hangup \/ UNCHANGED vars
      PROVE  UNCHANGED <<procLock, alertLock, processor, ticker, reloader>>
  BY <1>2 DEF Edit, Hangup, vars
<1>3. ASSUME Receive
      PROVE  UNCHANGED <<procLock, alertLock, ticker, reloader>>
             /\ processor = "receiving" /\ processor' = "gauging"
  BY <1>3 DEF Receive
<1>4. ASSUME StartReload
      PROVE  UNCHANGED <<procLock, alertLock, ticker, processor>>
             /\ reloader = "idle" /\ reloader' \in {"idle", "rates"}
  BY <1>4 DEF StartReload
<1>5. QED
  BY <1>1, <1>2, <1>3, <1>4 DEF Next, ProcessorStep, TickerStep, ReloaderStep, LockStep

\* Every step keeps the queues in order.
LEMMA LocksStep ==
  ASSUME DaemonInv, [Next]_vars
  PROVE  LocksInv' /\ procLock' \in Seq(Task) /\ alertLock' \in Seq(Task)
<1>1. LocksInv /\ procLock \in Seq(Task) /\ alertLock \in Seq(Task)
  BY DEF DaemonInv, TypeOK
<1>2. "processor" \in Task /\ "ticker" \in Task /\ "reloader" \in Task
  BY DEF Task
<1> DEFINE Goal == LocksInv' /\ procLock' \in Seq(Task) /\ alertLock' \in Seq(Task)
<1>3. ASSUME StoreDepth PROVE Goal
  <2>1. "processor" \notin Queued(procLock)
    BY <1>1, <1>3 DEF StoreDepth, LocksInv
  <2>2. QED
    BY <1>1, <1>2, <1>3, <2>1, AskForLock DEF StoreDepth, LocksInv
<1>4. ASSUME ProcessFlow \/ Panic PROVE Goal
  <2>1. Holds("processor", procLock) /\ procLock' = Tail(procLock)
    BY <1>4 DEF ProcessFlow, Panic
  <2>2. ticker # "holding"
    BY <1>1, <2>1, HolderQueued DEF LocksInv
  <2>3. QED
    BY <1>1, <1>4, <2>1, <2>2, ReleaseLock DEF ProcessFlow, Panic, LocksInv
<1>5. ASSUME Tick PROVE Goal
  <2>1. "ticker" \notin Queued(procLock)
    BY <1>1, <1>5 DEF Tick, LocksInv
  <2>2. QED
    BY <1>1, <1>2, <1>5, <2>1, AskForLock DEF Tick, LocksInv
<1>6. ASSUME ComputeRates PROVE Goal
  <2>1. "ticker" \notin Queued(alertLock)
    BY <1>1, <1>6 DEF ComputeRates, LocksInv
  <2>2. QED
    BY <1>1, <1>2, <1>6, <2>1, AskForLock DEF ComputeRates, LocksInv
<1>7. ASSUME EvaluateAlerts PROVE Goal
  <2>1. Holds("ticker", procLock) /\ Holds("ticker", alertLock)
    BY <1>1, <1>7 DEF EvaluateAlerts, LocksInv
  <2>2. QED
    BY <1>1, <1>7, <2>1, ReleaseLock DEF EvaluateAlerts, LocksInv
<1>8. ASSUME ReplaceRates PROVE Goal
  <2>1. "reloader" \notin Queued(procLock)
    BY <1>1, <1>8 DEF ReplaceRates, LocksInv
  <2>2. QED
    BY <1>1, <1>2, <1>8, <2>1, AskForLock DEF ReplaceRates, LocksInv
<1>9. ASSUME ReloadProcessor PROVE Goal
  <2>1. Holds("reloader", procLock) /\ procLock' = Tail(procLock) /\ reloader = "processor"
    BY <1>9 DEF ReloadProcessor
  <2>2. ticker # "holding"
    BY <1>1, <2>1, HolderQueued DEF LocksInv
  <2>3. "reloader" \notin Queued(alertLock)
    BY <1>1, <2>1 DEF LocksInv
  <2>4. CASE loaded.kind = "badPrefix"
    BY <1>1, <1>9, <2>1, <2>2, <2>3, <2>4, ReleaseLock DEF ReloadProcessor, LocksInv
  <2>5. CASE loaded.kind # "badPrefix"
    <3>1. alertLock' = Append(alertLock, "reloader") /\ reloader' = "alerts"
          /\ UNCHANGED <<processor, ticker>>
      BY <1>9, <2>5 DEF ReloadProcessor
    <3>2. QED
      BY <1>1, <1>2, <2>1, <2>2, <2>3, <3>1, ReleaseLock, AskForLock DEF LocksInv
  <2>6. QED
    BY <2>4, <2>5
<1>10. ASSUME ReloadAlerts PROVE Goal
  BY <1>1, <1>10, ReleaseLock DEF ReloadAlerts, LocksInv
<1>11. ASSUME ~LockStep PROVE Goal
  <2>1. /\ procLock' = procLock /\ alertLock' = alertLock /\ ticker' = ticker
        /\ processor' = "waiting" <=> processor = "waiting"
        /\ reloader' = "processor" <=> reloader = "processor"
        /\ reloader' = "alerts" <=> reloader = "alerts"
    BY <1>11, OtherSteps
  <2>2. QED
    BY <1>1, <2>1 DEF LocksInv
<1>12. QED
  BY <1>3, <1>4, <1>5, <1>6, <1>7, <1>8, <1>9, <1>10, <1>11 DEF LockStep

-----------------------------------------------------------------------------
\* The steps of the reload and of the operator, and the ticker's reading.
VersionStep ==
  \/ ComputeRates \/ EvaluateAlerts \/ Tick \/ StartReload \/ ReplaceRates
  \/ ReloadProcessor \/ ReloadAlerts \/ Edit \/ Hangup

\* All others leave every version alone.
LEMMA OtherVersions ==
  ASSUME [Next]_vars, ~VersionStep
  PROVE  UNCHANGED <<configVars, ticker, reloader, computed>>
<1>1. ASSUME NEW r \in Receiver, Read(r) \/ ReceiverStep(r)
      PROVE  UNCHANGED <<configVars, ticker, reloader, computed>>
  BY <1>1 DEF Read, ReceiverStep, OverrideRate, TrySend
<1>2. ASSUME ProcessorStep PROVE UNCHANGED <<configVars, ticker, reloader, computed>>
  BY <1>2 DEF ProcessorStep, Receive, StoreDepth, ProcessFlow, Panic
<1>3. ASSUME UNCHANGED vars PROVE UNCHANGED <<configVars, ticker, reloader, computed>>
  BY <1>3 DEF vars
<1>4. QED
  BY <1>1, <1>2, <1>3 DEF Next, TickerStep, ReloaderStep, VersionStep

\* Every step keeps the versions in order; the ticker's lock keeps the rules.
LEMMA VersionsStep ==
  ASSUME DaemonInv, [Next]_vars
  PROVE  /\ VersionsInv'
         /\ ticker' \in {"idle", "waiting", "holding"}
         /\ reloader' \in {"idle", "rates", "processor", "alerts"}
         /\ file' \in [version : Version, kind : Kind]
         /\ loaded' \in [version : Version, kind : Kind]
         /\ hangup' \in BOOLEAN /\ buckets' \in BOOLEAN
         /\ {rates', rules', alerts', computed', asked'} \subseteq Version
<1> DEFINE Config == [version : Version, kind : Kind]
           Types ==
             /\ ticker \in {"idle", "waiting", "holding"}
             /\ reloader \in {"idle", "rates", "processor", "alerts"}
             /\ file \in Config /\ loaded \in Config
             /\ hangup \in BOOLEAN /\ buckets \in BOOLEAN
             /\ {rates, rules, alerts, computed, asked} \subseteq Version
<1>1. VersionsInv /\ Types
  BY DEF DaemonInv, TypeOK
<1>2. /\ file.version \in Version /\ loaded.version \in Version
      /\ Version \subseteq Nat /\ loaded.kind \in Kind
      /\ rules \in Nat /\ alerts \in Nat /\ file.version \in Nat /\ loaded.version \in Nat
      /\ rates \in Nat
  <2>1. Version \subseteq Nat
    BY BoundAssumption DEF Version
  <2>2. /\ file.version \in Version /\ loaded.version \in Version /\ loaded.kind \in Kind
        /\ rules \in Version /\ alerts \in Version /\ rates \in Version
    BY <1>1
  <2>3. QED
    BY <2>1, <2>2
<1> DEFINE Goal == VersionsInv' /\ Types'
<1> HIDE DEF Config
<1>3. ASSUME Tick PROVE Goal
  BY <1>1, <1>3 DEF Tick, VersionsInv, configVars
<1>4. ASSUME ComputeRates PROVE Goal
  BY <1>1, <1>4 DEF ComputeRates, VersionsInv, configVars
<1>5. ASSUME EvaluateAlerts PROVE Goal
  BY <1>1, <1>5 DEF EvaluateAlerts, VersionsInv, configVars
<1>6. ASSUME StartReload PROVE Goal
  <2>1. CASE file.kind = "unreadable"
    BY <1>1, <1>6, <2>1 DEF StartReload, VersionsInv
  <2>2. CASE file.kind # "unreadable"
    <3>1. /\ loaded' = file /\ reloader = "idle" /\ reloader' = "rates" /\ hangup' = FALSE
          /\ UNCHANGED <<file, rates, rules, alerts, buckets, asked, ticker, computed>>
      BY <1>6, <2>2 DEF StartReload
    <3>2. alerts = rules /\ rules <= file.version /\ rules <= rates /\ rates <= file.version
      BY <1>1, <1>2, <3>1 DEF VersionsInv
    <3>3. VersionsInv'
      BY <1>1, <1>2, <3>1, <3>2 DEF VersionsInv
    <3>4. QED
      BY <1>1, <3>1, <3>3
  <2>3. QED
    BY <2>1, <2>2
<1>7. ASSUME ReplaceRates PROVE Goal
  BY <1>1, <1>2, <1>7 DEF ReplaceRates, VersionsInv
<1>8. ASSUME ReloadProcessor PROVE Goal
  <2>1. ticker # "holding"
    BY <1>8, HolderQueued DEF ReloadProcessor, DaemonInv, LocksInv, TypeOK
  <2>2. /\ reloader = "processor"
        /\ UNCHANGED <<file, hangup, loaded, rates, alerts, asked, ticker, computed>>
    BY <1>8 DEF ReloadProcessor
  <2>3. CASE loaded.kind = "badPrefix"
    BY <1>1, <1>8, <2>2, <2>3 DEF ReloadProcessor, VersionsInv
  <2>4. CASE loaded.kind # "badPrefix"
    <3>1. /\ reloader' = "alerts" /\ rules' = loaded.version
          /\ buckets' = (buckets \/ loaded.kind = "good")
      BY <1>8, <2>4 DEF ReloadProcessor
    <3>2. VersionsInv'
      BY <1>1, <1>2, <2>1, <2>2, <3>1 DEF VersionsInv
    <3>3. Types'
      BY <1>1, <1>2, <2>2, <3>1
    <3>4. QED
      BY <3>2, <3>3
  <2>5. QED
    BY <2>3, <2>4
<1>9. ASSUME ReloadAlerts PROVE Goal
  BY <1>1, <1>2, <1>9 DEF ReloadAlerts, VersionsInv
<1>10. ASSUME Edit PROVE Goal
  <2>1. PICK kind \in Kind : file' = [version |-> file.version + 1, kind |-> kind]
    BY <1>10 DEF Edit
  <2>2. file' \in Config /\ file'.version = file.version + 1
    BY <1>2, <1>10, <2>1, BoundAssumption DEF Edit, Config, Version
  <2>3. UNCHANGED <<hangup, loaded, rates, rules, alerts, buckets, asked, ticker, reloader,
                    computed>>
    BY <1>10 DEF Edit
  <2>4. QED
    BY <1>1, <1>2, <2>2, <2>3 DEF VersionsInv
<1>11. ASSUME Hangup PROVE Goal
  BY <1>1, <1>2, <1>11 DEF Hangup, VersionsInv
<1>12. ASSUME ~VersionStep PROVE Goal
  BY <1>1, <1>12, OtherVersions DEF VersionsInv, configVars
<1>13. QED
  BY <1>3, <1>4, <1>5, <1>6, <1>7, <1>8, <1>9, <1>10, <1>11, <1>12 DEF VersionStep, Config

-----------------------------------------------------------------------------
Places == {"reading", "rating", "sending", "stopped"}

\* The receivers that have a flow in hand.
Busy == {r \in Receiver : receiver[r] \in {"rating", "sending"}}

\* A receiver's step changes the number of busy ones by what it does itself.
LEMMA BusyCounts ==
  ASSUME receiver \in [Receiver -> Places], NEW r \in Receiver, NEW place \in Places,
         receiver' = [receiver EXCEPT ![r] = place]
  PROVE  LET before == receiver[r] \in {"rating", "sending"}
             after  == place \in {"rating", "sending"}
         IN  /\ Cardinality(Busy) \in Nat /\ Cardinality(Busy') \in Nat
             /\ before <=> after => Cardinality(Busy') = Cardinality(Busy)
             /\ ~before /\ after => Cardinality(Busy') = Cardinality(Busy) + 1
             /\ before /\ ~after => Cardinality(Busy') = Cardinality(Busy) - 1
<1>1. IsFiniteSet(Busy) /\ IsFiniteSet(Busy')
  BY BoundAssumption, FS_Subset DEF Busy
<1>2. Cardinality(Busy) \in Nat /\ Cardinality(Busy') \in Nat
  BY <1>1, FS_CardinalityType
<1>3. CASE receiver[r] \in {"rating", "sending"}
  <2>1. r \in Busy
    BY <1>3 DEF Busy
  <2>2. CASE place \in {"rating", "sending"}
    <3>1. Busy' = Busy
      BY <1>3, <2>2 DEF Busy
    <3>2. QED
      BY <1>2, <1>3, <2>2, <3>1
  <2>3. CASE place \notin {"rating", "sending"}
    <3>1. Busy' = Busy \ {r}
      BY <1>3, <2>3 DEF Busy
    <3>2. Cardinality(Busy') = Cardinality(Busy) - 1
      BY <1>1, <2>1, <3>1, FS_RemoveElement
    <3>3. QED
      BY <1>2, <1>3, <2>3, <3>2
  <2>4. QED
    BY <2>2, <2>3
<1>4. CASE receiver[r] \notin {"rating", "sending"}
  <2>1. r \notin Busy
    BY <1>4 DEF Busy
  <2>2. CASE place \in {"rating", "sending"}
    <3>1. Busy' = Busy \cup {r}
      BY <1>4, <2>2 DEF Busy
    <3>2. Cardinality(Busy') = Cardinality(Busy) + 1
      BY <1>1, <2>1, <3>1, FS_AddElement
    <3>3. QED
      BY <1>2, <1>4, <2>2, <3>2
  <2>3. CASE place \notin {"rating", "sending"}
    <3>1. Busy' = Busy
      BY <1>4, <2>3 DEF Busy
    <3>2. QED
      BY <1>2, <1>4, <2>3, <3>1
  <2>4. QED
    BY <2>2, <2>3
<1>5. QED
  BY <1>3, <1>4

LEMMA BusyIsNat == Cardinality(Busy) \in Nat
<1>1. IsFiniteSet(Busy)
  BY BoundAssumption, FS_Subset DEF Busy
<1>2. QED
  BY <1>1, FS_CardinalityType

\* The steps a flow takes, and the gauge.
FlowStep ==
  \/ \E r \in Receiver : Read(r) \/ ReceiverStep(r)
  \/ ProcessorStep

\* All others leave the flows alone.
LEMMA OtherFlows ==
  ASSUME [Next]_vars, ~FlowStep
  PROVE  UNCHANGED <<flowVars, processor, processed, depth>>
<1>1. ASSUME TickerStep PROVE UNCHANGED <<flowVars, processor, processed, depth>>
  BY <1>1 DEF TickerStep, Tick, ComputeRates, EvaluateAlerts
<1>2. ASSUME ReloaderStep PROVE UNCHANGED <<flowVars, processor, processed, depth>>
  BY <1>2 DEF ReloaderStep, StartReload, ReplaceRates, ReloadProcessor, ReloadAlerts
<1>3. ASSUME Edit \/ Hangup \/ UNCHANGED vars
      PROVE  UNCHANGED <<flowVars, processor, processed, depth>>
  BY <1>3 DEF Edit, Hangup, vars
<1>4. QED
  BY <1>1, <1>2, <1>3 DEF Next, FlowStep

\* No step loses a flow from the accounts.
LEMMA FlowsStep ==
  ASSUME DaemonInv, [Next]_vars
  PROVE  /\ FlowsAccounted' /\ DepthInv'
         /\ receiver' \in [Receiver -> Places]
         /\ channel' \in 0 .. Capacity /\ depth' \in 0 .. Capacity
         /\ processor' \in {"receiving", "gauging", "waiting", "stopped"}
         /\ {received', dropped', processed', lost'} \subseteq 0 .. MaxReceived
<1> DEFINE busy == Cardinality(Busy)
           hand == IF processor \in {"gauging", "waiting"} THEN 1 ELSE 0
           Counts ==
             /\ received = processed + dropped + lost + channel + busy + hand
             /\ received <= MaxReceived
             /\ processor # "stopped" => lost = 0
             /\ processor \in {"receiving", "waiting"} => depth <= channel
             /\ receiver \in [Receiver -> Places]
             /\ channel \in 0 .. Capacity /\ depth \in 0 .. Capacity
             /\ processor \in {"receiving", "gauging", "waiting", "stopped"}
             /\ received \in Nat /\ dropped \in Nat /\ processed \in Nat /\ lost \in Nat
<1>1. Counts
  <2>1. TypeOK /\ FlowsAccounted /\ DepthInv
    BY DEF DaemonInv
  <2>2. /\ received \in 0 .. MaxReceived /\ dropped \in 0 .. MaxReceived
        /\ processed \in 0 .. MaxReceived /\ lost \in 0 .. MaxReceived
    BY <2>1 DEF TypeOK
  <2>3. /\ received \in Nat /\ dropped \in Nat /\ processed \in Nat /\ lost \in Nat
        /\ received <= MaxReceived
    BY <2>2, BoundAssumption
  <2>4. InHand = busy + hand
    BY DEF InHand, Busy
  <2>5. received = processed + dropped + lost + channel + busy + hand
    BY <2>1, <2>3, <2>4, BusyIsNat, CapacityAssumption DEF FlowsAccounted, TypeOK
  <2>6. QED
    BY <2>1, <2>3, <2>5 DEF TypeOK, FlowsAccounted, DepthInv, Places
<1>2. busy \in Nat /\ Capacity \in Nat /\ MaxReceived \in Nat
  BY BusyIsNat, CapacityAssumption, BoundAssumption
<1>3. Counts' /\ busy' \in Nat =>
        /\ FlowsAccounted' /\ DepthInv'
        /\ receiver' \in [Receiver -> Places]
        /\ channel' \in 0 .. Capacity /\ depth' \in 0 .. Capacity
        /\ processor' \in {"receiving", "gauging", "waiting", "stopped"}
        /\ {received', dropped', processed', lost'} \subseteq 0 .. MaxReceived
  BY <1>2 DEF FlowsAccounted, DepthInv, InHand, Busy
<1>4. ASSUME NEW r \in Receiver, NEW place \in Places,
             receiver' = [receiver EXCEPT ![r] = place]
      PROVE  LET before == receiver[r] \in {"rating", "sending"}
                 after  == place \in {"rating", "sending"}
             IN  /\ busy' \in Nat /\ receiver' \in [Receiver -> Places]
                 /\ before <=> after => busy' = busy
                 /\ ~before /\ after => busy' = busy + 1
                 /\ before /\ ~after => busy' = busy - 1
  BY <1>1, <1>4, BusyCounts
<1>5. receiver' = receiver => busy' = busy
  BY DEF Busy
<1> HIDE DEF busy
<1> DEFINE Goal == Counts' /\ busy' \in Nat
<1>6. ASSUME NEW r \in Receiver, Read(r) PROVE Goal
  <2>1. "rating" \in Places
    BY DEF Places
  <2>2. busy' = busy + 1 /\ busy' \in Nat /\ receiver' \in [Receiver -> Places]
    BY <1>4, <1>6, <2>1 DEF Read
  <2>3. QED
    BY <1>1, <1>2, <1>6, <2>2 DEF Read
<1>7. ASSUME NEW r \in Receiver, OverrideRate(r) PROVE Goal
  <2>1. "sending" \in Places
    BY DEF Places
  <2>2. QED
    BY <1>1, <1>2, <1>4, <1>7, <2>1 DEF OverrideRate
<1>8. ASSUME NEW r \in Receiver, TrySend(r) PROVE Goal
  <2>1. "reading" \in Places /\ "stopped" \in Places
    BY DEF Places
  <2>2. ASSUME NEW place \in {"reading", "stopped"},
               receiver' = [receiver EXCEPT ![r] = place]
        PROVE  busy' = busy - 1 /\ busy' \in Nat /\ receiver' \in [Receiver -> Places]
    BY <1>4, <1>8, <2>1, <2>2 DEF TrySend
  <2>3. UNCHANGED <<received, processor, processed, depth>>
    BY <1>8 DEF TrySend
  <2>4. CASE Accepted(r)
    BY <1>1, <1>2, <2>2, <2>3, <2>4 DEF Accepted
  <2>5. CASE RefusedFull(r)
    BY <1>1, <1>2, <2>2, <2>3, <2>5 DEF RefusedFull
  <2>6. CASE RefusedClosed(r)
    BY <1>1, <1>2, <2>2, <2>3, <2>6 DEF RefusedClosed
  <2>7. QED
    BY <1>8, <2>4, <2>5, <2>6 DEF TrySend
<1>9. ASSUME Receive PROVE Goal
  BY <1>1, <1>2, <1>5, <1>9 DEF Receive
<1>10. ASSUME StoreDepth PROVE Goal
  BY <1>1, <1>2, <1>5, <1>10 DEF StoreDepth, flowVars
<1>11. ASSUME ProcessFlow PROVE Goal
  BY <1>1, <1>2, <1>5, <1>11 DEF ProcessFlow, flowVars
<1>12. ASSUME Panic PROVE Goal
  BY <1>1, <1>2, <1>5, <1>12 DEF Panic
<1>13. ASSUME ~FlowStep PROVE Goal
  BY <1>1, <1>2, <1>5, <1>13, OtherFlows DEF flowVars
<1>14. Goal
  BY <1>6, <1>7, <1>8, <1>9, <1>10, <1>11, <1>12, <1>13
     DEF FlowStep, ReceiverStep, ProcessorStep
<1>15. QED
  BY <1>3, <1>14

LEMMA DaemonInvStep == DaemonInv /\ [Next]_vars => DaemonInv'
<1> SUFFICES ASSUME DaemonInv, [Next]_vars PROVE DaemonInv'
  OBVIOUS
<1>1. TypeOK'
  BY LocksStep, VersionsStep, FlowsStep DEF TypeOK, Places
<1>2. QED
  BY <1>1, LocksStep, VersionsStep, FlowsStep DEF DaemonInv

-----------------------------------------------------------------------------
(***************************************************************************)
(* The inductive invariant holds of every behaviour of the daemon's tasks, *)
(* whatever the scheduler makes of them.                                   *)
(***************************************************************************)
THEOREM DaemonInvariance == Spec => []DaemonInv
BY InitDaemonInv, DaemonInvStep, PTL DEF Spec

(***************************************************************************)
(* The tasks of main.rs stay at their places, the channel within its       *)
(* capacity, the locks queues of tasks, the versions those of the file.    *)
(***************************************************************************)
THEOREM TypeCorrect == Spec => []TypeOK
<1>1. DaemonInv => TypeOK
  BY DEF DaemonInv
<1>2. QED
  BY <1>1, DaemonInvariance, PTL

(***************************************************************************)
(* For any number of receivers and any capacity, no flow vanishes from the *)
(* health counters while the processor task lives (run_receiver_loop,      *)
(* run_flow_processor).                                                    *)
(***************************************************************************)
THEOREM EveryFlowAccounted == Spec => []FlowsAccounted
<1>1. DaemonInv => FlowsAccounted
  BY DEF DaemonInv
<1>2. QED
  BY <1>1, DaemonInvariance, PTL

(***************************************************************************)
(* The depth gauge reads zero when the processor waits on an empty         *)
(* channel, however receivers run between its recv and its store           *)
(* (run_flow_processor).                                                   *)
(***************************************************************************)
THEOREM GaugeReturnsToZero == Spec => []GaugeSettles
<1>1. DaemonInv => GaugeSettles
  <2>1. SUFFICES ASSUME DaemonInv, processor = "receiving", channel = 0 PROVE depth = 0
    BY DEF GaugeSettles
  <2>2. depth \in Nat
    BY <2>1, CapacityAssumption DEF DaemonInv, TypeOK
  <2>3. QED
    BY <2>1, <2>2 DEF DaemonInv, DepthInv
<1>2. QED
  BY <1>1, DaemonInvariance, PTL

(***************************************************************************)
(* While the ticker evaluates, the alerts are never of a newer             *)
(* configuration than the rules behind its snapshots, for any interleaving *)
(* of ticks, flows and reloads (run_ticker, reload_config).                *)
(***************************************************************************)
THEOREM AlertsBehindRules == Spec => []AlertsNeverAhead
<1>1. DaemonInv => AlertsNeverAhead
  BY DEF DaemonInv, VersionsInv, AlertsNeverAhead
<1>2. QED
  BY <1>1, DaemonInvariance, PTL

(***************************************************************************)
(* Sampling rates and rules are of one configuration except during the     *)
(* first steps of a reload and after a configuration the processor refused *)
(* (reload_config), for any number of edits and signals.                   *)
(***************************************************************************)
THEOREM RatesOfRules == Spec => []RatesMatchRules
<1>1. DaemonInv => RatesMatchRules
  <2>1. SUFFICES ASSUME DaemonInv PROVE RatesMatchRules
    OBVIOUS
  <2>2. loaded = [version |-> loaded.version, kind |-> loaded.kind]
    BY <2>1 DEF DaemonInv, TypeOK
  <2>3. QED
    BY <2>1, <2>2 DEF DaemonInv, VersionsInv, RatesMatchRules
<1>2. QED
  BY <1>1, DaemonInvariance, PTL
=============================================================================
