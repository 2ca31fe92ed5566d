---------------------------- MODULE SlidingWindow ----------------------------
(***************************************************************************)
(* One ring buffer as the processor task uses it.  Flows are recorded one  *)
(* at a time under the second they were received in; the ticker asks for   *)
(* the totals of the window that ends at the second it read.               *)
(*                                                                         *)
(* Flows reach the ring almost in the order they were received: they come  *)
(* through one FIFO channel, filled by two receivers that stamp a flow     *)
(* before they send it, from a host clock that may be stepped back.  A     *)
(* flow that is a window or more behind the newest one finds its bucket in *)
(* the hands of a newer second and takes it over.  Lag bounds, in seconds, *)
(* how far behind the newest recorded second a flow may be; it may exceed  *)
(* the window.                                                             *)
(*                                                                         *)
(* `recorded` and `displaced` are history variables: the traffic really    *)
(* received in each second, against which the answers of the ring are      *)
(* judged, and the seconds whose bucket such a late flow came into.        *)
(***************************************************************************)
EXTENDS RingBuffer

CONSTANTS
  Window,   \* buckets in the ring, FlowProcessor::window_secs
  Lag,      \* how late, in seconds, a flow may be recorded
  Volume,   \* the volumes a flow may have
  Start,    \* the first second of the run, in Unix time
  MaxTime,  \* bound on the seconds of the run
  MaxFlows  \* bound on the flows recorded

ASSUME WindowAssumption == Window \in Nat \ {0}

ASSUME LagAssumption == Lag \in Nat

ASSUME VolumeAssumption == Volume \subseteq [Measure -> Nat]

\* Unix time is far above the window, so `now - i` never saturates.
ASSUME TimeAssumption ==
  /\ Start \in Nat /\ MaxTime \in Nat
  /\ Window <= Start /\ Start <= MaxTime

ASSUME BoundAssumption == MaxFlows \in Nat

VARIABLES
  ring,      \* the buckets
  newest,    \* the latest second recorded so far
  recorded,  \* history: traffic received in each second
  displaced, \* history: seconds whose bucket a flow too late came into
  flows      \* history: number of flows recorded

vars == <<ring, newest, recorded, displaced, flows>>

Times == Start .. MaxTime

TypeOK ==
  /\ ring \in Ring(Window)
  /\ newest \in Times
  /\ recorded \in [Times -> [Measure -> Nat]]
  /\ displaced \subseteq Times
  /\ flows \in 0 .. MaxFlows

Init ==
  /\ ring = NewRing(Window)
  /\ newest = Start
  /\ recorded = [t \in Times |-> NoTraffic]
  /\ displaced = {}
  /\ flows = 0

\* The seconds so far that share the bucket of t.
SecondsOfBucket(t) == {s \in Times : s <= newest /\ s % Window = t % Window}

\* add_instant_flow, for a flow received in second t.
Record(t, volume) ==
  /\ flows < MaxFlows
  /\ newest - t <= Lag
  /\ ring' = AddInstantFlow(Window, ring, t, volume)
  /\ newest' = IF t > newest THEN t ELSE newest
  /\ recorded' = [recorded EXCEPT ![t] = [m \in Measure |-> @[m] + volume[m]]]
  /\ displaced' = IF newest - t >= Window
                     THEN displaced \cup SecondsOfBucket(t) ELSE displaced
  /\ flows' = flows + 1

Next == \E t \in Times, volume \in Volume : Record(t, volume)

Spec == Init /\ [][Next]_vars

-----------------------------------------------------------------------------
\* The traffic received i seconds before now.
TrueContribution(now, m) ==
  [i \in 0 .. (Window - 1) |->
     IF now - i \in Times THEN recorded[now - i][m] ELSE 0]

TrueTotal(now, m) == SumFunction(TrueContribution(now, m))

(***************************************************************************)
(* A rate computed at a second no older than the newest flow is the rate   *)
(* of exactly the flows received in the last Window seconds: none is       *)
(* forgotten when the ring wraps around, none is left over from an earlier *)
(* turn, and late flows count.  The one exception: a window with a second  *)
(* whose bucket was meanwhile taken over by a flow that came a window or   *)
(* more too late (compute_rates, ring_buffer.rs).                          *)
(***************************************************************************)
WindowExact ==
  \A now \in newest .. MaxTime, m \in Measure :
     (\A i \in 0 .. (Window - 1) : now - i \notin displaced)
        => WindowTotal(Window, ring, now, m) = TrueTotal(now, m)

(***************************************************************************)
(* No second is ever counted for more than it received, whenever the rate  *)
(* is computed and however late flows come.  A rate computed at a second   *)
(* older than the newest flow (the ticker reads the time before it waits   *)
(* for the processor lock) may miss seconds that the newer flows have      *)
(* overwritten, but only those at least a window older than the newest     *)
(* flow; a flow that is itself that late costs the seconds of its own      *)
(* bucket up to then, and no other; every other second counts exactly.     *)
(***************************************************************************)
StaleClockBounded ==
  \A now \in Times, m \in Measure, i \in 0 .. (Window - 1) :
     LET counted == Contribution(Window, ring, now, m)[i]
         true    == TrueContribution(now, m)[i]
     IN  /\ counted <= true
         /\ now - i > newest - Window /\ now - i \notin displaced
               => counted = true
=============================================================================
