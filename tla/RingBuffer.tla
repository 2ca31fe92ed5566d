----------------------------- MODULE RingBuffer -----------------------------
(***************************************************************************)
(* The per-second ring of ring_buffer.rs: `window` buckets, one per second *)
(* of the sliding window, each holding the traffic of the second written   *)
(* in its timestamp.  The module has no variables: a ring is a value (a    *)
(* function from bucket indices to buckets) that the state machines of its *)
(* clients hold, SlidingWindow for one ring and FlowProcessor for all of   *)
(* them.                                                                   *)
(*                                                                         *)
(* The three counters of a bucket are treated alike by the code, so a      *)
(* bucket carries one function from measures to sums.                      *)
(***************************************************************************)
EXTENDS Integers, Functions

Measure == {"bytes", "packets", "flows"}

NoTraffic == [m \in Measure |-> 0]

Bucket == [timestamp : Nat, sum : [Measure -> Nat]]

Ring(window) == [0 .. (window - 1) -> Bucket]

\* Mutant of NewRing: one bucket too many.
NewRingTooLong(window) ==
  [i \in 0 .. window |-> [timestamp |-> 0, sum |-> NoTraffic]]

\* RingBuffer::new: every bucket is Bucket::default(), of timestamp zero.
NewRing(window) ==
  [i \in 0 .. (window - 1) |-> [timestamp |-> 0, sum |-> NoTraffic]]

\* Only defined for window > 0: the code divides by buckets.len().
BucketIndex(window, timestamp) == timestamp % window

ResetBucket(timestamp) == [timestamp |-> timestamp, sum |-> NoTraffic]

\* Mutant of GetOrResetBucket: the bucket is renamed but not emptied.
GetOrKeepBucket(bucket, timestamp) == [bucket EXCEPT !.timestamp = timestamp]

\* A bucket left by another second, older or newer, is emptied before use.
GetOrResetBucket(bucket, timestamp) ==
  IF bucket.timestamp # timestamp THEN ResetBucket(timestamp) ELSE bucket

\* `volume` is what one flow adds: its bytes, its packets, and one flow.
AddInstantFlow(window, ring, timestamp, volume) ==
  LET idx    == BucketIndex(window, timestamp)
      bucket == GetOrResetBucket(ring[idx], timestamp)
  IN  [ring EXCEPT ![idx] =
         [timestamp |-> bucket.timestamp,
          sum       |-> [m \in Measure |-> bucket.sum[m] + volume[m]]]]

SaturatingSub(a, b) == IF a >= b THEN a - b ELSE 0

\* Mutant of ReadSecond: whatever second the bucket holds counts.
ReadAnySecond(window, ring, t, m) == ring[BucketIndex(window, t)].sum[m]

\* What the ring answers for one second: nothing unless the second's bucket
\* still carries that second's timestamp.
ReadSecond(window, ring, t, m) ==
  LET bucket == ring[BucketIndex(window, t)]
  IN  IF bucket.timestamp = t THEN bucket.sum[m] ELSE 0

\* The terms compute_rates adds up, from the current second backwards.
Contribution(window, ring, now, m) ==
  [i \in 0 .. (window - 1) |->
     ReadSecond(window, ring, SaturatingSub(now, i), m)]

(***************************************************************************)
(* compute_rates divides the totals by the window length; bps also         *)
(* multiplies the bytes by 8.  Both are constant factors, so the rates are *)
(* represented by the totals they are computed from.                       *)
(***************************************************************************)
WindowTotal(window, ring, now, m) == SumFunction(Contribution(window, ring, now, m))
=============================================================================
