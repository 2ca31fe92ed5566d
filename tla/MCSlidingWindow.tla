--------------------------- MODULE MCSlidingWindow ---------------------------
(* SlidingWindow on a small instance: a window of three seconds, a run of   *)
(* seven, so that a bucket is reused, overtaken by a later second or hit by *)
(* a late flow in every order of five flows.                                *)
EXTENDS SlidingWindow

Flow(b, p) == [m \in Measure |-> CASE m = "bytes"   -> b
                                   [] m = "packets" -> p
                                   [] OTHER         -> 1]

MCVolume == {Flow(1, 2), Flow(3, 1)}
=============================================================================
