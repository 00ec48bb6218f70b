---------------------------- MODULE MCAecStreams ----------------------------
(* Instances of AecStreams for TLC: threads and stream addresses are       *)
(* interchangeable model values.                                           *)
EXTENDS AecStreams, TLC

Symmetry == Permutations(Thread) \cup Permutations(StreamAddr) \cup Permutations(EventAddr)
=============================================================================
