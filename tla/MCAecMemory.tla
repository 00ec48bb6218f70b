---------------------------- MODULE MCAecMemory ----------------------------
(* Instances of AecMemory for TLC; addresses are numbers, threads are      *)
(* interchangeable model values.                                           *)
EXTENDS AecMemory, TLC

Symmetry == Permutations(Thread)

(* Spans of up to two bytes at the bottom, in the middle and at the top of *)
(* the address space: several fit side by side, the ones at the top wrap.  *)
ShortSpans == {0, 2, 3, 6, 7} \X (0..2)

(* Buffers that exist: the pointer one past their end is an address.       *)
ShortBuffers == {span \in ShortSpans : span[1] + span[2] < Word}
=============================================================================
