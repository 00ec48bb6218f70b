-------------------------------- MODULE Arena -------------------------------
(***************************************************************************)
(* What a memory pool promises, with no free-list in sight: live blocks    *)
(* are disjoint, a request is served inside the arena whenever a gap       *)
(* between live blocks is large enough, and the arena grows only when none *)
(* is.                                                                     *)
(***************************************************************************)
EXTENDS Integers

CONSTANTS BlockSizes (* the sizes of blocks *)

VARIABLES
  live, (* the live blocks: offset and size    *)
  top   (* the arena extends over 0..(top - 1) *)

arena == <<live, top>>

Init == live = {} /\ top = 0

Clear(offset, size) ==
  /\ offset + size <= top
  /\ \A b \in live : offset + size <= b.offset \/ b.offset + b.size <= offset

Add(offset, size) == live' = live \cup {[offset |-> offset, size |-> size]}

AllocInGap(size) ==
  /\ \E offset \in 0..top : Clear(offset, size) /\ Add(offset, size)
  /\ UNCHANGED top

AllocAtTop(size) ==
  /\ \A offset \in 0..top : ~ Clear(offset, size)
  /\ Add(top, size)
  /\ top' = top + size

Free ==
  /\ \E b \in live : live' = live \ {b}
  /\ UNCHANGED top

(* The arena shrinks to the end of the highest live block.                 *)
Trim ==
  /\ UNCHANGED live
  /\ top' < top
  /\ top' \in {0} \cup {b.offset + b.size : b \in live}
  /\ \A b \in live : b.offset + b.size <= top'

Next == (\E size \in BlockSizes : AllocInGap(size) \/ AllocAtTop(size)) \/ Free \/ Trim

Spec == Init /\ [][Next]_arena
=============================================================================
