--------------------------- MODULE ArenaSegments ---------------------------
(***************************************************************************)
(* The free-list of DeviceMemoryPool (C3/src/scheduler/memory.py) as pure  *)
(* operators on the set of its segments.  The Python list is kept sorted   *)
(* by offset and no two segments share one, so a set says the same; where  *)
(* the code scans the list in order, the lowest offset is named here.      *)
(***************************************************************************)
EXTENDS Integers, FiniteSetsExt

CONSTANT Alignment

ASSUME AlignmentAssumption == Alignment \in Nat \ {0}

Segment(offset, size, free) == [offset |-> offset, size |-> size, free |-> free]
End(s) == s.offset + s.size

Align(n) == ((n + Alignment - 1) \div Alignment) * Alignment

BlockSize(n) == Max({Align(n), Alignment})

(* Mutant: off by one. *)
FittingStrictly(segments, size) == {s \in segments : s.free /\ s.size > size}

Fitting(segments, size) == {s \in segments : s.free /\ s.size >= size}

(* The free segment with the least slack, the first in case of a tie.      *)
BestFit(segments, size) ==
  CHOOSE s \in Fitting(segments, size) :
    \A r \in Fitting(segments, size) :
      s.size < r.size \/ (s.size = r.size /\ s.offset <= r.offset)

(* Mutant: the surplus is not given back. *)
SplitKeepsSurplus(segments, s, size) ==
  (segments \ {s}) \cup {Segment(s.offset, size, FALSE)}

Split(segments, s, size) ==
  (segments \ {s}) \cup {Segment(s.offset, size, FALSE)}
    \cup (IF s.size > size THEN {Segment(s.offset + size, s.size - size, TRUE)} ELSE {})

(* malloc: where a block of this (aligned) size goes, and what becomes of  *)
(* the segments and of the bump pointer.                                   *)
PlacedAt(segments, top, size) ==
  IF Fitting(segments, size) # {} THEN BestFit(segments, size).offset ELSE top

Placed(segments, top, size) ==
  IF Fitting(segments, size) # {} THEN Split(segments, BestFit(segments, size), size)
                                  ELSE segments \cup {Segment(top, size, FALSE)}

TopAfter(segments, top, size) == IF Fitting(segments, size) # {} THEN top ELSE top + size

(* _coalesce: every maximal run of adjacent free segments becomes one.     *)
Coalesce(segments) ==
  LET Free == {s \in segments : s.free}
      Starts == {s.offset : s \in Free} \ {End(s) : s \in Free}
      Ends == {End(s) : s \in Free} \ {s.offset : s \in Free}
  IN (segments \ Free)
       \cup {Segment(o, Min({e \in Ends : e > o}) - o, TRUE) : o \in Starts}

(* free: the allocated segment at this offset.                             *)
Released(segments, offset) ==
  Coalesce({IF s.offset = offset THEN [s EXCEPT !.free = TRUE] ELSE s : s \in segments})

(* defragment: coalesce, then pop the free segments at the top.            *)
Trailing(segments) ==
  {s \in Coalesce(segments) :
     \A r \in Coalesce(segments) : r.offset >= s.offset => r.free}

Defragmented(segments) == Coalesce(segments) \ Trailing(segments)
TopDefragmented(segments, top) == Min({top} \cup {s.offset : s \in Trailing(segments)})
=============================================================================
