------------------------------ MODULE ListSched -----------------------------
(***************************************************************************)
(* The list scheduler (C1/src/sched/list_sched.cpp): it orders each block, *)
(* its terminator apart, by the latency of the longest chain of dependent  *)
(* instructions that starts at each.  Which pairs issue together is left   *)
(* out: the code counts them and does nothing else with them.              *)
(***************************************************************************)
EXTENDS PredOpt

(* Registers and predicates read and written.  The code masks predicates   *)
(* to three bits here, before they are allocated.                          *)
Reads(in) ==
  {<<"reg", r>> : r \in ToSet(in.s)}
  \cup (IF in.guard = None THEN {} ELSE {<<"pred", Masked(in.guard)>>})

Writes(in) ==
  IF in.dst # None THEN {<<"reg", in.dst>>}
  ELSE IF in.pdst # None THEN {<<"pred", Masked(in.pdst)>>} ELSE {}

IsMemOrBarrier(in) == in.op \in {"LD", "ST", "SYNC"}

LatencyOf(in) == IF in.op = "LD" THEN (IF in.s = <<>> THEN 2 ELSE 32) ELSE 1

(* j must stay behind i: it reads or overwrites what i was the last to     *)
(* write, overwrites what i reads, or is the next to touch memory.         *)
Depends(insts, i, j) ==
  LET between == i + 1 .. j - 1
      overwritten(K, x) == \E k \in K : x \in Writes(insts[k])
  IN \/ \E x \in Writes(insts[i]) \cap (Reads(insts[j]) \cup Writes(insts[j])) :
          ~overwritten(between, x)
     \/ \E x \in Reads(insts[i]) \cap Writes(insts[j]) : ~overwritten(between \cup {i}, x)
     \/ /\ IsMemOrBarrier(insts[i]) /\ IsMemOrBarrier(insts[j])
        /\ \A k \in between : ~IsMemOrBarrier(insts[k])

Edges(insts, N) == {e \in (1 .. N) \X (1 .. N) : e[1] < e[2] /\ Depends(insts, e[1], e[2])}

RECURSIVE Heights(_, _, _, _)
Heights(insts, edges, i, above) == \* above: the heights of i + 1 .. N
  IF i = 0 THEN above
  ELSE LET h == LatencyOf(insts[i]) + Max({0} \cup {above[e[2]] : e \in {e \in edges : e[1] = i}})
       IN Heights(insts, edges, i - 1, (i :> h) @@ above)

(* The instruction to place next: of those all of whose predecessors are   *)
(* placed, the highest, and of these the first.                            *)
Best(edges, height, left) ==
  LET ready == {i \in left : \A e \in edges : e[2] = i => e[1] \notin left}
      top   == {i \in ready : \A j \in ready : height[i] >= height[j]}
  IN Min(top)

RECURSIVE Ordered(_, _, _)
Ordered(edges, height, left) ==
  IF left = {} THEN <<>>
  ELSE LET best == Best(edges, height, left)
       IN <<best>> \o Ordered(edges, height, left \ {best})

ScheduleBlock(insts) ==
  LET term  == IF insts # <<>> /\ IsTerminator(Last(insts)) THEN <<Last(insts)>> ELSE <<>>
      N     == Len(insts) - Len(term)
      edges == Edges(insts, N)
      order == Ordered(edges, Heights(insts, edges, N, [i \in {} |-> 0]), 1 .. N)
  IN [k \in 1 .. N |-> insts[order[k]]] \o term

ListSchedule(fn) == EachBlock(fn, ScheduleBlock)
=============================================================================
