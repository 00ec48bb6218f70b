------------------------------- MODULE RegAlloc -----------------------------
(***************************************************************************)
(* Register allocation (C1/src/regalloc): first virtual predicates to the  *)
(* architectural ones, then virtual registers to the register file, both   *)
(* by a linear scan over intervals of real liveness (IntervalScan), and    *)
(* both spilling when the file is full.  64-bit pairs are left out.        *)
(*                                                                         *)
(* Values are what is allocated: registers in the one, predicates in the   *)
(* other.  The operators that serve both take what an instruction uses and *)
(* what it defines as parameters.                                          *)
(***************************************************************************)
EXTENDS PredOpt, IntervalScan

(* ------------------------------- liveness ------------------------------ *)

UsesOf(in, preds) == IF preds THEN {in.guard} \ {None} ELSE ToSet(in.s)
DefsOf(in, preds) == (IF preds THEN {in.pdst} ELSE {in.dst}) \ {None}

DefinedIn(fn, b, preds) == UNION {DefsOf(fn[b].insts[i], preds) : i \in DOMAIN fn[b].insts}

UpwardExposed(fn, b, preds) ==
  LET insts == fn[b].insts
  IN {v \in UNION {UsesOf(insts[i], preds) : i \in DOMAIN insts} :
        \E i \in DOMAIN insts :
          /\ v \in UsesOf(insts[i], preds)
          /\ \A k \in 1 .. i - 1 : v \notin DefsOf(insts[k], preds)}

LiveOut(fn, b, liveIn) == UNION {liveIn[s] : s \in Successors(fn, b)}

RECURSIVE LiveIn(_, _, _)
LiveIn(fn, preds, liveIn) == \* least fixpoint from liveIn
  LET more == [b \in DOMAIN fn |->
                 UpwardExposed(fn, b, preds)
                 \cup (LiveOut(fn, b, liveIn) \ DefinedIn(fn, b, preds))]
  IN IF more = liveIn THEN liveIn ELSE LiveIn(fn, preds, more)

(* ------------------------------ intervals ------------------------------ *)

(* Instructions are numbered through; block b has the numbers after those  *)
(* of the blocks before it.                                                *)
Offset(fn, b) == MapThenSumSet(LAMBDA c : Len(fn[c].insts), 1 .. b - 1)

(* Where a value is live: at its definitions and uses, and at the ends of  *)
(* the blocks it is live into or out of.                                   *)
Positions(fn, preds, liveIn, v) ==
  UNION {LET n == Len(fn[b].insts) IN
         {Offset(fn, b) + i : i \in
            {i \in 1 .. n : \/ v \in UsesOf(fn[b].insts[i], preds) \cup DefsOf(fn[b].insts[i], preds)
                            \/ i = 1 /\ v \in liveIn[b]
                            \/ i = n /\ v \in LiveOut(fn, b, liveIn)}} : b \in DOMAIN fn}

Intervals(fn, preds) ==
  LET liveIn == LiveIn(fn, preds, [b \in DOMAIN fn |-> {}])
      values == IF preds THEN Predicates(fn) ELSE Registers(fn)
  IN {LET at == Positions(fn, preds, liveIn, v) IN [v |-> v, start |-> Min(at), end |-> Max(at)] :
        v \in values}

(* ------------------------- predicate allocation ------------------------ *)

IsSpilled(v) == Contains(spilled, v)

(* The last predicate reloads spilled ones; the others are handed out.     *)
ScratchPredicateBeyond == PredicateCount + 1   \* as if 8 were counted from 1
ScratchPredicate == PredicateCount

(* What the scan has decided is written into the code.                     *)
PredicatesAllocated(fn) ==
  LET reg  == FreshRegister(fn)
      zero == reg + PredicateCount + Len(spilled)
      backing(p) == reg + p
      reload(in) ==
        IF in.guard # None /\ IsSpilled(in.guard)
        THEN <<Compare("ne", ScratchPredicate, backing(in.guard), zero)>>
        ELSE <<>>
      guarded(in) ==
        [in EXCEPT !.guard = IF @ = None THEN None
                             ELSE IF IsSpilled(@) THEN ScratchPredicate ELSE home[@]]
      defining(in) ==
        IF in.pdst = None THEN in
        ELSE IF IsSpilled(in.pdst)
             THEN [in EXCEPT !.op = "CMP", !.pdst = None, !.dst = backing(in.pdst)]
             ELSE [in EXCEPT !.pdst = home[@]]
      rewritten(insts) ==
        FoldLeft(LAMBDA out, in : out \o reload(in) \o <<defining(guarded(in))>>, <<>>, insts)
      new == EachBlock(fn, rewritten)
  IN IF spilled = <<>> THEN new ELSE [new EXCEPT ![1].insts = <<LoadImm(zero, 0)>> \o @]

(* -------------------------- register allocation ------------------------ *)

(* Registers 1 .. top are handed out; the next holds the address and those *)
(* after it the values of spilled operands.                                *)
AddressScratch(top) == top + 1

Reload(top, val, slot) ==
  <<LoadImm(AddressScratch(top), slot),
    [Inst EXCEPT !.op = "LDL", !.dst = val, !.s = <<AddressScratch(top)>>]>>

SpillStore(top, val, slot) ==
  <<LoadImm(AddressScratch(top), slot),
    [Inst EXCEPT !.op = "STL", !.s = <<AddressScratch(top), val>>]>>

(* The registers an instruction names, destination first, each once.       *)
Operands(in) ==
  FoldLeft(LAMBDA out, r : IF r = None \/ Contains(out, r) THEN out ELSE Append(out, r),
           <<>>, <<in.dst>> \o in.s)

LinearScan(fn, top) ==
  LET slot(r) == CHOOSE k \in DOMAIN spilled : spilled[k] = r
      scratch(in, r) ==
        LET needy == SelectSeq(Operands(in), IsSpilled)
        IN AddressScratch(top) + CHOOSE k \in DOMAIN needy : needy[k] = r
      place(in, r) == IF IsSpilled(r) THEN scratch(in, r) ELSE home[r]
      reloads(in) ==
        FoldLeft(LAMBDA out, r : IF IsSpilled(r) /\ Uses(in, r)
                                 THEN out \o Reload(top, scratch(in, r), slot(r)) ELSE out,
                 <<>>, Operands([in EXCEPT !.dst = None]))
      located(in) ==
        [in EXCEPT !.s = [k \in DOMAIN @ |-> place(in, @[k])],
                   !.dst = IF @ = None THEN None ELSE place(in, @)]
      stores(in) ==
        IF in.dst # None /\ IsSpilled(in.dst)
        THEN SpillStore(top, scratch(in, in.dst), slot(in.dst)) ELSE <<>>
      rewritten(insts) ==
        FoldLeft(LAMBDA out, in : out \o reloads(in) \o <<located(in)>> \o stores(in), <<>>, insts)
  IN EachBlock(fn, rewritten)
=============================================================================
