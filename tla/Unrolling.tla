------------------------------ MODULE Unrolling ------------------------------
(***************************************************************************)
(* Loop unrolling (C1/src/passes/unroll.cpp).  A loop of one block that    *)
(* counts up to a bound by a constant step is replaced by several copies   *)
(* of its body: in place, the copies past the bound predicated off, or,    *)
(* when strength reduction has left addresses that advance by themselves,  *)
(* in a new block for the full groups before the old one for the rest.     *)
(* The coalescing of loads of adjacent elements into 64-bit pairs is left  *)
(* out.                                                                    *)
(***************************************************************************)
EXTENDS LoopPasses

CONSTANTS UnrollFactor,      \* copies at most: 8 in the code
          RegisterBudget     \* registers an unrolled body may need: 192 in the code

ASSUME UnrollAssumption == UnrollFactor \in Nat /\ RegisterBudget \in Nat

(* A register that exactly one LOADI of the function writes is taken to be *)
(* that constant, whatever else writes it.                                 *)
LoadsOf(fn, r) ==
  {p \in Places(fn) : InstAt(fn, p).op = "LOADI" /\ Defines(InstAt(fn, p), r)}
IsConst(fn, r) == Cardinality(LoadsOf(fn, r)) = 1
ConstOf(fn, r) == InstAt(fn, CHOOSE p \in LoadsOf(fn, r) : TRUE).imm

(* body...; ADD counter, counter, step; CMPP.lt p, counter, bound; BRX p.  *)
IsCounted(fn, b) ==
  LET insts == fn[b].insts
      n     == Len(insts)
      add   == insts[n - 2]
      cmp   == insts[n - 1]
      brx   == insts[n]
  IN /\ n >= 4
     /\ brx.op = "BRX" /\ ~brx.neg /\ fn[b].label # None /\ brx.target = fn[b].label
     /\ cmp.op = "CMPP" /\ cmp.type = "u32" /\ cmp.cmp = "lt" /\ cmp.pdst = brx.guard
     /\ add.op = "ADD" /\ add.type = "u32" /\ add.dst = add.s[1] /\ add.dst = cmp.s[1]
     /\ IsConst(fn, add.s[2]) /\ ConstOf(fn, add.s[2]) # 0

(* What the pass knows of the loop at block b.                             *)
LoopAt(fn, b) ==
  LET insts == fn[b].insts
      n     == Len(insts)
      add   == insts[n - 2]
      body  == SubSeq(insts, 1, n - 3)
      first(r, i) == \A k \in 1 .. i - 1 : ~Defines(insts[k], r)
      carried == UNION {{r \in ToSet(insts[i].s) : first(r, i)} : i \in 1 .. n}
      advances(in) == in.op = "ADD" /\ in.s[1] = in.dst /\ in.dst # add.dst
  IN [body |-> body, add |-> add, cmp |-> insts[n - 1], brx |-> insts[n],
      label |-> fn[b].label, counter |-> add.dst, bound |-> insts[n - 1].s[2],
      step |-> ConstOf(fn, add.s[2]), carried |-> carried,
      temps |-> {in.dst : in \in ToSet(body)} \ (carried \cup {None}),
      advances |-> SelectSeq(body, advances)]

(* The stride of every register that advances by itself is fixed.          *)
StridesFixed(loop) ==
  \A i \in DOMAIN loop.advances :
    LET stride == loop.advances[i].s[2]
    IN stride # loop.counter /\ ~\E in \in ToSet(loop.body) : Defines(in, stride)

(* The largest number of copies that leaves the registers room, or 0.      *)
Factor(loop) ==
  LET fits(U) == Cardinality(loop.carried) + Cardinality(loop.temps) * U + 2 * (U - 1)
                 <= RegisterBudget
  IN Max({0} \cup {U \in 2 .. UnrollFactor : fits(U)})

(* The counter starts at a constant and the copies divide the trip count.  *)
Divisible(fn, loop, U) ==
  LET start == ConstOf(fn, loop.counter)
      bound == ConstOf(fn, loop.bound)
  IN /\ IsConst(fn, loop.bound) /\ IsConst(fn, loop.counter)
     /\ bound > start /\ (bound - start) % (loop.step * U) = 0

ReadsCounter(loop) == \E in \in ToSet(loop.body) : Uses(in, loop.counter)

(* ------------------------------ the copies ----------------------------- *)

(* Fresh registers: a block of them for each copy, the last two for the    *)
(* copy's distance from the counter and its own counter, then the tail's.  *)
CopyBase(fn, loop, c) == FreshRegister(fn) + c * (Cardinality(loop.temps) + 2)

(* What an instruction past the bound must not do.                         *)
FeltInMemory(loop, in) == IsMemOp(in)   \* the accumulators forgotten
Felt(loop, in) == IsMemOp(in) \/ in.dst \in loop.carried

(* Copy c = 0, 1, ...: its temporaries are its own, the carried registers  *)
(* shared.  With "own" set it counts for itself; with a predicate p it does *)
(* nothing that would be felt outside once its count has reached the bound. *)
BodyCopy(fn, loop, c, own, p, guard) ==
  LET base     == CopyBase(fn, loop, c)
      distance == base + Cardinality(loop.temps)
      count    == distance + 1
      name(r)  == CASE r \in loop.temps -> base + Cardinality({t \in loop.temps : t < r})
                    [] r = loop.counter /\ own -> count
                    [] OTHER -> r
      copied(in) == [Renamed(in, name) EXCEPT !.dst = name(@),
                       !.guard = IF p # None /\ Felt(loop, in) THEN p ELSE @]
      moved    == {in.dst : in \in ToSet(loop.advances)}
      kept     == SelectSeq(loop.body, LAMBDA in : ~(in.op = "ADD" /\ in.dst \in moved))
  IN (IF own THEN <<LoadImm(distance, c * loop.step),
                    Arith("ADD", "u32", count, loop.counter, distance)>> ELSE <<>>)
     \o (IF p # None THEN <<[loop.cmp EXCEPT !.pdst = p, !.s[1] = count, !.guard = guard]>>
         ELSE <<>>)
     \o [i \in DOMAIN kept |-> copied(kept[i])]
     \o [i \in DOMAIN loop.advances |-> [loop.advances[i] EXCEPT !.type = "u32", !.guard = None]]

Concatenated(U, Part(_)) == FoldLeftDomain(LAMBDA out, c : out \o Part(c - 1), <<>>, [c \in 1 .. U |-> c])

(* ------------------------- full groups, then the rest ------------------- *)

(* The block before the loop is the only way in, and leaves for the exit   *)
(* when the loop's first test fails, on what it compared last.             *)
EntryGuarded(fn, b) ==
  LET loop == LoopAt(fn, b)
      pre  == fn[b - 1].insts
      out  == Last(pre)
      at   == SelectLastInSubSeq(pre, 1, Len(pre) - 1, LAMBDA in : in.op = "CMPP" /\ in.pdst = out.guard)
  IN /\ Predecessors(fn, b) \ {b} = {b - 1}
     /\ pre # <<>> /\ out.op = "BRX" /\ ~out.neg /\ out.target # loop.label
     /\ at # 0 /\ pre[at].cmp = "ge" /\ pre[at].s = <<loop.counter, loop.bound>>
     /\ \A i \in at + 1 .. Len(pre) - 1 :
          ~IsTerminator(pre[i]) /\ pre[i].dst \notin {loop.counter, loop.bound}

IsPowerOfTwo(x) == x & (x - 1) = 0

MaySplit(fn, b, U) ==
  LET loop == LoopAt(fn, b)
  IN /\ loop.advances # <<>> /\ ~Divisible(fn, loop, U)
     /\ IsPowerOfTwo(loop.step * U) /\ EntryGuarded(fn, b)

(* preds: the predicates handed out so far.                                *)
Split(fn, b, U, preds) ==
  LET loop  == LoopAt(fn, b)
      group == loop.step * U
      base  == CopyBase(fn, loop, U)
      mask  == base    remaining == base + 1    full == base + 2    ustep == base + 3
      again == preds + 1    none == preds + 2    over == preds + 3
      label == 1 + Max({fn[k].label : k \in DOMAIN fn})
      exit  == Last(fn[b - 1].insts).target
      guard == <<LoadImm(mask, Modulus - group),
                 Arith("SUB", "u32", remaining, loop.bound, loop.counter),
                 Arith("AND", "u32", remaining, remaining, mask),
                 Arith("ADD", "u32", full, loop.counter, remaining),
                 Compare("ge", none, loop.counter, full), BranchIf(none, loop.label)>>
      main  == Concatenated(U, LAMBDA c : BodyCopy(fn, loop, c, c > 0 /\ ReadsCounter(loop), None, None))
               \o <<LoadImm(ustep, group), [loop.add EXCEPT !.s[2] = ustep],
                    Compare("lt", again, loop.counter, full), BranchIf(again, label)>>
      rest  == <<Compare("ge", over, loop.counter, loop.bound), BranchIf(over, exit)>>
  IN SubSeq(fn, 1, b - 1)
     \o <<Block(None, guard), Block(label, main), Block(None, rest)>>
     \o SubSeq(fn, b, Len(fn))

(* ------------------------ in place, under predicates -------------------- *)

MemGuards(loop) == {in.guard : in \in {in \in ToSet(loop.body) : IsMemOp(in)}}

(* Predicates that no instruction of the function names.                   *)
Spare(fn) == (1 .. PredicateCount) \ {Masked(p) : p \in Predicates(fn)}

(* All memory operations are under one guard, which the loop does not      *)
(* change, and each copy but the first finds a predicate of its own.       *)
MayPredicate(fn, loop, U) ==
  /\ Cardinality(MemGuards(loop)) <= 1
  /\ \A in \in ToSet(loop.body) :
       in.pdst # None => MemGuards(loop) \cap {None} # {} \/ Masked(in.pdst) \notin MemGuards(loop)
  /\ Cardinality(Spare(fn)) >= U - 1

InPlace(fn, b, U) ==
  LET loop  == LoopAt(fn, b)
      whole == Divisible(fn, loop, U)
      guard == Max(MemGuards(loop) \cup {None})
      pred(c) == CHOOSE p \in Spare(fn) : Cardinality({q \in Spare(fn) : q < p}) = c - 1
      ustep == CopyBase(fn, loop, U)
      copies == Concatenated(U, LAMBDA c :
                  BodyCopy(fn, loop, c, c > 0 /\ (~whole \/ ReadsCounter(loop)),
                           IF c > 0 /\ ~whole THEN pred(c) ELSE None, guard))
  IN [fn EXCEPT ![b].insts =
        copies \o <<LoadImm(ustep, loop.step * U), [loop.add EXCEPT !.s[2] = ustep],
                    loop.cmp, loop.brx>>]

(* ----------------------------- the function ---------------------------- *)

IsUnrolled(fn, b) ==
  LET loop == LoopAt(fn, b)
      U    == Factor(loop)
  IN /\ IsCounted(fn, b)
     /\ StridesFixed(loop) /\ U # 0 /\ loop.step * U < Modulus
     /\ MaySplit(fn, b, U) \/ Divisible(fn, loop, U) \/ MayPredicate(fn, loop, U)

(* The blocks in order.  A split leaves the predecessors and successors of *)
(* the later blocks as they were numbered before: none of them is taken    *)
(* for a loop any more.                                                    *)
RECURSIVE UnrollFrom(_, _, _)
UnrollFrom(fn, b, preds) ==
  LET U == Factor(LoopAt(fn, b))
  IN IF b > Len(fn) THEN [fn |-> fn, preds |-> preds]
     ELSE IF ~IsUnrolled(fn, b) THEN UnrollFrom(fn, b + 1, preds)
     ELSE IF MaySplit(fn, b, U) THEN [fn |-> Split(fn, b, U, preds), preds |-> preds + 3]
     ELSE UnrollFrom(InPlace(fn, b, U), b + 1, preds)

Unroll(fn, preds) == UnrollFrom(fn, 1, preds)
=============================================================================
