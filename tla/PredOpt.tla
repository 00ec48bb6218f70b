------------------------------- MODULE PredOpt ------------------------------
(***************************************************************************)
(* If-conversion of bounds guards (C1/src/passes/pred_opt.cpp): a branch   *)
(* that skips forward is deleted, its compare becomes a "keep" predicate,  *)
(* and the instructions behind it that must not happen for a lane that was *)
(* to skip are executed under that predicate.                              *)
(***************************************************************************)
EXTENDS LocalPasses

CONSTANT PredicateCount    \* architectural predicates, 8 in the code

(* The three bits of a predicate number that the code compares.            *)
Masked(p) == ((p - 1) % PredicateCount) + 1

IsMemOpStore(in) == in.op = "ST"   \* loads taken to be harmless
IsMemOp(in) == in.op \in {"LD", "ST"}

(* The compare a guard block's branch depends on: the last one before it.  *)
CompareOf(insts) ==
  SelectLastInSubSeq(insts, 1, Len(insts) - 1,
    LAMBDA in : in.op = "CMPP" /\ Masked(in.pdst) = Masked(Last(insts).guard))

(* A later block that branches back makes a block a loop header, and its   *)
(* branch the exit of the loop.                                            *)
IsGuard(fn, b) ==
  LET insts == fn[b].insts
  IN /\ insts # <<>> /\ Last(insts).op = "BRX"
     /\ Labelled(fn, Last(insts).target) > b
     /\ \A later \in b + 1 .. Len(fn) : b \notin Successors(fn, later)
     /\ CompareOf(insts) # 0

(* The keep compare of a guard: the first stands alone, each later one is  *)
(* cleared and then made under the keep before it.                         *)
Keeps(insts, keep) ==
  LET at   == CompareOf(insts)
      cmp  == insts[at]
      pred == Masked(Last(insts).guard)
      kept == [cmp EXCEPT !.cmp = IF Last(insts).neg THEN @ ELSE Inverted(@)]
      clear == [Inst EXCEPT !.op = "CMPP", !.type = cmp.type, !.pdst = pred,
                            !.s = <<cmp.s[1], cmp.s[1]>>, !.cmp = "ne"]
      chained == IF keep = None THEN <<kept>> ELSE <<clear, [kept EXCEPT !.guard = keep]>>
  IN SubSeq(insts, 1, at - 1) \o chained \o SubSeq(insts, at + 1, Len(insts) - 1)

Guards(fn) == {b \in DOMAIN fn : IsGuard(fn, b)}

(* The predicate that guard b leaves behind.                               *)
KeepOf(fn, b) == Masked(Last(fn[b].insts).guard)

WithoutBranches(fn) ==
  [b \in DOMAIN fn |->
     IF ~IsGuard(fn, b) THEN fn[b]
     ELSE LET before == {g \in Guards(fn) : g < b}
              keep == IF before = {} THEN None ELSE KeepOf(fn, Max(before))
          IN [fn[b] EXCEPT !.insts = Keeps(@, keep)]]

(* Every block from the last guard on, the target of its branch excepted.  *)
InBody(fn) ==
  LET lastGuard == Max(Guards(fn))
  IN {b \in DOMAIN fn : b > lastGuard} \ {Labelled(fn, Last(fn[lastGuard].insts).target)}

UsedIn(fn, blocks) == UNION {ToSet(InstAt(fn, p).s) : p \in {p \in Places(fn) : p[1] \in blocks}}

Predicated(in, keep, escaping) ==
  IF /\ in.guard = None /\ ~IsTerminator(in)
     /\ IsMemOp(in) \/ in.dst \in escaping
  THEN [in EXCEPT !.guard = keep]
  ELSE in

PredOpt(fn) ==
  IF Guards(fn) = {} THEN fn
  ELSE LET body     == InBody(fn)
           keep     == KeepOf(fn, Max(Guards(fn)))
           new      == WithoutBranches(fn)
           escaping == UsedIn(new, DOMAIN fn \ body)
       IN [b \in DOMAIN fn |->
             IF b \notin body THEN new[b]
             ELSE [new[b] EXCEPT !.insts =
                     [i \in DOMAIN @ |-> Predicated(@[i], keep, escaping)]]]
=============================================================================
