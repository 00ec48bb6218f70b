----------------------------- MODULE LocalPasses ----------------------------
(***************************************************************************)
(* The compiler's passes over single blocks: constant propagation, copy    *)
(* propagation, common subexpressions, multiply-add contraction, and dead  *)
(* code elimination (C1/src/passes).  Each is an operator from functions   *)
(* to functions.  A pass over a block is a fold over its instructions      *)
(* whose accumulator holds the maps the code keeps and the instructions    *)
(* emitted so far, "out".  What the code does for 64-bit pairs is left     *)
(* out with the pairs.                                                     *)
(***************************************************************************)
EXTENDS AecIr

EachBlock(fn, Pass(_)) == [b \in DOMAIN fn |-> [fn[b] EXCEPT !.insts = Pass(@)]]

NoMap == [r \in {} |-> None]
Without(f, R) == Restrict(f, DOMAIN f \ R)

Kept(insts, Keep(_)) == \* the instructions at the positions that satisfy Keep
  FoldLeftDomain(LAMBDA out, i : IF Keep(i) THEN Append(out, insts[i]) ELSE out, <<>>, insts)

UseCount(fn, r) ==
  Cardinality(UNION {{<<p, k>> : k \in {k \in DOMAIN InstAt(fn, p).s : InstAt(fn, p).s[k] = r}} :
                       p \in Places(fn)})

(* ------------------------- constant propagation ------------------------ *)

Folded(in, known) ==
  IF /\ in.type = "u32"
     /\ in.op \in {"ADD", "MUL"}
     /\ \A k \in DOMAIN in.s : in.s[k] \in DOMAIN known
  THEN LET v == IF in.op = "ADD" THEN known[in.s[1]] + known[in.s[2]]
                                 ELSE known[in.s[1]] * known[in.s[2]]
       IN [in EXCEPT !.op = "LOADI", !.s = <<>>, !.imm = Wrap(v)]
  ELSE in

Constants(known, in) ==
  IF in.dst = None THEN known
  ELSE IF in.op = "LOADI" /\ in.guard = None THEN (in.dst :> in.imm) @@ known
  ELSE Without(known, {in.dst})

ConstPropBlock(insts) ==
  FoldLeft(LAMBDA acc, in : LET new == Folded(in, acc.known)
                            IN [out |-> Append(acc.out, new), known |-> Constants(acc.known, new)],
           [out |-> <<>>, known |-> NoMap], insts).out

ConstProp(fn) == EachBlock(fn, ConstPropBlock)

(* --------------------------- copy propagation -------------------------- *)

RECURSIVE Original(_, _)
Original(copyOf, r) == IF r \in DOMAIN copyOf THEN Original(copyOf, copyOf[r]) ELSE r

Renamed(in, Name(_)) == [in EXCEPT !.s = [k \in DOMAIN @ |-> Name(@[k])]]

Forget(names, r) == \* drops every entry that mentions r
  Restrict(names, {d \in DOMAIN names : d # r /\ names[d] # r})

Copies(copyOf, in) ==
  LET left == Forget(copyOf, in.dst)
  IN IF in.dst = None THEN copyOf
     ELSE IF in.op = "CPY" /\ in.guard = None /\ in.s[1] # in.dst
          THEN (in.dst :> in.s[1]) @@ left
     ELSE left

CopyPropBlock(insts) ==
  FoldLeft(LAMBDA acc, in : LET new == Renamed(in, LAMBDA r : Original(acc.copyOf, r))
                            IN [out |-> Append(acc.out, new), copyOf |-> Copies(acc.copyOf, new)],
           [out |-> <<>>, copyOf |-> NoMap], insts).out

CopyProp(fn) == EachBlock(fn, CopyPropBlock)

(* ------------- common subexpressions and redundant loads --------------- *)

IsPure(in) == ~IsTerminator(in) /\ in.op \notin {"LD", "ST", "CMPP", "CMP", "SYNC"}

IsAddressedLoad(in) == in.op = "LD" /\ in.s # <<>>

(* An available value is the instruction that computed it.                 *)
SameValue(e, in) ==
  \/ IsPure(in) /\ <<e.op, e.type, e.imm, e.s>> = <<in.op, in.type, in.imm, in.s>>
  \/ IsAddressedLoad(in) /\ <<e.op, e.type, e.guard, e.s>> = <<in.op, in.type, in.guard, in.s>>

Earlier(avail, in) == SelectInSeq(avail, LAMBDA e : SameValue(e, in))

(* The per-block renaming reaches every use of r.                          *)
LocalOnly(fn, b, r) ==
  \A c \in DOMAIN fn \ {b} : \A i \in DOMAIN fn[c].insts : ~Uses(fn[c].insts[i], r)

AfterMemoryStore(avail, in) == \* a barrier is taken for no store
  IF in.op = "ST" THEN SelectSeq(avail, LAMBDA e : e.op # "LD") ELSE avail
AfterMemory(avail, in) == \* a store may alias every load of its space, a barrier all of them
  IF in.op \in {"ST", "SYNC"} THEN SelectSeq(avail, LAMBDA e : e.op # "LD") ELSE avail

AfterDefinition(avail, in) ==
  IF in.dst = None THEN avail
  ELSE LET left == SelectSeq(avail, LAMBDA e : e.dst # in.dst /\ ~Uses(e, in.dst))
       IN IF IsPure(in) \/ IsAddressedLoad(in) THEN Append(left, in) ELSE left

CseStep(fn, b, acc, source) ==
  LET in == Renamed(source, LAMBDA r : IF r \in DOMAIN acc.rename THEN acc.rename[r] ELSE r)
      earlier == Earlier(acc.avail, in)
  IN IF earlier # 0 /\ in.dst # None /\ LocalOnly(fn, b, in.dst)
     THEN [acc EXCEPT !.rename = (in.dst :> acc.avail[earlier].dst) @@ @]
     ELSE [out    |-> Append(acc.out, in),
           avail  |-> AfterDefinition(AfterMemory(acc.avail, in), in),
           rename |-> IF in.dst = None THEN acc.rename ELSE Forget(acc.rename, in.dst)]

Cse(fn) ==
  [b \in DOMAIN fn |-> [fn[b] EXCEPT !.insts =
     FoldLeft(LAMBDA acc, in : CseStep(fn, b, acc, in),
              [out |-> <<>>, avail |-> <<>>, rename |-> NoMap], @).out]]

(* ----------------------- multiply-add contraction ---------------------- *)

(* Where the result of the multiply at i is used, if the operands are      *)
(* unchanged up to there and that is a fitting ADD; else 0.                *)
AddOf(insts, i) ==
  LET mul   == insts[i]
      stops == SelectInSubSeq(insts, i + 1, Len(insts),
                 LAMBDA in : (\E k \in 1 .. 2 : Defines(in, mul.s[k])) \/ Uses(in, mul.dst))
      add   == insts[stops]
      takes == /\ ~\E k \in 1 .. 2 : Defines(add, mul.s[k])
               /\ <<add.op, add.type, add.guard>> = <<"ADD", mul.type, mul.guard>>
               /\ add.s[1] = mul.dst <=> add.s[2] # mul.dst
  IN IF stops # 0 /\ takes THEN stops ELSE 0

Contractible(fn, in) == in.op = "MUL" /\ in.type = "f32" /\ UseCount(fn, in.dst) = 1

MadContractBlock(fn, insts) ==
  LET step(acc, i) ==
        LET mul == acc.insts[i]
            j   == IF Contractible(fn, mul) THEN AddOf(acc.insts, i) ELSE 0
            add == acc.insts[j]
            other == IF add.s[1] = mul.dst THEN add.s[2] ELSE add.s[1]
        IN IF j = 0 THEN acc
           ELSE [insts |-> [acc.insts EXCEPT ![j].op = "MAD", ![j].s = Append(mul.s, other)],
                 del   |-> acc.del \cup {i}]
      end == FoldLeftDomain(step, [insts |-> insts, del |-> {}], insts)
  IN Kept(end.insts, LAMBDA i : i \notin end.del)

MadContract(fn) == EachBlock(fn, LAMBDA insts : MadContractBlock(fn, insts))

(* ------------------------- dead code elimination ----------------------- *)

HasSideEffect(in) == IsTerminator(in) \/ in.op \in {"ST", "SYNC"}

Removable(fn, in) ==
  in.dst # None /\ UseCount(fn, in.dst) = 0 /\ ~HasSideEffect(in) /\ in.op # "LD"

DceSweep(fn) == EachBlock(fn, LAMBDA insts : SelectSeq(insts, LAMBDA in : ~Removable(fn, in)))

RECURSIVE Dce(_)
Dce(fn) == LET swept == DceSweep(fn) IN IF swept = fn THEN fn ELSE Dce(swept)
=============================================================================
