------------------------------- MODULE AecIr -------------------------------
(***************************************************************************)
(* The compiler's internal form of a kernel (C1/include/aec/ir.h), its     *)
(* control flow (C1/src/ir/cfg.cpp) and what running it does.              *)
(*                                                                         *)
(* A function is a sequence of blocks, a block a label and a sequence of   *)
(* instructions.  Registers and predicates are virtual, unbounded and      *)
(* assigned any number of times: the form is not SSA.  Values are integers *)
(* modulo Modulus, which stands for 2^32.  64-bit pairs are left out, and  *)
(* of the memory spaces there are three: parameters, global memory and the *)
(* thread's local memory, which holds spilled registers.                   *)
(***************************************************************************)
EXTENDS Integers, Sequences, FiniteSets, SequencesExt, Bitwise

CONSTANTS Modulus,    \* register values are 0 .. Modulus - 1
          Fuel        \* bound: instructions a run may take

ASSUME IrAssumption == Modulus \in Nat \ {0} /\ Fuel \in Nat

Value == 0 .. Modulus - 1
Undefined == -1          \* the content of a register nobody has written

None == 0                \* no register, no predicate, no label

(* Instructions.  "s" holds the register sources in the order s1, s2, s3. *)
Inst == [op |-> "HALT", type |-> "none", dst |-> None, pdst |-> None, s |-> <<>>,
         cmp |-> "none", imm |-> 0, guard |-> None, neg |-> FALSE, target |-> None]
LoadImm(d, k)       == [Inst EXCEPT !.op = "LOADI", !.dst = d, !.imm = k]
Copy(d, a)          == [Inst EXCEPT !.op = "CPY", !.dst = d, !.s = <<a>>]
Arith(o, t, d, a, b) == [Inst EXCEPT !.op = o, !.type = t, !.dst = d, !.s = <<a, b>>]
MulAdd(d, a, b, c)  == [Inst EXCEPT !.op = "MAD", !.type = "u32", !.dst = d, !.s = <<a, b, c>>]
Param(d, k)         == [Inst EXCEPT !.op = "LD", !.dst = d, !.imm = k]
Load(d, a)          == [Inst EXCEPT !.op = "LD", !.dst = d, !.s = <<a>>]
Store(a, v)         == [Inst EXCEPT !.op = "ST", !.s = <<a, v>>]
Compare(c, p, a, b) == [Inst EXCEPT !.op = "CMPP", !.type = "u32", !.cmp = c, !.pdst = p, !.s = <<a, b>>]
Barrier             == [Inst EXCEPT !.op = "SYNC"]
BranchIf(p, l)      == [Inst EXCEPT !.op = "BRX", !.guard = p, !.target = l]
BranchUnless(p, l)  == [BranchIf(p, l) EXCEPT !.neg = TRUE]
Branch(l)           == [Inst EXCEPT !.op = "BR", !.target = l]

IsTerminator(in) == in.op \in {"BR", "BRX", "HALT"}
Defines(in, r)   == r # None /\ in.dst = r
Uses(in, r)      == \E k \in DOMAIN in.s : in.s[k] = r

Block(label, insts) == [label |-> label, insts |-> insts]
Places(fn)          == UNION {{<<b, i>> : i \in DOMAIN fn[b].insts} : b \in DOMAIN fn}
InstAt(fn, p)       == fn[p[1]].insts[p[2]]
Registers(fn)       == (UNION {{InstAt(fn, p).dst} \cup ToSet(InstAt(fn, p).s) : p \in Places(fn)}) \ {None}
Predicates(fn)      == (UNION {{InstAt(fn, p).pdst, InstAt(fn, p).guard} : p \in Places(fn)}) \ {None}
FreshRegister(fn)   == 1 + Max(Registers(fn) \cup {0})

Inverted(c) ==
  CASE c = "eq" -> "ne" [] c = "ne" -> "eq" [] c = "lt" -> "ge"
    [] c = "le" -> "gt" [] c = "gt" -> "le" [] c = "ge" -> "lt"

(* ------------------------- control flow graph -------------------------- *)

Labelled(fn, l) == CHOOSE b \in DOMAIN fn : fn[b].label = l

Successors(fn, b) ==
  LET insts == fn[b].insts
      last  == IF insts = <<>> THEN Inst ELSE Last(insts)
      ends  == insts # <<>> /\ IsTerminator(last)
      taken == IF ends /\ last.op \in {"BR", "BRX"} THEN {Labelled(fn, last.target)} ELSE {}
      falls == IF ends /\ last.op \in {"BR", "HALT"} THEN {} ELSE {b + 1} \cap DOMAIN fn
  IN taken \cup falls

Predecessors(fn, b) == {p \in DOMAIN fn : b \in Successors(fn, p)}

(* ------------------------------ execution ------------------------------ *)

(* One thread: its place, registers, predicates, the global memory it sees, *)
(* its spill slots, the observable events so far (stores and barriers) and *)
(* the addresses of global memory it has touched.                          *)
Start(input) ==
  [b |-> 1, i |-> 1, reg |-> [r \in {} |-> 0], pred |-> [p \in {} |-> FALSE],
   mem |-> input.mem, lmem |-> [a \in {} |-> 0], param |-> input.param,
   trace |-> <<>>, touched |-> {}, halted |-> FALSE, defined |-> TRUE]

At(f, x) == IF x \in DOMAIN f THEN f[x] ELSE Undefined

Wrap(v) == v % Modulus

Holds(c, a, b) ==
  CASE c = "eq" -> a = b [] c = "ne" -> a # b [] c = "lt" -> a < b
    [] c = "le" -> a <= b [] c = "gt" -> a > b [] c = "ge" -> a >= b

(* The value an instruction puts in its register; v are its sources.       *)
Computed(in, v, t) ==
  CASE in.op = "LOADI" -> in.imm
    [] in.op = "CPY"   -> v[1]
    [] in.op = "ADD"   -> Wrap(v[1] + v[2])
    [] in.op = "SUB"   -> Wrap(v[1] - v[2])
    [] in.op = "AND"   -> v[1] & v[2]
    [] in.op = "MUL"   -> Wrap(v[1] * v[2])
    [] in.op = "MAD"   -> Wrap(v[1] * v[2] + v[3])
    [] in.op = "CMP"   -> IF Holds(in.cmp, v[1], v[2]) THEN 1 ELSE 0
    [] in.op = "LD"    -> IF v = <<>> THEN t.param[in.imm] ELSE t.mem[v[1]]
    [] in.op = "LDL"   -> At(t.lmem, v[1])

Touch(t, a) == [t EXCEPT !.touched = @ \cup {a}]

(* Barriers let the stores of other threads through: every cell changes.   *)
(* Reading an undefined register gives an undefined result; an address, a  *)
(* stored value or a comparison that is undefined leaves the behaviour open. *)
Effect(t, in) ==
  LET v == [k \in DOMAIN in.s |-> At(t.reg, in.s[k])]
      undefined == \E k \in DOMAIN v : v[k] = Undefined
  IN CASE in.op = "SYNC" -> [t EXCEPT !.mem = [a \in Value |-> Wrap(@[a] + 1)],
                                      !.trace = Append(@, <<"sync">>)]
       [] in.op = "STL"  -> [t EXCEPT !.lmem = (v[1] :> v[2]) @@ @]
       [] undefined /\ in.op \in {"ST", "CMPP", "CMP", "LD"} -> [t EXCEPT !.defined = FALSE]
       [] in.op = "ST"   -> [Touch(t, v[1]) EXCEPT !.mem[v[1]] = v[2], !.trace = Append(@, v)]
       [] in.op = "CMPP" -> [t EXCEPT !.pred = (in.pdst :> Holds(in.cmp, v[1], v[2])) @@ @]
       [] OTHER -> [(IF in.op = "LD" /\ v # <<>> THEN Touch(t, v[1]) ELSE t) EXCEPT !.reg =
                      (in.dst :> IF undefined THEN Undefined ELSE Computed(in, v, t)) @@ @]

Jump(fn, t, in) == [t EXCEPT !.b = Labelled(fn, in.target), !.i = 1]

StepOf(fn, t) ==
  IF t.i > Len(fn[t.b].insts)
  THEN IF t.b = Len(fn) THEN [t EXCEPT !.halted = TRUE] ELSE [t EXCEPT !.b = @ + 1, !.i = 1]
  ELSE LET in   == fn[t.b].insts[t.i]
           set  == in.guard \in DOMAIN t.pred /\ t.pred[in.guard]   \* predicates start false
           next == [t EXCEPT !.i = @ + 1]
       IN IF in.guard # None /\ set = in.neg THEN next
          ELSE IF in.op = "HALT" THEN [t EXCEPT !.halted = TRUE]
          ELSE IF in.op \in {"BR", "BRX"} THEN Jump(fn, t, in)
          ELSE Effect(next, in)

(* Halving keeps the recursion shallow.                                    *)
RECURSIVE RunFrom(_, _, _)
RunFrom(fn, t, fuel) ==
  LET half == fuel \div 2
  IN IF fuel = 0 \/ t.halted \/ ~t.defined THEN t
     ELSE IF fuel = 1 THEN StepOf(fn, t)
     ELSE RunFrom(fn, RunFrom(fn, t, half), fuel - half)

Behaviour(fn, input) ==
  LET end == RunFrom(fn, Start(input), Fuel)
  IN [trace |-> end.trace, touched |-> end.touched, complete |-> end.halted /\ end.defined]
=============================================================================
