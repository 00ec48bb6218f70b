----------------------------- MODULE MCCompiler -----------------------------
(* Small kernels: two parameters in registers 1 and 2, then a few           *)
(* instructions of every kind.                                             *)
EXTENDS Compiler

Binary(d, R) ==
  {Arith(ot[1], ot[2], d, ab[1], ab[2]) :
     ot \in {<<"ADD", "u32">>, <<"ADD", "f32">>, <<"MUL", "f32">>},
     ab \in {ab \in R \X R : ab[1] < ab[2]}}

Makes(d, R) ==
  {LoadImm(d, 1)} \cup {Copy(d, a) : a \in R} \cup {Load(d, a) : a \in R} \cup Binary(d, R)

Prologue == <<Param(1, 1), Param(2, 2)>>

Straight ==
  {<<Block(None, Prologue \o <<x>> \o y \o <<z, Store(1, 5), Store(2, 4)>>)>> :
     x \in Makes(3, {1, 2}),
     y \in {<<i>> : i \in Makes(4, {2, 3})}
           \cup {<<i, Copy(4, 2)>> : i \in {Store(1, 2), Store(2, 1), Barrier}},
     z \in Makes(5, {1, 3, 4})}

(* Register 3 gets a second value.                                         *)
Reused ==
  {<<Block(None, Prologue \o <<LoadImm(3, 1), x, again, y, Store(1, 5), Store(2, r)>>)>> :
     r \in {3, 4},
     x \in {Copy(4, 3)} \cup Binary(4, {1, 3}),
     again \in {LoadImm(3, 2), Copy(3, 2), Load(3, 2)},
     y \in {Copy(5, 3), Arith("ADD", "u32", 5, 3, 3)} \cup Binary(5, {1, 3}) \cup Binary(5, {2, 4}) \cup Binary(5, {3, 4})}

(* ---- loops: register 3 counts from 0 to register 2, 4 holds the step ---- *)

Count == <<LoadImm(3, 0), LoadImm(4, 1)>>
Update == Arith("ADD", "u32", 3, 3, 4)

(* The loop goes on while the counter compares with the bound as c says.   *)
DoWhileOf(c, before, body, after) ==
  <<Block(None, Prologue \o Count \o before),
    Block(1, body \o <<Update, Compare(c, 1, 3, 2), BranchIf(1, 1)>>),
    Block(None, <<after>>)>>

WhileOf(before, body, after) ==
  <<Block(None, Prologue \o Count \o before),
    Block(1, <<Compare("ge", 1, 3, 2), BranchIf(1, 2)>>),
    Block(None, body \o <<Update, Branch(1)>>),
    Block(2, <<after>>)>>

(* Unrolling renames what a body computes for itself, so a loop that it    *)
(* takes, one that goes on while the counter is less, may leave a value    *)
(* behind only in a register that it also reads (unroll.cpp:535).          *)
Looping(before, body, after) ==
  {DoWhileOf("lt", before, body, after), WhileOf(before, body, after)}

Bodies ==
  {<<x, y, Store(3, 6)>> : x \in Makes(5, {1, 2, 3}), y \in Makes(6, {2, 4, 5})}
  \cup {<<Arith("MUL", "f32", 5, 2, 2), Store(3, 5), x, Store(3, 5)>> : x \in Makes(5, {1, 3, 4})}

(* A loop whose body computes what the counter's update computes loses the *)
(* update (see Compiler_loop_carried.cfg), so the kernels whose results    *)
(* the passes are to keep have no other integer addition in their loops.   *)
Increments(in) == in.op = "ADD" /\ in.type = "u32"

OwnUpdate == {body \in Bodies : ~\E i \in DOMAIN body : Increments(body[i])}

LoopCarried == {[fn |-> DoWhileOf("ne", <<>>, body, Store(2, 5)), top |-> 20] : body \in Bodies \ OwnUpdate}

Loops ==
  {DoWhileOf("ne", <<>>, body, Store(2, 5)) : body \in OwnUpdate}
  \cup UNION {Looping(<<>>, body, Store(2, 1)) : body \in OwnUpdate}

(* A sum or product that runs through the iterations in register 7.        *)
Reductions ==
  {DoWhileOf("lt", <<LoadImm(7, 1)>>, <<x, y>> \o more, Store(2, 7)) :
     x \in {Load(5, 1), Load(5, 3), Copy(5, 3)},
     y \in {Load(6, 5), Arith("MUL", "f32", 6, 5, 2)},
     more \in {<<MulAdd(7, 5, 6, 7)>>, <<Arith("ADD", "f32", 7, 6, 7)>>,
               <<Store(1, 7), Arith("ADD", "f32", 7, 6, 7)>>}}

(* Loops whose bound is a constant.                                        *)
Fixed ==
  UNION {Looping(<<LoadImm(2, k)>>, body, Store(1, 2)) :
           k \in {4, 5}, body \in {<<Load(5, 3), Store(3, 5)>>, <<Load(5, 1), Store(1, 3)>>}}

(* An array of elements of size r6, one, two or i of them each iteration.  *)
Chain(abc, ab) ==
  <<MulAdd(7, abc[1], abc[2], abc[3]), Arith("MUL", "u32", 8, ab[1], ab[2]),
    Arith("ADD", "u32", 9, 8, 1), Load(5, 9)>>

Chains == {Chain(abc, ab) : abc \in {<<3, 2, 1>>, <<2, 3, 1>>, <<6, 2, 3>>, <<3, 3, 1>>},
                            ab \in {<<7, 6>>, <<6, 7>>}}

Strided ==
  UNION {Looping(<<LoadImm(6, 2)>>, chain \o <<Store(3, 5)>>, Store(2, 1)) : chain \in Chains}
  \cup UNION {Looping(<<LoadImm(6, 2), LoadImm(10, 0)>>, chain \o <<Arith("ADD", "f32", 10, 5, 10)>>,
                     Store(2, 10)) : chain \in Chains}

(* One loop after another: strided, so that it is split, or not.           *)
TwoLoops ==
  LET bodies == {Chain(<<3, 2, 1>>, <<7, 6>>) \o <<Store(3, 5)>>, <<Load(5, 3), Store(3, 5)>>}
      again(body) == <<Block(2, <<LoadImm(3, 0)>>),
                       Block(3, <<Compare("ge", 1, 3, 2), BranchIf(1, 4)>>),
                       Block(None, body \o <<Update, Branch(3)>>),
                       Block(4, <<Store(2, 1)>>)>>
  IN {Front(WhileOf(<<LoadImm(6, 2)>>, b1, Barrier)) \o again(b2) : b1 \in bodies, b2 \in bodies}

(* ------------------------------ bounds guards ---------------------------- *)

GuardedBodies == {<<x, Store(1, 4)>> : x \in Makes(4, {1, 2})}
        \cup {<<x, y, Store(1, 5)>> : x \in {Load(4, 2), Copy(4, 2)}, y \in Makes(5, {1, 4})}

(* The end of the first block: lanes for which the comparison holds, or     *)
(* fails, go to label 1.                                                   *)
Skip(c, p, neg, a, b) == <<Compare(c, p, a, b), IF neg THEN BranchUnless(p, 1) ELSE BranchIf(p, 1)>>
Skips == {Skip(c, p, neg, 1, 2) : c \in {"lt", "ge", "ne"}, p \in {1, 2}, neg \in BOOLEAN}

Entry == Prologue \o <<LoadImm(3, 1)>>
After == Block(1, <<Store(2, 3)>>)

Guarded == {<<Block(None, Entry \o skip), Block(None, body), After>> : skip \in Skips, body \in GuardedBodies}

(* Two guards, one after the other.  Both on one predicate and the guarded *)
(* part never runs (pred_opt.cpp:109-122): the second has its own.         *)
TwoGuards ==
  {<<Block(None, Entry \o skip), Block(None, Skip(c, 3, neg, 2, 3)),
     Block(None, <<Load(4, 2), Store(1, 4)>>), After>> :
     skip \in Skips, c \in {"lt", "eq"}, neg \in BOOLEAN}

(* A guarded loop with its result stored behind it, the common kernel.     *)
GuardedLoop ==
  {<<Block(None, Entry \o Skip(c, 2, neg, 1, 2)),
     Block(None, <<LoadImm(4, 0), LoadImm(5, 0)>>),
     Block(2, <<x, y, z, Arith("ADD", "u32", 4, 4, 3),
                Compare("lt", 1, 4, 2), BranchIf(1, 2)>>),
     Block(None, <<Store(1, 5)>>), After>> :
     c \in {"lt", "ge"}, neg \in BOOLEAN,
     x \in {Load(6, 1), Load(6, 4), Copy(6, 4), Arith("MUL", "f32", 6, 2, 4)},
     y \in {Load(7, 6), Arith("MUL", "f32", 7, 6, 2), Arith("MUL", "f32", 7, 3, 2)},
     z \in {MulAdd(5, 6, 7, 5), Arith("ADD", "f32", 5, 7, 5)}}

(* A register that the guarded part changes and the end stores.            *)
Escaping ==
  {<<Block(None, Entry \o skip), Block(None, <<x>>), After>> :
     skip \in Skips, x \in Makes(3, {1, 2})}

(* Predicates made in one block and branched on in others.                 *)
ManyPredicates ==
  {<<Block(None, Entry \o <<Compare(c[1], 1, 1, 2), Compare(c[2], 2, 2, 3),
                               Compare("eq", 3, 1, 3), Compare("ne", 4, 1, 3), Compare("gt", 5, 1, 2)>>),
     Block(None, <<BranchIf(order[1], 1)>>), Block(None, <<Store(1, 2)>>),
     Block(1, <<BranchUnless(order[2], 2)>>), Block(None, <<Store(2, 1)>>),
     Block(2, <<BranchIf(order[3], 3)>>), Block(None, <<Store(3, 1)>>),
     Block(3, <<BranchIf(order[4], 4)>>), Block(None, <<Store(3, 2)>>),
     Block(4, <<BranchIf(order[5], 5)>>), Block(None, <<Store(1, 1)>>), Block(5, <<>>)>> :
     c \in {"lt", "ge"} \X {"le", "ne"},
     order \in {<<1, 2, 3, 4, 5>>, <<5, 4, 3, 2, 1>>, <<2, 5, 1, 4, 3>>, <<1, 1, 4, 5, 3>>}}

Sized(F, tops) == {[fn |-> f, top |-> t] : f \in F, t \in tops}

MCKernels ==
  Sized(Straight \cup Reused, {2})
  \cup Sized(Loops \cup Reductions \cup Fixed \cup Strided \cup TwoLoops \cup GuardedLoop, {3, 20})
  \cup Sized(Guarded \cup TwoGuards \cup ManyPredicates, {2, 20}) \cup Sized(Escaping, {20})

MCInputs == {[mem |-> [a \in Value |-> Wrap(a + 1)], param |-> p] : p \in {<<1, 2>>, <<2, 1>>, <<0, 5>>, <<1, 0>>, <<2, 9>>}}

O0 == {}
O2 == Optional
MCLevels == {O0, O2}
OnlyO2 == {O2}
=============================================================================
