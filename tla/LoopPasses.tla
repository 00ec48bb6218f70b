----------------------------- MODULE LoopPasses -----------------------------
(***************************************************************************)
(* The compiler's passes over loops (C1/src/passes): loop-invariant code   *)
(* motion, rotation of while loops into do-while loops, and strength       *)
(* reduction of address arithmetic.                                        *)
(***************************************************************************)
EXTENDS LocalPasses, PredOpt

(* ---------------------- loop-invariant code motion --------------------- *)
(* A loop is a back edge li -> h with h <= li; its body is the contiguous  *)
(* blocks h .. li.                                                         *)

Hoistable(in) == ~IsTerminator(in) /\ in.op \notin {"LD", "ST", "CMPP", "CMP", "SYNC"}

WritesMemory(in) == in.op \in {"ST", "SYNC"}

Body(fn, h, li) == {p \in Places(fn) : p[1] \in h .. li}

DefCount(fn, body, r) == Cardinality({p \in body : Defines(InstAt(fn, p), r)})

StoreFree(fn, body) == \A p \in body : ~WritesMemory(InstAt(fn, p))

(* The block before the header, if control enters the loop only by falling *)
(* through from it.                                                        *)
Preheader(fn, h, li) ==
  {q \in DOMAIN fn :
     /\ {p \in Predecessors(fn, h) : p \notin h .. li} = {q}
     /\ q = h - 1
     /\ fn[q].insts = <<>> \/ ~IsTerminator(Last(fn[q].insts))}

(* An instruction may move when its register is written nowhere else in    *)
(* the loop and its sources are written outside it or by others that move. *)
Invariant(fn, body, marked, p) ==
  LET in == InstAt(fn, p)
  IN /\ Hoistable(in) \/ (StoreFree(fn, body) /\ in.op = "LD")
     /\ in.dst # None
     /\ DefCount(fn, body, in.dst) = 1
     /\ \A k \in DOMAIN in.s :
          \/ DefCount(fn, body, in.s[k]) = 0
          \/ \E q \in marked : Defines(InstAt(fn, q), in.s[k])

RECURSIVE Marked(_, _, _)
Marked(fn, body, marked) ==
  LET more == {p \in body : Invariant(fn, body, marked, p)}
  IN IF more = marked THEN marked ELSE Marked(fn, body, more)

Hoist(fn, marked, P) ==
  LET insts(b, moved) == Kept(fn[b].insts, LAMBDA i : (<<b, i>> \in marked) <=> moved)
      hoisted == FoldLeftDomain(LAMBDA out, b : out \o insts(b, TRUE), <<>>, fn)
  IN [b \in DOMAIN fn |->
        [fn[b] EXCEPT !.insts = IF b = P THEN @ \o hoisted ELSE insts(b, FALSE)]]

LicmLoop(fn, h, li) ==
  LET marked == Marked(fn, Body(fn, h, li), {})
  IN IF Preheader(fn, h, li) = {} THEN fn ELSE Hoist(fn, marked, h - 1)

(* Back edges in the order of the block they leave.                        *)
Licm(fn) ==
  FoldLeftDomain(LAMBDA f, li :
      LET headers == {h \in Successors(fn, li) : h <= li}
      IN IF headers = {} THEN f ELSE LicmLoop(f, CHOOSE h \in headers : TRUE, li),
    fn, fn)
(* ---------------------------- loop rotation ---------------------------- *)

(* Block h is a pure test of a while loop whose body is the one block      *)
(* after it, and control falls into it from the block before.              *)
Rotatable(fn, h) ==
  LET H == fn[h]
      L == fn[h + 1]
      P == fn[h - 1]
  IN /\ h \in 2 .. Len(fn) - 1
     /\ Len(H.insts) = 2
     /\ H.insts[1].op = "CMPP"
     /\ H.insts[2].op = "BRX" /\ ~H.insts[2].neg
     /\ Masked(H.insts[1].pdst) = Masked(H.insts[2].guard)
     /\ L.insts # <<>> /\ L.label = None
     /\ Last(L.insts).op = "BR" /\ Last(L.insts).target = H.label /\ H.label # None
     /\ Predecessors(fn, h) = {h - 1, h + 1}
     /\ \E e \in h + 2 .. Len(fn) : fn[e].label = H.insts[2].target
     /\ P.insts = <<>> \/ ~IsTerminator(Last(P.insts))

Rotated(fn, h) ==
  LET cmp   == fn[h].insts[1]
      brx   == fn[h].insts[2]
      label == fn[h].label
      latch == <<[cmp EXCEPT !.cmp = Inverted(@)], [brx EXCEPT !.target = label]>>
      new   == [fn EXCEPT ![h - 1].insts = @ \o <<cmp, brx>>,
                          ![h + 1].insts = Front(@) \o latch, ![h + 1].label = label]
  IN RemoveAt(new, h)

RECURSIVE LoopRotate(_)
LoopRotate(fn) ==
  LET headers == {h \in DOMAIN fn : Rotatable(fn, h)}
  IN IF headers = {} THEN fn ELSE LoopRotate(Rotated(fn, Min(headers)))

(* --------------------------- strength reduction ------------------------ *)

InLoop(insts, r) == \E i \in DOMAIN insts : Defines(insts[i], r)

UniqueDef(insts, r) == \* the place of the only definition of r in the block, or 0
  LET defs == {i \in DOMAIN insts : Defines(insts[i], r)}
  IN IF Cardinality(defs) = 1 THEN CHOOSE i \in defs : TRUE ELSE 0

UsedOnce(insts, r) == UseCount(<<Block(None, insts)>>, r) = 1

(* The one source of in that the loop defines, if just one of two is; the  *)
(* chain goes on at its only definition.                                   *)
Varying(insts, in) == {k \in DOMAIN in.s : InLoop(insts, in.s[k])}

LinkFrom(insts, r, op) == \* the definition of r by op, used here only; or 0
  LET d == UniqueDef(insts, r)
  IN IF UsedOnce(insts, r) /\ d # 0 /\ insts[d].op = op THEN d ELSE 0

ChainFrom(insts, m) == \* <<add, mul, mad>>: how the address at m is computed
  LET add == LinkFrom(insts, insts[m].s[1], "ADD")
      next(i, op) == IF i # 0 /\ Cardinality(Varying(insts, insts[i])) = 1
                     THEN LinkFrom(insts, insts[i].s[CHOOSE k \in Varying(insts, insts[i]) : TRUE], op)
                     ELSE 0
      mul == next(add, "MUL")
  IN <<add, mul, next(mul, "MAD")>>

IsReducible(insts, iv, m) ==
  LET mad == insts[ChainFrom(insts, m)[3]]
  IN /\ insts[m].op \in {"LD", "ST"} /\ insts[m].s # <<>>
     /\ 0 \notin ToSet(ChainFrom(insts, m))
     /\ \E k \in 1 .. 3 : mad.s[k] = iv /\ Varying(insts, mad) = {k}

(* A block that branches to itself and ends in ADD iv,iv,step; CMPP; BRX.  *)
IsLatch(fn, li) ==
  LET insts == fn[li].insts
      n == Len(insts)
  IN /\ n >= 4
     /\ li \in Successors(fn, li)
     /\ insts[n].op = "BRX" /\ insts[n - 1].op = "CMPP"
     /\ insts[n - 2].op = "ADD" /\ insts[n - 2].s[1] = insts[n - 2].dst
     /\ Cardinality(Predecessors(fn, li) \ {li}) = 1

Candidates(insts) ==
  LET n == Len(insts)
  IN {m \in 1 .. n - 3 : IsReducible(insts, insts[n - 2].dst, m)}

(* What one candidate, the k-th, becomes.  Its registers are fresh.        *)
Recurrence(fn, insts, m, k) ==
  LET chain == ChainFrom(insts, m)
      add == insts[chain[1]]  mul == insts[chain[2]]  mad == insts[chain[3]]
      iv == insts[Len(insts) - 2].dst
      fresh(j) == FreshRegister(fn) + 4 * (k - 1) + j
      at(in, d, r, new) == [Renamed(in, LAMBDA x : IF x = r THEN new ELSE x) EXCEPT !.dst = d]
      esize == mul.s[IF mul.s[1] = mad.dst THEN 2 ELSE 1]
      coefficient == CASE mad.s[1] = iv -> mad.s[2] [] mad.s[2] = iv -> mad.s[1] [] OTHER -> None
      stride == IF coefficient = None THEN esize ELSE fresh(3)
  IN [drop |-> ToSet(chain),
      pre  |-> <<[mad EXCEPT !.dst = fresh(0)], at(mul, fresh(1), mad.dst, fresh(0)),
                 at(add, fresh(2), mul.dst, fresh(1))>>
               \o (IF coefficient = None THEN <<>>
                   ELSE <<Arith("MUL", "u32", stride, coefficient, esize)>>),
      body |-> <<[insts[m] EXCEPT !.s[1] = fresh(2)], Arith("ADD", "u32", fresh(2), fresh(2), stride)>>]

Reduced(fn, li) ==
  LET insts == fn[li].insts
      cands == Candidates(insts)
      pi    == CHOOSE p \in Predecessors(fn, li) : p # li
      rank(m) == Cardinality({c \in cands : c <= m})
      rec   == [m \in cands |-> Recurrence(fn, insts, m, rank(m))]
      gone  == UNION {rec[m].drop : m \in cands}
      body  == FoldLeftDomain(LAMBDA out, i : IF i \in gone THEN out
                                ELSE out \o (IF i \in cands THEN rec[i].body ELSE <<insts[i]>>),
                              <<>>, insts)
      pre   == FoldLeftDomain(LAMBDA out, i : IF i \in cands THEN out \o rec[i].pre ELSE out,
                              <<>>, insts)
      P     == fn[pi].insts
      at    == IF P # <<>> /\ IsTerminator(Last(P)) THEN Len(P) - 1 ELSE Len(P)
  IN [fn EXCEPT ![li].insts = body,
                ![pi].insts = SubSeq(P, 1, at) \o pre \o SubSeq(P, at + 1, Len(P))]

RECURSIVE StrengthReduce(_)
StrengthReduce(fn) ==
  LET loops == {li \in DOMAIN fn : IsLatch(fn, li) /\ Candidates(fn[li].insts) # {}}
  IN IF loops = {} THEN fn ELSE StrengthReduce(Reduced(fn, Min(loops)))
=============================================================================
