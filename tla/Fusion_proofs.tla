---------------------------- MODULE Fusion_proofs ----------------------------
(***************************************************************************)
(* Theorems about Fusion, for every set of well-formed graphs and both     *)
(* ways to call it: the ten matchers, each with its own idea of a reader   *)
(* that nobody else shares, never claim a node twice.                      *)
(***************************************************************************)
EXTENDS Fusion, TLAPS, WellFoundedInduction, FiniteSetTheorems, SequenceTheorems

Positions == DOMAIN work.nodes

(* What the rewriting keeps of a graph: its shape, and that tensors have   *)
(* one producer.                                                           *)
WorkShape ==
  /\ DOMAIN work = {"nodes", "inputs", "outputs", "inits"}
  /\ IsSequence(work.nodes)
  /\ \A p \in Positions :
       /\ DOMAIN work.nodes[p] = {"op", "ins", "outs", "attrs", "ops"}
       /\ Op(p) = "Relu" => DOMAIN Ins(p) = {1} /\ Ins(p)[1] # Omitted

OneProducer ==
  \A p, q \in Positions : Out(p) = Out(q) /\ Out(p) # Omitted => p = q

(* One matcher takes the only reader of a node without asking whether it   *)
(* is claimed.  It is a Relu, and until then a Relu is only claimed along  *)
(* with the producer of what it reads.                                     *)
Early ==
  {"MatMulBias", "ResidualNorm", "MlpStructure", "SoftmaxDropout", "ConvBn", "PoolFlatten",
   "DualConvResidualAdd"}

ReluFollows(q, S) == Op(q) = "Relu" => \E p \in S : Out(p) = Ins(q)[1]

ReluClaimed ==
  stage \in Early => \A q \in consumed : ReluFollows(q, consumed \cap Positions)

GroupList ==
  /\ groups \in Seq({groups[k] : k \in DOMAIN groups})
  /\ stage = "prefuse" => groups = <<>>

FInv ==
  WorkShape /\ OneProducer /\ ReluClaimed /\ GroupList /\ at \in Nat \ {0} /\ GroupsDisjoint

-----------------------------------------------------------------------------
(* Least and greatest positions, sets as sequences, joined sequences.      *)
LEMMA LeastOf ==
  ASSUME NEW S, S \subseteq Nat, S # {}
  PROVE  Min(S) \in S /\ \A y \in S : Min(S) <= y
<1>. DEFINE Below == OpToRel(<, Nat)
<1>1. PICK x \in S : \A y \in S : ~ (<<y, x>> \in Below)
  BY WFMin, NatLessThanWellFounded
<1>2. \A y \in S : y < x => <<y, x>> \in Below
  BY DEF OpToRel
<1>. HIDE DEF Below
<1>3. \A y \in S : ~ (y < x)
  BY <1>1, <1>2, Zenon
<1>4. \A y \in S : x <= y
  BY <1>3
<1>. QED
  BY <1>4 DEF Min

LEMMA GreatestOf ==
  ASSUME NEW N \in Nat, NEW S, S \subseteq 1..N, S # {}
  PROVE  Max(S) \in S /\ \A y \in S : y <= Max(S)
<1>1. PICK R : R = {r \in Nat : \E p \in S : r + p = N}
  OBVIOUS
<1>2. PICK p \in S : TRUE
  OBVIOUS
<1>3. N - p \in R
  BY <1>1, <1>2
<1>4. Min(R) \in R /\ \A q \in R : Min(R) <= q
  BY <1>1, <1>3, LeastOf
<1>5. PICK x \in S : Min(R) + x = N
  BY <1>1, <1>4
<1>6. ASSUME NEW q \in S PROVE q <= x
  <2>1. N - q \in R
    BY <1>1, <1>6
  <2>. QED
    BY <1>1, <1>4, <1>5, <1>6, <2>1
<1>7. \A y \in S : x >= y
  BY <1>6
<1>. QED
  BY <1>7 DEF Max

LEMMA AsSequence ==
  ASSUME NEW S, IsFiniteSet(S)
  PROVE  SetToSeq(S) \in Seq(S) /\ IsInjective(SetToSeq(S))
<1>1. PICK n \in Nat : n = Cardinality(S)
  BY FS_CardinalityType
<1>2. \E f : f \in Bijection(1..n, S)
  BY <1>1, FS_CardinalityType DEF ExistsBijection
<1>3. \E f \in [1..n -> S] : IsInjective(f)
  BY <1>2 DEF Bijection, Injection
<1>4. SetToSeq(S) \in [1..n -> S] /\ IsInjective(SetToSeq(S))
  BY <1>1, <1>3 DEF SetToSeq
<1>. QED
  BY <1>4

LEMMA Joined ==
  ASSUME NEW S, NEW s \in Seq(S), NEW r \in Seq(S), IsInjective(s), IsInjective(r),
         ToSet(s) \cap ToSet(r) = {}
  PROVE  /\ s \o r \in Seq(S) /\ IsInjective(s \o r)
         /\ ToSet(s \o r) = ToSet(s) \cup ToSet(r) /\ Len(s \o r) = Len(s) + Len(r)
<1>1. PICK m \in Nat, n \in Nat : m = Len(s) /\ n = Len(r) /\ DOMAIN s = 1..m /\ DOMAIN r = 1..n
  OBVIOUS
<1>2. PICK c \in Seq(S) : c = s \o r
  BY ConcatProperties
<1>3. /\ DOMAIN c = 1..(m + n) /\ Len(c) = m + n
      /\ \A k \in 1..m : c[k] = s[k]
      /\ \A k \in 1..n : c[m + k] = r[k]
  BY <1>1, <1>2
<1>4. \A k \in 1..(m + n) : k \in 1..m \/ \E l \in 1..n : k = m + l
  <2>1. SUFFICES ASSUME NEW k \in 1..(m + n), k \notin 1..m PROVE \E l \in 1..n : k = m + l
    OBVIOUS
  <2>2. k - m \in 1..n /\ k = m + (k - m)
    BY <2>1
  <2>. QED
    BY <2>2
<1>5. \A k \in 1..m, l \in 1..n : s[k] # r[l]
  BY <1>1 DEF ToSet
<1>6. ASSUME NEW k \in DOMAIN c, NEW l \in DOMAIN c, c[k] = c[l] PROVE k = l
  <2>1. CASE k \in 1..m /\ l \in 1..m
    BY <1>1, <1>3, <1>6, <2>1 DEF IsInjective
  <2>2. CASE \E a \in 1..n : k = m + a
    <3>1. PICK a \in 1..n : k = m + a
      BY <2>2
    <3>2. CASE l \in 1..m
      BY <1>3, <1>5, <1>6, <3>1, <3>2
    <3>3. ASSUME NEW b \in 1..n, l = m + b PROVE k = l
      BY <1>1, <1>3, <1>6, <3>1, <3>3 DEF IsInjective
    <3>. QED
      BY <1>3, <1>4, <3>2, <3>3
  <2>3. CASE k \in 1..m /\ \E b \in 1..n : l = m + b
    BY <1>3, <1>5, <1>6, <2>3
  <2>. QED
    BY <1>3, <1>4, <2>1, <2>2, <2>3
<1>7. ToSet(c) = ToSet(s) \cup ToSet(r)
  <2>1. ASSUME NEW k \in DOMAIN c PROVE c[k] \in ToSet(s) \cup ToSet(r)
    <3>1. CASE k \in 1..m
      BY <1>1, <1>3, <3>1 DEF ToSet
    <3>2. ASSUME NEW l \in 1..n, k = m + l PROVE c[k] \in ToSet(r)
      <4>1. c[k] = r[l] /\ l \in DOMAIN r
        BY <1>1, <1>3, <3>2
      <4>. QED
        BY <4>1 DEF ToSet
    <3>. QED
      BY <1>3, <1>4, <2>1, <3>1, <3>2
  <2>2. ASSUME NEW k \in DOMAIN s PROVE s[k] \in ToSet(c)
    <3>1. k \in DOMAIN c /\ c[k] = s[k]
      BY <1>1, <1>3
    <3>. QED
      BY <3>1 DEF ToSet
  <2>3. ASSUME NEW k \in DOMAIN r PROVE r[k] \in ToSet(c)
    <3>1. k \in 1..n
      BY <1>1, <2>3
    <3>2. m + k \in 1..(m + n)
      BY <3>1
    <3>3. m + k \in DOMAIN c /\ c[m + k] = r[k]
      BY <1>3, <3>1, <3>2
    <3>. QED
      BY <3>3 DEF ToSet
  <2>. QED
    BY <2>1, <2>2, <2>3 DEF ToSet
<1>. QED
  BY <1>1, <1>2, <1>3, <1>6, <1>7 DEF IsInjective

(* A list keeps what it had when something is appended.                    *)
LEMMA Appended ==
  ASSUME NEW s, s \in Seq({s[k] : k \in DOMAIN s}), NEW e, NEW r, r = Append(s, e)
  PROVE  /\ r \in Seq({r[k] : k \in DOMAIN r})
         /\ Len(s) \in Nat /\ DOMAIN s = 1..Len(s) /\ DOMAIN r = 1..(Len(s) + 1)
         /\ \A k \in DOMAIN s : r[k] = s[k]
         /\ r[Len(s) + 1] = e
<1>1. PICK S : S = {s[k] : k \in DOMAIN s} \cup {e}
  OBVIOUS
<1>2. s \in Seq(S)
  BY <1>1
<1>3. /\ r \in Seq(S) /\ Len(r) = Len(s) + 1 /\ r[Len(s) + 1] = e
      /\ \A k \in 1..Len(s) : r[k] = s[k]
  BY <1>1, <1>2, AppendProperties
<1>. QED
  BY <1>2, <1>3

-----------------------------------------------------------------------------
(* The graph.                                                              *)
LEMMA PositionsFinite ==
  ASSUME WorkShape
  PROVE  /\ Len(work.nodes) \in Nat /\ Positions = 1..Len(work.nodes)
         /\ \A S : S \subseteq Positions => IsFiniteSet(S)
<1>1. Len(work.nodes) \in Nat /\ Positions = 1..Len(work.nodes)
  BY DEF WorkShape, IsSequence, Positions
<1>2. IsFiniteSet(Positions)
  BY <1>1, FS_Interval
<1>. QED
  BY <1>1, <1>2, FS_Subset

Reading(q, t) == q \in Positions /\ \E k \in DOMAIN Ins(q) : Ins(q)[k] = t

LEMMA ReadersRead ==
  ASSUME NEW t
  PROVE  /\ \A r \in Reads(work, t) : Reading(r[1], t)
         /\ \A q \in OnlyReader(t) : Reading(q, t)
         /\ \A q \in OnlyFreeReader(t) : Reading(q, t) /\ q \in Free(Positions)
<1>1. ASSUME NEW r \in Reads(work, t) PROVE Reading(r[1], t)
  <2>1. PICK p \in Positions : r \in {p} \X {k \in DOMAIN work.nodes[p].ins : work.nodes[p].ins[k] = t}
    BY <1>1 DEF Reads, Positions
  <2>. QED
    BY <2>1 DEF Reading, Ins
<1>2. ASSUME NEW q \in OnlyReader(t) PROVE Reading(q, t)
  BY <1>1, <1>2 DEF OnlyReader
<1>3. ASSUME NEW q \in OnlyFreeReader(t) PROVE Reading(q, t) /\ q \in Free(Positions)
  <2>1. PICK r \in Reads(work, t) : r[1] \notin consumed /\ q = r[1]
    BY <1>3 DEF OnlyFreeReader
  <2>2. Reading(q, t) /\ q \notin consumed
    BY <1>1, <2>1
  <2>. QED
    BY <2>2 DEF Reading, Free
<1>. QED
  BY <1>1, <1>2, <1>3

(* What a Relu reads is its one input, which is not omitted.               *)
LEMMA ReluReads ==
  ASSUME WorkShape, NEW q, NEW t, Reading(q, t), Op(q) = "Relu"
  PROVE  Ins(q)[1] = t /\ t # Omitted
BY DEF WorkShape, Reading

(* A Relu that reads what an unclaimed node writes is unclaimed.           *)
LEMMA ReluUnclaimed ==
  ASSUME FInv, stage \in Early, NEW p \in Positions, p \notin consumed,
         NEW q, Reading(q, Out(p)), Op(q) = "Relu"
  PROVE  q \in Free(Positions)
<1>1. Ins(q)[1] = Out(p) /\ Out(p) # Omitted /\ q \in Positions
  BY ReluReads DEF FInv, Reading
<1>2. SUFFICES ASSUME q \in consumed PROVE FALSE
  BY <1>1 DEF Free
<1>3. PICK o \in consumed \cap Positions : Out(o) = Ins(q)[1]
  BY <1>2 DEF FInv, ReluClaimed, ReluFollows
<1>4. o = p
  BY <1>1, <1>3 DEF FInv, OneProducer
<1>. QED
  BY <1>3, <1>4

-----------------------------------------------------------------------------
(* What a matcher may claim.                                               *)
Claim(s) == s \in Seq(Free(Positions)) /\ IsInjective(s)
Together(s) == \A q \in ToSet(s) : ReluFollows(q, ToSet(s))

LEMMA OneClaimed ==
  ASSUME NEW p \in Free(Positions)
  PROVE  Claim(<<p>>) /\ ToSet(<<p>>) = {p}
BY DEF Claim, IsInjective, ToSet

LEMMA TwoClaimed ==
  ASSUME NEW p \in Free(Positions), NEW q \in Free(Positions), p # q
  PROVE  Claim(<<p, q>>) /\ ToSet(<<p, q>>) = {p, q}
BY DEF Claim, IsInjective, ToSet

LEMMA ThreeClaimed ==
  ASSUME NEW p \in Free(Positions), NEW q \in Free(Positions), NEW r \in Free(Positions),
         p # q, q # r, p # r
  PROVE  Claim(<<p, q, r>>) /\ ToSet(<<p, q, r>>) = {p, q, r}
BY DEF Claim, IsInjective, ToSet

LEMMA SetClaimed ==
  ASSUME WorkShape, NEW S, S \subseteq Free(Positions)
  PROVE  Claim(SetToSeq(S)) /\ ToSet(SetToSeq(S)) \subseteq S
<1>1. IsFiniteSet(S)
  BY PositionsFinite DEF Free
<1>2. PICK s \in Seq(S) : s = SetToSeq(S) /\ IsInjective(s)
  BY <1>1, AsSequence
<1>3. s \in Seq(Free(Positions)) /\ ToSet(s) \subseteq S
  BY <1>2 DEF ToSet
<1>. QED
  BY <1>2, <1>3 DEF Claim

LEMMA JoinClaimed ==
  ASSUME NEW s, Claim(s), NEW r, Claim(r), ToSet(s) \cap ToSet(r) = {}
  PROVE  Claim(s \o r) /\ ToSet(s \o r) = ToSet(s) \cup ToSet(r) /\ Len(s \o r) = Len(s) + Len(r)
BY Joined DEF Claim

(* Claiming such a group keeps the invariant.                              *)
LEMMA GroupAdded ==
  ASSUME FInv, stage # "prefuse", NEW group, Claim(group.members),
         stage \in Early => Together(group.members),
         groups' = Append(groups, group), consumed' = consumed \cup ToSet(group.members),
         at' = at + 1, UNCHANGED <<work, stage>>
  PROVE  FInv'
<1>1. PICK S : S = ToSet(group.members)
  OBVIOUS
<1>2. S \cap consumed = {} /\ S \subseteq Positions
  BY <1>1 DEF Claim, Free, ToSet
<1>3. WorkShape' /\ OneProducer' /\ at' \in Nat \ {0} /\ Positions' = Positions
  BY DEF FInv, WorkShape, OneProducer, Positions, Op, Ins, Out
<1>4. /\ GroupList'
      /\ Len(groups) \in Nat /\ DOMAIN groups = 1..Len(groups) /\ DOMAIN groups' = 1..(Len(groups) + 1)
      /\ \A k \in DOMAIN groups : groups'[k] = groups[k]
      /\ groups'[Len(groups) + 1] = group
  BY Appended DEF FInv, GroupList
<1>5. PICK n \in Nat : n = Len(groups)
  BY <1>4
<1>6. \A k \in DOMAIN groups' : k \in DOMAIN groups \/ k = n + 1
  BY <1>4, <1>5
<1>7. /\ consumed = UNION {ToSet(groups[k].members) : k \in DOMAIN groups}
      /\ \A k \in DOMAIN groups : IsInjective(groups[k].members)
      /\ \A k, l \in DOMAIN groups :
           k # l => ToSet(groups[k].members) \cap ToSet(groups[l].members) = {}
  BY DEF FInv, GroupsDisjoint
<1>8. \A k \in DOMAIN groups : ToSet(groups[k].members) \cap S = {}
  BY <1>2, <1>7
<1>9. GroupsDisjoint'
  <2>1. consumed' = UNION {ToSet(groups'[k].members) : k \in DOMAIN groups'}
    <3>1. ASSUME NEW k \in DOMAIN groups' PROVE ToSet(groups'[k].members) \subseteq consumed'
      BY <1>1, <1>4, <1>5, <1>6, <1>7
    <3>2. ASSUME NEW q \in consumed' PROVE \E k \in DOMAIN groups' : q \in ToSet(groups'[k].members)
      <4>1. CASE q \in consumed
        <5>1. PICK k \in DOMAIN groups : q \in ToSet(groups[k].members)
          BY <1>7, <4>1
        <5>. QED
          BY <1>4, <5>1
      <4>2. CASE q \in S
        <5>1. n + 1 \in DOMAIN groups' /\ groups'[n + 1] = group
          BY <1>4, <1>5
        <5>. QED
          BY <1>1, <4>2, <5>1
      <4>. QED
        BY <1>1, <3>2, <4>1, <4>2
    <3>. QED
      BY <3>1, <3>2
  <2>2. \A k \in DOMAIN groups' : IsInjective(groups'[k].members)
    BY <1>4, <1>5, <1>6, <1>7 DEF Claim
  <2>3. ASSUME NEW k \in DOMAIN groups', NEW l \in DOMAIN groups', k # l
        PROVE  ToSet(groups'[k].members) \cap ToSet(groups'[l].members) = {}
    <3>1. CASE k \in DOMAIN groups /\ l \in DOMAIN groups
      BY <1>4, <1>7, <2>3, <3>1
    <3>2. CASE k \in DOMAIN groups /\ l = n + 1
      BY <1>1, <1>4, <1>5, <1>8, <3>2
    <3>3. CASE l \in DOMAIN groups /\ k = n + 1
      BY <1>1, <1>4, <1>5, <1>8, <3>3
    <3>. QED
      BY <1>6, <2>3, <3>1, <3>2, <3>3
  <2>. QED
    BY <2>1, <2>2, <2>3 DEF GroupsDisjoint
<1>10. ReluClaimed'
  <2>1. SUFFICES ASSUME stage \in Early, NEW q \in consumed', Op(q) = "Relu"
                 PROVE  \E p \in consumed' \cap Positions : Out(p) = Ins(q)[1]
    BY <1>3 DEF ReluClaimed, ReluFollows, Op, Out, Ins
  <2>2. CASE q \in consumed
    BY <2>1, <2>2 DEF FInv, ReluClaimed, ReluFollows
  <2>3. CASE q \in S
    BY <1>1, <1>2, <2>1, <2>3 DEF Together, ReluFollows
  <2>. QED
    BY <1>1, <2>1, <2>2, <2>3
<1>. QED
  BY <1>3, <1>4, <1>9, <1>10 DEF FInv

-----------------------------------------------------------------------------
(* The matchers, at a node that is not claimed.                            *)
LEMMA PairClaimed ==
  ASSUME NEW p \in Free(Positions), NEW q \in Free(Positions), p # q
  PROVE  /\ Claim(<<p, q>>)
         /\ Op(p) # "Relu" /\ (Op(q) = "Relu" => Reading(q, Out(p)) /\ WorkShape) => Together(<<p, q>>)
<1>1. Claim(<<p, q>>) /\ ToSet(<<p, q>>) = {p, q}
  BY TwoClaimed
<1>2. ASSUME Op(p) # "Relu", Op(q) = "Relu" => Reading(q, Out(p)) /\ WorkShape PROVE Together(<<p, q>>)
  <2>1. Op(q) = "Relu" => Ins(q)[1] = Out(p)
    BY <1>2, ReluReads
  <2>. QED
    BY <1>1, <1>2, <2>1 DEF Together, ReluFollows
<1>. QED
  BY <1>1, <1>2

LEMMA MatMulBiasClaims ==
  ASSUME at \in Free(Positions), NEW s \in MatMulBias
  PROVE  Claim(s) /\ Together(s)
<1>1. PICK q \in OnlyFreeReader(Out(at)) : Op(at) = "MatMul" /\ Op(q) = "Add" /\ s = <<at, q>>
  BY DEF MatMulBias
<1>. QED
  BY <1>1, ReadersRead, PairClaimed

LEMMA ResidualNormClaims ==
  ASSUME WorkShape, at \in Free(Positions), NEW s \in ResidualNorm
  PROVE  Claim(s) /\ Together(s)
<1>1. PICK norms : norms = {q \in Free({r[1] : r \in Reads(work, Out(at))}) : Op(q) \in Norms}
  OBVIOUS
<1>2. Op(at) = "Add" /\ norms # {} /\ s = <<at, Min(norms)>>
  BY <1>1 DEF ResidualNorm
<1>3. \A q \in norms : q \in Free(Positions) /\ Op(q) \in Norms
  BY <1>1, ReadersRead DEF Free, Reading
<1>4. Min(norms) \in norms
  <2>1. norms \subseteq Nat
    BY <1>3, PositionsFinite DEF Free
  <2>. QED
    BY <1>2, <2>1, LeastOf
<1>5. Op(Min(norms)) \in {"LayerNormalization", "LayerNorm"}
  BY <1>3, <1>4 DEF Norms
<1>. QED
  BY <1>2, <1>3, <1>4, <1>5, PairClaimed

LEMMA SoftmaxDropoutClaims ==
  ASSUME at \in Free(Positions), NEW s \in SoftmaxDropout
  PROVE  Claim(s) /\ Together(s)
<1>1. PICK q \in OnlyFreeReader(Out(at)) : Op(at) = "Softmax" /\ Op(q) = "Dropout" /\ s = <<at, q>>
  BY DEF SoftmaxDropout
<1>. QED
  BY <1>1, ReadersRead, PairClaimed

LEMMA ConvBnClaims ==
  ASSUME at \in Free(Positions), NEW s \in ConvBn
  PROVE  Claim(s) /\ Together(s)
<1>1. PICK q \in Free(OnlyReader(Out(at))) :
        Op(at) = "Conv" /\ Op(q) \in {"BatchNormalization", "BatchNorm"} /\ s = <<at, q>>
  BY DEF ConvBn, BatchNorms
<1>2. q \in Free(Positions)
  BY <1>1, ReadersRead DEF Free, Reading
<1>. QED
  BY <1>1, <1>2, PairClaimed

LEMMA PoolFlattenClaims ==
  ASSUME at \in Free(Positions), NEW s \in PoolFlatten
  PROVE  Claim(s) /\ Together(s)
<1>1. PICK q \in Free(OnlyReader(Out(at))) :
        Op(at) = "GlobalAveragePool" /\ Op(q) = "Flatten" /\ s = <<at, q>>
  BY DEF PoolFlatten
<1>2. q \in Free(Positions)
  BY <1>1, ReadersRead DEF Free, Reading
<1>. QED
  BY <1>1, <1>2, PairClaimed

(* The Relu is taken although nobody has asked whether it is claimed.      *)
LEMMA DualConvResidualAddClaims ==
  ASSUME FInv, stage \in Early, at \in Free(Positions), NEW s \in DualConvResidualAdd
  PROVE  Claim(s) /\ Together(s)
<1>1. PICK convs : convs = Free(UNION {Producers(work, t) : t \in ToSet(Data(at))})
  OBVIOUS
<1>2. PICK act : act = {q \in OnlyReader(Out(at)) : Op(q) = "Relu"}
  OBVIOUS
<1>3. /\ Op(at) = "Add" /\ Cardinality(convs) = 2 /\ \A q \in convs : Op(q) = "Conv"
      /\ s = <<Min(convs), Max(convs), at>> \o SetToSeq(act)
  BY <1>1, <1>2 DEF DualConvResidualAdd
<1>4. convs \subseteq Free(Positions)
  BY <1>1 DEF Free, Producers, Positions
<1>5. PICK n \in Nat : Positions = 1..n
  BY PositionsFinite DEF FInv
<1>6. IsFiniteSet(convs)
  BY <1>4, PositionsFinite DEF FInv, Free
<1>7. convs # {} /\ \A x : convs # {x}
  <2>1. Cardinality({}) = 0 /\ \A x : Cardinality({x}) = 1
    BY FS_EmptySet, FS_Singleton
  <2>2. Cardinality(convs) # 0 /\ Cardinality(convs) # 1
    BY <1>3
  <2>. QED
    BY <2>1, <2>2
<1>8. /\ Min(convs) \in convs /\ \A y \in convs : Min(convs) <= y
      /\ Max(convs) \in convs /\ \A y \in convs : y <= Max(convs)
  <2>1. convs \subseteq 1..n /\ convs \subseteq Nat
    BY <1>4, <1>5 DEF Free
  <2>. QED
    BY <1>7, <2>1, LeastOf, GreatestOf
<1>9. Min(convs) # Max(convs)
  <2>1. SUFFICES ASSUME Min(convs) = Max(convs) PROVE FALSE
    OBVIOUS
  <2>2. \A y \in convs : y = Min(convs)
    <3>1. convs \subseteq Nat
      BY <1>4, <1>5 DEF Free
    <3>2. PICK m \in Nat : m = Min(convs)
      BY <1>8, <3>1
    <3>3. \A y \in convs : y \in Nat /\ m <= y /\ y <= m
      BY <1>8, <2>1, <3>1, <3>2
    <3>. QED
      BY <3>2, <3>3
  <2>3. convs = {Min(convs)}
    BY <1>8, <2>2
  <2>. QED
    BY <1>7, <2>3
<1>10. PICK three : three = <<Min(convs), Max(convs), at>>
  OBVIOUS
<1>11. Claim(three) /\ ToSet(three) = {Min(convs), Max(convs), at}
  BY <1>3, <1>4, <1>8, <1>9, <1>10, ThreeClaimed
<1>12. act \subseteq Free(Positions) /\ \A q \in act : Op(q) = "Relu" /\ Ins(q)[1] = Out(at)
  <2>1. ASSUME NEW q \in act
        PROVE  q \in Free(Positions) /\ Op(q) = "Relu" /\ Ins(q)[1] = Out(at)
    <3>1. Reading(q, Out(at)) /\ Op(q) = "Relu" /\ at \in Positions /\ at \notin consumed
      BY <1>2, <2>1, ReadersRead DEF Free
    <3>. QED
      BY <3>1, ReluUnclaimed, ReluReads DEF FInv
  <2>. QED
    BY <2>1
<1>13. Claim(SetToSeq(act)) /\ ToSet(SetToSeq(act)) \subseteq act
  BY <1>12, SetClaimed DEF FInv
<1>14. ToSet(three) \cap ToSet(SetToSeq(act)) = {}
  BY <1>3, <1>8, <1>11, <1>12, <1>13
<1>15. Claim(s) /\ ToSet(s) = ToSet(three) \cup ToSet(SetToSeq(act))
  BY <1>3, <1>10, <1>11, <1>13, <1>14, JoinClaimed
<1>16. Together(s)
  <2>1. SUFFICES ASSUME NEW q \in ToSet(s), Op(q) = "Relu"
                 PROVE  \E p \in ToSet(s) : Out(p) = Ins(q)[1]
    BY DEF Together, ReluFollows
  <2>2. q \in act /\ at \in ToSet(s)
    BY <1>3, <1>8, <1>11, <1>13, <1>15, <2>1
  <2>. QED
    BY <1>12, <2>2
<1>. QED
  BY <1>15, <1>16

LEMMA ConvResidualAddClaims ==
  ASSUME WorkShape, at \in Free(Positions), NEW s \in ConvResidualAdd
  PROVE  Claim(s)
<1>1. PICK q \in OnlyFreeReader(Out(at)) :
        /\ Op(at) = "Conv" /\ Op(q) = "Add"
        /\ s = <<at, q>> \o SetToSeq({r \in OnlyFreeReader(Out(q)) : Op(r) \in UnaryAct})
  BY DEF ConvResidualAdd
<1>2. PICK acts : acts = {r \in OnlyFreeReader(Out(q)) : Op(r) \in UnaryAct}
  OBVIOUS
<1>3. Claim(<<at, q>>) /\ ToSet(<<at, q>>) = {at, q}
  BY <1>1, ReadersRead, TwoClaimed
<1>4. acts \subseteq Free(Positions) /\ at \notin acts /\ q \notin acts
  BY <1>1, <1>2, ReadersRead DEF UnaryAct
<1>5. Claim(SetToSeq(acts)) /\ ToSet(SetToSeq(acts)) \subseteq acts
  BY <1>4, SetClaimed
<1>6. PICK pair, rest : pair = <<at, q>> /\ rest = SetToSeq(acts)
  OBVIOUS
<1>7. s = pair \o rest
  BY <1>1, <1>2, <1>6
<1>8. Claim(pair) /\ Claim(rest) /\ ToSet(pair) \cap ToSet(rest) = {}
  BY <1>3, <1>4, <1>5, <1>6
<1>. QED
  BY <1>7, <1>8, JoinClaimed

LEMMA LongerClaims ==
  ASSUME WorkShape, NEW s, Claim(s)
  PROVE  Claim(Longer(s))
<1>1. PICK S : S = {q \in OnlyFreeReader(Out(Last(s))) \ ToSet(s) : Op(q) \in Elementwise}
  OBVIOUS
<1>2. S \subseteq Free(Positions) /\ S \cap ToSet(s) = {}
  BY <1>1, ReadersRead
<1>3. Claim(SetToSeq(S)) /\ ToSet(SetToSeq(S)) \subseteq S
  BY <1>2, SetClaimed
<1>. QED
  BY <1>1, <1>2, <1>3, JoinClaimed DEF Longer

LEMMA EwChainClaims ==
  ASSUME WorkShape, at \in Free(Positions), NEW s \in EwChain
  PROVE  Claim(s)
<1>1. PICK a : a = Longer(<<at>>)
  OBVIOUS
<1>2. PICK b : b = Longer(a)
  OBVIOUS
<1>3. PICK c : c = Longer(b)
  OBVIOUS
<1>4. s = Longer(c)
  BY <1>1, <1>2, <1>3 DEF EwChain
<1>5. Claim(a)
  BY <1>1, OneClaimed, LongerClaims
<1>6. Claim(b)
  BY <1>2, <1>5, LongerClaims
<1>7. Claim(c)
  BY <1>3, <1>6, LongerClaims
<1>. QED
  BY <1>4, <1>7, LongerClaims

LEMMA ComputeActivationClaims ==
  ASSUME at \in Free(Positions), NEW s \in ComputeActivation
  PROVE  Claim(s)
<1>1. PICK q \in OnlyFreeReader(Out(at)) : Op(at) \in ComputeOps /\ Op(q) \in UnaryAct /\ s = <<at, q>>
  BY DEF ComputeActivation
<1>2. at # q
  BY <1>1 DEF ComputeOps, UnaryAct
<1>. QED
  BY <1>1, <1>2, ReadersRead, TwoClaimed

(* The Relu of a perceptron follows its Gemm, the Flatten comes before it. *)
LEMMA MlpClaims ==
  ASSUME WorkShape, at \in Free(Positions), Op(at) = "Gemm"
  PROVE  Claim(MlpGroup.members) /\ Together(MlpGroup.members)
<1>1. PICK relu : relu = {q \in OnlyFreeReader(Out(at)) : Op(q) = "Relu"}
  OBVIOUS
<1>2. PICK flat : flat = IF relu # {} THEN FlattenBefore(at) ELSE {}
  OBVIOUS
<1>3. MlpGroup.members = (SetToSeq(flat) \o <<at>>) \o SetToSeq(relu)
  BY <1>1, <1>2 DEF MlpGroup
<1>4. relu \subseteq Free(Positions) /\ \A q \in relu : Op(q) = "Relu" /\ Ins(q)[1] = Out(at)
  BY <1>1, ReadersRead, ReluReads
<1>5. flat \subseteq Free(Positions) /\ \A q \in flat : Op(q) = "Flatten"
  BY <1>2 DEF FlattenBefore, Free, Producers, Positions
<1>6. /\ Claim(SetToSeq(relu)) /\ ToSet(SetToSeq(relu)) \subseteq relu
      /\ Claim(SetToSeq(flat)) /\ ToSet(SetToSeq(flat)) \subseteq flat
  BY <1>4, <1>5, SetClaimed
<1>7. Claim(<<at>>) /\ ToSet(<<at>>) = {at}
  BY OneClaimed
<1>8. PICK first : first = SetToSeq(flat) \o <<at>>
  OBVIOUS
<1>9. Claim(first) /\ ToSet(first) = ToSet(SetToSeq(flat)) \cup {at}
  BY <1>5, <1>6, <1>7, <1>8, JoinClaimed
<1>10. ToSet(first) \cap ToSet(SetToSeq(relu)) = {}
  BY <1>4, <1>5, <1>6, <1>9
<1>11. PICK s : s = MlpGroup.members
  OBVIOUS
<1>12. Claim(s) /\ ToSet(s) = ToSet(first) \cup ToSet(SetToSeq(relu))
  BY <1>3, <1>6, <1>8, <1>9, <1>10, <1>11, JoinClaimed
<1>13. Together(s)
  <2>1. SUFFICES ASSUME NEW q \in ToSet(s), Op(q) = "Relu"
                 PROVE  \E p \in ToSet(s) : Out(p) = Ins(q)[1]
    BY DEF Together, ReluFollows
  <2>2. q \in relu /\ at \in ToSet(s)
    BY <1>5, <1>6, <1>9, <1>12, <2>1
  <2>. QED
    BY <1>4, <2>2
<1>. QED
  BY <1>11, <1>12, <1>13

-----------------------------------------------------------------------------
(* The steps.                                                              *)
LEMMA NothingAdded ==
  ASSUME FInv, UNCHANGED <<work, stage, consumed, groups>>, at' \in Nat \ {0}
  PROVE  FInv'
<1>1. WorkShape' /\ OneProducer' /\ GroupList'
  BY DEF FInv, WorkShape, OneProducer, GroupList, Positions, Op, Ins, Out
<1>2. GroupsDisjoint'
  BY DEF FInv, GroupsDisjoint
<1>3. ReluClaimed'
  BY DEF FInv, ReluClaimed, ReluFollows, Positions, Op, Ins, Out
<1>. QED
  BY <1>1, <1>2, <1>3 DEF FInv

LEMMA VisitKept ==
  ASSUME FInv, NEW m, m # "prefuse", NEW found, Visit(m, found),
         at \in Free(Positions) =>
           \A s \in found : Claim(s) /\ (m \in Early => Together(s))
  PROVE  FInv'
<1>1. /\ stage = m /\ at \in Positions /\ at' = at + 1 /\ UNCHANGED <<work, stage>>
  BY DEF Visit, Walking, Positions
<1>2. at' \in Nat \ {0}
  BY <1>1 DEF FInv
<1>3. CASE at \notin consumed /\ found # {}
  <2>1. PICK s \in found :
          /\ groups' = Append(groups, [pattern |-> m, members |-> s,
                                       replay |-> <<>>, inits |-> <<>>])
          /\ consumed' = consumed \cup ToSet(s)
    BY <1>3 DEF Visit
  <2>2. at \in Free(Positions)
    BY <1>1, <1>3 DEF Free
  <2>3. PICK group : group = [pattern |-> m, members |-> s, replay |-> <<>>, inits |-> <<>>]
    OBVIOUS
  <2>4. Claim(group.members) /\ (stage \in Early => Together(group.members))
    BY <1>1, <2>2, <2>3
  <2>5. groups' = Append(groups, group) /\ consumed' = consumed \cup ToSet(group.members)
    BY <2>1, <2>3
  <2>. QED
    BY <1>1, <2>4, <2>5, GroupAdded
<1>4. CASE ~ (at \notin consumed /\ found # {})
  BY <1>1, <1>2, <1>4, NothingAdded DEF Visit
<1>. QED
  BY <1>3, <1>4

LEMMA MlpKept ==
  ASSUME FInv, MlpStructure
  PROVE  FInv'
<1>1. /\ stage = "MlpStructure" /\ at \in Positions /\ at' = at + 1 /\ UNCHANGED <<work, stage>>
  BY DEF MlpStructure, Walking, Positions
<1>2. at' \in Nat \ {0}
  BY <1>1 DEF FInv
<1>3. CASE at \notin consumed /\ Canonical(at)
  <2>1. at \in Free(Positions) /\ Op(at) = "Gemm"
    BY <1>1, <1>3 DEF Free, Canonical
  <2>2. PICK group : group = MlpGroup
    OBVIOUS
  <2>3. Claim(group.members) /\ Together(group.members)
    BY <2>1, <2>2, MlpClaims DEF FInv
  <2>4. groups' = Append(groups, group) /\ consumed' = consumed \cup ToSet(group.members)
    BY <1>3, <2>2 DEF MlpStructure
  <2>. QED
    BY <1>1, <2>3, <2>4, GroupAdded
<1>4. CASE ~ (at \notin consumed /\ Canonical(at))
  BY <1>1, <1>2, <1>4, NothingAdded DEF MlpStructure
<1>. QED
  BY <1>3, <1>4

(* After the matchers that come early there is none of them.               *)
LEMMA StagesInOrder ==
  ASSUME NEW m \in ToSet(Matchers)
  PROVE  /\ NextStage(m) # "prefuse" /\ m # "prefuse"
         /\ NextStage(m) \in Early => m \in Early
<1>1. PICK k \in 1..10 : Matchers[k] = m
  BY DEF ToSet, Matchers
<1>2. \A l \in 1..10 : Matchers[l] = m => l = k
  BY <1>1 DEF Matchers
<1>3. PICK turn : turn = Turn(m)
  OBVIOUS
<1>4. turn = k /\ NextStage(m) = IF m = "ComputeActivation" THEN "apply" ELSE Matchers[k + 1]
  <2>1. DOMAIN Matchers = 1..10 /\ Last(Matchers) = "ComputeActivation"
    BY DEF Matchers, Last
  <2>2. turn \in DOMAIN Matchers /\ Matchers[turn] = m
    BY <1>1, <1>3, <2>1 DEF Turn
  <2>3. turn = k
    BY <1>2, <2>1, <2>2
  <2>. QED
    BY <1>3, <2>1, <2>3 DEF NextStage
<1>5. m = "ComputeActivation" \/ k \in 1..9
  BY <1>1 DEF Matchers
<1>. QED
  BY <1>1, <1>4, <1>5 DEF Matchers, Early

LEMMA WalkDoneKept ==
  ASSUME FInv, NEW m \in ToSet(Matchers), WalkDone(m)
  PROVE  FInv'
<1>1. /\ stage = m /\ stage' = NextStage(m) /\ at' = 1 /\ UNCHANGED <<work, consumed, groups>>
  BY DEF WalkDone
<1>2. stage # "prefuse" /\ stage' # "prefuse" /\ (stage' \in Early => stage \in Early)
  BY <1>1, StagesInOrder
<1>3. WorkShape' /\ OneProducer' /\ at' \in Nat \ {0}
  BY <1>1 DEF FInv, WorkShape, OneProducer, Positions, Op, Ins, Out
<1>4. GroupsDisjoint'
  BY <1>1, <1>2 DEF FInv, GroupsDisjoint
<1>5. ReluClaimed'
  BY <1>1, <1>2 DEF FInv, ReluClaimed, ReluFollows, Positions, Op, Ins, Out
<1>6. GroupList'
  BY <1>1, <1>2 DEF FInv, GroupList
<1>. QED
  BY <1>3, <1>4, <1>5, <1>6 DEF FInv

(* Folding changes what a convolution reads, dropping leaves the others in *)
(* their order.                                                            *)
LEMMA FoldKept ==
  ASSUME FInv, FoldConvBn
  PROVE  FInv'
<1>1. stage = "prefuse" /\ stage' = stage /\ groups' = groups /\ at' = at + 1 /\ at \in Positions
  BY DEF FoldConvBn, Walking, Positions
<1>2. GroupList' /\ at' \in Nat \ {0} /\ ReluClaimed' /\ GroupsDisjoint'
  BY <1>1 DEF FInv, GroupList, ReluClaimed, Early, GroupsDisjoint
<1>3. CASE UNCHANGED work
  BY <1>2, <1>3 DEF FInv, WorkShape, OneProducer, Positions, Op, Ins, Out
<1>4. ASSUME Op(at) = "Conv", NEW bn, Fold(at, bn) PROVE FInv'
  <2>1. PICK ins, inits :
          work' = [work EXCEPT !.nodes[at].ins = ins, !.inits = inits]
    BY <1>4 DEF Fold, Ins
  <2>2. work.nodes[at] = work.nodes[at] /\ "nodes" \in DOMAIN work /\ "ins" \in DOMAIN work.nodes[at]
    BY <1>1 DEF FInv, WorkShape
  <2>3. /\ DOMAIN work' = DOMAIN work
        /\ work'.nodes = [work.nodes EXCEPT ![at].ins = ins]
    BY <1>1, <2>1 DEF FInv, WorkShape
  <2>4. DOMAIN work'.nodes = Positions /\ Len(work'.nodes) = Len(work.nodes)
    BY <2>3 DEF Positions
  <2>5. \A p \in Positions : p # at => work'.nodes[p] = work.nodes[p]
    BY <2>3 DEF Positions
  <2>6. work'.nodes[at] = [work.nodes[at] EXCEPT !.ins = ins]
    BY <1>1, <2>3 DEF Positions
  <2>7. /\ DOMAIN work'.nodes[at] = DOMAIN work.nodes[at]
        /\ work'.nodes[at].op = "Conv" /\ work'.nodes[at].outs = work.nodes[at].outs
    BY <1>1, <1>4, <2>6 DEF FInv, WorkShape, Op
  <2>8. WorkShape'
    <3>1. IsSequence(work'.nodes)
      BY <2>4, PositionsFinite DEF FInv, IsSequence, Positions
    <3>2. ASSUME NEW p \in Positions
          PROVE  /\ DOMAIN work'.nodes[p] = {"op", "ins", "outs", "attrs", "ops"}
                 /\ Op(p)' = "Relu" => DOMAIN Ins(p)' = {1} /\ Ins(p)'[1] # Omitted
      BY <2>5, <2>7 DEF FInv, WorkShape, Op, Ins
    <3>. QED
      BY <2>3, <2>4, <3>1, <3>2 DEF FInv, WorkShape, Positions
  <2>9. OneProducer'
    BY <2>4, <2>5, <2>7 DEF FInv, OneProducer, Positions, Out
  <2>. QED
    BY <1>2, <2>8, <2>9 DEF FInv
<1>. QED
  BY <1>1, <1>3, <1>4 DEF FoldConvBn

LEMMA DropKept ==
  ASSUME FInv, DropNorms
  PROVE  FInv'
<1>1. /\ groups = <<>> /\ groups' = <<>> /\ stage' = "MatMulBias" /\ at' = 1 /\ consumed' = {}
  BY DEF DropNorms, FInv, GroupList, Matchers
<1>2. GroupList' /\ at' \in Nat \ {0} /\ ReluClaimed' /\ GroupsDisjoint'
  BY <1>1 DEF FInv, GroupList, ReluClaimed, GroupsDisjoint
<1>3. CASE UNCHANGED work
  BY <1>2, <1>3 DEF FInv, WorkShape, OneProducer, Positions, Op, Ins, Out
<1>4. CASE consumed # {}
  <2>1. PICK kept : kept = DOMAIN work.nodes \ consumed
    OBVIOUS
  <2>2. PICK n \in Nat : n = Cardinality(kept)
    BY <2>1, PositionsFinite, FS_CardinalityType DEF FInv, Positions
  <2>3. PICK order \in [1..n -> kept] :
          /\ \A k, l \in 1..n : k < l => order[k] < order[l]
          /\ work' = [work EXCEPT !.nodes = [k \in 1..n |-> work.nodes[order[k]]]]
    BY <1>4, <2>1, <2>2 DEF DropNorms
  <2>4. DOMAIN work' = DOMAIN work /\ work'.nodes = [k \in 1..n |-> work.nodes[order[k]]]
    BY <2>3 DEF FInv, WorkShape
  <2>5. Positions' = 1..n /\ \A k \in 1..n : work'.nodes[k] = work.nodes[order[k]] /\ order[k] \in Positions
    BY <2>1, <2>3, <2>4 DEF Positions
  <2>6. WorkShape'
    <3>1. IsSequence(work'.nodes)
      BY <2>4 DEF IsSequence
    <3>2. ASSUME NEW k \in 1..n
          PROVE  /\ DOMAIN work'.nodes[k] = {"op", "ins", "outs", "attrs", "ops"}
                 /\ Op(k)' = "Relu" => DOMAIN Ins(k)' = {1} /\ Ins(k)'[1] # Omitted
      BY <2>5 DEF FInv, WorkShape, Op, Ins
    <3>. QED
      BY <2>4, <2>5, <3>1, <3>2 DEF FInv, WorkShape
  <2>7. OneProducer'
    <3>1. SUFFICES ASSUME NEW k \in 1..n, NEW l \in 1..n,
                          work'.nodes[k].outs[1] = work'.nodes[l].outs[1],
                          work'.nodes[k].outs[1] # Omitted
                   PROVE  k = l
      BY <2>5 DEF OneProducer, Out
    <3>2. order[k] = order[l]
      BY <2>5, <3>1 DEF FInv, OneProducer, Out
    <3>3. order[k] \in Nat
      BY <2>5, PositionsFinite DEF FInv
    <3>4. ~ (k < l) /\ ~ (l < k)
      BY <2>3, <3>2, <3>3
    <3>. QED
      BY <3>4
  <2>. QED
    BY <1>2, <2>6, <2>7 DEF FInv
<1>. QED
  BY <1>3, <1>4 DEF DropNorms

LEMMA ApplyKept ==
  ASSUME FInv, ApplyGroups
  PROVE  FInv'
<1>1. stage = "apply" /\ stage' = "done" /\ UNCHANGED <<work, at, consumed, groups>>
  BY DEF ApplyGroups
<1>2. WorkShape' /\ OneProducer' /\ at' \in Nat \ {0}
  BY <1>1 DEF FInv, WorkShape, OneProducer, Positions, Op, Ins, Out
<1>3. GroupsDisjoint' /\ GroupList' /\ ReluClaimed'
  BY <1>1 DEF FInv, GroupsDisjoint, GroupList, ReluClaimed, Early
<1>. QED
  BY <1>2, <1>3 DEF FInv

-----------------------------------------------------------------------------
(* A well-formed graph satisfies what the rewriting keeps.                 *)
LEMMA InitHolds == Init => FInv
<1>. SUFFICES ASSUME Init PROVE FInv
  OBVIOUS
<1>1. IsGraph(work) /\ ValidGraph(work) /\ at = 1 /\ consumed = {} /\ groups = <<>>
  BY GraphsAssumption DEF Init
<1>2. WorkShape
  BY <1>1 DEF WorkShape, IsGraph, IsSequence, Positions, Op, Ins
<1>3. OneProducer
  <2>1. SUFFICES ASSUME NEW p \in Positions, NEW q \in Positions,
                        Out(p) = Out(q), Out(p) # Omitted
                 PROVE  p = q
    BY DEF OneProducer
  <2>2. PICK t : t = Out(p)
    OBVIOUS
  <2>3. \A o \in Positions : t = Out(o) => t \in ToSet(work.nodes[o].outs) \ {Omitted}
    BY <1>1, <2>1, <2>2 DEF IsGraph, IsSequence, Positions, Out, ToSet
  <2>4. t \in Written(work.nodes)
    <3>1. t \in ToSet(work.nodes[p].outs) /\ t # Omitted
      BY <2>1, <2>2, <2>3
    <3>. QED
      BY <3>1 DEF Written, Positions
  <2>5. PICK S : S = Producers(work, t)
    OBVIOUS
  <2>6. Cardinality(S) = 1 /\ IsFiniteSet(S)
    BY <1>1, <1>2, <2>4, <2>5, PositionsFinite DEF ValidGraph, Producers, Positions
  <2>7. p \in S /\ q \in S
    BY <2>1, <2>2, <2>3, <2>5 DEF Producers, Positions
  <2>8. PICK x : S = {x}
    BY <2>6, FS_Singleton
  <2>. QED
    BY <2>7, <2>8
<1>. QED
  BY <1>1, <1>2, <1>3 DEF FInv, ReluClaimed, GroupList, GroupsDisjoint

LEMMA NextKept == FInv /\ [Next]_vars => FInv'
<1>. SUFFICES ASSUME FInv, [Next]_vars PROVE FInv'
  OBVIOUS
<1>1. ASSUME NEW m, m # "prefuse", NEW found, Visit(m, found),
             FInv /\ stage = m /\ at \in Free(Positions) =>
               \A s \in found : Claim(s) /\ (m \in Early => Together(s))
      PROVE  FInv'
  BY <1>1, VisitKept DEF Visit, Walking
<1>2. CASE UNCHANGED vars
  BY <1>2, NothingAdded DEF vars, FInv
<1>3. CASE Done
  BY <1>2, <1>3 DEF Done
<1>4. CASE Visit("MatMulBias", MatMulBias)
  BY <1>1, <1>4, MatMulBiasClaims
<1>5. CASE Visit("ResidualNorm", ResidualNorm)
  BY <1>1, <1>5, ResidualNormClaims DEF FInv
<1>6. CASE Visit("SoftmaxDropout", SoftmaxDropout)
  BY <1>1, <1>6, SoftmaxDropoutClaims
<1>7. CASE Visit("ConvBn", ConvBn)
  BY <1>1, <1>7, ConvBnClaims
<1>8. CASE Visit("PoolFlatten", PoolFlatten)
  BY <1>1, <1>8, PoolFlattenClaims
<1>9. CASE Visit("DualConvResidualAdd", DualConvResidualAdd)
  <2>1. "DualConvResidualAdd" \in Early
    BY DEF Early
  <2>. QED
    BY <1>1, <1>9, <2>1, DualConvResidualAddClaims
<1>10. CASE Visit("ConvResidualAdd", ConvResidualAdd)
  <2>1. "ConvResidualAdd" \notin Early
    BY DEF Early
  <2>. QED
    BY <1>1, <1>10, <2>1, ConvResidualAddClaims DEF FInv
<1>11. CASE Visit("EwChain", EwChain)
  <2>1. "EwChain" \notin Early
    BY DEF Early
  <2>. QED
    BY <1>1, <1>11, <2>1, EwChainClaims DEF FInv
<1>12. CASE Visit("ComputeActivation", ComputeActivation)
  <2>1. "ComputeActivation" \notin Early
    BY DEF Early
  <2>. QED
    BY <1>1, <1>12, <2>1, ComputeActivationClaims
<1>. QED
  BY <1>2, <1>3, <1>4, <1>5, <1>6, <1>7, <1>8, <1>9, <1>10, <1>11, <1>12,
     FoldKept, DropKept, MlpKept, WalkDoneKept, ApplyKept DEF Next

(* Fusion never claims a node for two groups, nor twice for one, whatever  *)
(* the graph: FusionPass.run replaces the members of each group by one     *)
(* node and drops them, so that a node claimed twice would be computed     *)
(* twice or lost (fusion.py _apply_groups).                                *)
THEOREM ClaimsDisjoint == Spec => []GroupsDisjoint
<1>1. FInv => GroupsDisjoint
  BY DEF FInv
<1>. QED
  BY <1>1, InitHolds, NextKept, PTL DEF Spec
=============================================================================
