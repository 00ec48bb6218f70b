------------------------------- MODULE Fusion -------------------------------
(***************************************************************************)
(* GraphPassPipeline.run of C3/src/scheduler/graph_passes: prefuse_conv_bn *)
(* folds batch norms into convolutions, then FusionPass.run lets ten       *)
(* matchers walk over the nodes, one after the other, claiming nodes for   *)
(* groups, and replaces each group by one node.  An action is one matcher  *)
(* at one node.  FusionPass.run may also be called without the pipeline.   *)
(* The log of what was fused, and with it the annotations, is left out.    *)
(***************************************************************************)
EXTENDS OnnxGraph

CONSTANT Graphs

ASSUME GraphsAssumption == \A g \in Graphs : IsGraph(g) /\ ValidGraph(g)

VARIABLES
  source,     (* the caller's graph                                        *)
  work,       (* the clone that is rewritten                               *)
  stage,      (* the matcher that walks, or what comes before and after    *)
  at,         (* the node it is at                                         *)
  consumed,   (* positions of claimed nodes; of folded norms before        *)
  groups,     (* each with its members, and what a fused Gemm replays      *)
  fresh,      (* the next name that is unused                              *)
  optimized   (* the graph that is returned                                *)

vars == <<source, work, stage, at, consumed, groups, fresh, optimized>>

Elementwise == {"Add", "Mul", "Div", "Sub", "Relu", "Erf", "Sqrt"}
UnaryAct == {"Relu", "Erf", "Sqrt"}
ComputeOps == {"Conv", "Gemm", "MatMul"}
Norms == {"LayerNormalization", "LayerNorm"}
BatchNorms == {"BatchNormalization", "BatchNorm"}

Matchers ==
  <<"MatMulBias", "ResidualNorm", "MlpStructure", "SoftmaxDropout", "ConvBn", "PoolFlatten",
    "DualConvResidualAdd", "ConvResidualAdd", "EwChain", "ComputeActivation">>

Names(g) ==
  Written(g.nodes) \cup g.inputs \cup DOMAIN g.inits
    \cup UNION {ToSet(g.nodes[p].ins) : p \in DOMAIN g.nodes}

Init ==
  /\ source \in Graphs
  /\ work = source
  /\ stage \in {"prefuse", Matchers[1]}
  /\ at = 1 /\ consumed = {} /\ groups = <<>>
  /\ fresh = Max(Names(source)) + 1
  /\ optimized = source

Op(p) == work.nodes[p].op
Ins(p) == work.nodes[p].ins
Out(p) == work.nodes[p].outs[1]
InitNames == DOMAIN work.inits
Loaded(t) == t \in InitNames /\ work.inits[t] # Unknown
Free(S) == S \ consumed

(* The node that is the only entry of consumers[t], or none.  The second   *)
(* does not count the claimed ones.                                        *)
OnlyReader(t) ==
  LET readers == Reads(work, t) IN IF Cardinality(readers) = 1 THEN {r[1] : r \in readers} ELSE {}

(* Mutant: claimed readers count like the others, and are claimed again. *)
OnlyFreeReaderClaimed(t) == OnlyReader(t)

OnlyFreeReader(t) ==
  LET readers == {r \in Reads(work, t) : r[1] \notin consumed}
  IN IF Cardinality(readers) = 1 THEN {r[1] : r \in readers} ELSE {}

Walking(m) == stage = m /\ at \in DOMAIN work.nodes

Turn(m) == CHOOSE i \in DOMAIN Matchers : Matchers[i] = m
NextStage(m) == IF m = Last(Matchers) THEN "apply" ELSE Matchers[Turn(m) + 1]

-----------------------------------------------------------------------------
(* _fold_conv_bn_inplace: the weight is scaled, the bias replaced.         *)
Fold(conv, bn) ==
  LET weight == Ins(conv)[2]
      bias == IF Len(Ins(conv)) > 2 THEN Ins(conv)[3] ELSE fresh
  IN work' = [work EXCEPT
       !.nodes[conv].ins = SubSeq(@, 1, 2) \o <<bias>>,
       !.inits = (bias :> <<"shift", bn>>) @@
                 IF Loaded(weight) THEN (weight :> <<"scaled", bn, @[weight]>>) @@ @ ELSE @]

(* A convolution with a batch norm among its readers.                      *)
FoldConvBn ==
  LET bns == {r[1] : r \in {r \in Reads(work, Out(at)) : Op(r[1]) \in BatchNorms}}
      bn == Min(bns)
  IN /\ Walking("prefuse")
     /\ at' = at + 1
     /\ IF /\ Op(at) = "Conv" /\ bns # {}
           /\ Len(Ins(bn)) > 4 /\ Loaded(Ins(bn)[2]) /\ Loaded(Ins(bn)[5])
        THEN Fold(at, bn) /\ consumed' = consumed \cup {bn} /\ fresh' = fresh + 1
        ELSE UNCHANGED <<work, consumed, fresh>>
     /\ UNCHANGED <<source, stage, groups, optimized>>

(* The folded norms are taken out of the graph.                            *)
DropNorms ==
  /\ stage = "prefuse" /\ at \notin DOMAIN work.nodes
  /\ LET kept == DOMAIN work.nodes \ consumed IN
       IF consumed = {} THEN UNCHANGED work
       ELSE \E order \in [1..Cardinality(kept) -> kept] :
              /\ \A k, l \in DOMAIN order : k < l => order[k] < order[l]
              /\ work' = [work EXCEPT !.nodes = [k \in DOMAIN order |-> @[order[k]]]]
  /\ stage' = Matchers[1] /\ at' = 1 /\ consumed' = {}
  /\ UNCHANGED <<source, groups, fresh, optimized>>

-----------------------------------------------------------------------------
(* One iteration of a matcher: found is empty, or the members of a group.  *)
Visit(m, found) ==
  /\ Walking(m)
  /\ at' = at + 1
  /\ IF at \notin consumed /\ found # {}
     THEN \E members \in found :
            /\ groups' = Append(groups, [pattern |-> m, members |-> members,
                                         replay |-> <<>>, inits |-> <<>>])
            /\ consumed' = consumed \cup ToSet(members)
     ELSE UNCHANGED <<groups, consumed>>
  /\ UNCHANGED <<source, work, stage, fresh, optimized>>

WalkDone(m) ==
  /\ stage = m /\ at \notin DOMAIN work.nodes
  /\ stage' = NextStage(m) /\ at' = 1
  /\ UNCHANGED <<source, work, consumed, groups, fresh, optimized>>

Others(p, t) == SelectSeq(Ins(p), LAMBDA u : u # t)
Data(p) == SelectSeq(Ins(p), LAMBDA t : t \notin InitNames)

(* MatMul -> Add of an initializer.                                        *)
MatMulBias ==
  {<<at, add>> : add \in
     {q \in OnlyFreeReader(Out(at)) :
        /\ Op(at) = "MatMul" /\ Op(q) = "Add"
        /\ Len(Others(q, Out(at))) = 1 /\ ToSet(Others(q, Out(at))) \subseteq InitNames}}

(* Add of two computed tensors -> LayerNorm, whoever else reads the sum.   *)
ResidualNorm ==
  LET norms == {q \in Free({r[1] : r \in Reads(work, Out(at))}) : Op(q) \in Norms}
  IN IF Op(at) = "Add" /\ norms # {} /\ Len(Data(at)) >= 2 THEN {<<at, Min(norms)>>} ELSE {}

SoftmaxDropout ==
  {<<at, q>> : q \in {q \in OnlyFreeReader(Out(at)) : Op(at) = "Softmax" /\ Op(q) = "Dropout"}}

ConvBn ==
  {<<at, bn>> : bn \in
     {q \in Free(OnlyReader(Out(at))) :
        /\ Op(at) = "Conv" /\ Ins(at)[2] \in InitNames
        /\ Out(at) \notin work.outputs
        /\ Op(q) \in BatchNorms /\ Len(Ins(q)) = 5
        /\ ToSet(Tail(Ins(q))) \subseteq InitNames
        /\ \A o \in ToSet(Tail(work.nodes[q].outs)) : o \notin work.outputs /\ Reads(work, o) = {}}}

PoolFlatten ==
  {<<at, q>> : q \in
     {q \in Free(OnlyReader(Out(at))) :
        Op(at) = "GlobalAveragePool" /\ Out(at) \notin work.outputs /\ Op(q) = "Flatten"}}

(* Add of two convolutions that nobody else reads, and a Relu.             *)
DualConvResidualAdd ==
  LET convs == Free(UNION {Producers(work, t) : t \in ToSet(Data(at))})
      act == {q \in OnlyReader(Out(at)) : Op(q) = "Relu"}
  IN IF /\ Op(at) = "Add" /\ Len(Data(at)) = 2 /\ Cardinality(convs) = 2
        /\ \A q \in convs : Op(q) = "Conv" /\ OnlyReader(Out(q)) = {at}
     THEN {<<Min(convs), Max(convs), at>> \o SetToSeq(act)} ELSE {}

(* Conv -> Add of a computed tensor -> one activation.                     *)
ConvResidualAdd ==
  {<<at, add>> \o SetToSeq({q \in OnlyFreeReader(Out(add)) : Op(q) \in UnaryAct}) : add \in
     {q \in OnlyFreeReader(Out(at)) :
        /\ Op(at) = "Conv" /\ Op(q) = "Add"
        /\ ~ (ToSet(Others(q, Out(at))) \subseteq InitNames)}}

(* Up to five elementwise operators, each read by the next alone.          *)
Longer(chain) ==
  chain \o SetToSeq({q \in OnlyFreeReader(Out(Last(chain))) \ ToSet(chain) : Op(q) \in Elementwise})

EwChain ==
  LET chain == Longer(Longer(Longer(Longer(<<at>>)))) IN
  IF Op(at) \in Elementwise /\ Len(chain) >= 2 THEN {chain} ELSE {}

ComputeActivation ==
  {<<at, act>> : act \in
     {q \in OnlyFreeReader(Out(at)) : Op(at) \in ComputeOps /\ Op(q) \in UnaryAct}}

-----------------------------------------------------------------------------
(* Mutant: B is taken as it is, whatever transB says. *)
FoldedWeightsUntransposed(p, b, c) ==
  (b :> work.inits[Ins(p)[2]]) @@
  (c :> IF "beta" \in work.nodes[p].attrs THEN <<"beta", work.inits[Ins(p)[3]]>>
        ELSE work.inits[Ins(p)[3]])

(* The initializers of a canonical Gemm: they absorb transB and beta.      *)
FoldedWeights(p, b, c) ==
  LET Apply(attr, t) ==
        IF attr \in work.nodes[p].attrs THEN <<attr, work.inits[t]>> ELSE work.inits[t]
  IN (b :> Apply("transB", Ins(p)[2])) @@ (c :> Apply("beta", Ins(p)[3]))

Canonical(p) ==
  /\ Op(p) = "Gemm" /\ Len(Ins(p)) = 3
  /\ {"transA", "alpha"} \cap work.nodes[p].attrs = {}
  /\ Loaded(Ins(p)[2]) /\ Loaded(Ins(p)[3])

(* A Flatten before the Gemm that all consumers, claimed or not, agree on. *)
FlattenBefore(p) ==
  {q \in Free(Producers(work, Ins(p)[1])) :
     /\ Ins(p)[1] \notin InitNames /\ Op(q) = "Flatten"
     /\ Cardinality(Reads(work, Out(q))) = 1}

(* Gemm with a bias -> Relu, as MatMul, Add and Relu; with the Flatten     *)
(* before it only if the Relu is there too.                                *)
MlpGroup ==
  LET relu == {q \in OnlyFreeReader(Out(at)) : Op(q) = "Relu"}
      flat == IF relu # {} THEN FlattenBefore(at) ELSE {}
      flatOps == {NodeOf("Flatten", Ins(q), <<fresh + 3>>) : q \in flat}
      product == NodeOf("MatMul", <<IF flat # {} THEN fresh + 3 ELSE Ins(at)[1], fresh>>,
                        <<fresh + 2>>)
      reluOps == {NodeOf("Relu", <<Out(at)>>, work.nodes[q].outs) : q \in relu}
  IN [pattern |-> "MlpStructure",
      members |-> SetToSeq(flat) \o <<at>> \o SetToSeq(relu),
      replay |-> SetToSeq(flatOps) \o <<product, NodeOf("Add", <<fresh + 2, fresh + 1>>,
                                                        work.nodes[at].outs)>>
                   \o SetToSeq(reluOps),
      inits |-> FoldedWeights(at, fresh, fresh + 1)]

MlpStructure ==
  /\ Walking("MlpStructure")
  /\ at' = at + 1
  /\ IF at \notin consumed /\ Canonical(at)
     THEN /\ groups' = Append(groups, MlpGroup)
          /\ consumed' = consumed \cup ToSet(MlpGroup.members)
          /\ fresh' = fresh + 4
     ELSE UNCHANGED <<groups, consumed, fresh>>
  /\ UNCHANGED <<source, work, stage, optimized>>

-----------------------------------------------------------------------------
Distinct(s) ==
  FoldLeft(LAMBDA d, t : IF t \in ToSet(d) THEN d ELSE Append(d, t), <<>>, s)

Ops(grp) == IF grp.replay = <<>> THEN [i \in DOMAIN grp.members |-> work.nodes[grp.members[i]]]
            ELSE grp.replay

(* What the operators of the group read and do not write themselves.       *)
ExternalInputs(grp) ==
  LET ops == Ops(grp)
      outs == UNION {ToSet(ops[i].outs) : i \in DOMAIN ops}
  IN Distinct(SelectSeq(FlattenSeq([i \in DOMAIN ops |-> ops[i].ins]), LAMBDA t : t \notin outs))

UsedOutside(grp, t) == \E r \in Reads(work, t) : r[1] \notin ToSet(grp.members)

(* Mutant: only the last member has outputs. *)
ExternalOutputsLast(grp) == work.nodes[Last(grp.members)].outs

(* The outputs of members that somebody outside reads or the graph         *)
(* returns; those of the last member if there are none.                    *)
ExternalOutputs(grp) ==
  LET outs == FlattenSeq([i \in DOMAIN grp.members |-> work.nodes[grp.members[i]].outs])
      external == SelectSeq(outs, LAMBDA t : t \in work.outputs \/ UsedOutside(grp, t))
  IN IF external = <<>> THEN work.nodes[Last(grp.members)].outs ELSE Distinct(external)

FusedNode(grp) ==
  [NodeOf("Fused", ExternalInputs(grp), ExternalOutputs(grp)) EXCEPT !.ops = Ops(grp)]

(* Each group becomes one node at the position of its first member.        *)
Fused ==
  LET Of(p) == {i \in DOMAIN groups : p \in ToSet(groups[i].members)}
      Emit(p) == IF Of(p) = {} THEN <<work.nodes[p]>>
                 ELSE LET grp == groups[Max(Of(p))]
                      IN IF p = Min(ToSet(grp.members)) THEN <<FusedNode(grp)>> ELSE <<>>
      Extra(inits, grp) == grp.inits @@ inits
  IN [work EXCEPT !.nodes = FlattenSeq([p \in DOMAIN @ |-> Emit(p)]),
                  !.inits = FoldLeft(Extra, @, groups)]

ApplyGroups ==
  /\ stage = "apply"
  /\ optimized' = Fused
  /\ stage' = "done"
  /\ UNCHANGED <<source, work, at, consumed, groups, fresh>>

Done == stage = "done" /\ UNCHANGED vars

Next ==
  \/ FoldConvBn \/ DropNorms
  \/ Visit("MatMulBias", MatMulBias)
  \/ Visit("ResidualNorm", ResidualNorm)
  \/ MlpStructure
  \/ Visit("SoftmaxDropout", SoftmaxDropout)
  \/ Visit("ConvBn", ConvBn)
  \/ Visit("PoolFlatten", PoolFlatten)
  \/ Visit("DualConvResidualAdd", DualConvResidualAdd)
  \/ Visit("ConvResidualAdd", ConvResidualAdd)
  \/ Visit("EwChain", EwChain)
  \/ Visit("ComputeActivation", ComputeActivation)
  \/ (\E m \in ToSet(Matchers) : WalkDone(m))
  \/ ApplyGroups \/ Done

Spec == Init /\ [][Next]_vars
-----------------------------------------------------------------------------
(* No node is in two groups, or twice in one: the matchers, some of which  *)
(* look at all readers and some at the unclaimed ones, never claim a node  *)
(* that an earlier one has claimed.                                        *)
GroupsDisjoint ==
  stage # "prefuse" =>
    /\ consumed = UNION {ToSet(groups[i].members) : i \in DOMAIN groups}
    /\ \A i \in DOMAIN groups : IsInjective(groups[i].members)
    /\ \A i, j \in DOMAIN groups :
         i # j => ToSet(groups[i].members) \cap ToSet(groups[j].members) = {}

(* The members of a group that member e leads to within the group.         *)
ReachedFrom(grp, e) ==
  LET Grow(S, k) == S \cup {q \in ToSet(grp.members) : Dependencies(work, q) \cap S # {}}
  IN FoldLeft(Grow, {e}, grp.members)

(* A group is woven when each member that waits for a node outside leads   *)
(* to each member that a node outside waits for.                           *)
Woven(grp) ==
  \A e, x \in ToSet(grp.members) :
    (/\ ~ (Dependencies(work, e) \subseteq ToSet(grp.members))
     /\ \E t \in ToSet(work.nodes[x].outs) : UsedOutside(grp, t))
    => x \in ReachedFrom(grp, e)

(* A Flatten that is replayed under another name although the graph        *)
(* returns its output.                                                     *)
LosesFlatten(grp) ==
  grp.replay # <<>> /\ Op(grp.members[1]) = "Flatten" /\ Out(grp.members[1]) \in work.outputs

NormsFolded == Len(work.nodes) < Len(source.nodes)

(* Provided that every group is woven and no norm was folded, fusion       *)
(* returns a well-formed graph: every tensor that is still read has its    *)
(* one producer, and the fused nodes do not wait for each other.  It then  *)
(* computes what the caller's graph does, unless it returns the output of  *)
(* an absorbed Flatten.  (fusion.py _apply_groups)                         *)
MeaningKept ==
  (stage = "done" /\ ~ NormsFolded /\ \A i \in DOMAIN groups : Woven(groups[i])) =>
    /\ ValidGraph(optimized)
    /\ (\A i \in DOMAIN groups : ~ LosesFlatten(groups[i])) =>
         Computed(optimized) = Computed(source)

(* "a correct fusion is numerically identical to the un-fused graph by     *)
(* construction": a fused graph is well formed and computes the same.      *)
FusionAligned ==
  stage = "done" => ValidGraph(optimized) /\ Computed(optimized) = Computed(source)
=============================================================================
