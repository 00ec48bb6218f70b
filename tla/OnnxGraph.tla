----------------------------- MODULE OnnxGraph -----------------------------
(***************************************************************************)
(* The computation graph of C3/src/scheduler/graph.py and what             *)
(* C3/src/runtime/mock_runtime.py computes from it.  A graph is a record   *)
(* of its nodes in order, its inputs and outputs, and the values of its    *)
(* initializers.  A tensor name is a number, Omitted the blank name of an  *)
(* optional input; a value is the expression that computes it.             *)
(***************************************************************************)
EXTENDS Integers, SequencesExt

Omitted == 0
Unknown == <<"unknown">>

(* ops: the operators a fused node replays.  attrs: the attributes of a    *)
(* Gemm that differ from their defaults.                                   *)
NodeOf(op, ins, outs) == [op |-> op, ins |-> ins, outs |-> outs, attrs |-> {}, ops |-> <<>>]

IsSequence(s) == Len(s) \in Nat /\ DOMAIN s = 1..Len(s)

(* What a graph is made of; a node has a result, a Relu takes one tensor.  *)
IsGraph(g) ==
  /\ DOMAIN g = {"nodes", "inputs", "outputs", "inits"}
  /\ IsSequence(g.nodes)
  /\ \A p \in DOMAIN g.nodes :
       LET n == g.nodes[p] IN
       /\ DOMAIN n = {"op", "ins", "outs", "attrs", "ops"}
       /\ IsSequence(n.ins) /\ IsSequence(n.outs) /\ n.outs # <<>>
       /\ n.op = "Relu" => Len(n.ins) = 1 /\ n.ins[1] # Omitted

Written(nodes) == (UNION {ToSet(nodes[p].outs) : p \in DOMAIN nodes}) \ {Omitted}
Producers(g, t) == {p \in DOMAIN g.nodes : t \in ToSet(g.nodes[p].outs) \ {Omitted}}

(* consumer_map: a node that reads a tensor twice is there twice.          *)
Reads(g, t) ==
  UNION {{p} \X {i \in DOMAIN g.nodes[p].ins : g.nodes[p].ins[i] = t} : p \in DOMAIN g.nodes}

Dependencies(g, p) == (UNION {Producers(g, t) : t \in ToSet(g.nodes[p].ins)}) \ {p}

(* Kahn's algorithm, the first ready node of the original order next.      *)
TopoOrder(g) ==
  LET Next(order, p) ==
        LET ready == {q \in DOMAIN g.nodes \ ToSet(order) :
                        Dependencies(g, q) \subseteq ToSet(order)}
        IN IF ready = {} THEN order ELSE Append(order, Min(ready))
  IN FoldLeft(Next, <<>>, [p \in DOMAIN g.nodes |-> p])

(* validate: it returns TRUE, or raises at the first conjunct that fails.  *)
ValidGraph(g) ==
  /\ \A t \in Written(g.nodes) : Cardinality(Producers(g, t)) = 1
  /\ \A p \in DOMAIN g.nodes :
       ToSet(g.nodes[p].ins) \subseteq
         Written(g.nodes) \cup g.inputs \cup DOMAIN g.inits \cup {Omitted}
  /\ Len(TopoOrder(g)) = Len(g.nodes)
  /\ g.outputs \subseteq Written(g.nodes) \cup g.inputs

-----------------------------------------------------------------------------
ValueIn(env, t) == IF t \in DOMAIN env THEN env[t] ELSE Unknown

(* op_Gemm: alpha * (A @ B) + beta * C, A and B transposed on demand.      *)
GemmValue(attrs, args) ==
  LET Apply(attr, x) == IF attr \in attrs THEN <<attr, x>> ELSE x
      product == Apply("alpha", <<"MatMul", Apply("transA", args[1]), Apply("transB", args[2])>>)
  IN IF Len(args) < 3 THEN product ELSE <<"Add", product, Apply("beta", args[3])>>

(* One primitive operator.  Those with more than one result are left out:  *)
(* what the other outputs of a node name stays unset.                      *)
Executed(env, n) ==
  LET args == [i \in DOMAIN n.ins |-> ValueIn(env, n.ins[i])]
      value == IF n.op = "Gemm" THEN GemmValue(n.attrs, args) ELSE <<n.op>> \o args
  IN (n.outs[1] :> value) @@ env

(* run: the values of the outputs that were computed.  A fused node is     *)
(* replayed in the same environment.                                       *)
Computed(g) ==
  LET seeded == [t \in g.inputs \cup {t \in DOMAIN g.inits : g.inits[t] # Unknown} |->
                   IF t \in g.inputs THEN <<"input", t>> ELSE g.inits[t]]
      Run(env, p) == IF g.nodes[p].ops = <<>> THEN Executed(env, g.nodes[p])
                     ELSE FoldLeft(Executed, env, g.nodes[p].ops)
      final == FoldLeft(Run, seeded, TopoOrder(g))
  IN [t \in g.outputs \cap DOMAIN final |-> final[t]]
=============================================================================
