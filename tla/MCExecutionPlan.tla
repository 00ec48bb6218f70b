-------------------------- MODULE MCExecutionPlan --------------------------
(* Instances of ExecutionPlan: chains with residual edges, a node with two  *)
(* outputs, two weights used anywhere, the value of a Constant node, and    *)
(* five nodes wired in every way.                                          *)
EXTENDS ExecutionPlan, TLC

CONSTANTS x, v, w, k, a, b, c, d, e

Sizes == (x :> 1) @@ (v :> 2) @@ (w :> 3) @@ (k :> 1) @@ (a :> 4) @@ (b :> 1) @@ (c :> 3)
           @@ (d :> 2) @@ (e :> 2)

NodeOf(ins, outs) == [inputs |-> ins, outputs |-> outs]

(* Four nodes, with and without residual edges and shared weights.          *)
Branching ==
  {[nodes |-> <<NodeOf({x, v}, {a}), NodeOf(ib, {b}), NodeOf(ic, {c, d}), NodeOf(ie, {e})>>,
    outputs |-> o] :
     ib \in {{a}, {a, w}}, ic \in SUBSET {a, b, v, w},
     ie \in {{c, d} \cup s : s \in SUBSET {a, b, w}} \cup {{c, v}}, o \in {{e}, {b, e}}}

(* The value k of a Constant node, read at different distances.            *)
WithConstant ==
  {[nodes |-> <<NodeOf({}, {k}), NodeOf({x}, {a}), NodeOf(ib, {b}), NodeOf(ic, {c}),
                NodeOf(ie, {e})>>,
    outputs |-> {e}] :
     ib \in {{a}, {a, k}}, ic \in {{b}, {b, k}, {b, v}}, ie \in {{c}, {c, k}, {c, a, k, v}}}

(* Five nodes that read any of the earlier tensors; one output is read by   *)
(* nobody in some of them.                                                 *)
Meshed ==
  {[nodes |-> <<NodeOf({x}, {a}), NodeOf(ib, {b}), NodeOf(ic, {c}), NodeOf(id, {d}),
                NodeOf(ie, {e})>>,
    outputs |-> o] :
     ib \in SUBSET {a}, ic \in SUBSET {a, b}, id \in SUBSET {a, b, c},
     ie \in {{d}, {a, d}, {b, c}}, o \in {{e}, {b, e}}}

Planned == Branching \cup Meshed \cup WithConstant

-----------------------------------------------------------------------------
(* Beside the plans, a client that calls the pool directly, in any order:  *)
(* requests of no byte, of one unit, of one in need of rounding, of three. *)
CONSTANT MaxMallocs   (* bound: its allocations *)

ClientRequests == {0, 3, 6}

ClientInit ==
  /\ PlanInitAt("client")
  /\ graph = CHOOSE g \in Graphs : TRUE
  /\ ~ streaming

Client ==
  /\ stage = "client"
  /\ \/ \E n \in ClientRequests : nextHandle < MaxMallocs /\ Malloc(n)
     \/ \E alloc \in Live : Free(alloc)
     \/ Defragment
  /\ UNCHANGED <<analysisVars, streaming, stage, node, pending, weightVars, tensorVars, stepVars>>

MCSpec == (PlanInit \/ ClientInit) /\ [][PlanNext \/ Client]_<<analysisVars, planVars>>
=============================================================================
