-------------------------- MODULE MCCupyStreaming --------------------------
(* Instances of CupyStreaming: chains of four nodes with up to four         *)
(* weights, one of them (w) shared, aliased or transposed as a.             *)
EXTENDS CupyStreaming, TLC

CONSTANTS x, u, v, w, z, a, b, c, d

NodeOf(op, ins, out) == [op |-> op, inputs |-> ins, outputs |-> {out}]

Chain(op, ic, id, outputs) ==
  [nodes |-> <<NodeOf(op, {w}, a), NodeOf("compute", {x, u}, b), NodeOf("compute", {b} \cup ic, c),
               NodeOf("compute", {c, z} \cup id, d)>>,
   inputs |-> {x}, outputs |-> outputs]

(* A weight for each node; w read by the first and the last; an alias that  *)
(* is an output; a view that outlives the name of its weight.               *)
Chains ==
  {Chain("compute", {v}, {}, {d}), Chain("compute", {v}, {w}, {d}),
   Chain("Identity", {v}, {a}, {a, d}), Chain("view", {v}, {a}, {d})}
=============================================================================
