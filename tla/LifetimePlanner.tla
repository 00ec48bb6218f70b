-------------------------- MODULE LifetimePlanner --------------------------
(***************************************************************************)
(* LifetimePlanner.analyze (C3/src/scheduler/memory.py): the three loops   *)
(* that find the first and the last use of every intermediate tensor, and  *)
(* the greedy loop that gives every tensor a slot.  Steps are numbered     *)
(* from 1.  The free slots are a set where the code keeps a stack: which   *)
(* of them a tensor gets is left open, and nothing below depends on it.    *)
(***************************************************************************)
EXTENDS Integers, FiniteSets, Sequences

CONSTANTS
  Tensor,
  Graphs, (* the graphs to plan: nodes in topological order, graph outputs *)
  SizeOf  (* bytes of each tensor                                          *)

Node == [inputs : SUBSET Tensor, outputs : SUBSET Tensor]
Graph == [nodes : Seq(Node), outputs : SUBSET Tensor]

(* What Graph.validate checks and Graph.topo_order delivers.               *)
WellFormed(g) ==
  /\ \A p, q \in DOMAIN g.nodes :
       p # q => g.nodes[p].outputs \cap g.nodes[q].outputs = {}
  /\ \A p, q \in DOMAIN g.nodes :
       g.nodes[p].outputs \cap g.nodes[q].inputs # {} => p < q

ASSUME GraphsAssumption ==
  /\ Graphs \subseteq Graph
  /\ \A g \in Graphs : WellFormed(g)
  /\ SizeOf \in [Tensor -> Nat]

VARIABLES
  graph,
  phase,        (* the loop analyze is in *)
  i,            (* its index              *)
  lifetimes,    (* tensor to first and last use, of the tensors found so far *)
  events,       (* the tensors still to be given a slot                      *)
  active,       (* slots in use, each with the last use of its tenant        *)
  freeSlots,
  tensorToSlot,
  slotSizes     (* the largest tenant of each slot, slots counted from 0     *)

slotVars == <<events, active, freeSlots, tensorToSlot, slotSizes>>
vars == <<graph, phase, i, lifetimes, slotVars>>

NoEntry == [x \in {} |-> 0]
Steps == DOMAIN graph.nodes
Slots == DOMAIN slotSizes
Later(a, b) == IF a < b THEN b ELSE a

Init ==
  /\ graph \in Graphs
  /\ phase = "produce"
  /\ i = 1
  /\ lifetimes = NoEntry
  /\ events = {}
  /\ active = {}
  /\ freeSlots = {}
  /\ tensorToSlot = NoEntry
  /\ slotSizes = NoEntry

-----------------------------------------------------------------------------
(* First loop: a tensor lives from the node that produces it.              *)
Produce ==
  /\ phase = "produce" /\ i \in Steps
  /\ lifetimes' = [t \in DOMAIN lifetimes \cup graph.nodes[i].outputs |->
                     IF t \in graph.nodes[i].outputs THEN [first |-> i, last |-> i]
                                                     ELSE lifetimes[t]]
  /\ i' = i + 1
  /\ UNCHANGED <<graph, phase, slotVars>>

Produced ==
  /\ phase = "produce" /\ i \notin Steps
  /\ phase' = "consume"
  /\ i' = 1
  /\ UNCHANGED <<graph, lifetimes, slotVars>>

(* Second loop: and at least until each node that reads it.                *)
Consume ==
  /\ phase = "consume" /\ i \in Steps
  /\ lifetimes' = [t \in DOMAIN lifetimes |->
                     IF t \in graph.nodes[i].inputs
                     THEN [first |-> lifetimes[t].first, last |-> Later(lifetimes[t].last, i)]
                     ELSE lifetimes[t]]
  /\ i' = i + 1
  /\ UNCHANGED <<graph, phase, slotVars>>

(* Graph outputs live until the end, past the last step; then the tensors  *)
(* are sorted by first and last use.                                       *)
Outputs ==
  /\ phase = "consume" /\ i \notin Steps
  /\ lifetimes' = [t \in DOMAIN lifetimes |->
                     IF t \in graph.outputs
                     THEN [first |-> lifetimes[t].first, last |-> Len(graph.nodes) + 1]
                     ELSE lifetimes[t]]
  /\ events' = DOMAIN lifetimes
  /\ phase' = "slots"
  /\ UNCHANGED <<graph, i, active, freeSlots, tensorToSlot, slotSizes>>

-----------------------------------------------------------------------------
(* The next tensor in the order of (first, last).                          *)
NextEvent(t) ==
  /\ t \in events
  /\ \A u \in events :
       \/ lifetimes[t].first < lifetimes[u].first
       \/ /\ lifetimes[t].first = lifetimes[u].first
          /\ lifetimes[t].last <= lifetimes[u].last

(* Mutant: a slot is released in the step of its last use. *)
ExpiredInclusive(t) == {a \in active : a.last <= lifetimes[t].first}

Expired(t) == {a \in active : a.last < lifetimes[t].first}
Available(t) == freeSlots \cup {a.slot : a \in Expired(t)}

(* Mutant: a fresh slot although some are free. *)
SlotChoicesFresh(t) == IF freeSlots # {} THEN freeSlots ELSE {Cardinality(Slots)}

SlotChoices(t) == IF Available(t) # {} THEN Available(t) ELSE {Cardinality(Slots)}

(* Mutant: the slot keeps the size of its first tenant. *)
SizeAfterFirst(s, t) == IF s \in Slots THEN slotSizes[s] ELSE SizeOf[t]

SizeAfter(s, t) == IF s \in Slots THEN Later(slotSizes[s], SizeOf[t]) ELSE SizeOf[t]

Place(t, s) ==
  /\ active' = (active \ Expired(t)) \cup {[last |-> lifetimes[t].last, slot |-> s]}
  /\ freeSlots' = Available(t) \ {s}
  /\ tensorToSlot' = [u \in DOMAIN tensorToSlot \cup {t} |->
                        IF u = t THEN s ELSE tensorToSlot[u]]
  /\ slotSizes' = [r \in Slots \cup {s} |-> IF r = s THEN SizeAfter(s, t) ELSE slotSizes[r]]

AssignSlot(t) ==
  /\ phase = "slots"
  /\ NextEvent(t)
  /\ \E s \in SlotChoices(t) : Place(t, s)
  /\ events' = events \ {t}
  /\ UNCHANGED <<graph, phase, i, lifetimes>>

Analyzed == phase = "slots" /\ events = {}
Done == Analyzed /\ UNCHANGED vars

Next ==
  \/ Produce \/ Produced \/ Consume \/ Outputs
  \/ \E t \in events : AssignSlot(t)
  \/ Done

Spec == Init /\ [][Next]_vars
-----------------------------------------------------------------------------
(* Every variable keeps its type.                                          *)
TypeOK ==
  /\ graph \in Graphs
  /\ phase \in {"produce", "consume", "slots"}
  /\ i \in Nat \ {0}
  /\ DOMAIN lifetimes \subseteq Tensor
  /\ lifetimes \in [DOMAIN lifetimes -> [first : Nat, last : Nat]]
  /\ events \subseteq DOMAIN lifetimes
  /\ active \subseteq [last : Nat, slot : Slots]
  /\ freeSlots \subseteq Slots
  /\ DOMAIN tensorToSlot = (IF phase = "slots" THEN DOMAIN lifetimes \ events ELSE {})
  /\ tensorToSlot \in [DOMAIN tensorToSlot -> Slots]
  /\ Slots \subseteq Nat
  /\ slotSizes \in [Slots -> Nat]

(* Whoever reads a tensor finds it: between the step that writes it and    *)
(* any step that reads it, or the end if it is a graph output, no other    *)
(* tensor of its slot is written.                                          *)
ReadersFindTheirTensor ==
  Analyzed =>
    \A t, u \in DOMAIN tensorToSlot :
      (t # u /\ tensorToSlot[t] = tensorToSlot[u]) =>
        \A p, w \in Steps :
          (t \in graph.nodes[p].outputs /\ u \in graph.nodes[w].outputs /\ p <= w) =>
            /\ p # w
            /\ t \notin graph.outputs
            /\ \A r \in Steps : t \in graph.nodes[r].inputs => r < w

(* A slot is large enough for every tensor it holds in turn.               *)
TenantsFit == \A t \in DOMAIN tensorToSlot : SizeOf[t] <= slotSizes[tensorToSlot[t]]

(* No slot is wasted: there are as many as tensors alive in one step.      *)
SlotsMinimal ==
  Slots # {} =>
    \E p \in Steps :
      Cardinality(Slots) =
        Cardinality({t \in DOMAIN tensorToSlot : lifetimes[t].first <= p /\ p <= lifetimes[t].last})

(* Slots cost what they must: each is large enough for every tenant,       *)
(* although it is sized before the later ones are known (memory.py:242),   *)
(* and there are no more of them than tensors alive at once.               *)
SlotsFit == TenantsFit /\ SlotsMinimal
=============================================================================
