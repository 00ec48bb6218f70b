--------------------------- MODULE ExecutionPlan ---------------------------
(***************************************************************************)
(* build_execution_plan and validate_execution_plan of                     *)
(* C3/src/scheduler/memory.py: after the lifetime analysis, one pass over  *)
(* the nodes that uploads weights, binds outputs to the buffers of their   *)
(* slots, and returns what died to the device pool.  The order in which a  *)
(* node's weights, outputs and deaths are taken is left open.  Streams are *)
(* an annotation of the steps that nothing here reads; they are left out.  *)
(***************************************************************************)
EXTENDS LifetimePlanner, DeviceMemoryPool

CONSTANTS
  Weights,         (* graph.initializers, the values of Constant nodes among them *)
  GraphInputs,
  PrefetchDistance

ASSUME PlanAssumption ==
  /\ Weights \subseteq Tensor /\ GraphInputs \subseteq Tensor
  /\ PrefetchDistance \in Nat
  /\ \A g \in Graphs : \A p \in DOMAIN g.nodes :
       g.nodes[p].inputs \subseteq
         Weights \cup GraphInputs \cup UNION {g.nodes[q].outputs : q \in 1..(p - 1)}
  /\ \A t \in Tensor : SizeOf[t] > 0 /\ SizeOf[t] \in Requests

VARIABLES
  streaming,
  stage,              (* where the loop body is                             *)
  node,               (* the node it is at                                  *)
  pending,            (* what the innermost loop still has to visit         *)
  weightAlloc,        (* weight_alloc_obj: live weight buffers.  Its domain *)
                      (* is weight_uploaded: they are updated together      *)
  weightInfo,         (* weight_alloc_map: kept after a weight is freed     *)
  slotAlloc,          (* slot_alloc, tensor_slot_tensor: live slot buffers  *)
  tensorInfo,         (* tensor_alloc_info: kept after a tensor is freed    *)
  stepCount,          (* length of plan.steps                               *)
  allocStep,          (* alloc_indices: the last step allocating a tensor   *)
  tensorStep,         (* what the alloc_tensor step of a tensor says        *)
  compute             (* the compute step of each node: index and bindings  *)

analysisVars == vars
weightVars == <<weightAlloc, weightInfo>>
tensorVars == <<slotAlloc, tensorInfo, tensorStep>>
stepVars == <<stepCount, allocStep, compute>>
planVars == <<streaming, stage, node, pending, poolVars, weightVars, tensorVars, stepVars>>

PlanInitAt(first) ==
  /\ Init /\ PoolInit
  /\ streaming \in BOOLEAN
  /\ stage = first /\ node = 0 /\ pending = {}
  /\ weightAlloc = NoEntry /\ weightInfo = NoEntry
  /\ slotAlloc = NoEntry /\ tensorInfo = NoEntry /\ tensorStep = NoEntry
  /\ stepCount = 0 /\ allocStep = NoEntry /\ compute = NoEntry

PlanInit == PlanInitAt("analyze")

With(f, x, y) == [z \in DOMAIN f \cup {x} |-> IF z = x THEN y ELSE f[z]]
Without(f, x) == [z \in DOMAIN f \ {x} |-> f[z]]

NodeOutputs == UNION {graph.nodes[p].outputs : p \in Steps}
WeightsOf(p) == graph.nodes[p].inputs \cap Weights

Visit(x) == x \in pending /\ pending' = pending \ {x}
Continue(from, to, work) == stage = from /\ pending = {} /\ stage' = to /\ pending' = work
Inside(s) == stage = s /\ UNCHANGED <<analysisVars, streaming, stage, node>>

-----------------------------------------------------------------------------
Analyze == stage = "analyze" /\ Next /\ UNCHANGED planVars

(* Mutant: the values of Constant nodes wait for their first reader. *)
UpFrontNothing == {}

(* In streaming mode the values of Constant nodes are uploaded first.      *)
UpFront == IF streaming THEN Weights \cap NodeOutputs ELSE {}

Start ==
  /\ Analyzed
  /\ Continue("analyze", "upFront", UpFront)
  /\ UNCHANGED <<analysisVars, streaming, node, poolVars, weightVars, tensorVars, stepVars>>

(* Mutant: only the prefetch uploads. *)
UploadsAtPrefetched(p) ==
  IF streaming THEN WeightsOf(p)
  ELSE IF p + PrefetchDistance \in Steps THEN WeightsOf(p + PrefetchDistance) ELSE {}

(* The weights uploaded at a node: in streaming mode its own, otherwise    *)
(* those of the node prefetch_distance ahead and then its own.             *)
UploadsAt(p) ==
  WeightsOf(p) \cup
    IF ~ streaming /\ p + PrefetchDistance \in Steps THEN WeightsOf(p + PrefetchDistance) ELSE {}

NextNode(from) ==
  /\ node + 1 \in Steps
  /\ Continue(from, "weights", UploadsAt(node + 1))
  /\ node' = node + 1
  /\ UNCHANGED <<analysisVars, streaming, poolVars, weightVars, tensorVars, stepVars>>

(* upload_weight of a weight that is not on the device.                    *)
Upload(w) ==
  /\ Inside("upFront") \/ Inside("weights")
  /\ Visit(w)
  /\ w \notin DOMAIN weightAlloc
  /\ Malloc(SizeOf[w])
  /\ LET alloc == Allocation(SizeOf[w]) IN
     /\ weightAlloc' = With(weightAlloc, w, alloc)
     /\ weightInfo' = With(weightInfo, w, [offset |-> alloc.offset, size |-> SizeOf[w]])
  /\ allocStep' = With(allocStep, w, stepCount)
  /\ stepCount' = stepCount + 2   (* alloc_weight, h2d *)
  /\ UNCHANGED <<tensorVars, compute>>

AlreadyUploaded(w) ==
  /\ Inside("upFront") \/ Inside("weights")
  /\ Visit(w)
  /\ w \in DOMAIN weightAlloc
  /\ UNCHANGED <<poolVars, weightVars, tensorVars, stepVars>>

-----------------------------------------------------------------------------
WeightsDone ==
  /\ Continue("weights", "bind", graph.nodes[node].outputs)
  /\ UNCHANGED <<analysisVars, streaming, node, poolVars, weightVars, tensorVars, stepVars>>

BufferBytes(o) == slotSizes[tensorToSlot[o]]

(* A slot without a buffer gets one, of the size of its largest tenant;    *)
(* a live one would be taken over as it is.                                *)
Bind(o) ==
  LET slot == tensorToSlot[o]
      live == slot \in DOMAIN slotAlloc
      alloc == IF live THEN slotAlloc[slot].alloc ELSE Allocation(BufferBytes(o))
      info == [slot |-> slot, offset |-> alloc.offset, size |-> alloc.size]
  IN /\ Inside("bind")
     /\ Visit(o)
     /\ tensorInfo' = With(tensorInfo, o, info)
     /\ IF live
        THEN UNCHANGED <<poolVars, slotAlloc, tensorStep, allocStep, stepCount>>
        ELSE /\ Malloc(BufferBytes(o))
             /\ slotAlloc' = With(slotAlloc, slot, [tensor |-> o, alloc |-> alloc])
             /\ tensorStep' = With(tensorStep, o, info)
             /\ allocStep' = With(allocStep, o, stepCount)
             /\ stepCount' = stepCount + 1
     /\ UNCHANGED <<weightVars, compute>>

(* The bindings of a compute step, from the persistent tables.             *)
InputBindings(p) ==
  [t \in graph.nodes[p].inputs |->
     IF t \in Weights THEN IF t \in DOMAIN weightInfo THEN weightInfo[t]
                           ELSE [offset |-> -1, size |-> 0]
     ELSE IF t \in GraphInputs THEN [offset |-> -1, size |-> SizeOf[t]]
     ELSE tensorInfo[t]]

OutputBindings(p) == [o \in graph.nodes[p].outputs |-> tensorInfo[o]]

(* Mutant: what dies are the inputs whose last use is this node. *)
DeadInputs == {t \in DOMAIN lifetimes \cap graph.nodes[node].inputs : lifetimes[t].last = node}

(* death_events: tensors that nobody reads die where they are produced.    *)
Dead == {t \in DOMAIN lifetimes : lifetimes[t].last = node}

Compute ==
  /\ Continue("bind", "free", Dead)
  /\ compute' = With(compute, node, [step |-> stepCount, inputs |-> InputBindings(node),
                                     outputs |-> OutputBindings(node)])
  /\ stepCount' = stepCount + 1
  /\ UNCHANGED <<analysisVars, streaming, node, poolVars, weightVars, tensorVars, allocStep>>

-----------------------------------------------------------------------------
(* The guard under which a death frees the buffer.                         *)
Occupies(t) ==
  /\ tensorToSlot[t] \in DOMAIN slotAlloc
  /\ slotAlloc[tensorToSlot[t]].tensor = t

(* Mutant: the slot keeps the buffer that went back to the pool. *)
FreeTensorKeepsSlot(t) ==
  /\ Inside("free")
  /\ Visit(t)
  /\ Occupies(t)
  /\ Free(slotAlloc[tensorToSlot[t]].alloc)
  /\ stepCount' = stepCount + 1
  /\ UNCHANGED <<weightVars, tensorVars, allocStep, compute>>

FreeTensor(t) ==
  /\ Inside("free")
  /\ Visit(t)
  /\ IF Occupies(t)
     THEN /\ Free(slotAlloc[tensorToSlot[t]].alloc)
          /\ slotAlloc' = Without(slotAlloc, tensorToSlot[t])
          /\ stepCount' = stepCount + 1
     ELSE UNCHANGED <<poolVars, slotAlloc, stepCount>>
  /\ UNCHANGED <<weightVars, tensorInfo, tensorStep, allocStep, compute>>

(* Mutant: weights are freed after their first reader. *)
SpentAtOnce == IF streaming THEN WeightsOf(node) \ NodeOutputs ELSE {}

(* In streaming mode, the weights that no later node reads directly; the   *)
(* values of Constant nodes stay.                                          *)
Spent ==
  IF streaming
  THEN {w \in WeightsOf(node) \ NodeOutputs : \A q \in Steps : q > node => w \notin WeightsOf(q)}
  ELSE {}

(* Two deaths in one step and more: the pool is compacted.                 *)
FreesDone ==
  /\ Continue("free", "release", Spent)
  /\ IF Cardinality(Dead) >= 2
     THEN Defragment /\ stepCount' = stepCount + 1
     ELSE UNCHANGED <<poolVars, stepCount>>
  /\ UNCHANGED <<analysisVars, streaming, node, weightVars, tensorVars, allocStep, compute>>

FreeWeight(w) ==
  /\ Inside("release")
  /\ Visit(w)
  /\ w \in DOMAIN weightAlloc
  /\ Free(weightAlloc[w])
  /\ weightAlloc' = Without(weightAlloc, w)
  /\ stepCount' = stepCount + 1
  /\ UNCHANGED <<weightInfo, tensorVars, allocStep, compute>>

-----------------------------------------------------------------------------
(* validate_execution_plan: every binding is filled in, agrees with the    *)
(* step that allocated it, and comes after it.                             *)
InputValid(p, t) ==
  LET binding == compute[p].inputs[t] IN
  IF t \in GraphInputs \ Weights THEN binding.size > 0
  ELSE /\ binding.offset >= 0 /\ binding.size > 0
       /\ t \in Weights => binding = weightInfo[t] /\ allocStep[t] <= compute[p].step
       /\ (t \notin Weights /\ t \in DOMAIN tensorStep) => binding = tensorStep[t]

OutputValid(p, o) ==
  LET binding == compute[p].outputs[o] IN
  /\ binding.offset >= 0 /\ binding.size > 0
  /\ o \in DOMAIN tensorStep => binding = tensorStep[o]
  /\ o \in DOMAIN allocStep => allocStep[o] <= compute[p].step

Valid ==
  \A p \in Steps : /\ \A t \in graph.nodes[p].inputs : InputValid(p, t)
                   /\ \A o \in graph.nodes[p].outputs : OutputValid(p, o)

Validate ==
  /\ node + 1 \notin Steps
  /\ Continue("release", IF Valid THEN "accepted" ELSE "rejected", {})
  /\ UNCHANGED <<analysisVars, streaming, node, poolVars, weightVars, tensorVars, stepVars>>

Finished == stage \in {"accepted", "rejected"} /\ UNCHANGED <<analysisVars, planVars>>

PlanNext ==
  \/ Analyze \/ Start \/ NextNode("upFront") \/ NextNode("release")
  \/ \E w \in pending : Upload(w) \/ AlreadyUploaded(w) \/ FreeWeight(w)
  \/ WeightsDone \/ (\E o \in pending : Bind(o)) \/ Compute
  \/ (\E t \in pending : FreeTensor(t)) \/ FreesDone
  \/ Validate \/ Finished

PlanSpec == PlanInit /\ [][PlanNext]_<<analysisVars, planVars>>
-----------------------------------------------------------------------------
Buffers == {weightAlloc[w] : w \in DOMAIN weightAlloc}
             \cup {slotAlloc[s].alloc : s \in DOMAIN slotAlloc}

(* The plan never returns a buffer it goes on using, nor gives one to two: *)
(* live weights and live slots each have an allocation of their own.       *)
BuffersBacked ==
  /\ Buffers \subseteq Live
  /\ Cardinality(Buffers) = Cardinality(DOMAIN weightAlloc) + Cardinality(DOMAIN slotAlloc)

(* When a node computes, each weight it reads is on the device and each    *)
(* tensor it reads still has its slot, at the place the binding names and  *)
(* in a buffer large enough; so do its outputs.                            *)
OperandsResident ==
  (stage = "bind" /\ pending = {}) =>
    /\ \A w \in WeightsOf(node) :
         w \in DOMAIN weightAlloc /\ weightAlloc[w].offset = InputBindings(node)[w].offset
    /\ \A t \in (graph.nodes[node].inputs \ (Weights \cup GraphInputs))
                  \cup graph.nodes[node].outputs :
         /\ Occupies(t)
         /\ slotAlloc[tensorToSlot[t]].alloc.offset = tensorInfo[t].offset
         /\ SizeOf[t] <= slotAlloc[tensorToSlot[t]].alloc.size

(* What the plan uses it holds, and holds alone.                           *)
(* (memory.py build_execution_plan)                                        *)
BuffersHeld == BuffersBacked /\ OperandsResident

(* At the end only graph outputs and resident weights hold memory, and the *)
(* pool has no other live allocation.                                      *)
NothingLeaks ==
  stage \in {"accepted", "rejected"} =>
    /\ Live = Buffers
    /\ {slotAlloc[s].tensor : s \in DOMAIN slotAlloc} = graph.outputs \cap NodeOutputs
    /\ DOMAIN weightAlloc =
         IF streaming THEN Weights \cap NodeOutputs ELSE UNION {WeightsOf(p) : p \in Steps}

(* In streaming mode a weight is on the device from its first reader to    *)
(* its last and no longer, the values of Constant nodes apart.             *)
StreamedWeightsMinimal ==
  (streaming /\ stage = "bind") =>
    DOMAIN weightAlloc \ NodeOutputs =
      {w \in Weights \ NodeOutputs :
         /\ \E p \in Steps : p <= node /\ w \in WeightsOf(p)
         /\ \E p \in Steps : p >= node /\ w \in WeightsOf(p)}

(* What the plan no longer uses it does not hold, at the end and, when it  *)
(* streams, at every step.  (memory.py build_execution_plan)               *)
NothingHeldTooLong == NothingLeaks /\ StreamedWeightsMinimal

(* The plan's own validation finds nothing to object to, unless the value  *)
(* of a Constant node is uploaded late, which happens without streaming.   *)
RejectsLateConstantsOnly ==
  stage = "rejected" => ~ streaming /\ Weights \cap NodeOutputs # {}

=============================================================================
