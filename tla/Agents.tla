------------------------------- MODULE Agents -------------------------------
(***************************************************************************)
(* The two agents of the submission (C2/agents) and the rules the grader   *)
(* holds them to (C2/grader/public_grade.py): an agent gets one request    *)
(* and answers with one action.                                            *)
(***************************************************************************)
EXTENDS Integers, FiniteSetsExt

(* What test_r401 may ask.                                                 *)
DmaRequest(request) ==
  request \in [bytes : Nat, alignment : Nat, registered : BOOLEAN, concurrency : Nat \ {0}]

CeilDiv(a, b) == (a + b - 1) \div b
Least(a, b) == IF a < b THEN a ELSE b

(* _dma_cycles: which actions it accepts for a request, and their cost.    *)
LegalDmaActions(request) ==
  [chunk_bytes : {4096, 65536, 1048576}, queue_depth : {1, 2, 4, 8}, channel : {0, 1},
   use_zero_copy : {zero_copy \in BOOLEAN : zero_copy => request.registered}]

DmaCycles(request, action) ==
  LET chunks == CeilDiv(request.bytes, action.chunk_bytes)
      payload == CeilDiv(request.bytes, 32)
      parallelism == Least(Least(action.queue_depth, request.concurrency), 2)
  IN (IF action.use_zero_copy THEN 45 ELSE 100) + CeilDiv(payload, parallelism)
     + 24 * (chunks - 1) + (IF request.alignment >= 64 THEN 0 ELSE 13)

(* Mutant: depth two only for more than two concurrent transfers. *)
DeepWhenCrowded(concurrency) == IF concurrency > 2 THEN 2 ELSE 1

QueueDepth(concurrency) == IF concurrency >= 2 THEN 2 ELSE 1

(* dma_agent.py decide *)
DmaAgent(request) ==
  [channel |-> 0, chunk_bytes |-> 1048576, queue_depth |-> QueueDepth(request.concurrency),
   use_zero_copy |-> request.registered]
-----------------------------------------------------------------------------
KernelName == {"naive", "tiled", "vectorized"}

(* _kernel_candidates; "cycles" is what the device measured for a public   *)
(* case, 0 when the grader left it out.                                    *)
KernelCandidates(cycles) ==
  {[id |-> "naive", variant |-> 1, workspace |-> 0, alignment |-> 1, divisibility |-> 1,
    cycles |-> cycles["naive"]],
   [id |-> "tiled", variant |-> 2, workspace |-> 4096, alignment |-> 1, divisibility |-> 4,
    cycles |-> cycles["tiled"]],
   [id |-> "vectorized", variant |-> 3, workspace |-> 8192, alignment |-> 16,
    divisibility |-> 8, cycles |-> cycles["vectorized"]]}

(* aecDeviceEvaluateKernel: what the device runs for a request.            *)
DeviceRuns(request) ==
  {c.id : c \in {d \in KernelCandidates(request.cycles) :
     /\ d.workspace <= request.workspace /\ d.alignment <= request.alignment
     /\ \A side \in request.sides : side % d.divisibility = 0}}

(* What test_r402 may ask: it measures only what the device runs.          *)
KernelRequest(request) ==
  /\ request \in [sides : SUBSET Nat, workspace : Nat, alignment : Nat \ {0},
                 cycles : [KernelName -> Nat]]
  /\ \A id \in KernelName : request.cycles[id] > 0 => id \in DeviceRuns(request)

(* Mutant: the workspace is not looked at. *)
LegalAnySpace(c, request) ==
  /\ c.alignment <= request.alignment
  /\ \A d \in request.sides : d % c.divisibility = 0

(* kernel_agent.py _legal *)
Legal(c, request) ==
  /\ c.workspace <= request.workspace
  /\ c.alignment <= request.alignment
  /\ \A d \in request.sides : d % c.divisibility = 0

(* kernel_agent.py decide: the cheapest of the measured ones, else the     *)
(* highest variant.                                                        *)
KernelAgent(request) ==
  LET candidates == KernelCandidates(request.cycles)
      legal == {c \in candidates : Legal(c, request)}
      usable == IF legal = {} THEN candidates ELSE legal
      measured == {c \in usable : c.cycles > 0}
  IN IF measured # {}
     THEN {c \in measured : c.cycles = Min({d.cycles : d \in measured})}
     ELSE {c \in usable : c.variant = Max({d.variant : d \in usable})}
=============================================================================
