# A verification project for A4S_C

TLA+ models of the parts of this repository whose correctness depends on order:
of threads, of commands, of frees, of streams, of compiler and graph passes, of
the steps of scripts that fail half way. TLC checks them on small instances; for
some of them TLAPS proves the properties that matter most for every instance.
`PROJECT.json` says, definition by definition, which lines of the source a
definition models.

1. [The system](#1-the-system)
2. [The modules](#2-the-modules)
3. [The runs](#3-the-runs)
4. [The proofs](#4-the-proofs)
5. [What the models found](#5-what-the-models-found)
6. [What is not modelled](#6-what-is-not-modelled)
7. [Plan](#7-plan)

## 1. The system

The repository holds three programs and the scripts around them. They share an
accelerator, the AEC, but no code and no state.

| Part | Where | What it is |
| --- | --- | --- |
| C1 | `C1/` | A compiler from PTX to the AEC instruction set (C++), with a Python simulator |
| C2 | `C2/` | A CUDA-like host runtime (one C++ file) over a closed device library |
| C3 | `C3/` | A scheduler and a runtime for ONNX graphs (Python, CuPy) |
| scripts | `scripts/` | Packing, verifying and remotely running the submission |

### C1: the compiler

A sequential program: text to syntax tree (`ptx/`), tree to an internal form of
basic blocks that is *not* SSA (`ir/`), a fixed pipeline of passes (`passes/`,
`sched/`, `regalloc/`), and encoding (`codegen/`, `isa/`, `binfmt/`). The only
state is the function being compiled. Each pass relies on properties of the form
that the ones before it established, or that nobody established: registers and
predicates are assigned any number of times, blocks are ordered, a loop is a
branch backwards.

*Hard*: a pass that is right on its own and wrong on what another pass leaves;
values renamed or moved across a redefinition, a loop's back edge, a store or a
barrier; code executed by lanes that were to skip it; running out of registers
and predicates.
*Correct when*: the code makes the stores that the source makes, touches no
address that the source does not, and fits the machine.

### C2: the host runtime

`C2/src/aec_runtime.cpp`. State: two process-global locks, the registries of
live and retired streams and events, the list of registered host intervals, a
shadow table of device allocations, the command sequence counter and a
thread-local last error. Operations: the API calls, made by any number of host
threads. They interact through the locks and through the device, which accepts
commands only in increasing order of sequence and executes one before
`aecDeviceSubmit` returns.

*Hard*: handles checked under one lock and used under another; a sequence that
must reach the device in order; errors of asynchronous commands that surface
later; handles whose addresses must not be reused; a shadow table updated apart
from the allocator it shadows; 64-bit sums that wrap.
*Correct when*: the device refuses no command; no cycle or error is lost or
credited to the wrong stream; a destroyed handle stays dead; what the table
accepts, the device can do; every call returns.

### C3: the scheduler and runtime

| Component | State | Operations |
| --- | --- | --- |
| `graph.py` | an immutable graph | import, `validate`, `topo_order` |
| `memory.py` `DeviceMemoryPool` | free-list, arena top, handles | `malloc`, `free`, `defragment` |
| `memory.py` `LifetimePlanner` | lifetimes, slots | `analyze` |
| `memory.py` `build_execution_plan` | all of the above, steps, bindings | the plan, `validate_execution_plan` |
| `cupy_runtime.py` | names to arrays, two CUDA streams, events | `run`, streamed or eager |
| `graph_passes/` | while it runs: claimed nodes and groups | `prefuse_conv_bn`, ten matchers, `_apply_groups` |
| `tools/infer_worker.py` | cached backends and chunk sizes | tasks from standard input |

The planner calls the analysis, then walks the nodes once and calls the pool.
The runtime takes from the planner only when to upload and when to drop; its
arrays come from CuPy's pools.

*Hard*: a free-list after a long series of frees; a tensor overwritten in its
shared slot one step early; a slot freed for one tenant and taken by the next in
one step; a block that the host frees while the device still uses it; streams
waiting for each other; a call that raises with work still enqueued; ten
matchers that share one set of claimed nodes, some of which ask whether *anyone*
reads a tensor and some whether anyone unclaimed does.
*Correct when*: no two live tensors share a byte; every reader finds its
operands; memory is returned; kernels read what was uploaded for them; the
memory used stays bounded; a fused graph is well formed and computes what the
original does.

The inference worker loads a model once and keeps the backend, then answers one
task per line of its standard input until the input ends. It shares the device
with other processes. *Hard*: an exception in the middle of a task; memory that
runs out in the middle of a chunk; a chunk size measured under other conditions
than it is used in. *Correct when*: every line gets one answer, in order; a
reported success has all samples on disk; a measured chunk runs; retries end.

### The scripts, the grader and the agents

`pack_trackc.py` stages the submission and writes an archive, building the C2
library on a server if there is none. `verify_trackc.py` reads the archive
(layer A), then uploads it and runs it on the server (layer B). Both make a work
directory on the server named after their process number. `public_grade.py`
tests sixteen requirements on one runtime, resetting the device before each,
and puts questions to the two agents in `C2/agents`.

*Hard*: two scripts that each know the layout of a submission; an archive
rewritten between the two times it is read; a command that times out after the
checks before it have passed; a directory left by an interrupted run of a
process whose number is used again; a test that fails between injecting a fault
and meeting it.
*Correct when*: what the packer finishes the verifier accepts; a pass means
that each step worked; a command that fails leaves nothing on the server; no test
is judged by what an earlier one did; points and gates name the same level.

## 2. The modules

### C2

| Module | Models |
| --- | --- |
| `AecThreads` | `g_submit_mutex` (recursive), `g_mutex` and the thread-local last error, used by every entry point |
| `AecStreams` | streams, events, launches and copies; `dispatch` and `submit_command`; the device's view of the sequence |
| `AecCalls` | a thread in the middle of a memory call: what the next two share |
| `AecAllocations` | `aecAlloc`, `aecFree`, the table, the vector entry points |
| `AecHostMemory` | `aecHostRegister`, `aecHostUnregister`, copies with zero-copy flags |
| `AecMemory` | the two composed: the same threads, the same locks |
| `AecStreams_proofs`, `AecMemory_proofs` | the theorems about them ([section 4](#4-the-proofs)) |

A call is a chain of steps. A step ends where the code takes a lock, releases
one, or calls the device; a locking action is disabled while the lock is held by
someone else. So every interleaving of the threads that the locks leave possible
is explored. `pc[t]` is the place in the code:

| `pc[t]` in `AecStreams` | Place |
| --- | --- |
| `copy` | before `aecCopyAsync` takes `g_submit_mutex` |
| `lookup`, `check` | `dispatch` before and under its first hold of `g_mutex` |
| `submit`, `sequence`, `device` | `submit_command`: before the lock, before `fetch_add`, before `aecDeviceSubmit` |
| `finish` | a synchronous command about to return |
| `stash`, `stashing` | `dispatch` before and under its second hold of `g_mutex` |
| `create`, `insert` | object creation, before and under `g_mutex` |
| `enter`, `enter_table`, `body` | the calls that hold both locks: before the first, before the second, under both |

`unreported`, `executed` and `issued` are history: what the properties compare
the code's own state with. The device is external. It decides the outcome of a
command and refuses a sequence that is not above the last; its allocator is
deterministic lowest-address first fit. Clients of `AecAllocations` use a
pointer only between its `aecAlloc` and its `aecFree`; without that the table
promises nothing. Addresses and counts are words that wrap at `Word`, as
`uint64_t` does at 2^64, because two of the properties are about wrapping sums.

### C3

| Module | Models |
| --- | --- |
| `ArenaSegments` | the free-list, as operators on the set of segments: best fit, split, coalesce, trim |
| `DeviceMemoryPool` | the pool with a client that allocates, frees in any order and defragments |
| `Arena` | what a pool promises: an allocator without a free-list, implemented by the pool |
| `LifetimePlanner` | `analyze`, loop by loop: `Produce`, `Consume`, `Outputs`, `AssignSlot` |
| `ExecutionPlan` | `build_execution_plan` over `LifetimePlanner` and `ArenaSegments`, then `validate_execution_plan` |
| `CupyStreaming` | `CupyRuntime.run` with `_run_streaming` and the schedule of `_runtime_schedule` |
| `OnnxGraph` | the graph: maps of producers and readers, `topo_order`, `validate`; what `MockRuntime.run` computes from it |
| `Fusion` | `GraphPassPipeline.run`: `prefuse_conv_bn`, then `FusionPass.run` and `_apply_groups` |
| `InferWorker` | `infer_worker.py`: the protocol loop, the caches, both ways of measuring a chunk, the loop over chunks; `infer.py`, whose backends it uses |
| `ExecutionPlan_proofs` (the pool and the analysis too), `CupyStreaming_proofs`, `Fusion_proofs`, `InferWorker_proofs` | the theorems about them ([section 4](#4-the-proofs)) |

`ExecutionPlan` composes: its first stage is the analysis, action by action, and
its allocations and frees are those of the pool. `stage` names the loop of
`build_execution_plan`, `pending` what the loop has left; the code's order
inside a loop, which follows dictionaries and sets, is left open.

`CupyStreaming` has three actors. The host enqueues copies, kernels and waits,
and drops names; the streams execute their queues in order and stop at a wait
until its event has fired. A block returns to the pool when the last name
that refers to it goes, *on the host*, while the device may be far behind:
this is the hazard the events of `prefetch` exist for. `Raise` is an operator
that fails at any node of any call; the next call starts with what the
failed one left on the streams and in the pool.

`Fusion` walks as the code does: `stage` is the matcher, `at` the node it looks
at, `consumed` the nodes already claimed, `groups` the groups in the order of
their making, `fresh` the next unused tensor name, `optimized` the graph that is
returned. `Visit` is one iteration of a matcher. `FusionPass.run` is also called
without the pipeline, so a run may start after `prefuse`. Names of tensors
are numbers. The mock runtime is executed on symbolic values: a tensor's value
is the expression that computes it. `Gemm` is expanded by its attributes, since
the fused form of it is a `MatMul` and an `Add` whose initializers absorb
`transB` and `beta`; all other operators are uninterpreted. The log, the
annotations and the count of launches are left out.

In `InferWorker`, `program` says which of the two programs runs, `stage` where it
is, `backends` is the cache of models with the chunk kept for each; what is on
disk and what has been answered are variables too. A forward pass over `b` samples
takes `PerSample` units of device memory for each and `Window` more when
weights are streamed; `MemoryChanges` is the rest of the world, which takes
memory and gives it back at any moment. Each step of a task may fail.

### C1

| Module | Models |
| --- | --- |
| `AecIr` | instructions, blocks, edges (`ir.h`, `cfg.cpp`) and `Behaviour`: the stores, barriers and addresses of a run |
| `LocalPasses` | `constProp`, `copyProp`, `cse`, `madContract`, `dce` |
| `PredOpt` | `predOpt`, if-conversion of bounds guards |
| `LoopPasses` | `licm`, `loopRotate`, `strengthReduce` |
| `Unrolling` | `unrollLoops`: counted loops copied in place under predicates, or split into full groups and a remainder |
| `ListSched` | `listSchedule` |
| `IntervalScan` | the linear scan of both allocators, one interval at a time |
| `RegAlloc` | liveness and intervals of `predAlloc` and `linearScan`, and the spill code |
| `Compiler` | the pipeline of `runOptPasses` and `compile` and its switches |
| `IntervalScan_proofs` | the theorem about the scan ([section 4](#4-the-proofs)) |

Every pass is an operator from functions to functions that does what the code's
pass does, its peculiarities included: predicate numbers masked to three bits
(`Masked`), loops found as backward branches over contiguous blocks, intervals
from real liveness with the code's tie-breaks. An action of `Compiler` runs the next
pass of the pipeline, or skips it when its switch is off; an allocation is
begun (`ScanPredicates`, `ScanRegisters`), lets the scan run to its end
(`Scanning`), and then rewrites the code by what it decided (`RunPredAlloc`,
`RunLinearScan`). In `IntervalScan`, `home` is the map `physOf`, `spilled` the set
of that name in the order of `slotOf`, and `pending` what the loop over `ivs` has
still to come to; `expected` is what the
source does on each input and `actual` what the current function does. Values
are numbers modulo `Modulus`, standing for 2^32; 64-bit values, which the code
keeps in register pairs, are left out. Predicates start false, as on the machine;
a register that nobody has written is undefined. `Behaviour` stops after `Fuel`
instructions and reports an incomplete run; no property is asked of an input on
which the *source* does not complete. `Unrolling` keeps two oddities of the
code: a register with one `LOADI` counts as a constant whatever else writes it,
and after a split no later loop of the function is recognised, because the
edges still carry the old block numbers.

### The scripts, the grader and the agents

| Module | Models |
| --- | --- |
| `RemoteHost` | the server: work directories, the key, commands that succeed, fail or time out (`trackc_common.py`, `remote_exec.py`) |
| `Packing` | `pack_trackc.py`: the library, staging, the archive |
| `Verification` | `verify_trackc.py`: layer A, the upload, layer B, the verdict |
| `Delivery` | packer and verifier as two processes over one tree, one archive and one server |
| `Agents` | `dma_agent.py`, `kernel_agent.py` and the rules the grader holds them to |
| `PublicGrade` | `public_grade.py`: the sixteen tests, the reset, points, gates, level |
| `Submission_proofs` | the theorems about `Delivery` and `PublicGrade` ([section 4](#4-the-proofs)) |

An archive or a tree is a set of paths with a word for what each holds, as far as a
later step can tell the difference; a copied directory is one path. `packer` and
`verifier` name the step each script is at; a remote command succeeds, fails or,
where the code sets a limit, times out, and an interrupt can come at any step.
`leaked` is history: the directories that no script has any longer, each with what
made it stay: an interrupt, a command that ran into its timeout, an `rm` that did
not get through, or an archive that was gone when the verifier came to upload it
(`no_archive`). A test of the grader is a sequence of words, one for each thing it does
to the runtime (`alloc`, `dma`, `kernel`, `inject_dma`, `check`, `free`, and where
its `try` and its `finally` stand), and a submission is the set of lines at which
it does not do what the test asks for.

## 3. The runs

Every run finishes without a state constraint. "Distinct" is the number of
distinct states.

| Run | Distinct | Checks |
| --- | --- | --- |
| `AecStreams_streams` | 1,619,685 | `TypeOK` `LockInv` `SequencesAccepted` `StreamsAccounted` `CopyFindsStreamLive` `AsyncErrorsStayOnStream` |
| `AecStreams_events` | 46,285 | `MarkerCountsCopies` `HandlesNotReissued` `EveryCallReturns` |
| `AecStreams_first_error` | | `FirstErrorReported`, violated (5.1) |
| `AecMemory_calls` | 901,705 | `EntriesAccounted` `OperandsChecked` `RegistrationsSound` |
| `ExecutionPlan_plans` | 269,298 | `FreeListExact` `ReadersFindTheirTensor` `SlotsFit` `BuffersHeld` `NothingHeldTooLong` `RejectsLateConstantsOnly` `ArenaSpec` |
| `CupyStreaming_overlap` | 378,436 | `KernelsReadTheirWeights` `OperandsPresent` `MemoryAccounted` `EveryRunEnds` |
| `Fusion_graphs` | 1,885,566 | `GroupsDisjoint` `MeaningKept` |
| `Fusion_aligned` | | `FusionAligned`, violated (5.3) |
| `InferWorker_tasks` | 681,713 | `RepliesMatchTasks` `OkMeansComplete` `MeasuredChunkFits` `StreamedChunksCapped` `EveryTaskEnds` |
| `Delivery_scripts` | 2,205,758 | `PackedArchivesVerify` `PassesMeanItWorks` `RemoteDirsReleased` `NoCarryOver` `LevelsFollowGates` `AgentsAnswerWell` |
| `Compiler_passes` | 210,312 | `CodeOK` `StoresPreserved` `NoStrayAccess` `AllocationSound` |
| `Compiler_loop_carried` | | `StoresPreserved`, violated (5.2) |

A run may hold instances that do not interact: `ExecutionPlan_plans` starts
either as the planner or as a client that calls the pool in any order, and
`Delivery_scripts` either as the two scripts or as the grader.

Each property is stated in words above its definition. What the less obvious
ones say:

- `SequencesAccepted`: no thread can come between another's `fetch_add` and its
  submission, although a launch, a copy and a copy on a stream reach
  `submit_command` along different paths and with different locks.
- `StreamsAccounted` (`CyclesConserved` and `ErrorsAccounted`): the stream object
  is updated after the command, under another lock; creations, destroys and
  syncs that happen in between lose nothing.
- `MarkerCountsCopies`: the snapshot of `aecEventRecord` misses launches in
  flight, never a copy.
- `EntriesAccounted`: the table may miss a live allocation (section 5), but never
  keeps an entry of a dead one or a wrong size.
- `OperandsChecked` (`ValidCountAccepted` and `KnownOperandsFit`): the table's
  check refuses no count that fits and lets none overrun an operand it knows.
- `RegistrationsSound` (`RegistrationsDisjoint` and `FlagsMatchRegistrations`): no
  registration changes between the check of a buffer and the transfer, for spans
  of any length and place.
- `FreeListExact`, `ArenaSpec`: the free-list tiles the arena, every live block is
  backed, holes are whole; and it implements `Arena`. In particular best fit on
  the list finds a place whenever live blocks leave a gap that is large enough,
  which a missed coalescing would break only after particular frees.
- `BuffersHeld` (`BuffersBacked` and `OperandsResident`), `NothingHeldTooLong`
  (`NothingLeaks` and `StreamedWeightsMinimal`): no buffer of the plan goes before
  its last reader, and none stays behind or longer than the prefetch asks for.
- `SlotsFit` (`TenantsFit` and `SlotsMinimal`): a slot is sized before its later
  tenants are known and still holds them all, and the greedy assignment needs no
  more slots than tensors are alive in one step.
- `KernelsReadTheirWeights`: from the first to the last moment of a kernel, each
  block it reads holds the complete copy of the weight it was launched for.
- `MemoryAccounted` (`PoolBounded` and `NothingLeftBehind` above all): however far
  the host runs ahead, and after failed calls, the copy stream's pool is no larger
  than the weights of `Depth + 2` consecutive nodes and those held across them.
- `RejectsLateConstantsOnly`: of the well-formed graphs the planner refuses
  exactly one kind, described in section 5.
- `GroupsDisjoint`, `MeaningKept`: ten matchers, several of which count readers
  that others have claimed, never claim a node twice; and when every group is
  *woven* and no batch norm was folded, the fused graph passes `validate` and
  computes the same. A group is woven if each member that waits for a node
  outside leads, within the group, to each member that a node outside waits for.
  That is the test the matchers lack: without it two fused nodes can wait for
  each other (5.3).
- `RepliesMatchTasks`: `infer_worker.py:19` promises one line per task whatever
  fails; the grader pairs lines with tasks by counting. Only a task that lacks a
  key ends the worker.
- `MeasuredChunkFits`: the batch that a probe settled on runs while no less memory
  is free than at the probe, for the linear fit through two probes as for the
  doubling search.
- `OkMeansComplete`: through any number of halvings no sample is lost, repeated or
  out of order in what lies on disk when `ok` is replied.
- `PassesMeanItWorks`: whatever the packer writes while the verifier runs and
  whichever command fails or times out, exit status 0 is never about a tree that
  did not build, load or infer.
- `RemoteDirsReleased`: a work directory has an owner or one of four causes, and
  after a report of layer B that names nothing, or only commands that failed once
  the directory was there, the one cause is an `rm` that did not get through. The
  two exceptions that `main` catches, a timeout and an archive that is gone, pass
  by the removal; their report names the layer, not a command. There is no
  promise for them, and section 5 lists them.
- `NoCarryOver`: a test fails only where the submission is wrong in that test,
  although a failed test leaves memory, handles and unmet faults behind.
- `LevelsFollowGates`: points and gates are two conditions for one level, and
  never disagree.
- `AllocationSound` (`HomesApart`, `EachPlaced`, `SpillsNeeded`): values that are
  live at one position never share a register, although two rules say when a value
  is dead, the one that frees registers and the one that evicts; a value that
  loses its register gets a slot, and only one; and memory is used only where
  more values are live than there are registers. `CodeOK` contains that what the
  compiler asks of the scan is what the scan is for (`IsRequest`).
- `StoresPreserved`, `NoStrayAccess`: after *every* pass, not only at the end,
  for each kernel, level and input.

### Bounds

- C2: two threads with two or three calls each. Every property is about a pair
  of calls in flight, or about one in flight while a completed one changed the
  registries; two threads and one call more than the pair needs give both. Two
  stream addresses allow an error or a cycle to go to the wrong stream; one
  stream and two events the reuse of an address and elapsed times. In
  `AecMemory_calls` a device memory of four bytes lets one address be given out
  twice with different sizes; three-bit words have spans that wrap, that touch
  and that lie inside each other, and counts whose byte count wraps to a small
  one. `SYMMETRY` over threads and addresses, which are interchangeable, is used
  in runs without liveness only.
- The pool, as a client of its own: five allocations of five sizes, two of them
  in need of rounding. A hole that lies in two pieces needs three neighbours,
  and a choice between holes two more.
- The plan: graphs of four and five nodes, 978 of them, each streamed and eager:
  residual edges, a node with two outputs, an output nobody reads, weights read
  at any distance, the value of a Constant node, and every wiring of five nodes.
  Prefetch distance 2 is less than the longest distance in the graphs.
- Streaming: chains of four nodes with up to four weights, two calls, prefetch
  depth 1. One node ahead is enough for a copy to meet the kernel of an earlier
  node; a second call meets the leavings of the first.
- Fusion: 28,135 graphs, each with and without `prefuse_conv_bn`: transformers of
  five nodes, residual blocks, perceptrons with all attributes of `Gemm`, pools
  and softmax, and chains of seven, longer than the five a group may have; with
  results read inside the graph as outputs too, and with initializers whose
  values are loaded and not. Each matcher forms groups, and a cycle of two fused
  nodes needs four nodes.
- The inference worker: three tasks (`MaxTasks`) of four kinds over two models,
  one that fits the device and one that has to be streamed; inputs of one, three
  and six samples, below, between and above the two probes of a streamed model
  (`Probe1` 2 and `Probe2` 4 stand for 16 and 64, `EagerProbe` 2 for 32, `Tiny` 1
  for 8, `DefaultBatch` 8 for 256).
  Other processes hold 1 or 28 of the device's 44 units (`Others`) and
  change that twice (`MaxChanges`): with 28 the measured chunk no longer fits.
  The third task meets a cache that the first filled and the second used.
- The scripts: two runs each of packer and verifier (`MaxRuns`) that share one
  process number (`Pids`), so that the second run of a script meets what an
  interrupted first one left; five trees, complete, short of one file, and
  with a wrapper that names the wrong root; archives cut after their first and
  after their twelfth entry (`Cuts`).
- The grader: submissions without a fault, with a fault at each single line of
  the sixteen tests, with pairs of faults of which the first skips a
  clean-up, and passing the basic requirements only.
- The compiler: 7,760 pairs of a kernel and a configuration: straight code, a
  register with two values, do-while and while loops, strided arrays, reductions,
  constant bounds, two loops in a row, guards alone, in pairs, around loops, with
  a result that escapes, more predicates than the machine has; at `-O0` and
  `-O2`, with registers enough for all and too few for most. Inputs make guards
  hold and fail and loops run from no to nine iterations. `UnrollFactor` 4 and
  `RegisterBudget` 17 give loops unrolled by three and by four, hence two full
  groups and a remainder. With memory of three cells, addresses that alias are
  frequent; arithmetic is modulo 16, so that the bound and the count of an
  unrolled loop do not wrap, as they do not in 32 bits; with four architectural
  predicates, five do not fit. `Fuel` (800 instructions) is far beyond what a
  source that ends takes.

The kernels of `Compiler_passes` avoid what the compiler is known to get wrong:
a second integer addition in a loop (a run of its own), a register that a loop
redefines after reading what it held before the loop, loops that count in steps
other than one, two guards on one predicate or with different exits, a guarded
change of an escaping register together with spilling, three kinds of loop
that unrolling miscompiles, and a while loop that stores nothing, loads from an
address that the loop does not change, and may run no iteration (`licm.cpp:103`
hoists the load, which is then executed although the source skips it). Section 5
describes each.

### Fairness and termination

Liveness is checked in three runs. `AecStreams_events` assumes weak fairness of
each thread *inside* a call (`Continue`): the operating system goes on running a
thread that has begun one, and a lock that is free again and again is
eventually taken since no other thread can hold it for ever. Nothing is assumed
about whether a thread makes another call. `CupyStreaming_overlap` assumes weak
fairness of the host thread and of each CUDA stream: a stream executes its next
operation once that can start. `Raise` is never forced. `InferWorker_tasks`
assumes weak fairness of `Work`, the program's own steps: the process is
scheduled. Nobody has to send a task or to change the free memory.

Deadlock is checked in all runs but three kinds: `CupyStreaming` really stops
after its last call (`MaxRuns`), `Compiler` after its last pass, and the scripts
and the grader of `Delivery_scripts` after their last run. In the C2 models, the
planner, `Fusion` and the worker, the end is a stuttering action that is enabled
only when everything has returned (`AllIdle`, `Finished`, `Done`, `Ended`), so a
thread waiting for a lock at the end is still a deadlock.

## 4. The proofs

`AecStreams_proofs`: for every set of threads, stream and event addresses,
device errors, operations and any number of calls.

| Theorem | States |
| --- | --- |
| `TypesOK` | `Spec => []TypeOK` |
| `LocksOK` | `Spec => []LockInv` |
| `DeviceNeverRefuses` | `Spec => []SequencesAccepted` |
| `CopiesFindTheirStream` | `Spec => []CopyFindsStreamLive` |
| `HandlesStayUnique` | `Spec => []HandlesNotReissued` |
| `AccountsBalance` | `Spec => []StreamsAccounted` |
| `MarkersSound` | `Spec => []MarkerCountsCopies` |
| `ErrorsStayOnStream` | `Spec => AsyncErrorsStayOnStream` |

Neither `TypeOK` nor `LockInv` is inductive alone: a release keeps
`submitDepth` a natural number only because the releasing thread holds the lock,
and that is what `LockInv` says. `TypeLock`, their conjunction, is inductive,
action by action (`TypeOKNext`, `LockInvNext`). `SequenceInv` adds that
`deviceSeq < gSequence` and that a thread with a sequence in hand and not yet
submitted has one above all that the device has accepted; by `LockInv` two threads
are never there together, so the device sees a strictly increasing sequence.
`CopyFindsStreamLive` is inductive relative to `TypeLock`: only
`DestroyStreamBody` removes a stream, it does so holding `g_submit_mutex`, and a
copy past its check holds that lock as well.

`IssueInv`, for the handles: an address is out once exactly if its object is live
or retired, and an object under construction is at an address that is not out
and that no other construction has. `AccountInv` needs it, since a new object
resets the accounts of its address. It has four parts: `Commands` (a command
names a stream that was published), `FreshObjects` (nothing has happened to one
that was not), `Outcomes` (the sequences of failed commands and of those in
flight tell them apart, because by `SequenceInv` each is above all before it)
and `StreamsAccounted` itself. Five actions touch the accounts
(`AccountCreate`, `AccountInsert`, `AccountSync`, `AccountStash`,
`AccountSubmit`); the others stand by (`MostStepsStandBy`). `MarkerCountsCopies`
follows, with `LockInv`: a copy in flight holds `g_submit_mutex`, and so does the
call that takes the snapshot.

`AecMemory_proofs`: for every set of threads, width of a word, size of the device
memory, sets of allocation sizes, counts and host spans, and any number of calls.

| Theorem | States |
| --- | --- |
| `Invariance` | `Spec => []Inv`, the inductive invariant |
| `TableNeverStale` | `Spec => []EntriesAccounted` |
| `OperandCheckExact` | `Spec => []OperandsChecked` |
| `RegistrationsSafe` | `Spec => []RegistrationsSound` |

None of the three properties is inductive. `Inv` adds, beside `Types` and `Locks`
(both locks are held exactly where the position says):

- `ClaimsSound`, for `EntriesAccounted`. `aecAlloc` has the block from the device
  before it is in the table, and `aecFree` is about to release a block that still is.
  A thread in between is the only one with that block, no client owns it, and
  its size is the one recorded; so what `Record` writes is true, and an entry
  whose block is gone has its `Erase` still to come.
- `VectorsOK`, for `OperandsChecked`. A count that passes the argument check has a
  product that fits a word (`QuotientBound`, by the definition of division), and an
  operand that has been compared with the table gets no other entry: clients do not
  free what a vector call holds (`HeldPointers`), and no call records an entry for
  an address that a client already owns; it can only erase one (`HeldEntries`).
- `Spans`, for `RegistrationsSound`. A span that passes the argument check ends
  within the address space, so that the wrapped sums that `aecHostRegister` and
  `host_span_registered` compare are the sums. That `g_submit_mutex` is held from
  the flags of a copy to its transfer is then `Locks`.

The assumptions: `Copied` has no buffer whose end is past the last address
(`HostMemoryAssumption`), and clients use a pointer only from the return of its
`aecAlloc` to its `aecFree`, which is a guard of `Free` and `Vector`.

`ExecutionPlan_proofs`, the analysis: for every set of well-formed graphs, of any size.

| Theorem | States |
| --- | --- |
| `TypesOK` | `Spec => []TypeOK` |
| `ReadersSafe` | `Spec => []ReadersFindTheirTensor` |
| `SlotsLargeEnough` | `Spec => []TenantsFit` |
| `NoSlotWasted` | `Spec => []SlotsMinimal` |
| `SlotsRightSized` | `Spec => []SlotsFit`, the last two together |

The inductive invariant `IInv` has six parts. `LifetimesCover` says how much of
each lifetime the loops have found so far; `SlotsExclusive` that tenants of one
slot have disjoint lifetimes; `SlotsHeld` why that stays so: a tenant is past,
or it holds its slot in `active`, an active slot has one holder and is not
free, and all tenants of a free slot are past. `ReadersFindTheirTensor` follows
from the first two alone. `NoSlotWasted` needs `CrowdInv` beside it: tensors are
taken in the order of their first use (`InOrder`), and when the last slot was
added every slot had a tenant that was alive in that step (`Crowded`), which
later tenants do not change. By `SlotsExclusive` no slot has two of them, so that the
tensors alive in that step and the slots match one to one.

`ExecutionPlan_proofs`, the pool: for every alignment and every set of sizes a client
asks for, in any order of `malloc`, `free` and `defragment`.

| Theorem | States |
| --- | --- |
| `FreeListStaysExact` | `PoolSpec => []FreeListExact` |
| `PoolIsArena` | `PoolSpec => ArenaSpec`, step by step |

`PoolInv` is inductive. Two of its parts are about the free-list: `Tiles` (the
segments begin at 0, end at the top, overlap nowhere and leave no hole) and
`Whole` (no two free segments touch, the last one is not free). One lemma each for
what splitting, coalescing and trimming do to them. Three are about the
clients: `HandlesOK` and `SegmentsBacked` match live allocations with the
segments in use, one to one. `BytesAdded` says that `currentBytes` is the sum of
the live sizes *as a running sum over the handles*: a function that starts at 0,
adds the size of each live handle and arrives at `currentBytes`. A sum over a
set would need induction over data; a running sum only has to be carried from
one step to the next. For the refinement, best fit is shown to return a gap of the
abstract arena whenever that has one large enough.

`ExecutionPlan_proofs`, the plan: for every set of well-formed graphs, weights and graph
inputs, streamed or not.

| Theorem | States |
| --- | --- |
| `PlanHoldsWhatItUses` | `PlanSpec => []BuffersHeld` |
| `PlanKeepsNothingElse` | `PlanSpec => []NothingHeldTooLong` |
| `ValidationObjectsToLateConstants` | `PlanSpec => []RejectsLateConstantsOnly` |
| `PlanKeepsThePoolExact` | `PlanSpec => []FreeListExact` |
| `PlanIsServedByAnArena` | `PlanSpec => ArenaSpec` |
| `PlanImplementsTheAnalysis` | `PlanSpec => Spec`, that of `LifetimePlanner` |
| `PlanSharesSlotsSafely` | `PlanSpec => [](ReadersFindTheirTensor /\ SlotsFit)` |

`PlanInv` contains the invariants of both components, `IInv` of the planner and
`PoolInv`, and what holds between them. `Found`: the analysis has found exactly
the tensors that nodes produce. `Placing`: what each loop still has to visit.
`SlotsTaken` and `WeightsLoaded`: which tensors and weights have a buffer at this
point of the loop, by their lifetimes and by the readers still to come.
`Owned`: every live allocation belongs to one slot or one weight. `Recorded` and
`Bindings`: what the tables and the compute steps say. That the slot of a new
tensor has been given back by its last tenant is where the two meet:
lifetimes in one slot are disjoint (`SlotsExclusive`), and the plan frees a slot
in the very node in which the lifetime of its tenant ends. The two
theorems about the pool follow from lemma `PlanUsesThePool`, `PlanSpec => PoolSpec`:
every step of the plan is a step of a client of the pool or none at all. In the same way
it is a step of the analysis or none, so the theorems about `LifetimePlanner`
hold of every plan.

`CupyStreaming_proofs`: for every set of graphs, any number of weights, every
prefetch depth, any number of calls, any of which may fail at any node.

| Theorem | States |
| --- | --- |
| `KernelsRead` | `Spec => []KernelsReadTheirWeights` |
| `OperandsThere` | `Spec => []OperandsPresent` |
| `PoolDivided` | `Spec => []TypeOK`, whose last part divides the pool: its blocks are in use or free, never both |
| `MemoryIsAccounted` | `Spec => []MemoryAccounted` |

`KernelsReadTheirWeights` only looks at kernels that start now. The invariant
says of every kernel *in the queue* why it will find each array it reads
(`KernelsSafe`): the weight is in its block, or a copy in the queue brings it and
the kernel stands behind a wait for that copy; and after that no copy to this
block comes before a wait for this very kernel. `ArraysSafe` says the same
of what the host still has a name for, whose kernels are to come. `LastKernel` is
the reason that a block may be used again as soon as the last name is gone: the
next copies wait for the last event of the main stream, and that is behind every
kernel there is. `Presence` and `EventsAhead` are about the
schedule: what a node to come reads and may be there is there, and an event is
kept only for a node that is still to wait for it.

`MemoryIsAccounted` adds four parts (`AInv`). `EnvAccounted`: each name in env is an
input, an output, or still to be read; an array of a weight is called by one of
the names of that weight, a weight it holds has been asked for, and two arrays of
one weight are of one block. So, whenever no block is free and the pool is to
grow, naming one weight per block maps the blocks one to one to the weights
held at this node (`BlocksHeld`). `OutputsThere`: no graph output is dropped, and
past the loop nothing else is left. `CopiesAwaited`, for the claim that no copy is
enqueued when a call returns, although the host only synchronizes with the main
stream: the main stream has a wait behind the last copy in its queue, or the
host still keeps the event for one, or more uploads are to come. The last of these
is there for a copy that a failed call has left behind.

`Fusion_proofs`: for every set of well-formed graphs, with and without the pipeline.

| Theorem | States |
| --- | --- |
| `ClaimsDisjoint` | `Spec => []GroupsDisjoint` |

The matchers are ten, and each is shown to claim nodes that are free and different
(`Claim`), but one of them, `_match_dual_conv_residual_add`, takes the only reader of
its sum without asking whether that is claimed (`fusion.py:624`). It must be a
`Relu`, and `ReluClaimed` says why it is free: up to that matcher (`Early`), a claimed
`Relu` is in a group with the producer of what it reads. Were the `Relu` claimed, the
`Add` would be too, since a tensor has one producer (`OneProducer`) and a `Relu` one
input. Later matchers break the invariant: a chain of elementwise operators may begin with
a `Relu`. So the order of the matchers, which a comment asks for so that patterns are
found, is what keeps the groups apart. `OneProducer` survives `prefuse_conv_bn`
because dropping nodes keeps the order of the others.

`InferWorker_proofs`: for every set of tasks, every amount of memory, every size
of the probes, any number of lines and changes of the memory that others hold.

| Theorem | States |
| --- | --- |
| `WorkerReplies` | `Spec => []RepliesMatchTasks` |
| `WorkerOkMeansComplete` | `Spec => []OkMeansComplete` |
| `WorkerChunksFit` | `Spec => []MeasuredChunkFits` |
| `WorkerChunksCapped` | `Spec => []StreamedChunksCapped` |

`Progress` says that what has been collected is a prefix of the samples, so that the
end of the loop means all of them. `ProbesSound` gives what the two probes
have measured as a formula of the free memory, for as long as nobody disturbs it;
that the straight line through two such points gives a chunk that fits is
arithmetic on it (`TwoProbesFit`, over the quotients of the code). `CacheSound` keeps that fact for
as long as the chunk is cached, which may be many tasks.

`IntervalScan_proofs`: for any values with one interval each, any registers, and
any number of scans one after the other.

| Theorem | States |
| --- | --- |
| `ScansAreSound` | `ScanSpec => []AllocationSound` |

`AllocationSound` alone is not inductive: it does not say why a register that is
handed out has no live tenant. `ScanInv` adds `Progress`, that intervals are
come to in the order of their starts; `Divided`, that each register is free or
belongs to one active value; and `Past`, that a value in a register which is
not active ends before anything still to come. So whoever else was given the
register that a value now gets, from the free set or by evicting its owner, is
dead where the value begins. `SpillsNeeded` is a count: if no register
is vacant, nothing active has expired, the active values match the registers
one to one (`Divided`), and all of them live where the next value begins, which is
one more than the registers. The scan is for requests as `IsRequest` has them;
`CodeOK` checks that the compiler makes no other.

`Submission_proofs`: the scripts for any trees, one packer and one verifier beside
each other, each run any number of times in turn; the grader for any submission, wherever it is wrong.

| Theorem | States |
| --- | --- |
| `PackedMeansVerified` | `DeliverySpec => []PackedArchivesVerify` |
| `PassesAreEarned` | `DeliverySpec => []PassesMeanItWorks` |
| `DirsAreReleased` | `DeliverySpec => []RemoteDirsReleased` |
| `NothingCarriesOver` | `GradeSpec => []NoCarryOver` |
| `LevelsAreGates` | `GradeSpec => []LevelsFollowGates` |
| `NoBetterAnswer` | `GradeSpec => []AgentsAnswerWell` |

`PackInv` follows the staging: after each of the three stages the staged tree has
what layer A will ask of that part (`StagedSoFar`), and a path has one content
throughout (`OneContent`), so that what is copied over is not there twice.
`Knows`, in `VerifyInv`, says what the verdicts so far mean while none of them
is bad. `RemoteDirsReleased` is the two inductive facts `DirsHeld`, that every step
concerns the directory of its own script only and gives it up for a cause which
that script can meet, and `OnlyTheRm`, that the verifier ends in a report of failed
commands, or of none, only in the step that asks for the removal
(`ReportsComeWithRmtree`).

In `GradeInv`, `FaultsAreFresh` says that a fault which waits while a test runs was
injected by the step before: the reset took any older one, and the next line
of a test that injects is the command to meet it. `MineSince` says what a test can hold at
each of its lines, `LeftByFailures` where a resource may stay behind, and
`RatedAtTheEnd` uses `GatesEarn`: the requirements of a gate give the points of
its level. `DmaAgentCheapest` is proved for any sizes and any depth of the queue.

The assumptions are those that the modules name. C2: handles differ from the null
handles, streams and events have different addresses, a process has finitely many
threads, device errors are statuses other than an invalid handle (`from_device`
has no such case). C3: graphs are what `Graph.validate` and `topo_order` deliver,
producers before readers, each tensor produced once (`WellFormed`,
`PlanAssumption`, `StreamingAssumption`, `GraphsAssumption`), they have a node, a
node has an output, and `Identity`, `Relu` and views one input; graph outputs are produced or inputs (`graph.py:203-205`), the import
drops initializers from the inputs (332-337); weights are finitely many; sizes
are above 0. The worker: memory, samples and probes are
numbers above 0, others never hold more than there is. The scripts: a path in a
tree has one content, and the library is built, not part of the sources
(`TreesAssumption`). The grader asks the agents what its own code makes up
(`RequestsAssumption`).

Only model-checked:

- the liveness properties `EveryCallReturns`, `EveryRunEnds` and
  `EveryTaskEnds`: fairness and `ENABLED` are beyond the prover;
- `MeaningKept` of `Fusion`: what `MockRuntime` computes from a graph is a
  recursive function of it, and its preservation an induction over the graph;
- `CodeOK`, `StoresPreserved` and `NoStrayAccess` of the compiler: what a kernel
  does, loops over the function and liveness are recursive operators. Of the
  compiler only the linear scan is proved.

## 5. What the models found

1. **The error reported is not the first** (`AecStreams_first_error`,
   `aec_runtime.cpp:219`). `dispatch` gives up `g_submit_mutex` before it takes
   `g_mutex` to stash an error; two launches on a stream can stash in the
   opposite order of their sequences. The comment at line 223 says that the
   first un-reported error wins.
2. **A loop that loses its counter** (`Compiler_loop_carried`, `cse.cpp:142`).
   `i + 1` in the body and `i = i + 1` at its end are a common subexpression;
   the second is dropped and renamed in the rest of the block, which does not
   reach the use at the top of the next iteration.
3. **Fused nodes that wait for each other** (`Fusion_aligned`, `fusion.py:730`).
   The matchers that count unclaimed readers only take a tensor for private
   although a claimed node reads it. For `a = Relu(x)`, `c = MatMul(a, w) + v`,
   `d = Add(a, c)` the groups are `[MatMul, Add]` and `[Relu, Add]`; each fused
   node reads an output of the other and the graph has a cycle.

Met while modelling, outside the runs:

- An allocation the table forgets (`aec_runtime.cpp:397`): `aecFree` erases the
  entry after the device has released the memory; an `aecAlloc` in between gets
  the same address and records it, and the erase then removes the new entry.
  The table no longer refuses an oversized count on that operand.
- Graphs without a plan (`memory.py:882`): without streaming, the value of a
  Constant node is uploaded only `prefetch_distance` nodes before its first
  reader, hence after the node itself, and the plan's validation rejects it.
- `prefuse_conv_bn` drops a folded batch norm without giving its output name to
  the convolution, so that what read the norm has no producer; and it replaces
  the convolution's own bias instead of scaling it (`fusion.py:881-886`, 923).
  `pipeline.py:51` describes it as not rewriting the graph.
- A `Flatten` absorbed by the perceptron matcher is replayed under a fresh name;
  if the graph returns its output, that output is gone (`fusion.py:414-427`).
- Unrolling, of which `target.h:68` says that it is correctness-safe on every
  kernel, loses the value that the last iteration leaves in a register the body
  does not read, since the last copy writes a renamed one (`unroll.cpp:535`); an
  accumulator to which a fixed value is added is taken for an address and
  advanced in the copies past the bound as well (166, 592); and an address that is
  advanced before it is used is advanced after its use instead (573).
- Strength reduction takes the step of every loop for one (`strength_reduce.cpp:199`).
- Common subexpressions: `t = t + a` is recorded as available although it has
  overwritten its own operand (`cse.cpp:218`), and a renaming is not forgotten
  when the register it leads to is overwritten (211).
- A guarded write to a register that has been spilled is stored back without the
  guard, so a lane that skips it stores what the scratch register held
  (`linear_scan.cpp:420`).
- Two chained guards on one predicate clear it before the second compare is made
  under it, and the guarded body never runs (`pred_opt.cpp:109-122`).
- LICM moves a definition out of a loop although the register has an earlier
  definition that the first iteration reads; it also hoists loads out of while
  loops that may run no iteration.
- Guards of two `if`s with different exits are combined (`pred_opt.cpp:93`),
  and a PTX instruction other than a branch loses its own predicate without a
  word (`ir_builder.cpp:387`).
- A launch checks its stream and submits without holding a lock in between, so
  it may reach the device after `aecStreamDestroy` has returned. The object is
  retired and never freed; nothing is corrupted.
- The sum of a copied buffer that ends with the address space wraps to zero, and
  the buffer is taken to lie in any interval registered below it
  (`aec_runtime.cpp:136`). No such buffer exists in C++, where the pointer one past
  the end is an address, and the run has none.
- `defragment` merges nothing that `free` has not merged already; its only
  effect is to trim the arena.
- The chunk size that the inference worker measures in its first task is used
  for all later ones, whatever their `batch_size` (`infer_worker.py:194`); the
  comment at line 224 says that it honors the parameter. A probe that runs out
  of memory leaves its sampling thread running (163).
- A task without one of its keys ends the worker instead of being answered with
  an error, as the protocol at line 14 has it: the keys are read outside the `try`.
- `verify_trackc.py` quotes the default `~/A4S/public` before it reaches the
  remote shell (491), so the `~` is not expanded and the grader is not found
  unless its place is given.
- Layer A takes an archive that was cut within its last tree for complete, since
  it asks for one name of each tree; building and running it (layer B) tells. And
  the archive that layer B tests may be a later one than layer A inspected.
- An archive that is gone between layer A and the upload makes `remote_push` raise
  after the work directory was made. `main` catches the exception
  (`verify_trackc.py:534`) and reports a FAIL, but nothing removes the directory.
  The same holds for a command that runs into its timeout, in layer B and in the
  packer's `make` (`pack_trackc.py:203`).
- A work directory whose removal failed, or was never reached, is still there
  when the process number comes again; the packer and the verifier unpack over it.

## 6. What is not modelled

| Part | Why |
| --- | --- |
| C1 front end, lowering, encoding, image | functions of text or of a table of fields, without state |
| C1 IR builder | two thirds of it are 64-bit register pairs, which `AecIr` does not have; planned |
| C1 report, cycle estimate, tools, simulator | report or interpret what is modelled |
| C2 parameter blocks, kernel table, error names, statistics | byte layouts and constant tables |
| C3 import, shape inference | read a file, copy what a library infers |
| C3 stream assignment | an annotation of the plan that no code executes |
| C3 strategy, precision, kernels, hardware | floating-point estimates, tables |
| C3 operators | array arithmetic |
| C3 benchmarks | timing and tables |

Within what is modelled: counters that only report are left out, as are the
eager walk of the runtime (one stream, the same walk), the fusion log, and, in
the compiler, everything about register pairs, hence also the loads that
unrolling joins to 64-bit ones and the high halves that the scheduler keeps in
place. Of the worker, the thread that samples the free memory during a probe is
the peak it finds; of the packer, the filter of what a copied directory keeps;
of the grader, the values that a test compares, the oracles it computes them
with, and the hidden profile; of `remote_exec.py`, its command line. Of the
scripts, the errors of the local disk while a library or a file is read or written
(which would pass by the removal of a directory like a timeout), and two packers,
or two verifiers, at one time: two packers that write one archive at once are
outside the model.

## 7. Plan

Done, in this order: `AecThreads`, `AecStreams` with its theorems,
`AecAllocations`, `AecHostMemory`; `ArenaSegments`, `Arena`,
`DeviceMemoryPool`, `LifetimePlanner` with its theorems, `ExecutionPlan`,
`CupyStreaming`; the compiler from the internal form to allocated code;
`OnnxGraph`, `Fusion`; `AecMemory`, the composition of the memory calls, with its
theorems; `InferWorker`; the scripts (`RemoteHost`, `Packing`, `Verification`,
`Delivery`), `Agents` and `PublicGrade`; `Unrolling` in the pipeline; the theorems
about the pool, the plan, the streamed execution, the claims of fusion, the
worker, the scripts and the grader; `IntervalScan`, with its theorem.

Next, modules:

1. C1: 64-bit pairs in `AecIr`, `LocalPasses`, `Unrolling` and `RegAlloc`; then
   the IR builder and lowering as the two ends of the pipeline.
2. C2: an abstract `SequencedDevice` (a queue of accepted commands with errors
   per stream) that `AecStreams` implements.

Next, theorems:

1. The list scheduler as steps, and that its order keeps every dependence.
2. That an interval of `RegAlloc` covers each position at which its value is
   read later, from liveness as a closed set instead of a recursion.
