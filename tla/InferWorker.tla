---------------------------- MODULE InferWorker ----------------------------
(***************************************************************************)
(* The C3 inference tools: the persistent worker                           *)
(* (C3/src/tools/infer_worker.py), which answers one task per line of its  *)
(* standard input, and the one-shot program (C3/src/tools/infer.py) it     *)
(* takes its backends from.  A row of output stands for one sample; device *)
(* memory is a number of units shared with other processes, and a forward  *)
(* pass over b samples needs PerSample units for each, and Window more     *)
(* when it streams its weights.  The thread that samples the free memory   *)
(* during a probe only measures, and is left out.                          *)
(***************************************************************************)
EXTENDS Integers, Sequences, FiniteSetsExt

CONSTANTS
  Tasks,        (* the tasks asked: [onnx, input, output, batch]          *)
  Samples,      (* samples of each input                                  *)
  WeightUnits,  (* memory of each model's weights                         *)
  Total,        (* device memory                                          *)
  PerSample, Window,
  Others,       (* what other processes may hold                          *)
  Tiny, Probe1, Probe2, EagerProbe,  (* 8, 16, 64 and 32 in the code      *)
  DefaultBatch,                      (* 256 in the code                   *)
  MaxTasks, MaxChanges  (* bounds: lines read, changes of the memory held *)
                        (* by others                                      *)

ASSUME InferAssumption ==
  /\ {Total, PerSample, Tiny, Probe1, Probe2, EagerProbe, DefaultBatch} \subseteq Nat \ {0}
  /\ Window \in Nat /\ Others \subseteq 0..Total
  /\ \A t \in Tasks : /\ Samples[t.input] \in Nat \ {0} /\ t.batch \in Nat
                       /\ WeightUnits[t.onnx] \in Nat

VARIABLES
  program,   (* which of the two programs this is                       *)
  cupy,      (* CuPy can be imported                                    *)
  stage,     (* where the program is                                    *)
  task,      (* the task at hand, or the last one                       *)
  status,    (* what was last replied, or the exit status               *)
  backends,  (* _BACKENDS: for a model its kind and its cached _chunk,  *)
             (* 0 before the first; of the task that measured it, the   *)
             (* batch size and the memory then free (Never when it was  *)
             (* not measured)                                           *)
  chunk, start, collected,   (* of _infer_all *)
  probe,     (* what _safe_chunk has measured *)
  held,      (* memory held by other processes                          *)
  resident,  (* memory held by the weights of eager backends            *)
  changes,
  arrays, manifest,          (* files, by output directory *)
  taken, emitted             (* task lines read, protocol lines written *)

memory == <<held, resident, changes>>
files == <<arrays, manifest>>
loop == <<chunk, start, collected>>
process == <<program, cupy>>
lines == <<taken, emitted>>
vars == <<process, stage, task, status, backends, loop, probe, memory, files, lines>>

Never == Total + 1
NoTask == [onnx |-> "none", input |-> "none", output |-> "none", batch |-> 0]
NoProbe == [b |-> 0, first |-> 0, peak |-> 0, free |-> 0, undisturbed |-> FALSE]
NoFile == [onnx |-> "none", input |-> "none", rows |-> <<>>]

Init ==
  /\ program \in {"worker", "infer"} /\ cupy \in BOOLEAN
  /\ stage = "init" /\ task = NoTask /\ status = "none"
  /\ backends = [m \in {} |-> 0]
  /\ chunk = 0 /\ start = 0 /\ collected = <<>> /\ probe = NoProbe
  /\ held \in Others /\ resident = 0 /\ changes = 0
  /\ arrays = [d \in {t.output : t \in Tasks} |-> NoFile]
  /\ manifest = [d \in DOMAIN arrays |-> 0]
  /\ taken = 0 /\ emitted = 0

n == Samples[task.input]
Backend == backends[task.onnx]
Free == Max({0, Total - held - resident})

(* What a forward pass over b samples allocates, and the use of the device *)
(* it reaches.                                                             *)
Need(b) == PerSample * b + IF Backend.kind = "streaming" THEN Window ELSE 0
Peak(b) == Total - Free + Need(b)

(* How a forward pass may end; onnxruntime reports a full device as an     *)
(* error of its own, and runs out of host memory when it likes.            *)
Outcomes(b) ==
  {"error"} \cup (IF Need(b) <= Free THEN {"ok"} ELSE {})
    \cup (IF Need(b) > Free \/ Backend.kind = "ort" THEN {"oom"} ELSE {})

(* Other processes take device memory and give it back at any time.        *)
MemoryChanges ==
  /\ changes < MaxChanges
  /\ changes' = changes + 1
  /\ held' \in Others \ {held}
  /\ probe' = [probe EXCEPT !.undisturbed = FALSE]
  /\ UNCHANGED <<process, stage, task, status, backends, loop, resident, files, lines>>
-----------------------------------------------------------------------------
Goto(from, to) == stage = from /\ stage' = to

Ready ==
  /\ program = "worker"
  /\ Goto("init", "idle")
  /\ emitted' = emitted + 1
  /\ UNCHANGED <<process, task, status, backends, loop, probe, memory, files, taken>>

Reading == program = "worker" /\ stage = "idle" /\ taken < MaxTasks

(* A line that is not JSON is answered at once.                            *)
ReadMalformed ==
  /\ Reading
  /\ status' = "error"
  /\ taken' = taken + 1 /\ emitted' = emitted + 1
  /\ UNCHANGED <<process, stage, task, backends, loop, probe, memory, files>>

(* A task that lacks a key ends the worker, without an answer.             *)
ReadIncomplete ==
  /\ Reading
  /\ stage' = "dead"
  /\ UNCHANGED <<process, task, status, backends, loop, probe, memory, files, lines>>

(* {"cmd": "exit"}, or the end of the input.                               *)
ReadExit ==
  /\ program = "worker"
  /\ Goto("idle", "exited")
  /\ UNCHANGED <<process, task, status, backends, loop, probe, memory, files, lines>>

ReadTask(t) ==
  /\ Reading
  /\ stage' = "load"
  /\ task' = t
  /\ taken' = taken + 1
  /\ UNCHANGED <<process, status, backends, loop, probe, memory, files, emitted>>

(* infer.py: the task comes from the command line.                         *)
ReadArguments(t) ==
  /\ program = "infer"
  /\ Goto("init", "load")
  /\ task' = t
  /\ UNCHANGED <<process, status, backends, loop, probe, memory, files, lines>>

Busy == stage \notin {"init", "idle", "exited", "dead"}

(* The locals of the functions left.                                       *)
Forget == chunk' = 0 /\ start' = 0 /\ collected' = <<>> /\ probe' = NoProbe

(* Mutant: the error is logged and the loop goes on. *)
FailSilently ==
  /\ Busy
  /\ status' = "error"
  /\ stage' = IF program = "worker" THEN "idle" ELSE "dead"
  /\ Forget
  /\ UNCHANGED lines

(* An exception anywhere in a task: the worker answers and goes on, the    *)
(* one-shot program ends.                                                  *)
Fail ==
  /\ Busy
  /\ status' = "error"
  /\ IF program = "worker"
     THEN stage' = "idle" /\ emitted' = emitted + 1
     ELSE stage' = "dead" /\ UNCHANGED emitted
  /\ Forget
  /\ UNCHANGED taken

LoadInputs ==
  /\ Goto("load", "backend")
  /\ UNCHANGED <<process, task, status, backends, loop, probe, memory, files, lines>>

LoadFails ==
  /\ stage \in {"load", "backend"}
  /\ Fail
  /\ UNCHANGED <<process, task, backends, memory, files>>
-----------------------------------------------------------------------------
AfterBackend == IF program = "worker" THEN "plan" ELSE "batch"

CachedBackend ==
  /\ task.onnx \in DOMAIN backends
  /\ Goto("backend", AfterBackend)
  /\ UNCHANGED <<process, task, status, backends, loop, probe, memory, files, lines>>

(* Weights above 80% of the free memory are streamed.  Without CuPy, or    *)
(* when its backend cannot be built, onnxruntime or the reference is used. *)
Kinds ==
  {"ort"} \cup IF ~ cupy THEN {}
               ELSE IF 5 * WeightUnits[task.onnx] > 4 * Free THEN {"streaming"} ELSE {"eager"}

MakeBackend ==
  /\ Goto("backend", AfterBackend)
  /\ task.onnx \notin DOMAIN backends
  /\ \E kind \in Kinds :
       backends' = [m \in DOMAIN backends \cup {task.onnx} |->
                      IF m = task.onnx THEN [kind |-> kind, chunk |-> 0, batch |-> 0, free |-> Never]
                                       ELSE backends[m]]
       /\ resident' = IF kind = "eager" THEN resident + WeightUnits[task.onnx] ELSE resident
  /\ UNCHANGED <<process, task, status, loop, probe, held, changes, files, lines>>
-----------------------------------------------------------------------------
(* _safe_chunk                                                             *)
Run(c) ==
  /\ chunk' = c /\ start' = 0 /\ collected' = <<>>
  /\ stage' = "run"

Batch == IF task.batch = 0 THEN DefaultBatch ELSE task.batch

Cache(c, free) ==
  backends' = [backends EXCEPT ![task.onnx] =
                 [kind |-> Backend.kind, chunk |-> c, batch |-> Batch, free |-> free]]

KeepShrunk(c) == backends' = [backends EXCEPT ![task.onnx].chunk = c]

CachedChunk ==
  /\ stage = "plan" /\ Backend.chunk # 0
  /\ Run(Min({Backend.chunk, n}))
  /\ UNCHANGED <<process, task, status, backends, probe, memory, files, lines>>

NoMeasure ==
  /\ stage = "plan" /\ Backend.chunk = 0 /\ ~ cupy
  /\ Cache(n, Never) /\ Run(n)
  /\ UNCHANGED <<process, task, status, probe, memory, files, lines>>

StartProbes ==
  /\ Goto("plan", "probe")
  /\ Backend.chunk = 0 /\ cupy
  /\ probe' = [NoProbe EXCEPT !.b = Min({n, IF Backend.kind = "streaming" THEN Probe1
                                                                         ELSE EagerProbe}),
                              !.undisturbed = TRUE]
  /\ UNCHANGED <<process, task, status, backends, loop, memory, files, lines>>

(* _measure_peak of the first batch; the eager search then reads the free  *)
(* memory once.                                                            *)
FirstProbe ==
  /\ stage = "probe" /\ "ok" \in Outcomes(probe.b)
  /\ probe' = [probe EXCEPT !.first = Peak(probe.b), !.peak = Peak(probe.b), !.free = Free]
  /\ stage' = IF Backend.kind # "streaming" THEN "grow"
              ELSE IF Min({n, Probe2}) > probe.b THEN "probe2" ELSE "fit"
  /\ UNCHANGED <<process, task, status, backends, loop, memory, files, lines>>

SecondProbe ==
  LET b == Min({n, Probe2}) IN
  /\ Goto("probe2", "fit")
  /\ "ok" \in Outcomes(b)
  /\ probe' = [probe EXCEPT !.b = b, !.peak = Peak(b)]
  /\ UNCHANGED <<process, task, status, backends, loop, memory, files, lines>>

(* Mutant: what a pass needs whatever its size is not set aside. *)
FittingPerSample ==
  LET b1 == Min({n, Probe1})
      per == Max({1, (probe.peak - probe.first) \div (probe.b - b1)})
  IN IF probe.b > b1 THEN Free \div per ELSE (Free * b1) \div probe.first

(* peak = fixed + per * b through both probes; the largest b that leaves   *)
(* twice the fixed part.  One probe alone gives no fixed part.             *)
Fitting ==
  LET b1 == Min({n, Probe1})
      per == Max({1, (probe.peak - probe.first) \div (probe.b - b1)})
      fixed == Max({0, probe.first - per * b1})
  IN IF probe.b > b1 THEN (Free - 2 * fixed) \div per ELSE (Free * b1) \div probe.first

(* Mutant: as large as memory allows. *)
Uncapped(c) == c

Capped(c) == Min({c, Batch})

MeasuredAt(free) == IF probe.undisturbed /\ Backend.kind # "ort" THEN free ELSE Never

FitStreaming ==
  LET c == Capped(Max({1, Min({n, Fitting})})) IN
  /\ stage = "fit"
  /\ Cache(c, MeasuredAt(Free)) /\ Run(c)
  /\ UNCHANGED <<process, task, status, probe, memory, files, lines>>

(* The eager search: double the batch while samples per second improve and *)
(* the peak leaves the first one free.                                     *)
Improves ==
  /\ stage = "grow" /\ 2 * probe.b <= n /\ "ok" \in Outcomes(2 * probe.b)
  /\ Peak(2 * probe.b) <= probe.free - probe.first
  /\ probe' = [probe EXCEPT !.b = 2 * @]
  /\ UNCHANGED <<process, stage, task, status, backends, loop, memory, files, lines>>

Settle ==
  /\ stage = "grow"
  /\ 2 * probe.b > n \/ "ok" \in Outcomes(2 * probe.b)
  /\ Cache(probe.b, MeasuredAt(probe.free)) /\ Run(probe.b)
  /\ UNCHANGED <<process, task, status, probe, memory, files, lines>>

Probing ==
  CASE stage = "probe" -> {probe.b}
    [] stage = "probe2" -> {Min({n, Probe2})}
    [] stage = "grow" -> {2 * probe.b} \cap 1..n
    [] OTHER -> {}

ProbeOutOfMemory ==
  /\ \E b \in Probing : "oom" \in Outcomes(b)
  /\ Cache(Min({n, Tiny}), Never) /\ Run(Min({n, Tiny}))
  /\ UNCHANGED <<process, task, status, probe, memory, files, lines>>

ProbeFails ==
  /\ Probing # {}
  /\ Fail
  /\ UNCHANGED <<process, task, backends, memory, files>>

(* infer.py has a fixed batch instead.                                     *)
FixedBatch ==
  /\ stage = "batch"
  /\ Run(IF task.batch > 0 THEN task.batch ELSE n)
  /\ UNCHANGED <<process, task, status, backends, probe, memory, files, lines>>
-----------------------------------------------------------------------------
(* The loop of _infer_all, and of infer.py.                                *)
Rows(from, to) == [i \in 1..(to - from) |-> from + i]
ChunkEnd == Min({start + chunk, n})

Forward ==
  /\ stage = "run" /\ start < n
  /\ "ok" \in Outcomes(ChunkEnd - start)
  /\ collected' = collected \o Rows(start, ChunkEnd)
  /\ start' = ChunkEnd
  /\ UNCHANGED <<process, stage, task, status, backends, chunk, probe, memory, files, lines>>

(* Mutant: the range that failed is not tried again. *)
ShrinkAndSkip ==
  /\ stage = "run" /\ start < n /\ program = "worker" /\ chunk > 1
  /\ "oom" \in Outcomes(ChunkEnd - start)
  /\ chunk' = chunk \div 2
  /\ start' = ChunkEnd
  /\ KeepShrunk(chunk \div 2)
  /\ UNCHANGED <<process, stage, task, status, collected, probe, memory, files, lines>>

(* Mutant: the whole task is tried again with the chunk that failed. *)
RestartUnshrunk ==
  /\ stage = "run" /\ start < n /\ program = "worker" /\ chunk > 1
  /\ "oom" \in Outcomes(ChunkEnd - start)
  /\ start' = 0 /\ collected' = <<>>
  /\ UNCHANGED <<process, stage, task, status, backends, chunk, probe, memory, files, lines>>

(* Out of memory: half the chunk, from now on, and the same range again.   *)
Shrink ==
  /\ stage = "run" /\ start < n /\ program = "worker" /\ chunk > 1
  /\ "oom" \in Outcomes(ChunkEnd - start)
  /\ chunk' = chunk \div 2
  /\ KeepShrunk(chunk \div 2)
  /\ UNCHANGED <<process, stage, task, status, start, collected, probe, memory, files, lines>>

ForwardFails ==
  /\ stage = "run" /\ start < n
  /\ \/ "error" \in Outcomes(ChunkEnd - start)
     \/ "oom" \in Outcomes(ChunkEnd - start) /\ (chunk = 1 \/ program = "infer")
  /\ Fail
  /\ UNCHANGED <<process, task, backends, memory, files>>
-----------------------------------------------------------------------------
(* _write_outputs: the arrays, then the manifest that describes them.      *)
WriteArrays ==
  /\ Goto("run", "manifest")
  /\ start >= n
  /\ arrays' = [arrays EXCEPT ![task.output] =
                  [onnx |-> task.onnx, input |-> task.input, rows |-> collected]]
  /\ UNCHANGED <<process, task, status, backends, loop, probe, memory, manifest, lines>>

WriteManifest ==
  /\ Goto("manifest", "reply")
  /\ manifest' = [manifest EXCEPT ![task.output] = Len(collected)]
  /\ UNCHANGED <<process, task, status, backends, loop, probe, memory, arrays, lines>>

WriteFails ==
  /\ \/ stage = "run" /\ start >= n
     \/ stage = "manifest"
  /\ Fail
  /\ UNCHANGED <<process, task, backends, memory, files>>

Reply ==
  /\ stage = "reply"
  /\ status' = "ok"
  /\ IF program = "worker"
     THEN stage' = "idle" /\ emitted' = emitted + 1
     ELSE stage' = "exited" /\ UNCHANGED emitted
  /\ Forget
  /\ UNCHANGED <<process, task, backends, memory, files, taken>>
-----------------------------------------------------------------------------
Work ==
  \/ Ready
  \/ LoadInputs \/ LoadFails
  \/ CachedBackend \/ MakeBackend
  \/ CachedChunk \/ NoMeasure \/ StartProbes
  \/ FirstProbe \/ SecondProbe \/ FitStreaming \/ Improves \/ Settle
  \/ ProbeOutOfMemory \/ ProbeFails \/ FixedBatch
  \/ Forward \/ Shrink \/ ForwardFails
  \/ WriteArrays \/ WriteManifest \/ WriteFails \/ Reply

Read ==
  \/ ReadMalformed \/ ReadIncomplete \/ ReadExit
  \/ \E t \in Tasks : ReadTask(t) \/ ReadArguments(t)

Ended == stage \in {"exited", "dead"} /\ UNCHANGED vars

Next == Work \/ Read \/ MemoryChanges \/ Ended

(* The program is scheduled; nobody has to send it anything.               *)
Spec == Init /\ [][Next]_vars /\ WF_vars(Work)
-----------------------------------------------------------------------------
(* READY comes first; then every task line, malformed ones included, is    *)
(* answered by one line before the next is read, whatever fails on the way *)
(* (infer_worker.py:19).  Only a task without a key ends the worker.       *)
RepliesMatchTasks ==
  program = "worker" =>
    emitted = taken + (IF stage = "init" THEN 0 ELSE 1) - (IF Busy THEN 1 ELSE 0)

(* When a task is reported done, its output directory holds each sample of *)
(* its input exactly once and in order, under a manifest of the right      *)
(* length, however often a chunk ran out of memory and was tried again.    *)
OkMeansComplete ==
  (status = "ok" /\ stage \in {"idle", "exited"}) =>
    /\ arrays[task.output] = [onnx |-> task.onnx, input |-> task.input, rows |-> Rows(0, n)]
    /\ manifest[task.output] = n

(* A chunk measured undisturbed runs, as long as no less memory is free    *)
(* than when it was measured: retries are only for memory taken since.  A  *)
(* chunk of one sample is not promised to run.                             *)
MeasuredChunkFits ==
  (stage = "run" /\ start < n /\ program = "worker" /\ Free >= Backend.free)
    => chunk = 1 \/ Need(chunk) <= Free

(* A streamed model is never fed more samples at a time than the           *)
(* batch_size of the task that measured it, whatever other tasks ask, nor  *)
(* than the chunk kept for a device too full to measure.                   *)
StreamedChunksCapped ==
  (stage = "run" /\ program = "worker" /\ Backend.kind = "streaming") =>
    chunk <= Max({Tiny, Backend.batch})

(* Every task is eventually over: the retries come to an end.              *)
EveryTaskEnds == Busy ~> ~ Busy
=============================================================================
