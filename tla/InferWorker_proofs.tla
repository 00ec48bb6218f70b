------------------------- MODULE InferWorker_proofs -------------------------
(***************************************************************************)
(* Theorems about InferWorker, for every set of tasks and models, every    *)
(* size of the device and of the probes, any number of lines and any       *)
(* changes of the memory others hold: one answer to each line, complete    *)
(* outputs behind every "ok", chunks that fit what was measured and that   *)
(* keep to the batch size they were measured for.                          *)
(***************************************************************************)
EXTENDS InferWorker, TLAPS, SequenceTheorems

Probes == {"probe", "probe2", "fit", "grow"}
Serving == {"load", "backend", "plan", "batch", "run", "manifest", "reply"} \cup Probes
Stages == {"init", "idle", "exited", "dead"} \cup Serving

Entry == [kind : {"eager", "streaming", "ort"}, chunk : Nat, batch : Nat, free : Nat]

(* Stages of _infer_all and after it: the backend is in the cache.         *)
Loaded == Serving \ {"load", "backend"}

Measure == [b : Nat, first : Int, peak : Int, free : Int, undisturbed : BOOLEAN]

Types ==
  /\ program \in {"worker", "infer"} /\ cupy \in BOOLEAN
  /\ stage \in Stages
  /\ stage \in Serving => task \in Tasks
  /\ held \in 0..Total /\ resident \in Nat
  /\ backends \in [DOMAIN backends -> Entry]
  /\ stage \in Loaded => task.onnx \in DOMAIN backends
  /\ DOMAIN arrays = {t.output : t \in Tasks} /\ DOMAIN manifest = DOMAIN arrays
  /\ taken \in Nat /\ emitted \in Nat

(* The stages a program passes through are its own.                        *)
Programs ==
  /\ stage \in {"plan"} \cup Probes => program = "worker"
  /\ stage = "batch" => program = "infer"
  /\ stage = "init" => status = "none"

(* What has been collected is a prefix of the samples; once the loop is    *)
(* over it is all of them, then it is on disk, then its length too.        *)
Written == arrays[task.output] = [onnx |-> task.onnx, input |-> task.input, rows |-> Rows(0, n)]

Progress ==
  /\ stage = "run" => chunk \in Nat \ {0} /\ start \in 0..n /\ collected = Rows(0, start)
  /\ stage \in {"manifest", "reply"} => collected = Rows(0, n) /\ Written
  /\ stage = "reply" => manifest[task.output] = n

-----------------------------------------------------------------------------
(* What a forward pass of a backend of some kind needs.                    *)
NeedOf(kind, b) == PerSample * b + IF kind = "streaming" THEN Window ELSE 0

(* A cached chunk fits what was free when it was measured, and keeps to    *)
(* the batch size it was measured for.                                     *)
CacheSound ==
  \A m \in DOMAIN backends :
    LET e == backends[m] IN
    /\ e.free = Never \/ (e.chunk # 0 /\ e.free <= Total /\ (e.chunk = 1 \/ NeedOf(e.kind, e.chunk) <= e.free))
    /\ e.kind = "streaming" => cupy /\ (e.chunk <= Tiny \/ e.chunk <= e.batch)

(* The loop runs with the cached chunk or a smaller one.                   *)
ChunkFromCache == (stage = "run" /\ program = "worker") => chunk <= Backend.chunk

(* What a probe has measured, as long as nobody disturbed it.              *)
FirstBatch == Min({n, Probe1})

ProbesSound ==
  /\ probe \in Measure
  /\ stage \in Probes => probe.b \in 1..n /\ Backend.chunk = 0
  /\ stage = "probe" => (Backend.kind = "streaming" => probe.b = FirstBatch)
  /\ stage \in {"probe2", "fit"} =>
       /\ Backend.kind = "streaming" /\ probe.first \in Nat \ {0} /\ probe.peak \in Int
       /\ probe.undisturbed => /\ probe.first = Total - Free + NeedOf("streaming", FirstBatch)
                               /\ probe.peak = Total - Free + NeedOf("streaming", probe.b)
                               /\ NeedOf("streaming", probe.b) <= Free
  /\ stage = "probe2" => probe.b = FirstBatch /\ Min({n, Probe2}) >= FirstBatch
  /\ stage = "fit" => probe.b >= FirstBatch
  /\ stage = "grow" =>
       /\ Backend.kind # "streaming" /\ probe.free \in 0..Total
       /\ probe.undisturbed => probe.free = Free /\ (Backend.kind = "eager" => NeedOf("eager", probe.b) <= Free)

IInv ==
  /\ Types /\ Programs /\ Progress /\ CacheSound /\ ChunkFromCache /\ ProbesSound
  /\ RepliesMatchTasks /\ OkMeansComplete

-----------------------------------------------------------------------------
(* The smaller and the larger of two numbers.                              *)
LEMMA MinPair ==
  ASSUME NEW x \in Int, NEW y \in Int
  PROVE  Min({x, y}) = IF x <= y THEN x ELSE y
<1>1. PICK m : m = IF x <= y THEN x ELSE y
  OBVIOUS
<1>2. \A z : (z \in {x, y} /\ \A k \in {x, y} : z =< k) <=> z = m
  BY <1>1
<1>. QED
  BY <1>1, <1>2, Zenon DEF Min

LEMMA MaxPair ==
  ASSUME NEW x \in Int, NEW y \in Int
  PROVE  Max({x, y}) = IF x >= y THEN x ELSE y
<1>1. PICK m : m = IF x >= y THEN x ELSE y
  OBVIOUS
<1>2. \A z : (z \in {x, y} /\ \A k \in {x, y} : z >= k) <=> z = m
  BY <1>1
<1>. QED
  BY <1>1, <1>2, Zenon DEF Max

(* The rows of a range and those of the range after it are the rows of both.*)
LEMMA RowsAppend ==
  ASSUME NEW s \in Nat, NEW e \in Nat, s <= e
  PROVE  Rows(0, s) \o Rows(s, e) = Rows(0, e)
<1>1. Rows(0, s) \in Seq(Nat) /\ Len(Rows(0, s)) = s /\ \A i \in 1..s : Rows(0, s)[i] = i
  BY DEF Rows
<1>2. Rows(s, e) \in Seq(Nat) /\ Len(Rows(s, e)) = e - s /\ \A i \in 1..(e - s) : Rows(s, e)[i] = s + i
  BY DEF Rows
<1>3. Rows(0, e) \in Seq(Nat) /\ Len(Rows(0, e)) = e /\ \A i \in 1..e : Rows(0, e)[i] = i
  BY DEF Rows
<1>. HIDE DEF Rows
<1>4. PICK c : c = Rows(0, s) \o Rows(s, e)
  OBVIOUS
<1>5. c \in Seq(Nat) /\ Len(c) = e
  BY <1>1, <1>2, <1>4
<1>6. \A i \in 1..e : c[i] = i
  BY <1>1, <1>2, <1>4
<1>. QED
  BY <1>3, <1>4, <1>5, <1>6, SeqEqual

(* The sizes are positive numbers.                                         *)
LEMMA SizesKnown ==
  /\ Total \in Nat \ {0} /\ PerSample \in Nat \ {0} /\ Window \in Nat /\ Tiny \in Nat \ {0}
  /\ Probe1 \in Nat \ {0} /\ Probe2 \in Nat \ {0} /\ EagerProbe \in Nat \ {0}
  /\ DefaultBatch \in Nat \ {0} /\ Never \in Nat /\ Others \subseteq 0..Total
BY InferAssumption DEF Never

(* The memory that is free, and what a task asks for.                      *)
LEMMA FreeBounds ==
  ASSUME Types
  PROVE  Free \in 0..Total
BY MaxPair, InferAssumption DEF Types, Free

LEMMA TaskKnown ==
  ASSUME Types, stage \in Serving
  PROVE  /\ task \in Tasks /\ n \in Nat \ {0} /\ task.batch \in Nat /\ Batch \in Nat \ {0}
         /\ WeightUnits[task.onnx] \in Nat
BY InferAssumption DEF Types, n, Batch

(* What keeping a chunk does to the cache.                                 *)
LEMMA CacheStep ==
  ASSUME Types, stage \in Loaded, NEW c \in Nat, NEW f \in Nat, Cache(c, f)
  PROVE  /\ DOMAIN backends' = DOMAIN backends /\ backends' \in [DOMAIN backends -> Entry]
         /\ backends'[task.onnx] = [kind |-> Backend.kind, chunk |-> c, batch |-> Batch, free |-> f]
         /\ \A m \in DOMAIN backends : m # task.onnx => backends'[m] = backends[m]
<1>1. task.onnx \in DOMAIN backends /\ Batch \in Nat
  BY TaskKnown DEF Types, Loaded
<1>2. Backend \in Entry
  BY <1>1 DEF Types, Backend
<1>3. PICK e \in Entry : e = [kind |-> Backend.kind, chunk |-> c, batch |-> Batch, free |-> f]
  BY <1>1, <1>2 DEF Entry
<1>4. backends' = [backends EXCEPT ![task.onnx] = e]
  BY <1>3 DEF Cache
<1>. QED
  BY <1>1, <1>3, <1>4 DEF Types

LEMMA ShrinkStep ==
  ASSUME Types, stage \in Loaded, NEW c \in Nat, KeepShrunk(c)
  PROVE  /\ DOMAIN backends' = DOMAIN backends /\ backends' \in [DOMAIN backends -> Entry]
         /\ backends'[task.onnx] = [kind |-> Backend.kind, chunk |-> c, batch |-> Backend.batch,
                                    free |-> Backend.free]
         /\ \A m \in DOMAIN backends : m # task.onnx => backends'[m] = backends[m]
<1>1. task.onnx \in DOMAIN backends
  BY DEF Types, Loaded
<1>2. Backend \in Entry
  BY <1>1 DEF Types, Backend
<1>3. [Backend EXCEPT !.chunk = c]
        = [kind |-> Backend.kind, chunk |-> c, batch |-> Backend.batch, free |-> Backend.free]
  BY <1>2 DEF Entry
<1>4. PICK e \in Entry : e = [kind |-> Backend.kind, chunk |-> c, batch |-> Backend.batch,
                                    free |-> Backend.free]
  BY <1>1, <1>2 DEF Entry
<1>5. backends' = [backends EXCEPT ![task.onnx] = e]
  BY <1>3, <1>4 DEF KeepShrunk, Backend
<1>. QED
  BY <1>1, <1>4, <1>5 DEF Types

(* Quotients of numbers, and the bounds the division gives.                *)
LEMMA Quotient ==
  ASSUME NEW x \in Int, NEW y \in Nat \ {0}
  PROVE  x \div y \in Int /\ y * (x \div y) <= x
OBVIOUS

(* The chunk the two probes of a streamed model ask for.                   *)
LEMMA FittingTyped ==
  ASSUME Types, ProbesSound, stage = "fit"
  PROVE  Fitting \in Int
<1>1. n \in Nat \ {0} /\ Free \in Nat
  BY TaskKnown, FreeBounds, InferAssumption DEF Serving, Probes
<1>2. FirstBatch \in Nat \ {0}
  BY <1>1, MinPair, InferAssumption DEF FirstBatch
<1>3. probe.b \in 1..n /\ probe.first \in Nat \ {0} /\ probe.peak \in Int
  BY DEF ProbesSound, Probes
<1>4. CASE probe.b > FirstBatch
  <2>1. PICK q : q = (probe.peak - probe.first) \div (probe.b - FirstBatch)
    OBVIOUS
  <2>2. q \in Int
    BY <1>2, <1>3, <1>4, <2>1, Quotient
  <2>3. PICK per : per = Max({1, q})
    OBVIOUS
  <2>4. per \in Nat \ {0}
    BY <2>2, <2>3, MaxPair
  <2>5. PICK fixed : fixed = Max({0, probe.first - per * FirstBatch})
    OBVIOUS
  <2>6. fixed \in Nat
    BY <1>2, <1>3, <2>4, <2>5, MaxPair
  <2>7. Fitting = (Free - 2 * fixed) \div per
    BY <1>4, <2>1, <2>3, <2>5 DEF Fitting, FirstBatch
  <2>. QED
    BY <1>1, <2>4, <2>6, <2>7, Quotient
<1>5. CASE ~ (probe.b > FirstBatch)
  <2>1. Fitting = (Free * FirstBatch) \div probe.first
    BY <1>5 DEF Fitting, FirstBatch
  <2>. QED
    BY <1>1, <1>2, <1>3, <2>1, Quotient
<1>. QED
  BY <1>4, <1>5

(* A chunk is at least one sample, and no more than there are.             *)
LEMMA FitTyped ==
  ASSUME Types, ProbesSound, stage = "fit",
         NEW c, c = Capped(Max({1, Min({n, Fitting})}))
  PROVE  c \in 1..n /\ c <= Batch /\ (c = 1 \/ c <= Fitting)
<1>1. n \in Nat \ {0} /\ Batch \in Nat \ {0} /\ Fitting \in Int
  BY TaskKnown, FittingTyped DEF Serving, Probes
<1>2. PICK m \in Int : m = Min({n, Fitting}) /\ m <= n /\ m <= Fitting
  BY <1>1, MinPair
<1>3. PICK k \in Int : k = Max({1, m}) /\ k \in 1..n /\ (k = 1 \/ k <= Fitting)
  BY <1>1, <1>2, MaxPair
<1>4. c = IF k <= Batch THEN k ELSE Batch
  BY <1>1, <1>2, <1>3, MinPair DEF Capped
<1>. QED
  BY <1>1, <1>3, <1>4

-----------------------------------------------------------------------------
(* Every kind of step keeps the types.                                     *)
LEMMA TypesKept ==
  ASSUME Types, Progress, ProbesSound, [Next]_vars
  PROVE  Types'
<1>. USE DEF Types, Stages, Serving, Probes, Loaded, Goto, Fail, Forget, Reading, process, loop, memory, files, lines
<1>1. CASE Ready \/ ReadMalformed \/ ReadIncomplete \/ ReadExit
  BY <1>1 DEF Ready, ReadMalformed, ReadIncomplete, ReadExit
<1>2. ASSUME NEW t \in Tasks, ReadTask(t) \/ ReadArguments(t) PROVE Types'
  BY <1>2 DEF ReadTask, ReadArguments
<1>3. CASE LoadInputs \/ LoadFails \/ CachedBackend
  BY <1>3 DEF LoadInputs, LoadFails, CachedBackend, AfterBackend, Busy
<1>4. CASE MakeBackend
  <2>1. PICK kind \in {"eager", "streaming", "ort"} :
          /\ backends' = [m \in DOMAIN backends \cup {task.onnx} |->
                 IF m = task.onnx THEN [kind |-> kind, chunk |-> 0, batch |-> 0, free |-> Never]
                                  ELSE backends[m]]
          /\ resident' = IF kind = "eager" THEN resident + WeightUnits[task.onnx] ELSE resident
    BY <1>4 DEF MakeBackend, Kinds
  <2>2. resident' \in Nat
    BY <1>4, <2>1, TaskKnown DEF MakeBackend
  <2>3. [kind |-> kind, chunk |-> 0, batch |-> 0, free |-> Never] \in Entry
    BY InferAssumption DEF Entry, Never
  <2>4. backends' \in [DOMAIN backends' -> Entry] /\ task.onnx \in DOMAIN backends'
    BY <2>1, <2>3
  <2>. QED
    BY <1>4, <2>2, <2>4 DEF MakeBackend, AfterBackend
<1>5. CASE CachedChunk \/ StartProbes \/ FirstProbe \/ SecondProbe \/ Improves \/ FixedBatch
  BY <1>5 DEF CachedChunk, StartProbes, FirstProbe, SecondProbe, Improves, FixedBatch, Run
<1>6. CASE ProbeFails \/ ForwardFails \/ WriteFails \/ Reply
  BY <1>6 DEF ProbeFails, ForwardFails, WriteFails, Reply, Busy, Probing
<1>7. CASE Forward
  BY <1>7 DEF Forward
<1>8. CASE WriteArrays \/ WriteManifest
  BY <1>8 DEF WriteArrays, WriteManifest
<1>10. CASE NoMeasure \/ Settle \/ ProbeOutOfMemory \/ FitStreaming
  <2>1. stage \in Loaded /\ n \in Nat \ {0} /\ Free \in Nat
    BY <1>10, TaskKnown, FreeBounds, InferAssumption
       DEF NoMeasure, Settle, ProbeOutOfMemory, FitStreaming, Probing
  <2>2. Min({n, Tiny}) \in Nat
    BY <2>1, SizesKnown, MinPair
  <2>3. CASE NoMeasure
    <3>1. backends' \in [DOMAIN backends -> Entry] /\ DOMAIN backends' = DOMAIN backends
      BY <2>1, <2>3, CacheStep, SizesKnown DEF NoMeasure
    <3>. QED
      BY <2>3, <3>1 DEF NoMeasure, Run
  <2>4. CASE Settle
    <3>1. probe.b \in Nat /\ MeasuredAt(probe.free) \in Nat
      BY <2>4, SizesKnown DEF Settle, ProbesSound, MeasuredAt
    <3>2. backends' \in [DOMAIN backends -> Entry] /\ DOMAIN backends' = DOMAIN backends
      BY <2>1, <2>4, <3>1, CacheStep DEF Settle
    <3>. QED
      BY <2>4, <3>2 DEF Settle, Run
  <2>5. CASE ProbeOutOfMemory
    <3>1. backends' \in [DOMAIN backends -> Entry] /\ DOMAIN backends' = DOMAIN backends
      BY <2>1, <2>2, <2>5, CacheStep, SizesKnown DEF ProbeOutOfMemory
    <3>. QED
      BY <2>1, <2>5, <3>1 DEF ProbeOutOfMemory, Run
  <2>6. CASE FitStreaming
    <3>1. PICK c : c = Capped(Max({1, Min({n, Fitting})}))
      OBVIOUS
    <3>2. c \in Nat /\ MeasuredAt(Free) \in Nat
      <4>1. c \in 1..n
        BY <2>6, <3>1, FitTyped DEF FitStreaming
      <4>2. MeasuredAt(Free) \in {Free, Never}
        BY DEF MeasuredAt
      <4>. QED
        BY <2>1, <4>1, <4>2, SizesKnown
    <3>3. backends' \in [DOMAIN backends -> Entry] /\ DOMAIN backends' = DOMAIN backends
      BY <2>1, <2>6, <3>1, <3>2, CacheStep DEF FitStreaming
    <3>. QED
      BY <2>6, <3>3 DEF FitStreaming, Run
  <2>. QED
    BY <1>10, <2>3, <2>4, <2>5, <2>6
<1>11. CASE Shrink
  <2>1. chunk \div 2 \in Nat
    BY <1>11 DEF Shrink, Progress
  <2>2. backends' \in [DOMAIN backends -> Entry] /\ DOMAIN backends' = DOMAIN backends
    BY <1>11, <2>1, ShrinkStep DEF Shrink
  <2>. QED
    BY <1>11, <2>2 DEF Shrink
<1>9. CASE MemoryChanges \/ Ended \/ UNCHANGED vars
  BY <1>9, InferAssumption DEF MemoryChanges, Ended, vars
<1>. QED
  BY <1>1, <1>2, <1>3, <1>4, <1>5, <1>6, <1>7, <1>8, <1>9, <1>10, <1>11 DEF Next, Work, Read

-----------------------------------------------------------------------------
(* The stages of the worker and those of the one-shot program.             *)
LEMMA ProgramsKept ==
  ASSUME Types, Programs, [Next]_vars
  PROVE  Programs'
<1>. USE DEF Programs, Probes, Goto, Fail, Reading, process
<1>1. CASE Ready \/ ReadMalformed \/ ReadIncomplete \/ ReadExit
  BY <1>1 DEF Ready, ReadMalformed, ReadIncomplete, ReadExit
<1>2. ASSUME NEW t \in Tasks, ReadTask(t) \/ ReadArguments(t) PROVE Programs'
  BY <1>2 DEF ReadTask, ReadArguments
<1>3. CASE LoadInputs \/ LoadFails \/ CachedBackend \/ MakeBackend
  BY <1>3 DEF LoadInputs, LoadFails, CachedBackend, MakeBackend, AfterBackend, Types
<1>4. CASE CachedChunk \/ NoMeasure \/ StartProbes \/ FirstProbe \/ SecondProbe \/ FixedBatch
  BY <1>4 DEF CachedChunk, NoMeasure, StartProbes, FirstProbe, SecondProbe, FixedBatch, Run
<1>5. CASE FitStreaming \/ Improves \/ Settle \/ ProbeOutOfMemory
  BY <1>5 DEF FitStreaming, Improves, Settle, ProbeOutOfMemory, Run
<1>6. CASE ProbeFails \/ ForwardFails \/ WriteFails \/ Reply
  BY <1>6 DEF ProbeFails, ForwardFails, WriteFails, Reply
<1>7. CASE Forward \/ Shrink \/ WriteArrays \/ WriteManifest
  BY <1>7 DEF Forward, Shrink, WriteArrays, WriteManifest
<1>8. CASE MemoryChanges \/ Ended \/ UNCHANGED vars
  BY <1>8 DEF MemoryChanges, Ended, vars
<1>. QED
  BY <1>1, <1>2, <1>3, <1>4, <1>5, <1>6, <1>7, <1>8 DEF Next, Work, Read

(* Each step writes the lines it owes and no other.                        *)
LEMMA RepliesKept ==
  ASSUME Types, Programs, RepliesMatchTasks, [Next]_vars
  PROVE  RepliesMatchTasks'
<1>. USE DEF Types, Programs, Probes, Stages, Serving, RepliesMatchTasks, Goto, Fail, Reading, process, lines, Busy
<1>1. CASE Ready \/ ReadMalformed \/ ReadIncomplete \/ ReadExit
  BY <1>1 DEF Ready, ReadMalformed, ReadIncomplete, ReadExit
<1>2. ASSUME NEW t \in Tasks, ReadTask(t) \/ ReadArguments(t) PROVE RepliesMatchTasks'
  BY <1>2 DEF ReadTask, ReadArguments
<1>3. CASE LoadInputs \/ LoadFails \/ CachedBackend \/ MakeBackend
  BY <1>3 DEF LoadInputs, LoadFails, CachedBackend, MakeBackend, AfterBackend
<1>4. CASE CachedChunk \/ NoMeasure \/ StartProbes \/ FirstProbe \/ SecondProbe \/ FixedBatch
  BY <1>4 DEF CachedChunk, NoMeasure, StartProbes, FirstProbe, SecondProbe, FixedBatch, Run
<1>5. CASE FitStreaming \/ Improves \/ Settle \/ ProbeOutOfMemory
  <2>1. CASE FitStreaming
    BY <2>1 DEF FitStreaming, Run
  <2>2. CASE Improves \/ Settle
    BY <2>2 DEF Improves, Settle, Run
  <2>3. CASE ProbeOutOfMemory
    BY <2>3 DEF ProbeOutOfMemory, Probing, Run
  <2>. QED
    BY <1>5, <2>1, <2>2, <2>3
<1>6. CASE ProbeFails \/ ForwardFails \/ WriteFails \/ Reply
  BY <1>6 DEF ProbeFails, Probing, ForwardFails, WriteFails, Reply
<1>7. CASE Forward \/ Shrink \/ WriteArrays \/ WriteManifest
  BY <1>7 DEF Forward, Shrink, WriteArrays, WriteManifest
<1>8. CASE MemoryChanges \/ Ended \/ UNCHANGED vars
  BY <1>8 DEF MemoryChanges, Ended, vars
<1>. QED
  BY <1>1, <1>2, <1>3, <1>4, <1>5, <1>6, <1>7, <1>8 DEF Next, Work, Read

-----------------------------------------------------------------------------
(* What a step that starts the loop, and one that shrinks the chunk, does. *)
LEMMA RunStarts ==
  ASSUME Types, Programs, ProbesSound, CacheSound,
         CachedChunk \/ NoMeasure \/ FitStreaming \/ Settle \/ ProbeOutOfMemory \/ FixedBatch
  PROVE  /\ stage' = "run" /\ chunk' \in Nat \ {0} /\ start' = 0 /\ collected' = <<>>
         /\ task' = task /\ program' = program
         /\ program = "worker" => chunk' <= Backend'.chunk
<1>1. n \in Nat \ {0} /\ task \in Tasks /\ task.batch \in Nat /\ Free \in Nat
      /\ stage \in Serving
  BY TaskKnown, FreeBounds, SizesKnown DEF CachedChunk, NoMeasure, FitStreaming, Settle,
     ProbeOutOfMemory, FixedBatch, Probing, Serving, Probes
<1>2. CASE CachedChunk
  <2>1. Backend \in Entry /\ stage = "plan" /\ Backend.chunk # 0 /\ Run(Min({Backend.chunk, n}))
    BY <1>2 DEF CachedChunk, Types, Backend, Loaded, Serving
  <2>2. PICK k \in Nat : k = Backend.chunk
    BY <2>1 DEF Entry
  <2>3. Min({k, n}) \in Nat \ {0} /\ Min({k, n}) <= k
    BY <1>1, <2>1, <2>2, MinPair
  <2>4. Backend' = Backend
    BY <1>2 DEF CachedChunk, Backend
  <2>. QED
    BY <1>2, <2>1, <2>2, <2>3, <2>4 DEF CachedChunk, Run, process
<1>3. CASE FixedBatch
  BY <1>1, <1>3 DEF FixedBatch, Run, process, Programs
<1>4. ASSUME NEW c \in Nat \ {0}, NEW f \in Nat, stage \in Loaded, Cache(c, f), Run(c),
             UNCHANGED <<task, process>>
      PROVE  /\ stage' = "run" /\ chunk' \in Nat \ {0} /\ start' = 0 /\ collected' = <<>>
             /\ task' = task /\ program' = program /\ chunk' <= Backend'.chunk
  <2>1. backends'[task.onnx] = [kind |-> Backend.kind, chunk |-> c, batch |-> Batch, free |-> f]
    BY <1>4, CacheStep
  <2>. QED
    BY <1>4, <2>1 DEF Run, process, Backend
<1>5. CASE NoMeasure
  BY <1>1, <1>4, <1>5, SizesKnown DEF NoMeasure, Loaded, Serving
<1>6. CASE FitStreaming
  <2>1. PICK c : c = Capped(Max({1, Min({n, Fitting})}))
    OBVIOUS
  <2>2. c \in Nat \ {0}
    BY <1>1, <1>6, <2>1, FitTyped DEF FitStreaming
  <2>3. MeasuredAt(Free) \in Nat
    BY <1>1, SizesKnown DEF MeasuredAt
  <2>. QED
    BY <1>4, <1>6, <2>1, <2>2, <2>3 DEF FitStreaming, Loaded, Serving, Probes
<1>7. CASE Settle
  <2>1. probe.b \in Nat \ {0} /\ probe.free \in Nat
    BY <1>1, <1>7, SizesKnown DEF Settle, ProbesSound, Probes
  <2>2. MeasuredAt(probe.free) \in Nat
    BY <2>1, SizesKnown DEF MeasuredAt
  <2>. QED
    BY <1>4, <1>7, <2>1, <2>2 DEF Settle, Loaded, Serving, Probes
<1>8. CASE ProbeOutOfMemory
  <2>1. Min({n, Tiny}) \in Nat \ {0}
    BY <1>1, SizesKnown, MinPair
  <2>2. stage \in Loaded
    BY <1>8 DEF ProbeOutOfMemory, Probing, Loaded, Serving, Probes
  <2>. QED
    BY <1>4, <1>8, <2>1, <2>2, SizesKnown DEF ProbeOutOfMemory
<1>. QED
  BY <1>2, <1>3, <1>5, <1>6, <1>7, <1>8

Starting == CachedChunk \/ NoMeasure \/ FitStreaming \/ Settle \/ ProbeOutOfMemory \/ FixedBatch
Failing == LoadFails \/ ProbeFails \/ ForwardFails \/ WriteFails

(* Steps before the loop, and steps that end a task or read a line.        *)
Preparing == Ready \/ LoadInputs \/ CachedBackend \/ MakeBackend \/ StartProbes \/ FirstProbe
             \/ SecondProbe \/ Improves
Listening == ReadMalformed \/ ReadIncomplete \/ ReadExit
             \/ \E t \in Tasks : ReadTask(t) \/ ReadArguments(t)

LEMMA NextSteps ==
  ASSUME [Next]_vars
  PROVE  \/ Starting \/ Failing \/ Preparing \/ Listening
         \/ Forward \/ Shrink \/ WriteArrays \/ WriteManifest \/ Reply
         \/ MemoryChanges \/ UNCHANGED vars
BY DEF Next, Work, Read, Ended, Starting, Failing, Preparing, Listening

(* Most steps are outside the loop, before and after.                      *)
LEMMA LoopLeftAlone ==
  ASSUME Types, Programs, Failing \/ Preparing \/ Listening \/ Reply
  PROVE  /\ stage' \notin {"run", "manifest", "reply"}
         /\ (status' = "ok" /\ stage' \in {"idle", "exited"}) =>
               \/ stage = "reply" /\ UNCHANGED <<task, files>>
               \/ status = "ok" /\ stage \in {"idle", "exited"} /\ UNCHANGED <<task, files>>
<1>. USE DEF Goto, Fail, Reading, Busy, process, Programs
<1>1. CASE LoadFails \/ ProbeFails \/ ForwardFails \/ WriteFails
  BY <1>1 DEF LoadFails, ProbeFails, ForwardFails, WriteFails
<1>2. CASE Ready \/ LoadInputs \/ CachedBackend \/ MakeBackend
  BY <1>2 DEF Ready, LoadInputs, CachedBackend, MakeBackend, AfterBackend
<1>3. CASE StartProbes \/ FirstProbe \/ SecondProbe \/ Improves
  BY <1>3 DEF StartProbes, FirstProbe, SecondProbe, Improves
<1>4. CASE ReadMalformed \/ ReadIncomplete
  BY <1>4 DEF ReadMalformed, ReadIncomplete
<1>6. CASE ReadExit
  BY <1>6 DEF ReadExit
<1>7. CASE Reply
  BY <1>7 DEF Reply
<1>5. ASSUME NEW t \in Tasks, ReadTask(t) \/ ReadArguments(t)
      PROVE  stage' = "load"
  BY <1>5 DEF ReadTask, ReadArguments
<1>. QED
  BY <1>1, <1>2, <1>3, <1>4, <1>5, <1>6, <1>7 DEF Failing, Preparing, Listening

(* What is collected is always a prefix of the samples, and what is        *)
(* written is all of them.                                                 *)
LEMMA ProgressKept ==
  ASSUME Types, Programs, Progress, ProbesSound, CacheSound, [Next]_vars
  PROVE  Progress'
<1>1. CASE stage' \notin {"run", "manifest", "reply"}
  BY <1>1 DEF Progress
<1>2. CASE UNCHANGED <<stage, task, loop, files>>
  BY <1>2 DEF Progress, loop, files, n, Written
<1>3. CASE Starting
  <2>1. stage' = "run" /\ chunk' \in Nat \ {0} /\ start' = 0 /\ collected' = <<>> /\ task' = task
    BY <1>3, RunStarts DEF Starting
  <2>2. n' \in Nat
    BY <1>3, <2>1, TaskKnown DEF Starting, CachedChunk, NoMeasure, FitStreaming, Settle, ProbeOutOfMemory,
       FixedBatch, Probing, Serving, Probes, n
  <2>3. Rows(0, 0) = <<>>
    BY DEF Rows
  <2>. QED
    BY <2>1, <2>2, <2>3 DEF Progress
<1>4. CASE Forward
  <2>1. n \in Nat /\ chunk \in Nat \ {0} /\ start \in 0..n /\ collected = Rows(0, start) /\ start < n
    BY <1>4, TaskKnown DEF Forward, Progress, Serving
  <2>2. ChunkEnd \in start..n /\ ChunkEnd \in Nat
    BY <2>1, MinPair DEF ChunkEnd
  <2>3. collected' = Rows(0, ChunkEnd)
    <3>1. collected' = Rows(0, start) \o Rows(start, ChunkEnd)
      BY <1>4, <2>1 DEF Forward
    <3>2. PICK e \in Nat : e = ChunkEnd
      BY <2>2
    <3>3. Rows(0, start) \o Rows(start, e) = Rows(0, e)
      <4>1. start \in Nat /\ start <= e
        BY <2>1, <2>2, <3>2
      <4>. QED
        BY <4>1, RowsAppend
    <3>. QED
      BY <3>1, <3>2, <3>3
  <2>. QED
    BY <1>4, <2>1, <2>2, <2>3 DEF Forward, Progress, n
<1>5. CASE Shrink
  <2>1. chunk \in Nat \ {0} /\ chunk > 1 /\ chunk' = chunk \div 2
    BY <1>5 DEF Shrink, Progress
  <2>2. chunk' \in Nat \ {0}
    BY <2>1
  <2>. QED
    BY <1>5, <2>2 DEF Shrink, Progress, n
<1>6. CASE WriteArrays
  <2>1. n \in Nat /\ task.output \in DOMAIN arrays
    BY <1>6, TaskKnown DEF WriteArrays, Goto, Serving, Types
  <2>2. start = n
    BY <1>6, <2>1 DEF WriteArrays, Goto, Progress
  <2>. QED
    BY <1>6, <2>1, <2>2 DEF WriteArrays, Goto, Progress, loop, n, Written
<1>7. CASE WriteManifest
  <2>1. n \in Nat /\ task.output \in DOMAIN manifest
    BY <1>7, TaskKnown DEF WriteManifest, Goto, Serving, Types
  <2>2. Len(Rows(0, n)) = n
    BY <2>1 DEF Rows
  <2>. QED
    BY <1>7, <2>1, <2>2 DEF WriteManifest, Goto, Progress, loop, n, Written
<1>8. CASE MemoryChanges \/ UNCHANGED vars
  BY <1>2, <1>8 DEF MemoryChanges, vars
<1>. QED
  BY <1>1, <1>2, <1>3, <1>4, <1>5, <1>6, <1>7, <1>8, NextSteps, LoopLeftAlone

(* An "ok" is only said of outputs that are complete, and no later step    *)
(* touches them before another answer replaces it.                         *)
LEMMA OkKept ==
  ASSUME Types, Programs, Progress, ProbesSound, CacheSound, OkMeansComplete, [Next]_vars
  PROVE  OkMeansComplete'
<1>1. CASE ~ (status' = "ok" /\ stage' \in {"idle", "exited"})
  BY <1>1 DEF OkMeansComplete
<1>2. CASE stage = "reply" /\ UNCHANGED <<task, files>>
  BY <1>2 DEF OkMeansComplete, Progress, Written, files, n
<1>3. CASE status = "ok" /\ stage \in {"idle", "exited"} /\ UNCHANGED <<task, files>>
  BY <1>3 DEF OkMeansComplete, files, n
<1>4. CASE Starting
  BY <1>1, <1>4, RunStarts DEF Starting
<1>5. CASE Forward \/ Shrink \/ WriteArrays \/ WriteManifest
  BY <1>1, <1>5 DEF Forward, Shrink, WriteArrays, WriteManifest, Goto
<1>6. CASE MemoryChanges \/ UNCHANGED vars
  BY <1>1, <1>3, <1>6 DEF MemoryChanges, vars
<1>. QED
  BY <1>1, <1>2, <1>3, <1>4, <1>5, <1>6, NextSteps, LoopLeftAlone

-----------------------------------------------------------------------------
(* Products of numbers, for what the probes measure.                       *)
LEMMA TimesMonotonic ==
  ASSUME NEW x \in Int, NEW y \in Int, x <= y, NEW k \in Nat
  PROVE  k * x <= k * y
OBVIOUS

LEMMA TimesCancels ==
  ASSUME NEW x \in Int, NEW y \in Int, NEW k \in Nat \ {0}, k * x <= k * y
  PROVE  x <= y
OBVIOUS

LEMMA QuotientExact ==
  ASSUME NEW x \in Nat, NEW k \in Nat \ {0}
  PROVE  (x * k) \div k = x
OBVIOUS

(* Two probes give the need of a sample and what a pass needs whatever its *)
(* size, and the chunk they allow leaves that much free.                   *)
LEMMA TwoProbesFit ==
  ASSUME NEW P \in Nat \ {0}, NEW W \in Nat, NEW used \in Nat, NEW free \in Nat,
         NEW c \in Nat \ {0},
         c <= (free - 2 * (used + W)) \div P
  PROVE  P * c + W <= free
<1>1. PICK q \in Int : q = (free - 2 * (used + W)) \div P /\ P * q <= free - 2 * (used + W)
  BY Quotient
<1>2. P * c <= P * q
  BY <1>1, TimesMonotonic
<1>. QED
  BY <1>1, <1>2

(* One probe gives a share of the free memory for each sample.             *)
LEMMA OneProbeFits ==
  ASSUME NEW P \in Nat \ {0}, NEW W \in Nat, NEW used \in Nat, NEW free \in Nat,
         NEW b1 \in Nat \ {0}, P * b1 + W <= free,
         NEW c \in Nat \ {0},
         c <= (free * b1) \div (used + P * b1 + W)
  PROVE  P * c + W <= free
<1>1. CASE c <= b1
  <2>1. P * c <= P * b1
    BY <1>1, TimesMonotonic
  <2>. QED
    BY <2>1
<1>2. CASE c > b1
  <2>1. PICK first \in Nat \ {0} : first = used + P * b1 + W
    OBVIOUS
  <2>2. PICK q \in Int : q = (free * b1) \div first /\ first * q <= free * b1
    BY <2>1, Quotient
  <2>3. first * c <= first * q
    BY <2>1, <2>2, TimesMonotonic
  <2>4. (P * b1 + W) * c <= first * c
    <3>1. c * (P * b1 + W) <= c * first
      BY <2>1, TimesMonotonic
    <3>. QED
      BY <3>1
  <2>5. W * b1 <= W * c
    BY <1>2, TimesMonotonic
  <2>6. (P * b1 + W) * c = b1 * (P * c) + W * c
    OBVIOUS
  <2>7. b1 * (P * c + W) <= b1 * free
    BY <2>2, <2>3, <2>4, <2>5, <2>6
  <2>. QED
    BY <2>7, TimesCancels
<1>. QED
  BY <1>1, <1>2

(* A streamed chunk fits the memory that was free when it was measured.    *)
LEMMA FitFits ==
  ASSUME Types, ProbesSound, stage = "fit", probe.undisturbed,
         NEW c \in 1..n, c <= Fitting
  PROVE  NeedOf("streaming", c) <= Free
<1>1. n \in Nat \ {0} /\ Free \in 0..Total
  BY TaskKnown, FreeBounds DEF Serving, Probes
<1>2. PICK b1 \in Nat \ {0} : b1 = FirstBatch
  BY <1>1, MinPair, SizesKnown DEF FirstBatch
<1>3. probe.b \in 1..n /\ probe.b >= b1 /\ probe.first \in Nat \ {0} /\ probe.peak \in Int
  BY <1>2 DEF ProbesSound, Probes
<1>4. PICK used \in Nat : used = Total - Free
  BY <1>1, SizesKnown
<1>5. /\ probe.first = used + PerSample * b1 + Window
      /\ probe.peak = used + PerSample * probe.b + Window
      /\ PerSample * probe.b + Window <= Free
  BY <1>1, <1>2, <1>3, <1>4, SizesKnown DEF ProbesSound, NeedOf
<1>6. CASE probe.b > b1
  <2>1. PICK d \in Nat \ {0} : d = probe.b - b1
    BY <1>3, <1>6
  <2>2. probe.peak - probe.first = PerSample * d
    BY <1>3, <1>5, <2>1, SizesKnown
  <2>3. (probe.peak - probe.first) \div (probe.b - b1) = PerSample
    BY <2>1, <2>2, QuotientExact, SizesKnown
  <2>4. Max({1, PerSample}) = PerSample
    BY MaxPair, SizesKnown
  <2>5. Max({0, probe.first - PerSample * b1}) = used + Window
    <3>1. probe.first - PerSample * b1 = used + Window
      BY <1>3, <1>5, SizesKnown
    <3>2. Max({0, used + Window}) = used + Window
      BY MaxPair, SizesKnown
    <3>. QED
      BY <3>1, <3>2
  <2>6. Fitting = (Free - 2 * (used + Window)) \div PerSample
    BY <1>2, <1>6, <2>3, <2>4, <2>5 DEF Fitting, FirstBatch
  <2>. QED
    BY <1>1, <1>3, <1>6, <2>6, TwoProbesFit, SizesKnown DEF NeedOf
<1>7. CASE probe.b = b1
  <2>1. Fitting = (Free * b1) \div probe.first
    BY <1>2, <1>7 DEF Fitting, FirstBatch
  <2>. QED
    BY <1>1, <1>5, <1>7, <2>1, OneProbeFits, SizesKnown DEF NeedOf
<1>. QED
  BY <1>3, <1>6, <1>7

-----------------------------------------------------------------------------
(* An entry of the cache that promises nothing it cannot keep.             *)
EntrySound(e) ==
  /\ e.free = Never \/ (e.chunk # 0 /\ e.free <= Total /\ (e.chunk = 1 \/ NeedOf(e.kind, e.chunk) <= e.free))
  /\ e.kind = "streaming" => cupy /\ (e.chunk <= Tiny \/ e.chunk <= e.batch)

(* What is kept of a chunk that a step of the loop or of a probe leaves.   *)
LEMMA CacheEntryKept ==
  ASSUME Types, CacheSound, stage \in Loaded, UNCHANGED <<task, cupy>>,
         NEW e, EntrySound(e), backends'[task.onnx] = e,
         DOMAIN backends' = DOMAIN backends,
         \A m \in DOMAIN backends : m # task.onnx => backends'[m] = backends[m]
  PROVE  CacheSound'
<1>1. \A m \in DOMAIN backends : EntrySound(backends'[m])
  BY DEF CacheSound, EntrySound
<1>. QED
  BY <1>1 DEF CacheSound, EntrySound

LEMMA CacheKept ==
  ASSUME Types, Programs, Progress, CacheSound, ChunkFromCache, ProbesSound, [Next]_vars
  PROVE  CacheSound'
<1>1. CASE UNCHANGED <<backends, cupy>>
  BY <1>1 DEF CacheSound
<1>2. CASE MakeBackend
  <2>1. PICK kind \in {"eager", "streaming", "ort"} :
          /\ backends' = [m \in DOMAIN backends \cup {task.onnx} |->
                 IF m = task.onnx THEN [kind |-> kind, chunk |-> 0, batch |-> 0, free |-> Never]
                                  ELSE backends[m]]
          /\ kind = "streaming" => cupy
    BY <1>2 DEF MakeBackend, Kinds
  <2>. QED
    BY <1>2, <2>1, SizesKnown DEF MakeBackend, process, CacheSound
<1>3. ASSUME stage \in Loaded
      PROVE  /\ Backend \in Entry /\ EntrySound(Backend)
             /\ n \in Nat \ {0} /\ Batch \in Nat \ {0} /\ Free \in 0..Total
  BY <1>3, TaskKnown, FreeBounds DEF Loaded, Types, Backend, CacheSound, EntrySound
<1>4. ASSUME stage \in Loaded, NEW c \in Nat \ {0}, NEW f \in Nat, Cache(c, f), UNCHANGED <<task, process>>,
             EntrySound([kind |-> Backend.kind, chunk |-> c, batch |-> Batch, free |-> f])
      PROVE  CacheSound'
  BY <1>4, CacheStep, CacheEntryKept DEF process
<1>5. CASE NoMeasure
  <2>1. stage \in Loaded /\ Backend.kind # "streaming"
    BY <1>3, <1>5 DEF NoMeasure, Loaded, Serving, EntrySound
  <2>2. EntrySound([kind |-> Backend.kind, chunk |-> n, batch |-> Batch, free |-> Never])
    BY <2>1 DEF EntrySound
  <2>. QED
    BY <1>3, <1>4, <1>5, <2>1, <2>2, SizesKnown DEF NoMeasure
<1>6. CASE FitStreaming
  <2>1. stage = "fit" /\ stage \in Loaded
    BY <1>6 DEF FitStreaming, Loaded, Serving, Probes
  <2>2. PICK c : c = Capped(Max({1, Min({n, Fitting})}))
    OBVIOUS
  <2>3. c \in 1..n /\ c <= Batch /\ (c = 1 \/ c <= Fitting)
    BY <2>1, <2>2, FitTyped
  <2>4. PICK f : f = MeasuredAt(Free)
    OBVIOUS
  <2>5. f = Never \/ (f = Free /\ probe.undisturbed)
    BY <2>4 DEF MeasuredAt
  <2>6. Backend.kind = "streaming" /\ cupy
    BY <1>3, <2>1 DEF ProbesSound, EntrySound
  <2>7. f = Never \/ (f <= Total /\ (c = 1 \/ NeedOf("streaming", c) <= f))
    BY <1>3, <2>1, <2>3, <2>5, FitFits
  <2>8. f \in Nat
    BY <1>3, <2>1, <2>5, SizesKnown
  <2>9. EntrySound([kind |-> Backend.kind, chunk |-> c, batch |-> Batch, free |-> f])
    BY <1>3, <2>1, <2>3, <2>6, <2>7 DEF EntrySound
  <2>. QED
    BY <1>3, <1>4, <1>6, <2>1, <2>2, <2>3, <2>4, <2>8, <2>9 DEF FitStreaming
<1>7. CASE Settle
  <2>1. stage = "grow" /\ stage \in Loaded
    BY <1>7 DEF Settle, Loaded, Serving, Probes
  <2>2. /\ probe.b \in 1..n /\ Backend.kind # "streaming" /\ probe.free \in 0..Total
        /\ probe.undisturbed => probe.free = Free /\ (Backend.kind = "eager" => NeedOf("eager", probe.b) <= Free)
    BY <2>1 DEF ProbesSound, Probes
  <2>3. PICK f : f = MeasuredAt(probe.free)
    OBVIOUS
  <2>4. f = Never \/ (f = probe.free /\ probe.undisturbed /\ Backend.kind # "ort")
    BY <2>3 DEF MeasuredAt
  <2>5. f \in Nat /\ (f = Never \/ (f <= Total /\ NeedOf(Backend.kind, probe.b) <= f))
    BY <1>3, <2>1, <2>2, <2>4, SizesKnown DEF Entry
  <2>6. EntrySound([kind |-> Backend.kind, chunk |-> probe.b, batch |-> Batch, free |-> f])
    BY <1>3, <2>1, <2>2, <2>5 DEF EntrySound
  <2>. QED
    BY <1>3, <1>4, <1>7, <2>1, <2>2, <2>3, <2>5, <2>6 DEF Settle
<1>8. CASE ProbeOutOfMemory
  <2>1. stage \in Probes /\ stage \in Loaded
    BY <1>8 DEF ProbeOutOfMemory, Probing, Loaded, Serving, Probes
  <2>2. PICK c \in Nat \ {0} : c = Min({n, Tiny}) /\ c <= Tiny
    BY <1>3, <2>1, MinPair, SizesKnown
  <2>3. EntrySound([kind |-> Backend.kind, chunk |-> c, batch |-> Batch, free |-> Never])
    BY <1>3, <2>1, <2>2 DEF EntrySound
  <2>. QED
    BY <1>4, <1>8, <2>1, <2>2, <2>3, SizesKnown DEF ProbeOutOfMemory
<1>9. CASE Shrink
  <2>1. stage = "run" /\ stage \in Loaded /\ chunk \in Nat /\ chunk > 1 /\ chunk <= Backend.chunk
    BY <1>9 DEF Shrink, Loaded, Serving, Progress, ChunkFromCache
  <2>2. PICK c \in Nat \ {0} : c = chunk \div 2 /\ c <= Backend.chunk /\ Backend.chunk > 1
    BY <1>3, <2>1 DEF Entry
  <2>3. PerSample * c <= PerSample * Backend.chunk
    BY <1>3, <2>1, <2>2, TimesMonotonic, SizesKnown DEF Entry
  <2>4. NeedOf(Backend.kind, c) <= NeedOf(Backend.kind, Backend.chunk)
    BY <1>3, <2>1, <2>2, <2>3, SizesKnown DEF NeedOf, Entry
  <2>5. PICK e : e = [kind |-> Backend.kind, chunk |-> c, batch |-> Backend.batch, free |-> Backend.free]
    OBVIOUS
  <2>6. e.free = Never \/ (e.free <= Total /\ NeedOf(e.kind, e.chunk) <= e.free)
    <3>1. NeedOf(Backend.kind, c) \in Int /\ NeedOf(Backend.kind, Backend.chunk) \in Int
          /\ Backend.free \in Int
      BY <1>3, <2>1, <2>2, SizesKnown DEF NeedOf, Entry
    <3>. QED
      BY <1>3, <2>1, <2>2, <2>4, <2>5, <3>1 DEF EntrySound
  <2>7. e.kind = "streaming" => cupy /\ (e.chunk <= Tiny \/ e.chunk <= e.batch)
    BY <1>3, <2>1, <2>2, <2>5, SizesKnown DEF EntrySound, Entry
  <2>8. EntrySound(e)
    BY <2>2, <2>5, <2>6, <2>7 DEF EntrySound
  <2>. QED
    BY <1>9, <2>1, <2>2, <2>5, <2>8, ShrinkStep, CacheEntryKept DEF Shrink, process
<1>10. CASE FixedBatch \/ CachedChunk
  BY <1>1, <1>10 DEF FixedBatch, CachedChunk, process
<1>11. CASE Failing
  BY <1>1, <1>11 DEF Failing, LoadFails, ProbeFails, ForwardFails, WriteFails, process
<1>12. CASE Preparing
  BY <1>1, <1>2, <1>12 DEF Preparing, Ready, LoadInputs, CachedBackend, StartProbes, FirstProbe, SecondProbe,
     Improves, process
<1>13. CASE Listening
  BY <1>1, <1>13 DEF Listening, ReadMalformed, ReadIncomplete, ReadExit, ReadTask, ReadArguments, process
<1>14. CASE Forward \/ WriteArrays \/ WriteManifest \/ Reply
  BY <1>1, <1>14 DEF Forward, WriteArrays, WriteManifest, Reply, process
<1>15. CASE MemoryChanges \/ UNCHANGED vars
  BY <1>1, <1>15 DEF MemoryChanges, vars, process
<1>. QED
  BY <1>5, <1>6, <1>7, <1>8, <1>9, <1>10, <1>11, <1>12, <1>13, <1>14, <1>15, NextSteps DEF Starting

(* The chunk of the loop is the cached one, or less.                       *)
LEMMA ChunkKept ==
  ASSUME Types, Programs, Progress, CacheSound, ChunkFromCache, ProbesSound, [Next]_vars
  PROVE  ChunkFromCache'
<1>1. CASE Starting
  BY <1>1, RunStarts DEF Starting, ChunkFromCache
<1>2. CASE Failing \/ Preparing \/ Listening \/ Reply
  BY <1>2, LoopLeftAlone DEF ChunkFromCache
<1>3. CASE Shrink
  <2>1. PICK c \in Nat : c = chunk \div 2 /\ stage \in Loaded
    BY <1>3 DEF Shrink, Loaded, Serving, Progress
  <2>2. KeepShrunk(c)
    BY <1>3, <2>1 DEF Shrink
  <2>3. backends'[task.onnx] = [kind |-> Backend.kind, chunk |-> c, batch |-> Backend.batch,
                                free |-> Backend.free]
    BY <2>1, <2>2, ShrinkStep
  <2>. QED
    BY <1>3, <2>1, <2>3 DEF Shrink, ChunkFromCache, Backend
<1>4. CASE Forward \/ MemoryChanges \/ UNCHANGED vars
  BY <1>4 DEF Forward, MemoryChanges, vars, process, loop, ChunkFromCache, Backend
<1>5. CASE WriteArrays \/ WriteManifest
  BY <1>5 DEF WriteArrays, WriteManifest, Goto, ChunkFromCache
<1>. QED
  BY <1>1, <1>2, <1>3, <1>4, <1>5, NextSteps

(* Probing measures what it says it does.                                  *)
LEMMA ProbesKept ==
  ASSUME Types, Programs, Progress, CacheSound, ProbesSound, [Next]_vars
  PROVE  ProbesSound'
<1>1. CASE UNCHANGED <<stage, task, backends, probe, held, resident>>
  BY <1>1 DEF ProbesSound, n, Backend, FirstBatch, Free
<1>2. ASSUME stage' \notin Probes, probe' \in {probe, NoProbe}
      PROVE  ProbesSound'
  <2>1. NoProbe \in Measure
    BY DEF NoProbe, Measure
  <2>. QED
    BY <1>2, <2>1 DEF ProbesSound, Probes
<1>3. ASSUME stage \in Loaded
      PROVE  /\ n \in Nat \ {0} /\ Free \in 0..Total /\ FirstBatch \in 1..n
             /\ Backend \in Entry
             /\ \A b \in Nat \ {0} : /\ Need(b) = NeedOf(Backend.kind, b)
                                    /\ Need(b) \in Nat \ {0} /\ Peak(b) \in Nat \ {0}
                                    /\ Peak(b) = Total - Free + NeedOf(Backend.kind, b)
  <2>1. n \in Nat \ {0} /\ Free \in 0..Total
    BY <1>3, TaskKnown, FreeBounds DEF Loaded
  <2>2. FirstBatch \in 1..n
    BY <2>1, MinPair, SizesKnown DEF FirstBatch
  <2>3. Backend \in Entry
    BY <1>3 DEF Types, Backend
  <2>4. ASSUME NEW b \in Nat \ {0} PROVE PerSample * b \in Nat \ {0}
    BY SizesKnown
  <2>. QED
    BY <2>1, <2>2, <2>3, <2>4, SizesKnown DEF Need, NeedOf, Peak
<1>4. CASE StartProbes
  <2>1. stage \in Loaded /\ stage' = "probe" /\ UNCHANGED <<task, backends>> /\ Backend.chunk = 0
    BY <1>4 DEF StartProbes, Goto, Loaded, Serving
  <2>2. PICK b : b = Min({n, IF Backend.kind = "streaming" THEN Probe1 ELSE EagerProbe})
    OBVIOUS
  <2>3. b \in 1..n
    <3>1. PICK first \in Nat \ {0} : first = IF Backend.kind = "streaming" THEN Probe1 ELSE EagerProbe
      BY SizesKnown
    <3>2. b = IF n <= first THEN n ELSE first
      BY <1>3, <2>1, <2>2, <3>1, MinPair
    <3>. QED
      BY <1>3, <2>1, <3>1, <3>2
  <2>4. Backend.kind = "streaming" => b = FirstBatch
    BY <2>2 DEF FirstBatch
  <2>5. probe' = [b |-> b, first |-> 0, peak |-> 0, free |-> 0, undisturbed |-> TRUE]
    BY <1>4, <2>2 DEF StartProbes, NoProbe
  <2>6. probe' \in Measure /\ probe'.b = b
    BY <1>3, <2>1, <2>3, <2>5 DEF Measure
  <2>. QED
    BY <2>1, <2>3, <2>4, <2>6 DEF ProbesSound, n, Backend, FirstBatch, Probes
<1>5. CASE FirstProbe
  <2>1. stage = "probe" /\ stage \in Loaded /\ UNCHANGED <<task, backends, memory>> /\ Backend.chunk = 0
    BY <1>5 DEF FirstProbe, Loaded, Serving, Probes, ProbesSound
  <2>2. /\ probe.b \in 1..n /\ probe \in Measure
        /\ Backend.kind = "streaming" => probe.b = FirstBatch
    BY <2>1 DEF ProbesSound, Probes
  <2>3. PICK p : p = Peak(probe.b)
    OBVIOUS
  <2>4. p \in Nat \ {0} /\ p = Total - Free + NeedOf(Backend.kind, probe.b)
    BY <1>3, <2>1, <2>2, <2>3
  <2>5. NeedOf(Backend.kind, probe.b) <= Free
    BY <1>3, <1>5, <2>1, <2>2 DEF FirstProbe, Outcomes
  <2>6. PICK free \in 0..Total : free = Free
    BY <1>3, <2>1
  <2>7. probe' = [b |-> probe.b, first |-> p, peak |-> p, free |-> free, undisturbed |-> probe.undisturbed]
    <3>1. PICK q \in Measure : q = probe
      BY <2>2
    <3>2. probe' = [[[q EXCEPT !.first = p] EXCEPT !.peak = p] EXCEPT !.free = free]
      BY <1>5, <2>3, <2>6, <3>1 DEF FirstProbe
    <3>. QED
      BY <3>1, <3>2 DEF Measure
  <2>8. probe' \in Measure /\ probe'.b = probe.b /\ probe'.first = p /\ probe'.peak = p /\ probe'.free = free
    BY <2>2, <2>4, <2>6, <2>7, SizesKnown DEF Measure
  <2>9. stage' \in {"grow", "probe2", "fit"} /\ (stage' = "grow" <=> Backend.kind # "streaming")
    BY <1>5 DEF FirstProbe
  <2>10. n' = n /\ Backend' = Backend /\ Free' = Free /\ FirstBatch' = FirstBatch
    BY <2>1 DEF n, Backend, Free, FirstBatch, memory
  <2>11. CASE stage' = "grow"
    BY <1>3, <2>1, <2>2, <2>5, <2>6, <2>8, <2>9, <2>10, <2>11 DEF ProbesSound, Probes
  <2>12. CASE stage' \in {"probe2", "fit"}
    <3>1. Backend.kind = "streaming" /\ probe.b = FirstBatch
      BY <2>2, <2>9, <2>12
    <3>2. stage' = "probe2" => Min({n, Probe2}) >= FirstBatch
      <4>1. PICK k : k = Min({n, Probe2})
        OBVIOUS
      <4>2. k = IF n <= Probe2 THEN n ELSE Probe2
        BY <1>3, <2>1, <4>1, MinPair, SizesKnown
      <4>3. stage' = "probe2" => k > probe.b
        BY <1>5, <3>1, <4>1 DEF FirstProbe
      <4>. QED
        BY <1>3, <2>1, <2>2, <3>1, <4>1, <4>2, <4>3, SizesKnown
    <3>. QED
      BY <1>3, <2>1, <2>2, <2>4, <2>5, <2>8, <2>10, <2>12, <3>1, <3>2 DEF ProbesSound, Probes
  <2>. QED
    BY <2>9, <2>11, <2>12
<1>6. CASE SecondProbe
  <2>1. /\ stage = "probe2" /\ stage' = "fit" /\ stage \in Loaded /\ UNCHANGED <<task, backends, memory>>
        /\ Backend.chunk = 0
    BY <1>6 DEF SecondProbe, Goto, Loaded, Serving, Probes, ProbesSound
  <2>2. PICK b : b = Min({n, Probe2})
    OBVIOUS
  <2>3. b \in 1..n
    <3>1. b = IF n <= Probe2 THEN n ELSE Probe2
      BY <1>3, <2>1, <2>2, MinPair, SizesKnown
    <3>. QED
      BY <1>3, <2>1, <3>1, SizesKnown
  <2>4. /\ probe \in Measure /\ Backend.kind = "streaming" /\ probe.first \in Nat \ {0}
        /\ probe.undisturbed => probe.first = Total - Free + NeedOf("streaming", FirstBatch)
        /\ b >= FirstBatch
    BY <2>1, <2>2 DEF ProbesSound
  <2>5. PICK p : p = Peak(b)
    OBVIOUS
  <2>6. p \in Nat \ {0} /\ p = Total - Free + NeedOf("streaming", b)
    BY <1>3, <2>1, <2>3, <2>4, <2>5
  <2>7. NeedOf("streaming", b) <= Free
    BY <1>3, <1>6, <2>1, <2>2, <2>3, <2>4 DEF SecondProbe, Outcomes
  <2>8. /\ probe' \in Measure /\ probe'.b = b /\ probe'.first = probe.first /\ probe'.peak = p
        /\ probe'.undisturbed = probe.undisturbed
    <3>1. PICK q \in Measure : q = probe
      BY <2>4
    <3>2. probe' = [[q EXCEPT !.b = b] EXCEPT !.peak = p]
      BY <1>6, <2>2, <2>5, <3>1 DEF SecondProbe
    <3>3. b \in Nat /\ p \in Int
      BY <1>3, <2>1, <2>3, <2>6
    <3>4. PICK r \in Measure : r = [q EXCEPT !.b = b]
      BY <3>1, <3>3 DEF Measure
    <3>5. r.b = b /\ r.first = q.first /\ r.undisturbed = q.undisturbed
      BY <3>1, <3>4 DEF Measure
    <3>6. probe' = [r EXCEPT !.peak = p]
      BY <3>2, <3>4
    <3>. QED
      BY <3>1, <3>3, <3>4, <3>5, <3>6 DEF Measure
  <2>9. n' = n /\ Backend' = Backend /\ Free' = Free /\ FirstBatch' = FirstBatch
    BY <2>1 DEF n, Backend, Free, FirstBatch, memory
  <2>. QED
    BY <2>1, <2>3, <2>4, <2>6, <2>7, <2>8, <2>9 DEF ProbesSound, Probes
<1>7. CASE Improves
  <2>1. /\ stage = "grow" /\ stage' = "grow" /\ stage \in Loaded /\ UNCHANGED <<task, backends, memory>>
        /\ Backend.chunk = 0 /\ Backend.kind # "streaming"
    BY <1>7 DEF Improves, Loaded, Serving, Probes, ProbesSound
  <2>2. /\ probe \in Measure /\ probe.b \in 1..n /\ probe.free \in 0..Total
        /\ probe.undisturbed => probe.free = Free
    BY <2>1 DEF ProbesSound, Probes
  <2>3. PICK b : b = 2 * probe.b
    OBVIOUS
  <2>4. b \in 1..n
    BY <1>3, <1>7, <2>1, <2>2, <2>3 DEF Improves
  <2>5. NeedOf(Backend.kind, b) <= Free
    BY <1>3, <1>7, <2>1, <2>3, <2>4 DEF Improves, Outcomes
  <2>6. /\ probe' \in Measure /\ probe'.b = b /\ probe'.free = probe.free
        /\ probe'.undisturbed = probe.undisturbed
    BY <1>3, <1>7, <2>1, <2>2, <2>3, <2>4 DEF Improves, Measure
  <2>7. n' = n /\ Backend' = Backend /\ Free' = Free
    BY <2>1 DEF n, Backend, Free, memory
  <2>. QED
    BY <2>1, <2>2, <2>4, <2>5, <2>6, <2>7 DEF ProbesSound, Probes
<1>8. CASE MemoryChanges
  <2>1. UNCHANGED <<stage, task, backends>>
    BY <1>8 DEF MemoryChanges
  <2>2. /\ probe' \in Measure /\ probe'.b = probe.b /\ probe'.first = probe.first /\ probe'.peak = probe.peak
        /\ probe'.free = probe.free /\ probe'.undisturbed = FALSE
    BY <1>8 DEF MemoryChanges, ProbesSound, Measure
  <2>. QED
    BY <2>1, <2>2 DEF ProbesSound, n, Backend, FirstBatch
<1>9. CASE Starting
  BY <1>2, <1>9, RunStarts DEF Starting, CachedChunk, NoMeasure, FitStreaming, Settle, ProbeOutOfMemory,
     FixedBatch, Probes
<1>10. CASE Failing \/ Reply
  BY <1>2, <1>10 DEF Failing, LoadFails, ProbeFails, ForwardFails, WriteFails, Reply, Fail, Forget, Probes
<1>11. CASE Ready \/ LoadInputs \/ CachedBackend \/ MakeBackend
  BY <1>2, <1>11 DEF Ready, LoadInputs, CachedBackend, MakeBackend, AfterBackend, Goto, Probes
<1>12. CASE ReadMalformed \/ ReadIncomplete \/ ReadExit
  BY <1>2, <1>12 DEF ReadMalformed, ReadIncomplete, ReadExit, Goto, Reading, Probes
<1>13. ASSUME NEW t \in Tasks, ReadTask(t) \/ ReadArguments(t) PROVE ProbesSound'
  BY <1>2, <1>13 DEF ReadTask, ReadArguments, Goto, Probes
<1>14. CASE Forward \/ Shrink \/ WriteArrays \/ WriteManifest
  BY <1>2, <1>14 DEF Forward, Shrink, WriteArrays, WriteManifest, Goto, Probes
<1>15. CASE UNCHANGED vars
  BY <1>1, <1>15 DEF vars, memory
<1>. QED
  BY <1>4, <1>5, <1>6, <1>7, <1>8, <1>9, <1>10, <1>11, <1>12, <1>13, <1>14, <1>15, NextSteps
     DEF Preparing, Listening

-----------------------------------------------------------------------------
(* The programs start with nothing loaded and nothing said.                *)
LEMMA InitIInv ==
  ASSUME Init
  PROVE  IInv
<1>1. /\ stage = "init" /\ status = "none" /\ DOMAIN backends = {} /\ probe = NoProbe
      /\ taken = 0 /\ emitted = 0
  BY DEF Init
<1>2. Types /\ Programs
  BY SizesKnown DEF Init, Types, Programs, Stages, Serving, Loaded, Probes
<1>3. Progress /\ CacheSound /\ ChunkFromCache
  BY <1>1 DEF Progress, CacheSound, ChunkFromCache
<1>4. ProbesSound
  BY <1>1 DEF ProbesSound, Probes, NoProbe, Measure
<1>6. RepliesMatchTasks
  <2>1. PICK i, j : i = (IF stage = "init" THEN 0 ELSE 1) /\ j = (IF Busy THEN 1 ELSE 0)
    OBVIOUS
  <2>2. i = 0 /\ j = 0
    BY <1>1, <2>1 DEF Busy
  <2>3. emitted = taken + i - j
    BY <1>1, <2>2
  <2>. QED
    BY <2>1, <2>3 DEF RepliesMatchTasks
<1>7. OkMeansComplete
  BY <1>1 DEF OkMeansComplete
<1>. QED
  BY <1>2, <1>3, <1>4, <1>6, <1>7 DEF IInv

(* The inductive invariant of the inference programs (infer_worker.py,     *)
(* infer.py).                                                              *)
THEOREM WorkerInvariant == Spec => []IInv
<1>1. Init => IInv
  BY InitIInv
<1>2. IInv /\ [Next]_vars => IInv'
  BY TypesKept, ProgramsKept, RepliesKept, ProgressKept, OkKept, CacheKept, ChunkKept, ProbesKept DEF IInv
<1>. QED
  BY <1>1, <1>2, PTL DEF Spec

(* Every line is answered once, whatever fails on the way                  *)
(* (infer_worker.py:19).                                                   *)
THEOREM WorkerReplies == Spec => []RepliesMatchTasks
<1>1. IInv => RepliesMatchTasks
  BY DEF IInv
<1>. QED
  BY <1>1, WorkerInvariant, PTL

(* A reported success has every sample of its input on disk, once and in   *)
(* order, however often a chunk was tried again (_infer_all).              *)
THEOREM WorkerOkMeansComplete == Spec => []OkMeansComplete
<1>1. IInv => OkMeansComplete
  BY DEF IInv
<1>. QED
  BY <1>1, WorkerInvariant, PTL

(* What the loop runs is no larger than what the cache promises.           *)
LEMMA ChunkOfLoop ==
  ASSUME IInv, stage = "run", program = "worker"
  PROVE  /\ Backend \in Entry /\ EntrySound(Backend) /\ chunk \in Nat \ {0} /\ chunk <= Backend.chunk
         /\ Free \in 0..Total
BY FreeBounds DEF IInv, Types, Loaded, Serving, Backend, CacheSound, EntrySound, Progress, ChunkFromCache

(* A chunk that was measured undisturbed runs as long as no less memory is *)
(* free than then: the two probes and the one, and the doubling search of  *)
(* an eager model (_safe_chunk).                                           *)
THEOREM WorkerChunksFit == Spec => []MeasuredChunkFits
<1>1. ASSUME IInv, stage = "run", program = "worker", Free >= Backend.free
      PROVE  chunk = 1 \/ Need(chunk) <= Free
  <2>1. /\ Backend \in Entry /\ EntrySound(Backend) /\ chunk \in Nat \ {0} /\ chunk <= Backend.chunk
        /\ Free \in 0..Total
    BY <1>1, ChunkOfLoop
  <2>2. Backend.chunk = 1 \/ NeedOf(Backend.kind, Backend.chunk) <= Backend.free
    BY <1>1, <2>1, SizesKnown DEF EntrySound, Entry, Never
  <2>3. PerSample * chunk <= PerSample * Backend.chunk
    BY <2>1, TimesMonotonic, SizesKnown DEF Entry
  <2>4. Need(chunk) <= NeedOf(Backend.kind, Backend.chunk)
    BY <2>1, <2>3, SizesKnown DEF Need, NeedOf, Entry
  <2>5. Need(chunk) \in Int /\ NeedOf(Backend.kind, Backend.chunk) \in Int /\ Backend.free \in Int
    BY <2>1, SizesKnown DEF Need, NeedOf, Entry
  <2>. QED
    BY <1>1, <2>1, <2>2, <2>4, <2>5 DEF Entry
<1>2. IInv => MeasuredChunkFits
  BY <1>1 DEF MeasuredChunkFits
<1>. QED
  BY <1>2, WorkerInvariant, PTL

(* A streamed model is fed no more samples at a time than the batch size   *)
(* of the task that measured it (infer_worker.py:221).                     *)
THEOREM WorkerChunksCapped == Spec => []StreamedChunksCapped
<1>1. ASSUME IInv, stage = "run", program = "worker", Backend.kind = "streaming"
      PROVE  chunk <= Max({Tiny, Backend.batch})
  <2>1. /\ Backend \in Entry /\ EntrySound(Backend) /\ chunk \in Nat \ {0} /\ chunk <= Backend.chunk
    BY <1>1, ChunkOfLoop
  <2>2. chunk <= Tiny \/ chunk <= Backend.batch
    BY <1>1, <2>1, SizesKnown DEF EntrySound, Entry
  <2>3. PICK k \in Nat : k = Backend.batch
    BY <2>1 DEF Entry
  <2>4. Max({Tiny, k}) = IF Tiny >= k THEN Tiny ELSE k
    BY <2>3, MaxPair, SizesKnown
  <2>. QED
    BY <2>1, <2>2, <2>3, <2>4, SizesKnown
<1>2. IInv => StreamedChunksCapped
  BY <1>1 DEF StreamedChunksCapped
<1>. QED
  BY <1>2, WorkerInvariant, PTL
=============================================================================
