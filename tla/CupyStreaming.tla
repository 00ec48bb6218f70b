--------------------------- MODULE CupyStreaming ---------------------------
(***************************************************************************)
(* CupyRuntime._run_streaming (C3/src/runtime/cupy_runtime.py) on the      *)
(* schedule of _runtime_schedule (C3/src/scheduler/memory.py).  The host   *)
(* walks the nodes and enqueues work on two CUDA streams, which execute    *)
(* it in order and only wait for each other where the host told them to.   *)
(* A weight lives in a block of the copy stream's memory pool; the block   *)
(* goes back when the last name in env that refers to it goes, on the      *)
(* host, whatever the device is still doing.  Activations come from the    *)
(* pool of the main stream, whose order protects them; they are names here *)
(* and no memory.  Nodes are numbered from 1.                              *)
(***************************************************************************)
EXTENDS Integers, FiniteSets, Sequences

CONSTANTS
  Graphs,    (* nodes in topological order, graph inputs and outputs         *)
  Weight,    (* the float initializers no node produces                      *)
  Depth,     (* D: how many nodes the copy stream runs ahead                 *)
  NoWeight,
  MaxRuns    (* bound: calls of run, of which any may fail and be repeated   *)

Stream == {"main", "copy"}

ASSUME StreamingAssumption ==
  /\ Depth \in Nat /\ MaxRuns \in Nat
  /\ NoWeight \notin Weight /\ IsFiniteSet(Weight)
  /\ \A g \in Graphs :
       /\ g.inputs \cap Weight = {}
       /\ g.outputs \subseteq g.inputs \cup UNION {g.nodes[p].outputs : p \in DOMAIN g.nodes}
       /\ Len(g.nodes) \in Nat \ {0} /\ DOMAIN g.nodes = 1..Len(g.nodes)
       /\ \A p \in DOMAIN g.nodes :
            LET known == Weight \cup g.inputs \cup UNION {g.nodes[q].outputs : q \in 1..(p - 1)} IN
            /\ g.nodes[p].op \in {"compute", "Identity", "view"}
            /\ g.nodes[p].inputs \subseteq known /\ g.nodes[p].outputs \cap known = {}
            /\ g.nodes[p].op # "compute" => Cardinality(g.nodes[p].inputs) = 1

VARIABLES
  graph,
  run,       (* the calls of run so far                                      *)
  pc, node,  (* where the host is, and at which node of the loop             *)
  fetch,     (* the node whose weights prefetch is asked for                 *)
  pending,   (* the weights prefetch still has to upload                     *)
  env,       (* name to the array it refers to: its block and, for a weight  *)
             (* or a view of one, which weight the array is meant to hold    *)
  upEvt,     (* node to the event recorded after its uploads                 *)
  lastCmp,   (* the event recorded after the latest kernel; none: <<>>       *)
  queue,     (* of each stream, the operations it has not finished           *)
  issued,    (* of each stream, the operations enqueued so far               *)
  data,      (* of each block, the weight that was copied into it last       *)
  pool,      (* the blocks of the copy stream's pool, numbered from 1        *)
  freeBlocks (* those of them that no array uses                             *)

hostVars == <<graph, run, pc, node, fetch, pending, env, upEvt, lastCmp>>
poolVars == <<pool, freeBlocks>>
vars == <<hostVars, queue, issued, data, poolVars>>

(* An event is the number of operations its stream must have finished.     *)
Fired(event) == issued[event.stream] - Len(queue[event.stream]) >= event.count

(* What lives in the main stream's pool.                                   *)
Activation == [block |-> 0, weight |-> NoWeight]

NoEntry == [x \in {} |-> 0]
Without(f, X) == [x \in DOMAIN f \ X |-> f[x]]
Nodes == DOMAIN graph.nodes

-----------------------------------------------------------------------------
(* The schedule.  A weight is used where it, or an Identity of it, is read.*)
Alias(t) ==
  {t} \cup UNION {graph.nodes[p].inputs \cap Weight :
                    p \in {q \in Nodes : graph.nodes[q].op = "Identity" /\ t \in graph.nodes[q].outputs}}

UsesOf(w) == {p \in Nodes : \E t \in graph.nodes[p].inputs : w \in Alias(t)}

First(S) == CHOOSE p \in S : \A q \in S : p <= q
Last(S) == CHOOSE p \in S : \A q \in S : q <= p

Used == {w \in Weight : UsesOf(w) # {}}
UploadsBefore(p) == {w \in Used : First(UsesOf(w)) = p}

Produced == UNION {graph.nodes[p].outputs : p \in Nodes}
LifetimeOf(t) == {p \in Nodes : t \in graph.nodes[p].inputs \cup graph.nodes[p].outputs}

(* Mutant: a weight is freed after its first use. *)
FreesAfterFirst(p) ==
  {t \in Produced \ graph.outputs : Last(LifetimeOf(t)) = p}
    \cup {w \in Used : First(UsesOf(w)) = p}

(* Mutant: weights stay. *)
FreesAfterActivations(p) == {t \in Produced \ graph.outputs : Last(LifetimeOf(t)) = p}

(* Dead intermediates, graph outputs apart, and weights past their last use.*)
FreesAfter(p) ==
  {t \in Produced \ graph.outputs : Last(LifetimeOf(t)) = p}
    \cup {w \in Used : Last(UsesOf(w)) = p}

-----------------------------------------------------------------------------
Init ==
  /\ graph \in Graphs
  /\ run = 0 /\ pc = "idle" /\ node = 0 /\ fetch = 0 /\ pending = {}
  /\ env = NoEntry /\ upEvt = NoEntry /\ lastCmp = <<>>
  /\ queue = [s \in Stream |-> <<>>]
  /\ issued = [s \in Stream |-> 0]
  /\ data = NoEntry
  /\ pool = {} /\ freeBlocks = {}

Enqueue(s, ops) ==
  /\ queue' = [queue EXCEPT ![s] = @ \o ops]
  /\ issued' = [issued EXCEPT ![s] = @ + Len(ops)]

Record(s) == [stream |-> s, count |-> issued'[s]]

(* run: the arrays of the previous call are gone, the work of a failed one *)
(* may still be enqueued.                                                  *)
Begin ==
  /\ pc \in {"idle", "returned", "raised"} /\ run < MaxRuns
  /\ run' = run + 1
  /\ env' = [t \in graph.inputs |-> Activation]
  /\ upEvt' = NoEntry /\ lastCmp' = <<>>
  /\ pc' = "prefetch" /\ node' = 0 /\ fetch' = 1 /\ pending' = {}
  /\ freeBlocks' = pool
  /\ UNCHANGED <<graph, queue, issued, data, pool>>

-----------------------------------------------------------------------------
(* prefetch(k): of the first D + 1 nodes before the loop, then of the node *)
(* D + 1 ahead.                                                            *)
Fetched ==
  IF node > 0 THEN pc' = "launch" /\ UNCHANGED <<node, fetch>>
  ELSE IF fetch <= Depth THEN pc' = "prefetch" /\ fetch' = fetch + 1 /\ UNCHANGED node
  ELSE pc' = "wait" /\ node' = 1 /\ UNCHANGED fetch

ToFetch == IF fetch \in Nodes THEN UploadsBefore(fetch) \ DOMAIN env ELSE {}

FetchNothing ==
  /\ pc = "prefetch" /\ ToFetch = {}
  /\ Fetched
  /\ UNCHANGED <<graph, run, pending, env, upEvt, lastCmp, queue, issued, data, poolVars>>

(* Mutant: the copies do not wait for any kernel. *)
CopiesWaitForNothing == <<>>

(* Mutant: the copies wait for the kernel that is launched next. *)
CopiesWaitForNext ==
  <<[op |-> "wait", event |-> [stream |-> "main", count |-> issued["main"] + 1]]>>

(* The copy stream waits for the latest kernel: an earlier one may still   *)
(* read a block that is about to be used again.                            *)
CopiesWait == [k \in DOMAIN lastCmp |-> [op |-> "wait", event |-> lastCmp[k]]]

StartUploads ==
  /\ pc = "prefetch" /\ ToFetch # {}
  /\ Enqueue("copy", CopiesWait)
  /\ pending' = ToFetch
  /\ pc' = "upload"
  /\ UNCHANGED <<graph, run, node, fetch, env, upEvt, lastCmp, data, poolVars>>

(* _upload_weight: a free block of the pool if there is one.               *)
Upload(w) ==
  /\ pc = "upload" /\ w \in pending
  /\ \E b \in IF freeBlocks # {} THEN freeBlocks ELSE {Cardinality(pool) + 1} :
       /\ pool' = pool \cup {b}
       /\ freeBlocks' = freeBlocks \ {b}
       /\ env' = [t \in DOMAIN env \cup {w} |->
                    IF t = w THEN [block |-> b, weight |-> w] ELSE env[t]]
       /\ Enqueue("copy", <<[op |-> "copy", block |-> b, weight |-> w]>>)
  /\ pending' = pending \ {w}
  /\ UNCHANGED <<graph, run, pc, node, fetch, upEvt, lastCmp, data>>

FinishUploads ==
  /\ pc = "upload" /\ pending = {}
  /\ upEvt' = [p \in DOMAIN upEvt \cup {fetch} |->
                 IF p = fetch THEN [stream |-> "copy", count |-> issued["copy"]] ELSE upEvt[p]]
  /\ Fetched
  /\ UNCHANGED <<graph, run, pending, env, lastCmp, queue, issued, data, poolVars>>

-----------------------------------------------------------------------------
(* The loop: wait for the weights of this node, prefetch, execute, free.   *)
(* Mutant: the event of the node before. *)
WaitForWeightsBefore ==
  /\ pc = "wait"
  /\ IF node - 1 \in DOMAIN upEvt
     THEN Enqueue("main", <<[op |-> "wait", event |-> upEvt[node - 1]]>>)
     ELSE UNCHANGED <<queue, issued>>
  /\ upEvt' = Without(upEvt, {node - 1})
  /\ pc' = "prefetch" /\ fetch' = node + Depth + 1
  /\ UNCHANGED <<graph, run, node, pending, env, lastCmp, data, poolVars>>

WaitForWeights ==
  /\ pc = "wait"
  /\ IF node \in DOMAIN upEvt
     THEN Enqueue("main", <<[op |-> "wait", event |-> upEvt[node]]>>)
     ELSE UNCHANGED <<queue, issued>>
  /\ upEvt' = Without(upEvt, {node})
  /\ pc' = "prefetch" /\ fetch' = node + Depth + 1
  /\ UNCHANGED <<graph, run, node, pending, env, lastCmp, data, poolVars>>

Operands == {env[t] : t \in graph.nodes[node].inputs \cap DOMAIN env}

(* A kernel and what it reads; an Identity or a view makes an array of the *)
(* memory of its input and launches none.                                  *)
Launch ==
  LET op == graph.nodes[node].op
      kernel == [op |-> "kernel", run |-> run, reads |-> Operands \ {Activation}]
      out == IF op = "compute" THEN {Activation} ELSE Operands
  IN /\ pc = "launch"
     /\ Enqueue("main", IF op = "compute" THEN <<kernel>> ELSE <<>>)
     /\ \E array \in out :
          env' = [t \in DOMAIN env \cup graph.nodes[node].outputs |->
                    IF t \in graph.nodes[node].outputs THEN array ELSE env[t]]
     /\ lastCmp' = <<Record("main")>>
     /\ pc' = "free"
     /\ UNCHANGED <<graph, run, node, fetch, pending, upEvt, data, poolVars>>

(* Mutant: the block of a weight is given back with its name. *)
BlocksInUseByName == {env'[t].block : t \in DOMAIN env' \cap Weight}

BlocksInUse == {env'[t].block : t \in DOMAIN env'}

Free ==
  /\ pc = "free"
  /\ env' = Without(env, FreesAfter(node))
  /\ freeBlocks' = pool \ BlocksInUse
  /\ IF node + 1 \in Nodes THEN pc' = "wait" /\ node' = node + 1
                           ELSE pc' = "sync" /\ UNCHANGED node
  /\ UNCHANGED <<graph, run, fetch, pending, upEvt, lastCmp, queue, issued, data, pool>>

(* main.synchronize(), then the outputs are collected.                     *)
Return ==
  /\ pc = "sync" /\ queue["main"] = <<>>
  /\ pc' = "returned"
  /\ UNCHANGED <<graph, run, node, fetch, pending, env, upEvt, lastCmp, queue, issued, data,
                 poolVars>>

(* Out of memory, in an upload or in a kernel.                             *)
Raise ==
  /\ pc \in {"upload", "launch"}
  /\ pc' = "raised"
  /\ UNCHANGED <<graph, run, node, fetch, pending, env, upEvt, lastCmp, queue, issued, data,
                 poolVars>>

Host ==
  \/ Begin \/ FetchNothing \/ StartUploads \/ (\E w \in pending : Upload(w)) \/ FinishUploads
  \/ WaitForWeights \/ Launch \/ Free \/ Return

-----------------------------------------------------------------------------
(* A stream executes what is at the head of its queue.                     *)
Execute(s) ==
  /\ queue[s] # <<>>
  /\ LET op == Head(queue[s]) IN
       /\ op.op = "wait" => Fired(op.event)
       /\ data' = IF op.op # "copy" THEN data
                  ELSE [b \in DOMAIN data \cup {op.block} |->
                          IF b = op.block THEN op.weight ELSE data[b]]
  /\ queue' = [queue EXCEPT ![s] = Tail(@)]
  /\ UNCHANGED <<hostVars, issued, poolVars>>

Next == Host \/ Raise \/ (\E s \in Stream : Execute(s))

Spec == Init /\ [][Next]_vars

(* The host never waits but in synchronize, and the device executes what   *)
(* it is given.                                                            *)
FairSpec == Spec /\ WF_vars(Host) /\ \A s \in Stream : WF_vars(Execute(s))
-----------------------------------------------------------------------------
Array == [block : Nat, weight : Weight \cup {NoWeight}]
Event == [stream : Stream, count : Nat]

(* Every variable keeps its type, and the pool is divided into the blocks  *)
(* arrays use and the free ones.                                           *)
TypeOK ==
  /\ graph \in Graphs /\ run \in 0..MaxRuns
  /\ pc \in {"idle", "prefetch", "upload", "wait", "launch", "free", "sync", "returned", "raised"}
  /\ node \in {0} \cup Nodes /\ fetch \in Nat /\ pending \subseteq Weight
  /\ env \in [DOMAIN env -> Array]
  /\ DOMAIN upEvt \subseteq Nodes /\ upEvt \in [DOMAIN upEvt -> Event]
  /\ lastCmp \in [DOMAIN lastCmp -> Event] /\ DOMAIN lastCmp \subseteq {1}
  /\ issued \in [Stream -> Nat]
  /\ data \in [DOMAIN data -> Weight] /\ DOMAIN data \subseteq pool
  /\ pool = 1..Cardinality(pool)
  /\ freeBlocks = pool \ {env[t].block : t \in DOMAIN env}

(* While a kernel runs, each block it reads holds the weight it is meant   *)
(* to: the copy is complete, and no later copy has begun to overwrite it.  *)
(* Kernels of a call that raised compute nothing anybody looks at.         *)
KernelsReadTheirWeights ==
  (queue["main"] # <<>> /\ pc # "raised") =>
    LET op == Head(queue["main"]) IN
    (op.op = "kernel" /\ op.run = run) =>
      \A a \in op.reads : a.block \in DOMAIN data /\ data[a.block] = a.weight

(* An operator finds all its inputs: no name is dropped before its last    *)
(* reader, no weight is uploaded too late.                                 *)
OperandsPresent == pc = "launch" => graph.nodes[node].inputs \subseteq DOMAIN env

(* The names that arrays of the memory of w can have: it is one of them,   *)
(* and so is every view of one.                                            *)
NamesIn(g) == Weight \cup g.inputs \cup UNION {g.nodes[p].outputs : p \in DOMAIN g.nodes}

ViewsAmong(g, names) ==
  \A p \in DOMAIN g.nodes :
    g.nodes[p].op # "compute" /\ g.nodes[p].inputs \cap names # {}
      => g.nodes[p].outputs \subseteq names

ViewNames ==
  [g \in Graphs |-> [w \in Weight |->
    {t \in NamesIn(g) : \A names \in SUBSET NamesIn(g) :
                          w \in names /\ ViewsAmong(g, names) => t \in names}]]

HeldAt(p) ==
  {w \in Used : LET names == ViewNames[graph][w] IN
     /\ First(UsesOf(w)) <= p + Depth + 1
     /\ \/ names \cap graph.outputs # {}
        \/ \E q \in Nodes : q >= p /\ names \cap graph.nodes[q].inputs # {}}

(* However far the host runs ahead of the device, and after any number of  *)
(* failed calls, the pool is no larger than the weights of Depth + 2       *)
(* consecutive nodes and those held across them.                           *)
PoolBounded ==
  \E p \in Nodes \cup {0} : Cardinality(pool) <= Cardinality(HeldAt(p))

(* A call that returns has computed the graph outputs, holds nothing else  *)
(* but its inputs, and leaves nothing enqueued.                            *)
NothingLeftBehind ==
  pc = "returned" => /\ DOMAIN env = graph.inputs \cup graph.outputs
                     /\ queue["copy"] = <<>>

(* The memory of the device is accounted for, while the host runs ahead,   *)
(* after failures, and between calls.  (cupy_runtime.py run_streaming)     *)
MemoryAccounted == TypeOK /\ PoolBounded /\ NothingLeftBehind

(* The two streams never wait for each other: every call comes to an end.  *)
EveryRunEnds == pc \notin {"idle", "returned", "raised"} ~> pc \in {"returned", "raised"}
=============================================================================
