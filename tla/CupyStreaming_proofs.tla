------------------------ MODULE CupyStreaming_proofs ------------------------
(***************************************************************************)
(* Theorems about CupyStreaming, for every set of graphs, any number of    *)
(* weights, every prefetch depth and any number of calls: each kernel      *)
(* reads the weights it is meant to read although their blocks are used    *)
(* again while the device lags behind, every operand is there when its     *)
(* node is launched, and the blocks of the pool are in use or free.        *)
(***************************************************************************)
EXTENDS CupyStreaming, TLAPS, WellFoundedInduction, SequenceTheorems, FiniteSetTheorems

WaitOp == [op : {"wait"}, event : Event]
CopyOp == [op : {"copy"}, block : Nat \ {0}, weight : Weight]
KernelOp == [op : {"kernel"}, run : Nat, reads : SUBSET Array]

OpOf(s) == WaitOp \cup IF s = "copy" THEN CopyOp ELSE KernelOp

Queues ==
  /\ DOMAIN queue = Stream /\ \A s \in Stream : queue[s] \in Seq(OpOf(s))
  /\ \A s \in Stream : Len(queue[s]) <= issued[s]
  /\ \A k \in DOMAIN queue["main"] :
       queue["main"][k].op = "kernel" => queue["main"][k].run <= run
  /\ lastCmp = <<>> \/ \E e \in Event : lastCmp = <<e>>

(* Where the host is in the loop.                                          *)
Looping == {"prefetch", "upload", "wait", "launch", "free"}

Position ==
  /\ pc \in {"wait", "launch", "free"} => node \in Nodes
  /\ pc \in {"prefetch", "upload"} => fetch \in Nat \ {0}
  /\ pc \in {"prefetch", "upload"} /\ node = 0 => fetch <= Depth + 1
  /\ pc \in {"prefetch", "upload", "launch", "free"} /\ node > 0 => fetch = node + Depth + 1
  /\ pc = "wait" => fetch = node + Depth
  /\ pc = "upload" => /\ fetch \in Nodes /\ pending \subseteq UploadsBefore(fetch)
                      /\ pending \cap DOMAIN env = {}

(* Every event that is kept belongs to a node that is still to wait for it.*)
EventsAhead ==
  pc \in Looping => \A p \in DOMAIN upEvt : IF pc = "wait" THEN p >= node ELSE p > node

(* The nodes up to here have been launched, the weights of the nodes up to *)
(* there have been asked for.                                              *)
LaunchedTo == IF pc = "free" THEN node ELSE node - 1
FetchedTo == IF pc \in {"prefetch", "upload"} THEN fetch - 1 ELSE fetch

Names ==
  pc \in Looping =>
    DOMAIN env \subseteq graph.inputs \cup Weight
                           \cup UNION {graph.nodes[q].outputs : q \in {r \in Nodes : r <= LaunchedTo}}

(* Whatever a node to come reads, and that can be there, is there.         *)
Available(t) ==
  \/ t \in graph.inputs
  \/ t \in Weight /\ First(UsesOf(t)) <= FetchedTo
  \/ \E q \in Nodes : q <= LaunchedTo /\ t \in graph.nodes[q].outputs

Presence ==
  pc \in Looping =>
    /\ \A p \in Nodes : p > LaunchedTo =>
         \A t \in graph.nodes[p].inputs : Available(t) => t \in DOMAIN env
    /\ pc = "upload" => UploadsBefore(fetch) \subseteq DOMAIN env \cup pending

-----------------------------------------------------------------------------
(* The operations of a stream that have been executed; the one at place i  *)
(* of its queue is the Done + i-th.                                        *)
Done(s) == issued[s] - Len(queue[s])

CopyTo(j, b) == queue["copy"][j].op = "copy" /\ queue["copy"][j].block = b

WaitFor(s, i, stream, count) ==
  queue[s][i].op = "wait" /\ queue[s][i].event.stream = stream /\ queue[s][i].event.count >= count

(* The copy at place v brings the weight of a into its block.              *)
Brings(v, a) == CopyTo(v, a.block) /\ queue["copy"][v].weight = a.weight

(* No copy after place v overwrites block b before kernel m of the main    *)
(* stream has been executed.                                               *)
Guarded(b, v, m) ==
  \A j \in DOMAIN queue["copy"] : j > v /\ CopyTo(j, b) =>
    \E i \in DOMAIN queue["copy"] : i < j /\ WaitFor("copy", i, "main", m)

(* Before place k of the main stream it waits for the first c operations   *)
(* of the copy stream.                                                     *)
Awaited(k, c) == \E i \in DOMAIN queue["main"] : i < k /\ WaitFor("main", i, "copy", c)

Holds(a) == a.block \in DOMAIN data /\ data[a.block] = a.weight

(* The kernel at place k of the main stream will find a.                   *)
ReadSafe(k, a) ==
  \/ Holds(a) /\ Guarded(a.block, 0, Done("main") + k)
  \/ \E v \in DOMAIN queue["copy"] :
       /\ Brings(v, a) /\ Guarded(a.block, v, Done("main") + k)
       /\ Awaited(k, Done("copy") + v)

CurrentKernel(k) == queue["main"][k].op = "kernel" /\ queue["main"][k].run = run

KernelsSafe ==
  \A k \in DOMAIN queue["main"] : CurrentKernel(k) => \A a \in queue["main"][k].reads : ReadSafe(k, a)

(* An array in env: its block will not be overwritten, and whoever reads   *)
(* it from now on will wait for its copy.                                  *)
Unwritten(b, v) == \A j \in DOMAIN queue["copy"] : j > v => ~ CopyTo(j, b)

UploadKnown(t, c) ==
  \/ pc = "upload" /\ fetch = First(UsesOf(t))
  \/ /\ First(UsesOf(t)) \in DOMAIN upEvt
     /\ upEvt[First(UsesOf(t))].stream = "copy" /\ upEvt[First(UsesOf(t))].count >= c

ArraySafe(t, a) ==
  \/ Holds(a) /\ Unwritten(a.block, 0)
  \/ \E v \in DOMAIN queue["copy"] :
       /\ Brings(v, a) /\ Unwritten(a.block, v)
       /\ \/ Awaited(Len(queue["main"]) + 1, Done("copy") + v)
          \/ t = a.weight /\ UploadKnown(t, Done("copy") + v)

ArraysSafe ==
  pc \in Looping => \A t \in DOMAIN env : \A a \in {env[t]} \ {Activation} : ArraySafe(t, a)

PoolFinite == IsFiniteSet(pool)

CopiesInPool ==
  \A j \in DOMAIN queue["copy"] : queue["copy"][j].op = "copy" => queue["copy"][j].block \in pool

ArraysTyped ==
  \A t \in DOMAIN env : env[t] = Activation \/ env[t] \in [block : pool, weight : Weight]

(* The copies to come wait for every kernel there is.                      *)
LastKernel ==
  \A k \in DOMAIN queue["main"] : CurrentKernel(k) =>
    /\ lastCmp # <<>> /\ lastCmp[1].stream = "main" /\ lastCmp[1].count >= Done("main") + k
    /\ pc = "upload" => \E i \in DOMAIN queue["copy"] : WaitFor("copy", i, "main", Done("main") + k)

IInv ==
  /\ TypeOK /\ Queues /\ Position /\ EventsAhead /\ Names /\ Presence
  /\ PoolFinite /\ CopiesInPool /\ ArraysTyped
  /\ KernelsSafe /\ ArraysSafe /\ LastKernel

-----------------------------------------------------------------------------
(* The schedule: the first and the last of a set of nodes.                 *)
LEMMA FirstIsFirst ==
  ASSUME NEW S, S \subseteq Nat, S # {}
  PROVE  First(S) \in S /\ \A q \in S : First(S) <= q
<1>. DEFINE Below == OpToRel(<, Nat)
<1>1. PICK x \in S : \A y \in S : ~ (<<y, x>> \in Below)
  BY WFMin, NatLessThanWellFounded
<1>2. \A y \in S : y < x => <<y, x>> \in Below
  BY DEF OpToRel
<1>. HIDE DEF Below
<1>3. \A y \in S : ~ (y < x)
  BY <1>1, <1>2, Zenon
<1>4. \A y \in S : x <= y
  BY <1>3
<1>. QED
  BY <1>4 DEF First

LEMMA LastIsLast ==
  ASSUME NEW N \in Nat, NEW S, S \subseteq 1..N, S # {}
  PROVE  Last(S) \in S /\ \A q \in S : q <= Last(S)
<1>1. PICK R : R = {r \in Nat : \E p \in S : r + p = N}
  OBVIOUS
<1>2. PICK p \in S : TRUE
  OBVIOUS
<1>3. N - p \in R
  BY <1>1, <1>2
<1>4. First(R) \in R /\ \A q \in R : First(R) <= q
  BY <1>1, <1>3, FirstIsFirst
<1>5. PICK x \in S : First(R) + x = N
  BY <1>1, <1>4
<1>6. ASSUME NEW q \in S PROVE q <= x
  <2>1. N - q \in R
    BY <1>1, <1>6
  <2>. QED
    BY <1>1, <1>4, <1>5, <1>6, <2>1
<1>. QED
  BY <1>6 DEF Last

(* A graph, as the assumption has it.                                      *)
LEMMA GraphShape ==
  ASSUME TypeOK
  PROVE  /\ Len(graph.nodes) \in Nat \ {0} /\ Nodes = 1..Len(graph.nodes)
         /\ \A p \in Nodes :
              /\ graph.nodes[p].op \in {"compute", "Identity", "view"}
              /\ graph.nodes[p].inputs \subseteq
                   Weight \cup graph.inputs \cup UNION {graph.nodes[q].outputs : q \in 1..(p - 1)}
              /\ graph.nodes[p].outputs \cap
                   (Weight \cup graph.inputs \cup UNION {graph.nodes[q].outputs : q \in 1..(p - 1)}) = {}
BY StreamingAssumption DEF TypeOK, Nodes

(* A weight is uploaded for its first use and freed after its last.        *)
LEMMA UploadsAtFirstUse ==
  ASSUME TypeOK, NEW p, NEW w \in UploadsBefore(p)
  PROVE  w \in Weight /\ p = First(UsesOf(w)) /\ p \in Nodes
<1>1. w \in Weight /\ UsesOf(w) # {} /\ p = First(UsesOf(w))
  BY DEF UploadsBefore, Used
<1>2. UsesOf(w) \subseteq Nodes /\ Nodes \subseteq Nat
  BY GraphShape DEF UsesOf
<1>. QED
  BY <1>1, <1>2, FirstIsFirst

LEMMA FirstUse ==
  ASSUME TypeOK, NEW p \in Nodes, NEW t \in graph.nodes[p].inputs, t \in Weight
  PROVE  /\ p \in UsesOf(t) /\ First(UsesOf(t)) \in Nodes /\ First(UsesOf(t)) <= p
         /\ t \in UploadsBefore(First(UsesOf(t)))
<1>1. p \in UsesOf(t)
  BY DEF UsesOf, Alias
<1>2. UsesOf(t) \subseteq Nodes /\ Nodes \subseteq Nat
  BY GraphShape DEF UsesOf
<1>. QED
  BY <1>1, <1>2, FirstIsFirst DEF UploadsBefore, Used

LEMMA FreesAfterLastReader ==
  ASSUME TypeOK, NEW p \in Nodes, NEW q \in Nodes, q > p,
         NEW t \in graph.nodes[q].inputs
  PROVE  t \notin FreesAfter(p)
<1>1. PICK N \in Nat : Nodes = 1..N
  BY GraphShape
<1>2. q \in LifetimeOf(t) /\ LifetimeOf(t) \subseteq 1..N
  BY <1>1 DEF LifetimeOf
<1>3. Last(LifetimeOf(t)) # p
  BY <1>1, <1>2, LastIsLast
<1>4. t \in Weight => Last(UsesOf(t)) # p
  <2>1. SUFFICES ASSUME t \in Weight PROVE Last(UsesOf(t)) # p
    OBVIOUS
  <2>2. q \in UsesOf(t) /\ UsesOf(t) \subseteq 1..N
    BY <1>1, <2>1, FirstUse DEF UsesOf
  <2>. QED
    BY <1>1, <2>2, LastIsLast
<1>. QED
  BY <1>3, <1>4 DEF FreesAfter, Used

-----------------------------------------------------------------------------
(* The queues.                                                             *)
LEMMA QueueShape ==
  ASSUME TypeOK, Queues, NEW s \in Stream
  PROVE  /\ Len(queue[s]) \in Nat /\ DOMAIN queue[s] = 1..Len(queue[s])
         /\ \A i \in 1..Len(queue[s]) : queue[s][i] \in OpOf(s)
         /\ issued[s] \in Nat /\ Done(s) \in Nat
BY DEF Queues, TypeOK, Done

(* Every operation that was enqueued is still there, in its place.         *)
Grown ==
  \A s \in Stream : /\ Len(queue'[s]) \in Nat /\ DOMAIN queue'[s] = 1..Len(queue'[s])
                    /\ Len(queue[s]) <= Len(queue'[s]) /\ Done(s)' = Done(s)
                    /\ \A i \in 1..Len(queue[s]) : queue'[s][i] = queue[s][i]

LEMMA Enqueued ==
  ASSUME TypeOK, Queues, NEW s \in Stream, NEW ops \in Seq(OpOf(s)), Enqueue(s, ops)
  PROVE  /\ Grown
         /\ DOMAIN queue' = Stream /\ queue'[s] \in Seq(OpOf(s)) /\ issued' \in [Stream -> Nat]
         /\ Len(queue'[s]) = Len(queue[s]) + Len(ops)
         /\ \A i \in 1..Len(ops) : queue'[s][Len(queue[s]) + i] = ops[i]
         /\ issued'[s] = issued[s] + Len(ops)
         /\ \A r \in Stream \ {s} : queue'[r] = queue[r] /\ issued'[r] = issued[r]
<1>1. PICK q \in Seq(OpOf(s)) : q = queue[s]
  BY DEF Queues
<1>2. queue'[s] = q \o ops /\ DOMAIN queue' = Stream
  BY <1>1 DEF Enqueue, Queues
<1>3. /\ q \o ops \in Seq(OpOf(s)) /\ Len(q \o ops) = Len(q) + Len(ops)
      /\ \A i \in 1..(Len(q) + Len(ops)) : (q \o ops)[i] = IF i <= Len(q) THEN q[i] ELSE ops[i - Len(q)]
  BY <1>1, ConcatProperties
<1>4. /\ Len(q) \in Nat /\ Len(ops) \in Nat /\ DOMAIN q = 1..Len(q)
      /\ DOMAIN (q \o ops) = 1..(Len(q) + Len(ops))
  BY <1>1, <1>3, LenProperties
<1>5. issued'[s] = issued[s] + Len(ops) /\ issued' \in [Stream -> Nat] /\ issued[s] \in Nat
  BY <1>4 DEF Enqueue, TypeOK
<1>6. \A r \in Stream \ {s} : queue'[r] = queue[r] /\ issued'[r] = issued[r]
  BY DEF Enqueue, Queues, TypeOK
<1>7. \A i \in 1..Len(ops) : queue'[s][Len(queue[s]) + i] = ops[i]
  <2>1. SUFFICES ASSUME NEW i \in 1..Len(ops) PROVE (q \o ops)[Len(q) + i] = ops[i]
    BY <1>1, <1>2
  <2>2. Len(q) + i \in 1..(Len(q) + Len(ops)) /\ ~ (Len(q) + i <= Len(q)) /\ Len(q) + i - Len(q) = i
    BY <1>4
  <2>. QED
    BY <1>3, <2>2
<1>8. Grown
  <2>1. SUFFICES ASSUME NEW r \in Stream
                 PROVE  /\ Len(queue'[r]) \in Nat /\ DOMAIN queue'[r] = 1..Len(queue'[r])
                        /\ Len(queue[r]) <= Len(queue'[r]) /\ Done(r)' = Done(r)
                        /\ \A i \in 1..Len(queue[r]) : queue'[r][i] = queue[r][i]
    BY DEF Grown
  <2>2. CASE r = s
    <3>1. Done(r)' = Done(r)
      <4>1. issued'[s] - Len(q \o ops) = issued[s] - Len(q)
        BY <1>3, <1>4, <1>5
      <4>. QED
        BY <1>1, <1>2, <2>2, <4>1, Zenon DEF Done
    <3>2. \A i \in 1..Len(q) : (q \o ops)[i] = q[i]
      BY <1>3, <1>4
    <3>. QED
      BY <1>1, <1>2, <1>3, <1>4, <2>2, <3>1, <3>2
  <2>3. CASE r # s
    BY <1>6, <2>3, QueueShape DEF Done
  <2>. QED
    BY <2>2, <2>3
<1>. QED
  BY <1>1, <1>2, <1>3, <1>5, <1>6, <1>7, <1>8

(* A step that leaves the queues alone.                                    *)
LEMMA QueuesUnchanged ==
  ASSUME TypeOK, Queues, UNCHANGED <<queue, issued>>
  PROVE  Grown
BY QueueShape DEF Grown, Done

(* A stream executes its first operation: the others move up.              *)
LEMMA Executed ==
  ASSUME TypeOK, Queues, NEW s \in Stream, Execute(s)
  PROVE  /\ DOMAIN queue' = Stream /\ queue'[s] \in Seq(OpOf(s))
         /\ Len(queue[s]) >= 1 /\ Len(queue'[s]) = Len(queue[s]) - 1
         /\ DOMAIN queue'[s] = 1..(Len(queue[s]) - 1)
         /\ \A i \in 1..(Len(queue[s]) - 1) : queue'[s][i] = queue[s][i + 1]
         /\ Done(s)' = Done(s) + 1 /\ issued' = issued
         /\ \A r \in Stream \ {s} : queue'[r] = queue[r] /\ Done(r)' = Done(r)
         /\ queue[s][1].op = "wait" => Fired(queue[s][1].event)
<1>1. PICK q \in Seq(OpOf(s)) : q = queue[s] /\ q # <<>>
  BY DEF Queues, Execute
<1>2. queue'[s] = Tail(q) /\ DOMAIN queue' = Stream /\ issued' = issued
  BY <1>1 DEF Execute, Queues
<1>3. /\ Tail(q) \in Seq(OpOf(s)) /\ Len(q) \in Nat \ {0} /\ Len(Tail(q)) = Len(q) - 1
      /\ \A i \in 1..(Len(q) - 1) : Tail(q)[i] = q[i + 1]
  BY <1>1, HeadTailProperties
<1>4. DOMAIN Tail(q) = 1..(Len(q) - 1)
  BY <1>3, LenProperties
<1>5. \A r \in Stream \ {s} : queue'[r] = queue[r]
  BY DEF Execute, Queues
<1>6. issued[s] \in Nat
  BY DEF TypeOK
<1>7. Head(q) = q[1]
  BY <1>1
<1>8. q[1].op = "wait" => Fired(q[1].event)
  BY <1>1, <1>7 DEF Execute
<1>9. Done(s)' = Done(s) + 1
  BY <1>1, <1>2, <1>3, <1>6 DEF Done
<1>10. \A r \in Stream \ {s} : Done(r)' = Done(r)
  BY <1>2, <1>5 DEF Done
<1>. QED
  BY <1>1, <1>2, <1>3, <1>4, <1>5, <1>8, <1>9, <1>10

(* What the host enqueues.                                                 *)
LEMMA CopiesWaitShape ==
  ASSUME TypeOK, Queues
  PROVE  \/ lastCmp = <<>> /\ CopiesWait = <<>>
         \/ \E e \in Event : lastCmp = <<e>> /\ CopiesWait = <<[op |-> "wait", event |-> e]>>
<1>1. CASE lastCmp = <<>>
  BY <1>1 DEF CopiesWait
<1>2. ASSUME NEW e \in Event, lastCmp = <<e>>
      PROVE  CopiesWait = <<[op |-> "wait", event |-> e]>>
  <2>1. PICK w : w = [op |-> "wait", event |-> e]
    OBVIOUS
  <2>2. CopiesWait = [k \in 1..1 |-> w]
    BY <1>2, <2>1 DEF CopiesWait
  <2>3. [k \in 1..1 |-> w] = <<w>>
    OBVIOUS
  <2>. QED
    BY <2>1, <2>2, <2>3
<1>. QED
  BY <1>1, <1>2 DEF Queues

LEMMA CopiesWaitTyped ==
  ASSUME TypeOK, Queues
  PROVE  CopiesWait \in Seq(OpOf("copy"))
<1>1. CASE CopiesWait = <<>>
  BY <1>1
<1>2. ASSUME NEW e \in Event, CopiesWait = <<[op |-> "wait", event |-> e]>>
      PROVE  CopiesWait \in Seq(OpOf("copy"))
  <2>1. PICK w \in OpOf("copy") : w = [op |-> "wait", event |-> e]
    BY DEF OpOf, WaitOp
  <2>. QED
    BY <1>2, <2>1
<1>. QED
  BY <1>1, <1>2, CopiesWaitShape

(* The operations of the kinds there are.                                  *)
LEMMA Operations ==
  /\ \A b \in Nat \ {0}, w \in Weight :
        [op |-> "copy", block |-> b, weight |-> w] \in OpOf("copy")
  /\ \A e \in Event : [op |-> "wait", event |-> e] \in OpOf("copy") \cap OpOf("main")
  /\ \A r \in Nat, S \in SUBSET Array :
        [op |-> "kernel", run |-> r, reads |-> S] \in OpOf("main")
BY DEF OpOf, WaitOp, CopyOp, KernelOp

LEMMA LaunchedOps ==
  ASSUME TypeOK, NEW ops,
         ops = IF graph.nodes[node].op = "compute"
               THEN <<[op |-> "kernel", run |-> run, reads |-> Operands \ {Activation}]>> ELSE <<>>
  PROVE  ops \in Seq(OpOf("main"))
<1>1. Operands \subseteq Array /\ run \in Nat
  BY DEF Operands, TypeOK
<1>2. PICK op \in OpOf("main") : op = [op |-> "kernel", run |-> run, reads |-> Operands \ {Activation}]
  BY <1>1, Operations
<1>. QED
  BY <1>2

-----------------------------------------------------------------------------
(* An upload takes a block that no array has.                              *)
LEMMA UploadBlock ==
  ASSUME TypeOK, PoolFinite, ArraysTyped,
         NEW b \in IF freeBlocks # {} THEN freeBlocks ELSE {Cardinality(pool) + 1}
  PROVE  /\ b \in Nat \ {0} /\ pool \cup {b} = 1..Cardinality(pool \cup {b})
         /\ IsFiniteSet(pool \cup {b})
         /\ \A t \in DOMAIN env : env[t].block # b
<1>1. PICK k \in Nat : pool = 1..k /\ k = Cardinality(pool)
  BY FS_CardinalityType DEF PoolFinite, TypeOK
<1>2. CASE freeBlocks # {}
  <2>1. b \in pool /\ b \notin {env[t].block : t \in DOMAIN env}
    BY <1>2 DEF TypeOK
  <2>2. pool \cup {b} = pool
    BY <2>1
  <2>3. b \in Nat \ {0} /\ \A t \in DOMAIN env : env[t].block # b
    BY <1>1, <2>1
  <2>4. pool \cup {b} = 1..Cardinality(pool \cup {b}) /\ IsFiniteSet(pool \cup {b})
    BY <1>1, <2>2, Zenon DEF PoolFinite
  <2>. QED
    BY <2>3, <2>4
<1>3. CASE freeBlocks = {}
  <2>1. b = k + 1
    BY <1>1, <1>3
  <2>2. pool \cup {b} = 1..(k + 1)
    BY <1>1, <2>1
  <2>3. Cardinality(1..(k + 1)) = k + 1 /\ IsFiniteSet(1..(k + 1))
    BY <1>1, FS_Interval
  <2>4. \A t \in DOMAIN env : env[t].block # b
    BY <1>1, <2>1 DEF ArraysTyped, Activation
  <2>5. pool \cup {b} = 1..Cardinality(pool \cup {b}) /\ IsFiniteSet(pool \cup {b})
    BY <2>2, <2>3, Zenon
  <2>6. b \in Nat \ {0}
    BY <1>1, <2>1
  <2>. QED
    BY <2>4, <2>5, <2>6
<1>. QED
  BY <1>2, <1>3

(* The names of a node's outputs are new when it is launched.              *)
LEMMA OutputsNew ==
  ASSUME TypeOK, Position, Names, pc = "launch"
  PROVE  graph.nodes[node].outputs \cap DOMAIN env = {}
<1>1. node \in Nodes /\ LaunchedTo = node - 1
  BY DEF Position, LaunchedTo
<1>2. PICK n \in Nat : Nodes = 1..n
  BY GraphShape
<1>3. {r \in Nodes : r <= node - 1} \subseteq 1..(node - 1)
  BY <1>1, <1>2
<1>4. DOMAIN env \subseteq graph.inputs \cup Weight
                           \cup UNION {graph.nodes[q].outputs : q \in 1..(node - 1)}
  BY <1>1, <1>3 DEF Names, Looping
<1>. QED
  BY <1>1, <1>4, GraphShape

(* Where prefetch leaves the host.                                         *)
LEMMA FetchedShape ==
  ASSUME TypeOK, Fetched
  PROVE  /\ node' \in {0} \cup Nodes /\ fetch' \in Nat
         /\ \/ node > 0 /\ pc' = "launch" /\ node' = node /\ fetch' = fetch
            \/ node = 0 /\ fetch <= Depth /\ pc' = "prefetch" /\ node' = node /\ fetch' = fetch + 1
            \/ node = 0 /\ fetch > Depth /\ pc' = "wait" /\ node' = 1 /\ fetch' = fetch
<1>1. Nodes \subseteq Nat \ {0} /\ 1 \in Nodes
  BY GraphShape
<1>2. node \in {0} \cup Nodes /\ fetch \in Nat /\ Depth \in Nat
  BY StreamingAssumption DEF TypeOK
<1>. QED
  BY <1>1, <1>2 DEF Fetched

LEMMA TypesKept ==
  ASSUME IInv, [Next]_vars
  PROVE  TypeOK' /\ PoolFinite' /\ ArraysTyped'
<1>. USE DEF IInv
<1>1. PICK k \in Nat : pool = 1..k
  BY FS_CardinalityType DEF PoolFinite, TypeOK
<1>2. CASE Begin
  <2>1. \A t \in DOMAIN env' : env'[t] = Activation
    BY <1>2 DEF Begin
  <2>2. Activation \in Array /\ Activation.block \notin pool
    BY <1>1 DEF Activation, Array
  <2>3. env' \in [DOMAIN env' -> Array] /\ freeBlocks' = pool' \ {env'[t].block : t \in DOMAIN env'}
    BY <1>2, <2>1, <2>2 DEF Begin
  <2>4. DOMAIN upEvt' \subseteq Nodes /\ upEvt' \in [DOMAIN upEvt' -> Event]
        /\ lastCmp' \in [DOMAIN lastCmp' -> Event] /\ DOMAIN lastCmp' \subseteq {1}
    BY <1>2 DEF Begin, NoEntry
  <2>5. run' \in 0..MaxRuns
    BY <1>2, StreamingAssumption DEF Begin, TypeOK
  <2>. QED
    BY <1>2, <2>1, <2>3, <2>4, <2>5 DEF Begin, TypeOK, PoolFinite, ArraysTyped, Nodes
<1>3. CASE FetchNothing \/ FinishUploads
  <2>1. node' \in {0} \cup Nodes /\ fetch' \in Nat /\ pc' \in {"launch", "prefetch", "wait"}
    BY <1>3, FetchedShape DEF FetchNothing, FinishUploads
  <2>2. CASE FetchNothing
    BY <2>1, <2>2 DEF FetchNothing, poolVars, TypeOK, PoolFinite, ArraysTyped, Nodes
  <2>3. CASE FinishUploads
    <3>1. fetch \in Nodes
      BY <2>3 DEF FinishUploads, Position
    <3>2. [stream |-> "copy", count |-> issued["copy"]] \in Event
      BY DEF Event, TypeOK, Stream
    <3>3. upEvt' \in [DOMAIN upEvt' -> Event] /\ DOMAIN upEvt' \subseteq Nodes
      BY <2>3, <3>1, <3>2 DEF FinishUploads, TypeOK
    <3>. QED
      BY <2>1, <2>3, <3>3 DEF FinishUploads, poolVars, TypeOK, PoolFinite, ArraysTyped, Nodes
  <2>. QED
    BY <1>3, <2>2, <2>3
<1>4. CASE StartUploads
  <2>1. issued' \in [Stream -> Nat]
    BY <1>4, CopiesWaitTyped, Enqueued DEF StartUploads, Stream
  <2>2. pending' \subseteq Weight
    BY <1>4 DEF StartUploads, ToFetch, UploadsBefore, Used
  <2>. QED
    BY <1>4, <2>1, <2>2 DEF StartUploads, poolVars, TypeOK, PoolFinite, ArraysTyped, Nodes
<1>5. ASSUME NEW w \in pending, Upload(w) PROVE TypeOK' /\ PoolFinite' /\ ArraysTyped'
  <2>1. PICK b \in IF freeBlocks # {} THEN freeBlocks ELSE {Cardinality(pool) + 1} :
          /\ pool' = pool \cup {b} /\ freeBlocks' = freeBlocks \ {b}
          /\ env' = [t \in DOMAIN env \cup {w} |->
                      IF t = w THEN [block |-> b, weight |-> w] ELSE env[t]]
          /\ Enqueue("copy", <<[op |-> "copy", block |-> b, weight |-> w]>>)
    BY <1>5 DEF Upload
  <2>2. /\ b \in Nat \ {0} /\ pool' = 1..Cardinality(pool') /\ IsFiniteSet(pool')
        /\ \A t \in DOMAIN env : env[t].block # b
    BY <2>1, UploadBlock
  <2>3. w \in Weight /\ w \notin DOMAIN env
    BY <1>5 DEF Upload, TypeOK, Position
  <2>4. [block |-> b, weight |-> w] \in Array /\ [block |-> b, weight |-> w] \in [block : pool', weight : Weight]
    BY <2>1, <2>2, <2>3 DEF Array
  <2>5. env' \in [DOMAIN env' -> Array]
    BY <2>1, <2>4 DEF TypeOK
  <2>6. ArraysTyped'
    <3>1. \A t \in DOMAIN env : env'[t] = env[t]
      BY <2>1, <2>3
    <3>2. env'[w] = [block |-> b, weight |-> w] /\ DOMAIN env' = DOMAIN env \cup {w}
      BY <2>1
    <3>. QED
      BY <2>1, <2>4, <3>1, <3>2 DEF ArraysTyped, Activation
  <2>7. freeBlocks' = pool' \ {env'[t].block : t \in DOMAIN env'}
    <3>1. {env'[t].block : t \in DOMAIN env'} = {env[t].block : t \in DOMAIN env} \cup {b}
      BY <2>1, <2>3
    <3>2. b \notin pool => freeBlocks = {}
      BY <2>1 DEF TypeOK
    <3>3. freeBlocks = pool \ {env[t].block : t \in DOMAIN env}
      BY DEF TypeOK
    <3>. QED
      BY <2>1, <3>1, <3>2, <3>3
  <2>8. issued' \in [Stream -> Nat]
    <3>1. PICK op \in OpOf("copy") : op = [op |-> "copy", block |-> b, weight |-> w]
      BY <2>2, <2>3, Operations
    <3>2. <<op>> \in Seq(OpOf("copy")) /\ Enqueue("copy", <<op>>) /\ "copy" \in Stream
      BY <2>1, <3>1 DEF Stream
    <3>. QED
      BY <3>2, Enqueued
  <2>. QED
    BY <1>5, <2>1, <2>2, <2>5, <2>6, <2>7, <2>8 DEF Upload, TypeOK, PoolFinite, Nodes
<1>6. CASE WaitForWeights
  <2>1. issued' \in [Stream -> Nat]
    <3>1. CASE node \in DOMAIN upEvt
      <4>1. PICK op \in OpOf("main") : op = [op |-> "wait", event |-> upEvt[node]]
        BY <3>1, Operations DEF TypeOK
      <4>2. <<op>> \in Seq(OpOf("main")) /\ Enqueue("main", <<op>>) /\ "main" \in Stream
        BY <1>6, <3>1, <4>1 DEF WaitForWeights, Stream
      <4>. QED
        BY <4>2, Enqueued
    <3>2. CASE node \notin DOMAIN upEvt
      BY <1>6, <3>2 DEF WaitForWeights, TypeOK
    <3>. QED
      BY <3>1, <3>2
  <2>2. upEvt' \in [DOMAIN upEvt' -> Event] /\ DOMAIN upEvt' \subseteq Nodes
    BY <1>6 DEF WaitForWeights, Without, TypeOK
  <2>3. fetch' \in Nat
    BY <1>6, GraphShape, StreamingAssumption DEF WaitForWeights, TypeOK
  <2>. QED
    BY <1>6, <2>1, <2>2, <2>3 DEF WaitForWeights, poolVars, TypeOK, PoolFinite, ArraysTyped, Nodes
<1>7. CASE Launch
  <2>1. \E ops \in Seq(OpOf("main")) : Enqueue("main", ops)
    BY <1>7, LaunchedOps DEF Launch
  <2>2. issued' \in [Stream -> Nat]
    BY <2>1, Enqueued DEF Stream
  <2>3. lastCmp' \in [DOMAIN lastCmp' -> Event] /\ DOMAIN lastCmp' \subseteq {1}
    <3>1. PICK e \in Event : e = Record("main")
      BY <2>2 DEF Record, Event, Stream
    <3>. QED
      BY <1>7, <3>1 DEF Launch
  <2>4. PICK array : /\ array = Activation \/ array \in Operands
                     /\ env' = [t \in DOMAIN env \cup graph.nodes[node].outputs |->
                                  IF t \in graph.nodes[node].outputs THEN array ELSE env[t]]
    BY <1>7 DEF Launch
  <2>5. /\ array \in Array
        /\ array = Activation \/ array \in [block : pool, weight : Weight]
        /\ array.block \notin freeBlocks
    BY <1>1, <2>4 DEF Operands, TypeOK, ArraysTyped, Activation, Array
  <2>6. env' \in [DOMAIN env' -> Array]
    BY <2>4, <2>5 DEF TypeOK
  <2>7. ArraysTyped'
    BY <1>7, <2>4, <2>5 DEF ArraysTyped, Launch, poolVars, Activation
  <2>8. freeBlocks = pool \ {env'[t].block : t \in DOMAIN env'}
    <3>1. \A t \in DOMAIN env : env'[t] = env[t]
      BY <1>7, <2>4, OutputsNew DEF Launch
    <3>2. \A t \in DOMAIN env' \ DOMAIN env : env'[t] = array
      BY <2>4
    <3>3. DOMAIN env \subseteq DOMAIN env' /\ freeBlocks = pool \ {env[t].block : t \in DOMAIN env}
      BY <2>4 DEF TypeOK
    <3>. QED
      BY <2>5, <3>1, <3>2, <3>3
  <2>. QED
    BY <1>7, <2>2, <2>3, <2>6, <2>7, <2>8 DEF Launch, poolVars, TypeOK, PoolFinite, Nodes
<1>8. CASE Free
  <2>1. env' \in [DOMAIN env' -> Array]
    BY <1>8 DEF Free, Without, TypeOK
  <2>2. ArraysTyped'
    BY <1>8 DEF Free, Without, ArraysTyped, Activation
  <2>3. node' \in {0} \cup Nodes
    BY <1>8 DEF Free, TypeOK
  <2>4. freeBlocks' = pool' \ {env'[t].block : t \in DOMAIN env'}
    BY <1>8 DEF Free, BlocksInUse
  <2>. QED
    BY <1>8, <2>1, <2>2, <2>3, <2>4 DEF Free, TypeOK, PoolFinite, Nodes
<1>9. CASE Return \/ Raise \/ UNCHANGED vars
  BY <1>9 DEF Return, Raise, vars, hostVars, poolVars, TypeOK, PoolFinite, ArraysTyped, Nodes
<1>10. ASSUME NEW s \in Stream, Execute(s) PROVE TypeOK' /\ PoolFinite' /\ ArraysTyped'
  <2>1. PICK op \in OpOf(s) : op = Head(queue[s]) /\ op = queue[s][1] /\ 1 \in DOMAIN queue[s]
    <3>1. PICK q \in Seq(OpOf(s)) : q = queue[s] /\ q # <<>>
      BY <1>10 DEF Queues, Execute
    <3>. QED
      BY <3>1, HeadTailProperties
  <2>2. op.op = "copy" => op.weight \in Weight /\ op.block \in pool
    BY <2>1 DEF OpOf, WaitOp, CopyOp, KernelOp, CopiesInPool, Stream
  <2>3. data' \in [DOMAIN data' -> Weight] /\ DOMAIN data' \subseteq pool
    <3>1. CASE op.op # "copy"
      BY <1>10, <2>1, <3>1 DEF Execute, TypeOK
    <3>2. CASE op.op = "copy"
      BY <1>10, <2>1, <2>2, <3>2 DEF Execute, TypeOK
    <3>. QED
      BY <3>1, <3>2
  <2>. QED
    BY <1>10, <2>3 DEF Execute, hostVars, poolVars, TypeOK, PoolFinite, ArraysTyped, Nodes
<1>. QED
  BY <1>2, <1>3, <1>4, <1>5, <1>6, <1>7, <1>8, <1>9, <1>10 DEF Next, Host

-----------------------------------------------------------------------------
(* What each step of the host enqueues, and what it puts into env.         *)
Untouched == DOMAIN queue' = Stream /\ \A s \in Stream : queue'[s] \in Seq(OpOf(s))

NewOp(s, op) ==
  /\ Len(queue'[s]) = Len(queue[s]) + 1 /\ queue'[s][Len(queue[s]) + 1] = op
  /\ issued'[s] = issued[s] + 1
  /\ \A r \in Stream \ {s} : queue'[r] = queue[r] /\ issued'[r] = issued[r]

SameQueues == \A s \in Stream : queue'[s] = queue[s] /\ issued'[s] = issued[s]

LEMMA OneEnqueued ==
  ASSUME TypeOK, Queues, NEW s \in Stream, NEW op \in OpOf(s), Enqueue(s, <<op>>)
  PROVE  Grown /\ Untouched /\ NewOp(s, op)
<1>0. <<op>> \in Seq(OpOf(s)) /\ Len(<<op>>) = 1 /\ <<op>>[1] = op
  OBVIOUS
<1>1. PICK ops \in Seq(OpOf(s)) : ops = <<op>> /\ Len(ops) = 1 /\ ops[1] = op
  BY <1>0, Zenon
<1>2. Enqueue(s, ops)
  BY <1>1
<1>3. /\ Grown /\ DOMAIN queue' = Stream /\ queue'[s] \in Seq(OpOf(s))
      /\ Len(queue'[s]) = Len(queue[s]) + 1
      /\ queue'[s][Len(queue[s]) + 1] = op
      /\ issued'[s] = issued[s] + 1
      /\ \A r \in Stream \ {s} : queue'[r] = queue[r] /\ issued'[r] = issued[r]
  <2>1. 1 \in 1..Len(ops)
    BY <1>1
  <2>. QED
    BY <1>1, <1>2, <2>1, Enqueued
<1>. QED
  BY <1>3 DEF NewOp, Untouched, Queues

LEMMA NoneEnqueued ==
  ASSUME TypeOK, Queues, UNCHANGED <<queue, issued>>
  PROVE  Grown /\ Untouched /\ SameQueues
BY QueuesUnchanged DEF Untouched, Queues, SameQueues

LEMMA NothingEnqueued ==
  ASSUME TypeOK, Queues, NEW s \in Stream, Enqueue(s, <<>>)
  PROVE  Grown /\ Untouched /\ SameQueues
<1>0. <<>> \in Seq(OpOf(s)) /\ Len(<<>>) = 0
  OBVIOUS
<1>1. PICK ops \in Seq(OpOf(s)) : ops = <<>> /\ Len(ops) = 0
  BY <1>0, Zenon
<1>2. Enqueue(s, ops)
  BY <1>1
<1>3. PICK q \in Seq(OpOf(s)) : q = queue[s]
  BY DEF Queues
<1>4. queue'[s] = q \o ops /\ q \o ops = q
  BY <1>1, <1>2, <1>3 DEF Enqueue, Queues
<1>5. issued'[s] = issued[s]
  BY <1>1, <1>2 DEF Enqueue, TypeOK
<1>6. /\ Grown /\ DOMAIN queue' = Stream
      /\ \A r \in Stream \ {s} : queue'[r] = queue[r] /\ issued'[r] = issued[r]
  BY <1>2, Enqueued
<1>. QED
  BY <1>3, <1>4, <1>5, <1>6 DEF Untouched, SameQueues, Queues

LEMMA UploadStep ==
  ASSUME IInv, NEW w \in pending, Upload(w)
  PROVE  \E b \in Nat \ {0} :
           /\ Grown /\ Untouched /\ NewOp("copy", [op |-> "copy", block |-> b, weight |-> w])
           /\ w \in Weight /\ w \notin DOMAIN env /\ pool' = pool \cup {b}
           /\ DOMAIN env' = DOMAIN env \cup {w} /\ env'[w] = [block |-> b, weight |-> w]
           /\ \A t \in DOMAIN env : env'[t] = env[t] /\ env[t].block # b
<1>1. PICK b \in IF freeBlocks # {} THEN freeBlocks ELSE {Cardinality(pool) + 1} :
        /\ pool' = pool \cup {b}
        /\ env' = [t \in DOMAIN env \cup {w} |->
                    IF t = w THEN [block |-> b, weight |-> w] ELSE env[t]]
        /\ Enqueue("copy", <<[op |-> "copy", block |-> b, weight |-> w]>>)
  BY DEF Upload
<1>2. b \in Nat \ {0} /\ \A t \in DOMAIN env : env[t].block # b
  BY <1>1, UploadBlock DEF IInv
<1>3. w \in Weight /\ w \notin DOMAIN env
  BY DEF Upload, TypeOK, Position, IInv
<1>4. PICK op \in OpOf("copy") : op = [op |-> "copy", block |-> b, weight |-> w]
  BY <1>2, <1>3, Operations
<1>5. Enqueue("copy", <<op>>) /\ "copy" \in Stream
  BY <1>1, <1>4 DEF Stream
<1>6. Grown /\ Untouched /\ NewOp("copy", op)
  BY <1>5, OneEnqueued DEF IInv
<1>. QED
  BY <1>1, <1>2, <1>3, <1>4, <1>6

LEMMA WaitStep ==
  ASSUME IInv, WaitForWeights
  PROVE  /\ Grown /\ Untouched
         /\ node \in DOMAIN upEvt => NewOp("main", [op |-> "wait", event |-> upEvt[node]])
         /\ node \notin DOMAIN upEvt => SameQueues
<1>1. CASE node \in DOMAIN upEvt
  <2>1. PICK op \in OpOf("main") : op = [op |-> "wait", event |-> upEvt[node]]
    BY <1>1, Operations DEF TypeOK, IInv
  <2>2. Enqueue("main", <<op>>) /\ "main" \in Stream
    BY <1>1, <2>1 DEF WaitForWeights, Stream
  <2>. QED
    BY <1>1, <2>1, <2>2, OneEnqueued DEF IInv
<1>2. CASE node \notin DOMAIN upEvt
  BY <1>2, NoneEnqueued DEF WaitForWeights, IInv
<1>. QED
  BY <1>1, <1>2

LEMMA StartStep ==
  ASSUME IInv, StartUploads
  PROVE  /\ Grown /\ Untouched
         /\ lastCmp = <<>> => SameQueues
         /\ lastCmp # <<>> => /\ lastCmp[1] \in Event
                             /\ NewOp("copy", [op |-> "wait", event |-> lastCmp[1]])
<1>1. CASE lastCmp = <<>> /\ CopiesWait = <<>>
  BY <1>1, NothingEnqueued DEF StartUploads, Stream, IInv
<1>2. ASSUME NEW e \in Event, lastCmp = <<e>>, CopiesWait = <<[op |-> "wait", event |-> e]>>
      PROVE  Grown /\ Untouched /\ lastCmp # <<>> /\ lastCmp[1] \in Event
             /\ NewOp("copy", [op |-> "wait", event |-> lastCmp[1]])
  <2>1. PICK op \in OpOf("copy") : op = [op |-> "wait", event |-> e]
    BY Operations
  <2>2. Enqueue("copy", <<op>>) /\ "copy" \in Stream
    BY <1>2, <2>1 DEF StartUploads, Stream
  <2>. QED
    BY <1>2, <2>1, <2>2, OneEnqueued DEF IInv
<1>. QED
  BY <1>1, <1>2, CopiesWaitShape DEF IInv

LEMMA LaunchStep ==
  ASSUME IInv, Launch
  PROVE  /\ Grown /\ Untouched
         /\ graph.nodes[node].op = "compute" =>
              NewOp("main", [op |-> "kernel", run |-> run, reads |-> Operands \ {Activation}])
         /\ graph.nodes[node].op # "compute" => SameQueues
         /\ lastCmp' = <<[stream |-> "main", count |-> issued'["main"]]>>
<1>1. CASE graph.nodes[node].op = "compute"
  <2>1. Operands \subseteq Array /\ run \in Nat
    BY DEF Operands, TypeOK, IInv
  <2>2. PICK op \in OpOf("main") : op = [op |-> "kernel", run |-> run, reads |-> Operands \ {Activation}]
    BY <2>1, Operations
  <2>3. Enqueue("main", <<op>>) /\ "main" \in Stream
    BY <1>1, <2>2 DEF Launch, Stream
  <2>. QED
    BY <1>1, <2>2, <2>3, OneEnqueued DEF Launch, Record, IInv
<1>2. CASE graph.nodes[node].op # "compute"
  <2>1. Enqueue("main", <<>>) /\ "main" \in Stream
    BY <1>2 DEF Launch, Stream
  <2>. QED
    BY <1>2, <2>1, NothingEnqueued DEF Launch, Record, IInv
<1>. QED
  BY <1>1, <1>2

(* The steps of the host that enqueue nothing.                             *)
Quiet == Begin \/ FetchNothing \/ FinishUploads \/ Free \/ Return \/ Raise \/ UNCHANGED vars

LEMMA QuietStep ==
  ASSUME IInv, Quiet
  PROVE  Grown /\ Untouched /\ SameQueues
BY NoneEnqueued DEF Quiet, Begin, FetchNothing, FinishUploads, Free, Return, Raise, vars, IInv

LEMMA Steps ==
  ASSUME [Next]_vars
  PROVE  \/ Quiet \/ StartUploads \/ WaitForWeights \/ Launch
         \/ (\E w \in pending : Upload(w)) \/ (\E s \in Stream : Execute(s))
BY DEF Next, Host, Quiet

(* The graph does not change, nor does its schedule.                       *)
LEMMA GraphKept ==
  ASSUME [Next]_vars
  PROVE  graph' = graph /\ Nodes' = Nodes
<1>1. graph' = graph
  BY Steps DEF Quiet, Begin, FetchNothing, FinishUploads, Free, Return, Raise, StartUploads,
    WaitForWeights, Launch, Upload, Execute, hostVars, vars
<1>. QED
  BY <1>1 DEF Nodes

LEMMA ScheduleKept ==
  ASSUME graph' = graph
  PROVE  /\ Nodes' = Nodes /\ \A w : UsesOf(w)' = UsesOf(w)
         /\ \A p : UploadsBefore(p)' = UploadsBefore(p)
<1>1. Nodes' = Nodes
  BY DEF Nodes
<1>2. ASSUME NEW w PROVE UsesOf(w)' = UsesOf(w)
  <2>1. ASSUME NEW t PROVE Alias(t)' = Alias(t)
    BY DEF Alias, Nodes
  <2>. QED
    BY <2>1 DEF UsesOf, Nodes
<1>3. Used' = Used
  BY <1>2, Zenon DEF Used
<1>4. ASSUME NEW p PROVE UploadsBefore(p)' = UploadsBefore(p)
  BY <1>2, <1>3, Zenon DEF UploadsBefore
<1>. QED
  BY <1>1, <1>2, <1>4

LEMMA QueuesKept ==
  ASSUME IInv, [Next]_vars
  PROVE  Queues' /\ CopiesInPool'
<1>. USE DEF IInv
<1>. DEFINE RunsKnown == \A k \in DOMAIN queue'["main"] :
              queue'["main"][k].op = "kernel" => queue'["main"][k].run <= run'
            LastKnown == lastCmp' = <<>> \/ \E e \in Event : lastCmp' = <<e>>
<1>1. ASSUME Grown, Untouched, RunsKnown, LastKnown PROVE Queues'
  <2>1. ASSUME NEW s \in Stream PROVE Len(queue'[s]) <= issued'[s]
    <3>1. issued'[s] \in Nat /\ Len(queue'[s]) \in Nat /\ issued[s] \in Nat /\ Len(queue[s]) \in Nat
      BY <1>1, TypesKept, QueueShape DEF TypeOK, Grown
    <3>2. issued'[s] - Len(queue'[s]) = issued[s] - Len(queue[s])
      BY <1>1 DEF Grown, Done
    <3>3. Len(queue[s]) <= issued[s]
      BY DEF Queues
    <3>. QED
      BY <3>1, <3>2, <3>3
  <2>. QED
    BY <1>1, <2>1 DEF Queues, Untouched
<1>2. "main" \in Stream /\ "copy" \in Stream /\ "main" # "copy"
  BY DEF Stream
<1>3. /\ DOMAIN queue["main"] = 1..Len(queue["main"]) /\ Len(queue["main"]) \in Nat
      /\ DOMAIN queue["copy"] = 1..Len(queue["copy"]) /\ Len(queue["copy"]) \in Nat
  BY <1>2, QueueShape
<1>4. CASE Quiet
  <2>1. Grown /\ Untouched /\ queue'["main"] = queue["main"] /\ queue'["copy"] = queue["copy"]
    BY <1>2, <1>4, QuietStep DEF SameQueues
  <2>2. run' \in Nat /\ run \in Nat /\ run <= run'
    BY <1>4, TypesKept DEF Quiet, Begin, FetchNothing, FinishUploads, Free, Return, Raise, vars,
      hostVars, TypeOK
  <2>3. RunsKnown
    <3>1. ASSUME NEW k \in DOMAIN queue["main"], queue["main"][k].op = "kernel"
          PROVE  queue["main"][k].run <= run'
      <4>0. queue["main"][k] \in OpOf("main")
        BY <1>2, <1>3, <3>1, QueueShape
      <4>1. queue["main"][k].run \in Nat
        BY <3>1, <4>0 DEF OpOf, WaitOp, KernelOp
      <4>. QED
        BY <2>2, <3>1, <4>1 DEF Queues
    <3>. QED
      BY <2>1, <3>1
  <2>4. LastKnown
    BY <1>4 DEF Quiet, Begin, FetchNothing, FinishUploads, Free, Return, Raise, vars, hostVars, Queues
  <2>5. pool' = pool
    BY <1>4 DEF Quiet, Begin, FetchNothing, FinishUploads, Free, Return, Raise, vars, poolVars
  <2>. QED
    BY <1>1, <2>1, <2>3, <2>4, <2>5 DEF CopiesInPool
<1>5. CASE StartUploads
  <2>1. Grown /\ Untouched /\ queue'["main"] = queue["main"]
    BY <1>2, <1>5, StartStep DEF NewOp, SameQueues
  <2>2. RunsKnown /\ LastKnown
    BY <1>5, <2>1 DEF StartUploads, Queues
  <2>3. CopiesInPool'
    <3>1. ASSUME NEW j \in DOMAIN queue'["copy"], queue'["copy"][j].op = "copy"
          PROVE  queue'["copy"][j].block \in pool
      <4>1. j \in DOMAIN queue["copy"] /\ queue'["copy"][j] = queue["copy"][j]
        <5>1. DOMAIN queue'["copy"] = 1..Len(queue'["copy"])
              /\ \A i \in 1..Len(queue["copy"]) : queue'["copy"][i] = queue["copy"][i]
          BY <1>2, <2>1 DEF Grown
        <5>2. CASE lastCmp = <<>>
          BY <1>2, <1>3, <1>5, <3>1, <5>1, <5>2, StartStep DEF SameQueues
        <5>3. CASE lastCmp # <<>>
          <6>1. /\ Len(queue'["copy"]) = Len(queue["copy"]) + 1
                /\ queue'["copy"][Len(queue["copy"]) + 1].op # "copy"
            BY <1>5, <5>3, StartStep DEF NewOp
          <6>. QED
            BY <1>3, <3>1, <5>1, <6>1
        <5>. QED
          BY <5>2, <5>3
      <4>. QED
        BY <3>1, <4>1 DEF CopiesInPool
    <3>. QED
      BY <1>5, <3>1 DEF CopiesInPool, StartUploads, poolVars
  <2>. QED
    BY <1>1, <2>1, <2>2, <2>3
<1>6. ASSUME NEW w \in pending, Upload(w) PROVE Queues' /\ CopiesInPool'
  <2>1. PICK b \in Nat \ {0} :
           /\ Grown /\ Untouched /\ NewOp("copy", [op |-> "copy", block |-> b, weight |-> w])
           /\ pool' = pool \cup {b}
    BY <1>6, UploadStep
  <2>2. RunsKnown /\ LastKnown
    BY <1>2, <1>6, <2>1 DEF NewOp, Upload, Queues
  <2>3. CopiesInPool'
    <3>1. /\ DOMAIN queue'["copy"] = 1..(Len(queue["copy"]) + 1)
          /\ \A i \in 1..Len(queue["copy"]) : queue'["copy"][i] = queue["copy"][i]
          /\ queue'["copy"][Len(queue["copy"]) + 1].block = b
      BY <1>2, <2>1 DEF Grown, NewOp
    <3>. QED
      BY <1>3, <2>1, <3>1 DEF CopiesInPool
  <2>. QED
    BY <1>1, <2>1, <2>2, <2>3
<1>7. CASE WaitForWeights \/ Launch
  <2>1. Grown /\ Untouched /\ queue'["copy"] = queue["copy"]
    BY <1>2, <1>7, WaitStep, LaunchStep DEF NewOp, SameQueues
  <2>2. CopiesInPool'
    BY <1>7, <2>1 DEF CopiesInPool, WaitForWeights, Launch, poolVars
  <2>3. run' = run /\ run \in Nat
    BY <1>7 DEF WaitForWeights, Launch, TypeOK
  <2>4. RunsKnown
    <3>1. \A i \in 1..Len(queue["main"]) : queue'["main"][i] = queue["main"][i]
      BY <1>2, <2>1 DEF Grown
    <3>2. CASE SameQueues
      BY <1>2, <2>3, <3>2 DEF Queues, SameQueues
    <3>3. ASSUME NEW op, NewOp("main", op), op.op = "kernel" => op.run = run
          PROVE  RunsKnown
      <4>1. DOMAIN queue'["main"] = 1..(Len(queue["main"]) + 1) /\ queue'["main"][Len(queue["main"]) + 1] = op
        BY <1>2, <2>1, <3>3 DEF Grown, NewOp
      <4>2. ASSUME NEW k \in DOMAIN queue'["main"], queue'["main"][k].op = "kernel"
            PROVE  queue'["main"][k].run <= run
        <5>1. CASE k = Len(queue["main"]) + 1
          BY <2>3, <3>3, <4>1, <4>2, <5>1
        <5>2. CASE k # Len(queue["main"]) + 1
          <6>1. k \in DOMAIN queue["main"] /\ queue'["main"][k] = queue["main"][k]
            BY <1>3, <3>1, <4>1, <5>2
          <6>. QED
            BY <4>2, <6>1 DEF Queues
        <5>. QED
          BY <5>1, <5>2
      <4>. QED
        BY <2>3, <4>2
    <3>4. CASE WaitForWeights
      <4>1. [op |-> "wait", event |-> upEvt[node]].op # "kernel"
        OBVIOUS
      <4>. QED
        BY <3>2, <3>3, <3>4, <4>1, WaitStep
    <3>5. CASE Launch
      <4>1. [op |-> "kernel", run |-> run, reads |-> Operands \ {Activation}].run = run
        OBVIOUS
      <4>. QED
        BY <3>2, <3>3, <3>5, <4>1, LaunchStep
    <3>. QED
      BY <1>7, <3>4, <3>5
  <2>5. LastKnown
    <3>1. CASE WaitForWeights
      BY <3>1 DEF WaitForWeights, Queues
    <3>2. CASE Launch
      <4>1. [stream |-> "main", count |-> issued'["main"]] \in Event
        BY <1>2, TypesKept DEF Event, TypeOK
      <4>. QED
        BY <3>2, <4>1, LaunchStep
    <3>. QED
      BY <1>7, <3>1, <3>2
  <2>. QED
    BY <1>1, <2>1, <2>2, <2>4, <2>5
<1>8. ASSUME NEW s \in Stream, Execute(s) PROVE Queues' /\ CopiesInPool'
  <2>1. /\ DOMAIN queue' = Stream /\ queue'[s] \in Seq(OpOf(s))
        /\ \A r \in Stream \ {s} : queue'[r] = queue[r]
        /\ Len(queue'[s]) = Len(queue[s]) - 1 /\ issued' = issued
        /\ DOMAIN queue'[s] = 1..(Len(queue[s]) - 1)
        /\ \A i \in 1..(Len(queue[s]) - 1) : queue'[s][i] = queue[s][i + 1]
    BY <1>8, Executed
  <2>2. ASSUME NEW r \in Stream PROVE queue'[r] \in Seq(OpOf(r)) /\ Len(queue'[r]) <= issued'[r]
    <3>1. CASE r = s
      BY <2>1, <3>1, QueueShape DEF Queues
    <3>2. CASE r # s
      BY <2>1, <3>2 DEF Queues
    <3>. QED
      BY <3>1, <3>2
  <2>3. ASSUME NEW r \in Stream, NEW k \in DOMAIN queue'[r]
        PROVE  \E i \in DOMAIN queue[r] : queue'[r][k] = queue[r][i]
    <3>1. CASE r = s
      <4>1. k + 1 \in DOMAIN queue[s] /\ queue'[s][k] = queue[s][k + 1]
        BY <2>1, <2>3, <3>1, QueueShape
      <4>. QED
        BY <3>1, <4>1
    <3>2. CASE r # s
      BY <2>1, <2>3, <3>2
    <3>. QED
      BY <3>1, <3>2
  <2>4. UNCHANGED <<run, lastCmp, pool>>
    BY <1>8 DEF Execute, hostVars, poolVars
  <2>5. RunsKnown
    BY <1>2, <2>3, <2>4 DEF Queues
  <2>6. CopiesInPool'
    BY <1>2, <2>3, <2>4 DEF CopiesInPool
  <2>. QED
    BY <2>1, <2>2, <2>4, <2>5, <2>6 DEF Queues
<1>. QED
  BY <1>4, <1>5, <1>6, <1>7, <1>8, Steps

LEMMA PositionKept ==
  ASSUME IInv, [Next]_vars
  PROVE  Position'
<1>. USE DEF IInv
<1>1. Nodes \subseteq Nat \ {0} /\ 1 \in Nodes
  BY GraphShape
<1>2. node \in {0} \cup Nodes /\ fetch \in Nat /\ Depth \in Nat
  BY StreamingAssumption DEF TypeOK
<1>3. Nodes' = Nodes /\ \A p : UploadsBefore(p)' = UploadsBefore(p)
  BY GraphKept, ScheduleKept
<1>4. CASE FetchNothing \/ FinishUploads
  <2>1. Fetched /\ pc \in {"prefetch", "upload"}
    BY <1>4 DEF FetchNothing, FinishUploads
  <2>. QED
    BY <1>1, <1>2, <1>3, <2>1, FetchedShape DEF Position
<1>5. CASE Begin \/ WaitForWeights
  BY <1>1, <1>2, <1>3, <1>5 DEF Begin, WaitForWeights, Position
<1>6. CASE StartUploads
  <2>1. fetch \in Nodes /\ pending' = UploadsBefore(fetch) \ DOMAIN env
    BY <1>6 DEF StartUploads, ToFetch
  <2>2. pc = "prefetch" /\ pc' = "upload" /\ UNCHANGED <<node, fetch, env>>
    BY <1>6 DEF StartUploads
  <2>3. UploadsBefore(fetch)' = UploadsBefore(fetch)
    BY <2>2, <1>3 DEF UploadsBefore
  <2>. QED
    BY <1>1, <1>2, <1>3, <2>1, <2>2, <2>3 DEF Position
<1>7. ASSUME NEW w \in pending, Upload(w) PROVE Position'
  <2>1. DOMAIN env' = DOMAIN env \cup {w}
    BY <1>7, UploadStep
  <2>2. pc = "upload" /\ pending' = pending \ {w} /\ UNCHANGED <<pc, node, fetch>>
    BY <1>7 DEF Upload
  <2>3. UploadsBefore(fetch)' = UploadsBefore(fetch)
    BY <2>2, <1>3 DEF UploadsBefore
  <2>. QED
    BY <1>1, <1>2, <1>3, <2>1, <2>2, <2>3 DEF Position
<1>8. CASE Launch \/ Free
  BY <1>1, <1>2, <1>3, <1>8 DEF Launch, Free, Position
<1>9. CASE Return \/ Raise
  BY <1>9 DEF Return, Raise, Position
<1>10. ASSUME UNCHANGED hostVars PROVE Position'
  <2>1. UNCHANGED <<pc, node, fetch, pending, env>>
    BY <1>10 DEF hostVars
  <2>2. UploadsBefore(fetch)' = UploadsBefore(fetch)
    BY <2>1, <1>3 DEF UploadsBefore
  <2>. QED
    BY <1>3, <2>1, <2>2 DEF Position
<1>. QED
  BY <1>4, <1>5, <1>6, <1>7, <1>8, <1>9, <1>10, Steps DEF Quiet, Execute, vars

LEMMA EventsKept ==
  ASSUME IInv, [Next]_vars
  PROVE  EventsAhead'
<1>. USE DEF IInv
<1>1. Nodes \subseteq Nat \ {0} /\ DOMAIN upEvt \subseteq Nodes
  BY GraphShape DEF TypeOK
<1>2. node \in Nat /\ fetch \in Nat /\ Depth \in Nat /\ \A p \in DOMAIN upEvt : p \in Nat
  BY <1>1, StreamingAssumption DEF TypeOK
<1>3. CASE FetchNothing \/ FinishUploads
  <2>1. Fetched /\ pc \in {"prefetch", "upload"}
    BY <1>3 DEF FetchNothing, FinishUploads
  <2>2. DOMAIN upEvt' \subseteq DOMAIN upEvt \cup (IF pc = "upload" THEN {fetch} ELSE {})
    BY <1>3 DEF FetchNothing, FinishUploads
  <2>3. pc = "upload" /\ node > 0 => fetch > node
    BY <1>1, <1>2 DEF Position
  <2>4. pc = "upload" => fetch \in Nodes
    BY DEF Position
  <2>5. \A p \in DOMAIN upEvt' : p \in Nodes /\ p > node
    BY <1>1, <1>2, <2>1, <2>2, <2>3, <2>4 DEF EventsAhead, Looping
  <2>6. \/ node' = node /\ pc' # "wait"
        \/ node = 0 /\ node' = 1 /\ pc' = "wait"
    BY <2>1, FetchedShape
  <2>7. \A p \in DOMAIN upEvt' : p \in Nat
    BY <1>1, <2>5
  <2>8. CASE node' = node /\ pc' # "wait"
    BY <2>5, <2>8 DEF EventsAhead
  <2>9. CASE node = 0 /\ node' = 1 /\ pc' = "wait"
    BY <2>5, <2>7, <2>9 DEF EventsAhead
  <2>. QED
    BY <2>6, <2>8, <2>9
<1>4. CASE Begin
  BY <1>4 DEF Begin, EventsAhead, NoEntry
<1>5. CASE WaitForWeights
  <2>1. \A p \in DOMAIN upEvt : p >= node
    BY <1>5 DEF WaitForWeights, EventsAhead, Looping
  <2>2. DOMAIN upEvt' = DOMAIN upEvt \ {node} /\ node' = node /\ pc' = "prefetch"
    BY <1>5 DEF WaitForWeights, Without
  <2>3. \A p \in DOMAIN upEvt \ {node} : p > node
    BY <1>2, <2>1
  <2>4. \A p \in DOMAIN upEvt' : p > node'
    BY <2>2, <2>3, Zenon
  <2>. QED
    BY <2>2, <2>4 DEF EventsAhead
<1>6. CASE StartUploads \/ Launch
  <2>1. \A p \in DOMAIN upEvt : p > node
    BY <1>6 DEF StartUploads, Launch, EventsAhead, Looping
  <2>2. UNCHANGED <<upEvt, node>> /\ pc' # "wait"
    BY <1>6 DEF StartUploads, Launch
  <2>. QED
    BY <2>1, <2>2 DEF EventsAhead
<1>7. ASSUME NEW w \in pending, Upload(w) PROVE EventsAhead'
  BY <1>7 DEF Upload, EventsAhead
<1>8. CASE Free
  <2>1. node \in Nodes
    BY <1>8 DEF Free, Position
  <2>. QED
    <3>1. \A p \in DOMAIN upEvt : p > node
      BY <1>8 DEF Free, EventsAhead, Looping
    <3>2. upEvt' = upEvt /\ ((pc' = "wait" /\ node' = node + 1) \/ pc' = "sync")
      BY <1>8 DEF Free
    <3>3. \A p \in DOMAIN upEvt : p >= node + 1
      BY <1>2, <3>1
    <3>. QED
      BY <3>2, <3>3 DEF EventsAhead, Looping
<1>9. CASE Return \/ Raise
  BY <1>9 DEF Return, Raise, EventsAhead, Looping
<1>10. ASSUME UNCHANGED hostVars PROVE EventsAhead'
  BY <1>10 DEF hostVars, EventsAhead
<1>. QED
  BY <1>3, <1>4, <1>5, <1>6, <1>7, <1>8, <1>9, <1>10, Steps DEF Quiet, Execute, vars

-----------------------------------------------------------------------------
(* Every reader finds its operands.                                        *)
LEMMA NamesKept ==
  ASSUME IInv, [Next]_vars
  PROVE  Names'
<1>. USE DEF IInv
<1>. DEFINE Known(n) == graph.inputs \cup Weight
                           \cup UNION {graph.nodes[q].outputs : q \in {r \in Nodes : r <= n}}
<1>1. PICK n \in Nat \ {0} : Nodes = 1..n
  BY GraphShape
<1>2. graph' = graph /\ Nodes' = Nodes /\ node \in Nat /\ fetch \in Nat
  BY <1>1, GraphKept DEF TypeOK
<1>3. ASSUME pc' \in Looping => DOMAIN env' \subseteq Known(LaunchedTo') PROVE Names'
  BY <1>2, <1>3 DEF Names
<1>4. \A i, j \in Int : i <= j => Known(i) \subseteq Known(j)
  BY <1>1
<1>5. pc \in Looping => DOMAIN env \subseteq Known(LaunchedTo)
  BY DEF Names
<1>. HIDE DEF Known
<1>6. ASSUME pc \in Looping, LaunchedTo <= LaunchedTo', LaunchedTo' \in Int,
             DOMAIN env' \subseteq DOMAIN env \cup Known(LaunchedTo')
      PROVE  Names'
  <2>1. LaunchedTo \in Int
    BY <1>2 DEF LaunchedTo
  <2>. QED
    BY <1>3, <1>4, <1>5, <1>6, <2>1
<1>7. CASE Begin
  <2>1. DOMAIN env' \subseteq Known(LaunchedTo')
    BY <1>7 DEF Begin, Known
  <2>. QED
    BY <1>3, <2>1
<1>8. CASE FetchNothing \/ FinishUploads
  <2>1. Fetched /\ pc \in {"prefetch", "upload"} /\ env' = env
    BY <1>8 DEF FetchNothing, FinishUploads
  <2>2. /\ node' = node \/ (node = 0 /\ node' = 1)
        /\ pc' # "free"
    BY <2>1, FetchedShape
  <2>. QED
    BY <1>2, <1>6, <2>1, <2>2 DEF Looping, LaunchedTo
<1>9. CASE StartUploads \/ WaitForWeights
  BY <1>2, <1>6, <1>9 DEF StartUploads, WaitForWeights, Looping, LaunchedTo
<1>10. ASSUME NEW w \in pending, Upload(w) PROVE Names'
  <2>1. DOMAIN env' = DOMAIN env \cup {w} /\ w \in Known(LaunchedTo')
    BY <1>10, UploadStep DEF Known
  <2>. QED
    BY <1>2, <1>6, <1>10, <2>1 DEF Upload, Looping, LaunchedTo
<1>11. CASE Launch
  <2>1. node \in Nodes /\ pc = "launch" /\ pc' = "free" /\ node' = node
    BY <1>11 DEF Launch, Position
  <2>2. graph.nodes[node].outputs \subseteq Known(node)
    BY <1>1, <2>1 DEF Known
  <2>3. DOMAIN env' = DOMAIN env \cup graph.nodes[node].outputs
    BY <1>11 DEF Launch
  <2>4. LaunchedTo = node - 1 /\ LaunchedTo' = node
    BY <2>1 DEF LaunchedTo
  <2>. QED
    BY <1>2, <1>6, <2>1, <2>2, <2>3, <2>4 DEF Looping
<1>12. CASE Free
  <2>1. DOMAIN env' \subseteq DOMAIN env
    BY <1>12 DEF Free, Without
  <2>2. CASE pc' = "wait" /\ node' = node + 1
    BY <1>2, <1>6, <1>12, <2>1, <2>2 DEF Free, Looping, LaunchedTo
  <2>3. CASE pc' = "sync"
    BY <1>3, <2>3 DEF Looping
  <2>. QED
    BY <1>12, <2>2, <2>3 DEF Free
<1>13. CASE Return \/ Raise
  BY <1>3, <1>13 DEF Return, Raise, Looping
<1>14. ASSUME UNCHANGED hostVars PROVE Names'
  BY <1>2, <1>14 DEF hostVars, Names, LaunchedTo
<1>. QED
  BY <1>7, <1>8, <1>9, <1>10, <1>11, <1>12, <1>13, <1>14, Steps DEF Quiet, Execute, vars

LEMMA PresenceKept ==
  ASSUME IInv, [Next]_vars
  PROVE  Presence'
<1>. USE DEF IInv
<1>1. PICK n \in Nat \ {0} : Nodes = 1..n
  BY GraphShape
<1>2. graph' = graph /\ Nodes' = Nodes /\ node \in Nat /\ fetch \in Nat
      /\ Depth \in Nat
  BY <1>1, GraphKept, StreamingAssumption DEF TypeOK
<1>3. /\ \A w : UsesOf(w)' = UsesOf(w) /\ \A p : UploadsBefore(p)' = UploadsBefore(p)
  BY <1>2, ScheduleKept
<1>. DEFINE Reaches(t, l, f) ==
              \/ t \in graph.inputs
              \/ t \in Weight /\ First(UsesOf(t)) <= f
              \/ \E q \in Nodes : q <= l /\ t \in graph.nodes[q].outputs
            Present(l, f, E) ==
              \A p \in Nodes : p > l =>
                \A t \in graph.nodes[p].inputs : Reaches(t, l, f) => t \in E
            AskedFor(E, P) == UploadsBefore(fetch') \subseteq E \cup P
<1>4. pc \in Looping => Present(LaunchedTo, FetchedTo, DOMAIN env)
  BY DEF Presence, Available
<1>5. ASSUME pc' \in Looping => Present(LaunchedTo', FetchedTo', DOMAIN env'),
             pc' = "upload" => AskedFor(DOMAIN env', pending')
      PROVE  Presence'
  <2>1. ASSUME NEW t PROVE Available(t)' <=> Reaches(t, LaunchedTo', FetchedTo')
    <3>1. First(UsesOf(t))' = First(UsesOf(t))
      BY <1>3, Zenon
    <3>. QED
      BY <1>2, <3>1 DEF Available
  <2>2. UploadsBefore(fetch)' = UploadsBefore(fetch')
    BY <1>3, <1>2, Zenon DEF UploadsBefore, Used, UsesOf, Alias, Nodes
  <2>. QED
    BY <1>2, <1>5, <2>1, <2>2 DEF Presence
<1>6. ASSUME pc \in Looping, LaunchedTo' = LaunchedTo, FetchedTo' = FetchedTo,
             DOMAIN env \subseteq DOMAIN env',
             pc' = "upload" => AskedFor(DOMAIN env', pending')
      PROVE  Presence'
  <2>1. Present(LaunchedTo, FetchedTo, DOMAIN env')
    BY <1>4, <1>6
  <2>. QED
    BY <1>5, <1>6, <2>1
<1>7. ASSUME NEW p \in Nodes, NEW t \in graph.nodes[p].inputs, t \in Weight
      PROVE  First(UsesOf(t)) \in 1..n /\ t \in UploadsBefore(First(UsesOf(t)))
  BY <1>1, <1>7, FirstUse
<1>. HIDE DEF AskedFor
<1>8. CASE Begin
  <2>1. LaunchedTo' = -1 /\ FetchedTo' = 0 /\ DOMAIN env' = graph.inputs /\ pc' # "upload"
    BY <1>8 DEF Begin, LaunchedTo, FetchedTo
  <2>2. \A p \in Nodes : \A t \in graph.nodes[p].inputs : Reaches(t, -1, 0) => t \in graph.inputs
    BY <1>1, <1>7
  <2>. QED
    BY <1>5, <2>1, <2>2
<1>9. CASE FetchNothing \/ FinishUploads
  <2>1. /\ Fetched /\ pc \in {"prefetch", "upload"} /\ env' = env
        /\ fetch \in Nodes => UploadsBefore(fetch) \subseteq DOMAIN env
    <3>1. CASE FetchNothing
      BY <3>1 DEF FetchNothing, ToFetch
    <3>2. CASE FinishUploads
      BY <3>2 DEF FinishUploads, Presence, Looping
    <3>. QED
      BY <1>9, <3>1, <3>2
  <2>2. /\ LaunchedTo = node - 1 /\ FetchedTo = fetch - 1 /\ FetchedTo' = fetch /\ pc' # "upload"
        /\ LaunchedTo' = node - 1 \/ (node = 0 /\ LaunchedTo' = 0)
    BY <1>2, <2>1, FetchedShape DEF LaunchedTo, FetchedTo
  <2>3. Present(node - 1, fetch - 1, DOMAIN env)
    BY <1>4, <2>1, <2>2 DEF Looping
  <2>4. ASSUME NEW p \in Nodes, p > LaunchedTo', NEW t \in graph.nodes[p].inputs,
               Reaches(t, LaunchedTo', fetch)
        PROVE  t \in DOMAIN env
    <3>1. p > node - 1 /\ (\A q \in Nodes : q <= LaunchedTo' => q <= node - 1)
      BY <1>1, <1>2, <2>2, <2>4
    <3>2. CASE t \in Weight /\ First(UsesOf(t)) = fetch
      BY <1>1, <1>7, <2>1, <3>2
    <3>3. CASE t \in Weight /\ First(UsesOf(t)) <= fetch - 1
      BY <2>3, <3>1, <3>3
    <3>4. CASE t \notin Weight
      BY <2>3, <2>4, <3>1, <3>4
    <3>5. t \in Weight => First(UsesOf(t)) \in Int
      BY <1>7
    <3>6. CASE t \in graph.inputs \/ \E q \in Nodes : q <= LaunchedTo' /\ t \in graph.nodes[q].outputs
      BY <2>3, <3>1, <3>6
    <3>. QED
      BY <1>2, <2>4, <3>2, <3>3, <3>4, <3>5, <3>6
  <2>. QED
    BY <1>5, <2>1, <2>2, <2>4
<1>10. CASE StartUploads
  <2>1. AskedFor(DOMAIN env', pending')
    BY <1>10 DEF StartUploads, ToFetch, AskedFor
  <2>. QED
    BY <1>6, <1>10, <2>1 DEF StartUploads, Looping, LaunchedTo, FetchedTo
<1>11. ASSUME NEW w \in pending, Upload(w) PROVE Presence'
  <2>1. DOMAIN env' = DOMAIN env \cup {w} /\ pending' = pending \ {w} /\ fetch' = fetch /\ pc = "upload"
    BY <1>11, UploadStep DEF Upload
  <2>2. AskedFor(DOMAIN env', pending')
    BY <2>1 DEF AskedFor, Presence, Looping
  <2>. QED
    BY <1>6, <1>11, <2>1, <2>2 DEF Upload, Looping, LaunchedTo, FetchedTo
<1>12. CASE WaitForWeights
  <2>1. /\ pc = "wait" /\ pc' = "prefetch" /\ node' = node /\ fetch' = node + Depth + 1 /\ env' = env
        /\ fetch = node + Depth
    BY <1>12 DEF WaitForWeights, Position
  <2>2. LaunchedTo' = LaunchedTo /\ FetchedTo' = FetchedTo
    BY <1>2, <2>1 DEF LaunchedTo, FetchedTo
  <2>. QED
    BY <1>6, <2>1, <2>2 DEF Looping
<1>13. CASE Launch
  <2>1. /\ pc = "launch" /\ pc' = "free" /\ node' = node /\ fetch' = fetch /\ node \in Nodes
        /\ DOMAIN env' = DOMAIN env \cup graph.nodes[node].outputs
    BY <1>13 DEF Launch, Position
  <2>2. LaunchedTo = node - 1 /\ LaunchedTo' = node /\ FetchedTo = fetch /\ FetchedTo' = fetch
    BY <2>1 DEF LaunchedTo, FetchedTo
  <2>3. Present(node - 1, fetch, DOMAIN env)
    BY <1>4, <2>1, <2>2 DEF Looping
  <2>4. ASSUME NEW p \in Nodes, p > node, NEW t \in graph.nodes[p].inputs, Reaches(t, node, fetch)
        PROVE  t \in DOMAIN env'
    <3>1. p > node - 1 /\ (\A q \in Nodes : q <= node => q = node \/ q <= node - 1)
      BY <1>1, <1>2, <2>4
    <3>2. t \in graph.nodes[node].outputs \/ Reaches(t, node - 1, fetch)
      BY <2>4, <3>1
    <3>. QED
      BY <2>1, <2>3, <3>1, <3>2
  <2>. QED
    BY <1>5, <2>1, <2>2, <2>4
<1>14. CASE Free
  <2>1. /\ pc = "free" /\ node \in Nodes /\ fetch' = fetch
        /\ DOMAIN env' = DOMAIN env \ FreesAfter(node)
        /\ pc' = "sync" \/ (pc' = "wait" /\ node' = node + 1)
    BY <1>14 DEF Free, Without, Position
  <2>2. pc' = "wait" => /\ LaunchedTo = node /\ LaunchedTo' = node
                        /\ FetchedTo = fetch /\ FetchedTo' = fetch
    BY <1>2, <2>1 DEF LaunchedTo, FetchedTo
  <2>3. pc' = "wait" => Present(node, fetch, DOMAIN env)
    BY <1>4, <2>1, <2>2 DEF Looping
  <2>4. \A p \in Nodes : p > node => \A t \in graph.nodes[p].inputs : t \notin FreesAfter(node)
    BY <2>1, FreesAfterLastReader
  <2>5. pc' = "wait" => Present(node, fetch, DOMAIN env')
    BY <2>1, <2>3, <2>4
  <2>. QED
    BY <1>5, <2>1, <2>2, <2>5 DEF Looping
<1>15. CASE Return \/ Raise
  BY <1>5, <1>15 DEF Return, Raise, Looping
<1>16. ASSUME UNCHANGED hostVars PROVE Presence'
  <2>1. UNCHANGED <<pc, node, fetch, env, pending>>
    BY <1>16 DEF hostVars
  <2>2. AskedFor(DOMAIN env, pending) \/ pc # "upload"
    BY <2>1 DEF AskedFor, Presence, Looping
  <2>. QED
    BY <1>4, <1>5, <2>1, <2>2 DEF LaunchedTo, FetchedTo
<1>. QED
  BY <1>8, <1>9, <1>10, <1>11, <1>12, <1>13, <1>14, <1>15, <1>16, Steps DEF Quiet, Execute, vars

-----------------------------------------------------------------------------
(* Waits and copies keep their meaning while the queues grow.              *)
LEMMA BothStreams ==
  ASSUME TypeOK, Queues
  PROVE  /\ "main" \in Stream /\ "copy" \in Stream /\ "main" # "copy"
         /\ DOMAIN queue["main"] = 1..Len(queue["main"]) /\ Len(queue["main"]) \in Nat
         /\ DOMAIN queue["copy"] = 1..Len(queue["copy"]) /\ Len(queue["copy"]) \in Nat
         /\ issued["main"] \in Nat /\ issued["copy"] \in Nat
         /\ Done("main") \in Nat /\ Done("copy") \in Nat
         /\ Done("main") + Len(queue["main"]) = issued["main"]
         /\ Done("copy") + Len(queue["copy"]) = issued["copy"]
<1>1. "main" \in Stream /\ "copy" \in Stream /\ "main" # "copy"
  BY DEF Stream
<1>. QED
  BY <1>1, QueueShape DEF Done

LEMMA GrownFacts ==
  ASSUME TypeOK, Queues, Grown
  PROVE  /\ \A s \in Stream : \A i \in DOMAIN queue[s] :
              i \in DOMAIN queue'[s] /\ queue'[s][i] = queue[s][i]
         /\ Done("main")' = Done("main") /\ Done("copy")' = Done("copy")
         /\ Len(queue["main"]) <= Len(queue'["main"]) /\ Len(queue'["main"]) \in Nat
         /\ DOMAIN queue'["copy"] = 1..Len(queue'["copy"])
<1>1. /\ \A s \in Stream : \A i \in DOMAIN queue[s] :
              i \in DOMAIN queue'[s] /\ queue'[s][i] = queue[s][i]
  <2>1. SUFFICES ASSUME NEW s \in Stream, NEW i \in DOMAIN queue[s]
                 PROVE  i \in DOMAIN queue'[s] /\ queue'[s][i] = queue[s][i]
    OBVIOUS
  <2>2. DOMAIN queue[s] = 1..Len(queue[s]) /\ Len(queue[s]) \in Nat
    BY QueueShape
  <2>. QED
    BY <2>2 DEF Grown
<1>. QED
  BY <1>1, BothStreams DEF Grown

LEMMA AwaitedKept ==
  ASSUME TypeOK, Queues, Grown, NEW k \in Nat, NEW l \in Nat, k <= l, NEW c, Awaited(k, c)
  PROVE  Awaited(l, c)'
<1>1. PICK i \in DOMAIN queue["main"] : i < k /\ WaitFor("main", i, "copy", c)
  BY DEF Awaited
<1>2. i \in DOMAIN queue'["main"] /\ queue'["main"][i] = queue["main"][i] /\ i \in Nat
  BY GrownFacts, BothStreams
<1>. QED
  BY <1>1, <1>2 DEF Awaited, WaitFor

LEMMA BringsKept ==
  ASSUME TypeOK, Queues, Grown, NEW v \in DOMAIN queue["copy"], NEW a, Brings(v, a)
  PROVE  v \in DOMAIN queue'["copy"] /\ Brings(v, a)'
BY GrownFacts, BothStreams DEF Brings, CopyTo

LEMMA GuardedKept ==
  ASSUME TypeOK, Queues, Grown, NEW b, NEW v, NEW m, Guarded(b, v, m),
         \A j \in DOMAIN queue'["copy"] \ DOMAIN queue["copy"] :
           \/ queue'["copy"][j].op # "copy"
           \/ \E i \in DOMAIN queue["copy"] : WaitFor("copy", i, "main", m)
  PROVE  Guarded(b, v, m)'
<1>1. SUFFICES ASSUME NEW j \in DOMAIN queue'["copy"], j > v, CopyTo(j, b)'
               PROVE  \E i \in DOMAIN queue["copy"] : i < j /\ WaitFor("copy", i, "main", m)
  <2>1. ASSUME NEW i \in DOMAIN queue["copy"], WaitFor("copy", i, "main", m)
        PROVE  i \in DOMAIN queue'["copy"] /\ WaitFor("copy", i, "main", m)'
    BY <2>1, GrownFacts, BothStreams DEF WaitFor
  <2>. QED
    BY <2>1 DEF Guarded
<1>2. CASE j \in DOMAIN queue["copy"]
  <2>1. queue'["copy"][j] = queue["copy"][j]
    BY <1>2, GrownFacts, BothStreams
  <2>. QED
    BY <1>1, <1>2, <2>1 DEF Guarded, CopyTo
<1>3. CASE j \notin DOMAIN queue["copy"]
  <2>1. \A i \in DOMAIN queue["copy"] : i < j
    BY <1>3, GrownFacts, BothStreams
  <2>. QED
    BY <1>1, <1>3, <2>1 DEF CopyTo
<1>. QED
  BY <1>2, <1>3

LEMMA UnwrittenKept ==
  ASSUME TypeOK, Queues, Grown, NEW b, NEW v, Unwritten(b, v),
         \A j \in DOMAIN queue'["copy"] \ DOMAIN queue["copy"] :
           queue'["copy"][j].op # "copy" \/ queue'["copy"][j].block # b
  PROVE  Unwritten(b, v)'
<1>1. SUFFICES ASSUME NEW j \in DOMAIN queue'["copy"], j > v PROVE ~ CopyTo(j, b)'
  BY DEF Unwritten
<1>2. CASE j \in DOMAIN queue["copy"]
  BY <1>1, <1>2, GrownFacts, BothStreams DEF Unwritten, CopyTo
<1>3. CASE j \notin DOMAIN queue["copy"]
  BY <1>1, <1>3 DEF CopyTo
<1>. QED
  BY <1>2, <1>3

LEMMA ReadKept ==
  ASSUME TypeOK, Queues, Grown, data' = data, NEW k \in DOMAIN queue["main"], NEW a, ReadSafe(k, a),
         \A j \in DOMAIN queue'["copy"] \ DOMAIN queue["copy"] :
           \/ queue'["copy"][j].op # "copy"
           \/ \E i \in DOMAIN queue["copy"] : WaitFor("copy", i, "main", Done("main") + k)
  PROVE  ReadSafe(k, a)'
<1>1. PICK m : m = Done("main") + k
  OBVIOUS
<1>2. PICK d : d = Done("copy")
  OBVIOUS
<1>3. Done("main")' + k = m /\ Done("copy")' = d /\ k \in Nat
  BY <1>1, <1>2, GrownFacts, BothStreams
<1>4. ASSUME NEW v, Guarded(a.block, v, m) PROVE Guarded(a.block, v, m)'
  BY <1>1, <1>4, GuardedKept
<1>5. CASE Holds(a) /\ Guarded(a.block, 0, m)
  <2>1. Holds(a)' /\ Guarded(a.block, 0, m)'
    BY <1>4, <1>5 DEF Holds
  <2>. QED
    BY <1>3, <2>1 DEF ReadSafe
<1>6. ASSUME NEW v \in DOMAIN queue["copy"], Brings(v, a), Guarded(a.block, v, m), Awaited(k, d + v)
      PROVE  ReadSafe(k, a)'
  <2>1. v \in DOMAIN queue'["copy"] /\ Brings(v, a)' /\ Guarded(a.block, v, m)'
    BY <1>4, <1>6, BringsKept
  <2>2. PICK c : c = d + v
    OBVIOUS
  <2>3. Awaited(k, c)'
    BY <1>3, <1>6, <2>2, AwaitedKept
  <2>. QED
    BY <1>3, <2>1, <2>2, <2>3 DEF ReadSafe
<1>. QED
  BY <1>1, <1>2, <1>5, <1>6 DEF ReadSafe

LEMMA ArrayKept ==
  ASSUME TypeOK, Queues, Grown, data' = data, NEW t, NEW a, ArraySafe(t, a),
         \A j \in DOMAIN queue'["copy"] \ DOMAIN queue["copy"] :
           queue'["copy"][j].op # "copy" \/ queue'["copy"][j].block # a.block,
         NEW u,
         \A c \in Nat : t = a.weight /\ UploadKnown(t, c) /\ c <= issued["copy"] =>
           (u = a.weight /\ UploadKnown(u, c)') \/ Awaited(Len(queue["main"]) + 1, c)'
  PROVE  ArraySafe(u, a)'
<1>1. PICK d \in Nat : d = Done("copy")
  BY BothStreams
<1>2. PICK l \in Nat : l = Len(queue'["main"])
  BY GrownFacts
<1>3. Done("copy")' = d /\ Len(queue["main"]) + 1 \in Nat /\ Len(queue["main"]) + 1 <= l + 1
  BY <1>1, <1>2, GrownFacts, BothStreams
<1>4. CASE Holds(a) /\ Unwritten(a.block, 0)
  BY <1>4, UnwrittenKept DEF ArraySafe, Holds
<1>5. ASSUME NEW v \in DOMAIN queue["copy"], Brings(v, a), Unwritten(a.block, v),
             \/ Awaited(Len(queue["main"]) + 1, d + v)
             \/ t = a.weight /\ UploadKnown(t, d + v)
      PROVE  ArraySafe(u, a)'
  <2>1. v \in DOMAIN queue'["copy"] /\ Brings(v, a)' /\ Unwritten(a.block, v)'
    BY <1>5, BringsKept, UnwrittenKept
  <2>2. PICK c \in Nat : c = d + v /\ c <= issued["copy"]
    BY <1>1, BothStreams
  <2>3. Awaited(l + 1, c)' \/ (u = a.weight /\ UploadKnown(u, c)')
    <3>1. CASE Awaited(Len(queue["main"]) + 1, c)
      BY <1>2, <1>3, <3>1, AwaitedKept
    <3>2. CASE t = a.weight /\ UploadKnown(t, c)
      <4>1. Awaited(Len(queue["main"]) + 1, c)' => Awaited(l + 1, c)'
        BY <1>2, Zenon DEF Awaited
      <4>. QED
        BY <2>2, <3>2, <4>1
    <3>. QED
      BY <1>5, <2>2, <3>1, <3>2
  <2>4. \/ Awaited(Len(queue["main"]) + 1, Done("copy") + v)'
        \/ u = a.weight /\ UploadKnown(u, Done("copy") + v)'
    BY <1>2, <1>3, <2>2, <2>3 DEF Awaited, UploadKnown
  <2>. QED
    BY <2>1, <2>4 DEF ArraySafe
<1>. QED
  BY <1>1, <1>4, <1>5 DEF ArraySafe

(* ... and while they are executed: what stood at place i + 1 stands at i, *)
(* unless it was a wait for something that has happened.                   *)
Shift(s, r) == IF r = s THEN 1 ELSE 0

LEMMA Shifted ==
  ASSUME TypeOK, Queues, NEW s \in Stream, Execute(s), NEW r \in Stream
  PROVE  /\ Shift(s, r) \in {0, 1} /\ Shift(s, r) <= Len(queue[r])
         /\ Len(queue'[r]) = Len(queue[r]) - Shift(s, r) /\ Done(r)' = Done(r) + Shift(s, r)
         /\ DOMAIN queue'[r] = 1..(Len(queue[r]) - Shift(s, r))
         /\ \A i \in 1..(Len(queue[r]) - Shift(s, r)) : queue'[r][i] = queue[r][i + Shift(s, r)]
<1>1. CASE r = s
  BY <1>1, Executed, QueueShape DEF Shift
<1>2. CASE r # s
  <2>1. queue'[r] = queue[r] /\ Done(r)' = Done(r) /\ Shift(s, r) = 0
    BY <1>2, Executed DEF Shift
  <2>. QED
    BY <2>1, QueueShape
<1>. QED
  BY <1>1, <1>2

LEMMA WaitShifted ==
  ASSUME TypeOK, Queues, NEW s \in Stream, Execute(s), NEW r \in Stream, NEW o \in Stream,
         NEW i \in DOMAIN queue[r], NEW c \in Nat, WaitFor(r, i, o, c), c > Done(o)
  PROVE  /\ i - Shift(s, r) \in DOMAIN queue'[r] /\ WaitFor(r, i - Shift(s, r), o, c)'
<1>1. DOMAIN queue[r] = 1..Len(queue[r]) /\ Len(queue[r]) \in Nat /\ queue[r][i] \in OpOf(r)
      /\ Done(o) \in Nat
  BY QueueShape
<1>2. /\ Shift(s, r) \in {0, 1}
      /\ DOMAIN queue'[r] = 1..(Len(queue[r]) - Shift(s, r))
      /\ \A k \in 1..(Len(queue[r]) - Shift(s, r)) : queue'[r][k] = queue[r][k + Shift(s, r)]
  BY Shifted
<1>3. queue[r][i].event \in Event
  BY <1>1 DEF WaitFor, OpOf, WaitOp, CopyOp, KernelOp
<1>4. CASE i = 1 /\ r = s
  <2>1. Fired(queue[r][i].event)
    BY <1>4, Executed DEF WaitFor
  <2>2. Done(o) >= queue[r][i].event.count
    BY <2>1 DEF Fired, WaitFor, Done
  <2>3. queue[r][i].event.count >= c /\ queue[r][i].event.count \in Nat
    BY <1>3 DEF WaitFor, Event
  <2>. QED
    BY <1>1, <2>2, <2>3
<1>5. CASE i # 1 \/ r # s
  <2>1. PICK k : k = i - Shift(s, r)
    OBVIOUS
  <2>2. k \in 1..(Len(queue[r]) - Shift(s, r)) /\ k + Shift(s, r) = i
    <3>1. CASE r = s
      <4>1. Shift(s, r) = 1
        BY <3>1 DEF Shift
      <4>. QED
        BY <1>1, <1>5, <2>1, <3>1, <4>1
    <3>2. CASE r # s
      <4>1. Shift(s, r) = 0
        BY <3>2 DEF Shift
      <4>. QED
        BY <1>1, <2>1, <4>1
    <3>. QED
      BY <3>1, <3>2
  <2>3. k \in DOMAIN queue'[r] /\ queue'[r][k] = queue[r][i]
    BY <1>2, <2>2
  <2>4. WaitFor(r, k, o, c)'
    BY <2>3 DEF WaitFor
  <2>5. Shift(s, r)' = Shift(s, r)
    BY DEF Shift
  <2>. QED
    BY <2>1, <2>3, <2>4 DEF WaitFor
<1>. QED
  BY <1>4, <1>5

LEMMA GuardedShifted ==
  ASSUME TypeOK, Queues, NEW s \in Stream, Execute(s), NEW b, NEW v \in Nat, NEW u \in Nat,
         u + Shift(s, "copy") >= v, NEW m \in Nat, m > Done("main"), Guarded(b, v, m)
  PROVE  Guarded(b, u, m)'
<1>1. PICK d \in {0, 1} : d = Shift(s, "copy")
  BY DEF Shift
<1>2. /\ DOMAIN queue'["copy"] = 1..(Len(queue["copy"]) - d)
      /\ \A k \in 1..(Len(queue["copy"]) - d) : queue'["copy"][k] = queue["copy"][k + d]
  BY <1>1, Shifted, BothStreams
<1>3. SUFFICES ASSUME NEW j \in DOMAIN queue'["copy"], j > u, CopyTo(j, b)'
               PROVE  \E i \in DOMAIN queue'["copy"] : i < j /\ WaitFor("copy", i, "main", m)'
  BY DEF Guarded
<1>4. j + d \in DOMAIN queue["copy"] /\ j + d > v /\ queue'["copy"][j] = queue["copy"][j + d]
      /\ j \in Nat
  BY <1>1, <1>2, <1>3, BothStreams
<1>5. CopyTo(j + d, b)
  BY <1>3, <1>4 DEF CopyTo
<1>6. PICK i \in DOMAIN queue["copy"] : i < j + d /\ WaitFor("copy", i, "main", m)
  BY <1>4, <1>5 DEF Guarded
<1>7. PICK k : k = i - d
  OBVIOUS
<1>8. k \in DOMAIN queue'["copy"] /\ WaitFor("copy", k, "main", m)'
  <2>1. i - Shift(s, "copy") \in DOMAIN queue'["copy"] /\ WaitFor("copy", i - Shift(s, "copy"), "main", m)'
    BY <1>6, WaitShifted, BothStreams
  <2>2. i - Shift(s, "copy") = k
    BY <1>1, <1>7
  <2>. QED
    BY <2>1, <2>2 DEF WaitFor
<1>9. k < j
  BY <1>4, <1>6, <1>7, BothStreams
<1>. QED
  BY <1>8, <1>9

LEMMA UnwrittenShifted ==
  ASSUME TypeOK, Queues, NEW s \in Stream, Execute(s), NEW b, NEW v \in Nat, NEW u \in Nat,
         u + Shift(s, "copy") >= v, Unwritten(b, v)
  PROVE  Unwritten(b, u)'
<1>1. PICK d \in {0, 1} : d = Shift(s, "copy")
  BY DEF Shift
<1>2. /\ DOMAIN queue'["copy"] = 1..(Len(queue["copy"]) - d)
      /\ \A k \in 1..(Len(queue["copy"]) - d) : queue'["copy"][k] = queue["copy"][k + d]
  BY <1>1, Shifted, BothStreams
<1>3. SUFFICES ASSUME NEW j \in DOMAIN queue'["copy"], j > u PROVE ~ CopyTo(j, b)'
  BY DEF Unwritten
<1>4. j + d \in DOMAIN queue["copy"] /\ j + d > v /\ queue'["copy"][j] = queue["copy"][j + d]
  BY <1>1, <1>2, <1>3, BothStreams
<1>. QED
  BY <1>4 DEF Unwritten, CopyTo

LEMMA AwaitedShifted ==
  ASSUME TypeOK, Queues, NEW s \in Stream, Execute(s), NEW k \in Nat, NEW l \in Nat,
         l + Shift(s, "main") = k, NEW c \in Nat, c > Done("copy"), Awaited(k, c)
  PROVE  Awaited(l, c)'
<1>1. PICK d \in {0, 1} : d = Shift(s, "main")
  BY DEF Shift
<1>2. PICK i \in DOMAIN queue["main"] : i < k /\ WaitFor("main", i, "copy", c)
  BY DEF Awaited
<1>3. PICK h : h = i - d
  OBVIOUS
<1>4. h \in DOMAIN queue'["main"] /\ WaitFor("main", h, "copy", c)'
  <2>1. i - Shift(s, "main") \in DOMAIN queue'["main"] /\ WaitFor("main", i - Shift(s, "main"), "copy", c)'
    BY <1>2, WaitShifted, BothStreams
  <2>2. i - Shift(s, "main") = h
    BY <1>1, <1>3
  <2>. QED
    BY <2>1, <2>2 DEF WaitFor
<1>5. h < l
  BY <1>1, <1>2, <1>3, BothStreams
<1>. QED
  BY <1>4, <1>5 DEF Awaited

(* A copy that is executed brings what it has to; no other reaches a block *)
(* that is guarded.                                                        *)
LEMMA HoldsShifted ==
  ASSUME TypeOK, Queues, NEW s \in Stream, Execute(s), NEW a, Holds(a),
         1 \in DOMAIN queue["copy"] => ~ CopyTo(1, a.block)
  PROVE  Holds(a)'
<1>1. PICK op : op = queue[s][1] /\ op = Head(queue[s])
  <2>1. PICK q \in Seq(OpOf(s)) : q = queue[s] /\ q # <<>>
    BY DEF Queues, Execute
  <2>2. Head(q) = q[1]
    BY <2>1
  <2>. QED
    BY <2>1, <2>2
<1>2. CASE op.op # "copy"
  BY <1>1, <1>2 DEF Execute, Holds
<1>3. CASE op.op = "copy"
  <2>1. s = "copy" /\ 1 \in DOMAIN queue["copy"]
    <3>1. 1 \in DOMAIN queue[s] /\ op \in OpOf(s)
      BY <1>1, Executed, QueueShape
    <3>2. s = "copy"
      BY <1>3, <3>1 DEF OpOf, WaitOp, KernelOp, Stream
    <3>. QED
      BY <3>1, <3>2
  <2>2. op.block # a.block
    BY <1>1, <1>3, <2>1 DEF CopyTo
  <2>. QED
    BY <1>1, <1>3, <2>2 DEF Execute, Holds
<1>. QED
  BY <1>2, <1>3

LEMMA CopyDone ==
  ASSUME TypeOK, Queues, Execute("copy"), NEW a, Brings(1, a)
  PROVE  Holds(a)'
<1>1. PICK op : op = queue["copy"][1] /\ op = Head(queue["copy"])
  <2>1. PICK q \in Seq(OpOf("copy")) : q = queue["copy"] /\ q # <<>>
    BY BothStreams DEF Queues, Execute
  <2>2. Head(q) = q[1]
    BY <2>1
  <2>. QED
    BY <2>1, <2>2
<1>2. op.op = "copy" /\ op.block = a.block /\ op.weight = a.weight
  BY <1>1 DEF Brings, CopyTo
<1>. QED
  BY <1>1, <1>2 DEF Execute, Holds

LEMMA BringsShifted ==
  ASSUME TypeOK, Queues, NEW s \in Stream, Execute(s), NEW v \in DOMAIN queue["copy"], NEW a, Brings(v, a),
         NEW u \in Nat \ {0}, u + Shift(s, "copy") = v
  PROVE  u \in DOMAIN queue'["copy"] /\ Brings(u, a)'
<1>1. PICK d \in {0, 1} : d = Shift(s, "copy")
  BY DEF Shift
<1>2. /\ DOMAIN queue'["copy"] = 1..(Len(queue["copy"]) - d)
      /\ \A k \in 1..(Len(queue["copy"]) - d) : queue'["copy"][k] = queue["copy"][k + d]
  BY <1>1, Shifted, BothStreams
<1>3. u \in 1..(Len(queue["copy"]) - d) /\ u + d = v
  BY <1>1, BothStreams
<1>. QED
  BY <1>2, <1>3 DEF Brings, CopyTo

LEMMA ReadShifted ==
  ASSUME TypeOK, Queues, NEW s \in Stream, Execute(s), NEW k \in DOMAIN queue["main"],
         NEW l \in DOMAIN queue'["main"], l + Shift(s, "main") = k, NEW a, ReadSafe(k, a)
  PROVE  ReadSafe(l, a)'
<1>1. PICK m \in Nat : m = Done("main") + k
  BY BothStreams
<1>2. PICK d \in Nat : d = Done("copy")
  BY BothStreams
<1>3. /\ l \in Nat /\ k \in Nat /\ Done("main")' + l = m /\ Done("copy")' = d + Shift(s, "copy")
      /\ m > Done("main") /\ Shift(s, "copy") \in {0, 1} /\ (Shift(s, "copy") = 1 => s = "copy")
  <2>1. Done("main")' = Done("main") + Shift(s, "main") /\ Shift(s, "main") \in {0, 1}
        /\ DOMAIN queue'["main"] = 1..(Len(queue["main"]) - Shift(s, "main"))
    BY Shifted, BothStreams
  <2>2. Done("copy")' = d + Shift(s, "copy")
    BY <1>2, Shifted, BothStreams
  <2>3. l \in Nat /\ k \in Nat \ {0} /\ Done("main") \in Nat
    BY <2>1, BothStreams
  <2>. QED
    BY <1>1, <2>1, <2>2, <2>3 DEF Shift
<1>4. CASE Holds(a) /\ Guarded(a.block, 0, m)
  <2>1. 1 \in DOMAIN queue["copy"] => ~ CopyTo(1, a.block)
    BY <1>4, BothStreams DEF Guarded
  <2>2. Holds(a)' /\ Guarded(a.block, 0, m)'
    BY <1>3, <1>4, <2>1, HoldsShifted, GuardedShifted
  <2>. QED
    BY <1>3, <2>2 DEF ReadSafe
<1>5. ASSUME NEW v \in DOMAIN queue["copy"], Brings(v, a), Guarded(a.block, v, m), Awaited(k, d + v)
      PROVE  ReadSafe(l, a)'
  <2>1. v \in Nat \ {0}
    BY BothStreams
  <2>2. CASE v = 1 /\ s = "copy"
    <3>1. Shift(s, "copy") = 1
      BY <2>2 DEF Shift
    <3>2. Holds(a)' /\ Guarded(a.block, 0, m)'
      BY <1>3, <1>5, <2>1, <2>2, <3>1, CopyDone, GuardedShifted
    <3>. QED
      BY <1>3, <3>2 DEF ReadSafe
  <2>3. CASE v # 1 \/ s # "copy"
    <3>1. PICK u \in Nat \ {0} : u + Shift(s, "copy") = v
      <4>1. v - Shift(s, "copy") \in Nat \ {0} /\ (v - Shift(s, "copy")) + Shift(s, "copy") = v
        BY <1>3, <2>1, <2>3
      <4>. QED
        BY <4>1
    <3>2. u \in DOMAIN queue'["copy"] /\ Brings(u, a)'
      BY <1>5, <3>1, BringsShifted
    <3>3. Guarded(a.block, u, m)'
      BY <1>3, <1>5, <2>1, <3>1, GuardedShifted
    <3>4. PICK c \in Nat : c = d + v /\ c > Done("copy")
      BY <1>2, <2>1
    <3>5. Awaited(l, c)'
      BY <1>3, <1>5, <3>4, AwaitedShifted
    <3>6. Done("copy")' + u = c
      BY <1>2, <1>3, <2>1, <3>1, <3>4
    <3>. QED
      BY <1>3, <3>2, <3>3, <3>5, <3>6 DEF ReadSafe
  <2>. QED
    BY <2>2, <2>3
<1>. QED
  BY <1>1, <1>2, <1>4, <1>5 DEF ReadSafe

LEMMA ArrayShifted ==
  ASSUME TypeOK, Queues, NEW s \in Stream, Execute(s), NEW t, NEW a, ArraySafe(t, a)
  PROVE  ArraySafe(t, a)'
<1>1. PICK d \in Nat : d = Done("copy")
  BY BothStreams
<1>2. PICK l \in Nat : l = Len(queue'["main"]) /\ (l + 1) + Shift(s, "main") = Len(queue["main"]) + 1
  <2>1. /\ Shift(s, "main") \in {0, 1} /\ Shift(s, "main") <= Len(queue["main"])
        /\ Len(queue'["main"]) = Len(queue["main"]) - Shift(s, "main") /\ Len(queue["main"]) \in Nat
    BY Shifted, BothStreams
  <2>. QED
    BY <2>1
<1>3. /\ Done("copy")' = d + Shift(s, "copy")
      /\ Shift(s, "copy") \in {0, 1} /\ (Shift(s, "copy") = 1 => s = "copy")
  <2>1. Done("copy")' = d + Shift(s, "copy")
    BY <1>1, Shifted, BothStreams
  <2>. QED
    BY <2>1 DEF Shift
<1>4. CASE Holds(a) /\ Unwritten(a.block, 0)
  <2>1. 1 \in DOMAIN queue["copy"] => ~ CopyTo(1, a.block)
    BY <1>4, BothStreams DEF Unwritten
  <2>2. Holds(a)' /\ Unwritten(a.block, 0)'
    BY <1>3, <1>4, <2>1, HoldsShifted, UnwrittenShifted
  <2>. QED
    BY <2>2 DEF ArraySafe
<1>5. ASSUME NEW v \in DOMAIN queue["copy"], Brings(v, a), Unwritten(a.block, v),
             \/ Awaited(Len(queue["main"]) + 1, d + v)
             \/ t = a.weight /\ UploadKnown(t, d + v)
      PROVE  ArraySafe(t, a)'
  <2>1. v \in Nat \ {0}
    BY BothStreams
  <2>2. CASE v = 1 /\ s = "copy"
    <3>1. Shift(s, "copy") = 1
      BY <2>2 DEF Shift
    <3>2. Holds(a)' /\ Unwritten(a.block, 0)'
      BY <1>3, <1>5, <2>1, <2>2, <3>1, CopyDone, UnwrittenShifted
    <3>. QED
      BY <3>2 DEF ArraySafe
  <2>3. CASE v # 1 \/ s # "copy"
    <3>1. PICK u \in Nat \ {0} : u + Shift(s, "copy") = v
      <4>1. v - Shift(s, "copy") \in Nat \ {0} /\ (v - Shift(s, "copy")) + Shift(s, "copy") = v
        BY <1>3, <2>1, <2>3
      <4>. QED
        BY <4>1
    <3>2. u \in DOMAIN queue'["copy"] /\ Brings(u, a)' /\ Unwritten(a.block, u)'
      BY <1>3, <1>5, <2>1, <3>1, BringsShifted, UnwrittenShifted
    <3>3. PICK c \in Nat : c = d + v /\ c > Done("copy")
      BY <1>1, <2>1
    <3>4. Awaited(l + 1, c)' \/ (t = a.weight /\ UploadKnown(t, c)')
      <4>1. CASE Awaited(Len(queue["main"]) + 1, c)
        BY <1>2, <3>3, <4>1, AwaitedShifted, BothStreams
      <4>2. CASE t = a.weight /\ UploadKnown(t, c)
        <5>1. UNCHANGED <<graph, pc, fetch, upEvt>>
          BY DEF Execute, hostVars
        <5>2. UsesOf(t)' = UsesOf(t)
          BY <5>1, ScheduleKept
        <5>3. First(UsesOf(t))' = First(UsesOf(t))
          BY <5>2, Zenon
        <5>. QED
          BY <4>2, <5>1, <5>3 DEF UploadKnown
      <4>. QED
        BY <1>5, <3>3, <4>1, <4>2
    <3>5. Done("copy")' + u = c
      BY <1>1, <1>3, <2>1, <3>1, <3>3
    <3>6. \/ Awaited(Len(queue["main"]) + 1, Done("copy") + u)'
          \/ t = a.weight /\ UploadKnown(t, Done("copy") + u)'
      BY <1>2, <3>4, <3>5 DEF Awaited, UploadKnown
    <3>. QED
      BY <3>2, <3>6 DEF ArraySafe
  <2>. QED
    BY <2>2, <2>3
<1>. QED
  BY <1>1, <1>4, <1>5 DEF ArraySafe

LEMMA StartNoCopy ==
  ASSUME IInv, StartUploads
  PROVE  \A j \in DOMAIN queue'["copy"] \ DOMAIN queue["copy"] : queue'["copy"][j].op # "copy"
<1>1. CASE lastCmp = <<>>
  BY <1>1, StartStep, BothStreams DEF SameQueues, IInv
<1>2. CASE lastCmp # <<>>
  <2>1. /\ DOMAIN queue'["copy"] = 1..(Len(queue["copy"]) + 1)
        /\ queue'["copy"][Len(queue["copy"]) + 1].op = "wait"
    BY <1>2, StartStep, BothStreams, GrownFacts DEF NewOp, IInv
  <2>. QED
    BY <2>1, BothStreams DEF IInv
<1>. QED
  BY <1>1, <1>2

-----------------------------------------------------------------------------
(* The invariants about the streams.                                       *)
LEMMA LastKernelKept ==
  ASSUME IInv, [Next]_vars
  PROVE  LastKernel'
<1>. USE DEF IInv
<1>1. ASSUME NEW k \in DOMAIN queue["main"]
      PROVE  k \in Nat \ {0} /\ (CurrentKernel(k) => queue["main"][k].run <= run)
  BY <1>1, BothStreams DEF Queues, CurrentKernel
<1>2. run \in Nat
  BY DEF TypeOK
<1>3. ASSUME Grown, run' = run, pc' # "upload", lastCmp' = lastCmp,
             \A k \in DOMAIN queue'["main"] \ DOMAIN queue["main"] : queue'["main"][k].op # "kernel"
      PROVE  LastKernel'
  <2>1. SUFFICES ASSUME NEW k \in DOMAIN queue'["main"], CurrentKernel(k)'
                 PROVE  /\ lastCmp # <<>> /\ lastCmp[1].stream = "main"
                        /\ lastCmp[1].count >= Done("main")' + k
    BY <1>3 DEF LastKernel
  <2>2. k \in DOMAIN queue["main"]
    BY <1>3, <2>1 DEF CurrentKernel
  <2>3. CurrentKernel(k)
    BY <1>3, <2>1, <2>2, GrownFacts, BothStreams DEF CurrentKernel
  <2>. QED
    BY <1>3, <2>2, <2>3, GrownFacts DEF LastKernel
<1>4. CASE Begin
  <2>1. SameQueues /\ run' = run + 1
    BY <1>4, QuietStep DEF Quiet, Begin
  <2>2. \A k \in DOMAIN queue'["main"] : ~ CurrentKernel(k)'
    <3>1. SUFFICES ASSUME NEW k \in DOMAIN queue["main"], queue["main"][k].op = "kernel"
                   PROVE  queue["main"][k].run # run + 1
      BY <2>1, BothStreams DEF CurrentKernel, SameQueues
    <3>. QED
      BY <1>2, <3>1 DEF Queues
  <2>. QED
    BY <2>2 DEF LastKernel
<1>5. CASE FetchNothing \/ FinishUploads \/ Free \/ Return \/ Raise
  <2>1. Grown /\ SameQueues
    BY <1>5, QuietStep DEF Quiet
  <2>2. pc' # "upload"
    BY <1>5, FetchedShape DEF FetchNothing, FinishUploads, Free, Return, Raise
  <2>. QED
    BY <1>3, <1>5, <2>1, <2>2, BothStreams
    DEF SameQueues, FetchNothing, FinishUploads, Free, Return, Raise
<1>6. CASE UNCHANGED vars
  BY <1>6 DEF vars, hostVars, LastKernel, CurrentKernel, WaitFor, Done
<1>7. CASE StartUploads
  <2>1. Grown /\ queue'["main"] = queue["main"] /\ UNCHANGED <<run, lastCmp>>
    BY <1>7, StartStep, BothStreams DEF NewOp, SameQueues, StartUploads
  <2>2. SUFFICES ASSUME NEW k \in DOMAIN queue["main"], CurrentKernel(k)
                 PROVE  /\ lastCmp # <<>> /\ lastCmp[1].stream = "main"
                        /\ lastCmp[1].count >= Done("main") + k
                        /\ \E i \in DOMAIN queue'["copy"] : WaitFor("copy", i, "main", Done("main") + k)'
    BY <2>1, GrownFacts DEF LastKernel, CurrentKernel, WaitFor
  <2>3. lastCmp # <<>> /\ lastCmp[1].stream = "main" /\ lastCmp[1].count >= Done("main") + k
    BY <2>2 DEF LastKernel
  <2>4. /\ Len(queue["copy"]) + 1 \in DOMAIN queue'["copy"]
        /\ queue'["copy"][Len(queue["copy"]) + 1] = [op |-> "wait", event |-> lastCmp[1]]
    BY <1>7, <2>1, <2>3, StartStep, GrownFacts, BothStreams DEF NewOp
  <2>5. PICK i : i = Len(queue["copy"]) + 1
    OBVIOUS
  <2>6. i \in DOMAIN queue'["copy"] /\ WaitFor("copy", i, "main", Done("main") + k)'
    BY <2>1, <2>3, <2>4, <2>5, GrownFacts DEF WaitFor
  <2>. QED
    BY <2>3, <2>6
<1>8. ASSUME NEW w \in pending, Upload(w) PROVE LastKernel'
  <2>1. Grown /\ queue'["main"] = queue["main"] /\ UNCHANGED <<run, lastCmp, pc>>
    BY <1>8, UploadStep, BothStreams DEF NewOp, Upload
  <2>2. ASSUME NEW k, NEW i \in DOMAIN queue["copy"], WaitFor("copy", i, "main", Done("main") + k)
        PROVE  i \in DOMAIN queue'["copy"] /\ WaitFor("copy", i, "main", Done("main") + k)'
    BY <2>1, <2>2, GrownFacts, BothStreams DEF WaitFor
  <2>3. \A k : CurrentKernel(k)' <=> CurrentKernel(k)
    BY <2>1 DEF CurrentKernel
  <2>. QED
    BY <2>1, <2>2, <2>3, GrownFacts DEF LastKernel
<1>9. CASE WaitForWeights
  <2>1. Grown /\ run' = run /\ pc' = "prefetch" /\ lastCmp' = lastCmp
    BY <1>9, WaitStep DEF WaitForWeights
  <2>2. \A k \in DOMAIN queue'["main"] \ DOMAIN queue["main"] : queue'["main"][k].op # "kernel"
    <3>1. CASE node \in DOMAIN upEvt
      <4>1. /\ Len(queue'["main"]) = Len(queue["main"]) + 1 /\ DOMAIN queue'["main"] = 1..Len(queue'["main"])
            /\ queue'["main"][Len(queue["main"]) + 1].op = "wait"
        BY <1>9, <2>1, <3>1, WaitStep, BothStreams DEF NewOp, Grown
      <4>. QED
        BY <4>1, BothStreams
    <3>2. CASE node \notin DOMAIN upEvt
      BY <1>9, <3>2, WaitStep, BothStreams DEF SameQueues
    <3>. QED
      BY <3>1, <3>2
  <2>. QED
    BY <1>3, <2>1, <2>2
<1>10. CASE Launch
  <2>1. /\ Grown /\ lastCmp' = <<[stream |-> "main", count |-> issued'["main"]]>> /\ pc' = "free"
    BY <1>10, LaunchStep DEF Launch
  <2>2. /\ DOMAIN queue'["main"] = 1..Len(queue'["main"]) /\ Len(queue'["main"]) \in Nat
        /\ Done("main")' = issued'["main"] - Len(queue'["main"]) /\ Done("main") \in Nat
        /\ Done("main")' = Done("main")
    BY <2>1, BothStreams DEF Grown, Done
  <2>3. issued'["main"] \in Nat
    BY TypesKept, BothStreams DEF TypeOK
  <2>4. \A k \in DOMAIN queue'["main"] : issued'["main"] >= Done("main")' + k
    <3>1. PICK d \in Nat : d = Done("main") /\ d = issued'["main"] - Len(queue'["main"])
      BY <2>2
    <3>2. \A k \in DOMAIN queue'["main"] : issued'["main"] >= d + k
      BY <2>2, <2>3, <3>1
    <3>. QED
      BY <2>2, <3>1, <3>2, Zenon
  <2>5. lastCmp' # <<>> /\ lastCmp'[1].stream = "main" /\ lastCmp'[1].count = issued'["main"]
    BY <2>1
  <2>. QED
    BY <2>1, <2>4, <2>5 DEF LastKernel
<1>11. ASSUME NEW s \in Stream, Execute(s) PROVE LastKernel'
  <2>1. UNCHANGED <<run, lastCmp, pc>>
    BY <1>11 DEF Execute, hostVars
  <2>2. SUFFICES ASSUME NEW l \in DOMAIN queue'["main"], CurrentKernel(l)'
                 PROVE  /\ lastCmp # <<>> /\ lastCmp[1].stream = "main"
                        /\ lastCmp[1].count >= Done("main")' + l
                        /\ pc = "upload" =>
                             \E i \in DOMAIN queue'["copy"] : WaitFor("copy", i, "main", Done("main") + l)'
    BY <2>1 DEF LastKernel, WaitFor
  <2>3. PICK k : k = l + Shift(s, "main")
    OBVIOUS
  <2>4. /\ k \in DOMAIN queue["main"] /\ queue'["main"][l] = queue["main"][k]
        /\ Done("main")' = Done("main") + Shift(s, "main") /\ l \in Nat \ {0} /\ Shift(s, "main") \in {0, 1}
    <3>1. PICK d \in {0, 1} : d = Shift(s, "main")
      BY DEF Shift
    <3>2. /\ DOMAIN queue'["main"] = 1..(Len(queue["main"]) - d)
          /\ \A i \in 1..(Len(queue["main"]) - d) : queue'["main"][i] = queue["main"][i + d]
          /\ Done("main")' = Done("main") + d
      BY <1>11, <3>1, Shifted, BothStreams
    <3>. QED
      BY <2>3, <3>1, <3>2, BothStreams
  <2>5. PICK m \in Nat : m = Done("main") + k /\ m > Done("main") /\ Done("main")' + l = m
    <3>1. k \in Nat \ {0} /\ Done("main") \in Nat
      BY <2>4, BothStreams
    <3>2. PICK d \in Nat : d = Done("main")
      BY <3>1
    <3>3. Done("main")' + l = d + k
      BY <2>3, <2>4, <3>2
    <3>. QED
      BY <3>1, <3>2, <3>3
  <2>6. CurrentKernel(k)
    BY <2>1, <2>2, <2>4 DEF CurrentKernel
  <2>7. /\ lastCmp # <<>> /\ lastCmp[1].stream = "main" /\ lastCmp[1].count >= m
        /\ pc = "upload" => \E i \in DOMAIN queue["copy"] : WaitFor("copy", i, "main", m)
    BY <2>4, <2>5, <2>6 DEF LastKernel
  <2>8. ASSUME NEW i \in DOMAIN queue["copy"], WaitFor("copy", i, "main", m)
        PROVE  \E j \in DOMAIN queue'["copy"] : WaitFor("copy", j, "main", m)'
    <3>1. PICK j : j = i - Shift(s, "copy")
      OBVIOUS
    <3>2. i - Shift(s, "copy") \in DOMAIN queue'["copy"] /\ WaitFor("copy", i - Shift(s, "copy"), "main", m)'
      BY <1>11, <2>5, <2>8, WaitShifted, BothStreams
    <3>3. j \in DOMAIN queue'["copy"] /\ WaitFor("copy", j, "main", m)'
      BY <3>1, <3>2 DEF WaitFor
    <3>. QED
      BY <3>3
  <2>. QED
    BY <2>5, <2>7, <2>8 DEF WaitFor
<1>. QED
  BY <1>4, <1>5, <1>6, <1>7, <1>8, <1>9, <1>10, <1>11, Steps DEF Quiet

(* What a kernel or a view of this node reads has been waited for: the     *)
(* events of the nodes up to this one are gone.                            *)
LEMMA OperandKnown ==
  ASSUME IInv, pc = "launch", NEW t \in graph.nodes[node].inputs \cap DOMAIN env,
         NEW a, a = env[t], a # Activation, NEW c
  PROVE  ArraySafe(t, a) /\ ~ (t = a.weight /\ UploadKnown(t, c))
<1>. USE DEF IInv
<1>1. ArraySafe(t, a)
  BY DEF ArraysSafe, Looping
<1>2. SUFFICES ASSUME t = a.weight, UploadKnown(t, c) PROVE FALSE
  BY <1>1
<1>3. node \in Nodes /\ t \in Weight
  BY <1>2 DEF Position, ArraysTyped
<1>4. First(UsesOf(t)) \in Nodes /\ First(UsesOf(t)) <= node
  BY <1>3, FirstUse
<1>5. First(UsesOf(t)) \in DOMAIN upEvt
  BY <1>2 DEF UploadKnown
<1>6. First(UsesOf(t)) > node
  BY <1>5 DEF EventsAhead, Looping
<1>. QED
  BY <1>3, <1>4, <1>6, GraphShape

LEMMA KernelsKept ==
  ASSUME IInv, [Next]_vars
  PROVE  KernelsSafe'
<1>. USE DEF IInv
<1>. DEFINE NewKernel(k) == k \in DOMAIN queue'["main"] \ DOMAIN queue["main"] /\ CurrentKernel(k)'
<1>1. ASSUME Grown, run' = run, data' = data,
             \A j \in DOMAIN queue'["copy"] \ DOMAIN queue["copy"] :
               queue'["copy"][j].op # "copy" \/ pc = "upload",
             \A k : NewKernel(k) => \A a \in queue'["main"][k].reads : ReadSafe(k, a)'
      PROVE  KernelsSafe'
  <2>1. SUFFICES ASSUME NEW k \in DOMAIN queue["main"], CurrentKernel(k)',
                        NEW a \in queue'["main"][k].reads
                 PROVE  ReadSafe(k, a)'
    BY <1>1 DEF KernelsSafe
  <2>2. queue'["main"][k] = queue["main"][k] /\ CurrentKernel(k)
    BY <1>1, <2>1, GrownFacts, BothStreams DEF CurrentKernel
  <2>3. ReadSafe(k, a)
    BY <2>1, <2>2 DEF KernelsSafe
  <2>4. pc = "upload" => \E i \in DOMAIN queue["copy"] : WaitFor("copy", i, "main", Done("main") + k)
    BY <2>2 DEF LastKernel
  <2>. QED
    BY <1>1, <2>3, <2>4, ReadKept
<1>2. CASE Begin
  <2>1. SameQueues /\ run' = run + 1 /\ run \in Nat
    BY <1>2, QuietStep DEF Quiet, Begin, TypeOK
  <2>2. \A k \in DOMAIN queue'["main"] : ~ CurrentKernel(k)'
    <3>1. SUFFICES ASSUME NEW k \in DOMAIN queue["main"], queue["main"][k].op = "kernel"
                   PROVE  queue["main"][k].run # run + 1
      BY <2>1, BothStreams DEF CurrentKernel, SameQueues
    <3>. QED
      BY <2>1, <3>1 DEF Queues
  <2>. QED
    BY <2>2 DEF KernelsSafe
<1>3. CASE FetchNothing \/ FinishUploads \/ Free \/ Return \/ Raise \/ UNCHANGED vars
  <2>1. Grown /\ SameQueues
    BY <1>3, QuietStep DEF Quiet
  <2>2. run' = run /\ data' = data
    BY <1>3 DEF FetchNothing, FinishUploads, Free, Return, Raise, vars, hostVars
  <2>. QED
    BY <1>1, <2>1, <2>2, BothStreams DEF SameQueues
<1>4. CASE StartUploads
  <2>1. Grown /\ queue'["main"] = queue["main"] /\ UNCHANGED <<run, data>>
    BY <1>4, StartStep, BothStreams DEF NewOp, SameQueues, StartUploads
  <2>2. \A j \in DOMAIN queue'["copy"] \ DOMAIN queue["copy"] : queue'["copy"][j].op # "copy"
    BY <1>4, StartNoCopy
  <2>. QED
    BY <1>1, <2>1, <2>2
<1>5. ASSUME NEW w \in pending, Upload(w) PROVE KernelsSafe'
  <2>1. Grown /\ queue'["main"] = queue["main"] /\ UNCHANGED <<run, data>> /\ pc = "upload"
    BY <1>5, UploadStep, BothStreams DEF NewOp, Upload
  <2>. QED
    BY <1>1, <2>1
<1>6. CASE WaitForWeights
  <2>1. Grown /\ queue'["copy"] = queue["copy"] /\ UNCHANGED <<run, data>>
    BY <1>6, WaitStep, BothStreams DEF NewOp, SameQueues, WaitForWeights
  <2>2. \A k : ~ NewKernel(k)
    <3>1. CASE node \in DOMAIN upEvt
      <4>1. /\ Len(queue'["main"]) = Len(queue["main"]) + 1 /\ DOMAIN queue'["main"] = 1..Len(queue'["main"])
            /\ queue'["main"][Len(queue["main"]) + 1].op = "wait"
        BY <1>6, <2>1, <3>1, WaitStep, BothStreams DEF NewOp, Grown
      <4>. QED
        BY <4>1, BothStreams DEF CurrentKernel
    <3>2. CASE node \notin DOMAIN upEvt
      BY <1>6, <3>2, WaitStep, BothStreams DEF SameQueues
    <3>. QED
      BY <3>1, <3>2
  <2>. QED
    BY <1>1, <2>1, <2>2
<1>7. CASE Launch
  <2>1. Grown /\ queue'["copy"] = queue["copy"] /\ UNCHANGED <<run, data>> /\ pc = "launch"
    BY <1>7, LaunchStep, BothStreams DEF NewOp, SameQueues, Launch
  <2>2. ASSUME NEW k, NewKernel(k), NEW a \in queue'["main"][k].reads PROVE ReadSafe(k, a)'
    <3>1. graph.nodes[node].op = "compute"
      BY <1>7, <2>2, LaunchStep, BothStreams DEF SameQueues
    <3>2. /\ Len(queue'["main"]) = Len(queue["main"]) + 1 /\ DOMAIN queue'["main"] = 1..Len(queue'["main"])
          /\ queue'["main"][Len(queue["main"]) + 1].reads = Operands \ {Activation}
      BY <1>7, <2>1, <3>1, LaunchStep, BothStreams DEF NewOp, Grown
    <3>3. k = Len(queue["main"]) + 1 /\ a \in Operands \ {Activation}
      BY <2>2, <3>2, BothStreams
    <3>4. PICK t \in graph.nodes[node].inputs \cap DOMAIN env : a = env[t]
      BY <3>3 DEF Operands
    <3>5. ArraySafe(t, a) /\ \A c : ~ (t = a.weight /\ UploadKnown(t, c))
      BY <2>1, <3>3, <3>4, OperandKnown
    <3>6. \A v, m : Unwritten(a.block, v) => Guarded(a.block, v, m)'
      BY <2>1 DEF Unwritten, Guarded, CopyTo
    <3>7. Done("copy")' = Done("copy")
      BY <2>1, GrownFacts
    <3>8. CASE Holds(a) /\ Unwritten(a.block, 0)
      <4>1. Holds(a)'
        BY <2>1, <3>8 DEF Holds
      <4>. QED
        BY <3>6, <3>8, <4>1 DEF ReadSafe
    <3>9. ASSUME NEW v \in DOMAIN queue["copy"], Brings(v, a), Unwritten(a.block, v),
                 Awaited(Len(queue["main"]) + 1, Done("copy") + v)
          PROVE  ReadSafe(k, a)'
      <4>1. v \in DOMAIN queue'["copy"] /\ Brings(v, a)'
        BY <2>1, <3>9, BringsKept
      <4>2. PICK c : c = Done("copy") + v
        OBVIOUS
      <4>3. Awaited(k, c)'
        BY <2>1, <3>3, <3>9, <4>2, AwaitedKept, BothStreams
      <4>4. Awaited(k, Done("copy") + v)'
        BY <3>7, <4>2, <4>3 DEF Awaited
      <4>. QED
        BY <3>6, <3>9, <4>1, <4>4 DEF ReadSafe
    <3>. QED
      BY <3>5, <3>8, <3>9 DEF ArraySafe
  <2>. QED
    BY <1>1, <2>1, <2>2
<1>8. ASSUME NEW s \in Stream, Execute(s) PROVE KernelsSafe'
  <2>1. SUFFICES ASSUME NEW l \in DOMAIN queue'["main"], CurrentKernel(l)',
                        NEW a \in queue'["main"][l].reads
                 PROVE  ReadSafe(l, a)'
    BY DEF KernelsSafe
  <2>2. PICK d \in {0, 1} : d = Shift(s, "main")
    BY DEF Shift
  <2>3. /\ DOMAIN queue'["main"] = 1..(Len(queue["main"]) - d)
        /\ \A i \in 1..(Len(queue["main"]) - d) : queue'["main"][i] = queue["main"][i + d]
    BY <1>8, <2>2, Shifted, BothStreams
  <2>4. PICK k \in DOMAIN queue["main"] : l + d = k /\ queue'["main"][l] = queue["main"][k]
    BY <2>1, <2>2, <2>3, BothStreams
  <2>5. CurrentKernel(k)
    BY <1>8, <2>1, <2>4 DEF CurrentKernel, Execute, hostVars
  <2>6. ReadSafe(k, a)
    BY <2>1, <2>4, <2>5 DEF KernelsSafe
  <2>. QED
    BY <1>8, <2>1, <2>2, <2>4, <2>6, ReadShifted
<1>. QED
  BY <1>2, <1>3, <1>4, <1>5, <1>6, <1>7, <1>8, Steps DEF Quiet

LEMMA ArraysKept ==
  ASSUME IInv, [Next]_vars
  PROVE  ArraysSafe'
<1>. USE DEF IInv
<1>1. graph' = graph /\ \A t : First(UsesOf(t))' = First(UsesOf(t))
  <2>1. graph' = graph /\ \A t : UsesOf(t)' = UsesOf(t)
    BY GraphKept, ScheduleKept
  <2>. QED
    BY <2>1, Zenon
<1>2. ASSUME Grown, data' = data, pc \in Looping,
             \A j \in DOMAIN queue'["copy"] \ DOMAIN queue["copy"] :
               queue'["copy"][j].op # "copy",
             DOMAIN env' \subseteq DOMAIN env, \A t \in DOMAIN env' : env'[t] = env[t],
             \A t, c : c \in Nat /\ c <= issued["copy"] /\ UploadKnown(t, c) =>
               UploadKnown(t, c)' \/ Awaited(Len(queue["main"]) + 1, c)'
      PROVE  ArraysSafe'
  <2>1. SUFFICES ASSUME NEW t \in DOMAIN env', NEW a \in {env'[t]} \ {Activation} PROVE ArraySafe(t, a)'
    BY DEF ArraysSafe
  <2>2. ArraySafe(t, a)
    BY <1>2, <2>1 DEF ArraysSafe
  <2>. QED
    BY <1>2, <2>2, ArrayKept
<1>3. CASE Begin
  BY <1>3 DEF Begin, ArraysSafe
<1>4. CASE FetchNothing \/ Free
  <2>1. Grown /\ SameQueues
    BY <1>4, QuietStep DEF Quiet
  <2>2. /\ data' = data /\ pc \in {"prefetch", "free"} /\ upEvt' = upEvt
        /\ DOMAIN env' \subseteq DOMAIN env /\ \A t \in DOMAIN env' : env'[t] = env[t]
    BY <1>4 DEF FetchNothing, Free, Without
  <2>3. ASSUME NEW t, NEW c, UploadKnown(t, c) PROVE UploadKnown(t, c)'
    BY <1>1, <2>2, <2>3 DEF UploadKnown
  <2>4. queue'["copy"] = queue["copy"]
    BY <2>1, BothStreams DEF SameQueues
  <2>. QED
    BY <1>2, <2>1, <2>2, <2>3, <2>4 DEF Looping
<1>5. CASE StartUploads
  <2>1. /\ Grown /\ data' = data /\ pc = "prefetch" /\ upEvt' = upEvt /\ env' = env
        /\ \A j \in DOMAIN queue'["copy"] \ DOMAIN queue["copy"] : queue'["copy"][j].op # "copy"
    BY <1>5, StartStep, StartNoCopy DEF StartUploads
  <2>2. ASSUME NEW t, NEW c, UploadKnown(t, c) PROVE UploadKnown(t, c)'
    BY <1>1, <2>1, <2>2 DEF UploadKnown
  <2>. QED
    BY <1>2, <2>1, <2>2 DEF Looping
<1>6. ASSUME NEW w \in pending, Upload(w) PROVE ArraysSafe'
  <2>1. PICK b \in Nat \ {0} :
          /\ Grown /\ NewOp("copy", [op |-> "copy", block |-> b, weight |-> w])
          /\ w \in Weight /\ w \notin DOMAIN env
          /\ DOMAIN env' = DOMAIN env \cup {w} /\ env'[w] = [block |-> b, weight |-> w]
          /\ \A t \in DOMAIN env : env'[t] = env[t] /\ env[t].block # b
    BY <1>6, UploadStep
  <2>2. data' = data /\ pc = "upload" /\ UNCHANGED <<pc, fetch, upEvt>>
    BY <1>6 DEF Upload
  <2>3. PICK n \in Nat \ {0} : n = Len(queue["copy"]) + 1
    BY BothStreams
  <2>4. /\ DOMAIN queue'["copy"] = 1..n /\ DOMAIN queue["copy"] = 1..(n - 1)
        /\ queue'["copy"][n] = [op |-> "copy", block |-> b, weight |-> w]
    BY <2>1, <2>3, BothStreams, GrownFacts DEF NewOp
  <2>5. ASSUME NEW t \in DOMAIN env, NEW a, a = env[t], a # Activation PROVE ArraySafe(t, a)'
    <3>1. ArraySafe(t, a)
      BY <2>2, <2>5 DEF ArraysSafe, Looping
    <3>2. ASSUME NEW j \in DOMAIN queue'["copy"] \ DOMAIN queue["copy"]
          PROVE  queue'["copy"][j].block # a.block
      <4>1. j = n /\ a.block # b
        BY <2>1, <2>4, <2>5, <3>2
      <4>. QED
        BY <2>4, <4>1
    <3>3. \A c : UploadKnown(t, c) => UploadKnown(t, c)'
      BY <1>1, <2>2 DEF UploadKnown
    <3>. QED
      BY <2>1, <2>2, <3>1, <3>2, <3>3, ArrayKept
  <2>6. ASSUME NEW a, a = [block |-> b, weight |-> w] PROVE ArraySafe(w, a)'
    <3>1. n \in DOMAIN queue'["copy"] /\ Brings(n, a)' /\ Unwritten(a.block, n)'
      BY <2>4, <2>6 DEF Brings, CopyTo, Unwritten
    <3>2. fetch = First(UsesOf(w))
      BY <1>6, <2>2, UploadsAtFirstUse DEF Position
    <3>3. \A c : UploadKnown(w, c)'
      BY <1>1, <2>2, <3>2 DEF UploadKnown
    <3>. QED
      BY <2>6, <3>1, <3>3 DEF ArraySafe
  <2>. QED
    BY <2>1, <2>5, <2>6 DEF ArraysSafe
<1>7. CASE FinishUploads
  <2>1. Grown /\ SameQueues
    BY <1>7, QuietStep DEF Quiet
  <2>2. /\ data' = data /\ pc = "upload" /\ env' = env
        /\ upEvt' = [p \in DOMAIN upEvt \cup {fetch} |->
                      IF p = fetch THEN [stream |-> "copy", count |-> issued["copy"]] ELSE upEvt[p]]
    BY <1>7 DEF FinishUploads
  <2>3. ASSUME NEW t, NEW c \in Nat, c <= issued["copy"], UploadKnown(t, c) PROVE UploadKnown(t, c)'
    <3>1. PICK p : p = First(UsesOf(t))
      OBVIOUS
    <3>2. p \in DOMAIN upEvt' /\ upEvt'[p].stream = "copy" /\ upEvt'[p].count >= c
      <4>1. CASE p = fetch
        BY <2>2, <2>3, <4>1, BothStreams
      <4>2. CASE p # fetch
        BY <2>2, <2>3, <3>1, <4>2 DEF UploadKnown
      <4>. QED
        BY <4>1, <4>2
    <3>. QED
      BY <1>1, <3>1, <3>2 DEF UploadKnown
  <2>4. queue'["copy"] = queue["copy"]
    BY <2>1, BothStreams DEF SameQueues
  <2>. QED
    BY <1>2, <2>1, <2>2, <2>3, <2>4 DEF Looping
<1>8. CASE WaitForWeights
  <2>1. /\ Grown /\ queue'["copy"] = queue["copy"] /\ data' = data /\ pc = "wait" /\ env' = env
        /\ upEvt' = Without(upEvt, {node})
    BY <1>8, WaitStep, BothStreams DEF NewOp, SameQueues, WaitForWeights
  <2>2. ASSUME NEW t, NEW c \in Nat, UploadKnown(t, c)
        PROVE  UploadKnown(t, c)' \/ Awaited(Len(queue["main"]) + 1, c)'
    <3>1. PICK p : p = First(UsesOf(t)) /\ p \in DOMAIN upEvt
                   /\ upEvt[p].stream = "copy" /\ upEvt[p].count >= c
      BY <2>1, <2>2 DEF UploadKnown
    <3>2. CASE p # node
      BY <1>1, <2>1, <3>1, <3>2 DEF UploadKnown, Without
    <3>3. CASE p = node
      <4>1. NewOp("main", [op |-> "wait", event |-> upEvt[node]])
        BY <1>8, <3>1, <3>3, WaitStep
      <4>2. PICK i : i = Len(queue["main"]) + 1
        OBVIOUS
      <4>3. i \in DOMAIN queue'["main"] /\ i < Len(queue'["main"]) + 1 /\ WaitFor("main", i, "copy", c)'
        BY <2>1, <3>1, <3>3, <4>1, <4>2, BothStreams DEF NewOp, WaitFor, Grown
      <4>. QED
        BY <4>3 DEF Awaited
    <3>. QED
      BY <3>2, <3>3
  <2>. QED
    BY <1>2, <2>1, <2>2 DEF Looping
<1>9. CASE Launch
  <2>1. /\ Grown /\ queue'["copy"] = queue["copy"] /\ data' = data /\ pc = "launch" /\ upEvt' = upEvt
    BY <1>9, LaunchStep, BothStreams DEF NewOp, SameQueues, Launch
  <2>2. PICK array : /\ array = Activation \/ array \in Operands
                     /\ env' = [t \in DOMAIN env \cup graph.nodes[node].outputs |->
                                  IF t \in graph.nodes[node].outputs THEN array ELSE env[t]]
    BY <1>9 DEF Launch
  <2>3. SUFFICES ASSUME NEW u \in DOMAIN env', NEW a \in {env'[u]} \ {Activation} PROVE ArraySafe(u, a)'
    BY DEF ArraysSafe
  <2>4. CASE u \in graph.nodes[node].outputs
    <3>1. a = array /\ array \in Operands
      BY <2>2, <2>3, <2>4
    <3>2. PICK t \in graph.nodes[node].inputs \cap DOMAIN env : a = env[t]
      BY <3>1 DEF Operands
    <3>3. ArraySafe(t, a) /\ \A c : ~ (t = a.weight /\ UploadKnown(t, c))
      BY <2>1, <2>3, <3>2, OperandKnown
    <3>. QED
      BY <2>1, <3>3, ArrayKept
  <2>5. CASE u \notin graph.nodes[node].outputs
    <3>1. u \in DOMAIN env /\ a = env[u] /\ a # Activation
      BY <2>2, <2>3, <2>5
    <3>2. ArraySafe(u, a)
      BY <2>1, <3>1 DEF ArraysSafe, Looping
    <3>3. \A c : UploadKnown(u, c) => UploadKnown(u, c)'
      BY <1>1, <2>1 DEF UploadKnown
    <3>. QED
      BY <2>1, <3>2, <3>3, ArrayKept
  <2>. QED
    BY <2>4, <2>5
<1>10. CASE Return \/ Raise
  BY <1>10 DEF Return, Raise, ArraysSafe, Looping
<1>11. ASSUME NEW s \in Stream, Execute(s) PROVE ArraysSafe'
  BY <1>11, ArrayShifted DEF ArraysSafe, Execute, hostVars
<1>12. CASE UNCHANGED vars
  <2>1. Grown /\ SameQueues
    BY <1>12, QuietStep DEF Quiet
  <2>2. /\ UNCHANGED <<data, pc, fetch, upEvt, env, queue>>
    BY <1>12 DEF vars, hostVars
  <2>3. ASSUME NEW t, NEW c, UploadKnown(t, c) PROVE UploadKnown(t, c)'
    BY <1>1, <2>2, <2>3 DEF UploadKnown
  <2>4. CASE pc \in Looping
    BY <1>2, <2>1, <2>2, <2>3, <2>4
  <2>5. CASE pc \notin Looping
    BY <2>2, <2>5 DEF ArraysSafe
  <2>. QED
    BY <2>4, <2>5
<1>. QED
  BY <1>3, <1>4, <1>5, <1>6, <1>7, <1>8, <1>9, <1>10, <1>11, <1>12, Steps DEF Quiet

-----------------------------------------------------------------------------
LEMMA InitHolds ==
  ASSUME Init
  PROVE  IInv
<1>1. /\ graph \in Graphs /\ run = 0 /\ pc = "idle" /\ node = 0 /\ fetch = 0 /\ pending = {}
      /\ env = NoEntry /\ upEvt = NoEntry /\ lastCmp = <<>> /\ data = NoEntry
      /\ pool = {} /\ freeBlocks = {}
  BY DEF Init
<1>2. \A s \in Stream : queue[s] = <<>> /\ issued[s] = 0
  BY DEF Init
<1>3. DOMAIN NoEntry = {} /\ NoEntry \in [{} -> {}]
  BY DEF NoEntry
<1>4. IsFiniteSet(pool) /\ Cardinality(pool) = 0
  BY <1>1, FS_EmptySet
<1>5. TypeOK
  BY <1>1, <1>2, <1>3, <1>4, StreamingAssumption DEF TypeOK, Init
<1>6. DOMAIN queue = Stream /\ \A s \in Stream : DOMAIN queue[s] = {} /\ Len(queue[s]) = 0
  BY <1>2 DEF Init
<1>7. \A s \in Stream : queue[s] \in Seq(OpOf(s))
  <2>1. \A s \in Stream : <<>> \in Seq(OpOf(s))
    OBVIOUS
  <2>. QED
    BY <1>2, <2>1, Zenon
<1>8. Queues
  BY <1>1, <1>2, <1>6, <1>7 DEF Queues, Stream
<1>9. Position /\ EventsAhead /\ Names /\ Presence /\ ArraysSafe /\ PoolFinite
  BY <1>1, <1>4 DEF Position, EventsAhead, Names, Presence, ArraysSafe, PoolFinite, Looping
<1>10. CopiesInPool /\ KernelsSafe /\ LastKernel /\ ArraysTyped
  BY <1>1, <1>3, <1>6 DEF CopiesInPool, KernelsSafe, LastKernel, ArraysTyped, Stream
<1>. QED
  BY <1>5, <1>8, <1>9, <1>10 DEF IInv

(* In every reachable state what is enqueued, what is in env and what is   *)
(* in the blocks fit together as IInv says.                                *)
THEOREM StreamingInvariant == Spec => []IInv
<1>1. Init => IInv
  BY InitHolds
<1>2. IInv /\ [Next]_vars => IInv'
  <2>1. SUFFICES ASSUME IInv, [Next]_vars PROVE IInv'
    OBVIOUS
  <2>2. TypeOK' /\ PoolFinite' /\ ArraysTyped' /\ Queues' /\ CopiesInPool'
    BY <2>1, TypesKept, QueuesKept
  <2>3. Position' /\ EventsAhead' /\ Names' /\ Presence'
    BY <2>1, PositionKept, EventsKept, NamesKept, PresenceKept
  <2>4. KernelsSafe' /\ ArraysSafe' /\ LastKernel'
    BY <2>1, KernelsKept, ArraysKept, LastKernelKept
  <2>. QED
    BY <2>2, <2>3, <2>4 DEF IInv
<1>. QED
  BY <1>1, <1>2, PTL DEF Spec

(* While a kernel of a call runs, every block it reads holds the weight it *)
(* is meant to hold, however far the host has run ahead, whatever blocks   *)
(* have been given back and taken again, after any number of failed calls. *)
THEOREM KernelsRead == Spec => []KernelsReadTheirWeights
<1>1. IInv => KernelsReadTheirWeights
  <2>1. SUFFICES ASSUME IInv, queue["main"] # <<>>, NEW op, op = Head(queue["main"]),
                        op.op = "kernel", op.run = run, NEW a \in op.reads
                 PROVE  a.block \in DOMAIN data /\ data[a.block] = a.weight
    BY DEF KernelsReadTheirWeights
  <2>2. 1 \in DOMAIN queue["main"] /\ op = queue["main"][1]
    <3>1. PICK q \in Seq(OpOf("main")) : q = queue["main"]
      BY <2>1 DEF IInv, Queues, Stream
    <3>. QED
      BY <2>1, <3>1
  <2>3. ReadSafe(1, a)
    BY <2>1, <2>2 DEF IInv, KernelsSafe, CurrentKernel
  <2>4. ASSUME NEW c PROVE ~ Awaited(1, c)
    BY <2>1, BothStreams DEF Awaited, IInv
  <2>. QED
    BY <2>3, <2>4 DEF ReadSafe, Holds
<1>. QED
  BY <1>1, StreamingInvariant, PTL

(* Every operator finds all its inputs when it is executed: no name is     *)
(* dropped before its last reader, no weight is uploaded too late.         *)
THEOREM OperandsThere == Spec => []OperandsPresent
<1>1. IInv => OperandsPresent
  <2>1. SUFFICES ASSUME IInv, pc = "launch", NEW t \in graph.nodes[node].inputs PROVE t \in DOMAIN env
    BY DEF OperandsPresent
  <2>. USE DEF IInv
  <2>2. /\ node \in Nodes /\ LaunchedTo = node - 1 /\ FetchedTo = fetch /\ fetch = node + Depth + 1
        /\ Depth \in Nat
    BY <2>1, GraphShape, StreamingAssumption DEF Position, LaunchedTo, FetchedTo
  <2>3. PICK n \in Nat : Nodes = 1..n
    BY <2>1, GraphShape
  <2>4. t \in Weight \cup graph.inputs \cup UNION {graph.nodes[q].outputs : q \in 1..(node - 1)}
    BY <2>1, <2>2, GraphShape
  <2>5. Available(t)
    <3>1. CASE t \in Weight
      <4>1. First(UsesOf(t)) \in Nodes /\ First(UsesOf(t)) <= node
        BY <2>1, <2>2, <3>1, FirstUse
      <4>. QED
        BY <2>2, <2>3, <3>1, <4>1 DEF Available
    <3>2. CASE t \notin Weight /\ t \notin graph.inputs
      <4>1. PICK q \in 1..(node - 1) : t \in graph.nodes[q].outputs
        BY <2>4, <3>2
      <4>. QED
        BY <2>2, <2>3, <4>1 DEF Available
    <3>. QED
      BY <3>1, <3>2 DEF Available
  <2>6. node > LaunchedTo
    BY <2>2, <2>3
  <2>. QED
    BY <2>1, <2>2, <2>5, <2>6 DEF Presence, Looping
<1>. QED
  BY <1>1, StreamingInvariant, PTL

(* Every variable keeps its type, and the blocks of the pool are divided   *)
(* into those arrays use and the free ones.                                *)
THEOREM PoolDivided == Spec => []TypeOK
BY StreamingInvariant, PTL DEF IInv
-----------------------------------------------------------------------------
(* The memory.  A name in env is an input, or somebody still wants it; an  *)
(* array in it is of a weight that was asked for, under one of the names   *)
(* of that weight, and all arrays of a weight are of one block.            *)
Asked(w) ==
  First(UsesOf(w)) <= FetchedTo \/ (pc = "upload" /\ w \in UploadsBefore(fetch) \ pending)

StillNamed(t) ==
  \/ t \in graph.inputs
  \/ t \in Used /\ Last(UsesOf(t)) >= node
  \/ t \in Produced /\ (t \in graph.outputs \/ Last(LifetimeOf(t)) >= node)

Accounted(t) ==
  /\ env[t].weight \in Used /\ Asked(env[t].weight)
  /\ t \in ViewNames[graph][env[t].weight] /\ t \notin graph.inputs

EnvAccounted ==
  pc \in Looping =>
    /\ \A t \in DOMAIN env : StillNamed(t)
    /\ \A t \in DOMAIN env : env[t] # Activation => Accounted(t)
    /\ \A t \in DOMAIN env : t \in Weight => env[t].weight = t
    /\ \A t, u \in DOMAIN env :
         env[t] # Activation /\ env[u] # Activation /\ env[t].weight = env[u].weight
           => env[t].block = env[u].block

(* What the caller gets is not dropped, and in the end nothing else is left.*)
Ending == {"sync", "returned"}

OutputsThere ==
  /\ pc \in Looping \cup Ending =>
       /\ graph.inputs \subseteq DOMAIN env
       /\ \A q \in Nodes : (q <= LaunchedTo \/ pc \in Ending) =>
            graph.nodes[q].outputs \cap graph.outputs \subseteq DOMAIN env
  /\ pc \in Ending => DOMAIN env \subseteq graph.inputs \cup graph.outputs

(* The main stream waits for all copies there are, or is going to: an      *)
(* event after them is kept, or more uploads are to come.                  *)
CopiesAwaited ==
  /\ Len(queue["copy"]) > 0 => Used # {} /\ pc # "returned"
  /\ pc = "sync" /\ Len(queue["copy"]) > 0 => Awaited(Len(queue["main"]) + 1, issued["copy"])
  /\ pc \in Looping /\ Len(queue["copy"]) > 0 =>
       \/ pc = "upload"
       \/ Awaited(Len(queue["main"]) + 1, issued["copy"])
       \/ \E p \in DOMAIN upEvt : upEvt[p].stream = "copy" /\ upEvt[p].count >= issued["copy"]
       \/ \E w \in Used : First(UsesOf(w)) > FetchedTo

(* Names of inputs, of weights and of what nodes produce.                  *)
LEMMA GraphNames ==
  ASSUME TypeOK
  PROVE  /\ graph.inputs \cap Weight = {} /\ IsFiniteSet(Weight)
         /\ graph.outputs \subseteq graph.inputs \cup Produced
         /\ Produced \cap (Weight \cup graph.inputs) = {}
         /\ \A p, q \in Nodes : p # q => graph.nodes[p].outputs \cap graph.nodes[q].outputs = {}
<1>1. /\ graph.inputs \cap Weight = {} /\ IsFiniteSet(Weight)
      /\ graph.outputs \subseteq graph.inputs \cup Produced
  BY StreamingAssumption DEF TypeOK, Produced, Nodes
<1>2. Produced \cap (Weight \cup graph.inputs) = {}
  BY GraphShape DEF Produced
<1>3. PICK n \in Nat : Nodes = 1..n
  BY GraphShape
<1>4. ASSUME NEW p \in Nodes, NEW q \in Nodes, p < q
      PROVE  graph.nodes[p].outputs \cap graph.nodes[q].outputs = {}
  <2>1. p \in 1..(q - 1)
    BY <1>3, <1>4
  <2>. QED
    BY <2>1, GraphShape
<1>5. \A p, q \in Nodes : p # q => graph.nodes[p].outputs \cap graph.nodes[q].outputs = {}
  <2>1. SUFFICES ASSUME NEW p \in Nodes, NEW q \in Nodes, p # q
                 PROVE  graph.nodes[p].outputs \cap graph.nodes[q].outputs = {}
    OBVIOUS
  <2>2. p < q \/ q < p
    BY <1>3, <2>1
  <2>. QED
    BY <1>4, <2>2
<1>. QED
  BY <1>1, <1>2, <1>5

(* The first and the last use of a weight, the last of another tensor.     *)
LEMMA UseBounds ==
  ASSUME TypeOK, NEW w \in Used
  PROVE  /\ w \in Weight /\ First(UsesOf(w)) \in Nodes /\ Last(UsesOf(w)) \in Nodes
         /\ First(UsesOf(w)) <= Last(UsesOf(w)) /\ Last(UsesOf(w)) \in UsesOf(w)
         /\ w \in UploadsBefore(First(UsesOf(w)))
<1>1. PICK n \in Nat : Nodes = 1..n
  BY GraphShape
<1>2. w \in Weight /\ UsesOf(w) # {} /\ UsesOf(w) \subseteq 1..n
  BY <1>1 DEF Used, UsesOf
<1>3. UsesOf(w) \subseteq Nat
  BY <1>1, <1>2
<1>4. Last(UsesOf(w)) \in UsesOf(w) /\ \A q \in UsesOf(w) : q <= Last(UsesOf(w))
  BY <1>2, LastIsLast
<1>5. First(UsesOf(w)) \in UsesOf(w)
  BY <1>2, <1>3, FirstIsFirst
<1>. QED
  BY <1>1, <1>2, <1>4, <1>5 DEF UploadsBefore

LEMMA LifetimeBounds ==
  ASSUME TypeOK, NEW t \in Produced
  PROVE  /\ Last(LifetimeOf(t)) \in Nodes /\ Last(LifetimeOf(t)) \in LifetimeOf(t)
         /\ \A q \in Nodes : t \in graph.nodes[q].outputs => q <= Last(LifetimeOf(t))
<1>1. PICK n \in Nat : Nodes = 1..n
  BY GraphShape
<1>2. PICK p \in Nodes : t \in graph.nodes[p].outputs
  BY DEF Produced
<1>3. p \in LifetimeOf(t) /\ LifetimeOf(t) \subseteq 1..n
  BY <1>1, <1>2 DEF LifetimeOf
<1>4. Last(LifetimeOf(t)) \in LifetimeOf(t) /\ \A q \in LifetimeOf(t) : q <= Last(LifetimeOf(t))
  BY <1>3, LastIsLast
<1>. QED
  BY <1>1, <1>3, <1>4 DEF LifetimeOf

(* A view of an array of w has one of the names of w.                      *)
LEMMA ViewsFollow ==
  ASSUME TypeOK, NEW w \in Weight
  PROVE  /\ w \in ViewNames[graph][w]
         /\ \A q \in Nodes : \A t \in graph.nodes[q].inputs :
              graph.nodes[q].op # "compute" /\ t \in ViewNames[graph][w]
                => graph.nodes[q].outputs \subseteq ViewNames[graph][w]
<1>1. ViewNames[graph][w] =
        {t \in NamesIn(graph) : \A names \in SUBSET NamesIn(graph) :
                                  w \in names /\ ViewsAmong(graph, names) => t \in names}
  BY DEF ViewNames, TypeOK
<1>2. w \in NamesIn(graph)
  BY DEF NamesIn
<1>3. ASSUME NEW q \in Nodes, NEW t \in graph.nodes[q].inputs, graph.nodes[q].op # "compute",
             t \in ViewNames[graph][w], NEW o \in graph.nodes[q].outputs
      PROVE  o \in ViewNames[graph][w]
  <2>1. o \in NamesIn(graph)
    BY <1>3 DEF NamesIn, Nodes
  <2>2. ASSUME NEW names \in SUBSET NamesIn(graph), w \in names, ViewsAmong(graph, names)
        PROVE  o \in names
    <3>1. t \in names
      BY <1>1, <1>3, <2>2
    <3>. QED
      BY <1>3, <2>2, <3>1 DEF ViewsAmong, Nodes
  <2>. QED
    BY <1>1, <2>1, <2>2
<1>. QED
  BY <1>1, <1>2, <1>3

LEMMA TablesKept ==
  ASSUME graph' = graph
  PROVE  /\ Used' = Used /\ Produced' = Produced
         /\ \A t : UsesOf(t)' = UsesOf(t) /\ LifetimeOf(t)' = LifetimeOf(t)
         /\ \A p : UploadsBefore(p)' = UploadsBefore(p)
         /\ \A p : HeldAt(p)' = HeldAt(p)
<1>1. Nodes' = Nodes /\ \A t : UsesOf(t)' = UsesOf(t) /\ \A p : UploadsBefore(p)' = UploadsBefore(p)
  BY ScheduleKept
<1>2. Used' = Used
  BY <1>1, Zenon DEF Used
<1>3. Produced' = Produced /\ \A t : LifetimeOf(t)' = LifetimeOf(t)
  BY <1>1 DEF Produced, LifetimeOf
<1>4. \A p : HeldAt(p)' = HeldAt(p)
  BY <1>1, <1>2, Zenon DEF HeldAt
<1>. QED
  BY <1>1, <1>2, <1>3, <1>4

-----------------------------------------------------------------------------
LEMMA EnvKept ==
  ASSUME IInv, EnvAccounted, [Next]_vars
  PROVE  EnvAccounted'
<1>. USE DEF IInv
<1>1. PICK n \in Nat \ {0} : Nodes = 1..n
  BY GraphShape
<1>2. /\ graph' = graph /\ Nodes' = Nodes /\ node \in {0} \cup Nodes /\ fetch \in Nat
      /\ Depth \in Nat /\ NoWeight \notin Weight
  BY GraphKept, StreamingAssumption DEF TypeOK
<1>3. /\ Used' = Used /\ Produced' = Produced
      /\ \A t : UsesOf(t)' = UsesOf(t) /\ LifetimeOf(t)' = LifetimeOf(t)
      /\ \A p : UploadsBefore(p)' = UploadsBefore(p)
  BY <1>2, TablesKept
<1>4. ASSUME NEW t, StillNamed(t), node' = node \/ (node = 0 /\ node' = 1) PROVE StillNamed(t)'
  <2>1. CASE t \in graph.inputs
    BY <1>2, <2>1 DEF StillNamed
  <2>2. CASE t \in Used /\ Last(UsesOf(t)) >= node
    <3>1. Last(UsesOf(t)) \in Nodes
      BY <2>2, UseBounds
    <3>2. Last(UsesOf(t)) >= node'
      BY <1>1, <1>4, <2>2, <3>1
    <3>3. Last(UsesOf(t))' = Last(UsesOf(t))
      BY <1>3
    <3>. QED
      BY <1>3, <2>2, <3>2, <3>3 DEF StillNamed
  <2>3. CASE t \in Produced /\ t \in graph.outputs
    BY <1>2, <1>3, <2>3 DEF StillNamed
  <2>4. CASE t \in Produced /\ Last(LifetimeOf(t)) >= node
    <3>1. Last(LifetimeOf(t)) \in Nodes
      BY <2>4, LifetimeBounds
    <3>2. Last(LifetimeOf(t)) >= node'
      BY <1>1, <1>4, <2>4, <3>1
    <3>3. Last(LifetimeOf(t))' = Last(LifetimeOf(t))
      BY <1>3
    <3>. QED
      BY <1>3, <2>4, <3>2, <3>3 DEF StillNamed
  <2>. QED
    BY <1>4, <2>1, <2>2, <2>3, <2>4 DEF StillNamed
<1>. DEFINE AskedKept == \A w \in Used : Asked(w) => Asked(w)'
<1>5. ASSUME pc # "upload", FetchedTo <= FetchedTo', FetchedTo' \in Int PROVE AskedKept
  <2>1. SUFFICES ASSUME NEW w \in Used, Asked(w) PROVE Asked(w)'
    OBVIOUS
  <2>2. First(UsesOf(w)) <= FetchedTo /\ First(UsesOf(w)) \in Nodes
    BY <1>5, <2>1, UseBounds DEF Asked
  <2>3. FetchedTo \in Int
    BY <1>2 DEF FetchedTo
  <2>4. First(UsesOf(w)) <= FetchedTo'
    BY <1>1, <1>5, <2>2, <2>3
  <2>5. First(UsesOf(w))' = First(UsesOf(w))
    BY <1>3
  <2>. QED
    BY <2>4, <2>5 DEF Asked
<1>6. ASSUME NEW t, Accounted(t), env'[t] = env[t], AskedKept PROVE Accounted(t)'
  BY <1>2, <1>3, <1>6 DEF Accounted
<1>. HIDE DEF AskedKept
<1>7. ASSUME pc \in Looping, env' = env, node' = node \/ (node = 0 /\ node' = 1), AskedKept
      PROVE  EnvAccounted'
  <2>1. \A t \in DOMAIN env : StillNamed(t)'
    BY <1>4, <1>7 DEF EnvAccounted
  <2>2. \A t \in DOMAIN env : env[t] # Activation => Accounted(t)'
    BY <1>6, <1>7 DEF EnvAccounted
  <2>. QED
    BY <1>7, <2>1, <2>2 DEF EnvAccounted
<1>8. CASE Begin
  <2>1. /\ DOMAIN env' = graph.inputs /\ \A t \in DOMAIN env' : env'[t] = Activation
    BY <1>8 DEF Begin
  <2>2. graph.inputs \cap Weight = {}
    BY GraphNames
  <2>. QED
    BY <1>2, <2>1, <2>2 DEF EnvAccounted, StillNamed
<1>9. CASE FetchNothing
  <2>1. Fetched /\ pc = "prefetch" /\ env' = env
    BY <1>9 DEF FetchNothing
  <2>2. FetchedTo = fetch - 1 /\ FetchedTo' = fetch
    BY <1>2, <2>1, FetchedShape DEF FetchedTo
  <2>3. AskedKept
    BY <1>2, <1>5, <2>1, <2>2
  <2>. QED
    BY <1>7, <2>1, <2>3, FetchedShape DEF Looping
<1>10. CASE FinishUploads
  <2>1. Fetched /\ pc = "upload" /\ env' = env
    BY <1>10 DEF FinishUploads
  <2>2. FetchedTo = fetch - 1 /\ FetchedTo' = fetch
    BY <1>2, <2>1, FetchedShape DEF FetchedTo
  <2>3. AskedKept
    <3>1. SUFFICES ASSUME NEW w \in Used, Asked(w) PROVE Asked(w)'
      BY DEF AskedKept
    <3>2. First(UsesOf(w)) \in Nodes /\ First(UsesOf(w))' = First(UsesOf(w))
      BY <1>3, UseBounds
    <3>3. First(UsesOf(w)) <= fetch
      <4>1. CASE First(UsesOf(w)) <= FetchedTo
        BY <1>1, <1>2, <2>2, <3>2, <4>1
      <4>2. CASE w \in UploadsBefore(fetch)
        <5>1. First(UsesOf(w)) = fetch
          BY <4>2 DEF UploadsBefore
        <5>. QED
          BY <1>2, <5>1
      <4>. QED
        BY <3>1, <4>1, <4>2 DEF Asked
    <3>. QED
      BY <2>2, <3>2, <3>3 DEF Asked
  <2>. QED
    BY <1>7, <2>1, <2>3, FetchedShape DEF Looping
<1>11. CASE StartUploads
  <2>1. pc = "prefetch" /\ pc' = "upload" /\ env' = env /\ node' = node /\ fetch' = fetch
    BY <1>11 DEF StartUploads
  <2>2. FetchedTo = fetch - 1 /\ FetchedTo' = fetch - 1
    BY <2>1 DEF FetchedTo
  <2>3. AskedKept
    BY <1>2, <1>5, <2>1, <2>2
  <2>. QED
    BY <1>7, <2>1, <2>3 DEF Looping
<1>12. CASE WaitForWeights
  <2>1. /\ pc = "wait" /\ pc' = "prefetch" /\ env' = env /\ node' = node
        /\ fetch' = node + Depth + 1 /\ fetch = node + Depth
    BY <1>12 DEF WaitForWeights, Position
  <2>2. FetchedTo = fetch /\ FetchedTo' = fetch
    BY <1>1, <1>2, <2>1 DEF FetchedTo
  <2>3. AskedKept
    BY <1>2, <1>5, <2>1, <2>2
  <2>. QED
    BY <1>7, <2>1, <2>3 DEF Looping
<1>13. ASSUME NEW w \in pending, Upload(w) PROVE EnvAccounted'
  <2>1. PICK b \in Nat \ {0} :
          /\ w \in Weight /\ w \notin DOMAIN env
          /\ DOMAIN env' = DOMAIN env \cup {w} /\ env'[w] = [block |-> b, weight |-> w]
          /\ \A t \in DOMAIN env : env'[t] = env[t]
    BY <1>13, UploadStep
  <2>2. /\ pc = "upload" /\ pc' = "upload" /\ node' = node /\ fetch' = fetch
        /\ pending' = pending \ {w} /\ FetchedTo = fetch - 1 /\ FetchedTo' = fetch - 1
    BY <1>13 DEF Upload, FetchedTo
  <2>3. w \in UploadsBefore(fetch) /\ pc \in Looping
    BY <2>2 DEF Position, Looping
  <2>4. w \in Used /\ First(UsesOf(w)) = fetch
    BY <2>3 DEF UploadsBefore
  <2>5. AskedKept /\ Asked(w)' /\ ~ Asked(w)
    <3>1. \A v \in Used : First(UsesOf(v))' = First(UsesOf(v))
      BY <1>3
    <3>2. ~ (fetch <= fetch - 1)
      BY <1>2
    <3>. QED
      BY <1>3, <2>2, <2>3, <2>4, <3>1, <3>2 DEF AskedKept, Asked
  <2>6. StillNamed(w)'
    <3>1. fetch >= node
      BY <1>1, <1>2, <2>2 DEF Position
    <3>2. Last(UsesOf(w)) >= node /\ Last(UsesOf(w))' = Last(UsesOf(w))
      BY <1>1, <1>2, <1>3, <2>4, <3>1, UseBounds
    <3>. QED
      BY <1>3, <2>2, <2>4, <3>2 DEF StillNamed
  <2>7. \A t \in DOMAIN env : StillNamed(t)'
    BY <1>4, <2>2, <2>3 DEF EnvAccounted
  <2>8. env'[w].weight = w /\ env'[w].block = b
    BY <2>1
  <2>9. Accounted(w)'
    <3>1. w \in ViewNames[graph][w] /\ w \notin graph.inputs
      BY <2>1, ViewsFollow, GraphNames
    <3>. QED
      BY <1>2, <1>3, <2>4, <2>5, <2>8, <3>1 DEF Accounted
  <2>10. \A t \in DOMAIN env : env[t] # Activation => Accounted(t)'
    BY <1>6, <2>1, <2>3, <2>5 DEF EnvAccounted
  <2>11. \A t \in DOMAIN env : env[t] # Activation => env[t].weight # w
    BY <2>3, <2>5 DEF EnvAccounted, Accounted
  <2>. QED
    BY <2>1, <2>3, <2>6, <2>7, <2>8, <2>9, <2>10, <2>11 DEF EnvAccounted
<1>14. CASE Launch
  <2>1. /\ pc = "launch" /\ pc' = "free" /\ node' = node /\ fetch' = fetch /\ node \in Nodes
        /\ pc \in Looping
    BY <1>14 DEF Launch, Position, Looping
  <2>2. FetchedTo = fetch /\ FetchedTo' = fetch
    BY <2>1 DEF FetchedTo
  <2>3. AskedKept
    BY <1>2, <1>5, <2>1, <2>2
  <2>4. PICK array :
          /\ array \in IF graph.nodes[node].op = "compute" THEN {Activation} ELSE Operands
          /\ env' = [t \in DOMAIN env \cup graph.nodes[node].outputs |->
                      IF t \in graph.nodes[node].outputs THEN array ELSE env[t]]
    BY <1>14 DEF Launch
  <2>5. /\ DOMAIN env' = DOMAIN env \cup graph.nodes[node].outputs
        /\ \A t \in DOMAIN env : env'[t] = env[t]
        /\ \A o \in graph.nodes[node].outputs : env'[o] = array
    BY <2>1, <2>4, OutputsNew
  <2>6. \A o \in graph.nodes[node].outputs : o \in Produced /\ o \notin Weight \cup graph.inputs
    BY <2>1, GraphNames DEF Produced
  <2>7. ASSUME NEW o \in graph.nodes[node].outputs PROVE StillNamed(o)'
    <3>1. Last(LifetimeOf(o)) >= node /\ Last(LifetimeOf(o))' = Last(LifetimeOf(o))
      BY <1>1, <1>3, <2>1, <2>6, LifetimeBounds
    <3>. QED
      BY <1>3, <2>1, <2>6, <3>1 DEF StillNamed
  <2>8. \A t \in DOMAIN env : StillNamed(t)'
    BY <1>4, <2>1 DEF EnvAccounted
  <2>9. \A t \in DOMAIN env : env[t] # Activation => Accounted(t)'
    BY <1>6, <2>1, <2>3, <2>5 DEF EnvAccounted
  <2>10. CASE array = Activation
    BY <2>1, <2>5, <2>6, <2>7, <2>8, <2>9, <2>10 DEF EnvAccounted
  <2>11. CASE array # Activation
    <3>1. graph.nodes[node].op # "compute" /\ array \in Operands
      BY <2>4, <2>11
    <3>2. PICK t \in graph.nodes[node].inputs \cap DOMAIN env : array = env[t]
      BY <3>1 DEF Operands
    <3>3. Accounted(t)
      BY <2>1, <2>11, <3>2 DEF EnvAccounted
    <3>4. array.weight \in Weight
      BY <3>2, <3>3 DEF Accounted, Used
    <3>5. ASSUME NEW o \in graph.nodes[node].outputs PROVE Accounted(o)'
      <4>1. o \in ViewNames[graph][array.weight]
        BY <2>1, <3>1, <3>2, <3>3, <3>4, ViewsFollow DEF Accounted
      <4>2. array.weight \in Used /\ Asked(array.weight)'
        BY <2>3, <3>2, <3>3 DEF AskedKept, Accounted
      <4>. QED
        BY <1>2, <1>3, <2>5, <2>6, <4>1, <4>2 DEF Accounted
    <3>6. \A x \in DOMAIN env' : env'[x] # Activation =>
            \E y \in DOMAIN env : env'[x] = env[y]
      BY <2>5, <3>2
    <3>7. \A x, y \in DOMAIN env' :
            env'[x] # Activation /\ env'[y] # Activation /\ env'[x].weight = env'[y].weight
              => env'[x].block = env'[y].block
      BY <2>1, <3>6 DEF EnvAccounted
    <3>8. \A x \in DOMAIN env' : x \in Weight => env'[x].weight = x
      BY <2>1, <2>5, <2>6 DEF EnvAccounted
    <3>9. \A x \in DOMAIN env' : StillNamed(x)' /\ (env'[x] # Activation => Accounted(x)')
      BY <2>5, <2>7, <2>8, <2>9, <3>5
    <3>. QED
      BY <3>7, <3>8, <3>9 DEF EnvAccounted
  <2>. QED
    BY <2>10, <2>11
<1>15. CASE Free
  <2>1. /\ pc = "free" /\ pc \in Looping /\ node \in Nodes /\ fetch' = fetch
        /\ DOMAIN env' = DOMAIN env \ FreesAfter(node)
        /\ \A t \in DOMAIN env' : env'[t] = env[t]
    BY <1>15 DEF Free, Without, Position, Looping
  <2>2. CASE pc' = "sync"
    BY <2>2 DEF EnvAccounted, Looping
  <2>3. CASE pc' = "wait" /\ node' = node + 1
    <3>1. FetchedTo = fetch /\ FetchedTo' = fetch
      BY <2>1, <2>3 DEF FetchedTo
    <3>2. AskedKept
      BY <1>2, <1>5, <2>1, <3>1
    <3>3. ASSUME NEW t \in DOMAIN env' PROVE StillNamed(t)'
      <4>1. StillNamed(t) /\ t \notin FreesAfter(node)
        BY <2>1 DEF EnvAccounted
      <4>2. CASE t \in graph.inputs
        BY <1>2, <4>2 DEF StillNamed
      <4>3. CASE t \in Used /\ Last(UsesOf(t)) >= node
        <5>1. Last(UsesOf(t)) # node /\ Last(UsesOf(t)) \in Nodes
          BY <4>1, <4>3, UseBounds DEF FreesAfter
        <5>2. Last(UsesOf(t)) >= node' /\ Last(UsesOf(t))' = Last(UsesOf(t))
          BY <1>1, <1>3, <2>1, <2>3, <4>3, <5>1
        <5>. QED
          BY <1>3, <4>3, <5>2 DEF StillNamed
      <4>4. CASE t \in Produced /\ t \in graph.outputs
        BY <1>2, <1>3, <4>4 DEF StillNamed
      <4>5. CASE t \in Produced /\ t \notin graph.outputs /\ Last(LifetimeOf(t)) >= node
        <5>1. Last(LifetimeOf(t)) # node /\ Last(LifetimeOf(t)) \in Nodes
          BY <4>1, <4>5, LifetimeBounds DEF FreesAfter
        <5>2. Last(LifetimeOf(t)) >= node' /\ Last(LifetimeOf(t))' = Last(LifetimeOf(t))
          BY <1>1, <1>3, <2>1, <2>3, <4>5, <5>1
        <5>. QED
          BY <1>3, <4>5, <5>2 DEF StillNamed
      <4>. QED
        BY <4>1, <4>2, <4>3, <4>4, <4>5 DEF StillNamed
    <3>4. \A t \in DOMAIN env' : env[t] # Activation => Accounted(t)'
      BY <1>6, <2>1, <3>2 DEF EnvAccounted
    <3>. QED
      BY <2>1, <3>3, <3>4 DEF EnvAccounted
  <2>. QED
    BY <1>15, <2>2, <2>3 DEF Free
<1>16. CASE Return \/ Raise
  BY <1>16 DEF Return, Raise, EnvAccounted, Looping
<1>17. ASSUME UNCHANGED hostVars PROVE EnvAccounted'
  <2>1. AskedKept
    BY <1>3, <1>17 DEF hostVars, AskedKept, Asked, FetchedTo
  <2>2. CASE pc \in Looping
    BY <1>7, <1>17, <2>1, <2>2 DEF hostVars
  <2>. QED
    BY <1>17, <2>2 DEF hostVars, EnvAccounted
<1>. QED
  BY <1>8, <1>9, <1>10, <1>11, <1>12, <1>13, <1>14, <1>15, <1>16, <1>17, Steps
    DEF Quiet, Execute, vars

(* What is freed is neither an input nor an output of the graph.           *)
LEMMA FreesNoOutput ==
  ASSUME TypeOK, NEW p
  PROVE  FreesAfter(p) \cap (graph.inputs \cup graph.outputs) = {}
BY GraphNames DEF FreesAfter, Used

LEMMA OutputsKept ==
  ASSUME IInv, EnvAccounted, OutputsThere, [Next]_vars
  PROVE  OutputsThere'
<1>. USE DEF IInv
<1>1. PICK n \in Nat \ {0} : Nodes = 1..n
  BY GraphShape
<1>2. graph' = graph /\ Nodes' = Nodes /\ node \in {0} \cup Nodes
  BY GraphKept DEF TypeOK
<1>3. ASSUME pc \in Looping, pc' \in Looping, DOMAIN env \subseteq DOMAIN env',
             \A q \in Nodes : q <= LaunchedTo' =>
               q <= LaunchedTo \/ graph.nodes[q].outputs \subseteq DOMAIN env'
      PROVE  OutputsThere'
  BY <1>2, <1>3 DEF OutputsThere, Looping, Ending
<1>4. CASE Begin
  BY <1>1, <1>2, <1>4 DEF Begin, OutputsThere, Looping, Ending, LaunchedTo
<1>5. CASE FetchNothing \/ FinishUploads
  <2>1. Fetched /\ pc \in {"prefetch", "upload"} /\ env' = env
    BY <1>5 DEF FetchNothing, FinishUploads
  <2>2. /\ pc' \in {"prefetch", "wait", "launch"}
        /\ node' = node \/ (node = 0 /\ node' = 1)
    BY <2>1, FetchedShape
  <2>. QED
    BY <1>1, <1>2, <1>3, <2>1, <2>2 DEF Looping, LaunchedTo
<1>6. CASE StartUploads \/ WaitForWeights
  BY <1>3, <1>6 DEF StartUploads, WaitForWeights, Looping, LaunchedTo
<1>7. ASSUME NEW w \in pending, Upload(w) PROVE OutputsThere'
  <2>1. DOMAIN env' = DOMAIN env \cup {w}
    BY <1>7, UploadStep
  <2>. QED
    BY <1>3, <1>7, <2>1 DEF Upload, Looping, LaunchedTo
<1>8. CASE Launch
  <2>1. /\ pc = "launch" /\ pc' = "free" /\ node' = node
        /\ DOMAIN env' = DOMAIN env \cup graph.nodes[node].outputs
    BY <1>8 DEF Launch
  <2>2. LaunchedTo = node - 1 /\ LaunchedTo' = node
    BY <2>1 DEF LaunchedTo
  <2>3. \A q \in Nodes : q <= node => q <= node - 1 \/ q = node
    BY <1>1, <1>2
  <2>. QED
    BY <1>3, <2>1, <2>2, <2>3 DEF Looping
<1>9. CASE Free
  <2>1. /\ pc = "free" /\ node \in Nodes /\ DOMAIN env' = DOMAIN env \ FreesAfter(node)
        /\ pc \in Looping /\ LaunchedTo = node
    BY <1>9 DEF Free, Without, Position, Looping, LaunchedTo
  <2>2. FreesAfter(node) \cap (graph.inputs \cup graph.outputs) = {}
    BY FreesNoOutput
  <2>3. /\ graph.inputs \subseteq DOMAIN env'
        /\ \A q \in Nodes : q <= node =>
             graph.nodes[q].outputs \cap graph.outputs \subseteq DOMAIN env'
    BY <2>1, <2>2 DEF OutputsThere
  <2>4. CASE pc' = "wait" /\ node' = node + 1
    <3>1. LaunchedTo' = node
      BY <1>1, <2>1, <2>4 DEF LaunchedTo
    <3>. QED
      BY <1>2, <2>3, <2>4, <3>1 DEF OutputsThere, Ending
  <2>5. CASE pc' = "sync" /\ node + 1 \notin Nodes
    <3>1. node = n
      BY <1>1, <2>1, <2>5
    <3>2. ASSUME NEW t \in DOMAIN env' PROVE t \in graph.inputs \cup graph.outputs
      <4>1. StillNamed(t) /\ t \notin FreesAfter(node)
        BY <2>1 DEF EnvAccounted
      <4>2. ASSUME t \in Used, Last(UsesOf(t)) >= node PROVE FALSE
        <5>1. Last(UsesOf(t)) \in Nodes
          BY <4>2, UseBounds
        <5>2. Last(UsesOf(t)) = node
          BY <1>1, <3>1, <4>2, <5>1
        <5>. QED
          BY <4>1, <4>2, <5>2 DEF FreesAfter
      <4>3. ASSUME t \in Produced, t \notin graph.outputs, Last(LifetimeOf(t)) >= node PROVE FALSE
        <5>1. Last(LifetimeOf(t)) \in Nodes
          BY <4>3, LifetimeBounds
        <5>2. Last(LifetimeOf(t)) = node
          BY <1>1, <3>1, <4>3, <5>1
        <5>. QED
          BY <4>1, <4>3, <5>2 DEF FreesAfter
      <4>. QED
        BY <4>1, <4>2, <4>3 DEF StillNamed
    <3>3. \A q \in Nodes : q <= node
      BY <1>1, <3>1
    <3>. QED
      BY <1>2, <2>3, <2>5, <3>2, <3>3 DEF OutputsThere, Ending, Looping
  <2>. QED
    BY <1>9, <2>4, <2>5 DEF Free
<1>10. CASE Return
  BY <1>2, <1>10 DEF Return, OutputsThere, Ending, Looping
<1>11. CASE Raise
  BY <1>11 DEF Raise, OutputsThere, Ending, Looping
<1>12. ASSUME UNCHANGED hostVars PROVE OutputsThere'
  BY <1>2, <1>12 DEF hostVars, OutputsThere, LaunchedTo
<1>. QED
  BY <1>4, <1>5, <1>6, <1>7, <1>8, <1>9, <1>10, <1>11, <1>12, Steps DEF Quiet, Execute, vars

LEMMA AwaitsKept ==
  ASSUME IInv, EnvAccounted, CopiesAwaited, [Next]_vars
  PROVE  CopiesAwaited'
<1>. USE DEF IInv
<1>1. PICK n \in Nat \ {0} : Nodes = 1..n
  BY GraphShape
<1>2. /\ graph' = graph /\ Nodes' = Nodes /\ node \in {0} \cup Nodes /\ fetch \in Nat
      /\ Depth \in Nat /\ NoWeight \notin Weight
  BY GraphKept, StreamingAssumption DEF TypeOK
<1>3. /\ Used' = Used /\ \A w : UsesOf(w)' = UsesOf(w)
      /\ \A w \in Used : First(UsesOf(w))' = First(UsesOf(w)) /\ First(UsesOf(w)) \in Nodes
  BY <1>2, TablesKept, UseBounds
<1>4. /\ Len(queue["copy"]) \in Nat /\ Len(queue["main"]) \in Nat
      /\ issued["copy"] \in Nat /\ Done("copy") \in Nat
      /\ Done("copy") + Len(queue["copy"]) = issued["copy"]
  BY BothStreams
<1>. DEFINE Waiting == Awaited(Len(queue["main"]) + 1, issued["copy"])
            Kept == \E p \in DOMAIN upEvt : upEvt[p].stream = "copy" /\ upEvt[p].count >= issued["copy"]
            ToCome == \E w \in Used : First(UsesOf(w)) > FetchedTo
<1>5. ASSUME Grown, issued'["copy"] = issued["copy"], Waiting PROVE Waiting'
  <2>1. Len(queue["main"]) <= Len(queue'["main"]) /\ Len(queue'["main"]) \in Nat
    BY <1>5, GrownFacts
  <2>2. PICK l \in Nat : l = Len(queue'["main"]) + 1
    BY <2>1
  <2>3. PICK k \in Nat : k = Len(queue["main"]) + 1
    BY <1>4
  <2>4. PICK c : c = issued["copy"]
    OBVIOUS
  <2>5. Awaited(l, c)'
    BY <1>4, <1>5, <2>1, <2>2, <2>3, <2>4, AwaitedKept
  <2>. QED
    BY <1>5, <2>2, <2>4, <2>5 DEF Awaited, WaitFor
<1>6. ASSUME ToCome, FetchedTo' = FetchedTo PROVE ToCome'
  BY <1>3, <1>6
<1>7. ASSUME Len(queue'["copy"]) = Len(queue["copy"]), pc \in Looping, pc # "upload", pc' \in Looping,
             Waiting => Waiting', Kept => Kept' \/ Waiting', ToCome => ToCome'
      PROVE  CopiesAwaited'
  BY <1>3, <1>7 DEF CopiesAwaited, Looping
<1>. HIDE DEF Waiting, Kept, ToCome
<1>8. CASE Begin
  <2>1. pc' = "prefetch" /\ FetchedTo' = 0
    BY <1>8 DEF Begin, FetchedTo
  <2>2. Len(queue'["copy"]) = Len(queue["copy"])
    BY <1>8 DEF Begin
  <2>3. Used # {} => ToCome'
    BY <1>1, <1>3, <2>1 DEF ToCome
  <2>. QED
    BY <1>3, <2>1, <2>2, <2>3 DEF CopiesAwaited, ToCome
<1>9. CASE FetchNothing
  <2>1. /\ Fetched /\ pc = "prefetch" /\ ToFetch = {} /\ Grown
        /\ UNCHANGED <<env, queue, issued, upEvt>>
    BY <1>9, QueuesUnchanged DEF FetchNothing
  <2>2. FetchedTo = fetch - 1 /\ FetchedTo' = fetch /\ pc' \in Looping
    BY <1>2, <2>1, FetchedShape DEF FetchedTo, Looping
  <2>3. ASSUME NEW w \in Used, First(UsesOf(w)) > fetch - 1 PROVE First(UsesOf(w)) > fetch
    <3>1. SUFFICES ASSUME First(UsesOf(w)) = fetch PROVE FALSE
      BY <1>1, <1>2, <1>3, <2>3
    <3>2. w \in Weight /\ fetch \in Nodes /\ w \in UploadsBefore(fetch)
      BY <3>1, UseBounds
    <3>3. w \in DOMAIN env
      BY <2>1, <3>2 DEF ToFetch
    <3>4. env[w].weight = w
      BY <2>1, <3>2, <3>3 DEF EnvAccounted, Looping
    <3>5. env[w] # Activation
      BY <1>2, <3>2, <3>4 DEF Activation
    <3>6. Asked(w)
      BY <2>1, <3>3, <3>4, <3>5 DEF EnvAccounted, Looping, Accounted
    <3>7. fetch <= fetch - 1
      BY <2>1, <2>2, <3>1, <3>6 DEF Asked
    <3>. QED
      BY <1>2, <3>7
  <2>4. ToCome => ToCome'
    BY <1>3, <2>2, <2>3 DEF ToCome
  <2>5. Waiting => Waiting'
    BY <1>5, <2>1
  <2>6. Kept => Kept'
    BY <2>1 DEF Kept
  <2>. QED
    BY <1>7, <2>1, <2>2, <2>4, <2>5, <2>6 DEF Looping
<1>10. CASE StartUploads \/ (\E w \in pending : Upload(w))
  <2>1. pc' = "upload" /\ Used # {}
    <3>1. CASE StartUploads
      BY <3>1 DEF StartUploads, ToFetch, UploadsBefore
    <3>2. ASSUME NEW w \in pending, Upload(w) PROVE pc' = "upload" /\ Used # {}
      BY <3>2 DEF Upload, Position, UploadsBefore
    <3>. QED
      BY <1>10, <3>1, <3>2
  <2>. QED
    BY <1>3, <2>1 DEF CopiesAwaited
<1>11. CASE FinishUploads
  <2>1. /\ Fetched /\ pc = "upload" /\ UNCHANGED <<queue, issued>>
        /\ fetch \in DOMAIN upEvt' /\ upEvt'[fetch] = [stream |-> "copy", count |-> issued["copy"]]
    BY <1>11 DEF FinishUploads
  <2>2. pc' \in Looping
    BY <2>1, FetchedShape DEF Looping
  <2>3. issued' = issued /\ issued["copy"] >= issued["copy"]
    BY <1>4, <2>1
  <2>4. \E p \in DOMAIN upEvt' : upEvt'[p].stream = "copy" /\ upEvt'[p].count >= issued'["copy"]
    BY <2>1, <2>3
  <2>5. Len(queue'["copy"]) > 0 => Used # {}
    BY <2>1 DEF CopiesAwaited
  <2>. QED
    BY <1>3, <2>2, <2>4, <2>5 DEF CopiesAwaited, Looping
<1>12. CASE WaitForWeights
  <2>1. /\ pc = "wait" /\ pc' = "prefetch" /\ node' = node /\ node \in Nodes
        /\ fetch' = node + Depth + 1 /\ fetch = node + Depth
        /\ upEvt' = Without(upEvt, {node})
    BY <1>12 DEF WaitForWeights, Position
  <2>2. FetchedTo' = FetchedTo
    BY <1>1, <1>2, <2>1 DEF FetchedTo
  <2>3. /\ Grown
        /\ node \in DOMAIN upEvt => NewOp("main", [op |-> "wait", event |-> upEvt[node]])
        /\ node \notin DOMAIN upEvt => SameQueues
    BY <1>12, WaitStep
  <2>4. issued'["copy"] = issued["copy"] /\ queue'["copy"] = queue["copy"]
    BY <2>3 DEF NewOp, SameQueues, Stream
  <2>5. Waiting => Waiting'
    BY <1>5, <2>3, <2>4
  <2>6. Kept => Kept' \/ Waiting'
    <3>1. SUFFICES ASSUME NEW p \in DOMAIN upEvt, upEvt[p].stream = "copy",
                          upEvt[p].count >= issued["copy"]
                   PROVE  Kept' \/ Waiting'
      BY DEF Kept
    <3>2. CASE p # node
      BY <2>1, <2>4, <3>1, <3>2 DEF Kept, Without
    <3>3. CASE p = node
      <4>1. NewOp("main", [op |-> "wait", event |-> upEvt[node]])
        BY <2>3, <3>1, <3>3
      <4>2. PICK l : l = Len(queue["main"]) + 1
        OBVIOUS
      <4>3. Len(queue'["main"]) = l /\ queue'["main"][l] = [op |-> "wait", event |-> upEvt[node]]
        BY <4>1, <4>2 DEF NewOp
      <4>4. l \in DOMAIN queue'["main"] /\ l < Len(queue'["main"]) + 1
        BY <1>4, <2>3, <4>2, <4>3 DEF Grown, Stream
      <4>5. WaitFor("main", l, "copy", issued["copy"])'
        BY <2>4, <3>1, <3>3, <4>3 DEF WaitFor
      <4>. QED
        BY <2>4, <4>4, <4>5 DEF Waiting, Awaited, WaitFor
    <3>. QED
      BY <3>2, <3>3
  <2>. QED
    BY <1>6, <1>7, <2>1, <2>2, <2>4, <2>5, <2>6 DEF Looping
<1>13. CASE Launch
  <2>1. /\ pc = "launch" /\ pc' = "free" /\ fetch' = fetch /\ upEvt' = upEvt
    BY <1>13 DEF Launch
  <2>2. FetchedTo' = FetchedTo
    BY <2>1 DEF FetchedTo
  <2>3. /\ Grown /\ issued'["copy"] = issued["copy"] /\ queue'["copy"] = queue["copy"]
    BY <1>13, LaunchStep DEF NewOp, SameQueues, Stream
  <2>4. Waiting => Waiting'
    BY <1>5, <2>3
  <2>5. Kept => Kept'
    BY <2>1, <2>3 DEF Kept
  <2>. QED
    BY <1>6, <1>7, <2>1, <2>2, <2>3, <2>4, <2>5 DEF Looping
<1>14. CASE Free
  <2>1. /\ pc = "free" /\ fetch' = fetch /\ upEvt' = upEvt /\ UNCHANGED <<queue, issued>>
        /\ node \in Nodes /\ fetch = node + Depth + 1 /\ pc \in Looping /\ FetchedTo = fetch
        /\ Grown
    BY <1>1, <1>14, QueuesUnchanged DEF Free, Position, Looping, FetchedTo
  <2>2. Waiting => Waiting'
    BY <1>5, <2>1
  <2>3. CASE pc' = "wait"
    <3>1. FetchedTo' = FetchedTo
      BY <2>1, <2>3 DEF FetchedTo
    <3>2. Kept => Kept'
      BY <2>1 DEF Kept
    <3>. QED
      BY <1>6, <1>7, <2>1, <2>2, <2>3, <3>1, <3>2 DEF Looping
  <2>4. CASE pc' = "sync" /\ node + 1 \notin Nodes
    <3>1. node = n
      BY <1>1, <2>1, <2>4
    <3>2. ~ Kept
      <4>1. \A p \in DOMAIN upEvt : p > node /\ p \in Nodes
        BY <2>1 DEF EventsAhead, TypeOK
      <4>. QED
        BY <1>1, <3>1, <4>1 DEF Kept
    <3>3. ~ ToCome
      BY <1>1, <1>2, <1>3, <2>1, <3>1 DEF ToCome
    <3>4. Len(queue["copy"]) > 0 => Waiting
      BY <2>1, <3>2, <3>3 DEF CopiesAwaited, Waiting, Kept, ToCome
    <3>. QED
      BY <1>3, <2>1, <2>2, <2>4, <3>4 DEF CopiesAwaited, Looping, Waiting
  <2>. QED
    BY <1>14, <2>3, <2>4 DEF Free
<1>15. CASE Return
  <2>1. pc = "sync" /\ queue["main"] = <<>> /\ pc' = "returned" /\ UNCHANGED <<queue, issued>>
    BY <1>15 DEF Return
  <2>2. ~ Waiting
    BY <2>1 DEF Waiting, Awaited
  <2>3. ~ (Len(queue["copy"]) > 0)
    BY <2>1, <2>2 DEF CopiesAwaited, Waiting
  <2>. QED
    BY <2>1, <2>3 DEF CopiesAwaited, Looping
<1>16. CASE Raise
  BY <1>3, <1>16 DEF Raise, CopiesAwaited, Looping
<1>17. CASE UNCHANGED vars
  BY <1>3, <1>17 DEF vars, hostVars, CopiesAwaited, Awaited, WaitFor, FetchedTo
<1>18. ASSUME NEW s \in Stream, Execute(s) PROVE CopiesAwaited'
  <2>1. /\ UNCHANGED hostVars /\ issued' = issued
    BY <1>18 DEF Execute
  <2>2. /\ Len(queue'["copy"]) = Len(queue["copy"]) - Shift(s, "copy")
        /\ Len(queue'["main"]) = Len(queue["main"]) - Shift(s, "main")
        /\ Shift(s, "copy") \in {0, 1} /\ Shift(s, "main") \in {0, 1}
        /\ Shift(s, "main") <= Len(queue["main"])
    BY <1>18, Shifted DEF Stream
  <2>3. Len(queue'["copy"]) > 0 => Len(queue["copy"]) > 0
    BY <1>4, <2>2
  <2>4. ASSUME Len(queue["copy"]) > 0, Waiting PROVE Waiting'
    <3>1. issued["copy"] > Done("copy")
      BY <1>4, <2>4
    <3>2. PICK l \in Nat : l = Len(queue'["main"]) + 1
      BY <1>4, <2>2
    <3>3. l + Shift(s, "main") = Len(queue["main"]) + 1
      BY <1>4, <2>2, <3>2
    <3>4. PICK c \in Nat : c = issued["copy"]
      BY <1>4
    <3>5. PICK k \in Nat : k = Len(queue["main"]) + 1
      BY <1>4
    <3>6. Awaited(l, c)'
      BY <1>4, <1>18, <2>4, <3>1, <3>2, <3>3, <3>4, <3>5, AwaitedShifted DEF Waiting
    <3>. QED
      BY <2>1, <3>2, <3>4, <3>6 DEF Waiting, Awaited, WaitFor
  <2>5. (Kept => Kept') /\ (ToCome => ToCome')
    BY <1>3, <2>1 DEF hostVars, Kept, ToCome, FetchedTo
  <2>. QED
    BY <1>3, <2>1, <2>3, <2>4, <2>5 DEF hostVars, CopiesAwaited, Waiting, Kept, ToCome
<1>. QED
  BY <1>8, <1>9, <1>10, <1>11, <1>12, <1>13, <1>14, <1>15, <1>16, <1>17, <1>18, Steps DEF Quiet

-----------------------------------------------------------------------------
(* An array of a weight is held because somebody is still to read it, or   *)
(* the caller gets it, and the weight is not far ahead.                    *)
LEMMA ArraysHeld ==
  ASSUME IInv, EnvAccounted, pc = "upload", NEW t \in DOMAIN env, env[t] # Activation
  PROVE  env[t].weight \in HeldAt(node)
<1>. USE DEF IInv
<1>1. PICK n \in Nat \ {0} : Nodes = 1..n
  BY GraphShape
<1>2. PICK w : w = env[t].weight
  OBVIOUS
<1>3. /\ w \in Used /\ Asked(w) /\ t \in ViewNames[graph][w] /\ t \notin graph.inputs
      /\ StillNamed(t) /\ w \in Weight
  BY <1>2, UseBounds DEF EnvAccounted, Accounted, Looping
<1>4. node \in Nat /\ Depth \in Nat /\ fetch \in Nat /\ fetch <= node + Depth + 1
  BY <1>1, StreamingAssumption DEF TypeOK, Position
<1>5. First(UsesOf(w)) <= node + Depth + 1
  <2>1. First(UsesOf(w)) \in Nodes
    BY <1>3, UseBounds
  <2>2. CASE First(UsesOf(w)) <= FetchedTo
    BY <1>1, <1>4, <2>1, <2>2 DEF FetchedTo
  <2>3. CASE w \in UploadsBefore(fetch)
    <3>1. First(UsesOf(w)) = fetch
      BY <2>3 DEF UploadsBefore
    <3>. QED
      BY <1>4, <3>1
  <2>. QED
    BY <1>3, <2>2, <2>3 DEF Asked
<1>6. PICK names : names = ViewNames[graph][w]
  OBVIOUS
<1>7. names \cap graph.outputs # {} \/ \E q \in Nodes : q >= node /\ names \cap graph.nodes[q].inputs # {}
  <2>1. CASE t \in Used /\ Last(UsesOf(t)) >= node
    <3>1. PICK q \in Nodes : q = Last(UsesOf(t)) /\ q \in UsesOf(t)
      BY <2>1, UseBounds
    <3>2. PICK u \in graph.nodes[q].inputs : t \in Alias(u)
      BY <3>1 DEF UsesOf
    <3>3. u \in names
      <4>1. CASE t = u
        BY <1>3, <1>6, <4>1
      <4>2. CASE t # u
        <5>1. PICK r \in Nodes : graph.nodes[r].op = "Identity" /\ u \in graph.nodes[r].outputs
                                   /\ t \in graph.nodes[r].inputs
          BY <3>2, <4>2 DEF Alias
        <5>. QED
          BY <1>3, <1>6, <5>1, ViewsFollow
      <4>. QED
        BY <4>1, <4>2
    <3>. QED
      BY <2>1, <3>1, <3>2, <3>3
  <2>2. CASE t \in Produced /\ t \in graph.outputs
    BY <1>3, <1>6, <2>2
  <2>3. CASE t \in Produced /\ Last(LifetimeOf(t)) >= node
    <3>1. PICK q \in Nodes : q = Last(LifetimeOf(t)) /\ q \in LifetimeOf(t)
      BY <2>3, LifetimeBounds
    <3>2. CASE t \in graph.nodes[q].inputs
      BY <1>3, <1>6, <2>3, <3>1, <3>2
    <3>3. CASE t \in graph.nodes[q].outputs
      <4>1. t \notin graph.inputs \cup Weight
        BY <2>3, GraphNames
      <4>2. PICK r \in Nodes : r <= node - 1 /\ t \in graph.nodes[r].outputs
        BY <4>1 DEF Names, Looping, LaunchedTo
      <4>3. r = q
        BY <3>3, <4>2, GraphNames
      <4>. QED
        BY <1>1, <1>4, <2>3, <3>1, <4>2, <4>3
    <3>. QED
      BY <3>1, <3>2, <3>3 DEF LifetimeOf
  <2>. QED
    BY <1>3, <2>1, <2>2, <2>3 DEF StillNamed
<1>. QED
  BY <1>2, <1>3, <1>5, <1>6, <1>7 DEF HeldAt

LEMMA HeldFinite ==
  ASSUME TypeOK, NEW p
  PROVE  IsFiniteSet(HeldAt(p)) /\ Cardinality(HeldAt(p)) \in Nat
<1>1. HeldAt(p) \in SUBSET Weight /\ IsFiniteSet(Weight)
  BY GraphNames DEF HeldAt, Used
<1>2. IsFiniteSet(HeldAt(p))
  BY <1>1, FS_Subset
<1>. QED
  BY <1>2, FS_CardinalityType

(* While no block is free, each holds a weight of its own that is held.    *)
LEMMA BlocksHeld ==
  ASSUME IInv, EnvAccounted, pc = "upload", freeBlocks = {}
  PROVE  Cardinality(pool) <= Cardinality(HeldAt(node))
<1>. USE DEF IInv
<1>1. pool \subseteq {env[t].block : t \in DOMAIN env} /\ 0 \notin pool
  <2>1. PICK c : pool = 1..c
    BY DEF TypeOK
  <2>. QED
    BY <2>1 DEF TypeOK
<1>2. PICK name : name = [b \in pool |-> CHOOSE t \in DOMAIN env : env[t].block = b]
  OBVIOUS
<1>3. \A b \in pool : name[b] \in DOMAIN env /\ env[name[b]].block = b
  <2>1. SUFFICES ASSUME NEW b \in pool PROVE name[b] \in DOMAIN env /\ env[name[b]].block = b
    OBVIOUS
  <2>2. \E t \in DOMAIN env : env[t].block = b
    BY <1>1
  <2>. QED
    BY <1>2, <2>2
<1>4. \A b \in pool : env[name[b]] # Activation
  BY <1>1, <1>3 DEF Activation
<1>5. PICK f : f = [b \in pool |-> env[name[b]].weight]
  OBVIOUS
<1>6. f \in [pool -> HeldAt(node)]
  BY <1>3, <1>4, <1>5, ArraysHeld
<1>7. ASSUME NEW b \in pool, NEW c \in pool, f[b] = f[c] PROVE b = c
  <2>1. env[name[b]].weight = env[name[c]].weight
    BY <1>5, <1>7
  <2>2. env[name[b]].block = env[name[c]].block
    BY <1>3, <1>4, <2>1 DEF EnvAccounted, Looping
  <2>. QED
    BY <1>3, <2>2
<1>8. f \in Injection(pool, HeldAt(node))
  BY <1>6, <1>7 DEF Injection, IsInjective
<1>. QED
  BY <1>8, HeldFinite, FS_Injection

(* The pool grows only when no block is free.                              *)
LEMMA BoundKept ==
  ASSUME IInv, EnvAccounted, PoolBounded, [Next]_vars,
         (IInv /\ EnvAccounted /\ pc = "upload" /\ freeBlocks = {}
            => Cardinality(pool) <= Cardinality(HeldAt(node)))',
         IInv', EnvAccounted'
  PROVE  PoolBounded'
<1>. USE DEF IInv
<1>1. graph' = graph /\ Nodes' = Nodes /\ \A p : HeldAt(p)' = HeldAt(p)
  BY GraphKept, TablesKept
<1>2. ASSUME pool' = pool PROVE PoolBounded'
  BY <1>1, <1>2 DEF PoolBounded
<1>3. ASSUME NEW w \in pending, Upload(w) PROVE PoolBounded'
  <2>1. CASE freeBlocks # {}
    <3>1. PICK b \in freeBlocks : pool' = pool \cup {b}
      BY <1>3, <2>1 DEF Upload
    <3>. QED
      BY <1>2, <3>1 DEF TypeOK
  <2>2. CASE freeBlocks = {}
    <3>1. freeBlocks' = {} /\ pc' = "upload"
      BY <1>3, <2>2 DEF Upload
    <3>2. Cardinality(pool') <= Cardinality(HeldAt(node)')
      BY <3>1
    <3>3. node' \in Nodes' \cup {0}
      BY DEF TypeOK
    <3>. QED
      BY <3>2, <3>3 DEF PoolBounded
  <2>. QED
    BY <2>1, <2>2
<1>4. CASE Quiet \/ StartUploads \/ WaitForWeights \/ Launch
  BY <1>2, <1>4 DEF Quiet, Begin, FetchNothing, FinishUploads, Free, Return, Raise, StartUploads,
    WaitForWeights, Launch, vars, poolVars
<1>5. ASSUME NEW s \in Stream, Execute(s) PROVE PoolBounded'
  BY <1>2, <1>5 DEF Execute, poolVars
<1>. QED
  BY <1>3, <1>4, <1>5, Steps

AInv == IInv /\ EnvAccounted /\ OutputsThere /\ CopiesAwaited /\ PoolBounded

(* The memory of the device is accounted for, however far the host runs    *)
(* ahead, after any number of failed calls and for any graphs and weights: *)
(* the blocks of the pool are in use or free, they are no more than the    *)
(* weights held at some node, and a call that returns keeps only its       *)
(* inputs and outputs and has no copy enqueued.                            *)
THEOREM MemoryIsAccounted == Spec => []MemoryAccounted
<1>1. Init => EnvAccounted /\ OutputsThere /\ CopiesAwaited /\ PoolBounded
  <2>1. SUFFICES ASSUME Init PROVE EnvAccounted /\ OutputsThere /\ CopiesAwaited /\ PoolBounded
    OBVIOUS
  <2>2. pc = "idle" /\ queue["copy"] = <<>> /\ pool = {}
    BY <2>1 DEF Init, Stream
  <2>3. EnvAccounted /\ OutputsThere /\ CopiesAwaited
    BY <2>2 DEF EnvAccounted, OutputsThere, CopiesAwaited, Looping, Ending
  <2>4. Cardinality(pool) = 0
    BY <2>2, FS_EmptySet
  <2>5. Cardinality(HeldAt(0)) \in Nat
    BY <2>1, InitHolds, HeldFinite DEF IInv
  <2>. QED
    BY <2>3, <2>4, <2>5 DEF PoolBounded
<1>2. AInv /\ [Next]_vars /\ IInv' => AInv'
  <2>1. IInv /\ EnvAccounted /\ pc = "upload" /\ freeBlocks = {}
          => Cardinality(pool) <= Cardinality(HeldAt(node))
    BY BlocksHeld
  <2>2. (IInv /\ EnvAccounted /\ pc = "upload" /\ freeBlocks = {}
           => Cardinality(pool) <= Cardinality(HeldAt(node)))'
    BY <2>1, PTL
  <2>. QED
    BY <2>2, EnvKept, OutputsKept, AwaitsKept, BoundKept DEF AInv
<1>3. AInv => MemoryAccounted
  <2>1. SUFFICES ASSUME AInv, pc = "returned"
                 PROVE  DOMAIN env = graph.inputs \cup graph.outputs /\ queue["copy"] = <<>>
    BY DEF AInv, IInv, MemoryAccounted, NothingLeftBehind
  <2>2. graph.outputs \subseteq graph.inputs \cup Produced
    BY <2>1, GraphNames DEF AInv, IInv
  <2>3. DOMAIN env = graph.inputs \cup graph.outputs
    BY <2>1, <2>2 DEF AInv, OutputsThere, Ending, Produced
  <2>4. PICK q \in Seq(OpOf("copy")) : q = queue["copy"]
    BY <2>1 DEF AInv, IInv, Queues, Stream
  <2>5. ~ (Len(q) > 0)
    BY <2>1, <2>4 DEF AInv, CopiesAwaited
  <2>. QED
    BY <2>3, <2>4, <2>5
<1>. QED
  BY <1>1, <1>2, <1>3, StreamingInvariant, PTL DEF Spec, AInv

=============================================================================
