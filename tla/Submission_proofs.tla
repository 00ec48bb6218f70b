------------------------- MODULE Submission_proofs -------------------------
(***************************************************************************)
(* Theorems about a submission on its way: about Delivery, for every tree  *)
(* a repository may hold and any number of runs of the two scripts, and    *)
(* about PublicGrade with the agents it asks, for every submission and     *)
(* every request.                                                          *)
(***************************************************************************)
EXTENDS Delivery, PublicGrade, TLAPS, WellFoundedInduction

(* Least elements.                                                         *)
LEMMA LeastOf ==
  ASSUME NEW S, S \subseteq Nat, S # {}
  PROVE  Min(S) \in S /\ \A y \in S : Min(S) <= y
<1>. DEFINE Below == OpToRel(<, Nat)
<1>1. PICK x \in S : \A y \in S : ~ (<<y, x>> \in Below)
  BY WFMin, NatLessThanWellFounded
<1>2. \A y \in S : y < x => <<y, x>> \in Below
  BY DEF OpToRel
<1>. HIDE DEF Below
<1>3. \A y \in S : ~ (y < x)
  BY <1>1, <1>2, Zenon
<1>4. \A y \in S : x <= y
  BY <1>3
<1>. QED
  BY <1>4 DEF Min

-----------------------------------------------------------------------------
(* The agents.                                                             *)
LEMMA LargestChunkFewest ==
  ASSUME NEW n \in Nat, NEW chunk \in {4096, 65536, 1048576}
  PROVE  CeilDiv(n, 1048576) \in Nat /\ CeilDiv(n, chunk) \in Nat
         /\ CeilDiv(n, 1048576) <= CeilDiv(n, chunk)
<1>1. CASE chunk = 4096
  BY <1>1 DEF CeilDiv
<1>2. CASE chunk = 65536
  BY <1>2 DEF CeilDiv
<1>3. CASE chunk = 1048576
  BY <1>3 DEF CeilDiv
<1>. QED
  BY <1>1, <1>2, <1>3

(* The DMA agent's answer is legal, and no legal one costs less.           *)
LEMMA DmaAgentCheapest ==
  ASSUME NEW request, DmaRequest(request)
  PROVE  /\ DmaAgent(request) \in LegalDmaActions(request)
         /\ \A other \in LegalDmaActions(request) :
              DmaCycles(request, DmaAgent(request)) <= DmaCycles(request, other)
<1>1. /\ request.bytes \in Nat /\ request.concurrency \in Nat \ {0}
      /\ request.registered \in BOOLEAN /\ request.alignment \in Nat
  BY DEF DmaRequest
<1>2. PICK agent : agent = DmaAgent(request)
  OBVIOUS
<1>3. /\ agent.channel = 0 /\ agent.chunk_bytes = 1048576
      /\ agent.queue_depth = QueueDepth(request.concurrency)
      /\ agent.use_zero_copy = request.registered
      /\ agent = [channel |-> 0, chunk_bytes |-> 1048576,
                  queue_depth |-> QueueDepth(request.concurrency), use_zero_copy |-> request.registered]
  BY <1>2 DEF DmaAgent
<1>4. agent \in LegalDmaActions(request)
  BY <1>1, <1>3 DEF LegalDmaActions, QueueDepth
<1>5. PICK payload \in Nat : payload = CeilDiv(request.bytes, 32)
  BY <1>1 DEF CeilDiv
<1>6. ASSUME NEW other \in LegalDmaActions(request)
      PROVE  DmaCycles(request, agent) <= DmaCycles(request, other)
  <2>1. /\ other.chunk_bytes \in {4096, 65536, 1048576} /\ other.queue_depth \in {1, 2, 4, 8}
        /\ other.use_zero_copy \in BOOLEAN /\ (other.use_zero_copy => request.registered)
    BY DEF LegalDmaActions
  <2>2. PICK few, chunks : /\ few = CeilDiv(request.bytes, 1048576) /\ few \in Nat
                           /\ chunks = CeilDiv(request.bytes, other.chunk_bytes) /\ chunks \in Nat
                           /\ few <= chunks
    BY <1>1, <2>1, LargestChunkFewest
  <2>3. PICK most, lanes : /\ most = Least(Least(agent.queue_depth, request.concurrency), 2)
                           /\ lanes = Least(Least(other.queue_depth, request.concurrency), 2)
    OBVIOUS
  <2>4. most \in {1, 2} /\ lanes \in {1, 2} /\ lanes <= most
    BY <1>1, <1>3, <2>1, <2>3 DEF Least, QueueDepth
  <2>5. PICK short, long : /\ short = CeilDiv(payload, most) /\ short \in Nat
                           /\ long = CeilDiv(payload, lanes) /\ long \in Nat
                           /\ short <= long
    <3>1. CASE most = 1 /\ lanes = 1
      BY <3>1 DEF CeilDiv
    <3>2. CASE most = 2 /\ lanes = 1
      BY <3>2 DEF CeilDiv
    <3>3. CASE most = 2 /\ lanes = 2
      BY <3>3 DEF CeilDiv
    <3>. QED
      BY <2>4, <3>1, <3>2, <3>3
  <2>6. PICK cheap, setup : /\ cheap = (IF agent.use_zero_copy THEN 45 ELSE 100)
                            /\ setup = (IF other.use_zero_copy THEN 45 ELSE 100)
    OBVIOUS
  <2>7. cheap \in Nat /\ setup \in Nat /\ cheap <= setup
    <3>1. CASE request.registered = TRUE
      BY <1>3, <2>6, <3>1
    <3>2. CASE request.registered = FALSE
      BY <1>3, <2>1, <2>6, <3>2
    <3>. QED
      BY <1>1, <3>1, <3>2
  <2>8. PICK penalty \in Nat : penalty = (IF request.alignment >= 64 THEN 0 ELSE 13)
    OBVIOUS
  <2>9. DmaCycles(request, agent) = cheap + short + 24 * (few - 1) + penalty
    BY <1>3, <1>5, <2>2, <2>3, <2>5, <2>6, <2>8 DEF DmaCycles
  <2>10. DmaCycles(request, other) = setup + long + 24 * (chunks - 1) + penalty
    BY <1>5, <2>2, <2>3, <2>5, <2>6, <2>8 DEF DmaCycles
  <2>. QED
    BY <2>2, <2>5, <2>7, <2>8, <2>9, <2>10
<1>. QED
  BY <1>2, <1>4, <1>6

(* The kernel agent picks a kernel that the device runs, and of those that *)
(* were measured a fastest one: naive is always legal, so the fallback to  *)
(* all candidates is never taken.                                          *)
LEMMA KernelAgentRuns ==
  ASSUME NEW request, KernelRequest(request), NEW c \in KernelAgent(request)
  PROVE  /\ c.id \in DeviceRuns(request)
         /\ \A x, y \in KernelCandidates(request.cycles) :
              x.id = c.id /\ x.cycles > 0 /\ y.cycles > 0 => x.cycles <= y.cycles
<1>1. PICK cycles : cycles = request.cycles
  OBVIOUS
<1>2. /\ cycles \in [KernelName -> Nat] /\ request.sides \subseteq Nat
      /\ request.workspace \in Nat /\ request.alignment \in Nat \ {0}
  BY <1>1 DEF KernelRequest
<1>3. PICK all : all = KernelCandidates(cycles)
  OBVIOUS
<1>4. \A x \in all : x.id \in KernelName /\ x.cycles = cycles[x.id] /\ x.cycles \in Nat
  BY <1>2, <1>3 DEF KernelCandidates, KernelName
<1>5. \A x, y \in all : x.id = y.id => x = y
  BY <1>3 DEF KernelCandidates
<1>6. PICK legal : legal = {x \in all : Legal(x, request)}
  OBVIOUS
<1>7. legal # {}
  <2>1. PICK naive \in all : naive.workspace = 0 /\ naive.alignment = 1 /\ naive.divisibility = 1
    BY <1>3 DEF KernelCandidates
  <2>2. \A side \in Nat : side % 1 = 0
    OBVIOUS
  <2>3. Legal(naive, request)
    BY <1>2, <2>1, <2>2 DEF Legal
  <2>. QED
    BY <1>6, <2>1, <2>3
<1>8. \A x \in all : Legal(x, request) <=> x.id \in DeviceRuns(request)
  <2>1. DeviceRuns(request) = {x.id : x \in {y \in all : Legal(y, request)}}
    BY <1>1, <1>3 DEF DeviceRuns, Legal
  <2>. QED
    BY <1>5, <2>1
<1>9. PICK measured : measured = {x \in legal : x.cycles > 0}
  OBVIOUS
<1>10. KernelAgent(request) =
         IF measured # {} THEN {x \in measured : x.cycles = Min({y.cycles : y \in measured})}
                          ELSE {x \in legal : x.variant = Max({y.variant : y \in legal})}
  BY <1>1, <1>3, <1>6, <1>7, <1>9 DEF KernelAgent
<1>11. c \in legal
  BY <1>9, <1>10
<1>12. c.id \in DeviceRuns(request)
  BY <1>6, <1>8, <1>11
<1>13. ASSUME NEW x \in all, NEW y \in all, x.id = c.id, x.cycles > 0, y.cycles > 0
       PROVE  x.cycles <= y.cycles
  <2>1. x = c
    BY <1>5, <1>6, <1>11, <1>13
  <2>2. y \in measured /\ x \in measured
    <3>1. y.id \in DeviceRuns(request)
      BY <1>1, <1>4, <1>13 DEF KernelRequest
    <3>. QED
      BY <1>6, <1>8, <1>9, <1>11, <1>13, <2>1, <3>1
  <2>3. PICK S : S = {z.cycles : z \in measured}
    OBVIOUS
  <2>4. S \subseteq Nat /\ S # {} /\ y.cycles \in S
    BY <1>4, <1>6, <1>9, <2>2, <2>3
  <2>5. x.cycles = Min(S)
    BY <1>10, <2>1, <2>2, <2>3
  <2>. QED
    BY <2>4, <2>5, LeastOf
<1>. QED
  BY <1>1, <1>3, <1>12, <1>13

-----------------------------------------------------------------------------
(* The tests.  A fault that a test injects is met by its next command, and *)
(* a test that does not end in "finally" holds nothing at its end.         *)
Command == {"dma", "kernel"}
Word ==
  {"alloc", "stream", "event", "register", "free", "unregister", "try", "finally", "check", "dma",
   "kernel", "inject_dma", "inject_kernel", "dma_fails", "kernel_fails", "dma_agent", "kernel_agent"}

Sound(test) ==
  /\ test \in Seq(Word) /\ Len(test) > 0
  /\ \A l \in 1..Len(test) : \A command \in Command :
       test[l] = Injecting[command] => l < Len(test) /\ test[l + 1] = Failing[command]

Calm(test) ==
  /\ test \in Seq(Word) /\ Len(test) > 0 /\ test[Len(test)] = "finally"
  /\ \A l \in 1..Len(test) : test[l] \notin {"inject_dma", "inject_kernel"}

LEMMA CalmConcat ==
  ASSUME NEW s, NEW t, Calm(s), Calm(t)
  PROVE  Calm(s \o t)
<1>1. /\ s \in Seq(Word) /\ t \in Seq(Word) /\ Len(s) \in Nat /\ Len(t) \in Nat
      /\ Len(s) > 0 /\ Len(t) > 0
  BY DEF Calm
<1>2. /\ s \o t \in Seq(Word) /\ Len(s \o t) = Len(s) + Len(t)
      /\ \A l \in 1..(Len(s) + Len(t)) : (s \o t)[l] = IF l <= Len(s) THEN s[l] ELSE t[l - Len(s)]
  BY <1>1
<1>3. (s \o t)[Len(s) + Len(t)] = "finally"
  <2>1. (s \o t)[Len(s) + Len(t)] = t[Len(t)]
    BY <1>1, <1>2
  <2>. QED
    BY <2>1 DEF Calm
<1>4. ASSUME NEW l \in 1..(Len(s) + Len(t))
      PROVE  (s \o t)[l] \notin {"inject_dma", "inject_kernel"}
  <2>1. CASE l <= Len(s)
    BY <1>1, <1>2, <2>1 DEF Calm
  <2>2. CASE ~ (l <= Len(s))
    <3>1. l - Len(s) \in 1..Len(t) /\ (s \o t)[l] = t[l - Len(s)]
      BY <1>1, <1>2, <2>2
    <3>. QED
      BY <3>1 DEF Calm
  <2>. QED
    BY <2>1, <2>2
<1>. QED
  BY <1>1, <1>2, <1>3, <1>4 DEF Calm

LEMMA CalmSound ==
  ASSUME NEW test, Calm(test)
  PROVE  Sound(test) /\ test[Len(test)] = "finally"
<1>1. \A command \in Command : Injecting[command] \in {"inject_dma", "inject_kernel"}
  BY DEF Command, Injecting
<1>. QED
  BY <1>1 DEF Calm, Sound

LEMMA TestsCalm ==
  /\ Calm(R103) /\ Calm(R104) /\ Calm(R105) /\ Calm(R201) /\ Calm(R202) /\ Calm(R203)
  /\ Calm(R204) /\ Calm(R301) /\ Calm(R302) /\ Calm(R303)
<1>1. Calm(R103)
  BY DEF Calm, Word, R103
<1>2. Calm(VectorAdd)
  BY DEF Calm, Word, VectorAdd
<1>3. Calm(R105)
  BY DEF Calm, Word, R105
<1>4. Calm(R201) /\ Calm(R203) /\ Calm(R202)
  <2>1. Calm(Gemm)
    BY <1>2 DEF Gemm
  <2>. QED
    BY <2>1, CalmConcat DEF R201, R202, R203
<1>5. Calm(R204)
  BY DEF Calm, Word, R204
<1>6. Calm(R301)
  BY DEF Calm, Word, R301, VectorAdd
<1>7. Calm(R302)
  BY DEF Calm, Word, R302
<1>8. Calm(R303)
  BY DEF Calm, Word, R303
<1>. QED
  BY <1>1, <1>2, <1>3, <1>4, <1>5, <1>6, <1>7, <1>8 DEF R104

Last(test) == test[Len(test)]

LEMMA TestsSound ==
  /\ Len(REQUIREMENTS) = 16 /\ DOMAIN REQUIREMENTS = 1..16
  /\ \A k \in 1..16 :
       /\ Sound(Tests[k])
       /\ k \notin {1, 2, 15, 16} => Last(Tests[k]) = "finally"
       /\ k \in {1, 15, 16} => Len(Tests[k]) = 1
       /\ k = 1 => Tests[k][1] = "check"
       /\ k = 15 => Tests[k][1] = "dma_agent"
       /\ k = 16 => Tests[k][1] = "kernel_agent"
       /\ k = 2 => Tests[k] = R102
<1>1. Len(REQUIREMENTS) = 16 /\ DOMAIN REQUIREMENTS = 1..16
  BY DEF REQUIREMENTS
<1>2. /\ Tests[1] = R101 /\ Tests[2] = R102 /\ Tests[3] = R103 /\ Tests[4] = R104
      /\ Tests[5] = R105 /\ Tests[6] = R106 /\ Tests[7] = R201 /\ Tests[8] = R202
      /\ Tests[9] = R203 /\ Tests[10] = R204 /\ Tests[11] = R301 /\ Tests[12] = R302
      /\ Tests[13] = R303 /\ Tests[14] = R304 /\ Tests[15] = R401 /\ Tests[16] = R402
  BY DEF Tests
<1>3. \A k \in {3, 4, 5, 7, 8, 9, 10, 11, 12, 13} : Calm(Tests[k])
  BY <1>2, TestsCalm
<1>4. \A k \in {3, 4, 5, 7, 8, 9, 10, 11, 12, 13} : Sound(Tests[k]) /\ Last(Tests[k]) = "finally"
  BY <1>3, CalmSound DEF Last
<1>5. Sound(R101) /\ Len(R101) = 1 /\ R101[1] = "check"
  BY DEF Sound, Word, R101, Injecting, Command
<1>6. Sound(R102)
  BY DEF Sound, Word, R102, Injecting, Command
<1>7. Sound(R106) /\ Last(R106) = "finally"
  BY DEF Sound, Word, R106, Injecting, Failing, Command, Last
<1>8. Sound(R304) /\ Last(R304) = "finally"
  BY DEF Sound, Word, R304, Injecting, Failing, Command, Last
<1>9. Sound(R401) /\ Len(R401) = 1 /\ R401[1] = "dma_agent"
  BY DEF Sound, Word, R401, Injecting, Command
<1>10. Sound(R402) /\ Len(R402) = 1 /\ R402[1] = "kernel_agent"
  BY DEF Sound, Word, R402, Injecting, Command
<1>11. \A k \in 1..16 : k \in {3, 4, 5, 7, 8, 9, 10, 11, 12, 13} \/ k \in {1, 2, 6, 14, 15, 16}
  OBVIOUS
<1>. QED
  BY <1>1, <1>2, <1>4, <1>5, <1>6, <1>7, <1>8, <1>9, <1>10, <1>11

LEMMA NamesApart ==
  \A j, k \in 1..16 : REQUIREMENTS[j] = REQUIREMENTS[k] => j = k
BY DEF REQUIREMENTS


(* A name in the report stands for one test.                               *)
LEMMA TestOf ==
  ASSUME NEW k \in 1..16, NEW r, r = REQUIREMENTS[k]
  PROVE  Tests[CHOOSE i \in DOMAIN REQUIREMENTS : REQUIREMENTS[i] = r] = Tests[k]
BY NamesApart, TestsSound

-----------------------------------------------------------------------------
(* The grader.  Tested: what has a verdict when it is the k-th turn.       *)
Tested(k) == {REQUIREMENTS[j] : j \in {i \in 1..(k - 1) : only \in {"all", REQUIREMENTS[i]}}}

GradeTypes ==
  /\ turn \in 1..17 /\ line \in Nat /\ only \in {"all", "R201"}
  /\ line > 0 => turn <= 16 /\ line <= Len(Test) /\ only \in {"all", Requirement}
  /\ results \in [Tested(turn) -> Nat]

(* A fault that waits was injected by the step before.                     *)
FaultsAreFresh ==
  line > 0 => \A command \in pending :
    command \in Command /\ line > 1 /\ Test[line - 1] = Injecting[command]

(* What R102 holds before its l-th step: it ends without a finally.        *)
HeldByR102(l) == IF l \in {3, 4} THEN {2} ELSE IF l \in {7, 8} THEN {6} ELSE {}

(* A test holds what an earlier step acquired and no finally gave back.    *)
MineSince ==
  /\ line = 0 => mine = {}
  /\ line > 0 => \A l \in mine :
       /\ l \in 1..(line - 1)
       /\ \A u \in l..(line - 1) : Test[u] # "finally"
  /\ line > 0 /\ turn = 2 => mine = HeldByR102(line)

(* A resource may stay behind when the k-th test fails at that line.       *)
MayStay(k, l, failedAt) ==
  /\ failedAt > l
  /\ Tests[k][l] # "register" => \A t \in l..(failedAt - 1) : Tests[k][t] # "try"

VerdictsEarned == \A r \in DOMAIN results : results[r] > 0 => <<r, results[r]>> \in faulty

LeftByFailures ==
  \A lost \in left : \E k \in 1..(turn - 1) :
    /\ lost[1] = REQUIREMENTS[k] /\ only \in {"all", lost[1]}
    /\ MayStay(k, lost[2], results[lost[1]])

AskedFairly ==
  \A question \in asked :
    \/ \E request \in DmaRequests :
         question = [request |-> request, answer |-> DmaAgent(request)]
    \/ \E request \in KernelRequests : \E c \in KernelAgent(request) :
         question = [request |-> request, answer |-> c.id]

RatedAtTheEnd == level # "none" => turn = 17 /\ LevelsFollowGates

GradeInv ==
  /\ GradeTypes /\ FaultsAreFresh /\ MineSince /\ VerdictsEarned /\ LeftByFailures
  /\ AskedFairly /\ RatedAtTheEnd

(* A verdict, with what stays behind.                                      *)
LEMMA Concluding ==
  ASSUME GradeInv, Running, Before, NEW failedAt \in Nat, NEW leaving,
         failedAt > 0 => <<Requirement, failedAt>> \in faulty,
         \A l \in leaving : MayStay(turn, l, failedAt),
         Conclude(failedAt, leaving)
  PROVE  GradeInv'
<1>1. PICK k \in 1..16 : k = turn
  BY TestsSound DEF GradeInv, GradeTypes, Running
<1>2. PICK name : name = REQUIREMENTS[k]
  OBVIOUS
<1>3. /\ line > 0 /\ Requirement = name /\ only \in {"all", name} /\ only \in {"all", "R201"}
      /\ results \in [Tested(turn) -> Nat]
  BY <1>1, <1>2 DEF GradeInv, GradeTypes, Running, Requirement
<1>4. /\ turn' = k + 1 /\ line' = 0 /\ mine' = {} /\ asked' = {} /\ faulty' = faulty
      /\ only' = only /\ level' = level
      /\ left' = left \cup {<<name, l>> : l \in leaving}
      /\ results' = [r \in DOMAIN results \cup {name} |-> IF r = name THEN failedAt ELSE results[r]]
  BY <1>1, <1>3 DEF Conclude, Before
<1>5. PICK old : old = Tested(turn)
  OBVIOUS
<1>6. \A r : r \in old <=> \E j \in 1..(k - 1) : only \in {"all", r} /\ r = REQUIREMENTS[j]
  BY <1>1, <1>5 DEF Tested
<1>7. name \notin old
  BY <1>1, <1>2, <1>6, NamesApart
<1>8. Tested(turn)' = old \cup {name}
  <2>1. Tested(turn)' = {REQUIREMENTS[j] : j \in {i \in 1..k : only \in {"all", REQUIREMENTS[i]}}}
    BY <1>4 DEF Tested
  <2>2. \A j \in 1..k : j \in 1..(k - 1) \/ j = k
    OBVIOUS
  <2>3. k \in 1..k /\ \A j \in 1..(k - 1) : j \in 1..k
    OBVIOUS
  <2>. QED
    BY <1>2, <1>3, <1>6, <2>1, <2>2, <2>3
<1>9. /\ DOMAIN results = old /\ results' \in [old \cup {name} -> Nat] /\ results'[name] = failedAt
      /\ \A r \in old : results'[r] = results[r]
  BY <1>3, <1>4, <1>5, <1>7
<1>10. GradeTypes'
  BY <1>3, <1>4, <1>8, <1>9 DEF GradeTypes
<1>11. FaultsAreFresh' /\ MineSince' /\ AskedFairly'
  BY <1>4 DEF FaultsAreFresh, MineSince, AskedFairly
<1>12. VerdictsEarned'
  BY <1>2, <1>3, <1>4, <1>9 DEF VerdictsEarned, GradeInv
<1>13. LeftByFailures'
  <2>. SUFFICES ASSUME NEW lost \in left'
                PROVE  \E j \in 1..k : /\ lost[1] = REQUIREMENTS[j] /\ only \in {"all", lost[1]}
                                       /\ MayStay(j, lost[2], results'[lost[1]])
    <3>1. 1..(turn' - 1) = 1..k
      BY <1>1, <1>4
    <3>2. LeftByFailures' <=>
            \A lost \in left' : \E j \in 1..(turn' - 1) :
              /\ lost[1] = REQUIREMENTS[j] /\ only' \in {"all", lost[1]}
              /\ MayStay(j, lost[2], results'[lost[1]])
      BY DEF LeftByFailures, MayStay
    <3>. QED
      BY <1>4, <3>1, <3>2, Zenon
  <2>1. CASE lost \in left
    <3>1. PICK j \in 1..(k - 1) : /\ lost[1] = REQUIREMENTS[j] /\ only \in {"all", lost[1]}
                                 /\ MayStay(j, lost[2], results[lost[1]])
      BY <1>1, <2>1 DEF GradeInv, LeftByFailures
    <3>2. lost[1] \in old
      BY <1>6, <3>1
    <3>. QED
      BY <1>9, <3>1, <3>2
  <2>2. CASE lost \notin left
    <3>1. PICK l \in leaving : lost = <<name, l>>
      BY <1>4, <2>2
    <3>2. lost[1] = name /\ lost[2] = l
      BY <3>1
    <3>. QED
      BY <1>1, <1>2, <1>3, <1>9, <3>2
  <2>. QED
    BY <2>1, <2>2
<1>14. RatedAtTheEnd'
  BY <1>1, <1>4 DEF RatedAtTheEnd, GradeInv
<1>. QED
  BY <1>10, <1>11, <1>12, <1>13, <1>14 DEF GradeInv

(* A fault that waits is met by this step or never.                        *)
LEMMA FaultMetNow ==
  ASSUME GradeInv, Running
  PROVE  \A command \in pending : command \in Command /\ Step = Failing[command]
<1>1. turn \in 1..16 /\ line \in Nat \ {0} /\ line <= Len(Test) /\ Test = Tests[turn]
  BY TestsSound DEF GradeInv, GradeTypes, Running, Test
<1>2. PICK test : test = Test
  OBVIOUS
<1>3. Sound(test)
  BY <1>1, <1>2, TestsSound
<1>. SUFFICES ASSUME NEW command \in pending
              PROVE  command \in Command /\ Step = Failing[command]
  OBVIOUS
<1>4. command \in Command /\ line > 1 /\ test[line - 1] = Injecting[command]
  BY <1>1, <1>2 DEF GradeInv, FaultsAreFresh
<1>5. PICK l \in 1..Len(test) : l = line - 1
  BY <1>1, <1>2, <1>3, <1>4 DEF Sound
<1>6. test[l + 1] = Failing[command]
  BY <1>3, <1>4, <1>5 DEF Sound
<1>. QED
  BY <1>1, <1>2, <1>4, <1>5, <1>6 DEF Step

(* A step that goes well, and what the test holds then.                    *)
LEMMA Advancing ==
  ASSUME GradeInv, Running, Before, UNCHANGED asked, NEW now, Passes(now),
         now \subseteq mine \cup {line}, line \in now => Step \in Acquiring,
         Step = "finally" => now = {}, turn = 2 => now = HeldByR102(line + 1),
         \A command \in pending' : command \in Command /\ Step = Injecting[command]
  PROVE  GradeInv'
<1>1. /\ turn \in 1..16 /\ line \in Nat /\ line > 0 /\ line <= Len(Test) /\ Test = Tests[turn]
      /\ only \in {"all", Requirement} /\ only \in {"all", "R201"}
      /\ results \in [Tested(turn) -> Nat]
  BY TestsSound DEF GradeInv, GradeTypes, Running, Test
<1>2. PICK test : test = Test
  OBVIOUS
<1>3. test \in Seq(Word) /\ Len(test) \in Nat /\ Step = test[line]
  <2>1. Sound(test)
    BY <1>1, <1>2, TestsSound
  <2>. QED
    BY <1>2, <2>1 DEF Sound, Step
<1>4. CASE line < Len(Test)
  <2>1. /\ line' = line + 1 /\ mine' = now /\ turn' = turn /\ left' = left /\ results' = results
        /\ faulty' = faulty /\ only' = only /\ level' = level /\ asked' = asked
    BY <1>4 DEF Passes, Before
  <2>2. Test' = test /\ Requirement' = Requirement /\ Tested(turn)' = Tested(turn)
    BY <1>2, <2>1 DEF Test, Requirement, Tested
  <2>3. GradeTypes'
    BY <1>1, <1>2, <1>3, <1>4, <2>1, <2>2 DEF GradeTypes
  <2>4. FaultsAreFresh'
    <3>1. line' > 1 /\ line' - 1 = line
      BY <1>1, <2>1
    <3>. QED
      BY <1>3, <2>1, <2>2, <3>1 DEF FaultsAreFresh
  <2>5. MineSince'
    <3>1. ASSUME NEW l \in now
          PROVE  l \in 1..line /\ \A u \in l..line : test[u] # "finally"
      <4>1. test[line] # "finally"
        BY <1>3, <3>1
      <4>2. CASE l = line
        BY <1>1, <4>1, <4>2
      <4>3. CASE l # line
        <5>1. l \in mine
          BY <4>3
        <5>2. l \in 1..(line - 1) /\ \A u \in l..(line - 1) : test[u] # "finally"
          BY <1>1, <1>2, <5>1 DEF GradeInv, MineSince
        <5>3. \A u \in l..line : u \in l..(line - 1) \/ u = line
          BY <1>1, <5>2
        <5>. QED
          BY <1>1, <4>1, <5>2, <5>3
      <4>. QED
        BY <4>2, <4>3
    <3>2. line' - 1 = line /\ line' > 0
      BY <1>1, <2>1
    <3>. QED
      BY <2>1, <2>2, <3>1, <3>2 DEF MineSince, HeldByR102
  <2>6. VerdictsEarned' /\ AskedFairly'
    BY <2>1 DEF GradeInv, VerdictsEarned, AskedFairly
  <2>7. LeftByFailures'
    BY <2>1 DEF GradeInv, LeftByFailures, MayStay
  <2>8. RatedAtTheEnd'
    BY <1>1, <2>1 DEF GradeInv, RatedAtTheEnd
  <2>. QED
    BY <2>3, <2>4, <2>5, <2>6, <2>7, <2>8 DEF GradeInv
<1>5. CASE ~ (line < Len(Test))
  <2>1. line = Len(test) /\ Conclude(0, now)
    BY <1>1, <1>2, <1>3, <1>5 DEF Passes
  <2>2. now = {}
    <3>1. CASE turn \in 1..16 \ {1, 2, 15, 16}
      <4>1. Last(test) = "finally"
        BY <1>1, <1>2, <3>1, TestsSound
      <4>. QED
        BY <1>3, <2>1, <4>1 DEF Last
    <3>2. CASE turn = 2
      <4>1. test = R102
        BY <1>1, <1>2, <3>2, TestsSound
      <4>2. Len(R102) = 9
        BY DEF R102
      <4>3. line + 1 = 10 /\ HeldByR102(10) = {}
        BY <2>1, <4>1, <4>2 DEF HeldByR102
      <4>. QED
        BY <3>2, <4>3
    <3>3. CASE turn \in {1, 15, 16}
      <4>1. line = 1 /\ Step \in {"check", "dma_agent", "kernel_agent"}
        BY <1>1, <1>2, <1>3, <2>1, <3>3, TestsSound
      <4>2. mine = {}
        <5>1. \A l \in mine : l \in 1..(line - 1)
          BY <1>1 DEF GradeInv, MineSince
        <5>. QED
          BY <4>1, <5>1
      <4>3. 1 \notin now
        BY <4>1 DEF Acquiring
      <4>. QED
        BY <4>1, <4>2, <4>3
    <3>. QED
      BY <1>1, <3>1, <3>2, <3>3
  <2>3. 0 \in Nat /\ ~ (0 > 0) /\ \A l \in now : MayStay(turn, l, 0)
    BY <2>2
  <2>. QED
    BY <2>1, <2>3, Concluding
<1>. QED
  BY <1>4, <1>5

(* A step that goes well.                                                  *)
LEMMA WellKeeps ==
  ASSUME GradeInv, Well
  PROVE  GradeInv'
<1>1. Running /\ Before
  BY DEF Well
<1>2. /\ turn \in 1..16 /\ line \in Nat /\ line > 0 /\ line <= Len(Test) /\ Test = Tests[turn]
  BY <1>1, TestsSound DEF GradeInv, GradeTypes, Running, Test
<1>3. \A command \in pending : command \in Command /\ Step = Failing[command]
  BY <1>1, FaultMetNow
<1>4. \A command \in Command : Failing[command] \in {"dma_fails", "kernel_fails"}
  BY DEF Command, Failing
<1>5. \A command \in Command : Injecting[command] \in {"inject_dma", "inject_kernel"}
  BY DEF Command, Injecting
<1>6. turn = 2 => line \in 1..9 /\ Step = R102[line] /\ mine = HeldByR102(line)
  <2>1. Len(R102) = 9
    BY DEF R102
  <2>2. turn = 2 => Test = R102
    BY <1>2, TestsSound
  <2>. QED
    BY <1>2, <2>1, <2>2 DEF Step, GradeInv, MineSince
<1>7. \A l \in 1..9 : R102[l] \in {"check", "alloc", "free"}
  BY DEF R102
<1>8. PICK at : at = line
  OBVIOUS
<1>9. CASE Step \in Acquiring /\ Passes(mine \cup {line}) /\ UNCHANGED <<pending, asked>>
  <2>1. PICK now : now = mine \cup {line}
    OBVIOUS
  <2>2. pending' = {}
    BY <1>3, <1>4, <1>9 DEF Acquiring
  <2>3. turn = 2 => now = HeldByR102(line + 1)
    <3>1. R102[at] \in Acquiring /\ at \in 1..9 => at \in {2, 6}
      BY DEF R102, Acquiring
    <3>. QED
      BY <1>6, <1>8, <1>9, <2>1, <3>1 DEF HeldByR102
  <2>. QED
    BY <1>1, <1>9, <2>1, <2>2, <2>3, Advancing DEF Acquiring
<1>10. CASE Step \in {"check", "try"} /\ Passes(mine) /\ UNCHANGED <<pending, asked>>
  <2>1. PICK now : now = mine
    OBVIOUS
  <2>2. pending' = {}
    BY <1>3, <1>4, <1>10
  <2>3. turn = 2 => now = HeldByR102(line + 1)
    <3>1. R102[at] = "check" /\ at \in 1..9 => at \in {1, 3, 5, 7, 9}
      BY DEF R102
    <3>. QED
      BY <1>6, <1>7, <1>8, <1>10, <2>1, <3>1 DEF HeldByR102
  <2>4. line \notin mine
    BY <1>2 DEF GradeInv, MineSince
  <2>. QED
    BY <1>1, <1>10, <2>1, <2>2, <2>3, <2>4, Advancing
<1>11. CASE /\ Step \in {"free", "unregister"} /\ Passes(mine \ {Max(mine)})
            /\ UNCHANGED <<pending, asked>>
  <2>1. PICK now : now = mine \ {Max(mine)}
    OBVIOUS
  <2>2. pending' = {}
    BY <1>3, <1>4, <1>11
  <2>3. turn = 2 => now = HeldByR102(line + 1)
    <3>1. R102[at] = "free" /\ at \in 1..9 => at \in {4, 8}
      BY DEF R102
    <3>2. Max({2}) = 2 /\ Max({6}) = 6
      BY DEF Max
    <3>3. turn = 2 => at \in {4, 8} /\ mine = HeldByR102(at) /\ line = at
      BY <1>6, <1>7, <1>8, <1>11, <3>1
    <3>4. ASSUME turn = 2, at = 4
          PROVE  now = HeldByR102(line + 1)
      BY <2>1, <3>2, <3>3, <3>4 DEF HeldByR102
    <3>5. ASSUME turn = 2, at = 8
          PROVE  now = HeldByR102(line + 1)
      BY <2>1, <3>2, <3>3, <3>5 DEF HeldByR102
    <3>. QED
      BY <3>3, <3>4, <3>5
  <2>4. line \notin mine
    BY <1>2 DEF GradeInv, MineSince
  <2>. QED
    BY <1>1, <1>11, <2>1, <2>2, <2>3, <2>4, Advancing
<1>12. CASE Step = "finally" /\ Passes({}) /\ UNCHANGED <<pending, asked>>
  <2>1. PICK now : now = {}
    OBVIOUS
  <2>2. pending' = {}
    BY <1>3, <1>4, <1>12
  <2>3. turn # 2
    BY <1>6, <1>7, <1>12
  <2>. QED
    BY <1>1, <1>12, <2>1, <2>2, <2>3, Advancing
<1>13. ASSUME NEW command \in {"dma", "kernel"},
              \/ /\ Step = command /\ command \notin pending /\ Passes(mine)
                 /\ UNCHANGED <<pending, asked>>
              \/ /\ Step = Failing[command] /\ command \in pending /\ Passes(mine)
                 /\ Meets(command) /\ UNCHANGED asked
              \/ /\ Step = Injecting[command] /\ Passes(mine)
                 /\ pending' = pending \cup {command} /\ UNCHANGED asked
       PROVE  GradeInv'
  <2>1. PICK now : now = mine
    OBVIOUS
  <2>2. Step \notin {"check", "alloc", "free", "finally"}
    BY <1>4, <1>5, <1>13 DEF Command
  <2>3. turn # 2 /\ Step # "finally" /\ line \notin mine
    BY <1>2, <1>6, <1>7, <2>2 DEF GradeInv, MineSince
  <2>4. \A c \in pending' : c \in Command /\ Step = Injecting[c]
    <3>1. \A c \in Command : Failing[c] = Failing[command] => c = command
      BY DEF Command, Failing
    <3>2. CASE Step = command /\ UNCHANGED pending
      BY <1>3, <1>4, <3>2
    <3>3. CASE Step = Failing[command] /\ Meets(command)
      BY <1>3, <3>1, <3>3 DEF Meets
    <3>4. CASE Step = Injecting[command] /\ pending' = pending \cup {command}
      BY <1>3, <1>4, <1>5, <3>4 DEF Command
    <3>. QED
      BY <1>13, <3>2, <3>3, <3>4
  <2>5. Passes(now) /\ UNCHANGED asked
    BY <1>13, <2>1
  <2>. QED
    BY <1>1, <2>1, <2>3, <2>4, <2>5, Advancing
<1>. QED
  BY <1>9, <1>10, <1>11, <1>12, <1>13 DEF Well

(* A step that fails: no fault that still waits can be why.                *)
LEMMA RaisesKeeps ==
  ASSUME GradeInv, Raises
  PROVE  GradeInv'
<1>1. Running /\ Before /\ Conclude(line, KeptByFailure)
  BY DEF Raises
<1>2. /\ turn \in 1..16 /\ line \in Nat /\ line > 0 /\ Test = Tests[turn]
  BY <1>1, TestsSound DEF GradeInv, GradeTypes, Running, Test
<1>3. <<Requirement, line>> \in faulty
  <2>1. ~ (Step \in {"dma", "kernel"} \cap pending)
    BY <1>1, FaultMetNow DEF Command, Failing
  <2>. QED
    BY <2>1 DEF Raises
<1>4. PICK kept, at : kept = KeptByFailure /\ at = line
  OBVIOUS
<1>5. ASSUME NEW l \in kept
      PROVE  MayStay(turn, l, at)
  <2>1. l \in mine
    BY <1>4 DEF KeptByFailure
  <2>2. l \in 1..(at - 1) /\ \A u \in l..(at - 1) : Test[u] # "finally"
    BY <1>2, <1>4, <2>1 DEF GradeInv, MineSince
  <2>3. at > l
    BY <1>2, <1>4, <2>2
  <2>4. CASE Trying
    BY <1>2, <1>4, <2>3, <2>4 DEF KeptByFailure, MayStay
  <2>5. CASE ~ Trying
    <3>1. ASSUME NEW t \in l..(at - 1), Test[t] = "try"
          PROVE  FALSE
      <4>1. t \in 1..(line - 1)
        BY <1>2, <1>4, <2>2
      <4>2. PICK u \in t..(line - 1) : Test[u] = "finally"
        BY <2>5, <3>1, <4>1 DEF Trying
      <4>3. u \in l..(at - 1)
        BY <1>2, <1>4, <2>2, <4>1
      <4>. QED
        BY <2>2, <4>2, <4>3
    <3>. QED
      BY <1>2, <2>3, <3>1 DEF MayStay
  <2>. QED
    BY <2>4, <2>5
<1>6. at \in Nat /\ <<Requirement, at>> \in faulty /\ Conclude(at, kept)
  BY <1>1, <1>2, <1>3, <1>4
<1>. QED
  BY <1>1, <1>5, <1>6, Concluding

(* What an agent answers to a question it may be asked is accepted, and    *)
(* there is no better answer.                                              *)
LEMMA AnswersAreGood ==
  ASSUME NEW question,
         \/ \E request \in DmaRequests :
              question = [request |-> request, answer |-> DmaAgent(request)]
         \/ \E request \in KernelRequests : \E c \in KernelAgent(request) :
              question = [request |-> request, answer |-> c.id]
  PROVE  /\ Accepted(question)
         /\ IF "bytes" \in DOMAIN question.request
            THEN \A other \in LegalDmaActions(question.request) :
                   DmaCycles(question.request, question.answer) <= DmaCycles(question.request, other)
            ELSE \A c, d \in KernelCandidates(question.request.cycles) :
                   c.id = question.answer /\ c.cycles > 0 /\ d.cycles > 0 => c.cycles <= d.cycles
<1>1. ASSUME NEW request \in DmaRequests, NEW answer, answer = DmaAgent(request),
             question = [request |-> request, answer |-> answer]
      PROVE  /\ "bytes" \in DOMAIN question.request
             /\ answer \in LegalDmaActions(request)
             /\ \A other \in LegalDmaActions(request) :
                  DmaCycles(request, answer) <= DmaCycles(request, other)
  <2>1. DmaRequest(request)
    BY RequestsAssumption
  <2>2. "bytes" \in DOMAIN request
    BY <2>1 DEF DmaRequest
  <2>. QED
    BY <1>1, <2>1, <2>2, DmaAgentCheapest
<1>2. ASSUME NEW request \in KernelRequests, NEW c \in KernelAgent(request),
             question = [request |-> request, answer |-> c.id]
      PROVE  /\ "bytes" \notin DOMAIN question.request
             /\ c.id \in DeviceRuns(request)
             /\ \A x, y \in KernelCandidates(request.cycles) :
                  x.id = c.id /\ x.cycles > 0 /\ y.cycles > 0 => x.cycles <= y.cycles
  <2>1. KernelRequest(request)
    BY RequestsAssumption
  <2>2. "bytes" \notin DOMAIN request
    BY <2>1 DEF KernelRequest
  <2>. QED
    BY <1>2, <2>1, <2>2, KernelAgentRuns
<1>3. CASE \E request \in DmaRequests :
             question = [request |-> request, answer |-> DmaAgent(request)]
  <2>1. PICK request \in DmaRequests :
          question = [request |-> request, answer |-> DmaAgent(request)]
    BY <1>3
  <2>2. PICK answer : answer = DmaAgent(request)
    OBVIOUS
  <2>3. question = [request |-> request, answer |-> answer]
    BY <2>1, <2>2
  <2>4. question.request = request /\ question.answer = answer
    BY <2>3
  <2>. QED
    BY <1>1, <2>2, <2>3, <2>4 DEF Accepted
<1>4. CASE \E request \in KernelRequests : \E c \in KernelAgent(request) :
             question = [request |-> request, answer |-> c.id]
  <2>1. PICK request \in KernelRequests : \E c \in KernelAgent(request) :
          question = [request |-> request, answer |-> c.id]
    BY <1>4
  <2>2. PICK c \in KernelAgent(request) : question = [request |-> request, answer |-> c.id]
    BY <2>1
  <2>3. question.request = request /\ question.answer = c.id
    BY <2>2
  <2>. QED
    BY <1>2, <2>2, <2>3 DEF Accepted
<1>. QED
  BY <1>3, <1>4

(* The agents are asked, and judged.                                       *)
LEMMA AskingKeeps ==
  ASSUME GradeInv, AskDmaAgent \/ AskKernelAgent
  PROVE  GradeInv'
<1>1. /\ faulty' = faulty /\ only' = only /\ level' = level /\ pending' = pending
      /\ turn' = turn /\ line' = line /\ mine' = mine /\ left' = left /\ results' = results
  BY DEF AskDmaAgent, AskKernelAgent, Before
<1>2. AskedFairly'
  <2>1. CASE AskDmaAgent
    BY <2>1 DEF AskDmaAgent, AskedFairly
  <2>2. CASE AskKernelAgent
    <3>1. PICK request \in KernelRequests, answer \in KernelName :
            /\ \E c \in KernelAgent(request) : c.id = answer
            /\ asked' = {[request |-> request, answer |-> answer]}
      BY <2>2 DEF AskKernelAgent
    <3>. QED
      BY <3>1 DEF AskedFairly
  <2>. QED
    BY <2>1, <2>2
<1>3. GradeTypes' /\ FaultsAreFresh' /\ MineSince' /\ VerdictsEarned'
  BY <1>1 DEF GradeInv, GradeTypes, FaultsAreFresh, MineSince, VerdictsEarned, Test, Requirement,
              Tested
<1>4. LeftByFailures'
  BY <1>1 DEF GradeInv, LeftByFailures, MayStay
<1>5. RatedAtTheEnd'
  BY <1>1, TestsSound
     DEF GradeInv, GradeTypes, RatedAtTheEnd, AskDmaAgent, AskKernelAgent, Running
<1>. QED
  BY <1>2, <1>3, <1>4, <1>5 DEF GradeInv

LEMMA AgentsDoneKeeps ==
  ASSUME GradeInv, AgentsDone
  PROVE  GradeInv'
<1>1. PICK question \in asked : Conclude(IF Accepted(question) THEN 0 ELSE line, {})
  BY DEF AgentsDone
<1>2. Accepted(question)
  BY AnswersAreGood DEF GradeInv, AskedFairly
<1>3. PICK nothing : nothing = {}
  OBVIOUS
<1>4. Conclude(0, nothing) /\ 0 \in Nat /\ ~ (0 > 0) /\ \A l \in nothing : MayStay(turn, l, 0)
  BY <1>1, <1>2, <1>3
<1>. QED
  BY <1>4, Concluding DEF AgentsDone

(* The next requirement, or the one after it when it is not asked for.     *)
LEMMA BeginKeeps ==
  ASSUME GradeInv, Begin
  PROVE  GradeInv'
<1>1. /\ turn \in 1..16 /\ line = 0 /\ mine = {} /\ level = "none" /\ only \in {"all", "R201"}
      /\ results \in [Tested(turn) -> Nat]
  BY TestsSound DEF GradeInv, GradeTypes, Begin, MineSince, RatedAtTheEnd
<1>2. /\ faulty' = faulty /\ only' = only /\ level' = level /\ mine' = mine /\ left' = left
      /\ results' = results /\ asked' = asked
  BY DEF Begin, Before
<1>3. VerdictsEarned' /\ AskedFairly' /\ RatedAtTheEnd'
  BY <1>1, <1>2 DEF GradeInv, VerdictsEarned, AskedFairly, RatedAtTheEnd
<1>4. CASE only \in {"all", Requirement}
  <2>1. pending' = {} /\ line' = 1 /\ turn' = turn
    BY <1>4 DEF Begin, Reset
  <2>2. 1 <= Len(Test) /\ Test' = Test /\ Requirement' = Requirement /\ Tested(turn)' = Tested(turn)
    <3>1. Sound(Test)
      BY <1>1, TestsSound DEF Test
    <3>2. 1 <= Len(Test)
      BY <3>1 DEF Sound
    <3>. QED
      BY <1>2, <2>1, <3>2 DEF Test, Requirement, Tested
  <2>3. GradeTypes'
    BY <1>1, <1>2, <1>4, <2>1, <2>2 DEF GradeTypes
  <2>4. FaultsAreFresh' /\ MineSince'
    BY <1>1, <1>2, <2>1 DEF FaultsAreFresh, MineSince, HeldByR102
  <2>5. LeftByFailures'
    BY <1>2, <2>1 DEF GradeInv, LeftByFailures, MayStay
  <2>. QED
    BY <1>3, <2>3, <2>4, <2>5 DEF GradeInv
<1>5. CASE only \notin {"all", Requirement}
  <2>1. turn' = turn + 1 /\ line' = 0
    BY <1>1, <1>5 DEF Begin
  <2>2. PICK k \in 1..16 : k = turn
    BY <1>1
  <2>3. Tested(turn)' = Tested(turn)
    <3>1. Tested(turn)' = {REQUIREMENTS[j] : j \in {i \in 1..k : only \in {"all", REQUIREMENTS[i]}}}
      BY <1>2, <2>1, <2>2 DEF Tested
    <3>2. \A i \in 1..k : only \in {"all", REQUIREMENTS[i]} => i \in 1..(k - 1)
      BY <1>5, <2>2 DEF Requirement
    <3>3. \A i \in 1..(k - 1) : i \in 1..k
      OBVIOUS
    <3>4. {i \in 1..k : only \in {"all", REQUIREMENTS[i]}}
            = {i \in 1..(k - 1) : only \in {"all", REQUIREMENTS[i]}}
      BY <3>2, <3>3
    <3>. QED
      BY <2>2, <3>1, <3>4 DEF Tested
  <2>4. GradeTypes'
    BY <1>1, <1>2, <2>1, <2>3 DEF GradeTypes
  <2>5. FaultsAreFresh' /\ MineSince'
    BY <1>1, <1>2, <2>1 DEF FaultsAreFresh, MineSince
  <2>6. LeftByFailures'
    <3>1. \A j \in 1..(turn - 1) : j \in 1..(turn' - 1)
      BY <1>1, <2>1
    <3>2. LeftByFailures' <=>
            \A lost \in left' : \E j \in 1..(turn' - 1) :
              /\ lost[1] = REQUIREMENTS[j] /\ only' \in {"all", lost[1]}
              /\ MayStay(j, lost[2], results'[lost[1]])
      BY DEF LeftByFailures, MayStay
    <3>. QED
      BY <1>2, <3>1, <3>2 DEF GradeInv, LeftByFailures
  <2>. QED
    BY <1>3, <2>4, <2>5, <2>6 DEF GradeInv
<1>. QED
  BY <1>4, <1>5

(* The requirements of a gate are worth the points of its level.           *)
LEMMA GatesEarn ==
  ASSUME turn = 17, results \in [Tested(17) -> Nat]
  PROVE  (BasicGate => Score >= 30) /\ (GoodGate => Score >= 75)
<1>1. \A i \in 1..16 : Points[i] \in Nat
  BY DEF Points
<1>2. \A i \in 1..16 : Earned(i) \in Nat
  BY <1>1 DEF Earned
<1>3. only = "all" => \A i \in 1..16 : REQUIREMENTS[i] \in DOMAIN results
  BY DEF Tested
<1>4. ASSUME only = "all", NEW i \in 1..14, results[REQUIREMENTS[i]] = 0
      PROVE  Earned(i) = Points[i]
  <2>1. REQUIREMENTS[i] \notin {"R401", "R402"}
    BY DEF REQUIREMENTS
  <2>. QED
    BY <1>3, <1>4, <2>1 DEF Earned
<1>5. BasicGate => /\ Earned(1) = 4 /\ Earned(2) = 6 /\ Earned(3) = 6 /\ Earned(4) = 4
                   /\ Earned(7) = 10
  <2>1. BasicGate => /\ only = "all" /\ results[REQUIREMENTS[1]] = 0 /\ results[REQUIREMENTS[2]] = 0
                     /\ results[REQUIREMENTS[3]] = 0 /\ results[REQUIREMENTS[4]] = 0
                     /\ results[REQUIREMENTS[7]] = 0
    BY DEF BasicGate, Passed, REQUIREMENTS
  <2>2. /\ Points[1] = 4 /\ Points[2] = 6 /\ Points[3] = 6 /\ Points[4] = 4 /\ Points[7] = 10
    BY DEF Points
  <2>. QED
    BY <1>4, <2>1, <2>2
<1>6. GoodGate => /\ Earned(5) = 5 /\ Earned(6) = 5 /\ Earned(8) = 10 /\ Earned(9) = 4
                  /\ Earned(10) = 6 /\ Earned(11) = 6 /\ Earned(12) = 6 /\ Earned(13) = 4
                  /\ Earned(14) = 4
  <2>1. GoodGate => /\ only = "all" /\ results[REQUIREMENTS[5]] = 0 /\ results[REQUIREMENTS[6]] = 0
                    /\ results[REQUIREMENTS[8]] = 0 /\ results[REQUIREMENTS[9]] = 0
                    /\ results[REQUIREMENTS[10]] = 0 /\ results[REQUIREMENTS[11]] = 0
                    /\ results[REQUIREMENTS[12]] = 0 /\ results[REQUIREMENTS[13]] = 0
                    /\ results[REQUIREMENTS[14]] = 0
    BY DEF GoodGate, BasicGate, Passed, REQUIREMENTS
  <2>2. /\ Points[5] = 5 /\ Points[6] = 5 /\ Points[8] = 10 /\ Points[9] = 4 /\ Points[10] = 6
        /\ Points[11] = 6 /\ Points[12] = 6 /\ Points[13] = 4 /\ Points[14] = 4
    BY DEF Points
  <2>. QED
    BY <1>4, <2>1, <2>2
<1>7. BasicGate => Score >= 30
  BY <1>2, <1>5 DEF Score
<1>8. GoodGate => Score >= 75
  BY <1>2, <1>5, <1>6 DEF Score, GoodGate
<1>. QED
  BY <1>7, <1>8

LEMMA RateKeeps ==
  ASSUME GradeInv, Rate
  PROVE  GradeInv'
<1>1. /\ faulty' = faulty /\ only' = only /\ pending' = pending /\ asked' = asked
      /\ turn' = turn /\ line' = line /\ mine' = mine /\ left' = left /\ results' = results
  BY DEF Rate
<1>2. turn = 17 /\ results \in [Tested(17) -> Nat]
  BY TestsSound DEF GradeInv, GradeTypes, Rate
<1>3. /\ GradeTypes' /\ FaultsAreFresh' /\ MineSince' /\ VerdictsEarned' /\ AskedFairly'
  BY <1>1 DEF GradeInv, GradeTypes, FaultsAreFresh, MineSince, VerdictsEarned, AskedFairly, Test,
              Requirement, Tested
<1>4. LeftByFailures'
  BY <1>1 DEF GradeInv, LeftByFailures, MayStay
<1>5. (BasicGate => Score >= 30) /\ (GoodGate => Score >= 75)
  BY <1>2, GatesEarn
<1>6. GoodGate' = GoodGate /\ BasicGate' = BasicGate
  BY <1>1 DEF GoodGate, BasicGate, Passed
<1>7. level' = IF GoodGate THEN "Good" ELSE IF BasicGate THEN "Basic" ELSE "Not_passed"
  BY <1>5 DEF Rate
<1>8. GoodGate => BasicGate
  BY DEF GoodGate
<1>9. RatedAtTheEnd'
  BY <1>1, <1>2, <1>6, <1>7, <1>8 DEF RatedAtTheEnd, LevelsFollowGates
<1>. QED
  BY <1>3, <1>4, <1>9 DEF GradeInv

LEMMA GradeStarts == GradeInit => GradeInv
<1>. SUFFICES ASSUME GradeInit PROVE GradeInv
  OBVIOUS
<1>1. turn = 1 /\ line = 0 /\ mine = {} /\ left = {} /\ asked = {} /\ level = "none"
  BY DEF GradeInit
<1>2. Tested(turn) = {} /\ results \in [Tested(turn) -> Nat]
  BY <1>1 DEF GradeInit, Tested
<1>. QED
  BY <1>1, <1>2 DEF GradeInit, GradeInv, GradeTypes, FaultsAreFresh, MineSince, VerdictsEarned,
                    LeftByFailures, AskedFairly, RatedAtTheEnd

LEMMA GradeSteps == GradeInv /\ [GradeNext]_gradeVars => GradeInv'
<1>. SUFFICES ASSUME GradeInv, [GradeNext]_gradeVars PROVE GradeInv'
  OBVIOUS
<1>1. CASE UNCHANGED gradeVars
  <2>1. /\ faulty' = faulty /\ only' = only /\ pending' = pending /\ asked' = asked
        /\ turn' = turn /\ line' = line /\ mine' = mine /\ left' = left /\ results' = results
        /\ level' = level
    BY <1>1 DEF gradeVars
  <2>2. GradeTypes' /\ FaultsAreFresh' /\ MineSince' /\ VerdictsEarned' /\ AskedFairly'
    BY <2>1 DEF GradeInv, GradeTypes, FaultsAreFresh, MineSince, VerdictsEarned, AskedFairly, Test,
                Requirement, Tested
  <2>3. LeftByFailures'
    BY <2>1 DEF GradeInv, LeftByFailures, MayStay
  <2>4. RatedAtTheEnd'
    BY <2>1 DEF GradeInv, RatedAtTheEnd, LevelsFollowGates, GoodGate, BasicGate, Passed
  <2>. QED
    BY <2>2, <2>3, <2>4 DEF GradeInv
<1>. QED
  BY <1>1, BeginKeeps, WellKeeps, RaisesKeeps, AskingKeeps, AgentsDoneKeeps, RateKeeps DEF GradeNext

THEOREM GradeInvariant == GradeSpec => []GradeInv
BY GradeStarts, GradeSteps, PTL DEF GradeSpec

(* No requirement is decided by what an earlier one left, and what stays   *)
(* behind is what a failing test acquired before its try block or          *)
(* registered: for every submission.                                       *)
THEOREM NothingCarriesOver == GradeSpec => []NoCarryOver
<1>1. GradeInv => NoCarryOver
  <2>. SUFFICES ASSUME GradeInv PROVE NoCarryOver
    OBVIOUS
  <2>1. ASSUME NEW lost \in left, NEW test,
               test = Tests[CHOOSE i \in DOMAIN REQUIREMENTS : REQUIREMENTS[i] = lost[1]]
        PROVE  /\ results[lost[1]] > lost[2]
               /\ test[lost[2]] # "register" =>
                    \A t \in lost[2]..(results[lost[1]] - 1) : test[t] # "try"
    <3>1. PICK k \in 1..(turn - 1) : /\ lost[1] = REQUIREMENTS[k]
                                    /\ MayStay(k, lost[2], results[lost[1]])
      BY DEF GradeInv, LeftByFailures
    <3>2. k \in 1..16
      BY <3>1 DEF GradeInv, GradeTypes
    <3>3. PICK r : r = lost[1]
      OBVIOUS
    <3>4. test = Tests[CHOOSE i \in DOMAIN REQUIREMENTS : REQUIREMENTS[i] = r]
      BY <2>1, <3>3
    <3>5. test = Tests[k]
      BY <3>1, <3>2, <3>3, <3>4, TestOf
    <3>. QED
      BY <3>1, <3>5 DEF MayStay
  <2>. QED
    BY <2>1 DEF GradeInv, VerdictsEarned, NoCarryOver
<1>. QED
  BY <1>1, GradeInvariant, PTL

(* The level of a report is the one whose gate the submission passed.      *)
THEOREM LevelsAreGates == GradeSpec => []LevelsFollowGates
<1>1. GradeInv => LevelsFollowGates
  BY DEF GradeInv, RatedAtTheEnd, LevelsFollowGates
<1>. QED
  BY <1>1, GradeInvariant, PTL

(* To every request that can be put to them, the agents give an answer     *)
(* that is accepted, and none is cheaper or was measured faster.           *)
THEOREM NoBetterAnswer == GradeSpec => []AgentsAnswerWell
<1>1. GradeInv => AgentsAnswerWell
  BY AnswersAreGood DEF GradeInv, AskedFairly, AgentsAnswerWell
<1>. QED
  BY <1>1, GradeInvariant, PTL

-----------------------------------------------------------------------------
(* The verifier's steps.                                                   *)
LEMMA StepsInOrder ==
  /\ Len(Steps) = 13 /\ DOMAIN Steps = 1..13
  /\ \A i \in 1..12 : StepAfter(Steps[i]) = Steps[i + 1]
<1>1. Len(Steps) = 13 /\ DOMAIN Steps = 1..13
  BY DEF Steps
<1>2. \A i, j \in 1..13 : Steps[i] = Steps[j] => i = j
  BY DEF Steps
<1>3. ASSUME NEW i \in 1..12
      PROVE  StepAfter(Steps[i]) = Steps[i + 1]
  <2>1. PICK step : step = Steps[i]
    OBVIOUS
  <2>2. (CHOOSE j \in DOMAIN Steps : Steps[j] = step) = i
    BY <1>1, <1>2, <2>1
  <2>3. 1 + i = i + 1
    OBVIOUS
  <2>. QED
    BY <2>1, <2>2, <2>3 DEF StepAfter
<1>. QED
  BY <1>1, <1>3

LEMMA StepsByName ==
  /\ StepAfter("key") = "mkdir" /\ StepAfter("mkdir") = "push"
  /\ StepAfter("push") = "unzip_there" /\ StepAfter("unzip_there") = "unzip"
  /\ StepAfter("unzip") = "roots" /\ StepAfter("roots") = "device"
  /\ StepAfter("device") = "selftest" /\ StepAfter("selftest") = "dlopen"
  /\ StepAfter("dlopen") = "grader" /\ StepAfter("grader") = "dag"
  /\ StepAfter("dag") = "worker" /\ StepAfter("worker") = "clean"
<1>1. /\ Steps[1] = "key" /\ Steps[2] = "mkdir" /\ Steps[3] = "push" /\ Steps[4] = "unzip_there"
      /\ Steps[5] = "unzip" /\ Steps[6] = "roots" /\ Steps[7] = "device" /\ Steps[8] = "selftest"
      /\ Steps[9] = "dlopen" /\ Steps[10] = "grader" /\ Steps[11] = "dag" /\ Steps[12] = "worker"
      /\ Steps[13] = "clean"
  BY DEF Steps
<1>2. /\ StepAfter(Steps[1]) = Steps[2] /\ StepAfter(Steps[2]) = Steps[3]
      /\ StepAfter(Steps[3]) = Steps[4] /\ StepAfter(Steps[4]) = Steps[5]
      /\ StepAfter(Steps[5]) = Steps[6] /\ StepAfter(Steps[6]) = Steps[7]
      /\ StepAfter(Steps[7]) = Steps[8] /\ StepAfter(Steps[8]) = Steps[9]
      /\ StepAfter(Steps[9]) = Steps[10] /\ StepAfter(Steps[10]) = Steps[11]
      /\ StepAfter(Steps[11]) = Steps[12] /\ StepAfter(Steps[12]) = Steps[13]
  BY StepsInOrder
<1>. QED
  BY <1>1, <1>2

(* While the verifier has a directory on the server.                       *)
Inside == {"push", "unzip_there", "unzip", "roots", "device", "selftest", "dlopen", "grader",
           "dag", "worker", "clean"}
Building == {"push", "make", "pull", "clean"}

LEMMA InsideIsSteps == Inside = {Steps[i] : i \in 3..Len(Steps)}
<1>1. Len(Steps) = 13
  BY StepsInOrder
<1>2. /\ Steps[3] = "push" /\ Steps[4] = "unzip_there" /\ Steps[5] = "unzip" /\ Steps[6] = "roots"
      /\ Steps[7] = "device" /\ Steps[8] = "selftest" /\ Steps[9] = "dlopen"
      /\ Steps[10] = "grader" /\ Steps[11] = "dag" /\ Steps[12] = "worker" /\ Steps[13] = "clean"
  BY DEF Steps
<1>3. \A i \in 3..13 : Steps[i] \in Inside
  BY DEF Steps, Inside
<1>4. ASSUME NEW step \in Inside
      PROVE  \E i \in 3..13 : Steps[i] = step
  BY <1>2, <1>4 DEF Inside
<1>. QED
  BY <1>1, <1>3, <1>4

-----------------------------------------------------------------------------
(* The directories on the server.  What one script does to the server      *)
(* concerns its own directory: Keeps(d) lets d come into being, Gives(d)   *)
(* takes it away or leaves it behind for a reason.                         *)
Keeps(d) ==
  /\ \A e \in DOMAIN remote' : e \in DOMAIN remote \/ e = d
  /\ \A e \in DOMAIN leaked : e # d => e \in DOMAIN leaked' /\ leaked'[e] = leaked[e]
  /\ \A e \in DOMAIN leaked' :
       \/ e \in DOMAIN leaked /\ leaked'[e] = leaked[e]
       \/ e = d /\ leaked'[e] \in Causes(d)
Gone(d) == d \in DOMAIN remote' => d \in DOMAIN leaked'
Gives(d) == Keeps(d) /\ Gone(d)

LEMMA HoldKeeps ==
  ASSUME NEW d, NEW files, Hold(d, files)
  PROVE  Keeps(d)
BY DEF Hold, Keeps, Without

LEMMA RmtreeGives ==
  ASSUME NEW d, Rmtree(d)
  PROVE  /\ Gives(d)
         /\ d \in DOMAIN remote' => d \in DOMAIN leaked' /\ leaked'[d] = "rm"
<1>0. "rm" \in Causes(d)
  BY DEF Causes
<1>1. CASE remote' = Without(remote, d) /\ leaked' = Without(leaked, d)
  BY <1>1 DEF Gives, Keeps, Gone, Without
<1>2. CASE leaked' = LeftBehind(d, "rm") /\ remote' = remote
  BY <1>0, <1>2 DEF Gives, Keeps, Gone, LeftBehind
<1>. QED
  BY <1>1, <1>2 DEF Rmtree

LEMMA AbandonGives ==
  ASSUME NEW d, NEW cause \in Causes(d), Abandon(d, cause)
  PROVE  Gives(d)
BY DEF Abandon, LeftBehind, Gives, Keeps, Gone

(* What either script can meet, and what only the verifier can.            *)
LEMMA CausesOfEach ==
  /\ \A c \in {"interrupt", "timeout", "rm"} : c \in Causes(BuildDir) /\ c \in Causes(VerifyDir)
  /\ "no_archive" \in Causes(VerifyDir)
BY DEF Causes, BuildDir, VerifyDir

(* What a step of a script does about its directory.                       *)
HoldsOrGives(d, held, holds) ==
  \/ UNCHANGED <<remote, leaked>> /\ (held => holds)
  \/ Keeps(d) /\ holds
  \/ Gives(d)

LEMMA PackDirs ==
  ASSUME PackNext
  PROVE  HoldsOrGives(BuildDir, packer \in Building, packer' \in Building /\ packPid' = packPid)
<1>1. CASE \E pid \in Pids, m \in {"auto", "remote", "wsl", "none"} : Pack(pid, m)
  BY <1>1 DEF Pack, PackGoto, HoldsOrGives, hostVars, Building
<1>2. CASE LibraryThere
  BY <1>2 DEF LibraryThere, PackMoves, PackGoto, HoldsOrGives, hostVars, Building
<1>3. CASE Build
  <2>1. packer \notin Building
    BY <1>3 DEF Build, Building
  <2>2. UNCHANGED <<remote, leaked>>
    BY <1>3 DEF Build, ResolveKey, hostVars
  <2>. QED
    BY <2>1, <2>2 DEF HoldsOrGives
<1>4. CASE BuildMkdir
  <2>1. packer \notin Building
    BY <1>4 DEF BuildMkdir, Building
  <2>2. CASE Hold(BuildDir, NoFiles) /\ PackMoves("mkdir", "push")
    <3>1. Keeps(BuildDir)
      BY <2>2, HoldKeeps
    <3>. QED
      BY <2>2, <3>1 DEF PackMoves, PackGoto, PackStays, HoldsOrGives, Building
  <2>3. CASE UNCHANGED hostVars
    BY <2>1, <2>3 DEF HoldsOrGives, hostVars
  <2>. QED
    BY <1>4, <2>2, <2>3 DEF BuildMkdir
<1>5. ASSUME NEW from, NEW to \in Building, NEW files, BuildStep(from, to, files)
      PROVE  HoldsOrGives(BuildDir, packer \in Building, packer' \in Building /\ packPid' = packPid)
  <2>1. CASE Hold(BuildDir, files) /\ PackMoves(from, to)
    <3>1. Keeps(BuildDir)
      BY <2>1, HoldKeeps
    <3>. QED
      BY <2>1, <3>1 DEF PackMoves, PackGoto, PackStays, HoldsOrGives
  <2>2. CASE Rmtree(BuildDir)
    BY <2>2, RmtreeGives DEF HoldsOrGives
  <2>. QED
    BY <1>5, <2>1, <2>2 DEF BuildStep
<1>6. CASE BuildTimeout
  BY <1>6, AbandonGives, CausesOfEach DEF BuildTimeout, HoldsOrGives
<1>7. CASE Pull
  <2>1. CASE PackMoves("pull", "clean") /\ UNCHANGED hostVars
    BY <2>1 DEF PackMoves, PackGoto, PackStays, HoldsOrGives, hostVars, Building
  <2>2. CASE Rmtree(BuildDir)
    BY <2>2, RmtreeGives DEF HoldsOrGives
  <2>. QED
    BY <1>7, <2>1, <2>2 DEF Pull
<1>8. CASE Clean
  BY <1>8, RmtreeGives DEF Clean, HoldsOrGives
<1>9. CASE /\ UNCHANGED hostVars
           /\ packer \in {"wsl", "stage_c1", "stage_c2", "stage_c3", "unlink", "open", "write"}
  BY <1>9 DEF HoldsOrGives, hostVars, Building
<1>10. CASE InterruptPack
  BY <1>10, AbandonGives, CausesOfEach DEF InterruptPack, HoldsOrGives
<1>11. CASE MakeClean
  BY <1>11 DEF MakeClean, HoldsOrGives, hostVars, packVars
<1>12. CASE BuildWsl \/ StageC1 \/ StageC2 \/ StageC3 \/ Unlink \/ OpenZip \/ WriteZip \/ WriteStops
  <2>1. UNCHANGED hostVars
    BY <1>12 DEF BuildWsl, StageC1, StageC2, StageC3, Unlink, OpenZip, WriteZip, WriteStops
  <2>2. packer \in {"wsl", "stage_c1", "stage_c2", "stage_c3", "unlink", "open", "write"}
    BY <1>12 DEF BuildWsl, StageC1, StageC2, StageC3, Unlink, OpenZip, WriteZip, WriteStops,
                 PackMoves, PackGoto
  <2>. QED
    BY <1>9, <2>1, <2>2
<1>13. "make" \in Building /\ "pull" \in Building
  BY DEF Building
<1>. QED
  BY <1>1, <1>2, <1>3, <1>4, <1>5, <1>6, <1>7, <1>8, <1>10, <1>11, <1>12, <1>13 DEF PackNext

LEMMA VerifyDirs ==
  ASSUME VerifyNext
  PROVE  HoldsOrGives(VerifyDir, verifier \in Inside, verifier' \in Inside /\ verPid' = verPid)
<1>1. ASSUME NEW step \in {"mkdir", "push", "unzip_there", "unzip", "device", "selftest", "dlopen",
                          "grader", "dag", "worker", "roots"}, NEW fails, Advance(step, fails)
      PROVE  verifier' \in Inside /\ verPid' = verPid
  <2>1. StepAfter(step) \in Inside
    BY StepsByName DEF Inside
  <2>. QED
    BY <1>1, <2>1 DEF Advance, VerifyKeeps
<1>2. ASSUME NEW step \in {"mkdir", "push", "unzip_there", "unzip", "device", "selftest", "dlopen",
                          "grader", "dag", "worker", "roots"}, NEW fails, Advance(step, fails),
             NEW files, Hold(VerifyDir, files)
      PROVE  HoldsOrGives(VerifyDir, verifier \in Inside, verifier' \in Inside /\ verPid' = verPid)
  <2>1. Keeps(VerifyDir)
    BY <1>2, HoldKeeps
  <2>. QED
    BY <1>1, <1>2, <2>1 DEF HoldsOrGives
<1>3. ASSUME NEW step, SetupFails(step)
      PROVE  HoldsOrGives(VerifyDir, verifier \in Inside, verifier' \in Inside /\ verPid' = verPid)
  BY <1>3, RmtreeGives DEF SetupFails, HoldsOrGives
<1>4. CASE \E pid \in Pids, options \in {{}, {"remote"}, {"remote", "public"}} : Verify(pid, options)
  BY <1>4 DEF Verify, HoldsOrGives, hostVars, Inside
<1>5. CASE LayerA
  BY <1>5 DEF LayerA, HoldsOrGives, hostVars, Inside
<1>6. CASE RemoteKey
  <2>1. verifier \notin Inside
    BY <1>6 DEF RemoteKey, Inside
  <2>2. UNCHANGED <<remote, leaked>>
    BY <1>6 DEF RemoteKey, ResolveKey, hostVars
  <2>. QED
    BY <2>1, <2>2 DEF HoldsOrGives
<1>7. CASE RemoteMkdir
  <2>1. CASE Hold(VerifyDir, NoFiles) /\ Advance("mkdir", {})
    BY <1>2, <2>1
  <2>2. CASE UNCHANGED hostVars
    BY <1>7, <2>2 DEF RemoteMkdir, HoldsOrGives, hostVars, Inside
  <2>. QED
    BY <1>7, <2>1, <2>2 DEF RemoteMkdir
<1>8. CASE RemotePush
  <2>1. CASE Hold(VerifyDir, "zip" :> package.files) /\ Advance("push", {})
    BY <1>2, <2>1
  <2>2. CASE Abandon(VerifyDir, "no_archive")
    BY <2>2, AbandonGives, CausesOfEach DEF HoldsOrGives
  <2>. QED
    BY <1>3, <1>8, <2>1, <2>2 DEF RemotePush
<1>9. ASSUME NEW step \in {"unzip_there", "device"}, NEW leaves, RemoteSetup(step, leaves)
      PROVE  HoldsOrGives(VerifyDir, verifier \in Inside, verifier' \in Inside /\ verPid' = verPid)
  BY <1>2, <1>3, <1>9 DEF RemoteSetup
<1>10. CASE RemoteUnzip
  <2>1. PICK files : files = Holding(VerifyDir) @@ "root" :> Holding(VerifyDir)["zip"]
    OBVIOUS
  <2>. QED
    BY <1>2, <1>3, <1>10, <2>1 DEF RemoteUnzip
<1>11. CASE RemoteRoots
  <2>1. CASE Advance("roots", {}) /\ UNCHANGED hostVars
    BY <1>1, <2>1 DEF HoldsOrGives, hostVars
  <2>. QED
    BY <1>3, <1>11, <2>1 DEF RemoteRoots
<1>12. ASSUME NEW step \in {"selftest", "dlopen", "dag", "worker", "grader"}, SmokeTest(step)
       PROVE  HoldsOrGives(VerifyDir, verifier \in Inside, verifier' \in Inside /\ verPid' = verPid)
  <2>1. PICK ok \in {Works(step, tested), FALSE} : Advance(step, Verdict(step, ok))
    BY <1>12 DEF SmokeTest
  <2>2. PICK files : Hold(VerifyDir, files)
    BY <1>12 DEF SmokeTest
  <2>. QED
    BY <1>2, <2>1, <2>2
<1>13. CASE NoGrader \/ NoModel
  <2>1. PICK step \in {"grader", "dag"} : Advance(step, {})
    BY <1>13 DEF NoGrader, NoModel
  <2>2. UNCHANGED hostVars
    BY <1>13 DEF NoGrader, NoModel
  <2>. QED
    BY <1>1, <2>1, <2>2 DEF HoldsOrGives, hostVars
<1>14. CASE VerifyTimeout \/ InterruptVerify
  BY <1>14, AbandonGives, CausesOfEach DEF VerifyTimeout, InterruptVerify, HoldsOrGives
<1>15. CASE RemoteClean
  BY <1>15, RmtreeGives DEF RemoteClean, HoldsOrGives
<1>. QED
  BY <1>4, <1>5, <1>6, <1>7, <1>8, <1>9, <1>10, <1>11, <1>12, <1>13, <1>14, <1>15 DEF VerifyNext

LEMMA VerifierStandsAside ==
  ASSUME VerifyNext
  PROVE  VerifyIdle
<1>1. \A step, fails : Advance(step, fails) => VerifyIdle
  BY DEF Advance
<1>2. \A step : SetupFails(step) => VerifyIdle
  BY DEF SetupFails
<1>. QED
  BY <1>1, <1>2 DEF VerifyNext, Verify, LayerA, RemoteKey, RemoteMkdir, RemotePush, RemoteSetup,
                    RemoteUnzip, RemoteRoots, SmokeTest, NoGrader, NoModel, VerifyTimeout,
                    RemoteClean, InterruptVerify

(* Every directory has an owner or is left behind; whatever is noted as    *)
(* left behind has a cause that its script can meet.                       *)
DirsHeld ==
  /\ \A d \in DOMAIN remote :
       \/ d \in DOMAIN leaked
       \/ d = BuildDir /\ packer \in Building
       \/ d = VerifyDir /\ verifier \in Inside
  /\ \A d \in DOMAIN leaked : leaked[d] \in Causes(d)

(* The report and the server: a run of layer B that reports commands which *)
(* failed after the directory was made, or none.                           *)
Reported ==
  /\ verifier = "off" /\ verExit \in {"pass", "fail"}
  /\ "remote" \in wants /\ failed \subseteq Inside
OnlyTheRm ==
  Reported /\ VerifyDir \in DOMAIN remote =>
    VerifyDir \in DOMAIN leaked /\ leaked[VerifyDir] = "rm"

LEMMA DirsHeldSteps == DirsHeld /\ [DeliveryNext]_deliveryVars => DirsHeld'
<1>. SUFFICES ASSUME DirsHeld, [DeliveryNext]_deliveryVars PROVE DirsHeld'
  OBVIOUS
<1>0. VerifyDir # BuildDir
  BY DEF VerifyDir, BuildDir
<1>1. CASE PackNext /\ UNCHANGED verVars
  <2>1. verifier' = verifier /\ VerifyDir' = VerifyDir
    BY <1>1 DEF verVars, VerifyDir
  <2>3. CASE /\ UNCHANGED <<remote, leaked>>
             /\ packer \in Building => packer' \in Building /\ packPid' = packPid
    BY <2>1, <2>3 DEF DirsHeld, BuildDir, Causes
  <2>4. CASE Keeps(BuildDir) /\ packer' \in Building /\ packPid' = packPid
    BY <1>0, <2>1, <2>4 DEF DirsHeld, BuildDir, Keeps, Causes
  <2>5. CASE Gives(BuildDir)
    BY <1>0, <2>1, <2>5 DEF DirsHeld, Gives, Keeps, Gone, Causes
  <2>. QED
    BY <1>1, <2>3, <2>4, <2>5, PackDirs DEF HoldsOrGives
<1>2. CASE VerifyNext
  <2>1. packer' = packer /\ BuildDir' = BuildDir
    BY <1>2, VerifierStandsAside DEF VerifyIdle, packVars, BuildDir
  <2>3. CASE /\ UNCHANGED <<remote, leaked>>
             /\ verifier \in Inside => verifier' \in Inside /\ verPid' = verPid
    BY <2>1, <2>3 DEF DirsHeld, VerifyDir, Causes
  <2>4. CASE Keeps(VerifyDir) /\ verifier' \in Inside /\ verPid' = verPid
    BY <1>0, <2>1, <2>4 DEF DirsHeld, VerifyDir, Keeps, Causes
  <2>5. CASE Gives(VerifyDir)
    BY <1>0, <2>1, <2>5 DEF DirsHeld, Gives, Keeps, Gone, Causes
  <2>. QED
    BY <1>2, <2>3, <2>4, <2>5, VerifyDirs DEF HoldsOrGives
<1>3. CASE UNCHANGED deliveryVars
  BY <1>3 DEF DirsHeld, deliveryVars, hostVars, packVars, verVars, BuildDir, VerifyDir, Causes
<1>. QED
  BY <1>1, <1>2, <1>3 DEF DeliveryNext

(* A verifier's step that ends in such a report has just asked for the     *)
(* removal: every other end reports something that was wrong before there  *)
(* was a directory, that layer B broke, or nothing at all.                 *)
LEMMA ReportsComeWithRmtree ==
  ASSUME VerifyNext
  PROVE  Reported' => Rmtree(VerifyDir) /\ VerifyDir' = VerifyDir
<1>. SUFFICES ASSUME Reported' PROVE Rmtree(VerifyDir) /\ VerifyDir' = VerifyDir
  OBVIOUS
<1>0. /\ verifier' = "off" /\ verExit' \in {"pass", "fail"} /\ "remote" \in wants'
      /\ failed' \subseteq Inside
  BY DEF Reported
<1>1. ASSUME NEW step \in {"key", "mkdir", "push", "unzip_there", "unzip", "roots", "device",
                          "selftest", "dlopen", "grader", "dag", "worker"},
             NEW fails, Advance(step, fails)
      PROVE  FALSE
  <2>1. StepAfter(step) # "off"
    BY StepsByName
  <2>. QED
    BY <1>0, <1>1, <2>1 DEF Advance
<1>2. ASSUME NEW step, SetupFails(step)
      PROVE  Rmtree(VerifyDir) /\ VerifyDir' = VerifyDir
  BY <1>2 DEF SetupFails, Report, VerifyKeeps, VerifyDir
<1>3. CASE \E pid \in Pids, options \in {{}, {"remote"}, {"remote", "public"}} : Verify(pid, options)
  BY <1>0, <1>3 DEF Verify
<1>4. CASE LayerA
  <2>1. failed' = FailedChecks(package.files) /\ failed' # {}
    BY <1>0, <1>4 DEF LayerA, VerifyKeeps
  <2>2. PICK check : check \in FailedChecks(package.files)
    BY <2>1
  <2>3. check \in {"aec_cc", "aec_cc_x", "root", "makefile", "sources", "libaec", "libaec_elf",
                   "libaec_x", "no_device", "readme", "commands", "scheduler", "runtime", "tools"}
    BY <2>2 DEF FailedChecks, Checks
  <2>. QED
    BY <1>0, <2>1, <2>2, <2>3 DEF Inside
<1>5. CASE RemoteKey \/ RemoteMkdir
  <2>1. "ssh" \notin Inside /\ "mkdir" \notin Inside
    BY DEF Inside
  <2>. QED
    BY <1>0, <1>1, <1>5, <2>1 DEF RemoteKey, RemoteMkdir, Report
<1>6. ASSUME NEW fails, Report(fails \cup Broken)
      PROVE  FALSE
  <2>1. "layer_B" \notin Inside
    BY DEF Inside
  <2>. QED
    BY <1>0, <1>6, <2>1 DEF Report, Broken
<1>7. CASE RemotePush
  <2>1. CASE Report(Broken)
    BY <1>6, <2>1, {} \cup Broken = Broken
  <2>. QED
    BY <1>1, <1>2, <1>7, <2>1 DEF RemotePush
<1>8. CASE VerifyTimeout
  BY <1>6, <1>8 DEF VerifyTimeout
<1>9. CASE InterruptVerify
  BY <1>0, <1>9 DEF InterruptVerify
<1>10. CASE RemoteClean
  BY <1>10 DEF RemoteClean, Report, VerifyKeeps, VerifyDir
<1>11. ASSUME NEW step \in {"unzip_there", "device"}, NEW leaves, RemoteSetup(step, leaves)
       PROVE  Rmtree(VerifyDir) /\ VerifyDir' = VerifyDir
  BY <1>1, <1>2, <1>11 DEF RemoteSetup
<1>12. CASE RemoteUnzip \/ RemoteRoots
  BY <1>1, <1>2, <1>12 DEF RemoteUnzip, RemoteRoots
<1>13. ASSUME NEW step \in {"selftest", "dlopen", "dag", "worker", "grader"}, SmokeTest(step)
       PROVE  FALSE
  <2>1. PICK fails : Advance(step, fails)
    BY <1>13 DEF SmokeTest
  <2>. QED
    BY <1>1, <2>1
<1>14. CASE NoGrader \/ NoModel
  BY <1>1, <1>14 DEF NoGrader, NoModel
<1>. QED
  BY <1>3, <1>4, <1>5, <1>7, <1>8, <1>9, <1>10, <1>11, <1>12, <1>13, <1>14 DEF VerifyNext

(* So the report and the server agree: a packer concerns itself with the   *)
(* directory of a build only, and who starts a verifier takes the report   *)
(* away.                                                                   *)
LEMMA OnlyTheRmSteps == OnlyTheRm /\ [DeliveryNext]_deliveryVars => OnlyTheRm'
<1>. SUFFICES ASSUME OnlyTheRm, [DeliveryNext]_deliveryVars PROVE OnlyTheRm'
  OBVIOUS
<1>1. CASE PackNext /\ UNCHANGED verVars
  <2>1. VerifyDir' = VerifyDir /\ VerifyDir # BuildDir /\ (Reported' => Reported)
    BY <1>1 DEF verVars, VerifyDir, BuildDir, Reported
  <2>2. UNCHANGED <<remote, leaked>> \/ Keeps(BuildDir)
    BY <1>1, PackDirs DEF HoldsOrGives, Gives
  <2>. QED
    BY <2>1, <2>2 DEF OnlyTheRm, Keeps
<1>2. CASE VerifyNext
  <2>1. ASSUME Reported'
        PROVE  VerifyDir' = VerifyDir /\
               (VerifyDir \in DOMAIN remote' =>
                  VerifyDir \in DOMAIN leaked' /\ leaked'[VerifyDir] = "rm")
    BY <1>2, <2>1, ReportsComeWithRmtree, RmtreeGives
  <2>. QED
    BY <2>1 DEF OnlyTheRm
<1>3. CASE UNCHANGED deliveryVars
  BY <1>3 DEF OnlyTheRm, Reported, deliveryVars, hostVars, verVars, VerifyDir
<1>. QED
  BY <1>1, <1>2, <1>3 DEF DeliveryNext

(* However often the scripts run and whatever process numbers they get, a  *)
(* directory on the server has an owner or one of the four causes - the    *)
(* archive that was gone for a verifier's only - and after a report that   *)
(* names nothing, or only commands that failed after the directory was     *)
(* made, the rm that did not get through is the only one.                  *)
THEOREM DirsAreReleased == DeliverySpec => []RemoteDirsReleased
<1>1. DeliveryInit => DirsHeld /\ OnlyTheRm
  BY DEF DeliveryInit, HostInit, DirsHeld, OnlyTheRm
<1>2. DirsHeld /\ OnlyTheRm => RemoteDirsReleased
  BY InsideIsSteps DEF DirsHeld, OnlyTheRm, Reported, RemoteDirsReleased, AfterMkdir, Building
<1>. QED
  BY <1>1, <1>2, DirsHeldSteps, OnlyTheRmSteps, PTL DEF DeliverySpec

-----------------------------------------------------------------------------
(* What a verifier knows of the tree that it runs: the verdicts so far.    *)
Knows ==
  /\ verifier \in {"key", "mkdir"} \cup Inside => FailedChecks(inspected) = {}
  /\ failed = {} =>
       /\ verifier \in {"dlopen", "grader", "dag", "worker", "clean"} => Works("selftest", tested)
       /\ verifier \in {"grader", "dag", "worker", "clean"} => Works("dlopen", tested)
       /\ verifier \in {"clean"} => Works("worker", tested)

VerifyInv == Knows /\ PassesMeanItWorks

LEMMA VerdictsStick ==
  ASSUME NEW step \in {"selftest", "dlopen", "worker"}, NEW ok \in {Works(step, tested), FALSE},
         Verdict(step, ok) = {}
  PROVE  Works(step, tested)
<1>1. CASE ok
  BY <1>1
<1>2. CASE ~ ok
  <2>1. Verdict(step, ok) = {step}
    BY <1>2 DEF Verdict
  <2>. QED
    BY <2>1
<1>. QED
  BY <1>1, <1>2

LEMMA VerifySteps ==
  ASSUME VerifyInv, VerifyNext
  PROVE  VerifyInv'
<1>1. ASSUME verifier' = "off", verExit' # "pass"
      PROVE  VerifyInv'
  BY <1>1 DEF VerifyInv, Knows, PassesMeanItWorks, Inside
<1>2. ASSUME NEW fails, fails # {}, Report(fails)
      PROVE  VerifyInv'
  BY <1>1, <1>2 DEF Report
<1>3. ASSUME NEW step \in {"key", "mkdir", "push", "unzip_there", "unzip", "device"}, Advance(step, {}),
             tested' = tested
      PROVE  VerifyInv'
  <2>1. verifier' \in {"mkdir", "push", "unzip_there", "unzip", "roots", "selftest"}
    BY <1>3, StepsByName DEF Advance
  <2>2. inspected' = inspected /\ step \in {"key", "mkdir"} \cup Inside /\ verifier = step
    BY <1>3 DEF Advance, Inside
  <2>. QED
    BY <2>1, <2>2 DEF VerifyInv, Knows, PassesMeanItWorks
<1>4. ASSUME NEW step, SetupFails(step)
      PROVE  VerifyInv'
  BY <1>2, <1>4 DEF SetupFails
<1>5. CASE \E pid \in Pids, options \in {{}, {"remote"}, {"remote", "public"}} : Verify(pid, options)
  <2>1. (verifier' = "off" /\ verExit' = "nothing_found") \/ verifier' = "layer_A"
    BY <1>5 DEF Verify
  <2>. QED
    BY <2>1 DEF VerifyInv, Knows, PassesMeanItWorks, Inside
<1>6. CASE LayerA
  <2>1. CASE verExit' = "crashed" /\ verifier' = "off"
    BY <1>1, <2>1
  <2>2. CASE /\ inspected' = package.files /\ failed' = FailedChecks(package.files)
             /\ VerifyKeeps
             /\ IF "remote" \in wants /\ failed' = {}
                THEN verifier' = "key" /\ UNCHANGED verExit
                ELSE verifier' = "off" /\ verExit' = IF failed' = {} THEN "pass" ELSE "fail"
    <3>1. FailedChecks(inspected)' = failed' /\ wants' = wants
      <4>1. PICK files : files = package.files
        OBVIOUS
      <4>2. inspected' = files /\ failed' = FailedChecks(files)
        BY <2>2, <4>1
      <4>. QED
        BY <2>2, <4>2 DEF VerifyKeeps, FailedChecks, Checks, Has, Content, Runnable
    <3>2. CASE "remote" \in wants /\ failed' = {}
      BY <2>2, <3>1, <3>2 DEF VerifyInv, Knows, PassesMeanItWorks, Inside
    <3>3. CASE ~ ("remote" \in wants /\ failed' = {})
      BY <2>2, <3>1, <3>3 DEF VerifyInv, Knows, PassesMeanItWorks, Inside
    <3>. QED
      BY <3>2, <3>3
  <2>. QED
    BY <1>6, <2>1, <2>2 DEF LayerA
<1>7. CASE RemoteKey
  <2>1. CASE Advance("key", {}) /\ UNCHANGED tested
    BY <1>3, <2>1
  <2>2. CASE Report({"ssh"})
    BY <1>2, <2>2
  <2>. QED
    BY <1>1, <1>7, <2>1, <2>2 DEF RemoteKey
<1>8. CASE RemoteMkdir
  BY <1>2, <1>3, <1>8 DEF RemoteMkdir
<1>9. CASE RemotePush
  <2>1. Broken # {}
    BY DEF Broken
  <2>. QED
    BY <1>2, <1>3, <1>4, <1>9, <2>1 DEF RemotePush
<1>10. ASSUME NEW step \in {"unzip_there", "device"}, NEW leaves, RemoteSetup(step, leaves)
       PROVE  VerifyInv'
  BY <1>3, <1>4, <1>10 DEF RemoteSetup
<1>11. CASE RemoteUnzip
  BY <1>3, <1>4, <1>11 DEF RemoteUnzip
<1>12. CASE RemoteRoots
  <2>1. CASE Advance("roots", {})
    <3>1. verifier' = "device" /\ inspected' = inspected /\ verifier = "roots"
      BY <2>1, StepsByName DEF Advance
    <3>. QED
      BY <3>1 DEF VerifyInv, Knows, PassesMeanItWorks, Inside
  <2>. QED
    BY <1>4, <1>12, <2>1 DEF RemoteRoots
<1>13. ASSUME NEW step \in {"selftest", "dlopen", "grader", "dag", "worker"}, NEW fails,
              Advance(step, fails), tested' = tested,
              step \in {"selftest", "dlopen", "worker"} /\ fails = {} => Works(step, tested)
       PROVE  VerifyInv'
  <2>1. inspected' = inspected /\ step \in Inside /\ verifier = step /\ verifier' = StepAfter(step)
        /\ (failed' = {} => failed = {} /\ fails = {})
    BY <1>13 DEF Advance, Inside
  <2>2. verifier' \in {"dlopen", "grader", "dag", "worker", "clean"}
    BY <2>1, StepsByName
  <2>3. \A s : Works(s, tested)' = Works(s, tested)
    BY <1>13 DEF Works, Has, Content
  <2>. QED
    BY <1>13, <2>1, <2>2, <2>3, StepsByName DEF VerifyInv, Knows, PassesMeanItWorks
<1>14. ASSUME NEW step \in {"selftest", "dlopen", "dag", "worker", "grader"}, SmokeTest(step)
       PROVE  VerifyInv'
  <2>1. PICK ok \in {Works(step, tested), FALSE} : Advance(step, Verdict(step, ok))
    BY <1>14 DEF SmokeTest
  <2>2. PICK fails : fails = Verdict(step, ok)
    OBVIOUS
  <2>3. Advance(step, fails) /\ tested' = tested
    BY <1>14, <2>1, <2>2 DEF SmokeTest
  <2>4. step \in {"selftest", "dlopen", "worker"} /\ fails = {} => Works(step, tested)
    BY <2>1, <2>2, VerdictsStick
  <2>. QED
    BY <1>13, <2>3, <2>4
<1>15. CASE NoGrader \/ NoModel
  BY <1>13, <1>15 DEF NoGrader, NoModel
<1>16. CASE VerifyTimeout
  BY <1>2, <1>16 DEF VerifyTimeout, Broken
<1>17. CASE RemoteClean
  <2>1. CASE failed = {}
    <3>1. /\ verifier = "clean" /\ verifier' = "off" /\ inspected' = inspected /\ tested' = tested
      BY <1>17 DEF RemoteClean, Report
    <3>2. \A s : Works(s, tested)' = Works(s, tested)
      BY <3>1 DEF Works, Has, Content
    <3>3. FailedChecks(inspected)' = FailedChecks(inspected)
      BY <3>1 DEF FailedChecks, Checks, Has, Content, Runnable
    <3>. QED
      BY <2>1, <3>1, <3>2, <3>3 DEF VerifyInv, Knows, PassesMeanItWorks, Inside
  <2>2. CASE failed # {}
    BY <1>2, <1>17, <2>2 DEF RemoteClean
  <2>. QED
    BY <2>1, <2>2
<1>18. CASE InterruptVerify
  BY <1>1, <1>18 DEF InterruptVerify
<1>. QED
  BY <1>5, <1>6, <1>7, <1>8, <1>9, <1>10, <1>11, <1>12, <1>14, <1>15, <1>16, <1>17, <1>18 DEF VerifyNext

(* A pass of the verifier means what it says: for every archive, and       *)
(* whatever a packer does to it meanwhile.                                 *)
THEOREM PassesAreEarned == DeliverySpec => []PassesMeanItWorks
<1>1. DeliveryInit => VerifyInv
  BY DEF DeliveryInit, VerifyInit, VerifyInv, Knows, PassesMeanItWorks, Inside
<1>2. VerifyInv /\ [DeliveryNext]_deliveryVars => VerifyInv'
  <2>. SUFFICES ASSUME VerifyInv, [DeliveryNext]_deliveryVars PROVE VerifyInv'
    OBVIOUS
  <2>1. CASE UNCHANGED verVars
    <3>1. /\ verifier' = verifier /\ wants' = wants /\ inspected' = inspected /\ tested' = tested
          /\ failed' = failed /\ verExit' = verExit
      BY <2>1 DEF verVars
    <3>2. \A s : Works(s, tested)' = Works(s, tested)
      BY <3>1 DEF Works, Has, Content
    <3>3. FailedChecks(inspected)' = FailedChecks(inspected)
      BY <3>1 DEF FailedChecks, Checks, Has, Content, Runnable
    <3>. QED
      BY <3>1, <3>2, <3>3 DEF VerifyInv, Knows, PassesMeanItWorks
  <2>2. CASE VerifyNext
    BY <2>2, VerifySteps
  <2>3. UNCHANGED deliveryVars => UNCHANGED verVars
    BY DEF deliveryVars
  <2>. QED
    BY <2>1, <2>2, <2>3 DEF DeliveryNext
<1>3. VerifyInv => PassesMeanItWorks
  BY DEF VerifyInv
<1>. QED
  BY <1>1, <1>2, <1>3, PTL DEF DeliverySpec

-----------------------------------------------------------------------------
(* Trees and archives.                                                     *)
LEMMA Unions ==
  ASSUME NEW s, NEW u
  PROVE  \A p : /\ Has(s \cup u, p) <=> Has(s, p) \/ Has(u, p)
               /\ Content(s \cup u, p) = Content(s, p) \cup Content(u, p)
BY DEF Has, Content

LEMMA NothingThere ==
  ASSUME NEW s, NEW p, ~ Has(s, p)
  PROVE  Content(s, p) = {}
BY DEF Has, Content

(* What staging puts under a name is what the repository has under the     *)
(* names that lead to it.                                                  *)
LEMMA WhatIsStaged ==
  ASSUME NEW moves, NEW p, NEW q, <<p, q>> \in moves,
         \A m \in moves : m = <<m[1], m[2]>> /\ (m[2] = q => m[1] = p)
  PROVE  /\ Content(Staged(moves), q) = Content(repo, p)
         /\ Has(Staged(moves), q) <=> Has(repo, p)
<1>1. \A c : <<q, c>> \in Staged(moves) => c \in Content(repo, p)
  BY DEF Staged, Content
<1>2. ASSUME NEW entry \in Staged(moves)
      PROVE  \E m \in moves, e \in repo : e[1] = m[1] /\ entry = <<m[2], e[2]>>
  BY DEF Staged
<1>3. ASSUME NEW e \in repo, e[1] = p
      PROVE  <<q, e[2]>> \in Staged(moves)
  <2>1. <<<<p, q>>, e>> \in {pair \in moves \X repo : pair[2][1] = pair[1][1]}
    BY <1>3
  <2>. QED
    BY <2>1 DEF Staged
<1>4. ASSUME NEW entry \in Staged(moves), entry[1] = q
      PROVE  \E e \in repo : e[1] = p /\ entry[2] = e[2]
  BY <1>2, <1>4
<1>5. \A c : c \in Content(Staged(moves), q) <=> c \in Content(repo, p)
  <2>1. ASSUME NEW c, c \in Content(Staged(moves), q)
        PROVE  c \in Content(repo, p)
    BY <1>4, <2>1 DEF Content
  <2>2. ASSUME NEW c, c \in Content(repo, p)
        PROVE  c \in Content(Staged(moves), q)
    <3>1. PICK e \in repo : e[1] = p /\ e[2] = c
      BY <2>2 DEF Content
    <3>2. PICK entry \in Staged(moves) : entry = <<q, c>>
      BY <1>3, <3>1
    <3>. QED
      BY <3>2 DEF Content
  <2>. QED
    BY <2>1, <2>2
<1>6. Has(Staged(moves), q) <=> Has(repo, p)
  <2>1. Has(Staged(moves), q) => Has(repo, p)
    BY <1>4 DEF Has
  <2>2. ASSUME Has(repo, p)
        PROVE  Has(Staged(moves), q)
    <3>1. PICK e \in repo : e[1] = p
      BY <2>2 DEF Has
    <3>2. PICK entry \in Staged(moves) : entry = <<q, e[2]>>
      BY <1>3, <3>1
    <3>. QED
      BY <3>2 DEF Has
  <2>. QED
    BY <2>1, <2>2
<1>. QED
  BY <1>5, <1>6

LEMMA NotStaged ==
  ASSUME NEW moves, NEW q, \A m \in moves : m = <<m[1], m[2]>> /\ m[2] # q
  PROVE  ~ Has(Staged(moves), q) /\ Content(Staged(moves), q) = {}
<1>1. ASSUME NEW entry \in Staged(moves)
      PROVE  \E m \in moves, e \in repo : e[1] = m[1] /\ entry = <<m[2], e[2]>>
  BY DEF Staged
<1>2. ~ Has(Staged(moves), q)
  BY <1>1 DEF Has
<1>. QED
  BY <1>2, NothingThere

(* The archive has the entries that were staged.                           *)
LEMMA WhatIsArchived ==
  ASSUME NEW entries, NEW p
  PROVE  /\ Has(Archived(entries), p) <=> Has(entries, p)
         /\ Content(Archived(entries), p) = Content(entries, p)
         /\ Has(entries, p) /\ Executable(p) => Runnable(Archived(entries), p)
<1>1. \A e \in entries : <<e[1], e[2], Executable(e[1])>> \in Archived(entries)
  BY DEF Archived
<1>2. \A a \in Archived(entries) : \E e \in entries : a = <<e[1], e[2], Executable(e[1])>>
  BY DEF Archived
<1>3. \A a \in Archived(entries) : \E e \in entries : a[1] = e[1] /\ a[2] = e[2]
  BY <1>2
<1>4. \A e \in entries : \E a \in Archived(entries) :
        a[1] = e[1] /\ a[2] = e[2] /\ a[3] = Executable(e[1])
  BY <1>1
<1>. HIDE DEF Archived
<1>5. Has(Archived(entries), p) <=> Has(entries, p)
  BY <1>3, <1>4 DEF Has
<1>6. Content(Archived(entries), p) = Content(entries, p)
  <2>1. \A c : c \in Content(Archived(entries), p) => c \in Content(entries, p)
    BY <1>3 DEF Content
  <2>2. \A c : c \in Content(entries, p) => c \in Content(Archived(entries), p)
    BY <1>4 DEF Content
  <2>. QED
    BY <2>1, <2>2
<1>7. Has(entries, p) /\ Executable(p) => Runnable(Archived(entries), p)
  <2>. SUFFICES ASSUME Has(entries, p), Executable(p) PROVE Runnable(Archived(entries), p)
    OBVIOUS
  <2>1. PICK e \in entries : e[1] = p
    BY DEF Has
  <2>2. PICK a \in Archived(entries) : a[1] = e[1] /\ a[3] = Executable(e[1])
    BY <1>4
  <2>. QED
    BY <2>1, <2>2, Zenon DEF Runnable
<1>. QED
  BY <1>5, <1>6, <1>7

(* Layer A on an archive that has everything.                              *)
LEMMA NothingFails ==
  ASSUME NEW files, Has(files, Wrapper), Runnable(files, Wrapper),
         Content(files, Wrapper) = {"root_./src"}, Has(files, "C1/compiler/src/Makefile"),
         Has(files, "C1/compiler/src/src"), Has(files, Library), Content(files, Library) = {"elf"},
         Runnable(files, Library), ~ Has(files, "C2/lib/libaec_device.so"),
         Has(files, "C3/readme.md"), Content(files, "C3/readme.md") = {"commands"},
         Has(files, "C3/src/scheduler"), Has(files, "C3/src/runtime"), Has(files, "C3/src/tools")
  PROVE  FailedChecks(files) = {}
<1>1. PICK checks : checks = Checks(files)
  OBVIOUS
<1>2. DOMAIN checks = {"aec_cc", "aec_cc_x", "root", "makefile", "sources", "libaec", "libaec_elf",
                       "libaec_x", "no_device", "readme", "commands", "scheduler", "runtime", "tools"}
  BY <1>1 DEF Checks
<1>3. /\ checks["aec_cc"] /\ checks["aec_cc_x"] /\ checks["root"] /\ checks["makefile"]
      /\ checks["sources"] /\ checks["libaec"] /\ checks["libaec_elf"] /\ checks["libaec_x"]
      /\ checks["no_device"] /\ checks["readme"] /\ checks["commands"] /\ checks["scheduler"]
      /\ checks["runtime"] /\ checks["tools"]
  BY <1>1 DEF Checks
<1>4. \A c \in DOMAIN checks : checks[c]
  BY <1>2, <1>3
<1>. QED
  BY <1>1, <1>4 DEF FailedChecks

-----------------------------------------------------------------------------
(* The packer.  OneContent: a path of the repository has one content.      *)
OneContent == \A e, f \in repo : e = <<e[1], e[2]>> /\ (e[1] = f[1] => e = f)

C1Ready(tree) ==
  /\ Has(tree, Wrapper)
  /\ Complete => /\ Content(tree, Wrapper) = {"root_./src"}
                 /\ Has(tree, "C1/compiler/src/Makefile") /\ Has(tree, "C1/compiler/src/src")
C2Ready(tree) == Has(tree, Library) /\ Content(tree, Library) = {"elf"}
C3Ready(tree) ==
  Complete => /\ Has(tree, Readme) /\ Content(tree, Readme) = {"commands"}
              /\ Has(tree, "C3/src/scheduler") /\ Has(tree, "C3/src/runtime")
              /\ Has(tree, "C3/src/tools")
NoDevice(tree) == ~ Has(tree, "C2/lib/libaec_device.so")
Late == {"unlink", "open", "write"}

(* What is staged, stage by stage; the archive of an earlier run.          *)
StagedSoFar ==
  /\ packer \in {"stage_c2", "stage_c3"} \cup Late => C1Ready(staged) /\ NoDevice(staged)
  /\ packer = "stage_c2" => ~ Has(staged, Library) /\ ~ Has(staged, Readme)
  /\ packer \in {"stage_c3"} \cup Late => C2Ready(staged)
  /\ packer = "stage_c3" => ~ Has(staged, Readme)
  /\ packer \in Late => C3Ready(staged)

PackInv == OneContent /\ StagedSoFar /\ PackedArchivesVerify

(* Only the library is ever built or removed.                              *)
LEMMA RepoSteps ==
  ASSUME OneContent, PackNext
  PROVE  OneContent' /\ Complete' = Complete
<1>1. \A e \in Sources : e[1] # Library
  BY DEF Sources, Library, Wrapper
<1>2. ASSUME \A e : e[1] # Library => (e \in repo' <=> e \in repo)
      PROVE  Complete' = Complete
  BY <1>1, <1>2 DEF Complete
<1>3. CASE repo' = repo
  BY <1>3 DEF OneContent, Complete
<1>4. ASSUME NEW content, repo' = {entry \in repo : entry[1] # Library} \cup {<<Library, content>>}
      PROVE  OneContent' /\ Complete' = Complete
  <2>1. \A e : e[1] # Library => (e \in repo' <=> e \in repo)
    BY <1>4
  <2>2. OneContent'
    BY <1>4 DEF OneContent
  <2>. QED
    BY <1>2, <2>1, <2>2
<1>5. ASSUME repo' = repo \cup {<<Library, "elf">>}, ~ Has(repo, Library)
      PROVE  OneContent' /\ Complete' = Complete
  <2>1. \A e : e[1] # Library => (e \in repo' <=> e \in repo)
    BY <1>5
  <2>2. OneContent'
    BY <1>5 DEF OneContent, Has
  <2>. QED
    BY <1>2, <2>1, <2>2
<1>6. ASSUME repo' = {entry \in repo : entry[1] # Library}
      PROVE  OneContent' /\ Complete' = Complete
  <2>1. \A e : e[1] # Library => (e \in repo' <=> e \in repo)
    BY <1>6
  <2>2. OneContent'
    BY <1>6 DEF OneContent
  <2>. QED
    BY <1>2, <2>1, <2>2
<1>7. \A from, to, files : BuildStep(from, to, files) => repo' = repo
  BY DEF BuildStep
<1>8. CASE Pull
  BY <1>3, <1>4, <1>8 DEF Pull
<1>9. CASE BuildWsl
  BY <1>3, <1>5, <1>9 DEF BuildWsl
<1>10. CASE MakeClean
  BY <1>6, <1>10 DEF MakeClean
<1>11. PackNext => repo' = repo \/ Pull \/ BuildWsl \/ MakeClean
  BY <1>7 DEF PackNext, Pack, LibraryThere, Build, BuildMkdir, BuildTimeout, Clean, StageC1, StageC2,
              StageC3, Unlink, OpenZip, WriteZip, WriteStops, InterruptPack
<1>. QED
  BY <1>3, <1>8, <1>9, <1>10, <1>11

LEMMA StageC1Ready ==
  ASSUME OneContent, StageC1, packer' # "off"
  PROVE  /\ packer' = "stage_c2" /\ C1Ready(staged') /\ NoDevice(staged')
         /\ ~ Has(staged', Library) /\ ~ Has(staged', Readme)
<1>1. PICK moves : moves = {<<"C1/Makefile", "C1/compiler/src/Makefile">>,
                            <<"C1/src", "C1/compiler/src/src">>,
                            <<"C1/include", "C1/compiler/src/include">>,
                            <<"C1/tools", "C1/compiler/src/tools">>}
  OBVIOUS
<1>2. PICK entry : entry = {<<Wrapper, Rewritten(root)>> : root \in Content(repo, Wrapper)}
  OBVIOUS
<1>3. Has(repo, Wrapper) /\ packer' = "stage_c2" /\ staged' = entry \cup Staged(moves)
  BY <1>1, <1>2 DEF StageC1, PackEnds
<1>4. /\ Content(entry, Wrapper) = {Rewritten(root) : root \in Content(repo, Wrapper)}
      /\ Has(entry, Wrapper) /\ \A p : p # Wrapper => ~ Has(entry, p)
  <2>1. \A root \in Content(repo, Wrapper) : <<Wrapper, Rewritten(root)>> \in entry
    BY <1>2
  <2>2. \A a \in entry : \E root \in Content(repo, Wrapper) : a = <<Wrapper, Rewritten(root)>>
    BY <1>2
  <2>3. \E root : root \in Content(repo, Wrapper)
    BY <1>3 DEF Has, Content
  <2>4. \A c : c \in Content(entry, Wrapper) <=> \E root \in Content(repo, Wrapper) : c = Rewritten(root)
    <3>1. \A c : c \in Content(entry, Wrapper) => \E root \in Content(repo, Wrapper) : c = Rewritten(root)
      BY <2>2 DEF Content
    <3>2. \A root \in Content(repo, Wrapper) : Rewritten(root) \in Content(entry, Wrapper)
      <4>. SUFFICES ASSUME NEW root \in Content(repo, Wrapper)
                    PROVE  Rewritten(root) \in Content(entry, Wrapper)
        OBVIOUS
      <4>1. PICK a \in entry : a[1] = Wrapper /\ a[2] = Rewritten(root)
        BY <2>1
      <4>. QED
        BY <4>1 DEF Content
    <3>. QED
      BY <3>1, <3>2
  <2>5. Has(entry, Wrapper)
    BY <2>1, <2>3 DEF Has
  <2>6. \A p : p # Wrapper => ~ Has(entry, p)
    BY <2>2 DEF Has
  <2>. QED
    BY <2>4, <2>5, <2>6
<1>5. \A m \in moves : /\ m = <<m[1], m[2]>>
                       /\ m[2] \notin {Wrapper, Library, Readme, "C2/lib/libaec_device.so"}
  BY <1>1 DEF Wrapper, Library, Readme
<1>6. \A q \in {Wrapper, Library, Readme, "C2/lib/libaec_device.so"} :
        ~ Has(Staged(moves), q) /\ Content(Staged(moves), q) = {}
  BY <1>5, NotStaged
<1>7. Has(Staged(moves), "C1/compiler/src/Makefile") <=> Has(repo, "C1/Makefile")
  <2>1. /\ <<"C1/Makefile", "C1/compiler/src/Makefile">> \in moves
        /\ \A m \in moves : m = <<m[1], m[2]>> /\ (m[2] = "C1/compiler/src/Makefile" => m[1] = "C1/Makefile")
    BY <1>1
  <2>. QED
    BY <2>1, WhatIsStaged
<1>8. Has(Staged(moves), "C1/compiler/src/src") <=> Has(repo, "C1/src")
  <2>1. /\ <<"C1/src", "C1/compiler/src/src">> \in moves
        /\ \A m \in moves : m = <<m[1], m[2]>> /\ (m[2] = "C1/compiler/src/src" => m[1] = "C1/src")
    BY <1>1
  <2>. QED
    BY <2>1, WhatIsStaged
<1>9. PICK tree : tree = entry \cup Staged(moves)
  OBVIOUS
<1>10. \A p : /\ Has(tree, p) <=> Has(entry, p) \/ Has(Staged(moves), p)
              /\ Content(tree, p) = Content(entry, p) \cup Content(Staged(moves), p)
  BY <1>9, Unions
<1>11. NoDevice(tree) /\ ~ Has(tree, Library) /\ ~ Has(tree, Readme)
  BY <1>4, <1>6, <1>10 DEF NoDevice, Wrapper, Library, Readme
<1>12. ASSUME Complete
       PROVE  /\ Content(tree, Wrapper) = {"root_./src"}
              /\ Has(tree, "C1/compiler/src/Makefile") /\ Has(tree, "C1/compiler/src/src")
  <2>1. /\ <<Wrapper, "root_..">> \in repo /\ <<"C1/Makefile", "file">> \in repo
        /\ <<"C1/src", "tree">> \in repo
    BY <1>12 DEF Complete, Sources
  <2>2. Content(repo, Wrapper) = {"root_.."}
    BY <2>1 DEF OneContent, Content
  <2>3. Rewritten("root_..") = "root_./src"
    BY DEF Rewritten
  <2>4. Content(entry, Wrapper) = {"root_./src"}
    BY <1>4, <2>2, <2>3
  <2>5. Has(repo, "C1/Makefile") /\ Has(repo, "C1/src")
    BY <2>1 DEF Has
  <2>. QED
    BY <1>6, <1>7, <1>8, <1>10, <2>4, <2>5
<1>13. C1Ready(tree)
  BY <1>4, <1>10, <1>12 DEF C1Ready
<1>. QED
  BY <1>3, <1>9, <1>11, <1>13

LEMMA StageC2Ready ==
  ASSUME StageC2, packer' # "off", C1Ready(staged), NoDevice(staged), ~ Has(staged, Library),
         ~ Has(staged, Readme)
  PROVE  /\ packer' = "stage_c3" /\ C1Ready(staged') /\ C2Ready(staged') /\ NoDevice(staged')
         /\ ~ Has(staged', Readme)
<1>1. PICK moves : moves = {<<p, p>> : p \in {Library, "C2/agents/dma_agent.py",
                                             "C2/agents/kernel_agent.py"}}
  OBVIOUS
<1>2. PICK old, tree : old = staged /\ tree = old \cup Staged(moves)
  OBVIOUS
<1>3. Content(repo, Library) = {"elf"} /\ packer' = "stage_c3" /\ staged' = tree
  BY <1>1, <1>2 DEF StageC2, PackEnds, IsElf
<1>4. \A m \in moves : /\ m = <<m[1], m[2]>> /\ (m[2] = Library => m[1] = Library)
                       /\ m[2] \notin {Wrapper, "C1/compiler/src/Makefile", "C1/compiler/src/src",
                                       Readme, "C2/lib/libaec_device.so"}
  BY <1>1 DEF Wrapper, Library, Readme
<1>5. \A q \in {Wrapper, "C1/compiler/src/Makefile", "C1/compiler/src/src", Readme,
               "C2/lib/libaec_device.so"} :
        ~ Has(Staged(moves), q) /\ Content(Staged(moves), q) = {}
  BY <1>4, NotStaged
<1>6. Content(Staged(moves), Library) = {"elf"} /\ Has(Staged(moves), Library)
  <2>1. <<Library, Library>> \in moves
    BY <1>1
  <2>2. Has(repo, Library)
    BY <1>3, NothingThere
  <2>. QED
    BY <1>3, <1>4, <2>1, <2>2, WhatIsStaged
<1>7. \A p : /\ Has(tree, p) <=> Has(old, p) \/ Has(Staged(moves), p)
             /\ Content(tree, p) = Content(old, p) \cup Content(Staged(moves), p)
  BY <1>2, Unions
<1>8. C1Ready(tree)
  BY <1>2, <1>5, <1>7 DEF C1Ready
<1>9. C2Ready(tree)
  BY <1>2, <1>6, <1>7, NothingThere DEF C2Ready
<1>10. NoDevice(tree) /\ ~ Has(tree, Readme)
  BY <1>2, <1>5, <1>7 DEF NoDevice
<1>. QED
  BY <1>3, <1>8, <1>9, <1>10

LEMMA StageC3Ready ==
  ASSUME OneContent, StageC3, C1Ready(staged), C2Ready(staged), NoDevice(staged), ~ Has(staged, Readme)
  PROVE  packer' = "unlink" /\ C1Ready(staged') /\ C2Ready(staged') /\ C3Ready(staged') /\ NoDevice(staged')
<1>1. PICK moves : moves = {<<p, p>> : p \in {"C3/requirements.txt", "C3/src/scheduler",
                                             "C3/src/runtime", "C3/src/tools"}}
                           \cup {<<"C3/README.md", Readme>>}
  OBVIOUS
<1>2. PICK old, tree : old = staged /\ tree = old \cup Staged(moves)
  OBVIOUS
<1>3. packer' = "unlink" /\ staged' = tree
  BY <1>1, <1>2 DEF StageC3, PackGoto
<1>4. \A m \in moves : /\ m = <<m[1], m[2]>>
                       /\ m[2] = Readme => m[1] = "C3/README.md"
                       /\ m[2] = "C3/src/scheduler" => m[1] = "C3/src/scheduler"
                       /\ m[2] = "C3/src/runtime" => m[1] = "C3/src/runtime"
                       /\ m[2] = "C3/src/tools" => m[1] = "C3/src/tools"
                       /\ m[2] \notin {Wrapper, "C1/compiler/src/Makefile", "C1/compiler/src/src",
                                       Library, "C2/lib/libaec_device.so"}
  BY <1>1 DEF Wrapper, Library, Readme
<1>5. \A q \in {Wrapper, "C1/compiler/src/Makefile", "C1/compiler/src/src", Library,
               "C2/lib/libaec_device.so"} :
        ~ Has(Staged(moves), q) /\ Content(Staged(moves), q) = {}
  BY <1>4, NotStaged
<1>6. /\ <<"C3/README.md", Readme>> \in moves /\ <<"C3/src/scheduler", "C3/src/scheduler">> \in moves
      /\ <<"C3/src/runtime", "C3/src/runtime">> \in moves /\ <<"C3/src/tools", "C3/src/tools">> \in moves
  BY <1>1
<1>7. /\ Content(Staged(moves), Readme) = Content(repo, "C3/README.md")
      /\ Has(Staged(moves), Readme) <=> Has(repo, "C3/README.md")
  BY <1>4, <1>6, WhatIsStaged
<1>8. \A p \in {"C3/src/scheduler", "C3/src/runtime", "C3/src/tools"} :
        Has(Staged(moves), p) <=> Has(repo, p)
  BY <1>4, <1>6, WhatIsStaged
<1>9. \A p : /\ Has(tree, p) <=> Has(old, p) \/ Has(Staged(moves), p)
             /\ Content(tree, p) = Content(old, p) \cup Content(Staged(moves), p)
  BY <1>2, Unions
<1>10. C1Ready(tree) /\ C2Ready(tree) /\ NoDevice(tree)
  BY <1>2, <1>5, <1>9 DEF C1Ready, C2Ready, NoDevice
<1>11. C3Ready(tree)
  <2>. SUFFICES ASSUME Complete
                PROVE  /\ Has(tree, Readme) /\ Content(tree, Readme) = {"commands"}
                       /\ Has(tree, "C3/src/scheduler") /\ Has(tree, "C3/src/runtime")
                       /\ Has(tree, "C3/src/tools")
    BY DEF C3Ready
  <2>1. /\ <<"C3/README.md", "commands">> \in repo /\ <<"C3/src/scheduler", "tree">> \in repo
        /\ <<"C3/src/runtime", "tree">> \in repo /\ <<"C3/src/tools", "tree">> \in repo
    BY DEF Complete, Sources
  <2>2. Content(repo, "C3/README.md") = {"commands"}
    BY <2>1 DEF OneContent, Content
  <2>3. /\ Has(repo, "C3/README.md") /\ Has(repo, "C3/src/scheduler") /\ Has(repo, "C3/src/runtime")
        /\ Has(repo, "C3/src/tools")
    BY <2>1 DEF Has
  <2>4. Content(old, Readme) = {}
    BY <1>2, NothingThere
  <2>. QED
    BY <1>7, <1>8, <1>9, <2>2, <2>3, <2>4
<1>. QED
  BY <1>3, <1>10, <1>11

(* What is written is what layer A wants.                                  *)
LEMMA ArchiveReady ==
  ASSUME NEW tree, C1Ready(tree), C2Ready(tree), C3Ready(tree), NoDevice(tree)
  PROVE  /\ Content(Archived(tree), Library) = {"elf"} /\ Has(Archived(tree), Wrapper)
         /\ Complete => FailedChecks(Archived(tree)) = {}
<1>1. PICK files : files = Archived(tree)
  OBVIOUS
<1>2. \A p : /\ Has(files, p) <=> Has(tree, p)
             /\ Content(files, p) = Content(tree, p)
             /\ Has(tree, p) /\ Executable(p) => Runnable(files, p)
  BY <1>1, WhatIsArchived
<1>3. Content(files, Library) = {"elf"} /\ Has(files, Wrapper) /\ Has(files, Library)
  BY <1>2 DEF C1Ready, C2Ready
<1>4. Executable(Wrapper) /\ Executable(Library)
  BY DEF Executable, Wrapper, Library, Readme
<1>5. Runnable(files, Wrapper) /\ Runnable(files, Library)
  BY <1>2, <1>3, <1>4
<1>6. ASSUME Complete
      PROVE  FailedChecks(files) = {}
  <2>1. /\ Content(files, Wrapper) = {"root_./src"} /\ Has(files, "C1/compiler/src/Makefile")
        /\ Has(files, "C1/compiler/src/src")
    BY <1>2, <1>6 DEF C1Ready
  <2>2. /\ Has(files, "C3/readme.md") /\ Content(files, "C3/readme.md") = {"commands"}
        /\ Has(files, "C3/src/scheduler") /\ Has(files, "C3/src/runtime") /\ Has(files, "C3/src/tools")
    BY <1>2, <1>6 DEF C3Ready, Readme
  <2>3. ~ Has(files, "C2/lib/libaec_device.so")
    BY <1>2 DEF NoDevice
  <2>. QED
    BY <1>3, <1>5, <2>1, <2>2, <2>3, NothingFails
<1>. QED
  BY <1>1, <1>3, <1>6

LEMMA PackSteps ==
  ASSUME PackInv, PackNext
  PROVE  PackInv'
<1>1. OneContent' /\ Complete' = Complete
  BY RepoSteps DEF PackInv
<1>2. /\ C1Ready(staged)' <=> C1Ready(staged')
      /\ C2Ready(staged)' <=> C2Ready(staged')
      /\ C3Ready(staged)' <=> C3Ready(staged')
      /\ NoDevice(staged)' <=> NoDevice(staged')
      /\ Has(staged, Library)' <=> Has(staged', Library)
      /\ Has(staged, Readme)' <=> Has(staged', Readme)
  BY <1>1 DEF C1Ready, C2Ready, C3Ready, NoDevice, Has, Content
<1>3. ASSUME NEW files, package'.files = files
      PROVE  PackedArchivesVerify' <=>
               (package'.state = "packed" =>
                  /\ Content(files, Library) = {"elf"} /\ Has(files, Wrapper)
                  /\ Complete => FailedChecks(files) = {})
  BY <1>1, <1>3 DEF PackedArchivesVerify, FailedChecks, Checks, Has, Content, Runnable
<1>4. ASSUME package' = package
      PROVE  PackedArchivesVerify'
  <2>1. PICK files : files = package.files
    OBVIOUS
  <2>. QED
    BY <1>3, <1>4, <2>1 DEF PackInv, PackedArchivesVerify
<1>5. ASSUME packer' \notin {"stage_c2", "stage_c3"} \cup Late
      PROVE  StagedSoFar'
  BY <1>5 DEF StagedSoFar
<1>6. ASSUME UNCHANGED staged, packer' = packer \/ (packer \in Late /\ packer' \in Late)
      PROVE  StagedSoFar'
  BY <1>2, <1>6 DEF PackInv, StagedSoFar, Late
<1>7. ASSUME PackEnds
      PROVE  StagedSoFar'
  BY <1>5, <1>7 DEF PackEnds, Late
<1>8. ASSUME BuildFails
      PROVE  StagedSoFar'
  BY <1>5, <1>7, <1>8 DEF BuildFails, Late
<1>9. ASSUME NEW from, NEW to, to \notin {"stage_c2", "stage_c3"} \cup Late, PackMoves(from, to)
      PROVE  StagedSoFar'
  BY <1>5, <1>9 DEF PackMoves, PackGoto
<1>10. CASE \E pid \in Pids, m \in {"auto", "remote", "wsl", "none"} : Pack(pid, m)
  BY <1>1, <1>4, <1>5, <1>10 DEF Pack, PackGoto, Late, PackInv
<1>11. CASE LibraryThere \/ Build \/ BuildMkdir \/ BuildTimeout \/ Pull \/ Clean \/ BuildWsl
  <2>1. package' = package
    BY <1>11 DEF LibraryThere, Build, BuildMkdir, BuildTimeout, Pull, Clean, BuildWsl
  <2>2. StagedSoFar'
    BY <1>7, <1>8, <1>9, <1>11
       DEF LibraryThere, Build, BuildMkdir, BuildTimeout, Pull, Clean, BuildWsl, Late
  <2>. QED
    BY <1>1, <1>4, <2>1, <2>2 DEF PackInv
<1>12. ASSUME NEW from, NEW to \in {"make", "pull"}, NEW files, BuildStep(from, to, files)
       PROVE  PackInv'
  <2>1. package' = package
    BY <1>12 DEF BuildStep
  <2>2. StagedSoFar'
    BY <1>8, <1>9, <1>12 DEF BuildStep, Late
  <2>. QED
    BY <1>1, <1>4, <2>1, <2>2 DEF PackInv
<1>13. CASE StageC1
  <2>1. StagedSoFar'
    <3>1. CASE packer' = "off"
      BY <1>5, <3>1 DEF Late
    <3>2. CASE packer' # "off"
      BY <1>2, <1>13, <3>2, StageC1Ready DEF PackInv, StagedSoFar, Late
    <3>. QED
      BY <3>1, <3>2
  <2>. QED
    BY <1>1, <1>4, <1>13, <2>1 DEF PackInv, StageC1
<1>14. CASE StageC2
  <2>1. StagedSoFar'
    <3>1. CASE packer' = "off"
      BY <1>5, <3>1 DEF Late
    <3>2. CASE packer' # "off"
      <4>1. C1Ready(staged) /\ NoDevice(staged) /\ ~ Has(staged, Library) /\ ~ Has(staged, Readme)
        BY <1>14 DEF PackInv, StagedSoFar, StageC2
      <4>. QED
        BY <1>2, <1>14, <3>2, <4>1, StageC2Ready DEF StagedSoFar, Late
    <3>. QED
      BY <3>1, <3>2
  <2>. QED
    BY <1>1, <1>4, <1>14, <2>1 DEF PackInv, StageC2
<1>15. CASE StageC3
  <2>1. C1Ready(staged) /\ C2Ready(staged) /\ NoDevice(staged) /\ ~ Has(staged, Readme)
    BY <1>15 DEF PackInv, StagedSoFar, StageC3, PackGoto
  <2>2. StagedSoFar'
    BY <1>2, <1>15, <2>1, StageC3Ready DEF PackInv, StagedSoFar, Late
  <2>. QED
    BY <1>1, <1>4, <1>15, <2>2 DEF PackInv, StageC3
<1>16. CASE Unlink \/ OpenZip
  <2>1. package'.state # "packed"
    BY <1>16 DEF Unlink, OpenZip, NoPackage, OpenPackage
  <2>2. StagedSoFar'
    BY <1>6, <1>16 DEF Unlink, OpenZip, PackMoves, PackGoto, Late
  <2>. QED
    BY <1>1, <2>1, <2>2 DEF PackInv, PackedArchivesVerify
<1>17. CASE WriteZip
  <2>1. PICK tree : tree = staged
    OBVIOUS
  <2>2. C1Ready(tree) /\ C2Ready(tree) /\ C3Ready(tree) /\ NoDevice(tree)
    BY <1>17, <2>1 DEF PackInv, StagedSoFar, WriteZip, Late
  <2>3. PICK files : files = Archived(tree)
    OBVIOUS
  <2>4. package' = [state |-> "packed", files |-> files]
    BY <1>17, <2>1, <2>3 DEF WriteZip
  <2>5. PackedArchivesVerify'
    BY <1>3, <2>2, <2>3, <2>4, ArchiveReady
  <2>. QED
    BY <1>1, <1>7, <1>17, <2>5 DEF PackInv, WriteZip
<1>18. CASE WriteStops
  <2>1. package'.state = "cut"
    BY <1>18 DEF WriteStops
  <2>. QED
    BY <1>1, <1>7, <1>18, <2>1 DEF PackInv, WriteStops, PackedArchivesVerify
<1>19. CASE InterruptPack
  BY <1>1, <1>4, <1>7, <1>19 DEF InterruptPack, PackInv
<1>20. CASE MakeClean
  BY <1>1, <1>4, <1>6, <1>20 DEF MakeClean, packVars, PackInv
<1>. QED
  BY <1>10, <1>11, <1>12, <1>13, <1>14, <1>15, <1>16, <1>17, <1>18, <1>19, <1>20 DEF PackNext

(* The two scripts agree on the layout of a submission: for every tree a   *)
(* repository may hold, and whatever the library was built from.           *)
THEOREM PackedMeansVerified == DeliverySpec => []PackedArchivesVerify
<1>1. DeliveryInit => PackInv
  <2>. SUFFICES ASSUME DeliveryInit PROVE PackInv
    OBVIOUS
  <2>1. PICK sources \in Trees, library \in {{}, {<<Library, "junk">>}, {<<Library, "elf">>}} :
          repo = sources \cup library
    BY DEF DeliveryInit, PackInit
  <2>2. OneContent
    <3>1. \A e, f \in sources : e = <<e[1], e[2]>> /\ e[1] # Library /\ (e[1] = f[1] => e = f)
      BY TreesAssumption
    <3>2. \A e, f \in library : e = <<e[1], e[2]>> /\ e[1] = Library /\ e = f
      BY <2>1
    <3>. QED
      BY <2>1, <3>1, <3>2 DEF OneContent
  <2>3. StagedSoFar /\ PackedArchivesVerify
    BY DEF DeliveryInit, PackInit, StagedSoFar, PackedArchivesVerify, NoPackage, Late
  <2>. QED
    BY <2>2, <2>3 DEF PackInv
<1>2. PackInv /\ [DeliveryNext]_deliveryVars => PackInv'
  <2>. SUFFICES ASSUME PackInv, [DeliveryNext]_deliveryVars PROVE PackInv'
    OBVIOUS
  <2>1. CASE repo' = repo /\ package' = package /\ packer' = packer /\ staged' = staged
    <3>1. OneContent' /\ (PackedArchivesVerify' <=> PackedArchivesVerify)
      BY <2>1 DEF PackInv, OneContent, PackedArchivesVerify, Complete, FailedChecks, Checks, Has,
                  Content, Runnable
    <3>2. StagedSoFar' <=> StagedSoFar
      BY <2>1 DEF StagedSoFar, C1Ready, C2Ready, C3Ready, NoDevice, Complete, Has, Content
    <3>. QED
      BY <3>1, <3>2 DEF PackInv
  <2>2. CASE VerifyNext
    BY <2>1, <2>2, VerifierStandsAside DEF VerifyIdle, packVars
  <2>3. CASE UNCHANGED deliveryVars
    BY <2>1, <2>3 DEF deliveryVars, packVars
  <2>. QED
    BY <2>2, <2>3, PackSteps DEF DeliveryNext
<1>3. PackInv => PackedArchivesVerify
  BY DEF PackInv
<1>. QED
  BY <1>1, <1>2, <1>3, PTL DEF DeliverySpec
=============================================================================
