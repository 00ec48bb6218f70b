---------------------------- MODULE PublicGrade ----------------------------
(***************************************************************************)
(* C2/grader/public_grade.py: sixteen requirements are tested one after    *)
(* the other on one runtime, each after a reset of the device; a failed    *)
(* one is reported and the next one goes on with whatever it left behind.  *)
(* A test is the list of what it does to the runtime; a comparison is a    *)
(* "check", and values, oracles and statistics are left out.               *)
(***************************************************************************)
EXTENDS Agents, Sequences

CONSTANTS
  DmaRequests, KernelRequests,  (* what the agents may be asked           *)
  Submissions  (* sets of <<requirement, line>>: where one does not do what *)
               (* the test asks for                                       *)

ASSUME RequestsAssumption ==
  /\ \A request \in DmaRequests : DmaRequest(request)
  /\ \A request \in KernelRequests : KernelRequest(request)

VARIABLES
  faulty,   (* where this submission is wrong                             *)
  only,     (* --requirement: the one that is tested, or "all"            *)
  turn,     (* position in REQUIREMENTS                                   *)
  line,     (* position in the test; 0 before the reset                   *)
  mine,     (* lines of the test whose resources it holds                 *)
  left,     (* <<requirement, line>> of the resources nobody freed        *)
  pending,  (* faults injected into the device and not met yet            *)
  results,  (* per tested requirement the line it failed at, 0 if it     *)
            (* passed                                                     *)
  asked,    (* the last question to an agent, with its answers            *)
  level     (* of the report                                              *)

gradeVars == <<faulty, only, turn, line, mine, left, pending, results, asked, level>>
-----------------------------------------------------------------------------
(* The tests.  What stands before "try" is not given back when a later     *)
(* step fails; "finally" gives back what the block knows of.               *)
VectorAdd == <<"alloc", "alloc", "alloc", "try", "dma", "dma", "kernel", "dma", "check",
               "finally">>
Gemm == VectorAdd

R101 == <<"check">>
R102 == <<"check", "alloc", "check", "free", "check", "alloc", "check", "free", "check">>
R103 == <<"alloc", "try", "dma", "dma", "check", "finally">>
R104 == VectorAdd
R105 == <<"stream", "alloc", "try", "dma", "dma", "check", "finally">>
R106 == <<"stream", "event", "event", "alloc", "try", "check", "dma", "check",
          "inject_dma", "dma_fails", "finally">>
R201 == Gemm \o Gemm
R202 == Gemm \o Gemm \o Gemm \o Gemm \o Gemm \o Gemm
R203 == Gemm \o Gemm
R204 == <<"alloc", "alloc", "alloc", "try", "dma", "dma", "kernel", "dma", "dma", "kernel",
          "dma", "kernel", "dma", "check", "finally">>
R301 == <<"check">> \o VectorAdd
R302 == <<"check", "stream", "stream", "alloc", "alloc", "try", "dma", "dma", "check", "dma",
          "finally">>
R303 == <<"alloc", "try", "dma", "check", "register", "check", "dma", "check", "unregister",
          "check", "finally">>
R304 == <<"stream", "alloc", "alloc", "alloc", "try", "inject_dma", "dma_fails", "dma",
          "inject_kernel", "kernel_fails", "finally">>
R401 == <<"dma_agent">>
R402 == <<"kernel_agent">>

(* Mutant: one point less for the first GEMM. *)
PointsShort == [i \in 1 .. 16 |-> <<4, 6, 6, 4, 5, 5, 9, 10, 4, 6, 6, 6, 4, 4, 10, 10>>[i]]

Points == <<4, 6, 6, 4, 5, 5, 10, 10, 4, 6, 6, 6, 4, 4, 10, 10>>

REQUIREMENTS == <<"R101", "R102", "R103", "R104", "R105", "R106", "R201", "R202", "R203",
                  "R204", "R301", "R302", "R303", "R304", "R401", "R402">>
Tests == <<R101, R102, R103, R104, R105, R106, R201, R202, R203, R204, R301, R302, R303,
           R304, R401, R402>>

Requirement == REQUIREMENTS[turn]
Test == Tests[turn]
Step == Test[line]
Acquiring == {"alloc", "stream", "event", "register"}
Injecting == [dma |-> "inject_dma", kernel |-> "inject_kernel"]
Failing == [dma |-> "dma_fails", kernel |-> "kernel_fails"]

GradeInit ==
  /\ faulty \in Submissions
  /\ only \in {"all", "R201"}
  /\ turn = 1 /\ line = 0 /\ mine = {} /\ left = {} /\ pending = {}
  /\ results = [r \in {} |-> 0]
  /\ asked = {} /\ level = "none"

Before == UNCHANGED <<faulty, only, level>>
-----------------------------------------------------------------------------
(* Mutant: only the last error is cleared. *)
ResetErrorOnly == UNCHANGED pending

(* Runtime.reset: the device forgets its faults.                           *)
Reset == pending' = {}

(* grade: the next requirement that was asked for.                         *)
Begin ==
  /\ turn <= Len(REQUIREMENTS) /\ line = 0
  /\ IF only \in {"all", Requirement}
     THEN Reset /\ line' = 1 /\ UNCHANGED <<turn, asked>>
     ELSE turn' = turn + 1 /\ UNCHANGED <<pending, line, asked>>
  /\ Before /\ UNCHANGED <<mine, left, results>>

(* The verdict goes into the report, and the resources stay where they are.*)
Conclude(failedAt, leaving) ==
  /\ results' = [r \in DOMAIN results \cup {Requirement} |->
                   IF r = Requirement THEN failedAt ELSE results[r]]
  /\ left' = left \cup {<<Requirement, l>> : l \in leaving}
  /\ mine' = {} /\ turn' = turn + 1 /\ line' = 0 /\ asked' = {}

Trying ==
  \E t \in 1 .. line - 1 : Test[t] = "try" /\ \A u \in t .. line - 1 : Test[u] # "finally"

(* Mutant: finally is reached only when the test goes well. *)
FinallyWhenWell == mine

(* What a failing test keeps: inside a try block only registrations, which *)
(* no finally undoes.                                                      *)
KeptByFailure == IF Trying THEN {l \in mine : Test[l] = "register"} ELSE mine

Passes(now) ==
  IF line < Len(Test) THEN /\ line' = line + 1 /\ mine' = now
                           /\ UNCHANGED <<turn, left, results>>
                      ELSE Conclude(0, now)

Running == turn <= Len(REQUIREMENTS) /\ line > 0

(* A command meets the fault that waits for one of its kind.               *)
Meets(command) == pending' = pending \ {command}

Well ==
  /\ Running /\ Before /\ <<Requirement, line>> \notin faulty
  /\ \/ Step \in Acquiring /\ Passes(mine \cup {line}) /\ UNCHANGED <<pending, asked>>
     \/ Step \in {"check", "try"} /\ Passes(mine) /\ UNCHANGED <<pending, asked>>
     \/ Step \in {"free", "unregister"} /\ Passes(mine \ {Max(mine)})
        /\ UNCHANGED <<pending, asked>>
     \/ Step = "finally" /\ Passes({}) /\ UNCHANGED <<pending, asked>>
     \/ \E command \in {"dma", "kernel"} :
          \/ Step = command /\ command \notin pending /\ Passes(mine)
             /\ UNCHANGED <<pending, asked>>
          \/ Step = Failing[command] /\ command \in pending /\ Passes(mine)
             /\ Meets(command) /\ UNCHANGED asked
          \/ Step = Injecting[command] /\ Passes(mine)
             /\ pending' = pending \cup {command} /\ UNCHANGED asked

(* A step fails: because the submission does not do what it should, before *)
(* or after a command got to the device, or because a fault was waiting.   *)
Raises ==
  /\ Running /\ Before
  /\ \/ <<Requirement, line>> \in faulty /\ UNCHANGED pending
     \/ \E command \in {"dma", "kernel"} :
          <<Requirement, line>> \in faulty /\ Step = Failing[command] /\ Meets(command)
     \/ Step \in {"dma", "kernel"} \cap pending /\ Meets(Step)
  /\ Conclude(line, KeptByFailure)

(* test_r401, test_r402: a case is put to the agent of the repository; one *)
(* case, any of them, stands for the three.  An answer that is no legal    *)
(* action fails the requirement.                                           *)
AskDmaAgent ==
  /\ Running /\ Before /\ UNCHANGED pending
  /\ Step = "dma_agent" /\ asked = {} /\ <<Requirement, line>> \notin faulty
  /\ \E request \in DmaRequests :
       asked' = {[request |-> request, answer |-> DmaAgent(request)]}
  /\ UNCHANGED <<turn, line, mine, left, results>>

AskKernelAgent ==
  /\ Running /\ Before /\ UNCHANGED pending
  /\ Step = "kernel_agent" /\ asked = {} /\ <<Requirement, line>> \notin faulty
  /\ \E request \in KernelRequests, answer \in KernelName :
       /\ \E c \in KernelAgent(request) : c.id = answer
       /\ asked' = {[request |-> request, answer |-> answer]}
  /\ UNCHANGED <<turn, line, mine, left, results>>

Accepted(question) ==
  IF "bytes" \in DOMAIN question.request
  THEN question.answer \in LegalDmaActions(question.request)
  ELSE question.answer \in DeviceRuns(question.request)

AgentsDone ==
  /\ Running /\ Before /\ UNCHANGED pending
  /\ \E question \in asked : Conclude(IF Accepted(question) THEN 0 ELSE line, {})
-----------------------------------------------------------------------------
(* The agents earn their four points for legal answers; the rest is for    *)
(* hidden cases, which the public profile does not have.                   *)
Earned(i) ==
  IF REQUIREMENTS[i] \notin DOMAIN results THEN 0
  ELSE IF results[REQUIREMENTS[i]] > 0 THEN 0
  ELSE IF REQUIREMENTS[i] \in {"R401", "R402"} THEN 4 ELSE Points[i]

Score ==
  Earned(1) + Earned(2) + Earned(3) + Earned(4) + Earned(5) + Earned(6) + Earned(7) + Earned(8)
  + Earned(9) + Earned(10) + Earned(11) + Earned(12) + Earned(13) + Earned(14) + Earned(15)
  + Earned(16)

Passed(requirements) ==
  only = "all" /\ \A r \in requirements : results[r] = 0

BasicGate == Passed({"R101", "R102", "R103", "R104", "R201"})
GoodGate == BasicGate /\ Passed({"R105", "R106", "R202", "R203", "R204", "R301", "R302",
                                 "R303", "R304"})

(* grade: the level needs the points and the gate; the last one that fits. *)
Rate ==
  /\ turn > Len(REQUIREMENTS) /\ level = "none"
  /\ level' = IF Score >= 75 /\ GoodGate THEN "Good"
              ELSE IF Score >= 30 /\ BasicGate THEN "Basic" ELSE "Not_passed"
  /\ UNCHANGED <<faulty, only, turn, line, mine, left, pending, results, asked>>

GradeNext == Begin \/ Well \/ Raises \/ AskDmaAgent \/ AskKernelAgent \/ AgentsDone \/ Rate

GradeSpec == GradeInit /\ [][GradeNext]_gradeVars
-----------------------------------------------------------------------------
(* A requirement fails only where the submission does not do what it asks: *)
(* nothing an earlier one left - a fault that was injected and never met - *)
(* decides it.  What is left behind is left by a requirement that failed,  *)
(* and was acquired before its try block, or is a registration.            *)
(* (public_grade.py Runtime.reset, grade, the finally blocks of the tests) *)
NoCarryOver ==
  /\ \A r \in DOMAIN results : results[r] > 0 => <<r, results[r]>> \in faulty
  /\ \A lost \in left :
       LET r == lost[1]
           l == lost[2]
           test == Tests[CHOOSE i \in DOMAIN REQUIREMENTS : REQUIREMENTS[i] = r] IN
       /\ results[r] > l
       /\ test[l] # "register" => \A t \in l .. results[r] - 1 : test[t] # "try"

(* Points and gates agree: who passes the requirements of a gate has the   *)
(* points of its level, who fails one of them does not get it.  The five   *)
(* basic requirements are worth 30 points exactly.                         *)
(* (public_grade.py REQUIREMENTS, grade)                                   *)
LevelsFollowGates ==
  level # "none" =>
    /\ level = "Good" <=> GoodGate
    /\ level = "Basic" <=> BasicGate /\ ~ GoodGate

(* The answers of the agents are actions the grader accepts.  The DMA      *)
(* agent's is the cheapest of them; the kernel agent picks a kernel the    *)
(* device runs, and in a public case the fastest it measured.              *)
(* (agents/dma_agent.py, agents/kernel_agent.py decide; _dma_cycles,       *)
(* _kernel_cycles)                                                         *)
AgentsAnswerWell ==
  \A question \in asked :
    LET request == question.request IN
    /\ Accepted(question)
    /\ IF "bytes" \in DOMAIN request
       THEN \A other \in LegalDmaActions(request) :
              DmaCycles(request, question.answer) <= DmaCycles(request, other)
       ELSE \A c, d \in KernelCandidates(request.cycles) :
              c.id = question.answer /\ c.cycles > 0 /\ d.cycles > 0 => c.cycles <= d.cycles
=============================================================================
