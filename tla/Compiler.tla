------------------------------ MODULE Compiler ------------------------------
(***************************************************************************)
(* The compiler from the internal form to code for the machine             *)
(* (C1/src/driver.cpp, runOptPasses and compile): two rounds over the      *)
(* optimisations, if-conversion, the loop transformations, scheduling and  *)
(* allocation, in a fixed order, each behind its switch.                   *)
(***************************************************************************)
EXTENDS Unrolling, ListSched, RegAlloc

CONSTANTS Kernels,     \* records: fn, the function; top, the last register handed out
          Inputs,      \* records: mem, the initial global memory; param, the parameters
          Levels       \* optimisation levels: sets of optional passes switched on

VARIABLES kernel,      \* what is compiled, as the front end built it
          fn,          \* the function as the passes have left it
          level,       \* the optional passes that are switched on
          todo,        \* the passes yet to run
          preds,       \* predicates handed out so far (RegInfo::nextPred)
          expected,    \* what the source does on each input
          actual       \* what fn does on each input

compilerVars == <<kernel, fn, level, todo, preds, expected, actual>>
vars == <<compilerVars, scanVars>>

Round == <<"const_prop", "copy_prop", "cse", "mad_contract", "licm", "dce">>

Pipeline ==
  Round \o Round
  \o <<"pred_opt", "loop_rotate", "strength_reduce", "unroll",
      "list_schedule", "pred_alloc", "linear_scan">>

Required == {"pred_opt", "pred_alloc", "linear_scan"}   \* passes that run at every level
Optional == ToSet(Pipeline) \ Required

ASSUME CompilerAssumption == Levels \subseteq SUBSET Optional

Does(f) == [input \in Inputs |-> Behaviour(f, input)]

Init ==
  /\ kernel \in Kernels
  /\ fn = kernel.fn
  /\ level \in Levels
  /\ todo = Pipeline
  /\ preds = Max(Predicates(kernel.fn) \cup {0})
  /\ expected = Does(kernel.fn)
  /\ actual = Does(kernel.fn)
  /\ Idle

Step(pass, new) ==
  /\ todo # <<>> /\ Head(todo) = pass
  /\ todo' = Tail(todo)
  /\ fn' = IF pass \in level \cup Required THEN new ELSE fn
  /\ actual' = IF fn' = fn THEN actual ELSE Does(fn')
  /\ UNCHANGED <<kernel, level, expected>>

Run(pass, Pass(_)) == Step(pass, Pass(fn)) /\ UNCHANGED <<preds, scanVars>>

RunConstProp      == Run("const_prop", ConstProp)
RunCopyProp       == Run("copy_prop", CopyProp)
RunCse            == Run("cse", Cse)
RunMadContract    == Run("mad_contract", MadContract)
RunLicm           == Run("licm", Licm)
RunDce            == Run("dce", Dce)
RunPredOpt        == Run("pred_opt", PredOpt)
RunLoopRotate     == Run("loop_rotate", LoopRotate)
RunStrengthReduce == Run("strength_reduce", StrengthReduce)
RunUnroll ==
  LET unrolled == Unroll(fn, preds)
  IN /\ Step("unroll", unrolled.fn)
     /\ preds' = IF "unroll" \in level THEN unrolled.preds ELSE preds
     /\ UNCHANGED scanVars
RunListSchedule   == Run("list_schedule", ListSchedule)

(* An allocation has the values scanned before it rewrites the code.       *)
Scanned(pass, values, registers) ==
  /\ todo # <<>> /\ Head(todo) = pass
  /\ Begin(values, registers)
  /\ UNCHANGED compilerVars

Scanning == Scan /\ UNCHANGED compilerVars
Allocated(pass, Pass(_)) == End /\ Step(pass, Pass(fn)) /\ UNCHANGED preds

PredicatesFit == preds <= PredicateCount /\ Run("pred_alloc", LAMBDA f : f)
ScanPredicates ==
  preds > PredicateCount /\ Scanned("pred_alloc", Intervals(fn, TRUE), 1 .. PredicateCount - 1)
RunPredAlloc      == Allocated("pred_alloc", PredicatesAllocated)

ScanRegisters     == Scanned("linear_scan", Intervals(fn, FALSE), 1 .. kernel.top)
RunLinearScan     == Allocated("linear_scan", LAMBDA f : LinearScan(f, kernel.top))

Next ==
  \/ RunConstProp \/ RunCopyProp \/ RunCse \/ RunMadContract \/ RunLicm \/ RunDce
  \/ RunPredOpt \/ RunLoopRotate \/ RunStrengthReduce \/ RunUnroll
  \/ RunListSchedule \/ PredicatesFit \/ ScanPredicates \/ RunPredAlloc
  \/ ScanRegisters \/ RunLinearScan \/ Scanning

Spec == Init /\ [][Next]_vars

-----------------------------------------------------------------------------

(* A branch is the last instruction of its block and goes to the label of  *)
(* exactly one block.                                                      *)
WellFormed ==
  \A b \in DOMAIN fn :
    LET insts == fn[b].insts IN
    \A i \in DOMAIN insts :
      /\ IsTerminator(insts[i]) => i = Len(insts)
      /\ insts[i].target # None =>
           Cardinality({c \in DOMAIN fn : fn[c].label = insts[i].target}) = 1

(* Registers and predicates that the machine has: those handed out, the    *)
(* spill address and a scratch register for each of four operands.         *)
FitsMachine ==
  /\ Registers(fn) \subseteq 1 .. kernel.top + 5
  /\ Predicates(fn) \subseteq 1 .. PredicateCount

(* Control flow is well formed between any two passes, what an allocation  *)
(* has scanned is a request that the scan is for, and after the last pass  *)
(* the code names no register or predicate that the machine lacks.         *)
CodeOK ==
  /\ WellFormed
  /\ homes # {} => IsRequest(intervals, homes)
  /\ todo = <<>> => FitsMachine

(* Whatever passes have run, the function makes the stores that the source *)
(* makes, of the same values and in the same order between the same        *)
(* barriers, and ends when it ends (driver.cpp:201-274: the passes change  *)
(* the work, never the results).  This is asked of the inputs on which the *)
(* source ends and reads no register before it is written.                 *)
StoresPreserved ==
  \A input \in Inputs :
    expected[input].complete =>
      /\ actual[input].complete
      /\ actual[input].trace = expected[input].trace

(* The compiled function touches no global address that the source leaves  *)
(* alone: a load or store behind a bounds guard, or in a loop that runs no *)
(* iteration, is not brought forward (target.h: "a partial last block      *)
(* would fault").                                                          *)
NoStrayAccess ==
  \A input \in Inputs :
    expected[input].complete => actual[input].touched \subseteq expected[input].touched
=============================================================================
