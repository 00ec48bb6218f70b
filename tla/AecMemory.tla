----------------------------- MODULE AecMemory -----------------------------
(***************************************************************************)
(* The memory entry points of the AEC host runtime together: threads that  *)
(* allocate, free and run vector operations (AecAllocations) while others  *)
(* register, unregister and copy host buffers (AecHostMemory), all over    *)
(* the same two locks and the same last error.                             *)
(***************************************************************************)
EXTENDS AecAllocations, AecHostMemory

vars == <<callVars, allocVars, gRegistrations>>

Init == CallsInit /\ AllocationsInit /\ HostMemoryInit

AllocationCall(t) == (StartAllocation(t) \/ ContinueAllocation(t)) /\ UNCHANGED gRegistrations

HostCall(t) == (StartHostCall(t) \/ ContinueHostCall(t)) /\ UNCHANGED allocVars

Quiescent == AllIdle /\ UNCHANGED vars

Next == (\E t \in Thread : AllocationCall(t) \/ HostCall(t)) \/ Quiescent

Spec == Init /\ [][Next]_vars
=============================================================================
