--------------------------- MODULE AecAllocations ---------------------------
(***************************************************************************)
(* Device memory as the AEC host runtime sees it (C2/src/aec_runtime.cpp): *)
(* aecAlloc, aecFree, the shadow table g_allocations, and the vector entry *)
(* points that consult it to refuse counts too large for an operand.       *)
(*                                                                         *)
(* The device owns the allocator (external: deterministic lowest-address   *)
(* first fit) and is called without g_submit_mutex by aecAlloc and with it *)
(* by aecFree; the table is updated afterwards, under g_mutex.             *)
(*                                                                         *)
(* Clients are well behaved: a pointer is used from the return of the      *)
(* aecAlloc that produced it until it is passed to aecFree, and it is not  *)
(* freed while a vector call that has it as an operand is running.         *)
(***************************************************************************)
EXTENDS AecCalls, Sequences, FiniteSetsExt

CONSTANTS
  Memory,     (* bytes of device memory above the reserved prefix       *)
  Sizes,      (* the sizes clients allocate                             *)
  Counts,     (* the element counts clients pass                        *)
  VectorOps,  (* the vector entry points the clients call               *)
  ElemBytes   (* sizeof(float), scaled with the word                    *)

ASSUME AllocationsAssumption ==
  /\ Memory \in Nat
  /\ Memory < Word
  /\ Sizes \subseteq 1..Memory
  /\ Counts \subseteq 0..(Word - 1)
  /\ ElemBytes \in Nat \ {0}

VARIABLES
  heap,         (* device: the live allocations, base address to size       *)
  gAllocations, (* g_allocations, pointer to size                           *)
  owned         (* clients: pointers returned by aecAlloc and not yet freed *)

allocVars == <<heap, gAllocations, owned>>
Empty == [p \in {} |-> 0]

AllocationsInit ==
  /\ heap = Empty
  /\ gAllocations = Empty
  /\ owned = {}

-----------------------------------------------------------------------------
Put(table, p, bytes) == [q \in DOMAIN table \cup {p} |-> IF q = p THEN bytes ELSE table[q]]
Drop(table, p) == [q \in DOMAIN table \ {p} |-> table[q]]

(* Device: the lowest address where the block fits between the others.     *)
Fitting(bytes) ==
  {a \in 1..Memory : /\ a + bytes - 1 <= Memory
                     /\ \A b \in DOMAIN heap : a + bytes <= b \/ b + heap[b] <= a}

-----------------------------------------------------------------------------
(* aecAlloc: the device call comes first and holds no runtime lock; the    *)
(* table entry is made afterwards, under g_mutex.                          *)
AllocFails(t, bytes) ==
  /\ Begin(t)
  /\ Fitting(bytes) = {}
  /\ Finish(t, OutOfMemory)
  /\ UNCHANGED <<lockVars, pc, call, allocVars>>

AllocOnDevice(t, bytes) ==
  /\ Begin(t)
  /\ Fitting(bytes) # {}
  /\ pc' = [pc EXCEPT ![t] = "record"]
  /\ LET p == Min(Fitting(bytes)) IN
     /\ call' = [call EXCEPT ![t] = [NoCall EXCEPT !.op = "alloc", !.ptr = p, !.bytes = bytes]]
     /\ heap' = Put(heap, p, bytes)
  /\ UNCHANGED <<lockVars, lastError, gAllocations, owned>>

RecordLock(t) ==
  /\ Goto(t, "record", "recording")
  /\ LockTable(t)
  /\ UNCHANGED <<submitVars, lastError, call, calls, allocVars>>

Record(t) ==
  /\ pc[t] = "recording"
  /\ gAllocations' = Put(gAllocations, call[t].ptr, call[t].bytes)
  /\ owned' = owned \cup {call[t].ptr}
  /\ UnlockTable
  /\ Return(t, Success)
  /\ UNCHANGED <<submitVars, calls, heap>>

-----------------------------------------------------------------------------
(* What a client may pass as a pointer.                                    *)
Pointers == owned \cup {Null}

(* aecFree: the device call and the table update under one hold of         *)
(* g_submit_mutex.                                                         *)
InUse(p) == \E t \in Thread : \E i \in DOMAIN call[t].operands : call[t].operands[i].ptr = p

Free(t, p) ==
  /\ Begin(t)
  /\ p \in Pointers /\ ~ InUse(p)
  /\ owned' = owned \ {p}
  /\ pc' = [pc EXCEPT ![t] = "free"]
  /\ call' = [call EXCEPT ![t] = [NoCall EXCEPT !.op = "free", !.ptr = p]]
  /\ UNCHANGED <<lockVars, lastError, heap, gAllocations>>

FreeLock(t) ==
  /\ Goto(t, "free", "freeing")
  /\ LockSubmit(t)
  /\ UNCHANGED <<tableOwner, lastError, call, calls, allocVars>>

FreeOnDevice(t) ==
  /\ call[t].ptr \in DOMAIN heap
  /\ Goto(t, "freeing", "erase")
  /\ heap' = Drop(heap, call[t].ptr)
  /\ UNCHANGED <<lockVars, lastError, call, calls, gAllocations, owned>>

FreeFails(t) ==
  /\ pc[t] = "freeing"
  /\ call[t].ptr \notin DOMAIN heap
  /\ UnlockSubmit
  /\ Return(t, InvalidAddress)
  /\ UNCHANGED <<tableOwner, calls, allocVars>>

EraseLock(t) ==
  /\ Goto(t, "erase", "erasing")
  /\ LockTable(t)
  /\ UNCHANGED <<submitVars, lastError, call, calls, allocVars>>

(* Mutant: aecFree leaves the entry in the table. *)
EraseNothing(t) ==
  /\ pc[t] = "erasing"
  /\ UnlockTable
  /\ UnlockSubmit
  /\ Return(t, Success)
  /\ UNCHANGED <<calls, allocVars>>

Erase(t) ==
  /\ pc[t] = "erasing"
  /\ gAllocations' = Drop(gAllocations, call[t].ptr)
  /\ UnlockTable
  /\ UnlockSubmit
  /\ Return(t, Success)
  /\ UNCHANGED <<calls, heap, owned>>

-----------------------------------------------------------------------------
(* aecAxpy, aecDot and aecNrm2: the operands and the elements of each.     *)
On(p, count) == [ptr |-> p, count |-> count]
Axpy(x, y, count)   == <<On(x, count), On(y, count)>>
Dot(x, y, r, count) == <<On(x, count), On(y, count), On(r, 1)>>
Nrm2(x, r, count)   == <<On(x, count), On(r, 1)>>

Calls(op, operands) == IF op \in VectorOps THEN operands ELSE {}
VectorOperands ==
  Calls("axpy", {Axpy(x, y, n) : x \in Pointers, y \in Pointers, n \in Counts})
    \cup Calls("nrm2", {Nrm2(x, r, n) : x \in Pointers, r \in Pointers, n \in Counts})
    \cup Calls("dot", {Dot(x, y, r, n) : x \in Pointers, y \in Pointers, r \in Pointers,
                                        n \in Counts})

(* Mutant: no check that the product fits. *)
CountNonZero(count) == count # 0

(* count * sizeof(float) in 64 bits, and the checks made before it.        *)
CountValid(count) == count # 0 /\ count <= (Word - 1) \div ElemBytes
BytesNeeded(count) == (count * ElemBytes) % Word

VectorRefused(t, operands) ==
  /\ Begin(t)
  /\ ~ CountValid(operands[1].count)
  /\ Finish(t, InvalidArgument)
  /\ UNCHANGED <<lockVars, pc, call, allocVars>>

Vector(t, operands) ==
  /\ Begin(t)
  /\ CountValid(operands[1].count)
  /\ pc' = [pc EXCEPT ![t] = "check"]
  /\ call' = [call EXCEPT ![t] = [NoCall EXCEPT !.op = "vector", !.operands = operands,
                                                !.unchecked = operands]]
  /\ UNCHANGED <<lockVars, lastError, allocVars>>

CheckLock(t) ==
  /\ Goto(t, "check", "checking")
  /\ LockTable(t)
  /\ UNCHANGED <<submitVars, lastError, call, calls, allocVars>>

(* Mutant: off by one. *)
AllocationAbove(operand) ==
  operand.ptr \in DOMAIN gAllocations =>
    BytesNeeded(operand.count) < gAllocations[operand.ptr]

(* allocation_fits: an unknown pointer is left to the device.              *)
AllocationFits(operand) ==
  operand.ptr \in DOMAIN gAllocations =>
    BytesNeeded(operand.count) <= gAllocations[operand.ptr]

CheckPasses(t) ==
  /\ pc[t] = "checking"
  /\ AllocationFits(Head(call[t].unchecked))
  /\ Goto(t, "checking", IF Len(call[t].unchecked) = 1 THEN "submit" ELSE "check")
  /\ call' = [call EXCEPT ![t].unchecked = Tail(@)]
  /\ UnlockTable
  /\ UNCHANGED <<submitVars, lastError, calls, allocVars>>

CheckFails(t) ==
  /\ pc[t] = "checking"
  /\ ~ AllocationFits(Head(call[t].unchecked))
  /\ UnlockTable
  /\ Return(t, InvalidArgument)
  /\ UNCHANGED <<submitVars, calls, allocVars>>

(* launch_kernel on the synchronous path, up to submit_command.            *)
SubmitLock(t) ==
  /\ Goto(t, "submit", "device")
  /\ LockSubmit(t)
  /\ UNCHANGED <<tableOwner, lastError, call, calls, allocVars>>

(* Device: every operand must lie in one live allocation.                  *)
Addressable(operands) == \A i \in DOMAIN operands : operands[i].ptr \in DOMAIN heap
Inside(operands) ==
  \A i \in DOMAIN operands : operands[i].count * ElemBytes <= heap[operands[i].ptr]

DeviceVector(t) ==
  LET operands == call[t].operands
      status == IF ~ Addressable(operands) THEN InvalidAddress
                ELSE IF Inside(operands) THEN Success ELSE IsaTrap
  IN /\ pc[t] = "device"
     /\ UnlockSubmit
     /\ Return(t, status)
     /\ UNCHANGED <<tableOwner, calls, heap, gAllocations, owned>>

-----------------------------------------------------------------------------
StartAllocation(t) ==
  \/ \E bytes \in Sizes : AllocFails(t, bytes) \/ AllocOnDevice(t, bytes)
  \/ \E p \in Pointers : Free(t, p)
  \/ \E operands \in VectorOperands : VectorRefused(t, operands) \/ Vector(t, operands)

ContinueAllocation(t) ==
  \/ RecordLock(t) \/ Record(t)
  \/ FreeLock(t) \/ FreeOnDevice(t) \/ FreeFails(t) \/ EraseLock(t) \/ Erase(t)
  \/ CheckLock(t) \/ CheckPasses(t) \/ CheckFails(t) \/ SubmitLock(t) \/ DeviceVector(t)
-----------------------------------------------------------------------------
Erasing(p) == \E t \in Thread : pc[t] \in {"erase", "erasing"} /\ call[t].ptr = p

(* The table never goes stale: an entry names a live allocation with its   *)
(* exact size, unless the aecFree that released it is about to erase it.   *)
(* In particular no entry outlives the calls that could still remove it,   *)
(* and what a client owns, the device still holds, with the size recorded. *)
EntriesAccounted ==
  /\ \A p \in DOMAIN gAllocations :
       \/ p \in DOMAIN heap /\ heap[p] = gAllocations[p]
       \/ Erasing(p)
  /\ \A p \in owned :
       /\ p \in DOMAIN heap
       /\ p \in DOMAIN gAllocations => gAllocations[p] = heap[p]

(* A count that the operand can hold is never refused, whatever the other  *)
(* threads allocate and free meanwhile.                                    *)
ValidCountAccepted ==
  \A t \in Thread :
    (pc[t] = "checking" /\ ~ AllocationFits(Head(call[t].unchecked)))
      => LET operand == Head(call[t].unchecked)
         IN operand.ptr \in DOMAIN heap /\ operand.count * ElemBytes > heap[operand.ptr]

(* What reaches the device is within bounds as far as the table knows: the *)
(* product count * sizeof(float) did not wrap, and no operand changed      *)
(* between its check and the submission.                                   *)
KnownOperandsFit ==
  \A t \in Thread :
    pc[t] = "device" =>
      \A i \in DOMAIN call[t].operands :
        LET operand == call[t].operands[i]
        IN operand.ptr \in DOMAIN gAllocations
             => operand.count * ElemBytes <= gAllocations[operand.ptr]

(* The check of an operand is neither too strict nor too lax, though other *)
(* threads change the table between it and the submission, and the count   *)
(* is multiplied.  (aec_runtime.cpp allocation_fits, aecAxpy)              *)
OperandsChecked == ValidCountAccepted /\ KnownOperandsFit
=============================================================================
