-------------------------- MODULE AecMemory_proofs --------------------------
(***************************************************************************)
(* Theorems about AecMemory, for every set of threads, every width of a    *)
(* word, every size of the device memory and any number of calls: the      *)
(* registry of host intervals and the flags of copies, the table of        *)
(* allocations, and the check of vector operands against it.               *)
(***************************************************************************)
EXTENDS AecMemory, TLAPS, WellFoundedInduction, SequenceTheorems

Labels == {"idle", "enter", "enter_table", "body", "transfer",
           "record", "recording", "free", "freeing", "erase", "erasing",
           "check", "checking", "submit", "device"}

Operand == [ptr : Nat, count : Nat]
Ops == {"none", "alloc", "free", "vector", "register", "unregister", "copy"}
Call == [op : Ops, ptr : Nat, bytes : Nat, operands : Seq(Operand),
         unchecked : Seq(Operand), zeroCopy : BOOLEAN]

(* The calls of this part hold each lock at most once, at these labels.    *)
HoldingSubmit == {"enter_table", "body", "transfer", "freeing", "erase", "erasing", "device"}
HoldingTable == {"body", "recording", "erasing", "checking"}

Locks ==
  /\ \A t \in Thread : pc[t] \in HoldingSubmit <=> submitOwner = t
  /\ submitDepth = IF submitOwner = NoThread THEN 0 ELSE 1
  /\ \A t \in Thread : pc[t] \in HoldingTable <=> tableOwner = t

ThreadTypes ==
  /\ submitOwner \in Thread \cup {NoThread}
  /\ tableOwner \in Thread \cup {NoThread}
  /\ pc \in [Thread -> Labels]
  /\ call \in [Thread -> Call]
  /\ \A t \in Thread : pc[t] \in {"check", "checking"} => call[t].unchecked # <<>>

AllocTypes ==
  /\ DOMAIN heap \subseteq 1..Memory /\ \A p \in DOMAIN heap : heap[p] \in 1..Memory
  /\ DOMAIN gAllocations \subseteq 1..Memory
  /\ \A p \in DOMAIN gAllocations : gAllocations[p] \in 1..Memory
  /\ owned \subseteq 1..Memory

HostTypes == gRegistrations \subseteq [base : Address, bytes : Address]

Types == ThreadTypes /\ AllocTypes /\ HostTypes

-----------------------------------------------------------------------------
(* The locks at a step that takes or leaves neither: labels that hold the  *)
(* same locks.                                                             *)
LEMMA LocksKept ==
  ASSUME Types, Locks, NEW t \in Thread, NEW to \in Labels,
         pc' = [pc EXCEPT ![t] = to],
         pc[t] \in HoldingSubmit <=> to \in HoldingSubmit,
         pc[t] \in HoldingTable <=> to \in HoldingTable,
         UNCHANGED lockVars
  PROVE  Locks'
  BY DEF Types, ThreadTypes, Locks, lockVars

(* A step that takes g_submit_mutex.                                       *)
LEMMA SubmitTaken ==
  ASSUME Types, Locks, NEW t \in Thread, NEW to \in Labels,
         pc' = [pc EXCEPT ![t] = to],
         pc[t] \notin HoldingSubmit, to \in HoldingSubmit,
         pc[t] \in HoldingTable <=> to \in HoldingTable,
         LockSubmit(t), UNCHANGED tableOwner
  PROVE  Locks'
  BY ThreadAssumption DEF Types, ThreadTypes, Locks, LockSubmit

(* A step that takes g_mutex.                                              *)
LEMMA TableTaken ==
  ASSUME Types, Locks, NEW t \in Thread, NEW to \in Labels,
         pc' = [pc EXCEPT ![t] = to],
         pc[t] \in HoldingSubmit <=> to \in HoldingSubmit,
         pc[t] \notin HoldingTable, to \in HoldingTable,
         LockTable(t), UNCHANGED submitVars
  PROVE  Locks'
  BY ThreadAssumption DEF Types, ThreadTypes, Locks, LockTable, submitVars

(* A step that leaves g_submit_mutex.                                      *)
LEMMA SubmitLeft ==
  ASSUME Types, Locks, NEW t \in Thread, NEW to \in Labels,
         pc' = [pc EXCEPT ![t] = to],
         pc[t] \in HoldingSubmit, to \notin HoldingSubmit,
         pc[t] \in HoldingTable <=> to \in HoldingTable,
         UnlockSubmit, UNCHANGED tableOwner
  PROVE  Locks'
  BY ThreadAssumption DEF Types, ThreadTypes, Locks, UnlockSubmit

(* A step that leaves g_mutex.                                             *)
LEMMA TableLeft ==
  ASSUME Types, Locks, NEW t \in Thread, NEW to \in Labels,
         pc' = [pc EXCEPT ![t] = to],
         pc[t] \in HoldingSubmit <=> to \in HoldingSubmit,
         pc[t] \in HoldingTable, to \notin HoldingTable,
         UnlockTable, UNCHANGED submitVars
  PROVE  Locks'
  BY ThreadAssumption DEF Types, ThreadTypes, Locks, UnlockTable, submitVars

(* A step that leaves both locks.                                          *)
LEMMA BothLeft ==
  ASSUME Types, Locks, NEW t \in Thread, NEW to \in Labels,
         pc' = [pc EXCEPT ![t] = to],
         pc[t] \in HoldingSubmit, to \notin HoldingSubmit,
         pc[t] \in HoldingTable, to \notin HoldingTable,
         UnlockSubmit, UnlockTable
  PROVE  Locks'
  BY ThreadAssumption DEF Types, ThreadTypes, Locks, UnlockSubmit, UnlockTable

-----------------------------------------------------------------------------
(* A thread outside every call has a call of the right type.               *)
LEMMA NoCallTyped == NoCall \in Call
  BY DEF NoCall, Call, Null, Ops

(* The initial state has its types and no lock is held.                    *)
LEMMA TypesLocksInit == Init => Types /\ Locks
<1>. SUFFICES ASSUME Init PROVE Types /\ Locks
  OBVIOUS
<1>. USE DEF Init, CallsInit, ThreadInit, AllocationsInit, HostMemoryInit
<1>1. Types
  BY NoCallTyped DEF Types, ThreadTypes, AllocTypes, HostTypes, Empty, Labels
<1>2. Locks
  BY ThreadAssumption DEF Locks, HoldingSubmit, HoldingTable
<1>. QED
  BY <1>1, <1>2

(* Min, which the first-fit search of the device uses, is the least        *)
(* element of a set of numbers that has one.                               *)
LEMMA MinIsLeast ==
  ASSUME NEW S, S \subseteq Nat, S # {}
  PROVE  Min(S) \in S
<1>. DEFINE Below == OpToRel(<, Nat)
<1>1. PICK x \in S : \A y \in S : ~ (<<y, x>> \in Below)
  BY WFMin, NatLessThanWellFounded
<1>2. \A y \in S : y < x => <<y, x>> \in Below
  BY DEF OpToRel
<1>. HIDE DEF Below
<1>3. \A y \in S : ~ (y < x)
  BY <1>1, <1>2, Zenon
<1>4. \A y \in S : x <= y
  BY <1>3
<1>. QED
  BY <1>4 DEF Min

(* The device gives out an address of its memory at which nothing lives.   *)
LEMMA FittingFree ==
  ASSUME Types, NEW bytes \in Sizes, Fitting(bytes) # {}
  PROVE  Min(Fitting(bytes)) \in 1..Memory \ DOMAIN heap
<1>1. Min(Fitting(bytes)) \in Fitting(bytes)
  BY MinIsLeast, AllocationsAssumption DEF Fitting
<1>. QED
  BY <1>1, AllocationsAssumption DEF Fitting, Types, AllocTypes

(* The operands that a vector call has left to check are operands.         *)
LEMMA OperandsTyped ==
  ASSUME Types, NEW operands \in VectorOperands
  PROVE  operands \in Seq(Operand) /\ operands # <<>>
<1>1. Pointers \subseteq Nat /\ Counts \subseteq Nat
  BY AllocationsAssumption, CallsAssumption DEF Types, AllocTypes, Null, Pointers
<1>2. \A p \in Pointers, n \in Counts \cup {1} : On(p, n) \in Operand
  BY <1>1 DEF On, Operand
<1>3. \/ \E x, y \in Pointers, n \in Counts : operands = Axpy(x, y, n)
      \/ \E x, r \in Pointers, n \in Counts : operands = Nrm2(x, r, n)
      \/ \E x, y, r \in Pointers, n \in Counts : operands = Dot(x, y, r, n)
  BY DEF VectorOperands, Calls
<1>4. \A x, y \in Pointers, n \in Counts : Axpy(x, y, n) \in Seq(Operand) \ {<<>>}
  BY <1>2 DEF Axpy
<1>5. \A x, r \in Pointers, n \in Counts : Nrm2(x, r, n) \in Seq(Operand) \ {<<>>}
  BY <1>2 DEF Nrm2
<1>6. \A x, y, r \in Pointers, n \in Counts : Dot(x, y, r, n) \in Seq(Operand) \ {<<>>}
  BY <1>2 DEF Dot
<1>. QED
  BY <1>3, <1>4, <1>5, <1>6

-----------------------------------------------------------------------------
(* The thread part of the types, at a step that starts, continues or ends  *)
(* a call.                                                                 *)
LEMMA StartTypes ==
  ASSUME ThreadTypes, NEW t \in Thread, NEW to \in Labels, NEW locals \in Call,
         to = "check" => locals.unchecked # <<>>, to # "checking",
         pc' = [pc EXCEPT ![t] = to], call' = [call EXCEPT ![t] = locals],
         UNCHANGED lockVars
  PROVE  ThreadTypes'
  BY DEF ThreadTypes, lockVars

(* The locals of a call that has begun.                                    *)
LEMMA LocalsTyped ==
  ASSUME NEW op \in Ops, NEW ptr \in Nat, NEW bytes \in Nat, NEW operands \in Seq(Operand)
  PROVE  /\ [NoCall EXCEPT !.op = op, !.ptr = ptr, !.bytes = bytes] \in Call
         /\ [NoCall EXCEPT !.op = op, !.ptr = ptr] \in Call
         /\ [NoCall EXCEPT !.op = op, !.operands = operands, !.unchecked = operands] \in Call
         /\ [NoCall EXCEPT !.op = op, !.operands = operands, !.unchecked = operands].unchecked
               = operands
<1>1. [NoCall EXCEPT !.op = op, !.ptr = ptr, !.bytes = bytes] \in Call
  BY NoCallTyped DEF Call
<1>2. [NoCall EXCEPT !.op = op, !.ptr = ptr] \in Call
  BY NoCallTyped DEF Call
<1>3. [NoCall EXCEPT !.op = op, !.operands = operands, !.unchecked = operands] \in Call
  BY NoCallTyped DEF Call
<1>4. [NoCall EXCEPT !.op = op, !.operands = operands, !.unchecked = operands].unchecked = operands
  BY NoCallTyped DEF Call
<1>. QED
  BY <1>1, <1>2, <1>3, <1>4

(* The thread part of the types, at a step that changes only a program     *)
(* position.                                                               *)
LEMMA GotoTypes ==
  ASSUME ThreadTypes, NEW t \in Thread, NEW from, NEW to \in Labels, Goto(t, from, to),
         to = "checking" => from = "check", to # "check",
         UNCHANGED call,
         submitOwner' \in {submitOwner, t, NoThread}, tableOwner' \in {tableOwner, t, NoThread}
  PROVE  ThreadTypes'
  BY DEF ThreadTypes, Goto

(* The thread part of the types, at a step that ends a call.               *)
LEMMA ReturnTypes ==
  ASSUME ThreadTypes, NEW t \in Thread, NEW error, Return(t, error),
         submitOwner' \in {submitOwner, NoThread}, tableOwner' \in {tableOwner, NoThread}
  PROVE  ThreadTypes'
  BY NoCallTyped DEF ThreadTypes, Return, Labels

(* Every step keeps the thread part of the types.                          *)
LEMMA ThreadTypesNext ==
  ASSUME Types, Locks, NEW t \in Thread, AllocationCall(t) \/ HostCall(t)
  PROVE  ThreadTypes'
<1>. USE DEF Types, lockVars, submitVars
<1>. /\ Counts \subseteq Nat /\ Sizes \subseteq Nat /\ Pointers \subseteq Nat
     /\ Registered \subseteq Address \X Address /\ Copied \subseteq Address \X Address
     /\ Address \subseteq Nat /\ 0 \in Nat /\ <<>> \in Seq(Operand)
  BY AllocationsAssumption, HostMemoryAssumption, CallsAssumption
     DEF Address, Pointers, Null, AllocTypes
<1>. {"record", "free", "check", "enter"} \subseteq Labels
  BY DEF Labels
<1>1. CASE \E bytes \in Sizes : AllocFails(t, bytes)
  BY <1>1 DEF AllocFails, ThreadTypes
<1>2. ASSUME NEW bytes \in Sizes, AllocOnDevice(t, bytes) PROVE ThreadTypes'
  <2>1. Min(Fitting(bytes)) \in Nat /\ "alloc" \in Ops
    BY <1>2, FittingFree DEF AllocOnDevice, Ops
  <2>2. [NoCall EXCEPT !.op = "alloc", !.ptr = Min(Fitting(bytes)), !.bytes = bytes] \in Call
    BY <2>1, LocalsTyped
  <2>. QED
    BY <1>2, <2>2, StartTypes DEF AllocOnDevice
<1>3. ASSUME NEW p \in Pointers, Free(t, p) PROVE ThreadTypes'
  <2>1. [NoCall EXCEPT !.op = "free", !.ptr = p] \in Call
    BY LocalsTyped DEF Ops
  <2>. QED
    BY <1>3, <2>1, StartTypes DEF Free
<1>4. CASE \E operands \in VectorOperands : VectorRefused(t, operands)
  BY <1>4 DEF VectorRefused, ThreadTypes
<1>5. ASSUME NEW operands \in VectorOperands, Vector(t, operands) PROVE ThreadTypes'
  <2>. DEFINE locals == [NoCall EXCEPT !.op = "vector", !.operands = operands,
                                       !.unchecked = operands]
  <2>1. locals \in Call /\ locals.unchecked # <<>>
    BY OperandsTyped, LocalsTyped DEF Ops
  <2>. QED
    BY <1>5, <2>1, StartTypes DEF Vector
<1>6. CASE RecordLock(t) \/ CheckLock(t) \/ EraseLock(t) \/ EnterTable(t)
  BY <1>6, GotoTypes DEF RecordLock, CheckLock, EraseLock, EnterTable, LockTable, Labels
<1>7. CASE FreeLock(t) \/ SubmitLock(t) \/ EnterSubmit(t)
  BY <1>7, GotoTypes DEF FreeLock, SubmitLock, EnterSubmit, LockSubmit, Labels
<1>8. CASE FreeOnDevice(t)
  BY <1>8, GotoTypes DEF FreeOnDevice, Labels
<1>9. CASE Record(t) \/ CheckFails(t)
  BY <1>9, ReturnTypes DEF Record, CheckFails, UnlockTable
<1>10. CASE FreeFails(t) \/ DeviceVector(t) \/ CopyOnDevice(t)
  BY <1>10, ReturnTypes DEF FreeFails, DeviceVector, CopyOnDevice, UnlockSubmit
<1>11. CASE Erase(t) \/ RegisterBody(t) \/ UnregisterBody(t)
  BY <1>11, ReturnTypes DEF Erase, RegisterBody, UnregisterBody, Leave, UnlockSubmit, UnlockTable
<1>12. CASE CheckPasses(t)
  <2>. DEFINE rest == Tail(call[t].unchecked)
  <2>1. /\ call[t].unchecked \in Seq(Operand) /\ call[t].unchecked # <<>>
        /\ pc \in [Thread -> Labels] /\ call \in [Thread -> Call]
    BY <1>12 DEF CheckPasses, ThreadTypes, Call
  <2>2. rest \in Seq(Operand) /\ (Len(call[t].unchecked) # 1 => rest # <<>>)
    <3>1. rest \in Seq(Operand) /\ Len(rest) = Len(call[t].unchecked) - 1
      BY <2>1, HeadTailProperties
    <3>2. Len(call[t].unchecked) \in Nat /\ Len(call[t].unchecked) # 0
      BY <2>1, EmptySeq
    <3>. HIDE DEF rest
    <3>3. rest = <<>> => Len(rest) = 0
      BY EmptySeq
    <3>. QED
      BY <3>1, <3>2, <3>3
  <2>3. call' = [call EXCEPT ![t] = [call[t] EXCEPT !.unchecked = rest]]
    BY <1>12 DEF CheckPasses
  <2>. HIDE DEF rest
  <2>4. /\ call' \in [Thread -> Call] /\ call'[t].unchecked = rest
        /\ \A u \in Thread : u # t => call'[u] = call[u]
    BY <2>1, <2>2, <2>3 DEF Call
  <2>5. /\ pc' \in [Thread -> Labels] /\ \A u \in Thread : u # t => pc'[u] = pc[u]
        /\ pc'[t] = "check" => Len(call[t].unchecked) # 1
        /\ pc'[t] # "checking"
    BY <1>12, <2>1 DEF CheckPasses, Goto, Labels
  <2>6. /\ submitOwner' \in Thread \cup {NoThread} /\ tableOwner' \in Thread \cup {NoThread}
    BY <1>12 DEF CheckPasses, UnlockTable, ThreadTypes
  <2>7. \A u \in Thread : pc'[u] \in {"check", "checking"} => call'[u].unchecked # <<>>
    BY <2>2, <2>4, <2>5 DEF ThreadTypes
  <2>. QED
    BY <2>4, <2>5, <2>6, <2>7 DEF ThreadTypes
<1>13. CASE CopyFlags(t)
  BY <1>13 DEF CopyFlags, Goto, UnlockTable, ThreadTypes, Labels, Call, SpanRegistered
<1>14. ASSUME NEW invalid, Refuse(t, invalid) PROVE ThreadTypes'
  BY <1>14 DEF Refuse, ThreadTypes
<1>15. ASSUME NEW op \in {"register", "unregister", "copy"}, NEW base \in Nat, NEW n \in Nat,
              Enter(t, op, base, n)
       PROVE  ThreadTypes'
  <2>1. [NoCall EXCEPT !.op = op, !.ptr = base, !.bytes = n] \in Call
    BY LocalsTyped DEF Ops
  <2>. QED
    BY <1>15, <2>1, StartTypes DEF Enter
<1>16. ASSUME StartHostCall(t) PROVE ThreadTypes'
  <2>. \A span \in Registered \cup Copied : span[1] \in Nat /\ span[2] \in Nat
    OBVIOUS
  <2>1. ASSUME NEW span \in Registered, HostRegister(t, span[1], span[2]) PROVE ThreadTypes'
    BY <2>1, <1>14, <1>15 DEF HostRegister
  <2>2. ASSUME NEW span \in Registered, HostUnregister(t, span[1]) PROVE ThreadTypes'
    BY <2>2, <1>14, <1>15 DEF HostUnregister
  <2>3. ASSUME NEW span \in Copied, Copy(t, span[1], span[2]) PROVE ThreadTypes'
    BY <2>3, <1>14, <1>15 DEF Copy
  <2>. QED
    BY <1>16, <2>1, <2>2, <2>3 DEF StartHostCall
<1>. QED
  BY <1>1, <1>2, <1>3, <1>4, <1>5, <1>6, <1>7, <1>8, <1>9, <1>10, <1>11, <1>12, <1>13, <1>16
     DEF AllocationCall, HostCall, StartAllocation, ContinueAllocation, ContinueHostCall

(* Every step keeps both locks held exactly where the position says.       *)
LEMMA LocksNext ==
  ASSUME Types, Locks, NEW t \in Thread, AllocationCall(t) \/ HostCall(t)
  PROVE  Locks'
<1>. USE DEF lockVars, submitVars, Labels, HoldingSubmit, HoldingTable, Goto
<1>1. CASE \/ \E bytes \in Sizes : AllocFails(t, bytes)
           \/ \E operands \in VectorOperands : VectorRefused(t, operands)
  BY <1>1 DEF AllocFails, VectorRefused, Locks
<1>2. ASSUME \/ \E bytes \in Sizes : AllocOnDevice(t, bytes)
             \/ \E p \in Pointers : Free(t, p)
             \/ \E operands \in VectorOperands : Vector(t, operands)
      PROVE  Locks'
  BY <1>2, LocksKept DEF AllocOnDevice, Free, Vector, Begin
<1>3. ASSUME NEW op, NEW base, NEW n, Enter(t, op, base, n) PROVE Locks'
  BY <1>3, LocksKept DEF Enter, Begin
<1>4. CASE RecordLock(t) \/ CheckLock(t) \/ EraseLock(t) \/ EnterTable(t)
  BY <1>4, TableTaken DEF RecordLock, CheckLock, EraseLock, EnterTable
<1>5. CASE FreeLock(t) \/ SubmitLock(t) \/ EnterSubmit(t)
  BY <1>5, SubmitTaken DEF FreeLock, SubmitLock, EnterSubmit
<1>6. CASE FreeOnDevice(t)
  BY <1>6, LocksKept DEF FreeOnDevice
<1>7. CASE Record(t) \/ CheckFails(t) \/ CheckPasses(t) \/ CopyFlags(t)
  BY <1>7, TableLeft DEF Record, CheckFails, CheckPasses, CopyFlags, Return
<1>8. CASE FreeFails(t) \/ DeviceVector(t) \/ CopyOnDevice(t)
  BY <1>8, SubmitLeft DEF FreeFails, DeviceVector, CopyOnDevice, Return
<1>9. CASE Erase(t) \/ RegisterBody(t) \/ UnregisterBody(t)
  BY <1>9, BothLeft DEF Erase, RegisterBody, UnregisterBody, Leave, Return
<1>10. ASSUME NEW invalid, Refuse(t, invalid) PROVE Locks'
  BY <1>10 DEF Refuse, Locks
<1>11. CASE StartHostCall(t)
  BY <1>3, <1>10, <1>11 DEF StartHostCall, HostRegister, HostUnregister, Copy
<1>. QED
  BY <1>1, <1>2, <1>4, <1>5, <1>6, <1>7, <1>8, <1>9, <1>11
     DEF AllocationCall, HostCall, StartAllocation, ContinueAllocation, ContinueHostCall

-----------------------------------------------------------------------------
(* The two halves of the module keep out of each other's way: their calls  *)
(* have labels of their own.                                               *)
HostLabels == {"enter", "enter_table", "body", "transfer"}
Alone(t) == \A u \in Thread : u # t => pc'[u] = pc[u] /\ call'[u] = call[u]

(* A step of an allocation or vector call leaves the other threads alone,  *)
(* and goes to no label of the host calls.                                 *)
LEMMA AllocationFrame ==
  ASSUME Types, NEW t \in Thread, AllocationCall(t)
  PROVE  /\ Alone(t) /\ UNCHANGED gRegistrations
         /\ pc[t] \notin HostLabels /\ pc'[t] \notin HostLabels
<1>. USE DEF Types, ThreadTypes, Alone, HostLabels, Goto, Begin, Return
<1>. DEFINE Frame == Alone(t) /\ pc[t] \notin HostLabels /\ pc'[t] \notin HostLabels
<1>1. CASE \/ \E bytes \in Sizes : AllocFails(t, bytes) \/ AllocOnDevice(t, bytes)
           \/ \E p \in Pointers : Free(t, p)
           \/ \E operands \in VectorOperands : VectorRefused(t, operands) \/ Vector(t, operands)
  <2>1. Frame
    BY <1>1 DEF AllocFails, AllocOnDevice, Free, VectorRefused, Vector
  <2>. QED
    BY <2>1 DEF AllocationCall
<1>2. CASE RecordLock(t) \/ Record(t) \/ FreeLock(t) \/ FreeOnDevice(t) \/ FreeFails(t)
           \/ EraseLock(t) \/ Erase(t)
  <2>1. Frame
    BY <1>2 DEF RecordLock, Record, FreeLock, FreeOnDevice, FreeFails, EraseLock, Erase
  <2>. QED
    BY <2>1 DEF AllocationCall
<1>3. CASE CheckLock(t) \/ CheckPasses(t) \/ CheckFails(t) \/ SubmitLock(t) \/ DeviceVector(t)
  <2>1. Frame
    BY <1>3 DEF CheckLock, CheckPasses, CheckFails, SubmitLock, DeviceVector
  <2>. QED
    BY <2>1 DEF AllocationCall
<1>. QED
  BY <1>1, <1>2, <1>3 DEF AllocationCall, StartAllocation, ContinueAllocation

(* A step of a host call leaves the other threads alone, and goes to no    *)
(* label of the allocation calls.                                          *)
LEMMA HostFrame ==
  ASSUME Types, NEW t \in Thread, HostCall(t)
  PROVE  /\ Alone(t) /\ UNCHANGED allocVars
         /\ pc[t] \in HostLabels \cup {"idle"} /\ pc'[t] \in HostLabels \cup {"idle"}
<1>. USE DEF Types, ThreadTypes, Alone, HostLabels, Goto, Begin, Return
<1>. DEFINE Frame == /\ Alone(t) /\ pc[t] \in HostLabels \cup {"idle"}
                     /\ pc'[t] \in HostLabels \cup {"idle"}
<1>1. ASSUME NEW invalid, Refuse(t, invalid) PROVE Frame
  BY <1>1 DEF Refuse
<1>2. ASSUME NEW op, NEW base, NEW n, Enter(t, op, base, n) PROVE Frame
  BY <1>2 DEF Enter
<1>3. CASE StartHostCall(t)
  <2>1. Frame
    BY <1>1, <1>2, <1>3 DEF StartHostCall, HostRegister, HostUnregister, Copy
  <2>. QED
    BY <2>1 DEF HostCall
<1>4. CASE ContinueHostCall(t)
  <2>1. Frame
    BY <1>4 DEF ContinueHostCall, EnterSubmit, EnterTable, RegisterBody, UnregisterBody, Leave,
                CopyFlags, CopyOnDevice
  <2>. QED
    BY <2>1 DEF HostCall
<1>. QED
  BY <1>3, <1>4 DEF HostCall

-----------------------------------------------------------------------------
(* Registrations.  Spans is what the argument checks leave: the sum of a   *)
(* span that passes them does not wrap.                                    *)
Spans ==
  \A t \in Thread :
    pc[t] \in HostLabels =>
      /\ call[t].op \in {"register", "unregister", "copy"}
      /\ pc[t] = "transfer" => call[t].op = "copy"
      /\ call[t].op # "unregister" =>
           call[t].ptr > 0 /\ call[t].bytes > 0 /\ call[t].ptr + call[t].bytes < Word

(* A sum of words that fits a word is the sum.                             *)
LEMMA SumBelow ==
  ASSUME NEW a \in Nat, NEW b \in Nat, a + b < Word
  PROVE  Plus(a, b) = a + b
  BY CallsAssumption DEF Plus

(* A sum of words that does not fit wraps once.                            *)
LEMMA SumWraps ==
  ASSUME NEW a \in Address, NEW b \in Address, a + b >= Word
  PROVE  Plus(a, b) = a + b - Word
  BY CallsAssumption DEF Plus, Address

(* Every step keeps the spans of calls that passed their argument check    *)
(* within the address space.                                               *)
LEMMA SpansNext ==
  ASSUME Types, Spans, NEW t \in Thread, AllocationCall(t) \/ HostCall(t)
  PROVE  Spans'
<1>1. CASE AllocationCall(t)
  BY <1>1, AllocationFrame DEF Alone, Spans
<1>2. CASE HostCall(t)
  <2>. USE HostFrame DEF Types, ThreadTypes, Alone, Spans, HostLabels, Goto
  <2>1. ASSUME NEW invalid, Refuse(t, invalid) PROVE Spans'
    BY <2>1 DEF Refuse
  <2>2. ASSUME NEW op \in {"register", "unregister", "copy"}, NEW base \in Nat, NEW n \in Nat,
               op # "unregister" => base > 0 /\ n > 0 /\ base + n < Word,
               Enter(t, op, base, n)
        PROVE  Spans'
    <3>1. call'[t].op = op /\ call'[t].ptr = base /\ call'[t].bytes = n /\ pc'[t] = "enter"
      BY <2>2, LocalsTyped DEF Enter, NoCall
    <3>. QED
      BY <1>2, <2>2, <3>1
  <2>3. CASE StartHostCall(t)
    <3>. \A span \in Registered \cup Copied : span[1] \in Address /\ span[2] \in Address
      BY HostMemoryAssumption
    <3>. Address \subseteq Nat
      BY DEF Address
    <3>1. ASSUME NEW span \in Registered, HostRegister(t, span[1], span[2]) PROVE Spans'
      <4>1. CASE RegisterInvalid(span[1], span[2])
        BY <2>1, <3>1, <4>1 DEF HostRegister
      <4>2. CASE ~ RegisterInvalid(span[1], span[2])
        <5>1. span[1] > 0 /\ span[2] > 0 /\ span[1] + span[2] < Word
          BY <4>2, SumWraps, CallsAssumption DEF RegisterInvalid, Address
        <5>. QED
          BY <2>1, <2>2, <3>1, <5>1 DEF HostRegister
      <4>. QED
        BY <4>1, <4>2
    <3>2. ASSUME NEW span \in Registered, HostUnregister(t, span[1]) PROVE Spans'
      BY <2>1, <2>2, <3>2 DEF HostUnregister
    <3>3. ASSUME NEW span \in Copied, Copy(t, span[1], span[2]) PROVE Spans'
      <4>1. span[1] \in Nat /\ span[2] \in Nat /\ span[1] + span[2] < Word
        BY HostMemoryAssumption
      <4>2. CASE span[1] = 0 \/ span[2] = 0
        BY <2>1, <3>3, <4>2 DEF Copy
      <4>3. CASE span[1] # 0 /\ span[2] # 0
        <5>1. Enter(t, "copy", span[1], span[2])
          BY <3>3, <4>3 DEF Copy, Refuse
        <5>2. span[1] > 0 /\ span[2] > 0
          BY <4>1, <4>3
        <5>. QED
          BY <2>2, <4>1, <5>1, <5>2
      <4>. QED
        BY <4>2, <4>3
    <3>. QED
      BY <2>3, <3>1, <3>2, <3>3 DEF StartHostCall
  <2>4. CASE EnterSubmit(t) \/ EnterTable(t)
    BY <1>2, <2>4 DEF EnterSubmit, EnterTable
  <2>5. CASE RegisterBody(t) \/ UnregisterBody(t) \/ CopyOnDevice(t)
    BY <1>2, <2>5 DEF RegisterBody, UnregisterBody, CopyOnDevice, Leave, Return
  <2>6. CASE CopyFlags(t)
    <3>1. /\ pc[t] = "body" /\ call[t].op = "copy"
          /\ call'[t].op = call[t].op /\ call'[t].ptr = call[t].ptr
          /\ call'[t].bytes = call[t].bytes
      BY <2>6 DEF CopyFlags, Call
    <3>. QED
      BY <1>2, <2>6, <3>1
  <2>. QED
    BY <1>2, <2>3, <2>4, <2>5, <2>6 DEF HostCall, ContinueHostCall
<1>. QED
  BY <1>1, <1>2

(* Registered intervals and the spans of calls end within the address      *)
(* space, so that sums compare as the numbers they stand for.              *)
LEMMA CoveredSpans ==
  ASSUME NEW a \in Nat, NEW m \in Nat, NEW b \in Nat, NEW n \in Nat, m > 0
  PROVE  Bytes(a, m) \subseteq Bytes(b, n) <=> b <= a /\ a + m <= b + n
<1>1. ASSUME Bytes(a, m) \subseteq Bytes(b, n) PROVE b <= a /\ a + m <= b + n
  <2>1. a \in Bytes(a, m) /\ a + m - 1 \in Bytes(a, m)
    BY DEF Bytes
  <2>2. a \in Bytes(b, n) /\ a + m - 1 \in Bytes(b, n)
    BY <1>1, <2>1
  <2>. QED
    BY <2>2 DEF Bytes
<1>2. ASSUME b <= a, a + m <= b + n PROVE Bytes(a, m) \subseteq Bytes(b, n)
  BY <1>2 DEF Bytes
<1>. QED
  BY <1>1, <1>2

(* Every step keeps registered intervals disjoint and flags exact: both    *)
(* locks are held from the check of overlaps to the insertion, and         *)
(* g_submit_mutex from the flags to the transfer.                          *)
LEMMA RegistrationsNext ==
  ASSUME Types, Locks, Spans, RegistrationsSound, NEW t \in Thread, AllocationCall(t) \/ HostCall(t)
  PROVE  RegistrationsSound'
<1>. USE DEF Types, ThreadTypes, HostTypes, RegistrationsSound
<1>. /\ Word \in Nat /\ Address \subseteq Nat
     /\ \A i \in gRegistrations : i.base \in Nat /\ i.bytes \in Nat
     /\ \A i \in gRegistrations : Plus(i.base, i.bytes) = i.base + i.bytes
     /\ \A u \in Thread : call[u].ptr \in Nat /\ call[u].bytes \in Nat
  BY CallsAssumption, SumBelow DEF Address, RegistrationsDisjoint, Call
(* A step that leaves the registry alone and reaches no transfer.          *)
<1>1. ASSUME UNCHANGED gRegistrations, Alone(t), pc'[t] # "transfer" PROVE RegistrationsSound'
  BY <1>1 DEF Alone, RegistrationsDisjoint, FlagsMatchRegistrations
(* A step in the body of a registration: no copy is being transferred,     *)
(* since it would hold the same lock.                                      *)
<1>2. ASSUME Alone(t), pc[t] = "body", pc'[t] = "idle" PROVE FlagsMatchRegistrations'
  BY <1>2 DEF Alone, Locks, HoldingSubmit, FlagsMatchRegistrations
<1>3. CASE AllocationCall(t)
  BY <1>1, <1>3, AllocationFrame DEF HostLabels
<1>4. CASE HostCall(t) /\ ContinueHostCall(t)
  <2>. Alone(t)
    BY <1>4, HostFrame
  <2>1. CASE EnterSubmit(t) \/ EnterTable(t)
    BY <1>1, <2>1 DEF EnterSubmit, EnterTable, Goto
  <2>2. CASE RegisterBody(t)
    <3>. DEFINE base == call[t].ptr
                bytes == call[t].bytes
    <3>1. FlagsMatchRegistrations'
      BY <1>2, <2>2 DEF RegisterBody, Leave, Return
    <3>2. base \in Nat /\ bytes \in Nat /\ bytes > 0 /\ base + bytes < Word
      BY <2>2 DEF Spans, HostLabels, RegisterBody, Leave
    <3>3. CASE \E i \in gRegistrations : Overlaps(base, bytes, i)
      BY <2>2, <3>1, <3>3 DEF RegisterBody, RegistrationsDisjoint
    <3>4. CASE ~ \E i \in gRegistrations : Overlaps(base, bytes, i)
      <4>1. gRegistrations' = gRegistrations \cup {[base |-> base, bytes |-> bytes]}
        BY <2>2, <3>4 DEF RegisterBody
      <4>2. \A i \in gRegistrations : i.base + i.bytes <= base \/ base + bytes <= i.base
        BY <3>2, <3>4, SumBelow DEF Overlaps
      <4>3. \A i \in gRegistrations : Bytes(i.base, i.bytes) \cap Bytes(base, bytes) = {}
        BY <3>2, <4>2 DEF Bytes
      <4>. DEFINE new == [base |-> base, bytes |-> bytes]
      <4>4. new.base = base /\ new.bytes = bytes
        OBVIOUS
      <4>. HIDE DEF base, bytes, new
      <4>5. \A i \in gRegistrations' : i.bytes > 0 /\ i.base + i.bytes <= Word - 1
        BY <3>2, <4>1, <4>4 DEF RegistrationsDisjoint, new
      <4>6. \A i, j \in gRegistrations' :
              i # j => Bytes(i.base, i.bytes) \cap Bytes(j.base, j.bytes) = {}
        <5>1. gRegistrations' = gRegistrations \cup {new}
          BY <4>1 DEF new
        <5>2. \A i, j \in gRegistrations :
                i # j => Bytes(i.base, i.bytes) \cap Bytes(j.base, j.bytes) = {}
          BY DEF RegistrationsDisjoint
        <5>3. \A i \in gRegistrations : Bytes(i.base, i.bytes) \cap Bytes(new.base, new.bytes) = {}
          BY <4>3, <4>4
        <5>. QED
          BY <5>1, <5>2, <5>3
      <4>7. RegistrationsDisjoint'
        BY <4>5, <4>6 DEF RegistrationsDisjoint
      <4>. QED
        BY <3>1, <4>7
    <3>. QED
      BY <3>3, <3>4
  <2>3. CASE UnregisterBody(t)
    <3>1. FlagsMatchRegistrations'
      BY <1>2, <2>3 DEF UnregisterBody, Leave, Return
    <3>2. gRegistrations' \subseteq gRegistrations
      BY <2>3 DEF UnregisterBody
    <3>. QED
      BY <3>1, <3>2 DEF RegistrationsDisjoint
  <2>4. CASE CopyFlags(t)
    <3>1. /\ pc[t] = "body" /\ gRegistrations' = gRegistrations
          /\ call'[t].ptr = call[t].ptr /\ call'[t].bytes = call[t].bytes
          /\ call'[t].zeroCopy = SpanRegistered(call[t].ptr, call[t].bytes)
      BY <2>4 DEF CopyFlags, Goto, Call
    <3>2. call[t].bytes > 0 /\ call[t].ptr + call[t].bytes < Word
      BY <2>4, <3>1 DEF Spans, HostLabels, CopyFlags
    <3>3. SpanRegistered(call[t].ptr, call[t].bytes) <=>
            \E i \in gRegistrations :
              i.base <= call[t].ptr /\ call[t].ptr + call[t].bytes <= i.base + i.bytes
      BY <3>2, SumBelow DEF SpanRegistered
    <3>4. SpanRegistered(call[t].ptr, call[t].bytes) <=>
            \E i \in gRegistrations :
              Bytes(call[t].ptr, call[t].bytes) \subseteq Bytes(i.base, i.bytes)
      BY <3>2, <3>3, CoveredSpans
    <3>. QED
      BY <3>1, <3>4 DEF Alone, RegistrationsDisjoint, FlagsMatchRegistrations
  <2>5. CASE CopyOnDevice(t)
    BY <1>1, <2>5 DEF CopyOnDevice, Return
  <2>. QED
    BY <1>4, <2>1, <2>2, <2>3, <2>4, <2>5 DEF ContinueHostCall
<1>5. CASE StartHostCall(t) /\ HostCall(t)
  <2>. Alone(t)
    BY <1>5, HostFrame
  <2>1. gRegistrations' = gRegistrations /\ pc'[t] # "transfer"
    BY <1>5 DEF StartHostCall, HostRegister, HostUnregister, Copy, Refuse, Enter, Begin
  <2>. QED
    BY <1>1, <2>1
<1>. QED
  BY <1>3, <1>4, <1>5 DEF HostCall

-----------------------------------------------------------------------------
(* Allocations.  A thread that has a block from the device and not yet     *)
(* recorded it, or has taken one back from a client and not yet freed it,  *)
(* is the only one to have it.                                             *)
Recording(t) == pc[t] \in {"record", "recording"}
Freeing(t) == pc[t] \in {"free", "freeing"} /\ call[t].ptr # Null
Claims(t) == Recording(t) \/ Freeing(t)

ClaimsSound ==
  /\ \A t \in Thread :
       Claims(t) => call[t].ptr \in DOMAIN heap /\ call[t].ptr \notin owned
  /\ \A t \in Thread : Recording(t) => heap[call[t].ptr] = call[t].bytes
  /\ \A t \in Thread :
       Freeing(t) /\ call[t].ptr \in DOMAIN gAllocations =>
         gAllocations[call[t].ptr] = heap[call[t].ptr]
  /\ \A t, u \in Thread : Claims(t) /\ Claims(u) /\ t # u => call[t].ptr # call[u].ptr

Accounting == AllocTypes /\ ClaimsSound /\ EntriesAccounted

AllocLabels == {"record", "recording", "free", "freeing", "erase", "erasing"}

(* Steps that change neither the allocator nor the table nor who owns      *)
(* what, and that end or avoid the calls that are about to.                *)
LEMMA AccountingKept ==
  ASSUME Accounting, NEW t \in Thread, Alone(t), UNCHANGED allocVars,
         pc'[t] \notin AllocLabels, pc[t] \notin {"erase", "erasing"}
  PROVE  Accounting'
<1>. USE DEF Accounting, allocVars, Alone, AllocLabels
<1>1. AllocTypes'
  BY DEF AllocTypes
<1>2. ClaimsSound'
  BY DEF ClaimsSound, Claims, Recording, Freeing
<1>3. \A p : Erasing(p) => Erasing(p)'
  BY DEF Erasing
<1>4. EntriesAccounted'
  BY <1>3 DEF EntriesAccounted
<1>. QED
  BY <1>1, <1>2, <1>4

(* Every step keeps the accounting of blocks.                              *)
LEMMA AccountingNext ==
  ASSUME Types, Locks, Accounting, NEW t \in Thread, AllocationCall(t) \/ HostCall(t)
  PROVE  Accounting'
<1>1. CASE HostCall(t)
  BY <1>1, HostFrame, AccountingKept DEF HostLabels, AllocLabels
<1>2. CASE AllocationCall(t)
  <2>. /\ Alone(t) /\ pc \in [Thread -> Labels] /\ call \in [Thread -> Call]
       /\ AllocTypes /\ ClaimsSound /\ EntriesAccounted
    BY <1>2, AllocationFrame DEF Types, ThreadTypes, Accounting
  <2>1. ASSUME NEW bytes \in Sizes, AllocOnDevice(t, bytes) PROVE Accounting'
    <3>. DEFINE p == Min(Fitting(bytes))
    <3>1. p \in 1..Memory \ DOMAIN heap /\ bytes \in 1..Memory
      BY <2>1, FittingFree, AllocationsAssumption DEF AllocOnDevice
    <3>2. /\ DOMAIN heap' = DOMAIN heap \cup {p} /\ heap'[p] = bytes
          /\ \A q \in DOMAIN heap : heap'[q] = heap[q]
          /\ UNCHANGED <<gAllocations, owned>>
      BY <2>1, <3>1 DEF AllocOnDevice, Put
    <3>3. /\ pc[t] = "idle" /\ pc'[t] = "record"
          /\ call'[t].ptr = p /\ call'[t].bytes = bytes
      BY <2>1, NoCallTyped DEF AllocOnDevice, Begin, Call
    <3>. HIDE DEF p
    <3>4. AllocTypes'
      BY <3>1, <3>2 DEF AllocTypes
    <3>5. ClaimsSound'
      <4>1. owned \subseteq DOMAIN heap
        BY DEF EntriesAccounted
      <4>. QED
        BY <3>1, <3>2, <3>3, <4>1 DEF ClaimsSound, Claims, Recording, Freeing, Alone
    <3>6. \A q : Erasing(q) => Erasing(q)'
      BY <3>3 DEF Erasing, Alone
    <3>7. EntriesAccounted'
      BY <3>1, <3>2, <3>6 DEF EntriesAccounted
    <3>. QED
      BY <3>4, <3>5, <3>7 DEF Accounting
  <2>2. ASSUME NEW p \in Pointers, Free(t, p) PROVE Accounting'
    <3>1. /\ UNCHANGED <<heap, gAllocations>> /\ owned' = owned \ {p}
          /\ pc[t] = "idle" /\ pc'[t] = "free" /\ call'[t].ptr = p
      BY <2>2, NoCallTyped DEF Free, Begin, Call
    <3>2. p # Null => p \in owned
      BY DEF Pointers
    <3>3. AllocTypes'
      BY <3>1 DEF AllocTypes
    <3>4. ClaimsSound'
      BY <3>1, <3>2 DEF ClaimsSound, Claims, Recording, Freeing, Alone, EntriesAccounted
    <3>5. \A q : Erasing(q) => Erasing(q)'
      BY <3>1 DEF Erasing, Alone
    <3>6. EntriesAccounted'
      BY <3>1, <3>5 DEF EntriesAccounted
    <3>. QED
      BY <3>3, <3>4, <3>6 DEF Accounting
  <2>3. CASE Record(t)
    <3>. DEFINE p == call[t].ptr
    <3>1. /\ pc[t] = "recording" /\ pc'[t] = "idle" /\ heap' = heap
          /\ owned' = owned \cup {p} /\ DOMAIN gAllocations' = DOMAIN gAllocations \cup {p}
          /\ gAllocations'[p] = call[t].bytes
          /\ \A q \in DOMAIN gAllocations : q # p => gAllocations'[q] = gAllocations[q]
      BY <2>3 DEF Record, Return, Put
    <3>2. p \in DOMAIN heap /\ p \notin owned /\ heap[p] = call[t].bytes
      BY <3>1 DEF ClaimsSound, Claims, Recording
    <3>3. \A u \in Thread : Claims(u) /\ u # t => call[u].ptr # p
      BY <3>1 DEF ClaimsSound, Claims, Recording
    <3>. HIDE DEF p
    <3>4. AllocTypes'
      BY <3>1, <3>2 DEF AllocTypes
    <3>5. ClaimsSound'
      BY <3>1, <3>2, <3>3 DEF ClaimsSound, Claims, Recording, Freeing, Alone
    <3>6. \A q : Erasing(q) => Erasing(q)'
      BY <3>1 DEF Erasing, Alone
    <3>7. EntriesAccounted'
      BY <3>1, <3>2, <3>6 DEF EntriesAccounted
    <3>. QED
      BY <3>4, <3>5, <3>7 DEF Accounting
  <2>4. CASE FreeOnDevice(t)
    <3>. DEFINE p == call[t].ptr
    <3>1. /\ pc[t] = "freeing" /\ pc'[t] = "erase" /\ p \in DOMAIN heap
          /\ call' = call /\ UNCHANGED <<gAllocations, owned>>
          /\ DOMAIN heap' = DOMAIN heap \ {p}
          /\ \A q \in DOMAIN heap' : heap'[q] = heap[q]
      BY <2>4 DEF FreeOnDevice, Goto, Drop
    <3>2. p # Null
      BY <3>1 DEF AllocTypes, Null
    <3>3. p \notin owned /\ \A u \in Thread : Claims(u) /\ u # t => call[u].ptr # p
      BY <3>1, <3>2 DEF ClaimsSound, Claims, Freeing
    <3>4. AllocTypes'
      BY <3>1 DEF AllocTypes
    <3>5. ClaimsSound'
      BY <3>1, <3>3 DEF ClaimsSound, Claims, Recording, Freeing, Alone
    <3>6. /\ \A q : Erasing(q) => Erasing(q)'
          /\ Erasing(p)'
      BY <3>1 DEF Erasing, Alone
    <3>7. EntriesAccounted'
      BY <3>1, <3>3, <3>6 DEF EntriesAccounted
    <3>. QED
      BY <3>4, <3>5, <3>7 DEF Accounting
  <2>5. CASE Erase(t)
    <3>. DEFINE p == call[t].ptr
    <3>1. /\ pc[t] = "erasing" /\ pc'[t] = "idle" /\ UNCHANGED <<heap, owned>>
          /\ DOMAIN gAllocations' = DOMAIN gAllocations \ {p}
          /\ \A q \in DOMAIN gAllocations' : gAllocations'[q] = gAllocations[q]
      BY <2>5 DEF Erase, Return, Drop
    <3>2. AllocTypes'
      BY <3>1 DEF AllocTypes
    <3>3. ClaimsSound'
      BY <3>1 DEF ClaimsSound, Claims, Recording, Freeing, Alone
    <3>4. \A q : q # p /\ Erasing(q) => Erasing(q)'
      BY <3>1 DEF Erasing, Alone
    <3>5. EntriesAccounted'
      BY <3>1, <3>4 DEF EntriesAccounted
    <3>. QED
      BY <3>2, <3>3, <3>5 DEF Accounting
  <2>6. CASE RecordLock(t) \/ FreeLock(t) \/ EraseLock(t)
    <3>1. /\ call' = call /\ UNCHANGED <<heap, gAllocations, owned>>
          /\ <<pc[t], pc'[t]>> \in {<<"record", "recording">>, <<"free", "freeing">>,
                                    <<"erase", "erasing">>}
      BY <2>6 DEF RecordLock, FreeLock, EraseLock, Goto, allocVars
    <3>2. AllocTypes'
      BY <3>1 DEF AllocTypes
    <3>3. ClaimsSound'
      BY <3>1 DEF ClaimsSound, Claims, Recording, Freeing, Alone
    <3>4. \A q : Erasing(q) => Erasing(q)'
      BY <3>1 DEF Erasing, Alone
    <3>5. EntriesAccounted'
      BY <3>1, <3>4 DEF EntriesAccounted
    <3>. QED
      BY <3>2, <3>3, <3>5 DEF Accounting
  <2>7. CASE \/ \E bytes \in Sizes : AllocFails(t, bytes)
             \/ \E operands \in VectorOperands : VectorRefused(t, operands) \/ Vector(t, operands)
    <3>1. UNCHANGED allocVars /\ pc[t] = "idle" /\ pc'[t] \in {"idle", "check"}
      BY <2>7 DEF AllocFails, VectorRefused, Vector, Begin
    <3>. QED
      BY <3>1, AccountingKept DEF AllocLabels
  <2>8. CASE FreeFails(t) \/ CheckLock(t) \/ CheckPasses(t) \/ CheckFails(t) \/ SubmitLock(t)
             \/ DeviceVector(t)
    <3>1. /\ UNCHANGED allocVars /\ pc[t] \notin {"erase", "erasing"}
          /\ pc'[t] \in {"idle", "check", "checking", "submit", "device"}
      BY <2>8 DEF FreeFails, CheckLock, CheckPasses, CheckFails, SubmitLock, DeviceVector, Goto,
                  Return, allocVars
    <3>. QED
      BY <3>1, AccountingKept DEF AllocLabels
  <2>. QED
    BY <1>2, <2>1, <2>2, <2>3, <2>4, <2>5, <2>6, <2>7, <2>8
       DEF AllocationCall, StartAllocation, ContinueAllocation
<1>. QED
  BY <1>1, <1>2

-----------------------------------------------------------------------------
(* Vector operands.  While a vector call runs, its pointers stay with the  *)
(* clients; no product of a count wraps; and what has been checked against *)
(* the table still fits.                                                   *)
VectorLabels == {"check", "checking", "submit", "device"}

OperandOK(operand) == operand.ptr \in Pointers /\ operand.count * ElemBytes < Word

CheckedBefore(t) == 1 .. (Len(call[t].operands) - Len(call[t].unchecked))

VectorOK(t) ==
  /\ \A i \in DOMAIN call[t].operands : OperandOK(call[t].operands[i])
  /\ Len(call[t].unchecked) <= Len(call[t].operands)
  /\ \A i \in 1 .. Len(call[t].unchecked) :
       call[t].unchecked[i]
         = call[t].operands[Len(call[t].operands) - Len(call[t].unchecked) + i]
  /\ \A i \in CheckedBefore(t) : AllocationFits(call[t].operands[i])
  /\ pc[t] \in {"submit", "device"} => call[t].unchecked = <<>>

VectorsOK == \A t \in Thread : pc[t] \in VectorLabels => VectorOK(t)

(* What is at most a quotient is at most the dividend once multiplied.     *)
LEMMA QuotientBound ==
  ASSUME NEW n \in Nat, NEW d \in Nat \ {0}, NEW c \in Nat, c <= n \div d
  PROVE  c * d <= n
<1>. DEFINE q == n \div d
<1>1. q \in Nat /\ q * d <= n /\ c <= q
  OBVIOUS
<1>. HIDE DEF q
<1>2. (q - c) * d >= 0
  BY <1>1
<1>3. (q - c) * d = q * d - c * d
  BY <1>1
<1>4. q * d \in Nat /\ c * d \in Nat
  BY <1>1
<1>. QED
  BY <1>1, <1>2, <1>3, <1>4

(* A count that passes the argument check has a product that fits a word,  *)
(* and so has a single element.                                            *)
LEMMA CountsFit ==
  ASSUME NEW count \in Nat, CountValid(count)
  PROVE  count * ElemBytes < Word /\ 1 * ElemBytes < Word
<1>1. count * ElemBytes <= Word - 1
  BY QuotientBound, AllocationsAssumption, CallsAssumption DEF CountValid
<1>2. ElemBytes <= count * ElemBytes
  BY AllocationsAssumption DEF CountValid
<1>. QED
  BY <1>1, <1>2, AllocationsAssumption, CallsAssumption

(* The bytes of such a count are not reduced by the wrap.                  *)
LEMMA ProductKept ==
  ASSUME NEW count \in Nat, count * ElemBytes < Word
  PROVE  BytesNeeded(count) = count * ElemBytes
<1>. DEFINE product == count * ElemBytes
<1>1. product \in Nat /\ Word \in Nat \ {0} /\ product < Word
  BY AllocationsAssumption, CallsAssumption
<1>. HIDE DEF product
<1>2. product % Word = product
  BY <1>1
<1>. QED
  BY <1>2 DEF BytesNeeded, product

(* What a step does to the entries of the pointers that clients hold: none *)
(* appears or changes its size.                                            *)
LEMMA HeldEntries ==
  ASSUME Types, Accounting, NEW t \in Thread, AllocationCall(t) \/ HostCall(t)
  PROVE  \A q \in Pointers :
           q \in DOMAIN gAllocations' =>
             q \in DOMAIN gAllocations /\ gAllocations'[q] = gAllocations[q]
<1>. DEFINE Held == \A q \in Pointers :
                      q \in DOMAIN gAllocations' =>
                        q \in DOMAIN gAllocations /\ gAllocations'[q] = gAllocations[q]
<1>1. CASE Record(t)
  <2>1. call[t].ptr \in DOMAIN heap /\ call[t].ptr \notin owned
    BY <1>1 DEF Record, Accounting, ClaimsSound, Claims, Recording
  <2>2. call[t].ptr \notin Pointers
    BY <2>1 DEF Accounting, AllocTypes, Pointers, Null
  <2>. QED
    BY <1>1, <2>2 DEF Record, Put
<1>2. CASE Erase(t)
  BY <1>2 DEF Erase, Drop
<1>3. CASE UNCHANGED gAllocations
  BY <1>3
<1>4. HostCall(t) => UNCHANGED gAllocations
  BY DEF HostCall, allocVars
<1>5. AllocationCall(t) => Record(t) \/ Erase(t) \/ UNCHANGED gAllocations
  BY DEF AllocationCall, StartAllocation, ContinueAllocation, AllocFails, AllocOnDevice, Free,
         VectorRefused, Vector, RecordLock, FreeLock, FreeOnDevice, FreeFails, EraseLock, CheckLock,
         CheckPasses, CheckFails, SubmitLock, DeviceVector, allocVars
<1>. QED
  BY <1>1, <1>2, <1>3, <1>4, <1>5

(* What a client has handed to a vector call it does not free meanwhile.   *)
LEMMA HeldPointers ==
  ASSUME Types, NEW t \in Thread, AllocationCall(t) \/ HostCall(t),
         NEW u \in Thread, NEW i \in DOMAIN call[u].operands,
         call[u].operands[i].ptr \in Pointers
  PROVE  call[u].operands[i].ptr \in Pointers'
<1>. DEFINE q == call[u].operands[i].ptr
<1>1. ASSUME NEW p \in Pointers, Free(t, p) PROVE q \in Pointers'
  <2>1. q # p
    BY <1>1 DEF Free, InUse
  <2>. QED
    BY <1>1, <2>1 DEF Free, Pointers
<1>2. CASE owned \subseteq owned'
  BY <1>2 DEF Pointers
<1>3. HostCall(t) => owned' = owned
  BY DEF HostCall, allocVars
<1>4. AllocationCall(t) => (\E p \in Pointers : Free(t, p)) \/ owned \subseteq owned'
  BY DEF AllocationCall, StartAllocation, ContinueAllocation, AllocFails, AllocOnDevice, Record,
         VectorRefused, Vector, RecordLock, FreeLock, FreeOnDevice, FreeFails, EraseLock, Erase,
         CheckLock, CheckPasses, CheckFails, SubmitLock, DeviceVector, allocVars
<1>. QED
  BY <1>1, <1>2, <1>3, <1>4

(* A thread whose own call a step leaves alone keeps what it has checked.  *)
LEMMA VectorKept ==
  ASSUME Types, Accounting, NEW t \in Thread, AllocationCall(t) \/ HostCall(t),
         NEW u \in Thread, VectorOK(u), call'[u] = call[u],
         pc'[u] \in {"submit", "device"} => pc[u] \in {"submit", "device"}
  PROVE  VectorOK(u)'
<1>. DEFINE operands == call[u].operands
            unchecked == call[u].unchecked
<1>1. operands \in Seq(Operand) /\ unchecked \in Seq(Operand)
  BY DEF Types, ThreadTypes, Call
<1>2. \A i \in DOMAIN operands : OperandOK(operands[i])'
  BY HeldPointers DEF VectorOK, OperandOK
<1>3. \A i \in CheckedBefore(u) : AllocationFits(operands[i])'
  <2>. SUFFICES ASSUME NEW i \in CheckedBefore(u) PROVE AllocationFits(operands[i])'
    OBVIOUS
  <2>1. i \in DOMAIN operands
    BY <1>1 DEF CheckedBefore
  <2>2. operands[i].ptr \in Pointers /\ AllocationFits(operands[i])
    BY <2>1 DEF VectorOK, OperandOK
  <2>. QED
    BY <2>2, HeldEntries DEF AllocationFits
<1>. QED
  BY <1>1, <1>2, <1>3 DEF VectorOK, CheckedBefore

(* No vector call is under way at first.                                   *)
LEMMA VectorsInit == Init => VectorsOK
  BY DEF Init, CallsInit, VectorsOK, VectorLabels

(* The operands of a call that begins have passed the check of its count.  *)
LEMMA VectorBegins ==
  ASSUME Types, NEW t \in Thread, NEW operands \in VectorOperands, Vector(t, operands)
  PROVE  VectorOK(t)'
<1>1. operands \in Seq(Operand) /\ operands # <<>>
  BY OperandsTyped
<1>2. call'[t].operands = operands /\ call'[t].unchecked = operands /\ pc'[t] = "check"
  BY <1>1, NoCallTyped DEF Vector, Types, ThreadTypes, Call
<1>3. owned' = owned /\ CountValid(operands[1].count)
  BY DEF Vector, allocVars
<1>4. Counts \subseteq Nat
  BY AllocationsAssumption, CallsAssumption
<1>5. \A i \in DOMAIN operands : /\ operands[i].ptr \in Pointers
                                /\ operands[i].count \in {operands[1].count, 1}
                                /\ operands[1].count \in Nat
  <2>1. \/ \E x, y \in Pointers, n \in Counts : operands = Axpy(x, y, n)
        \/ \E x, r \in Pointers, n \in Counts : operands = Nrm2(x, r, n)
        \/ \E x, y, r \in Pointers, n \in Counts : operands = Dot(x, y, r, n)
    BY DEF VectorOperands, Calls
  <2>. QED
    BY <1>4, <2>1 DEF Axpy, Nrm2, Dot, On
<1>6. \A i \in DOMAIN operands : OperandOK(operands[i])'
  BY <1>3, <1>5, CountsFit DEF OperandOK, Pointers
<1>7. Len(operands) \in Nat
  BY <1>1
<1>. QED
  BY <1>2, <1>6, <1>7 DEF VectorOK, CheckedBefore

(* One more operand has been compared with the table.                      *)
LEMMA VectorAdvances ==
  ASSUME Types, NEW t \in Thread, VectorOK(t), CheckPasses(t)
  PROVE  VectorOK(t)'
<1>1. PICK operands, unchecked : operands = call[t].operands /\ unchecked = call[t].unchecked
  OBVIOUS
<1>2. operands \in Seq(Operand) /\ unchecked \in Seq(Operand) /\ unchecked # <<>>
  BY <1>1 DEF Types, ThreadTypes, Call, CheckPasses
<1>3. PICK rest : rest = Tail(unchecked)
  OBVIOUS
<1>4. /\ rest \in Seq(Operand) /\ Len(rest) = Len(unchecked) - 1
      /\ \A i \in 1 .. Len(rest) : rest[i] = unchecked[i + 1]
  BY <1>2, <1>3, HeadTailProperties
<1>5. PICK all, left : /\ all = Len(operands) /\ left = Len(unchecked)
                      /\ all \in Nat /\ left \in Nat \ {0}
  BY <1>2, EmptySeq
<1>6. /\ left <= all
      /\ \A i \in 1 .. left : unchecked[i] = operands[all - left + i]
      /\ \A i \in 1 .. (all - left) : AllocationFits(operands[i])
      /\ \A i \in DOMAIN operands : OperandOK(operands[i])
  BY <1>1, <1>5 DEF VectorOK, CheckedBefore
<1>7. /\ call'[t].operands = operands /\ call'[t].unchecked = rest
      /\ pc'[t] = "submit" => left = 1
      /\ pc'[t] # "device"
      /\ AllocationFits(unchecked[1]) /\ UNCHANGED <<gAllocations, owned>>
  BY <1>1, <1>3, <1>5 DEF CheckPasses, Goto, Types, ThreadTypes, Call, allocVars
<1>8. Len(rest) = left - 1
  BY <1>4, <1>5
<1>9. \A i \in DOMAIN operands : OperandOK(operands[i])'
  BY <1>6, <1>7 DEF OperandOK, Pointers
<1>10. \A i \in 1 .. (all - (left - 1)) : AllocationFits(operands[i])'
  <2>1. unchecked[1] = operands[all - left + 1]
    BY <1>5, <1>6
  <2>2. \A i \in 1 .. (all - (left - 1)) : AllocationFits(operands[i])
    BY <1>5, <1>6, <1>7, <2>1
  <2>. QED
    BY <1>7, <2>2 DEF AllocationFits
<1>11. \A i \in 1 .. (left - 1) : rest[i] = operands[all - (left - 1) + i]
  <2>. SUFFICES ASSUME NEW i \in 1 .. (left - 1)
                PROVE  rest[i] = operands[all - (left - 1) + i]
    OBVIOUS
  <2>1. i + 1 \in 1 .. left /\ all - left + (i + 1) = all - (left - 1) + i
    BY <1>5
  <2>2. unchecked[i + 1] = operands[all - left + (i + 1)]
    BY <1>6, <2>1
  <2>. QED
    BY <1>4, <1>8, <2>1, <2>2
<1>12. pc'[t] = "submit" => rest = <<>>
  BY <1>4, <1>7, <1>8, EmptySeq
<1>13. left - 1 <= all
  BY <1>5, <1>6
<1>. QED
  BY <1>5, <1>7, <1>8, <1>9, <1>10, <1>11, <1>12, <1>13 DEF VectorOK, CheckedBefore

(* Every step keeps what vector calls have checked true.                   *)
LEMMA VectorsNext ==
  ASSUME Types, Accounting, VectorsOK, NEW t \in Thread, AllocationCall(t) \/ HostCall(t)
  PROVE  VectorsOK'
<1>. SUFFICES ASSUME NEW u \in Thread, pc'[u] \in VectorLabels
              PROVE  VectorOK(u)'
  BY DEF VectorsOK
<1>1. Alone(t)
  BY AllocationFrame, HostFrame
<1>2. CASE u # t
  BY <1>1, <1>2, VectorKept DEF Alone, VectorsOK
<1>3. CASE u = t
  <2>1. CASE \E operands \in VectorOperands : Vector(t, operands)
    BY <1>3, <2>1, VectorBegins
  <2>2. CASE CheckLock(t) \/ SubmitLock(t)
    <3>1. /\ call'[t] = call[t] /\ pc[t] \in VectorLabels
          /\ pc'[t] \in {"submit", "device"} => pc[t] \in {"submit", "device"}
      BY <2>2 DEF CheckLock, SubmitLock, Goto, Types, ThreadTypes, VectorLabels
    <3>. QED
      BY <1>3, <3>1, VectorKept DEF VectorsOK
  <2>3. CASE CheckPasses(t)
    BY <1>3, <2>3, VectorAdvances DEF VectorsOK, CheckPasses, VectorLabels
  <2>4. HostCall(t) => pc'[t] \notin VectorLabels
    BY HostFrame DEF HostLabels, VectorLabels
  <2>5. CASE \E bytes \in Sizes : AllocFails(t, bytes) \/ AllocOnDevice(t, bytes)
    BY <1>3, <2>5 DEF AllocFails, AllocOnDevice, Begin, Types, ThreadTypes, VectorLabels
  <2>6. CASE \/ \E p \in Pointers : Free(t, p)
             \/ \E operands \in VectorOperands : VectorRefused(t, operands)
    BY <1>3, <2>6 DEF Free, VectorRefused, Begin, Types, ThreadTypes, VectorLabels
  <2>7. CASE RecordLock(t) \/ Record(t) \/ FreeLock(t) \/ FreeOnDevice(t) \/ FreeFails(t)
             \/ EraseLock(t) \/ Erase(t) \/ CheckFails(t) \/ DeviceVector(t)
    BY <1>3, <2>7
       DEF RecordLock, Record, FreeLock, FreeOnDevice, FreeFails, EraseLock, Erase, CheckFails,
           DeviceVector, Goto, Return, Types, ThreadTypes, VectorLabels
  <2>. QED
    BY <1>3, <2>1, <2>2, <2>3, <2>4, <2>5, <2>6, <2>7
       DEF AllocationCall, StartAllocation, ContinueAllocation
<1>. QED
  BY <1>2, <1>3

(* What vector calls have checked is the property: the two directions of   *)
(* the check are exact when the device reads the operands.                 *)
LEMMA OperandsCheckedHolds ==
  ASSUME Types, Accounting, VectorsOK
  PROVE  OperandsChecked
<1>. USE DEF VectorsOK, VectorLabels
<1>1. ASSUME NEW t \in Thread, pc[t] = "checking", ~ AllocationFits(Head(call[t].unchecked))
      PROVE  LET operand == Head(call[t].unchecked)
             IN operand.ptr \in DOMAIN heap /\ operand.count * ElemBytes > heap[operand.ptr]
  <2>. DEFINE operand == Head(call[t].unchecked)
              k == Len(call[t].operands) - Len(call[t].unchecked) + 1
  <2>1. /\ call[t].operands \in Seq(Operand) /\ call[t].unchecked \in Seq(Operand)
        /\ call[t].unchecked # <<>> /\ VectorOK(t)
    BY <1>1 DEF Types, ThreadTypes, Call
  <2>2. /\ Len(call[t].unchecked) \in Nat \ {0} /\ Len(call[t].operands) \in Nat
        /\ operand = call[t].unchecked[1] /\ operand \in Operand
    BY <2>1, EmptySeq, HeadTailProperties
  <2>3. operand = call[t].operands[k] /\ k \in DOMAIN call[t].operands
    <3>1. /\ Len(call[t].unchecked) <= Len(call[t].operands)
          /\ \A i \in 1 .. Len(call[t].unchecked) :
               call[t].unchecked[i]
                 = call[t].operands[Len(call[t].operands) - Len(call[t].unchecked) + i]
      BY <2>1 DEF VectorOK
    <3>2. k \in 1 .. Len(call[t].operands) /\ 1 \in 1 .. Len(call[t].unchecked)
      <4>1. \A all \in Nat, left \in Nat \ {0} :
              left <= all => all - left + 1 \in 1 .. all /\ 1 \in 1 .. left
        OBVIOUS
      <4>. QED
        BY <2>2, <3>1, <4>1
    <3>3. DOMAIN call[t].operands = 1 .. Len(call[t].operands)
      BY <2>1
    <3>. QED
      BY <2>2, <3>1, <3>2, <3>3
  <2>4. OperandOK(operand)
    BY <2>1, <2>3 DEF VectorOK
  <2>. HIDE DEF operand, k
  <2>5. /\ operand.ptr \in DOMAIN gAllocations
        /\ operand.count * ElemBytes > gAllocations[operand.ptr]
    <3>1. operand.ptr \in DOMAIN gAllocations /\ ~ BytesNeeded(operand.count) <= gAllocations[operand.ptr]
      BY <1>1 DEF AllocationFits, operand
    <3>2. BytesNeeded(operand.count) = operand.count * ElemBytes
      BY <2>2, <2>4, ProductKept DEF OperandOK, Operand
    <3>3. gAllocations[operand.ptr] \in Nat /\ operand.count * ElemBytes \in Nat
      BY <2>2, <3>1, AllocationsAssumption DEF Accounting, AllocTypes, Operand
    <3>. QED
      BY <3>1, <3>2, <3>3
  <2>6. operand.ptr \in owned
    BY <2>4, <2>5 DEF OperandOK, Pointers, Accounting, AllocTypes, Null
  <2>7. operand.ptr \in DOMAIN heap /\ gAllocations[operand.ptr] = heap[operand.ptr]
    BY <2>5, <2>6 DEF Accounting, EntriesAccounted
  <2>. QED
    BY <2>5, <2>7 DEF operand
<1>2. ValidCountAccepted
  BY <1>1 DEF ValidCountAccepted
<1>3. ASSUME NEW t \in Thread, pc[t] = "device", NEW i \in DOMAIN call[t].operands,
             call[t].operands[i].ptr \in DOMAIN gAllocations
      PROVE  call[t].operands[i].count * ElemBytes <= gAllocations[call[t].operands[i].ptr]
  <2>. DEFINE operand == call[t].operands[i]
  <2>1. call[t].operands \in Seq(Operand) /\ call[t].unchecked = <<>> /\ VectorOK(t)
    BY <1>3 DEF Types, ThreadTypes, Call, VectorOK
  <2>2. i \in 1 .. (Len(call[t].operands) - Len(call[t].unchecked)) /\ operand \in Operand
    BY <2>1, EmptySeq
  <2>3. AllocationFits(operand) /\ OperandOK(operand)
    BY <2>1, <2>2 DEF VectorOK, CheckedBefore
  <2>. HIDE DEF operand
  <2>4. BytesNeeded(operand.count) = operand.count * ElemBytes
    BY <2>2, <2>3, ProductKept DEF OperandOK, Operand
  <2>. QED
    BY <1>3, <2>3, <2>4 DEF AllocationFits, operand
<1>4. KnownOperandsFit
  BY <1>3 DEF KnownOperandsFit
<1>. QED
  BY <1>2, <1>4 DEF OperandsChecked

-----------------------------------------------------------------------------
(* The inductive invariant of all memory calls.                            *)
Inv == Types /\ Locks /\ Accounting /\ VectorsOK /\ Spans /\ RegistrationsSound

(* The invariant holds at first.                                           *)
LEMMA InvInit == Init => Inv
<1>. SUFFICES ASSUME Init PROVE Inv
  OBVIOUS
<1>1. Types /\ Locks /\ VectorsOK
  BY TypesLocksInit, VectorsInit
<1>2. Accounting
  BY <1>1 DEF Types, Accounting, ClaimsSound, Claims, Recording, Freeing, EntriesAccounted, Init,
              CallsInit, AllocationsInit, Empty
<1>3. Spans /\ RegistrationsSound
  BY DEF Init, CallsInit, HostMemoryInit, Spans, HostLabels, RegistrationsSound,
         RegistrationsDisjoint, FlagsMatchRegistrations
<1>. QED
  BY <1>1, <1>2, <1>3 DEF Inv

(* Every step keeps the type of the registry.                              *)
LEMMA HostTypesNext ==
  ASSUME Types, Spans, NEW t \in Thread, AllocationCall(t) \/ HostCall(t)
  PROVE  HostTypes'
<1>1. CASE UNCHANGED gRegistrations
  BY <1>1 DEF Types, HostTypes
<1>2. CASE RegisterBody(t)
  <2>1. call[t].ptr \in Address /\ call[t].bytes \in Address
    <3>1. call[t].ptr \in Nat /\ call[t].bytes \in Nat
      BY DEF Types, ThreadTypes, Call
    <3>2. call[t].ptr + call[t].bytes < Word
      BY <1>2 DEF RegisterBody, Leave, Spans, HostLabels
    <3>. QED
      BY <3>1, <3>2, CallsAssumption DEF Address
  <2>. QED
    BY <1>2, <2>1 DEF RegisterBody, Types, HostTypes
<1>3. CASE UnregisterBody(t)
  BY <1>3 DEF UnregisterBody, Types, HostTypes
<1>4. AllocationCall(t) => UNCHANGED gRegistrations
  BY DEF AllocationCall
<1>5. HostCall(t) => RegisterBody(t) \/ UnregisterBody(t) \/ UNCHANGED gRegistrations
  BY DEF HostCall, StartHostCall, ContinueHostCall, HostRegister, HostUnregister, Copy, Refuse,
         Enter, EnterSubmit, EnterTable, CopyFlags, CopyOnDevice
<1>. QED
  BY <1>1, <1>2, <1>3, <1>4, <1>5

(* Every step keeps the invariant.                                         *)
LEMMA InvNext == Inv /\ [Next]_vars => Inv'
<1>. SUFFICES ASSUME Inv, [Next]_vars PROVE Inv'
  OBVIOUS
<1>. USE DEF Inv
<1>1. ASSUME NEW t \in Thread, AllocationCall(t) \/ HostCall(t) PROVE Inv'
  <2>1. Accounting' /\ Locks' /\ VectorsOK' /\ Spans' /\ RegistrationsSound'
    BY <1>1, AccountingNext, LocksNext, VectorsNext, SpansNext, RegistrationsNext
  <2>2. Types'
    BY <1>1, <2>1, ThreadTypesNext, HostTypesNext DEF Types, Accounting
  <2>. QED
    BY <2>1, <2>2
<1>2. CASE UNCHANGED vars
  <2>. UNCHANGED <<submitOwner, submitDepth, tableOwner, pc, call, heap, gAllocations, owned,
                   gRegistrations>>
    BY <1>2 DEF vars, callVars, lockVars, allocVars
  <2>1. Types' /\ Locks'
    BY DEF Types, ThreadTypes, AllocTypes, HostTypes, Locks
  <2>2. Accounting'
    BY DEF Accounting, AllocTypes, ClaimsSound, Claims, Recording, Freeing, EntriesAccounted,
           Erasing
  <2>3. VectorsOK'
    BY DEF VectorsOK, VectorOK, OperandOK, Pointers, CheckedBefore, AllocationFits
  <2>4. Spans' /\ RegistrationsSound'
    BY DEF Spans, RegistrationsSound, RegistrationsDisjoint, FlagsMatchRegistrations
  <2>. QED
    BY <2>1, <2>2, <2>3, <2>4
<1>. QED
  BY <1>1, <1>2 DEF Next, Quiescent

(* All of it holds in every reachable state.                               *)
THEOREM Invariance == Spec => []Inv
  BY InvInit, InvNext, PTL DEF Spec

(* The registry of host intervals and the zero-copy flags: whatever spans  *)
(* clients register, and however wide a word is, intervals never overlap   *)
(* and a transfer is flagged exactly if its buffer is registered when it   *)
(* reaches the device.                                                     *)
THEOREM RegistrationsSafe == Spec => []RegistrationsSound
<1>1. Inv => RegistrationsSound
  BY DEF Inv
<1>. QED
  BY <1>1, Invariance, PTL

(* The table of allocations never keeps the entry of a block that is gone, *)
(* or a wrong size, although aecAlloc and aecFree update it apart from the *)
(* device.                                                                 *)
THEOREM TableNeverStale == Spec => []EntriesAccounted
<1>1. Inv => EntriesAccounted
  BY DEF Inv, Accounting
<1>. QED
  BY <1>1, Invariance, PTL

(* The check of vector operands refuses no count that fits, and lets none  *)
(* overrun an operand that the table knows.                                *)
THEOREM OperandCheckExact == Spec => []OperandsChecked
<1>1. Inv => OperandsChecked
  BY OperandsCheckedHolds DEF Inv
<1>. QED
  BY <1>1, Invariance, PTL
=============================================================================
