-------------------------- MODULE AecStreams_proofs --------------------------
(***************************************************************************)
(* Theorems about AecStreams, for every set of threads, of addresses and   *)
(* of calls: the type invariant together with the lock discipline, and     *)
(* from them the device's view of the command sequence, the safety of      *)
(* asynchronous copies against aecStreamDestroy, that handles are unique,  *)
(* where errors are reported, and that no cycle or error of a command is   *)
(* lost or counted twice.                                                  *)
(***************************************************************************)
EXTENDS AecStreams, FiniteSetTheorems, TLAPS

(* The inductive core: types and locks support each other, since a release *)
(* keeps submitDepth a natural number only if the lock is held.            *)
TypeLock == TypeOK /\ LockInv

LEMMA TypeLockInit == Init => TypeLock
  BY ThreadAssumption, StreamsAssumption
     DEF Init, ThreadInit, TypeLock, TypeOK, ThreadTypeOK, LockInv, Holds, HoldsOuter,
         HoldsInner, HoldsTable, IsCopy, NoCall, NewStream, NewEvent, Labels, AllOps, Status,
         CallOK, Call, StreamObject, EventObject

-----------------------------------------------------------------------------
(* What the shared parts of the actions do to the types. *)

(* A release by a thread that holds g_submit_mutex leaves a depth that is  *)
(* still a number: it had locked it at least once.                         *)
LEMMA UnlockSubmitTypes ==
  ASSUME TypeLock, NEW t \in Thread, HoldsOuter(t) \/ HoldsInner(t), UnlockSubmit
  PROVE  submitOwner' \in Thread \cup {NoThread} /\ submitDepth' \in Nat
  BY DEF TypeLock, TypeOK, ThreadTypeOK, LockInv, Holds, UnlockSubmit

(* The same at the end of dispatch(), where only a copy has the lock.      *)
LEMMA LeaveDispatchTypes ==
  ASSUME TypeLock, NEW t \in Thread, pc[t] \in {"check", "finish", "stashing"}, LeaveDispatch(t)
  PROVE  submitOwner' \in Thread \cup {NoThread} /\ submitDepth' \in Nat
<1>1. CASE IsCopy(t)
  BY <1>1, UnlockSubmitTypes DEF LeaveDispatch, HoldsOuter
<1>2. CASE ~ IsCopy(t)
  BY <1>2 DEF LeaveDispatch, submitVars, TypeLock, TypeOK, ThreadTypeOK
<1>. QED
  BY <1>1, <1>2

ThreadTypes ==
  /\ pc \in [Thread -> Labels]
  /\ call \in [Thread -> Call]
  /\ \A t \in Thread : CallOK(t)
  /\ seq \in [Thread -> Nat]
  /\ outcome \in [Thread -> Status]
  /\ calls \in [Thread -> Nat]
  /\ lastError \in [Thread -> Status]

(* A return leaves the thread without a call and its locals well typed.    *)
LEMMA ReturnTypes ==
  ASSUME TypeLock, NEW t \in Thread, NEW from, NEW error \in Status, Return(t, from, error)
  PROVE  ThreadTypes'
<1>1. Success \in Status
  BY DEF Status
<1>2. NoCall \in Call
  BY DEF NoCall, Call
<1>3. pc' \in [Thread -> Labels] /\ calls' \in [Thread -> Nat]
  BY DEF TypeLock, TypeOK, Return, Goto, Labels
<1>4. call' \in [Thread -> Call]
  BY <1>2 DEF TypeLock, TypeOK, Return
<1>5. seq' \in [Thread -> Nat] /\ outcome' \in [Thread -> Status] /\ lastError' \in [Thread -> Status]
  BY <1>1 DEF TypeLock, TypeOK, ThreadTypeOK, Return, Finish
<1>6. \A u \in Thread : CallOK(u)'
  BY DEF TypeLock, TypeOK, Return, Goto, CallOK, IsCopy, NoCall
<1>. QED
  BY <1>3, <1>4, <1>5, <1>6 DEF ThreadTypes

(* A step inside a call moves pc, and never to the label "copy".           *)
LEMMA GotoTypes ==
  ASSUME TypeLock, NEW t \in Thread, NEW from, NEW to \in Labels \ {"copy"}, Goto(t, from, to),
         UNCHANGED call
  PROVE  /\ pc' \in [Thread -> Labels]
         /\ call' \in [Thread -> Call]
         /\ \A u \in Thread : CallOK(u)'
  BY DEF TypeLock, TypeOK, Goto, CallOK, IsCopy

-----------------------------------------------------------------------------
LEMMA TypeOKNext == TypeLock /\ [Next]_vars => TypeOK'
<1>. SUFFICES ASSUME TypeLock, [Next]_vars
              PROVE  TypeOK'
  OBVIOUS
<1>. USE DEF TypeLock, TypeOK, ThreadTypeOK, ThreadTypes, lockVars, submitVars, threadVars, localVars,
             streamVars, eventVars, deviceVars, history
<1>. KnownStreams \subseteq StreamAddr /\ KnownEvents \subseteq EventAddr
  BY DEF KnownStreams, KnownEvents
<1>. /\ {"submit", "lookup", "copy", "create", "enter", "check", "sequence", "device", "finish",
         "stash", "stashing", "insert", "enter_table", "body", "idle"} \subseteq Labels
     /\ {Success, InvalidHandle, InvalidArgument} \subseteq Status
     /\ DeviceError \subseteq Status
  BY StreamsAssumption DEF Labels, Status
<1>1. ASSUME NEW t \in Thread, RejectArguments(t) PROVE TypeOK'
  BY <1>1 DEF RejectArguments, Finish, CallOK, IsCopy
<1>2. ASSUME NEW t \in Thread, GetLastError(t) PROVE TypeOK'
  BY <1>2 DEF GetLastError, CallOK, IsCopy
<1>3. ASSUME NEW t \in Thread, CopySync(t) PROVE TypeOK'
  BY <1>3, StreamsAssumption DEF CopySync, Begin, Call, CallOK, IsCopy
<1>4. ASSUME NEW t \in Thread, NEW s \in KnownStreams \cup {NullStream}, Launch(t, s) PROVE TypeOK'
  BY <1>4, StreamsAssumption DEF Launch, Begin, Call, CallOK, IsCopy
<1>5. ASSUME NEW t \in Thread, NEW s \in KnownStreams, CopyAsync(t, s) PROVE TypeOK'
  BY <1>5, StreamsAssumption DEF CopyAsync, Begin, Call, CallOK, IsCopy
<1>6. ASSUME NEW t \in Thread, NEW s \in KnownStreams, StreamDestroy(t, s) PROVE TypeOK'
  BY <1>6, StreamsAssumption DEF StreamDestroy, Lifecycle, Begin, Call, CallOK, IsCopy
<1>7. ASSUME NEW t \in Thread, NEW s \in KnownStreams, StreamSync(t, s) PROVE TypeOK'
  BY <1>7, StreamsAssumption DEF StreamSync, Lifecycle, Begin, Call, CallOK, IsCopy
<1>8. ASSUME NEW t \in Thread, NEW e \in KnownEvents, EventDestroy(t, e) PROVE TypeOK'
  BY <1>8, StreamsAssumption DEF EventDestroy, Lifecycle, Begin, Call, CallOK, IsCopy
<1>9. ASSUME NEW t \in Thread, NEW e \in KnownEvents, EventQuery(t, e) PROVE TypeOK'
  BY <1>9, StreamsAssumption DEF EventQuery, Lifecycle, Begin, Call, CallOK, IsCopy
<1>10. ASSUME NEW t \in Thread, NEW e \in KnownEvents, NEW s \in KnownStreams, EventRecord(t, e, s) PROVE TypeOK'
  BY <1>10, StreamsAssumption DEF EventRecord, Lifecycle, Begin, Call, CallOK, IsCopy
<1>11. ASSUME NEW t \in Thread, NEW e \in KnownEvents, NEW f \in KnownEvents, EventElapsed(t, e, f) PROVE TypeOK'
  BY <1>11, StreamsAssumption DEF EventElapsed, Lifecycle, Begin, Call, CallOK, IsCopy
<1>12. ASSUME NEW t \in Thread, NEW s \in StreamAddr, StreamCreate(t, s) PROVE TypeOK'
  <2>1. stream' \in [StreamAddr -> StreamObject]
    BY <1>12 DEF StreamCreate, StreamObject, NewStream
  <2>. QED
    BY <1>12, <2>1, StreamsAssumption DEF StreamCreate, Begin, Call, CallOK, IsCopy
<1>13. ASSUME NEW t \in Thread, NEW e \in EventAddr, EventCreate(t, e) PROVE TypeOK'
  <2>1. event' \in [EventAddr -> EventObject]
    BY <1>13 DEF EventCreate, EventObject, NewEvent
  <2>. QED
    BY <1>13, <2>1, StreamsAssumption DEF EventCreate, Begin, Call, CallOK, IsCopy
<1>14. ASSUME NEW t \in Thread, LockCopy(t) PROVE TypeOK'
  BY <1>14, GotoTypes DEF LockCopy, LockSubmit
<1>15. ASSUME NEW t \in Thread, SubmitLock(t) PROVE TypeOK'
  BY <1>15, GotoTypes DEF SubmitLock, LockSubmit
<1>16. ASSUME NEW t \in Thread, EnterSubmit(t) PROVE TypeOK'
  BY <1>16, GotoTypes DEF EnterSubmit, LockSubmit
<1>17. ASSUME NEW t \in Thread, DispatchLock(t) PROVE TypeOK'
  BY <1>17, GotoTypes DEF DispatchLock, LockTable
<1>18. ASSUME NEW t \in Thread, StashLock(t) PROVE TypeOK'
  BY <1>18, GotoTypes DEF StashLock, LockTable
<1>19. ASSUME NEW t \in Thread, CreateLock(t) PROVE TypeOK'
  BY <1>19, GotoTypes DEF CreateLock, LockTable
<1>20. ASSUME NEW t \in Thread, EnterTable(t) PROVE TypeOK'
  BY <1>20, GotoTypes DEF EnterTable, LockTable
<1>21. ASSUME NEW t \in Thread, DispatchLive(t) PROVE TypeOK'
  BY <1>21, GotoTypes DEF DispatchLive, UnlockTable
<1>22. ASSUME NEW t \in Thread, DispatchStale(t) PROVE TypeOK'
  <2>1. pc[t] \in {"check", "finish", "stashing"} /\ LeaveDispatch(t)
    BY <1>22 DEF DispatchStale, Return, Goto
  <2>2. Return(t, "check", InvalidHandle)
    BY <1>22 DEF DispatchStale
  <2>. QED
    BY <1>22, <2>1, <2>2, LeaveDispatchTypes, ReturnTypes DEF DispatchStale, UnlockTable
<1>23. ASSUME NEW t \in Thread, AllocSequence(t) PROVE TypeOK'
  BY <1>23, GotoTypes DEF AllocSequence
<1>24. ASSUME NEW t \in Thread, DeviceSubmit(t) PROVE TypeOK'
  <2>1. PICK status \in IF seq[t] > deviceSeq THEN {Success} \cup DeviceError ELSE {InvalidArgument} :
          /\ Goto(t, "device", IF call[t].stream = NullStream THEN "finish" ELSE "stash")
          /\ outcome' = [outcome EXCEPT ![t] = status]
          /\ deviceSeq' = IF seq[t] > deviceSeq THEN seq[t] ELSE deviceSeq
          /\ refused' = IF seq[t] > deviceSeq THEN refused ELSE refused + 1
          /\ Charge(t, call[t].stream, status)
          /\ UnlockSubmit
          /\ UNCHANGED <<tableOwner, call, seq, lastError, calls, streamVars, eventVars, gSequence,
                         issued>>
    BY <1>24 DEF DeviceSubmit
  <2>2. status \in Status
    BY <2>1
  <2>3. executed' \in [StreamAddr -> Nat] /\ unreported' \in [StreamAddr -> SUBSET (Nat \X Status)]
    BY <2>1, <2>2 DEF Charge, CyclesOf, Status
  <2>4. submitOwner' \in Thread \cup {NoThread} /\ submitDepth' \in Nat
    BY <2>1, UnlockSubmitTypes DEF HoldsInner, Goto
  <2>. QED
    BY <2>1, <2>2, <2>3, <2>4, GotoTypes
<1>25. ASSUME NEW t \in Thread, FinishSync(t) PROVE TypeOK'
  <2>1. pc[t] \in {"check", "finish", "stashing"} /\ LeaveDispatch(t)
    BY <1>25 DEF FinishSync, Return, Goto
  <2>2. Return(t, "finish", outcome[t]) /\ outcome[t] \in Status
    BY <1>25 DEF FinishSync
  <2>. QED
    BY <1>25, <2>1, <2>2, LeaveDispatchTypes, ReturnTypes DEF FinishSync
<1>26. ASSUME NEW t \in Thread, Stash(t) PROVE TypeOK'
  <2>1. pc[t] \in {"check", "finish", "stashing"} /\ LeaveDispatch(t)
    BY <1>26 DEF Stash, Return, Goto
  <2>2. Return(t, "stashing", Success)
    BY <1>26 DEF Stash
  <2>3. ASSUME NEW object \in StreamObject, NEW status \in Status
        PROVE  Stashed(object, status) \in StreamObject
    <3>1. object.cycles + CyclesOf(status) \in Nat
      BY DEF StreamObject, CyclesOf
    <3>. QED
      BY <3>1 DEF StreamObject, Stashed
  <2>4. stream' \in [StreamAddr -> StreamObject]
    BY <1>26, <2>3 DEF Stash
  <2>. QED
    BY <1>26, <2>1, <2>2, <2>4, LeaveDispatchTypes, ReturnTypes DEF Stash, UnlockTable
<1>27. ASSUME NEW t \in Thread, InsertStream(t) PROVE TypeOK'
  <2>1. Return(t, "insert", Success)
    BY <1>27 DEF InsertStream
  <2>2. gStreams' \subseteq StreamAddr
    BY <1>27 DEF InsertStream, CallOK
  <2>3. issued' \in [StreamAddr \cup EventAddr -> Nat]
    BY <1>27 DEF InsertStream, CallOK
  <2>. QED
    BY <1>27, <2>1, <2>2, <2>3, ReturnTypes DEF InsertStream, UnlockTable
<1>28. ASSUME NEW t \in Thread, InsertEvent(t) PROVE TypeOK'
  <2>1. Return(t, "insert", Success)
    BY <1>28 DEF InsertEvent
  <2>2. gEvents' \subseteq EventAddr
    BY <1>28 DEF InsertEvent, CallOK
  <2>3. issued' \in [StreamAddr \cup EventAddr -> Nat]
    BY <1>28 DEF InsertEvent, CallOK
  <2>. QED
    BY <1>28, <2>1, <2>2, <2>3, ReturnTypes DEF InsertEvent, UnlockTable
<1>29. ASSUME NEW t \in Thread, DestroyStreamBody(t) PROVE TypeOK'
  <2>1. PICK error \in Status : Return(t, "body", error) /\ UnlockTable /\ UnlockSubmit
    BY <1>29 DEF DestroyStreamBody, Body
  <2>2. submitOwner' \in Thread \cup {NoThread} /\ submitDepth' \in Nat
    BY <2>1, UnlockSubmitTypes DEF HoldsInner, Return, Goto
  <2>3. gStreams' \subseteq StreamAddr /\ retiredStreams' \subseteq StreamAddr
    BY <1>29 DEF DestroyStreamBody
  <2>. QED
    BY <1>29, <2>1, <2>2, <2>3, ReturnTypes DEF DestroyStreamBody, UnlockTable
<1>30. ASSUME NEW t \in Thread, SyncStreamBody(t) PROVE TypeOK'
  <2>1. PICK error \in Status : Return(t, "body", error) /\ UnlockTable /\ UnlockSubmit
    BY <1>30 DEF SyncStreamBody, Body, StreamObject
  <2>2. submitOwner' \in Thread \cup {NoThread} /\ submitDepth' \in Nat
    BY <2>1, UnlockSubmitTypes DEF HoldsInner, Return, Goto
  <2>3. stream' \in [StreamAddr -> StreamObject]
    BY <1>30 DEF SyncStreamBody, StreamObject
  <2>4. unreported' \in [StreamAddr -> SUBSET (Nat \X Status)]
    BY <1>30 DEF SyncStreamBody
  <2>. QED
    BY <1>30, <2>1, <2>2, <2>3, <2>4, ReturnTypes DEF SyncStreamBody, UnlockTable
<1>31. ASSUME NEW t \in Thread, DestroyEventBody(t) PROVE TypeOK'
  <2>1. PICK error \in Status : Return(t, "body", error) /\ UnlockTable /\ UnlockSubmit
    BY <1>31 DEF DestroyEventBody, Body
  <2>2. submitOwner' \in Thread \cup {NoThread} /\ submitDepth' \in Nat
    BY <2>1, UnlockSubmitTypes DEF HoldsInner, Return, Goto
  <2>3. gEvents' \subseteq EventAddr /\ retiredEvents' \subseteq EventAddr
    BY <1>31 DEF DestroyEventBody
  <2>. QED
    BY <1>31, <2>1, <2>2, <2>3, ReturnTypes DEF DestroyEventBody, UnlockTable
<1>32. ASSUME NEW t \in Thread, RecordEventBody(t) PROVE TypeOK'
  <2>1. PICK error \in Status : Return(t, "body", error) /\ UnlockTable /\ UnlockSubmit
    BY <1>32 DEF RecordEventBody, Body
  <2>2. submitOwner' \in Thread \cup {NoThread} /\ submitDepth' \in Nat
    BY <2>1, UnlockSubmitTypes DEF HoldsInner, Return, Goto
  <2>3. event' \in [EventAddr -> EventObject]
    BY <1>32 DEF RecordEventBody, EventObject, StreamObject
  <2>. QED
    BY <1>32, <2>1, <2>2, <2>3, ReturnTypes DEF RecordEventBody, UnlockTable
<1>33. ASSUME NEW t \in Thread, QueryEventBody(t) PROVE TypeOK'
  <2>1. PICK error \in Status : Return(t, "body", error) /\ UnlockTable /\ UnlockSubmit
    BY <1>33 DEF QueryEventBody, Body
  <2>2. submitOwner' \in Thread \cup {NoThread} /\ submitDepth' \in Nat
    BY <2>1, UnlockSubmitTypes DEF HoldsInner, Return, Goto
  <2>. QED
    BY <1>33, <2>1, <2>2, ReturnTypes DEF QueryEventBody, UnlockTable
<1>34. ASSUME NEW t \in Thread, ElapsedBody(t) PROVE TypeOK'
  <2>1. PICK error \in Status : Return(t, "body", error) /\ UnlockTable /\ UnlockSubmit
    BY <1>34 DEF ElapsedBody, Body
  <2>2. submitOwner' \in Thread \cup {NoThread} /\ submitDepth' \in Nat
    BY <2>1, UnlockSubmitTypes DEF HoldsInner, Return, Goto
  <2>. QED
    BY <1>34, <2>1, <2>2, ReturnTypes DEF ElapsedBody, UnlockTable
<1>35. CASE UNCHANGED vars
  BY <1>35 DEF vars, CallOK, IsCopy
<1>. QED
  BY <1>1, <1>2, <1>3, <1>4, <1>5, <1>6, <1>7, <1>8, <1>9, <1>10, <1>11, <1>12, <1>13, <1>14, <1>15, <1>16, <1>17, <1>18, <1>19, <1>20, <1>21, <1>22, <1>23, <1>24, <1>25, <1>26, <1>27, <1>28, <1>29, <1>30, <1>31, <1>32, <1>33, <1>34, <1>35 DEF Next, Start, Continue, AllIdle

-----------------------------------------------------------------------------
(* A step changes what one thread holds, and the lock variables with it.   *)
LEMMA LockInvNext == TypeLock /\ [Next]_vars => LockInv'
<1>. SUFFICES ASSUME TypeLock, [Next]_vars
              PROVE  LockInv'
  OBVIOUS
<1>. USE ThreadAssumption
     DEF TypeLock, TypeOK, ThreadTypeOK, LockInv, Holds, HoldsOuter, HoldsInner, HoldsTable, IsCopy,
         Begin, Goto, Return, NoCall, LockSubmit, UnlockSubmit, LockTable, UnlockTable,
         lockVars, submitVars
<1>1. ASSUME NEW t \in Thread, RejectArguments(t) PROVE LockInv'
  BY <1>1 DEF RejectArguments
<1>2. ASSUME NEW t \in Thread, GetLastError(t) PROVE LockInv'
  BY <1>2 DEF GetLastError
<1>3. ASSUME NEW t \in Thread, CopySync(t) PROVE LockInv'
  BY <1>3 DEF CopySync
<1>4. ASSUME NEW t \in Thread, NEW s \in KnownStreams \cup {NullStream}, Launch(t, s) PROVE LockInv'
  BY <1>4 DEF Launch
<1>5. ASSUME NEW t \in Thread, NEW s \in KnownStreams, CopyAsync(t, s) PROVE LockInv'
  BY <1>5 DEF CopyAsync
<1>6. ASSUME NEW t \in Thread, NEW s \in KnownStreams, StreamDestroy(t, s) PROVE LockInv'
  BY <1>6 DEF StreamDestroy, Lifecycle
<1>7. ASSUME NEW t \in Thread, NEW s \in KnownStreams, StreamSync(t, s) PROVE LockInv'
  BY <1>7 DEF StreamSync, Lifecycle
<1>8. ASSUME NEW t \in Thread, NEW e \in KnownEvents, EventDestroy(t, e) PROVE LockInv'
  BY <1>8 DEF EventDestroy, Lifecycle
<1>9. ASSUME NEW t \in Thread, NEW e \in KnownEvents, EventQuery(t, e) PROVE LockInv'
  BY <1>9 DEF EventQuery, Lifecycle
<1>10. ASSUME NEW t \in Thread, NEW e \in KnownEvents, NEW s \in KnownStreams, EventRecord(t, e, s) PROVE LockInv'
  BY <1>10 DEF EventRecord, Lifecycle
<1>11. ASSUME NEW t \in Thread, NEW e \in KnownEvents, NEW f \in KnownEvents, EventElapsed(t, e, f) PROVE LockInv'
  BY <1>11 DEF EventElapsed, Lifecycle
<1>12. ASSUME NEW t \in Thread, NEW s \in StreamAddr, StreamCreate(t, s) PROVE LockInv'
  BY <1>12 DEF StreamCreate
<1>13. ASSUME NEW t \in Thread, NEW e \in EventAddr, EventCreate(t, e) PROVE LockInv'
  BY <1>13 DEF EventCreate
<1>14. ASSUME NEW t \in Thread, LockCopy(t) PROVE LockInv'
  BY <1>14 DEF LockCopy, CallOK
<1>15. ASSUME NEW t \in Thread, SubmitLock(t) PROVE LockInv'
  BY <1>15 DEF SubmitLock
<1>16. ASSUME NEW t \in Thread, EnterSubmit(t) PROVE LockInv'
  BY <1>16 DEF EnterSubmit
<1>17. ASSUME NEW t \in Thread, DispatchLock(t) PROVE LockInv'
  BY <1>17 DEF DispatchLock
<1>18. ASSUME NEW t \in Thread, StashLock(t) PROVE LockInv'
  BY <1>18 DEF StashLock
<1>19. ASSUME NEW t \in Thread, CreateLock(t) PROVE LockInv'
  BY <1>19 DEF CreateLock
<1>20. ASSUME NEW t \in Thread, EnterTable(t) PROVE LockInv'
  BY <1>20 DEF EnterTable
<1>21. ASSUME NEW t \in Thread, DispatchLive(t) PROVE LockInv'
  BY <1>21 DEF DispatchLive
<1>22. ASSUME NEW t \in Thread, DispatchStale(t) PROVE LockInv'
  <2>1. CASE IsCopy(t)
    BY <1>22, <2>1 DEF DispatchStale, LeaveDispatch
  <2>2. CASE ~ IsCopy(t)
    BY <1>22, <2>2 DEF DispatchStale, LeaveDispatch
  <2>. QED
    BY <2>1, <2>2
<1>23. ASSUME NEW t \in Thread, FinishSync(t) PROVE LockInv'
  <2>1. CASE IsCopy(t)
    BY <1>23, <2>1 DEF FinishSync, LeaveDispatch
  <2>2. CASE ~ IsCopy(t)
    BY <1>23, <2>2 DEF FinishSync, LeaveDispatch
  <2>. QED
    BY <2>1, <2>2
<1>24. ASSUME NEW t \in Thread, Stash(t) PROVE LockInv'
  <2>1. CASE IsCopy(t)
    BY <1>24, <2>1 DEF Stash, LeaveDispatch
  <2>2. CASE ~ IsCopy(t)
    BY <1>24, <2>2 DEF Stash, LeaveDispatch
  <2>. QED
    BY <2>1, <2>2
<1>25. ASSUME NEW t \in Thread, AllocSequence(t) PROVE LockInv'
  BY <1>25 DEF AllocSequence
<1>26. ASSUME NEW t \in Thread, DeviceSubmit(t) PROVE LockInv'
  BY <1>26 DEF DeviceSubmit
<1>27. ASSUME NEW t \in Thread, InsertStream(t) PROVE LockInv'
  BY <1>27 DEF InsertStream
<1>28. ASSUME NEW t \in Thread, InsertEvent(t) PROVE LockInv'
  BY <1>28 DEF InsertEvent
<1>29. ASSUME NEW t \in Thread, DestroyStreamBody(t) PROVE LockInv'
  BY <1>29 DEF DestroyStreamBody, Body
<1>30. ASSUME NEW t \in Thread, SyncStreamBody(t) PROVE LockInv'
  BY <1>30 DEF SyncStreamBody, Body
<1>31. ASSUME NEW t \in Thread, DestroyEventBody(t) PROVE LockInv'
  BY <1>31 DEF DestroyEventBody, Body
<1>32. ASSUME NEW t \in Thread, RecordEventBody(t) PROVE LockInv'
  BY <1>32 DEF RecordEventBody, Body
<1>33. ASSUME NEW t \in Thread, QueryEventBody(t) PROVE LockInv'
  BY <1>33 DEF QueryEventBody, Body
<1>34. ASSUME NEW t \in Thread, ElapsedBody(t) PROVE LockInv'
  BY <1>34 DEF ElapsedBody, Body
<1>35. CASE UNCHANGED vars
  BY <1>35 DEF vars, threadVars
<1>. QED
  BY <1>1, <1>2, <1>3, <1>4, <1>5, <1>6, <1>7, <1>8, <1>9, <1>10, <1>11, <1>12, <1>13, <1>14, <1>15, <1>16, <1>17, <1>18, <1>19, <1>20, <1>21, <1>22, <1>23, <1>24, <1>25, <1>26, <1>27, <1>28, <1>29, <1>30, <1>31, <1>32, <1>33, <1>34, <1>35 DEF Next, Start, Continue, AllIdle

LEMMA TypeLockNext == TypeLock /\ [Next]_vars => TypeLock'
  BY TypeOKNext, LockInvNext DEF TypeLock

LEMMA TypeLockInvariant == Spec => []TypeLock
  BY TypeLockInit, TypeLockNext, PTL DEF Spec

(* Every variable keeps its type, whatever the threads call.               *)
THEOREM TypesOK == Spec => []TypeOK
<1>1. TypeLock => TypeOK
  BY DEF TypeLock
<1>. QED
  BY <1>1, TypeLockInvariant, PTL

(* Both locks are held exactly where the program says so: no error path of *)
(* any entry point leaks a lock or releases one twice.                     *)
THEOREM LocksOK == Spec => []LockInv
<1>1. TypeLock => LockInv
  BY DEF TypeLock
<1>. QED
  BY <1>1, TypeLockInvariant, PTL

-----------------------------------------------------------------------------
(* The other threads' view of a step of t.                                 *)
OnlyMoves(t) ==
  \A u \in Thread \ {t} : /\ pc'[u] = pc[u] /\ call'[u] = call[u]
                          /\ seq'[u] = seq[u] /\ outcome'[u] = outcome[u]

(* Every step is a step of one thread; one that neither draws a sequence   *)
(* nor submits leaves the device alone and does not bring its thread to    *)
(* the device call.                                                        *)
LEMMA StepOfOneThread ==
  ASSUME TypeLock, NEW t \in Thread, Start(t) \/ Continue(t)
  PROVE  /\ OnlyMoves(t)
         /\ AllocSequence(t) \/ DeviceSubmit(t) \/ (UNCHANGED deviceVars /\ pc'[t] # "device")
<1>. USE DEF TypeLock, TypeOK, OnlyMoves, Begin, Goto, Return, localVars
<1>. DEFINE Quiet == UNCHANGED deviceVars /\ pc'[t] # "device"
<1>1. ASSUME RejectArguments(t) PROVE OnlyMoves(t) /\ Quiet
  BY <1>1 DEF RejectArguments
<1>2. ASSUME GetLastError(t) PROVE OnlyMoves(t) /\ Quiet
  BY <1>2 DEF GetLastError
<1>3. ASSUME CopySync(t) PROVE OnlyMoves(t) /\ Quiet
  BY <1>3 DEF CopySync
<1>4. ASSUME NEW s \in KnownStreams \cup {NullStream}, Launch(t, s) PROVE OnlyMoves(t) /\ Quiet
  BY <1>4 DEF Launch
<1>5. ASSUME NEW s \in KnownStreams, CopyAsync(t, s) PROVE OnlyMoves(t) /\ Quiet
  BY <1>5 DEF CopyAsync
<1>6. ASSUME NEW s \in KnownStreams, StreamDestroy(t, s) PROVE OnlyMoves(t) /\ Quiet
  BY <1>6 DEF StreamDestroy, Lifecycle
<1>7. ASSUME NEW s \in KnownStreams, StreamSync(t, s) PROVE OnlyMoves(t) /\ Quiet
  BY <1>7 DEF StreamSync, Lifecycle
<1>8. ASSUME NEW e \in KnownEvents, EventDestroy(t, e) PROVE OnlyMoves(t) /\ Quiet
  BY <1>8 DEF EventDestroy, Lifecycle
<1>9. ASSUME NEW e \in KnownEvents, EventQuery(t, e) PROVE OnlyMoves(t) /\ Quiet
  BY <1>9 DEF EventQuery, Lifecycle
<1>10. ASSUME NEW e \in KnownEvents, NEW s \in KnownStreams, EventRecord(t, e, s) PROVE OnlyMoves(t) /\ Quiet
  BY <1>10 DEF EventRecord, Lifecycle
<1>11. ASSUME NEW e \in KnownEvents, NEW f \in KnownEvents, EventElapsed(t, e, f) PROVE OnlyMoves(t) /\ Quiet
  BY <1>11 DEF EventElapsed, Lifecycle
<1>12. ASSUME NEW s \in StreamAddr, StreamCreate(t, s) PROVE OnlyMoves(t) /\ Quiet
  BY <1>12 DEF StreamCreate
<1>13. ASSUME NEW e \in EventAddr, EventCreate(t, e) PROVE OnlyMoves(t) /\ Quiet
  BY <1>13 DEF EventCreate
<1>14. ASSUME LockCopy(t) PROVE OnlyMoves(t) /\ Quiet
  BY <1>14 DEF LockCopy
<1>15. ASSUME DispatchLock(t) PROVE OnlyMoves(t) /\ Quiet
  BY <1>15 DEF DispatchLock
<1>16. ASSUME DispatchLive(t) PROVE OnlyMoves(t) /\ Quiet
  BY <1>16 DEF DispatchLive
<1>17. ASSUME DispatchStale(t) PROVE OnlyMoves(t) /\ Quiet
  BY <1>17 DEF DispatchStale
<1>18. ASSUME SubmitLock(t) PROVE OnlyMoves(t) /\ Quiet
  BY <1>18 DEF SubmitLock
<1>19. ASSUME FinishSync(t) PROVE OnlyMoves(t) /\ Quiet
  BY <1>19 DEF FinishSync
<1>20. ASSUME StashLock(t) PROVE OnlyMoves(t) /\ Quiet
  BY <1>20 DEF StashLock
<1>21. ASSUME Stash(t) PROVE OnlyMoves(t) /\ Quiet
  BY <1>21 DEF Stash
<1>22. ASSUME CreateLock(t) PROVE OnlyMoves(t) /\ Quiet
  BY <1>22 DEF CreateLock
<1>23. ASSUME InsertStream(t) PROVE OnlyMoves(t) /\ Quiet
  BY <1>23 DEF InsertStream
<1>24. ASSUME InsertEvent(t) PROVE OnlyMoves(t) /\ Quiet
  BY <1>24 DEF InsertEvent
<1>25. ASSUME EnterSubmit(t) PROVE OnlyMoves(t) /\ Quiet
  BY <1>25 DEF EnterSubmit
<1>26. ASSUME EnterTable(t) PROVE OnlyMoves(t) /\ Quiet
  BY <1>26 DEF EnterTable
<1>27. ASSUME DestroyStreamBody(t) PROVE OnlyMoves(t) /\ Quiet
  BY <1>27 DEF DestroyStreamBody, Body
<1>28. ASSUME SyncStreamBody(t) PROVE OnlyMoves(t) /\ Quiet
  BY <1>28 DEF SyncStreamBody, Body
<1>29. ASSUME DestroyEventBody(t) PROVE OnlyMoves(t) /\ Quiet
  BY <1>29 DEF DestroyEventBody, Body
<1>30. ASSUME RecordEventBody(t) PROVE OnlyMoves(t) /\ Quiet
  BY <1>30 DEF RecordEventBody, Body
<1>31. ASSUME QueryEventBody(t) PROVE OnlyMoves(t) /\ Quiet
  BY <1>31 DEF QueryEventBody, Body
<1>32. ASSUME ElapsedBody(t) PROVE OnlyMoves(t) /\ Quiet
  BY <1>32 DEF ElapsedBody, Body
<1>33. ASSUME AllocSequence(t) PROVE OnlyMoves(t)
  BY <1>33 DEF AllocSequence
<1>34. ASSUME DeviceSubmit(t) PROVE OnlyMoves(t)
  BY <1>34 DEF DeviceSubmit
<1>. QED
  BY <1>1, <1>2, <1>3, <1>4, <1>5, <1>6, <1>7, <1>8, <1>9, <1>10, <1>11, <1>12, <1>13, <1>14, <1>15, <1>16, <1>17, <1>18, <1>19, <1>20, <1>21, <1>22, <1>23, <1>24, <1>25, <1>26, <1>27, <1>28, <1>29, <1>30, <1>31, <1>32, <1>33, <1>34 DEF Start, Continue

(* Why no command is refused: between the draw of a sequence and its       *)
(* submission the thread holds g_submit_mutex, so no other draws or        *)
(* submits.                                                                *)
LEMMA SequenceInvNext == TypeLock /\ SequenceInv /\ [Next]_vars => SequenceInv'
<1>. SUFFICES ASSUME TypeLock, SequenceInv, [Next]_vars
              PROVE  SequenceInv'
  OBVIOUS
<1>. USE DEF SequenceInv, SequencesAccepted, deviceVars
<1>1. \A t, u \in Thread : HoldsInner(t) /\ HoldsInner(u) => t = u
  BY DEF TypeLock, LockInv, Holds
<1>2. ASSUME NEW t \in Thread, Start(t) \/ Continue(t)
      PROVE  SequenceInv'
  <2>1. OnlyMoves(t)
    BY <1>2, StepOfOneThread
  <2>2. CASE AllocSequence(t)
    <3>1. \A u \in Thread \ {t} : pc'[u] # "device"
      BY <1>1, <2>1, <2>2 DEF AllocSequence, Goto, HoldsInner, OnlyMoves
    <3>2. seq'[t] = gSequence /\ gSequence' = gSequence + 1 /\ UNCHANGED <<deviceSeq, refused>>
      BY <2>2 DEF AllocSequence, TypeLock, TypeOK
    <3>. QED
      BY <3>1, <3>2 DEF TypeLock, TypeOK
  <2>3. CASE DeviceSubmit(t)
    <3>1. \A u \in Thread : pc'[u] # "device"
      BY <1>1, <2>1, <2>3 DEF DeviceSubmit, Goto, HoldsInner, OnlyMoves, TypeLock, TypeOK
    <3>2. deviceSeq < seq[t] /\ seq[t] < gSequence
      BY <2>3 DEF DeviceSubmit, Goto
    <3>3. deviceSeq' = seq[t] /\ refused' = refused /\ gSequence' = gSequence
      BY <2>3, <3>2 DEF DeviceSubmit, TypeLock, TypeOK
    <3>. QED
      BY <3>1, <3>2, <3>3
  <2>4. CASE UNCHANGED deviceVars /\ pc'[t] # "device"
    BY <2>1, <2>4 DEF OnlyMoves
  <2>. QED
    BY <1>2, <2>2, <2>3, <2>4, StepOfOneThread
<1>3. CASE UNCHANGED vars
  BY <1>3 DEF vars, threadVars
<1>. QED
  BY <1>2, <1>3 DEF Next, AllIdle

(* The device accepts every command, whatever the interleaving: the hold   *)
(* of g_submit_mutex across g_sequence.fetch_add and aecDeviceSubmit makes *)
(* the sequences it sees strictly increasing.                              *)
THEOREM DeviceNeverRefuses == Spec => []SequencesAccepted
<1>1. Init => SequenceInv
  BY DEF Init, SequenceInv, SequencesAccepted
<1>2. SequenceInv => SequencesAccepted
  BY DEF SequenceInv
<1>. QED
  BY <1>1, <1>2, SequenceInvNext, TypeLockInvariant, PTL DEF Spec

-----------------------------------------------------------------------------
(* A stream leaves the registry only in aecStreamDestroy's body, which the *)
(* thread reaches with g_submit_mutex held.                                *)
LEMMA OnlyDestroyRemoves ==
  ASSUME TypeLock, [Next]_vars, NEW s \in gStreams, s \notin gStreams'
  PROVE  \E t \in Thread : DestroyStreamBody(t)
<1>. SUFFICES ASSUME NEW t \in Thread, Start(t) \/ Continue(t), ~ DestroyStreamBody(t)
              PROVE  gStreams \subseteq gStreams'
  BY DEF Next, AllIdle, vars, streamVars
<1>. QED
  BY DEF Start, Continue, streamVars, RejectArguments, GetLastError, CopySync, Launch, CopyAsync,
         StreamDestroy, StreamSync, StreamCreate, EventCreate, EventDestroy, EventQuery, EventRecord,
         EventElapsed, Lifecycle, LockCopy, DispatchLock, DispatchLive, DispatchStale, SubmitLock,
         AllocSequence, DeviceSubmit, FinishSync, StashLock, Stash, CreateLock, InsertStream,
         InsertEvent, EnterSubmit, EnterTable, SyncStreamBody, DestroyEventBody, RecordEventBody,
         QueryEventBody, ElapsedBody

PastCheck == {"submit", "sequence", "device", "stash", "stashing"}

(* An asynchronous copy gets past its liveness check only by passing it.   *)
LEMMA OnlyLiveCopiesSubmit ==
  ASSUME TypeLock, NEW t \in Thread, Start(t) \/ Continue(t),
         call'[t].op = "copy_async", pc'[t] \in PastCheck
  PROVE  call'[t] = call[t] /\ (pc[t] \in PastCheck \/ DispatchLive(t))
<1>. USE DEF TypeLock, TypeOK, PastCheck
<1>1. CASE Start(t)
  BY <1>1 DEF Start, RejectArguments, GetLastError, CopySync, Launch, CopyAsync, StreamDestroy,
              StreamSync, StreamCreate, EventCreate, EventDestroy, EventQuery, EventRecord,
              EventElapsed, Lifecycle, Begin
<1>2. CASE LockCopy(t)
  BY <1>2, StreamsAssumption DEF LockCopy, Goto, CallOK
<1>3. CASE \/ DispatchLock(t) \/ DispatchLive(t) \/ SubmitLock(t) \/ AllocSequence(t)
           \/ DeviceSubmit(t) \/ StashLock(t) \/ CreateLock(t) \/ EnterSubmit(t) \/ EnterTable(t)
  BY <1>3 DEF DispatchLock, DispatchLive, SubmitLock, AllocSequence, DeviceSubmit, StashLock,
              CreateLock, EnterSubmit, EnterTable, Goto
<1>4. CASE \/ DispatchStale(t) \/ FinishSync(t) \/ Stash(t) \/ InsertStream(t) \/ InsertEvent(t)
           \/ DestroyStreamBody(t) \/ SyncStreamBody(t) \/ DestroyEventBody(t)
           \/ RecordEventBody(t) \/ QueryEventBody(t) \/ ElapsedBody(t)
  BY <1>4 DEF DispatchStale, FinishSync, Stash, InsertStream, InsertEvent, DestroyStreamBody,
              SyncStreamBody, DestroyEventBody, RecordEventBody, QueryEventBody, ElapsedBody,
              Body, Return, Goto
<1>. QED
  BY <1>1, <1>2, <1>3, <1>4 DEF Continue

LEMMA CopyFindsStreamLiveNext ==
  TypeLock /\ CopyFindsStreamLive /\ [Next]_vars => CopyFindsStreamLive'
<1>. SUFFICES ASSUME TypeLock, CopyFindsStreamLive, [Next]_vars,
                     NEW t \in Thread, call'[t].op = "copy_async", pc'[t] \in PastCheck
              PROVE  call'[t].stream \in gStreams'
  BY DEF CopyFindsStreamLive, PastCheck
<1>1. /\ call'[t] = call[t]
      /\ pc[t] \in PastCheck \cup {"check"}
      /\ call[t].stream \in gStreams
  <2>1. CASE Start(t) \/ Continue(t)
    BY <2>1, OnlyLiveCopiesSubmit DEF CopyFindsStreamLive, PastCheck, DispatchLive, Goto
  <2>2. ASSUME NEW u \in Thread \ {t}, Start(u) \/ Continue(u)
        PROVE  pc'[t] = pc[t] /\ call'[t] = call[t]
    BY <2>2, StepOfOneThread DEF OnlyMoves
  <2>3. CASE UNCHANGED vars
    BY <2>3 DEF vars, threadVars, CopyFindsStreamLive, PastCheck
  <2>. QED
    BY <2>1, <2>2, <2>3 DEF Next, AllIdle, CopyFindsStreamLive, PastCheck
<1>2. HoldsOuter(t)
  BY <1>1 DEF HoldsOuter, IsCopy, PastCheck
<1>3. ASSUME NEW u \in Thread, DestroyStreamBody(u)
      PROVE  FALSE
  <2>1. HoldsInner(u) /\ call[u].op = "stream_destroy"
    BY <1>3 DEF DestroyStreamBody, Body, Return, Goto, HoldsInner
  <2>2. u = t
    BY <1>2, <2>1 DEF TypeLock, LockInv, Holds
  <2>. QED
    BY <1>1, <2>1, <2>2
<1>. QED
  BY <1>1, <1>3, OnlyDestroyRemoves

(* aecStreamDestroy never pulls a stream from under an asynchronous copy   *)
(* that has passed its liveness check.                                     *)
THEOREM CopiesFindTheirStream == Spec => []CopyFindsStreamLive
<1>1. Init => CopyFindsStreamLive
  BY DEF Init, CopyFindsStreamLive, NoCall
<1>. QED
  BY <1>1, CopyFindsStreamLiveNext, TypeLockInvariant, PTL DEF Spec

-----------------------------------------------------------------------------
(* Handles.  An address is out once exactly if its object is live or       *)
(* retired, and an object under construction is at an address that is not  *)
(* out and that no other construction has.                                 *)
Creating(t) == pc[t] \in {"create", "insert"}

NewHandle(t) ==
  \/ call[t].op = "stream_create" /\ call[t].stream \in StreamAddr \ KnownStreams
  \/ call[t].op = "event_create" /\ call[t].event \in EventAddr \ KnownEvents

IssueInv ==
  /\ \A t \in Thread : Creating(t) => NewHandle(t)
  /\ \A t, u \in Thread :
       (t # u /\ Creating(t) /\ Creating(u) /\ call[t].op = call[u].op) =>
         IF call[t].op = "stream_create" THEN call[t].stream # call[u].stream
                                         ELSE call[t].event # call[u].event
  /\ \A s \in StreamAddr : issued[s] = IF s \in KnownStreams THEN 1 ELSE 0
  /\ \A e \in EventAddr : issued[e] = IF e \in KnownEvents THEN 1 ELSE 0

(* A step that does not create or publish an object leaves the handles     *)
(* that are out alone: destroying one only retires it.                     *)
LEMMA HandlesKept ==
  ASSUME TypeLock, NEW t \in Thread, Start(t) \/ Continue(t),
         ~ \E s \in StreamAddr : StreamCreate(t, s), ~ \E e \in EventAddr : EventCreate(t, e),
         ~ CreateLock(t), ~ InsertStream(t), ~ InsertEvent(t)
  PROVE  /\ UNCHANGED issued /\ KnownStreams' = KnownStreams /\ KnownEvents' = KnownEvents
         /\ ~ Creating(t)'
<1>. USE DEF TypeLock, TypeOK, Creating, KnownStreams, KnownEvents, streamVars, eventVars, history
<1>1. CASE Start(t)
  BY <1>1 DEF Start, RejectArguments, GetLastError, CopySync, Launch, CopyAsync, StreamDestroy,
              StreamSync, EventDestroy, EventQuery, EventRecord, EventElapsed, Lifecycle, Begin
<1>2. CASE \/ LockCopy(t) \/ DispatchLock(t) \/ DispatchLive(t) \/ SubmitLock(t)
           \/ AllocSequence(t) \/ DeviceSubmit(t) \/ StashLock(t) \/ EnterSubmit(t) \/ EnterTable(t)
  BY <1>2 DEF LockCopy, DispatchLock, DispatchLive, SubmitLock, AllocSequence, DeviceSubmit,
              StashLock, EnterSubmit, EnterTable, Goto
<1>3. CASE \/ DispatchStale(t) \/ FinishSync(t) \/ Stash(t) \/ SyncStreamBody(t)
           \/ RecordEventBody(t) \/ QueryEventBody(t) \/ ElapsedBody(t)
  BY <1>3 DEF DispatchStale, FinishSync, Stash, SyncStreamBody, RecordEventBody, QueryEventBody,
              ElapsedBody, Body, Return, Goto
<1>4. CASE DestroyStreamBody(t)
  BY <1>4 DEF DestroyStreamBody, Body, Return, Goto
<1>5. CASE DestroyEventBody(t)
  BY <1>5 DEF DestroyEventBody, Body, Return, Goto
<1>. QED
  BY <1>1, <1>2, <1>3, <1>4, <1>5 DEF Continue

(* Every step keeps it: operator new gives out no address that is taken,   *)
(* and the address is taken until the process ends.                        *)
LEMMA IssueInvNext == TypeLock /\ IssueInv /\ [Next]_vars => IssueInv'
<1>. SUFFICES ASSUME TypeLock, IssueInv, [Next]_vars
              PROVE  IssueInv'
  OBVIOUS
<1>1. ASSUME NEW t \in Thread, Start(t) \/ Continue(t)
      PROVE  IssueInv'
  <2>. /\ OnlyMoves(t) /\ pc \in [Thread -> Labels] /\ call \in [Thread -> Call]
       /\ issued \in [StreamAddr \cup EventAddr -> Nat] /\ KnownStreams \subseteq StreamAddr
       /\ KnownEvents \subseteq EventAddr
    BY <1>1, StepOfOneThread DEF TypeLock, TypeOK, KnownStreams, KnownEvents
  <2>. USE DEF OnlyMoves
  <2>1. ASSUME NEW s \in StreamAddr, StreamCreate(t, s) PROVE IssueInv'
    <3>1. /\ UNCHANGED issued /\ KnownStreams' = KnownStreams /\ KnownEvents' = KnownEvents
          /\ call'[t].op = "stream_create" /\ call'[t].stream = s
      BY <2>1 DEF StreamCreate, Begin, KnownStreams, KnownEvents, eventVars
    <3>2. s \notin KnownStreams /\ \A u \in Thread : Creating(u) => call[u].stream # s
      BY <2>1 DEF StreamCreate, FreshStreams, Creating
    <3>. QED
      BY <3>1, <3>2 DEF IssueInv, NewHandle, Creating
  <2>2. ASSUME NEW e \in EventAddr, EventCreate(t, e) PROVE IssueInv'
    <3>1. /\ UNCHANGED issued /\ KnownStreams' = KnownStreams /\ KnownEvents' = KnownEvents
          /\ call'[t].op = "event_create" /\ call'[t].event = e
      BY <2>2 DEF EventCreate, Begin, KnownStreams, KnownEvents, streamVars, history
    <3>2. e \notin KnownEvents /\ \A u \in Thread : Creating(u) => call[u].event # e
      BY <2>2 DEF EventCreate, FreshEvents, Creating
    <3>. QED
      BY <3>1, <3>2 DEF IssueInv, NewHandle, Creating
  <2>3. CASE CreateLock(t)
    <3>1. /\ UNCHANGED <<issued, call>> /\ KnownStreams' = KnownStreams /\ KnownEvents' = KnownEvents
          /\ Creating(t)
      BY <2>3 DEF CreateLock, Goto, Creating, KnownStreams, KnownEvents, streamVars, eventVars, history
    <3>. QED
      BY <3>1 DEF IssueInv, NewHandle, Creating
  <2>4. CASE InsertStream(t)
    <3>. DEFINE s == call[t].stream
    <3>1. /\ Creating(t) /\ ~ Creating(t)' /\ call[t].op = "stream_create"
          /\ issued' = [issued EXCEPT ![s] = @ + 1]
          /\ KnownStreams' = KnownStreams \cup {s} /\ KnownEvents' = KnownEvents
      BY <2>4 DEF InsertStream, Return, Goto, Creating, KnownStreams, KnownEvents, eventVars
    <3>2. s \in StreamAddr \ KnownStreams /\ s \notin EventAddr
      BY <3>1, StreamsAssumption DEF IssueInv, NewHandle
    <3>3. /\ \A r \in StreamAddr : issued'[r] = IF r \in KnownStreams' THEN 1 ELSE 0
          /\ \A e \in EventAddr : issued'[e] = IF e \in KnownEvents' THEN 1 ELSE 0
      BY <3>1, <3>2 DEF IssueInv
    <3>4. \A u \in Thread : Creating(u)' => u # t /\ Creating(u) /\ NewHandle(u)'
      BY <3>1, <3>2 DEF IssueInv, NewHandle, Creating
    <3>. QED
      BY <3>3, <3>4 DEF IssueInv
  <2>5. CASE InsertEvent(t)
    <3>. DEFINE e == call[t].event
    <3>1. /\ Creating(t) /\ ~ Creating(t)' /\ call[t].op = "event_create"
          /\ issued' = [issued EXCEPT ![e] = @ + 1]
          /\ KnownEvents' = KnownEvents \cup {e} /\ KnownStreams' = KnownStreams
      BY <2>5 DEF InsertEvent, Return, Goto, Creating, KnownStreams, KnownEvents, streamVars
    <3>2. e \in EventAddr \ KnownEvents /\ e \notin StreamAddr
      BY <3>1, StreamsAssumption DEF IssueInv, NewHandle
    <3>3. /\ \A r \in EventAddr : issued'[r] = IF r \in KnownEvents' THEN 1 ELSE 0
          /\ \A s \in StreamAddr : issued'[s] = IF s \in KnownStreams' THEN 1 ELSE 0
      BY <3>1, <3>2 DEF IssueInv
    <3>4. \A u \in Thread : Creating(u)' => u # t /\ Creating(u) /\ NewHandle(u)'
      BY <3>1, <3>2 DEF IssueInv, NewHandle, Creating
    <3>. QED
      BY <3>3, <3>4 DEF IssueInv
  <2>6. CASE /\ UNCHANGED issued /\ KnownStreams' = KnownStreams /\ KnownEvents' = KnownEvents
             /\ ~ Creating(t)'
    BY <2>6 DEF IssueInv, NewHandle, Creating
  <2>. QED
    BY <1>1, <2>1, <2>2, <2>3, <2>4, <2>5, <2>6, HandlesKept
<1>2. CASE UNCHANGED vars
  BY <1>2 DEF vars, threadVars, streamVars, eventVars, history, IssueInv, NewHandle, Creating,
              KnownStreams, KnownEvents
<1>. QED
  BY <1>1, <1>2 DEF Next, AllIdle

(* No handle is handed out twice, however many objects are created and     *)
(* destroyed: a destroyed one keeps its address.                           *)
THEOREM HandlesStayUnique == Spec => []HandlesNotReissued
<1>1. Init => IssueInv
  BY DEF Init, IssueInv, Creating, KnownStreams, KnownEvents
<1>2. TypeLock /\ IssueInv => HandlesNotReissued
  BY DEF TypeLock, TypeOK, IssueInv, HandlesNotReissued
<1>. QED
  BY <1>1, <1>2, IssueInvNext, TypeLockInvariant, PTL DEF Spec

-----------------------------------------------------------------------------
(* What a thread outside a call, at the end of a synchronous command or in *)
(* a call about events alone has for a stream: none.                       *)
Streamless(t) ==
  (pc[t] \in {"idle", "finish"} \/ call[t].op \in {"event_query", "event_elapsed"})
    => call[t].stream = NullStream
StreamlessCalls == \A t \in Thread : Streamless(t)

(* Every step keeps them without one.                                      *)
LEMMA StreamlessCallsNext == TypeLock /\ StreamlessCalls /\ [Next]_vars => StreamlessCalls'
<1>. SUFFICES ASSUME TypeLock, StreamlessCalls, [Next]_vars
              PROVE  StreamlessCalls'
  OBVIOUS
<1>1. ASSUME NEW t \in Thread, Start(t) \/ Continue(t)
      PROVE  StreamlessCalls'
  <2>. OnlyMoves(t) /\ pc \in [Thread -> Labels] /\ call \in [Thread -> Call] /\ Streamless(t)
    BY <1>1, StepOfOneThread DEF TypeLock, TypeOK, StreamlessCalls
  <2>. USE DEF Streamless
  <2>. SUFFICES Streamless(t)'
    BY DEF StreamlessCalls, OnlyMoves
  <2>1. CASE Start(t)
    BY <2>1 DEF Start, RejectArguments, GetLastError, CopySync, Launch, CopyAsync, StreamDestroy,
                StreamSync, StreamCreate, EventCreate, EventDestroy, EventQuery, EventRecord,
                EventElapsed, Lifecycle, Begin
  <2>2. CASE \/ LockCopy(t) \/ DispatchLock(t) \/ DispatchLive(t) \/ SubmitLock(t)
             \/ AllocSequence(t) \/ DeviceSubmit(t) \/ StashLock(t) \/ CreateLock(t)
             \/ EnterSubmit(t) \/ EnterTable(t)
    BY <2>2 DEF LockCopy, DispatchLock, DispatchLive, SubmitLock, AllocSequence, DeviceSubmit,
                StashLock, CreateLock, EnterSubmit, EnterTable, Goto
  <2>3. CASE \/ DispatchStale(t) \/ FinishSync(t) \/ Stash(t) \/ InsertStream(t) \/ InsertEvent(t)
             \/ DestroyStreamBody(t) \/ SyncStreamBody(t) \/ DestroyEventBody(t)
             \/ RecordEventBody(t) \/ QueryEventBody(t) \/ ElapsedBody(t)
    BY <2>3 DEF DispatchStale, FinishSync, Stash, InsertStream, InsertEvent, DestroyStreamBody,
                SyncStreamBody, DestroyEventBody, RecordEventBody, QueryEventBody, ElapsedBody,
                Body, Return, Goto, NoCall
  <2>. QED
    BY <1>1, <2>1, <2>2, <2>3 DEF Continue
<1>2. CASE UNCHANGED vars
  BY <1>2 DEF vars, threadVars, StreamlessCalls, Streamless
<1>. QED
  BY <1>1, <1>2 DEF Next, AllIdle

(* A step changes the last error of its own thread only, and not to an     *)
(* error of the device unless the call has no stream or asks for it.       *)
LEMMA ErrorsOfStep ==
  ASSUME TypeLock, StreamlessCalls, NEW t \in Thread, Start(t) \/ Continue(t),
         NEW u \in Thread, lastError'[u] # lastError[u], lastError'[u] \in DeviceError
  PROVE  call[u].stream = NullStream \/ call[u].op = "stream_sync"
<1>. lastError \in [Thread -> Status]
  BY DEF TypeLock, TypeOK, ThreadTypeOK
<1>. Success \notin DeviceError /\ InvalidHandle \notin DeviceError
  BY StreamsAssumption
<1>1. CASE RejectArguments(t) \/ GetLastError(t)
  BY <1>1 DEF RejectArguments, GetLastError, Finish, StreamlessCalls, Streamless
<1>2. CASE Start(t) /\ ~ RejectArguments(t) /\ ~ GetLastError(t)
  BY <1>2 DEF Start, CopySync, Launch, CopyAsync, StreamDestroy, StreamSync, StreamCreate,
              EventCreate, EventDestroy, EventQuery, EventRecord, EventElapsed, Lifecycle
<1>3. CASE \/ LockCopy(t) \/ DispatchLock(t) \/ DispatchLive(t) \/ SubmitLock(t)
           \/ AllocSequence(t) \/ DeviceSubmit(t) \/ StashLock(t) \/ CreateLock(t)
           \/ EnterSubmit(t) \/ EnterTable(t)
  BY <1>3 DEF LockCopy, DispatchLock, DispatchLive, SubmitLock, AllocSequence, DeviceSubmit,
              StashLock, CreateLock, EnterSubmit, EnterTable, localVars
<1>4. CASE \/ DispatchStale(t) \/ Stash(t) \/ InsertStream(t) \/ InsertEvent(t)
           \/ DestroyStreamBody(t) \/ DestroyEventBody(t) \/ RecordEventBody(t)
  BY <1>4 DEF DispatchStale, Stash, InsertStream, InsertEvent, DestroyStreamBody,
              DestroyEventBody, RecordEventBody, Body, Return, Finish
<1>5. CASE FinishSync(t)
  BY <1>5 DEF FinishSync, Return, Goto, Finish, StreamlessCalls, Streamless
<1>6. CASE SyncStreamBody(t) \/ QueryEventBody(t) \/ ElapsedBody(t)
  BY <1>6 DEF SyncStreamBody, QueryEventBody, ElapsedBody, Body, Return, Finish, StreamlessCalls,
              Streamless
<1>. QED
  BY <1>1, <1>2, <1>3, <1>4, <1>5, <1>6 DEF Continue

(* An enqueue never returns the error of its own or of an earlier command: *)
(* that error waits on the stream until aecStreamSync asks for it.         *)
THEOREM ErrorsStayOnStream == Spec => AsyncErrorsStayOnStream
<1>. DEFINE Step ==
       \A t \in Thread :
         (lastError'[t] # lastError[t] /\ lastError'[t] \in DeviceError)
           => (call[t].stream = NullStream \/ call[t].op = "stream_sync")
<1>1. Init => StreamlessCalls
  BY DEF Init, StreamlessCalls, Streamless, NoCall
<1>2. TypeLock /\ StreamlessCalls /\ [Next]_vars => [Step]_vars
  BY ErrorsOfStep DEF Next, AllIdle
<1>. QED
  BY <1>1, <1>2, StreamlessCallsNext, TypeLockInvariant, PTL DEF Spec, AsyncErrorsStayOnStream

-----------------------------------------------------------------------------
(* Cycles and errors.  A command that the device has run is on its way to  *)
(* its stream while its thread is at one of the labels Flight.             *)
Flight == {"stash", "stashing"}
CommandLabels == {"copy", "lookup", "check", "submit", "sequence", "device", "finish"} \cup Flight

(* Commands name streams that some create call has returned.               *)
CommandOK(t) ==
  pc[t] \in CommandLabels =>
    /\ call[t].op \in {"launch", "copy", "copy_async"}
    /\ call[t].op = "copy" => call[t].stream = NullStream
    /\ call[t].stream \in KnownStreams \cup {NullStream}
    /\ pc[t] \in Flight => call[t].stream \in KnownStreams

Commands == \A t \in Thread : CommandOK(t)

(* Nothing has happened to an object that is not published yet.            *)
CreatingStream(t) == Creating(t) /\ call[t].op = "stream_create"
Pristine(s) ==
  stream[s].cycles = 0 /\ stream[s].pending = Success /\ executed[s] = 0 /\ unreported[s] = {}
FreshObjects == \A t \in Thread : CreatingStream(t) => Pristine(call[t].stream)

(* Sequences tell the failed commands of a stream apart: those in flight   *)
(* have one each, of which the device knows the outcome.                   *)
Outcome(t) ==
  pc[t] \in Flight =>
    /\ seq[t] <= deviceSeq
    /\ IF outcome[t] = Success
       THEN \A c \in unreported[call[t].stream] : c[1] # seq[t]
       ELSE <<seq[t], outcome[t]>> \in unreported[call[t].stream]

Outcomes ==
  /\ \A s \in StreamAddr : \A c \in unreported[s] : c[1] <= deviceSeq
  /\ \A t \in Thread : Outcome(t)
  /\ \A t, u \in Thread :
       t # u /\ pc[t] \in Flight /\ pc[u] \in Flight => seq[t] # seq[u]

AccountInv == Commands /\ FreshObjects /\ Outcomes /\ StreamsAccounted

(* What most steps do: the accounts stay as they are, and so does what is  *)
(* in flight.                                                              *)
Bystander(t) ==
  /\ UNCHANGED <<stream, executed, unreported, deviceSeq>>
  /\ gStreams' \subseteq gStreams /\ KnownStreams' = KnownStreams
  /\ pc'[t] \in Flight <=> pc[t] \in Flight
  /\ pc[t] \in Flight => call'[t] = call[t] /\ seq'[t] = seq[t] /\ outcome'[t] = outcome[t]
  /\ CommandOK(t)'
  /\ CreatingStream(t)' => CreatingStream(t) /\ call'[t] = call[t]

LEMMA MostStepsStandBy ==
  ASSUME TypeLock, Commands, NEW t \in Thread, Start(t) \/ Continue(t),
         ~ \E s \in StreamAddr : StreamCreate(t, s),
         ~ DeviceSubmit(t), ~ Stash(t), ~ SyncStreamBody(t), ~ InsertStream(t)
  PROVE  Bystander(t)
<1>. CommandOK(t)
  BY DEF Commands
<1>. USE DEF TypeLock, TypeOK, Bystander, Flight, CommandLabels, CommandOK, CreatingStream, Creating,
             KnownStreams, streamVars, eventVars, deviceVars, localVars, history
<1>1. CASE Start(t)
  BY <1>1, StreamsAssumption
     DEF Start, RejectArguments, GetLastError, CopySync, Launch, CopyAsync, StreamDestroy,
         StreamSync, EventCreate, EventDestroy, EventQuery, EventRecord, EventElapsed, Lifecycle, Begin
<1>2. CASE \/ LockCopy(t) \/ DispatchLock(t) \/ DispatchLive(t) \/ SubmitLock(t)
           \/ AllocSequence(t) \/ StashLock(t) \/ CreateLock(t) \/ EnterSubmit(t) \/ EnterTable(t)
  BY <1>2 DEF LockCopy, DispatchLock, DispatchLive, SubmitLock, AllocSequence, StashLock,
              CreateLock, EnterSubmit, EnterTable, Goto
<1>3. CASE \/ DispatchStale(t) \/ FinishSync(t) \/ InsertEvent(t) \/ DestroyEventBody(t)
           \/ RecordEventBody(t) \/ QueryEventBody(t) \/ ElapsedBody(t)
  BY <1>3 DEF DispatchStale, FinishSync, InsertEvent, DestroyEventBody, RecordEventBody,
              QueryEventBody, ElapsedBody, Body, Return, Goto
<1>4. CASE DestroyStreamBody(t)
  BY <1>4 DEF DestroyStreamBody, Body, Return, Goto
<1>. QED
  BY <1>1, <1>2, <1>3, <1>4 DEF Continue

(* A step that stands by keeps the accounts.                               *)
LEMMA StandingBy ==
  ASSUME TypeLock, AccountInv, NEW t \in Thread, OnlyMoves(t), Bystander(t)
  PROVE  AccountInv'
<1>. USE DEF OnlyMoves, Bystander
<1>1. Commands'
  BY DEF AccountInv, Commands, CommandOK
<1>2. FreshObjects'
  BY DEF AccountInv, FreshObjects, CreatingStream, Creating, Pristine
<1>3. Outcomes'
  BY DEF AccountInv, Outcomes, Outcome
<1>4. \A s, ops : Unstashed(s, ops)' = Unstashed(s, ops)
  BY DEF Unstashed, Flight
<1>5. \A s : InFlight(s)' = InFlight(s)
  BY DEF InFlight, Flight
<1>6. StreamsAccounted'
  BY <1>4, <1>5 DEF AccountInv, StreamsAccounted, CyclesConserved, ErrorsAccounted, StashedErrors
<1>. QED
  BY <1>1, <1>2, <1>3, <1>6 DEF AccountInv

(* A new object is at an address that no command names.                    *)
LEMMA AccountCreate ==
  ASSUME TypeLock, IssueInv, AccountInv, NEW t \in Thread, OnlyMoves(t),
         NEW s \in StreamAddr, StreamCreate(t, s)
  PROVE  AccountInv'
<1>1. /\ stream' = [stream EXCEPT ![s] = [NewStream EXCEPT !.id = nextStreamId]]
      /\ executed' = [executed EXCEPT ![s] = 0]
      /\ unreported' = [unreported EXCEPT ![s] = {}]
      /\ UNCHANGED <<seq, outcome, gStreams, deviceSeq>> /\ KnownStreams' = KnownStreams
      /\ pc[t] = "idle" /\ pc'[t] = "create"
      /\ call'[t].op = "stream_create" /\ call'[t].stream = s
  BY DEF StreamCreate, Begin, KnownStreams, deviceVars, TypeLock, TypeOK
<1>2. /\ s \notin KnownStreams
      /\ \A u \in Thread : CreatingStream(u) => call[u].stream \in StreamAddr \ {s}
  BY DEF StreamCreate, FreshStreams, CreatingStream, Creating, IssueInv, NewHandle
<1>. USE DEF OnlyMoves
<1>3. Commands'
  BY <1>1 DEF AccountInv, Commands, CommandOK, CommandLabels, Flight
<1>4. Pristine(s)'
  BY <1>1 DEF Pristine, NewStream, TypeLock, TypeOK
<1>5. \A r \in StreamAddr \ {s} : Pristine(r) => Pristine(r)'
  BY <1>1 DEF Pristine, TypeLock, TypeOK
<1>6. FreshObjects'
  BY <1>1, <1>2, <1>4, <1>5 DEF AccountInv, FreshObjects, CreatingStream, Creating
<1>7. \A u \in Thread : pc'[u] \in Flight => u # t /\ pc[u] \in Flight /\ call[u].stream \in StreamAddr \ {s}
  BY <1>1, <1>2 DEF Flight, AccountInv, Commands, CommandOK, CommandLabels, KnownStreams, TypeLock, TypeOK
<1>8. /\ unreported'[s] = {}
      /\ \A r \in StreamAddr \ {s} : unreported'[r] = unreported[r] /\ stream'[r] = stream[r]
                                     /\ executed'[r] = executed[r]
  BY <1>1 DEF TypeLock, TypeOK
<1>9. Outcomes'
  BY <1>1, <1>7, <1>8 DEF AccountInv, Outcomes, Outcome
<1>10. \A r, ops : Unstashed(r, ops)' = Unstashed(r, ops)
  BY <1>1 DEF Unstashed
<1>11. \A r : InFlight(r)' = InFlight(r)
  BY <1>1 DEF InFlight
<1>12. gStreams' = gStreams /\ gStreams \subseteq StreamAddr \ {s}
  BY <1>1, <1>2 DEF KnownStreams, TypeLock, TypeOK
<1>13. StreamsAccounted'
  BY <1>8, <1>10, <1>11, <1>12
     DEF AccountInv, StreamsAccounted, CyclesConserved, ErrorsAccounted, StashedErrors
<1>. QED
  BY <1>3, <1>6, <1>9, <1>13 DEF AccountInv

(* A published object has no commands yet.                                 *)
LEMMA AccountInsert ==
  ASSUME TypeLock, IssueInv, AccountInv, NEW t \in Thread, OnlyMoves(t), InsertStream(t)
  PROVE  AccountInv'
<1>. DEFINE s == call[t].stream
<1>1. /\ UNCHANGED <<stream, executed, unreported, deviceSeq>>
      /\ gStreams' = gStreams \cup {s} /\ KnownStreams' = KnownStreams \cup {s}
      /\ pc[t] = "insert" /\ pc'[t] = "idle" /\ CreatingStream(t)
  BY DEF InsertStream, Return, Goto, KnownStreams, deviceVars, CreatingStream, Creating, TypeLock, TypeOK
<1>2. s \in StreamAddr \ KnownStreams /\ Pristine(s)
  BY <1>1 DEF CreatingStream, IssueInv, NewHandle, AccountInv, FreshObjects
<1>. USE DEF OnlyMoves
<1>3. Commands'
  BY <1>1 DEF AccountInv, Commands, CommandOK, CommandLabels, Flight
<1>4. FreshObjects'
  BY <1>1 DEF AccountInv, FreshObjects, CreatingStream, Creating, Pristine
<1>5. Outcomes'
  BY <1>1 DEF AccountInv, Outcomes, Outcome, Flight
<1>6. \A r, ops : Unstashed(r, ops)' = Unstashed(r, ops)
  BY <1>1 DEF Unstashed
<1>7. \A r : InFlight(r)' = InFlight(r)
  BY <1>1 DEF InFlight
<1>8. Unstashed(s, AllOps) = {}
  BY <1>2 DEF Unstashed, AccountInv, Commands, CommandOK, CommandLabels, Flight
<1>9. CyclesConserved'
  BY <1>1, <1>2, <1>6, <1>8, FS_EmptySet DEF AccountInv, StreamsAccounted, CyclesConserved, Pristine
<1>10. ErrorsAccounted'
  BY <1>1, <1>2, <1>7 DEF AccountInv, StreamsAccounted, ErrorsAccounted, StashedErrors, Pristine
<1>. QED
  BY <1>3, <1>4, <1>5, <1>9, <1>10 DEF AccountInv, StreamsAccounted

(* aecStreamSync answers for what is stashed; what is in flight it leaves. *)
LEMMA AccountSync ==
  ASSUME TypeLock, AccountInv, NEW t \in Thread, OnlyMoves(t), SyncStreamBody(t)
  PROVE  AccountInv'
<1>. PICK s : s = call[t].stream
  OBVIOUS
<1>1. /\ UNCHANGED <<gStreams, executed, deviceSeq>> /\ KnownStreams' = KnownStreams
      /\ pc[t] = "body" /\ pc'[t] = "idle"
  BY DEF SyncStreamBody, Body, Return, Goto, KnownStreams, deviceVars, TypeLock, TypeOK
<1>. USE DEF OnlyMoves
<1>2. CASE s \notin gStreams
  <2>1. Bystander(t)
    BY <1>1, <1>2 DEF SyncStreamBody, Bystander, Flight, CommandOK, CommandLabels, CreatingStream, Creating
  <2>. QED
    BY <2>1, StandingBy
<1>3. CASE s \in gStreams
  <2>1. /\ s \in StreamAddr
        /\ stream' = [stream EXCEPT ![s].pending = Success]
        /\ unreported' = [unreported EXCEPT ![s] = {c \in @ : c[1] \in InFlight(s)}]
    BY <1>3 DEF SyncStreamBody, TypeLock, TypeOK
  <2>2. /\ stream'[s].pending = Success
        /\ unreported'[s] = {c \in unreported[s] : c[1] \in InFlight(s)}
        /\ \A r \in StreamAddr : stream'[r].cycles = stream[r].cycles
        /\ \A r \in StreamAddr \ {s} : stream'[r] = stream[r] /\ unreported'[r] = unreported[r]
    BY <2>1 DEF TypeLock, TypeOK, StreamObject
  <2>3. Commands'
    BY <1>1 DEF AccountInv, Commands, CommandOK, CommandLabels, Flight
  <2>4. FreshObjects'
    <3>1. \A r \in StreamAddr : Pristine(r) => Pristine(r)'
      BY <1>1, <2>2 DEF Pristine
    <3>2. \A u \in Thread : CreatingStream(u)' =>
            CreatingStream(u) /\ call'[u] = call[u] /\ call[u].stream \in StreamAddr
      BY <1>1 DEF CreatingStream, Creating, TypeLock, TypeOK, CallOK
    <3>. QED
      BY <3>1, <3>2 DEF AccountInv, FreshObjects
  <2>5. Outcomes'
    <3>1. \A r \in StreamAddr : unreported'[r] \subseteq unreported[r]
      BY <2>2
    <3>2. ASSUME NEW u \in Thread, pc'[u] \in Flight
          PROVE  /\ u # t /\ pc[u] \in Flight /\ call[u].stream \in StreamAddr
                 /\ call[u].stream = s => seq[u] \in InFlight(s)
      BY <1>1, <3>2 DEF Flight, InFlight, AccountInv, Commands, CommandOK, CommandLabels, KnownStreams,
                        TypeLock, TypeOK
    <3>3. \A u \in Thread : Outcome(u)'
      BY <1>1, <2>2, <3>1, <3>2 DEF AccountInv, Outcomes, Outcome
    <3>. QED
      BY <1>1, <3>1, <3>2, <3>3 DEF AccountInv, Outcomes
  <2>6. \A r, ops : Unstashed(r, ops)' = Unstashed(r, ops)
    BY <1>1 DEF Unstashed
  <2>7. \A r : InFlight(r)' = InFlight(r)
    BY <1>1 DEF InFlight
  <2>8. CyclesConserved'
    BY <1>1, <2>2, <2>6 DEF AccountInv, StreamsAccounted, CyclesConserved, TypeLock, TypeOK
  <2>9. ErrorsAccounted'
    <3>1. StashedErrors(s)' = {}
      BY <2>2, <2>7 DEF StashedErrors
    <3>2. \A r \in StreamAddr \ {s} : StashedErrors(r)' = StashedErrors(r)
      BY <2>2, <2>7 DEF StashedErrors
    <3>. QED
      BY <1>1, <2>2, <3>1, <3>2 DEF AccountInv, StreamsAccounted, ErrorsAccounted, TypeLock, TypeOK
  <2>. QED
    BY <2>3, <2>4, <2>5, <2>8, <2>9 DEF AccountInv, StreamsAccounted
<1>. QED
  BY <1>2, <1>3

(* The threads whose command has succeeded and is in flight are finitely   *)
(* many.                                                                   *)
LEMMA UnstashedFinite ==
  ASSUME NEW s, NEW ops
  PROVE  IsFiniteSet(Unstashed(s, ops)) /\ Cardinality(Unstashed(s, ops)) \in Nat
<1>1. Unstashed(s, ops) \in SUBSET Thread
  BY DEF Unstashed
<1>. QED
  BY <1>1, FS_Subset, FS_CardinalityType, StreamsAssumption

(* What dispatch() stashes it takes out of flight.                         *)
LEMMA AccountStash ==
  ASSUME TypeLock, IssueInv, AccountInv, NEW t \in Thread, OnlyMoves(t), Stash(t)
  PROVE  AccountInv'
<1>. PICK s : s = call[t].stream
  OBVIOUS
<1>1. /\ UNCHANGED <<gStreams, executed, unreported, deviceSeq>> /\ KnownStreams' = KnownStreams
      /\ pc[t] = "stashing" /\ pc'[t] = "idle"
      /\ stream' = IF s \in gStreams THEN [stream EXCEPT ![s] = Stashed(@, outcome[t])] ELSE stream
  BY DEF Stash, Return, Goto, KnownStreams, deviceVars, history, TypeLock, TypeOK
<1>2. s \in KnownStreams /\ s \in StreamAddr /\ call[t].op \in AllOps
  BY <1>1 DEF AccountInv, Commands, CommandOK, CommandLabels, Flight, KnownStreams, AllOps, TypeLock, TypeOK
<1>3. /\ \A r \in StreamAddr \ {s} : stream'[r] = stream[r]
      /\ s \in gStreams => /\ stream'[s].cycles = stream[s].cycles + CyclesOf(outcome[t])
                           /\ stream'[s].pending = IF stream[s].pending = Success THEN outcome[t]
                                                   ELSE stream[s].pending
  BY <1>1, <1>2 DEF Stashed, TypeLock, TypeOK, StreamObject
<1>. USE DEF OnlyMoves
<1>4. Commands'
  BY <1>1 DEF AccountInv, Commands, CommandOK, CommandLabels, Flight
<1>5. FreshObjects'
  <2>1. \A u \in Thread : CreatingStream(u)' => u # t /\ CreatingStream(u) /\ call'[u] = call[u]
    BY <1>1 DEF CreatingStream, Creating
  <2>2. \A u \in Thread : CreatingStream(u) => stream'[call[u].stream] = stream[call[u].stream]
    BY <1>2, <1>3 DEF CreatingStream, IssueInv, NewHandle
  <2>. QED
    BY <1>1, <2>1, <2>2 DEF AccountInv, FreshObjects, Pristine
<1>6. Outcomes'
  BY <1>1 DEF AccountInv, Outcomes, Outcome, Flight
<1>7. /\ Unstashed(s, AllOps)' = Unstashed(s, AllOps) \ {t}
      /\ t \in Unstashed(s, AllOps) <=> outcome[t] = Success
      /\ \A r \in StreamAddr \ {s} : Unstashed(r, AllOps)' = Unstashed(r, AllOps)
  BY <1>1, <1>2 DEF Unstashed
<1>8. /\ InFlight(s)' = InFlight(s) \ {seq[t]} /\ seq[t] \in InFlight(s)
      /\ \A r \in StreamAddr \ {s} : InFlight(r)' = InFlight(r)
  BY <1>1 DEF InFlight, AccountInv, Outcomes, Flight
<1>9. CyclesConserved'
  <2>1. ASSUME s \in gStreams
        PROVE  stream'[s].cycles + Cardinality(Unstashed(s, AllOps)') = executed[s]
    <3>1. Cardinality(Unstashed(s, AllOps)')
            = IF outcome[t] = Success THEN Cardinality(Unstashed(s, AllOps)) - 1
              ELSE Cardinality(Unstashed(s, AllOps))
      <4>1. \A U : IsFiniteSet(U) =>
              Cardinality(U \ {t}) = IF t \in U THEN Cardinality(U) - 1 ELSE Cardinality(U)
        BY FS_RemoveElement
      <4>. QED
        BY <1>7, <4>1, UnstashedFinite
    <3>2. stream[s].cycles + Cardinality(Unstashed(s, AllOps)) = executed[s] /\ stream[s].cycles \in Nat
      BY <1>2, <2>1 DEF AccountInv, StreamsAccounted, CyclesConserved, TypeLock, TypeOK, StreamObject
    <3>. QED
      BY <1>3, <2>1, <3>1, <3>2, UnstashedFinite DEF CyclesOf
  <2>2. ASSUME NEW r \in gStreams, r # s
        PROVE  stream'[r].cycles + Cardinality(Unstashed(r, AllOps)') = executed[r]
    BY <1>3, <1>7, <2>2 DEF AccountInv, StreamsAccounted, CyclesConserved, TypeLock, TypeOK
  <2>. QED
    BY <1>1, <2>1, <2>2 DEF CyclesConserved
<1>10. ErrorsAccounted'
  <2>1. \A r \in StreamAddr \ {s} : StashedErrors(r)' = StashedErrors(r)
    BY <1>1, <1>8 DEF StashedErrors
  <2>2. StashedErrors(s)' = StashedErrors(s) \cup {c \in unreported[s] : c[1] = seq[t]}
    BY <1>1, <1>8 DEF StashedErrors
  <2>3. IF outcome[t] = Success THEN \A c \in unreported[s] : c[1] # seq[t]
                                ELSE <<seq[t], outcome[t]>> \in unreported[s]
    BY <1>1 DEF AccountInv, Outcomes, Outcome, Flight
  <2>4. ASSUME s \in gStreams
        PROVE  IF stream'[s].pending = Success THEN StashedErrors(s)' = {}
               ELSE \E c \in StashedErrors(s)' : c[2] = stream'[s].pending
    <3>1. IF stream[s].pending = Success THEN StashedErrors(s) = {}
          ELSE \E c \in StashedErrors(s) : c[2] = stream[s].pending
      BY <2>4 DEF AccountInv, StreamsAccounted, ErrorsAccounted
    <3>2. CASE outcome[t] = Success
      BY <1>3, <2>2, <2>3, <2>4, <3>1, <3>2
    <3>3. CASE outcome[t] # Success
      <4>1. <<seq[t], outcome[t]>> \in StashedErrors(s)'
        BY <2>2, <2>3, <3>3
      <4>2. stream[s].pending = Success => stream'[s].pending = <<seq[t], outcome[t]>>[2]
        BY <1>3, <2>4
      <4>3. stream[s].pending # Success => stream'[s].pending = stream[s].pending
        BY <1>3, <2>4
      <4>4. stream'[s].pending # Success
        BY <4>2, <4>3, <3>3
      <4>. QED
        BY <2>2, <3>1, <4>1, <4>2, <4>3, <4>4
    <3>. QED
      BY <3>2, <3>3
  <2>. QED
    BY <1>1, <1>3, <2>1, <2>4 DEF AccountInv, StreamsAccounted, ErrorsAccounted, TypeLock, TypeOK
<1>. QED
  BY <1>4, <1>5, <1>6, <1>9, <1>10 DEF AccountInv, StreamsAccounted

(* What the device runs for a stream goes in flight, under a sequence that *)
(* no command has had.                                                     *)
LEMMA AccountSubmit ==
  ASSUME TypeLock, SequenceInv, IssueInv, AccountInv, NEW t \in Thread, OnlyMoves(t), DeviceSubmit(t)
  PROVE  AccountInv'
<1>. PICK s : s = call[t].stream
  OBVIOUS
<1>0. /\ pc[t] = "device" /\ deviceSeq < seq[t] /\ seq[t] \in Nat /\ deviceSeq \in Nat
      /\ call[t].op \in AllOps /\ s \in KnownStreams \cup {NullStream}
  BY DEF DeviceSubmit, Goto, SequenceInv, AccountInv, Commands, CommandOK, CommandLabels, AllOps,
         TypeLock, TypeOK
<1>1. PICK status \in {Success} \cup DeviceError :
        /\ pc' = [pc EXCEPT ![t] = IF s = NullStream THEN "finish" ELSE "stash"]
        /\ outcome' = [outcome EXCEPT ![t] = status]
        /\ deviceSeq' = seq[t]
        /\ Charge(t, s, status)
        /\ UNCHANGED <<call, seq, stream, gStreams>> /\ KnownStreams' = KnownStreams
  BY <1>0 DEF DeviceSubmit, Goto, streamVars, KnownStreams
<1>. /\ pc \in [Thread -> Labels] /\ outcome \in [Thread -> Status]
     /\ executed \in [StreamAddr -> Nat] /\ unreported \in [StreamAddr -> SUBSET (Nat \X Status)]
     /\ seq \in [Thread -> Nat] /\ KnownStreams \subseteq StreamAddr /\ gStreams \subseteq StreamAddr
  BY DEF TypeLock, TypeOK, KnownStreams
<1>2. Commands'
  BY <1>0, <1>1 DEF AccountInv, Commands, CommandOK, CommandLabels, Flight
<1>3. CASE s = NullStream
  <2>1. UNCHANGED <<executed, unreported>> /\ pc' = [pc EXCEPT ![t] = "finish"]
    BY <1>1, <1>3 DEF Charge
  <2>2. FreshObjects'
    BY <1>0, <1>1, <2>1 DEF AccountInv, FreshObjects, CreatingStream, Creating, Pristine
  <2>3. Outcomes'
    BY <1>0, <1>1, <2>1 DEF AccountInv, Outcomes, Outcome, Flight
  <2>4. \A r, ops : Unstashed(r, ops)' = Unstashed(r, ops)
    BY <1>0, <1>1, <2>1 DEF Unstashed
  <2>5. \A r : InFlight(r)' = InFlight(r)
    BY <1>0, <1>1, <2>1 DEF InFlight
  <2>6. StreamsAccounted'
    BY <1>1, <2>1, <2>4, <2>5
       DEF AccountInv, StreamsAccounted, CyclesConserved, ErrorsAccounted, StashedErrors
  <2>. QED
    BY <1>2, <2>2, <2>3, <2>6 DEF AccountInv
<1>4. CASE s # NullStream
  <2>1. /\ s \in KnownStreams /\ s \in StreamAddr /\ pc' = [pc EXCEPT ![t] = "stash"]
        /\ executed'[s] = executed[s] + CyclesOf(status)
        /\ unreported'[s] = unreported[s] \cup (IF status = Success THEN {} ELSE {<<seq[t], status>>})
        /\ \A r \in StreamAddr \ {s} : executed'[r] = executed[r] /\ unreported'[r] = unreported[r]
    BY <1>0, <1>1, <1>4 DEF Charge
  <2>2. \A r \in StreamAddr : \A c \in unreported[r] : c[1] # seq[t]
    BY <1>0 DEF AccountInv, Outcomes
  <2>3. ASSUME NEW u \in Thread, pc[u] \in Flight
        PROVE  u # t /\ seq[u] # seq[t]
    <3>1. u # t
      BY <1>0, <2>3 DEF Flight
    <3>2. seq[u] <= deviceSeq /\ seq[u] \in Nat
      BY <2>3 DEF AccountInv, Outcomes, Outcome
    <3>. QED
      BY <1>0, <3>1, <3>2
  <2>4. \A u \in Thread : pc[u] \in Flight => call[u].stream \in StreamAddr
    BY DEF AccountInv, Commands, CommandOK, CommandLabels
  <2>5. FreshObjects'
    <3>1. \A u \in Thread : CreatingStream(u)' =>
            CreatingStream(u) /\ call[u].stream \in StreamAddr \ {s}
      BY <1>0, <1>1, <2>1 DEF CreatingStream, Creating, IssueInv, NewHandle
    <3>. QED
      BY <1>1, <2>1, <3>1 DEF AccountInv, FreshObjects, Pristine
  <2>6. Outcomes'
    <3>1. \A r \in StreamAddr : \A c \in unreported'[r] : c[1] <= deviceSeq'
      BY <1>0, <1>1, <2>1 DEF AccountInv, Outcomes
    <3>2. Outcome(t)'
      BY <1>0, <1>1, <2>1, <2>2 DEF Outcome
    <3>3. \A u \in Thread \ {t} : Outcome(u)'
      BY <1>0, <1>1, <2>1, <2>3, <2>4 DEF AccountInv, Outcomes, Outcome
    <3>4. \A u, v \in Thread : u # v /\ pc'[u] \in Flight /\ pc'[v] \in Flight => seq'[u] # seq'[v]
      BY <1>1, <2>1, <2>3 DEF AccountInv, Outcomes
    <3>. QED
      BY <3>1, <3>2, <3>3, <3>4 DEF Outcomes
  <2>7. CyclesConserved'
    <3>1. /\ t \notin Unstashed(s, AllOps)
          /\ Unstashed(s, AllOps)' = IF status = Success THEN Unstashed(s, AllOps) \cup {t}
                                     ELSE Unstashed(s, AllOps)
          /\ \A r \in StreamAddr \ {s} : Unstashed(r, AllOps)' = Unstashed(r, AllOps)
      BY <1>0, <1>1, <2>1 DEF Unstashed
    <3>2. \A U : IsFiniteSet(U) /\ t \notin U => Cardinality(U \cup {t}) = Cardinality(U) + 1
      BY FS_AddElement
    <3>3. Cardinality(Unstashed(s, AllOps)') = Cardinality(Unstashed(s, AllOps)) + CyclesOf(status)
      BY <3>1, <3>2, UnstashedFinite DEF CyclesOf
    <3>4. s \in gStreams =>
            stream'[s].cycles + Cardinality(Unstashed(s, AllOps)') = executed'[s]
      BY <1>1, <2>1, <3>3, UnstashedFinite
         DEF AccountInv, StreamsAccounted, CyclesConserved, TypeLock, TypeOK, StreamObject, CyclesOf
    <3>5. ASSUME NEW r \in gStreams, r # s
          PROVE  stream'[r].cycles + Cardinality(Unstashed(r, AllOps)') = executed'[r]
      BY <1>1, <2>1, <3>1, <3>5 DEF AccountInv, StreamsAccounted, CyclesConserved
    <3>. QED
      BY <1>1, <3>4, <3>5 DEF CyclesConserved
  <2>8. ErrorsAccounted'
    <3>1. /\ InFlight(s)' = InFlight(s) \cup {seq[t]}
          /\ \A r \in StreamAddr \ {s} : InFlight(r)' = InFlight(r)
      BY <1>0, <1>1, <2>1 DEF InFlight
    <3>2. StashedErrors(s)' = StashedErrors(s)
      BY <2>1, <2>2, <3>1 DEF StashedErrors
    <3>3. \A r \in StreamAddr \ {s} : StashedErrors(r)' = StashedErrors(r)
      BY <2>1, <3>1 DEF StashedErrors
    <3>. QED
      BY <1>1, <3>2, <3>3 DEF AccountInv, StreamsAccounted, ErrorsAccounted
  <2>. QED
    BY <1>2, <2>5, <2>6, <2>7, <2>8 DEF AccountInv, StreamsAccounted
<1>. QED
  BY <1>3, <1>4

(* Every step keeps the accounts.                                          *)
LEMMA AccountInvNext ==
  TypeLock /\ SequenceInv /\ IssueInv /\ AccountInv /\ [Next]_vars => AccountInv'
<1>. SUFFICES ASSUME TypeLock, SequenceInv, IssueInv, AccountInv, [Next]_vars
              PROVE  AccountInv'
  OBVIOUS
<1>1. ASSUME NEW t \in Thread, Start(t) \/ Continue(t)
      PROVE  AccountInv'
  <2>1. OnlyMoves(t) /\ Commands
    BY <1>1, StepOfOneThread DEF AccountInv
  <2>. QED
    BY <1>1, <2>1, MostStepsStandBy, StandingBy, AccountCreate, AccountInsert, AccountSync,
       AccountStash, AccountSubmit
<1>2. CASE UNCHANGED vars
  BY <1>2 DEF vars, threadVars, streamVars, eventVars, deviceVars, history, AccountInv, Commands,
              CommandOK, FreshObjects, CreatingStream, Creating, Pristine, Outcomes, Outcome,
              StreamsAccounted, CyclesConserved, Unstashed, ErrorsAccounted, StashedErrors, InFlight,
              KnownStreams
<1>. QED
  BY <1>1, <1>2 DEF Next, AllIdle

StreamInv == TypeLock /\ SequenceInv /\ IssueInv /\ AccountInv

(* All the invariants of this module hold in every reachable state.        *)
LEMMA StreamInvariant == Spec => []StreamInv
<1>1. Init => SequenceInv /\ IssueInv /\ AccountInv
  BY StreamsAssumption
     DEF Init, SequenceInv, SequencesAccepted, IssueInv, Creating, KnownStreams, KnownEvents, AccountInv,
         Commands, CommandOK, CommandLabels, Flight, FreshObjects, CreatingStream, Outcomes, Outcome,
         StreamsAccounted, CyclesConserved, ErrorsAccounted
<1>. QED
  BY <1>1, TypeLockInit, TypeLockNext, SequenceInvNext, IssueInvNext, AccountInvNext, PTL
     DEF Spec, StreamInv

(* Whatever the interleaving, the cycles and the errors of a stream's      *)
(* commands reach the stream exactly once.                                 *)
THEOREM AccountsBalance == Spec => []StreamsAccounted
<1>1. StreamInv => StreamsAccounted
  BY DEF StreamInv, AccountInv
<1>. QED
  BY <1>1, StreamInvariant, PTL

(* The snapshot of an event misses no copy: a copy in flight would hold    *)
(* g_submit_mutex.                                                         *)
THEOREM MarkersSound == Spec => []MarkerCountsCopies
<1>1. ASSUME StreamInv, NEW t \in Thread,
             pc[t] = "body", call[t].op = "event_record", call[t].stream \in gStreams
      PROVE  Unstashed(call[t].stream, AllOps) = Unstashed(call[t].stream, {"launch"})
  <2>1. HoldsInner(t) /\ ~ HoldsOuter(t)
    BY <1>1 DEF HoldsInner, HoldsOuter, IsCopy
  <2>2. \A u \in Thread : pc[u] \in Flight => ~ HoldsOuter(u)
    BY <1>1, <2>1 DEF StreamInv, TypeLock, LockInv, Holds
  <2>3. \A u \in Thread : pc[u] \in Flight => call[u].op = "launch"
    BY <1>1, <2>2 DEF StreamInv, AccountInv, Commands, CommandOK, CommandLabels, Flight, HoldsOuter, IsCopy
  <2>. QED
    BY <2>3 DEF Unstashed, Flight, AllOps
<1>2. StreamInv => MarkerCountsCopies
  BY <1>1 DEF StreamInv, AccountInv, StreamsAccounted, CyclesConserved, MarkerCountsCopies
<1>. QED
  BY <1>2, StreamInvariant, PTL
=============================================================================
