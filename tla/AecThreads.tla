----------------------------- MODULE AecThreads -----------------------------
(***************************************************************************)
(* What every entry point of the AEC host runtime uses: the two            *)
(* process-global locks and the thread-local last error.                   *)
(*                                                                         *)
(* g_submit_mutex is a std::recursive_mutex: the thread that owns it may   *)
(* take it again, and it is free only after as many releases.  g_mutex is  *)
(* a plain std::mutex that guards the handle registries, the registration  *)
(* list and the allocation table.  A thread that cannot take a lock waits: *)
(* the locking action is simply not enabled.                               *)
(***************************************************************************)
EXTENDS Naturals

CONSTANTS
  Thread,     (* the host threads that call the runtime *)
  NoThread    (* the owner of a free lock               *)

ASSUME ThreadAssumption == NoThread \notin Thread

VARIABLES
  submitOwner,   (* owner of g_submit_mutex, or NoThread         *)
  submitDepth,   (* how many times its owner has locked it       *)
  tableOwner,    (* owner of g_mutex, or NoThread                *)
  lastError      (* thread_local last_error of each thread       *)

submitVars == <<submitOwner, submitDepth>>
lockVars == <<submitOwner, submitDepth, tableOwner>>

Success         == "AEC_SUCCESS"
InvalidHandle   == "AEC_ERROR_INVALID_HANDLE"
InvalidArgument == "AEC_ERROR_INVALID_ARGUMENT"
InvalidAddress  == "AEC_ERROR_INVALID_ADDRESS"
OutOfMemory     == "AEC_ERROR_OUT_OF_MEMORY"
IsaTrap         == "AEC_ERROR_ISA_TRAP"
DeviceFault     == "AEC_ERROR_DEVICE"

Status == {Success, InvalidHandle, InvalidArgument, InvalidAddress, OutOfMemory,
           IsaTrap, DeviceFault}

ThreadTypeOK ==
  /\ submitOwner \in Thread \cup {NoThread}
  /\ submitDepth \in Nat
  /\ tableOwner \in Thread \cup {NoThread}
  /\ lastError \in [Thread -> Status]

ThreadInit ==
  /\ submitOwner = NoThread
  /\ submitDepth = 0
  /\ tableOwner = NoThread
  /\ lastError = [t \in Thread |-> Success]

LockSubmit(t) ==
  /\ submitOwner \in {NoThread, t}
  /\ submitOwner' = t
  /\ submitDepth' = submitDepth + 1

UnlockSubmit ==
  /\ submitOwner' = IF submitDepth = 1 THEN NoThread ELSE submitOwner
  /\ submitDepth' = submitDepth - 1

LockTable(t) ==
  /\ tableOwner = NoThread
  /\ tableOwner' = t

UnlockTable == tableOwner' = NoThread

(* finish(): a failing call replaces the thread's last error, a successful *)
(* one leaves it alone.                                                    *)
Finish(t, error) ==
  lastError' = [lastError EXCEPT ![t] = IF error = Success THEN @ ELSE error]

=============================================================================
