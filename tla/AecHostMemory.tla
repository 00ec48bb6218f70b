--------------------------- MODULE AecHostMemory ---------------------------
(***************************************************************************)
(* Host memory registration of the AEC host runtime                        *)
(* (C2/src/aec_runtime.cpp): aecHostRegister, aecHostUnregister, and the   *)
(* copies that ask the device for a zero-copy transfer when their buffer   *)
(* lies in a registered interval.                                          *)
(*                                                                         *)
(* Addresses and sizes are words: sums wrap at Word = 2^w, as uint64_t     *)
(* sums do.                                                                *)
(***************************************************************************)
EXTENDS AecCalls

CONSTANTS
  Registered, (* the <<base, bytes>> pairs clients register             *)
  Copied      (* the <<base, bytes>> pairs clients copy from or to      *)

Address == 0..(Word - 1)

ASSUME HostMemoryAssumption ==
  /\ Registered \subseteq Address \X Address
  /\ Copied \subseteq Address \X Address
  (* The pointer one past a buffer's end is an address. *)
  /\ \A span \in Copied : span[1] + span[2] < Word

VARIABLE gRegistrations   (* g_registrations *)

HostMemoryInit == gRegistrations = {}

Plus(a, b) == (a + b) % Word

-----------------------------------------------------------------------------
(* Argument checks made before any lock is taken: a null pointer, no       *)
(* bytes, and for a registration an end past the address space.            *)
Refuse(t, invalid) ==
  /\ invalid
  /\ Begin(t)
  /\ Finish(t, InvalidArgument)
  /\ UNCHANGED <<lockVars, pc, call, gRegistrations>>

Enter(t, op, base, bytes) ==
  /\ Begin(t)
  /\ pc' = [pc EXCEPT ![t] = "enter"]
  /\ call' = [call EXCEPT ![t] = [NoCall EXCEPT !.op = op, !.ptr = base, !.bytes = bytes]]
  /\ UNCHANGED <<lockVars, lastError, gRegistrations>>

RegisterInvalid(base, bytes) == base = 0 \/ bytes = 0 \/ Plus(base, bytes) < base

HostRegister(t, base, bytes) ==
  \/ Refuse(t, RegisterInvalid(base, bytes))
  \/ ~ RegisterInvalid(base, bytes) /\ Enter(t, "register", base, bytes)

HostUnregister(t, base) ==
  \/ Refuse(t, base = 0)
  \/ base # 0 /\ Enter(t, "unregister", base, 0)

Copy(t, base, bytes) ==
  \/ Refuse(t, base = 0 \/ bytes = 0)
  \/ base # 0 /\ bytes # 0 /\ Enter(t, "copy", base, bytes)

(* Mutant: nobody waits for g_submit_mutex. *)
EnterUnguarded(t) ==
  /\ Goto(t, "enter", "enter_table")
  /\ submitOwner' = t
  /\ submitDepth' = submitDepth + 1
  /\ UNCHANGED <<tableOwner, lastError, call, calls, gRegistrations>>

(* All three calls take g_submit_mutex, then g_mutex.                      *)
EnterSubmit(t) ==
  /\ Goto(t, "enter", "enter_table")
  /\ LockSubmit(t)
  /\ UNCHANGED <<tableOwner, lastError, call, calls, gRegistrations>>

EnterTable(t) ==
  /\ Goto(t, "enter_table", "body")
  /\ LockTable(t)
  /\ UNCHANGED <<submitVars, lastError, call, calls, gRegistrations>>

Leave(t, error) ==
  /\ pc[t] = "body"
  /\ UnlockTable
  /\ UnlockSubmit
  /\ Return(t, error)
  /\ UNCHANGED calls

(* Mutant: only the new base is looked at. *)
StartsInside(base, bytes, interval) ==
  base >= interval.base /\ base < Plus(interval.base, interval.bytes)

Overlaps(base, bytes, interval) ==
  /\ base < Plus(interval.base, interval.bytes)
  /\ interval.base < Plus(base, bytes)

RegisterBody(t) ==
  LET base == call[t].ptr
      bytes == call[t].bytes
      overlap == \E interval \in gRegistrations : Overlaps(base, bytes, interval)
  IN /\ call[t].op = "register"
     /\ Leave(t, IF overlap THEN InvalidArgument ELSE Success)
     /\ gRegistrations' = IF overlap THEN gRegistrations
                          ELSE gRegistrations \cup {[base |-> base, bytes |-> bytes]}

(* The exact base pointer is required.                                     *)
UnregisterBody(t) ==
  LET found == {interval \in gRegistrations : interval.base = call[t].ptr} IN
  /\ call[t].op = "unregister"
  /\ Leave(t, IF found = {} THEN InvalidArgument ELSE Success)
  /\ gRegistrations' = gRegistrations \ found

(* host_span_registered, under g_mutex alone; g_submit_mutex stays held    *)
(* until the command has been submitted.                                   *)
SpanRegistered(base, bytes) ==
  \E interval \in gRegistrations :
    /\ base >= interval.base
    /\ Plus(base, bytes) <= Plus(interval.base, interval.bytes)

CopyFlags(t) ==
  /\ call[t].op = "copy"
  /\ Goto(t, "body", "transfer")
  /\ call' = [call EXCEPT ![t].zeroCopy = SpanRegistered(call[t].ptr, call[t].bytes)]
  /\ UnlockTable
  /\ UNCHANGED <<submitVars, lastError, calls, gRegistrations>>

(* dispatch and submit_command; the transfer succeeds or fails on the      *)
(* device side.                                                            *)
CopyOnDevice(t) ==
  \E status \in {Success, InvalidAddress} :
    /\ pc[t] = "transfer"
    /\ UnlockSubmit
    /\ Return(t, status)
    /\ UNCHANGED <<tableOwner, calls, gRegistrations>>

-----------------------------------------------------------------------------
StartHostCall(t) ==
  \/ \E span \in Registered : HostRegister(t, span[1], span[2])
  \/ \E span \in Registered : HostUnregister(t, span[1])
  \/ \E span \in Copied : Copy(t, span[1], span[2])

ContinueHostCall(t) ==
  \/ EnterSubmit(t) \/ EnterTable(t)
  \/ RegisterBody(t) \/ UnregisterBody(t)
  \/ CopyFlags(t) \/ CopyOnDevice(t)
-----------------------------------------------------------------------------
(* The bytes of a span, as a client means them.                            *)
Bytes(base, bytes) == base..(base + bytes - 1)

(* Registered intervals are non-empty, end inside the address space and    *)
(* never share a byte, whatever wrapping sums the overlap test compares;   *)
(* so a base pointer names at most one of them.                            *)
RegistrationsDisjoint ==
  /\ \A i \in gRegistrations : i.bytes > 0 /\ i.base + i.bytes <= Word - 1
  /\ \A i, j \in gRegistrations :
       i # j => Bytes(i.base, i.bytes) \cap Bytes(j.base, j.bytes) = {}

(* A copy reaches the device with the zero-copy flags exactly when its     *)
(* buffer lies inside one interval registered at that moment: no           *)
(* registration comes or goes between host_span_registered and             *)
(* aecDeviceSubmit.                                                        *)
FlagsMatchRegistrations ==
  \A t \in Thread :
    pc[t] = "transfer" =>
      (call[t].zeroCopy <=> \E i \in gRegistrations :
                         Bytes(call[t].ptr, call[t].bytes) \subseteq Bytes(i.base, i.bytes))

(* Both, up to the end of the address space, where the sums wrap.          *)
(* (aec_runtime.cpp host_span_registered, aecHostRegister, aecCopyH2D)     *)
RegistrationsSound == RegistrationsDisjoint /\ FlagsMatchRegistrations
=============================================================================
