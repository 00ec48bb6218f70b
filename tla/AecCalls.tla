------------------------------ MODULE AecCalls ------------------------------
(***************************************************************************)
(* Threads in the middle of a call to the memory entry points of the AEC   *)
(* host runtime: what AecAllocations and AecHostMemory share.              *)
(***************************************************************************)
EXTENDS AecThreads

CONSTANTS
  Word,     (* 2^w, the first value uint64_t cannot hold, scaled down *)
  MaxCalls  (* bound: calls made by one thread                        *)

ASSUME CallsAssumption == Word \in Nat \ {0} /\ MaxCalls \in Nat

VARIABLES
  pc,    (* where each thread is in its call                            *)
  call,  (* its locals: operation, pointer and size, operands, and the  *)
         (* zero-copy flags of the copy command being built             *)
  calls  (* calls begun by each thread: the bound                       *)

callVars == <<lockVars, lastError, pc, call, calls>>

Null == 0   (* address 0 is illegal on either side *)
NoCall == [op |-> "none", ptr |-> Null, bytes |-> 0, operands |-> <<>>, unchecked |-> <<>>,
           zeroCopy |-> FALSE]

CallsInit ==
  /\ ThreadInit
  /\ pc = [t \in Thread |-> "idle"]
  /\ call = [t \in Thread |-> NoCall]
  /\ calls = [t \in Thread |-> 0]

Begin(t) ==
  /\ pc[t] = "idle"
  /\ calls[t] < MaxCalls
  /\ calls' = [calls EXCEPT ![t] = @ + 1]

Goto(t, from, to) ==
  /\ pc[t] = from
  /\ pc' = [pc EXCEPT ![t] = to]

Return(t, error) ==
  /\ pc' = [pc EXCEPT ![t] = "idle"]
  /\ call' = [call EXCEPT ![t] = NoCall]
  /\ Finish(t, error)

AllIdle == \A t \in Thread : pc[t] = "idle"
=============================================================================
