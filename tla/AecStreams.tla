----------------------------- MODULE AecStreams -----------------------------
(***************************************************************************)
(* Streams, events and command submission of the AEC host runtime          *)
(* (C2/src/aec_runtime.cpp): what concurrent host threads do to the handle *)
(* registries, to the streams' pending errors and cycle counts, and to the *)
(* command sequence that the device sees.                                  *)
(*                                                                         *)
(* A call is a chain of steps.  Each step is one lock acquisition, or the  *)
(* work done under the locks together with the releases that follow it, or *)
(* one device call.  The device is external: aecDeviceSubmit executes the  *)
(* command before it returns, with an outcome it alone decides.            *)
(***************************************************************************)
EXTENDS AecThreads, FiniteSets

CONSTANTS
  StreamAddr,   (* addresses operator new can return for a stream object *)
  EventAddr,    (* the same for an event object                          *)
  NullStream,   (* a null stream argument: the synchronous path          *)
  NullEvent,    (* no event argument                                     *)
  DeviceError,  (* the errors a command can complete with                *)
  Ops,          (* the API calls the threads of this instance make       *)
  MaxCalls      (* bound: calls made by one thread                       *)

AllOps == {"launch", "copy", "copy_async", "stream_create", "stream_destroy",
           "stream_sync", "event_create", "event_destroy", "event_record",
           "event_query", "event_elapsed", "get_last_error", "bad_arguments"}

ASSUME StreamsAssumption ==
  /\ NullStream \notin StreamAddr
  /\ NullEvent \notin EventAddr
  /\ StreamAddr \cap EventAddr = {}    (* no object is ever freed      *)
  (* from_device: the device knows no handles. *)
  /\ DeviceError \subseteq Status \ {Success, InvalidHandle}
  /\ Ops \subseteq AllOps
  /\ MaxCalls \in Nat
  /\ IsFiniteSet(Thread)

VARIABLES
  pc,             (* where each thread is in its call                       *)
  call,           (* the call it is in: operation and handle arguments      *)
  seq,            (* command.sequence, a local of submit_command            *)
  outcome,        (* the status submit_command computed, a local too        *)
  calls,          (* calls begun by each thread: the bound                  *)
  gStreams,       (* g_streams: the live handles                            *)
  retiredStreams, (* g_retired_streams                                      *)
  stream,         (* the fields of the stream object at each address        *)
  nextStreamId,   (* g_next_stream_id                                       *)
  gEvents,        (* g_events                                               *)
  retiredEvents,  (* g_retired_events                                       *)
  event,          (* the fields of the event object at each address         *)
  gSequence,      (* g_sequence                                             *)
  deviceSeq,      (* device: the highest sequence it has accepted           *)
  refused,        (* device: commands it refused for a sequence not above it *)
  executed,       (* history: cycles the device spent on each stream        *)
  unreported,     (* history: failed commands of each stream, <<seq, error>>,
                     that no aecStreamSync has covered                      *)
  issued          (* history: how often each address was handed out         *)

threadVars == <<pc, call, seq, outcome, lastError, calls>>
localVars  == <<seq, outcome, lastError, calls>>
streamVars == <<gStreams, retiredStreams, stream, nextStreamId>>
eventVars  == <<gEvents, retiredEvents, event>>
deviceVars == <<gSequence, deviceSeq, refused>>
history    == <<executed, unreported, issued>>

vars == <<lockVars, threadVars, streamVars, eventVars, deviceVars, history>>

NoCall    == [op |-> "none", stream |-> NullStream, event |-> NullEvent, end |-> NullEvent]
NewStream == [id |-> 0, pending |-> Success, cycles |-> 0]
NewEvent  == [generation |-> 0, recorded |-> FALSE, snapshot |-> 0]

Init ==
  /\ ThreadInit
  /\ pc = [t \in Thread |-> "idle"]
  /\ call = [t \in Thread |-> NoCall]
  /\ seq = [t \in Thread |-> 0]
  /\ outcome = [t \in Thread |-> Success]
  /\ calls = [t \in Thread |-> 0]
  /\ gStreams = {} /\ retiredStreams = {}
  /\ stream = [s \in StreamAddr |-> NewStream]
  /\ nextStreamId = 1
  /\ gEvents = {} /\ retiredEvents = {}
  /\ event = [e \in EventAddr |-> NewEvent]
  /\ gSequence = 1
  /\ deviceSeq = 0
  /\ refused = 0
  /\ executed = [s \in StreamAddr |-> 0]
  /\ unreported = [s \in StreamAddr |-> {}]
  /\ issued = [a \in StreamAddr \cup EventAddr |-> 0]

-----------------------------------------------------------------------------
(* Entering and leaving a call. *)

Begin(t, op, s, e, f, label) ==
  /\ op \in Ops
  /\ pc[t] = "idle"
  /\ calls[t] < MaxCalls
  /\ calls' = [calls EXCEPT ![t] = @ + 1]
  /\ call' = [call EXCEPT ![t] = [op |-> op, stream |-> s, event |-> e, end |-> f]]
  /\ pc' = [pc EXCEPT ![t] = label]

Goto(t, from, to) ==
  /\ pc[t] = from
  /\ pc' = [pc EXCEPT ![t] = to]

Return(t, from, error) ==
  /\ Goto(t, from, "idle")
  /\ call' = [call EXCEPT ![t] = NoCall]
  /\ seq' = [seq EXCEPT ![t] = 0]
  /\ outcome' = [outcome EXCEPT ![t] = Success]
  /\ Finish(t, error)
  /\ UNCHANGED calls

(* The handles a client can pass: those some create call has returned,     *)
(* whether they are still live or not.                                     *)
KnownStreams == gStreams \cup retiredStreams
KnownEvents  == gEvents \cup retiredEvents

(* The copies take g_submit_mutex around flag computation and dispatch.    *)
IsCopy(t) == call[t].op \in {"copy", "copy_async"}

(* Mutant: every path releases the copies' lock. *)
LeaveDispatchAlways(t) == UnlockSubmit

LeaveDispatch(t) == IF IsCopy(t) THEN UnlockSubmit ELSE UNCHANGED submitVars

-----------------------------------------------------------------------------
(* Calls that return before they touch shared state. *)

(* Argument checks at the head of every entry point, and a failed          *)
(* aecDeviceResolveKernel in launch_kernel: an immediate error.            *)
RejectArguments(t) ==
  /\ "bad_arguments" \in Ops
  /\ pc[t] = "idle" /\ calls[t] < MaxCalls
  /\ calls' = [calls EXCEPT ![t] = @ + 1]
  /\ Finish(t, InvalidArgument)
  /\ UNCHANGED <<lockVars, pc, call, seq, outcome, streamVars, eventVars, deviceVars, history>>

GetLastError(t) ==
  /\ "get_last_error" \in Ops
  /\ pc[t] = "idle" /\ calls[t] < MaxCalls
  /\ calls' = [calls EXCEPT ![t] = @ + 1]
  /\ lastError' = [lastError EXCEPT ![t] = Success]
  /\ UNCHANGED <<lockVars, pc, call, seq, outcome, streamVars, eventVars, deviceVars, history>>

-----------------------------------------------------------------------------
(* Submitting a command. *)

(* aecLaunch, the aecMatmul and vector entry points: a launch goes to      *)
(* dispatch without holding any lock.                                      *)
Launch(t, s) ==
  /\ Begin(t, "launch", s, NullEvent, NullEvent, IF s = NullStream THEN "submit" ELSE "lookup")
  /\ UNCHANGED <<lockVars, seq, outcome, lastError, streamVars, eventVars, deviceVars, history>>

CopySync(t) ==
  /\ Begin(t, "copy", NullStream, NullEvent, NullEvent, "copy")
  /\ UNCHANGED <<lockVars, seq, outcome, lastError, streamVars, eventVars, deviceVars, history>>

CopyAsync(t, s) ==
  /\ Begin(t, "copy_async", s, NullEvent, NullEvent, "copy")
  /\ UNCHANGED <<lockVars, seq, outcome, lastError, streamVars, eventVars, deviceVars, history>>

LockCopy(t) ==
  /\ Goto(t, "copy", IF call[t].stream = NullStream THEN "submit" ELSE "lookup")
  /\ LockSubmit(t)
  /\ UNCHANGED <<tableOwner, call, localVars, streamVars, eventVars, deviceVars, history>>

(* dispatch(), stream path: the liveness check under g_mutex, which is     *)
(* released again before the command is submitted.                         *)
DispatchLock(t) ==
  /\ Goto(t, "lookup", "check")
  /\ LockTable(t)
  /\ UNCHANGED <<submitVars, call, localVars, streamVars, eventVars, deviceVars, history>>

DispatchLive(t) ==
  /\ call[t].stream \in gStreams
  /\ Goto(t, "check", "submit")
  /\ UnlockTable
  /\ UNCHANGED <<submitVars, call, localVars, streamVars, eventVars, deviceVars, history>>

(* Mutant: a stale handle is looked up again instead of refused. *)
DispatchRetries(t) ==
  /\ call[t].stream \notin gStreams
  /\ Goto(t, "check", "lookup")
  /\ UnlockTable
  /\ UNCHANGED <<submitVars, call, localVars, streamVars, eventVars, deviceVars, history>>

DispatchStale(t) ==
  /\ call[t].stream \notin gStreams
  /\ Return(t, "check", InvalidHandle)
  /\ UnlockTable
  /\ LeaveDispatch(t)
  /\ UNCHANGED <<streamVars, eventVars, deviceVars, history>>

(* Mutant: the command is sequenced and submitted without waiting for the  *)
(* lock.                                                                   *)
SubmitUnguarded(t) ==
  /\ Goto(t, "submit", "sequence")
  /\ submitOwner' = t
  /\ submitDepth' = submitDepth + 1
  /\ UNCHANGED <<tableOwner, call, localVars, streamVars, eventVars, deviceVars, history>>

(* submit_command(): sequence allocation and aecDeviceSubmit under one     *)
(* hold of g_submit_mutex.                                                 *)
SubmitLock(t) ==
  /\ Goto(t, "submit", "sequence")
  /\ LockSubmit(t)
  /\ UNCHANGED <<tableOwner, call, localVars, streamVars, eventVars, deviceVars, history>>

AllocSequence(t) ==
  /\ Goto(t, "sequence", "device")
  /\ seq' = [seq EXCEPT ![t] = gSequence]
  /\ gSequence' = gSequence + 1
  /\ UNCHANGED <<lockVars, call, outcome, lastError, calls, streamVars, eventVars,
                 deviceSeq, refused, history>>

(* The virtual cycles of a completion: none for a command that failed.     *)
CyclesOf(status) == IF status = Success THEN 1 ELSE 0

Charge(t, s, status) ==
  IF s = NullStream THEN UNCHANGED <<executed, unreported>>
  ELSE /\ executed' = [executed EXCEPT ![s] = @ + CyclesOf(status)]
       /\ unreported' = IF status = Success THEN unreported
                        ELSE [unreported EXCEPT ![s] = @ \cup {<<seq[t], status>>}]

(* The device executes a command whose sequence is above every accepted    *)
(* one and refuses any other; the hold on g_submit_mutex ends with the     *)
(* return of aecDeviceSubmit.                                              *)
DeviceSubmit(t) ==
  \E status \in IF seq[t] > deviceSeq THEN {Success} \cup DeviceError ELSE {InvalidArgument} :
    /\ Goto(t, "device", IF call[t].stream = NullStream THEN "finish" ELSE "stash")
    /\ outcome' = [outcome EXCEPT ![t] = status]
    /\ deviceSeq' = IF seq[t] > deviceSeq THEN seq[t] ELSE deviceSeq
    /\ refused' = IF seq[t] > deviceSeq THEN refused ELSE refused + 1
    /\ Charge(t, call[t].stream, status)
    /\ UnlockSubmit
    /\ UNCHANGED <<tableOwner, call, seq, lastError, calls, streamVars, eventVars, gSequence, issued>>

(* Mutant: a synchronous copy returns with g_submit_mutex locked. *)
FinishSyncLeaks(t) ==
  /\ Return(t, "finish", outcome[t])
  /\ UNCHANGED <<lockVars, streamVars, eventVars, deviceVars, history>>

(* Synchronous path: the error is the return value.                        *)
FinishSync(t) ==
  /\ Return(t, "finish", outcome[t])
  /\ LeaveDispatch(t)
  /\ UNCHANGED <<tableOwner, streamVars, eventVars, deviceVars, history>>

(* Stream path: cycles and the first un-reported error go to the stream,   *)
(* if it is still live; the call itself succeeds.                          *)
StashLock(t) ==
  /\ Goto(t, "stash", "stashing")
  /\ LockTable(t)
  /\ UNCHANGED <<submitVars, call, localVars, streamVars, eventVars, deviceVars, history>>

(* Mutant: the cycles of a command replace those of the stream. *)
StashedOverwrites(object, status) ==
  [object EXCEPT !.cycles = CyclesOf(status),
                 !.pending = IF @ = Success THEN status ELSE @]

(* Mutant: the outcome of the last command wins. *)
StashedLastWins(object, status) ==
  [object EXCEPT !.cycles = @ + CyclesOf(status), !.pending = status]

Stashed(object, status) ==
  [object EXCEPT !.cycles = @ + CyclesOf(status),
                 !.pending = IF @ = Success THEN status ELSE @]

(* Mutant: an enqueue returns the error of its command. *)
StashReturnsError(t) ==
  /\ Return(t, "stashing", outcome[t])
  /\ stream' = IF call[t].stream \in gStreams
               THEN [stream EXCEPT ![call[t].stream] = Stashed(@, outcome[t])]
               ELSE stream
  /\ UnlockTable
  /\ LeaveDispatch(t)
  /\ UNCHANGED <<gStreams, retiredStreams, nextStreamId, eventVars, deviceVars, history>>

Stash(t) ==
  /\ Return(t, "stashing", Success)
  /\ stream' = IF call[t].stream \in gStreams
               THEN [stream EXCEPT ![call[t].stream] = Stashed(@, outcome[t])]
               ELSE stream
  /\ UnlockTable
  /\ LeaveDispatch(t)
  /\ UNCHANGED <<gStreams, retiredStreams, nextStreamId, eventVars, deviceVars, history>>

-----------------------------------------------------------------------------
(* Creating handles: the object is built first, outside every lock. *)

FreshStreams ==
  StreamAddr \ (KnownStreams \cup {call[t].stream : t \in {u \in Thread : pc[u] \in {"create", "insert"}}})
FreshEvents ==
  EventAddr \ (KnownEvents \cup {call[t].event : t \in {u \in Thread : pc[u] \in {"create", "insert"}}})

StreamCreate(t, s) ==
  /\ s \in FreshStreams
  /\ Begin(t, "stream_create", s, NullEvent, NullEvent, "create")
  /\ stream' = [stream EXCEPT ![s] = [NewStream EXCEPT !.id = nextStreamId]]
  /\ nextStreamId' = nextStreamId + 1
  /\ executed' = [executed EXCEPT ![s] = 0]
  /\ unreported' = [unreported EXCEPT ![s] = {}]
  /\ UNCHANGED <<lockVars, seq, outcome, lastError, gStreams, retiredStreams, eventVars, deviceVars, issued>>

EventCreate(t, e) ==
  /\ e \in FreshEvents
  /\ Begin(t, "event_create", NullStream, e, NullEvent, "create")
  /\ event' = [event EXCEPT ![e] = NewEvent]
  /\ UNCHANGED <<lockVars, seq, outcome, lastError, streamVars, gEvents, retiredEvents, deviceVars, history>>

CreateLock(t) ==
  /\ Goto(t, "create", "insert")
  /\ LockTable(t)
  /\ UNCHANGED <<submitVars, call, localVars, streamVars, eventVars, deviceVars, history>>

InsertStream(t) ==
  /\ call[t].op = "stream_create"
  /\ Return(t, "insert", Success)
  /\ gStreams' = gStreams \cup {call[t].stream}
  /\ issued' = [issued EXCEPT ![call[t].stream] = @ + 1]
  /\ UnlockTable
  /\ UNCHANGED <<submitVars, retiredStreams, stream, nextStreamId, eventVars, deviceVars,
                 executed, unreported>>

InsertEvent(t) ==
  /\ call[t].op = "event_create"
  /\ Return(t, "insert", Success)
  /\ gEvents' = gEvents \cup {call[t].event}
  /\ issued' = [issued EXCEPT ![call[t].event] = @ + 1]
  /\ UnlockTable
  /\ UNCHANGED <<submitVars, streamVars, retiredEvents, event, deviceVars, executed, unreported>>

-----------------------------------------------------------------------------
(* Lifecycle calls: all of them take g_submit_mutex, then g_mutex, and do  *)
(* their work with both held.                                              *)

Lifecycle(t, op, s, e, f) ==
  /\ Begin(t, op, s, e, f, "enter")
  /\ UNCHANGED <<lockVars, seq, outcome, lastError, streamVars, eventVars, deviceVars, history>>

StreamDestroy(t, s)   == Lifecycle(t, "stream_destroy", s, NullEvent, NullEvent)
StreamSync(t, s)      == Lifecycle(t, "stream_sync", s, NullEvent, NullEvent)
EventDestroy(t, e)    == Lifecycle(t, "event_destroy", NullStream, e, NullEvent)
EventRecord(t, e, s)  == Lifecycle(t, "event_record", s, e, NullEvent)
EventQuery(t, e)      == Lifecycle(t, "event_query", NullStream, e, NullEvent)
EventElapsed(t, e, f) == Lifecycle(t, "event_elapsed", NullStream, e, f)

(* Mutant: a lifecycle call does not wait for g_submit_mutex. *)
EnterUnguarded(t) ==
  /\ Goto(t, "enter", "enter_table")
  /\ submitDepth' = submitDepth + 1
  /\ UNCHANGED <<submitOwner, tableOwner, call, localVars, streamVars, eventVars, deviceVars, history>>

EnterSubmit(t) ==
  /\ Goto(t, "enter", "enter_table")
  /\ LockSubmit(t)
  /\ UNCHANGED <<tableOwner, call, localVars, streamVars, eventVars, deviceVars, history>>

EnterTable(t) ==
  /\ Goto(t, "enter_table", "body")
  /\ LockTable(t)
  /\ UNCHANGED <<submitVars, call, localVars, streamVars, eventVars, deviceVars, history>>

Body(t, op, error) ==
  /\ call[t].op = op
  /\ Return(t, "body", error)
  /\ UnlockTable
  /\ UnlockSubmit

DestroyStreamBody(t) ==
  LET s == call[t].stream IN
  /\ Body(t, "stream_destroy", IF s \in gStreams THEN Success ELSE InvalidHandle)
  /\ gStreams' = gStreams \ {s}
  /\ retiredStreams' = IF s \in gStreams THEN retiredStreams \cup {s} ELSE retiredStreams
  /\ UNCHANGED <<stream, nextStreamId, eventVars, deviceVars, history>>

(* The failed commands of s whose submitting call has yet to stash them.   *)
InFlight(s) == {seq[t] : t \in {u \in Thread : pc[u] \in {"stash", "stashing"} /\ call[u].stream = s}}

SyncStreamBody(t) ==
  LET s == call[t].stream IN
  /\ Body(t, "stream_sync", IF s \in gStreams THEN stream[s].pending ELSE InvalidHandle)
  /\ IF s \in gStreams
     THEN /\ stream' = [stream EXCEPT ![s].pending = Success]
          /\ unreported' = [unreported EXCEPT ![s] = {c \in @ : c[1] \in InFlight(s)}]
     ELSE UNCHANGED <<stream, unreported>>
  /\ UNCHANGED <<gStreams, retiredStreams, nextStreamId, eventVars, deviceVars, executed, issued>>

(* Mutant: the destroyed object is deleted instead of retired. *)
DestroyEventDeletes(t) ==
  LET e == call[t].event IN
  /\ Body(t, "event_destroy", IF e \in gEvents THEN Success ELSE InvalidHandle)
  /\ gEvents' = gEvents \ {e}
  /\ UNCHANGED <<retiredEvents, streamVars, event, deviceVars, history>>

DestroyEventBody(t) ==
  LET e == call[t].event IN
  /\ Body(t, "event_destroy", IF e \in gEvents THEN Success ELSE InvalidHandle)
  /\ gEvents' = gEvents \ {e}
  /\ retiredEvents' = IF e \in gEvents THEN retiredEvents \cup {e} ELSE retiredEvents
  /\ UNCHANGED <<streamVars, event, deviceVars, history>>

RecordEventBody(t) ==
  LET e == call[t].event
      s == call[t].stream
      valid == e \in gEvents /\ s \in gStreams
  IN /\ Body(t, "event_record", IF valid THEN Success ELSE InvalidHandle)
     /\ event' = IF valid
                 THEN [event EXCEPT ![e] = [generation |-> @.generation + 1,
                                            recorded |-> TRUE,
                                            snapshot |-> stream[s].cycles]]
                 ELSE event
     /\ UNCHANGED <<streamVars, gEvents, retiredEvents, deviceVars, history>>

(* aecEventSynchronize and aecEventQuery have the same body.               *)
QueryEventBody(t) ==
  LET e == call[t].event IN
  /\ Body(t, "event_query", IF e \notin gEvents THEN InvalidHandle
                            ELSE IF event[e].recorded THEN Success ELSE InvalidArgument)
  /\ UNCHANGED <<streamVars, eventVars, deviceVars, history>>

ElapsedBody(t) ==
  LET e == call[t].event
      f == call[t].end
      ordered == /\ event[e].recorded /\ event[f].recorded
                 /\ event[e].snapshot <= event[f].snapshot
  IN /\ Body(t, "event_elapsed", IF ~ {e, f} \subseteq gEvents THEN InvalidHandle
                                 ELSE IF ordered THEN Success ELSE InvalidArgument)
     /\ UNCHANGED <<streamVars, eventVars, deviceVars, history>>

-----------------------------------------------------------------------------
(* A thread starts a call ... *)
Start(t) ==
  \/ RejectArguments(t)
  \/ GetLastError(t)
  \/ CopySync(t)
  \/ \E s \in KnownStreams \cup {NullStream} : Launch(t, s)
  \/ \E s \in KnownStreams : CopyAsync(t, s) \/ StreamDestroy(t, s) \/ StreamSync(t, s)
  \/ \E s \in StreamAddr : StreamCreate(t, s)
  \/ \E e \in EventAddr : EventCreate(t, e)
  \/ \E e \in KnownEvents : EventDestroy(t, e) \/ EventQuery(t, e)
  \/ \E e \in KnownEvents, s \in KnownStreams : EventRecord(t, e, s)
  \/ \E e, f \in KnownEvents : EventElapsed(t, e, f)

(* ... and carries it on to its return. *)
Continue(t) ==
  \/ LockCopy(t)
  \/ DispatchLock(t) \/ DispatchLive(t) \/ DispatchStale(t)
  \/ SubmitLock(t) \/ AllocSequence(t) \/ DeviceSubmit(t)
  \/ FinishSync(t) \/ StashLock(t) \/ Stash(t)
  \/ CreateLock(t) \/ InsertStream(t) \/ InsertEvent(t)
  \/ EnterSubmit(t) \/ EnterTable(t)
  \/ DestroyStreamBody(t) \/ SyncStreamBody(t)
  \/ DestroyEventBody(t) \/ RecordEventBody(t) \/ QueryEventBody(t) \/ ElapsedBody(t)

(* Between calls: every thread may stay out of the runtime for good.  A    *)
(* state with no other step is a deadlock only if some call is open.       *)
AllIdle == (\A t \in Thread : pc[t] = "idle") /\ UNCHANGED vars

Next == (\E t \in Thread : Start(t) \/ Continue(t)) \/ AllIdle

Spec == Init /\ [][Next]_vars

(* Inside a call a thread keeps running; no thread has to start one.       *)
FairSpec == Spec /\ \A t \in Thread : WF_vars(Continue(t))
-----------------------------------------------------------------------------
Labels == {"idle", "copy", "lookup", "check", "submit", "sequence", "device", "finish",
           "stash", "stashing", "create", "insert", "enter", "enter_table", "body"}

StreamObject == [id : Nat, pending : Status, cycles : Nat]
EventObject  == [generation : Nat, recorded : BOOLEAN, snapshot : Nat]
Call == [op : AllOps \cup {"none"}, stream : StreamAddr \cup {NullStream},
         event : EventAddr \cup {NullEvent}, end : EventAddr \cup {NullEvent}]

(* The arguments a call carries, and the calls that pass the label "copy". *)
CallOK(t) ==
  /\ call[t].op \in {"stream_create", "copy_async"} => call[t].stream \in StreamAddr
  /\ call[t].op = "event_create" => call[t].event \in EventAddr
  /\ pc[t] = "copy" => IsCopy(t)

(* Every variable keeps its type, and every call the arguments it needs.   *)
TypeOK ==
  /\ ThreadTypeOK
  /\ pc \in [Thread -> Labels]
  /\ call \in [Thread -> Call]
  /\ \A t \in Thread : CallOK(t)
  /\ seq \in [Thread -> Nat]
  /\ outcome \in [Thread -> Status]
  /\ calls \in [Thread -> Nat]
  /\ gStreams \subseteq StreamAddr /\ retiredStreams \subseteq StreamAddr
  /\ stream \in [StreamAddr -> StreamObject]
  /\ nextStreamId \in Nat
  /\ gEvents \subseteq EventAddr /\ retiredEvents \subseteq EventAddr
  /\ event \in [EventAddr -> EventObject]
  /\ gSequence \in Nat /\ deviceSeq \in Nat /\ refused \in Nat
  /\ executed \in [StreamAddr -> Nat]
  /\ unreported \in [StreamAddr -> SUBSET (Nat \X Status)]
  /\ issued \in [StreamAddr \cup EventAddr -> Nat]

(* How often the program of thread t has locked g_submit_mutex at its      *)
(* current step, and whether it is inside a g_mutex critical section.      *)
HoldsOuter(t) ==
  IsCopy(t) /\ pc[t] \in {"lookup", "check", "submit", "sequence", "device", "finish",
                          "stash", "stashing"}
HoldsInner(t) == pc[t] \in {"sequence", "device", "enter_table", "body"}
HoldsTable(t) == pc[t] \in {"check", "stashing", "insert", "body"}
Holds(t) == (IF HoldsOuter(t) THEN 1 ELSE 0) + (IF HoldsInner(t) THEN 1 ELSE 0)

(* Both locks are held by the thread whose program position says so and by *)
(* no other, g_submit_mutex as deeply as it says: no path returns with a   *)
(* lock it should have released or releases one it does not hold.          *)
LockInv ==
  /\ \A t \in Thread : Holds(t) > 0 => submitOwner = t /\ submitDepth = Holds(t)
  /\ \A t \in Thread : submitOwner = t => Holds(t) > 0
  /\ submitOwner = NoThread => submitDepth = 0
  /\ \A t \in Thread : tableOwner = t <=> HoldsTable(t)

(* "The device observes commands in strict monotonic order": whatever the  *)
(* threads submit, the device never refuses a command because another one  *)
(* with a higher sequence overtook it between g_sequence.fetch_add and     *)
(* aecDeviceSubmit.                                                        *)
SequencesAccepted == refused = 0

(* Why: a sequence drawn under g_submit_mutex is above everything the      *)
(* device has accepted until its own command is submitted.                 *)
SequenceInv ==
  /\ deviceSeq < gSequence
  /\ \A t \in Thread : pc[t] = "device" => deviceSeq < seq[t] /\ seq[t] < gSequence
  /\ SequencesAccepted

(* The commands of a stream that the device has run and whose calls have   *)
(* yet to add their cycles to the stream.                                  *)
Unstashed(s, ops) ==
  {t \in Thread : /\ pc[t] \in {"stash", "stashing"}
                  /\ call[t].stream = s /\ call[t].op \in ops /\ outcome[t] = Success}

(* No cycle is lost or counted twice: what the device spent on a live      *)
(* stream is in the stream's counter or on its way there in dispatch().    *)
CyclesConserved ==
  \A s \in gStreams :
    stream[s].cycles + Cardinality(Unstashed(s, AllOps)) = executed[s]

StashedErrors(s) == {c \in unreported[s] : c[1] \notin InFlight(s)}

(* A live stream has a pending error exactly when a command of it failed,  *)
(* was stashed and no aecStreamSync has answered for it since; the pending *)
(* error is the error of such a command.                                   *)
ErrorsAccounted ==
  \A s \in gStreams :
    IF stream[s].pending = Success
    THEN StashedErrors(s) = {}
    ELSE \E c \in StashedErrors(s) : c[2] = stream[s].pending

(* What dispatch() adds to a stream after the device has run its command,  *)
(* and under another lock, arrives exactly once: cycles and errors alike.  *)
(* (aec_runtime.cpp dispatch, aecStreamSync)                               *)
StreamsAccounted == CyclesConserved /\ ErrorsAccounted

(* The first un-reported error wins: when nothing is in flight on a live   *)
(* stream, the error aecStreamSync would report is that of the failed      *)
(* command with the lowest sequence.                                       *)
FirstErrorReported ==
  \A s \in gStreams :
    (InFlight(s) = {} /\ stream[s].pending # Success) =>
      \E c \in unreported[s] : /\ c[2] = stream[s].pending
                               /\ \A d \in unreported[s] : c[1] <= d[1]

(* aecStreamDestroy waits for an asynchronous copy that is past its        *)
(* liveness check: such a copy reaches the device, and its stream, while   *)
(* the stream is live.                                                     *)
CopyFindsStreamLive ==
  \A t \in Thread :
    (call[t].op = "copy_async" /\ pc[t] \in {"submit", "sequence", "device", "stash", "stashing"})
      => call[t].stream \in gStreams

(* An event marks the tail of its stream: when aecEventRecord takes its    *)
(* snapshot, every copy the device has run on the stream is in it, and     *)
(* only launches that have not returned can be missing.                    *)
MarkerCountsCopies ==
  \A t \in Thread :
    (pc[t] = "body" /\ call[t].op = "event_record" /\ call[t].stream \in gStreams)
      => stream[call[t].stream].cycles + Cardinality(Unstashed(call[t].stream, {"launch"}))
           = executed[call[t].stream]

(* Retired objects keep their address: no handle is handed out twice, so a *)
(* stale one can never name a newer stream or event.                       *)
HandlesNotReissued == \A a \in DOMAIN issued : issued[a] <= 1

(* An asynchronous error belongs to its stream: a thread finds a device    *)
(* error in its last error only from a synchronous command of its own or   *)
(* from aecStreamSync, never from an enqueue.                              *)
AsyncErrorsStayOnStream ==
  [][\A t \in Thread :
       (lastError'[t] # lastError[t] /\ lastError'[t] \in DeviceError)
         => (call[t].stream = NullStream \/ call[t].op = "stream_sync")]_vars

(* Every call returns: the two locks are never waited for in a circle.     *)
EveryCallReturns == \A t \in Thread : pc[t] # "idle" ~> pc[t] = "idle"
=============================================================================
