-------------------------- MODULE DeviceMemoryPool --------------------------
(***************************************************************************)
(* DeviceMemoryPool of C3/src/scheduler/memory.py: the operations a client *)
(* calls.  The counters reuse_hits, coalesce_count and defrag_runs, which  *)
(* only report, are left out.  A client frees what it holds, once each, as *)
(* build_execution_plan does.                                              *)
(***************************************************************************)
EXTENDS ArenaSegments

CONSTANT Requests   (* the sizes, in bytes, that clients ask for *)

ASSUME PoolAssumption == Requests \subseteq Nat

VARIABLES
  segments,      (* the arena, cut into free and allocated segments *)
  arenaTop,
  nextHandle,
  allocByHandle, (* the live allocations: handle to offset and size *)
  currentBytes,
  peakBytes

poolVars == <<segments, arenaTop, nextHandle, allocByHandle, currentBytes, peakBytes>>

PoolInit ==
  /\ segments = {}
  /\ arenaTop = 0
  /\ nextHandle = 0
  /\ allocByHandle = [h \in {} |-> 0]
  /\ currentBytes = 0
  /\ peakBytes = 0

(* What malloc returns for a request of n bytes.                           *)
Allocation(n) ==
  [handle |-> nextHandle,
   offset |-> PlacedAt(segments, arenaTop, BlockSize(n)),
   size |-> BlockSize(n)]

Malloc(n) ==
  LET size == BlockSize(n) IN
  /\ segments' = Placed(segments, arenaTop, size)
  /\ arenaTop' = TopAfter(segments, arenaTop, size)
  /\ allocByHandle' = [h \in DOMAIN allocByHandle \cup {nextHandle} |->
                         IF h = nextHandle THEN Allocation(n) ELSE allocByHandle[h]]
  /\ nextHandle' = nextHandle + 1
  /\ currentBytes' = currentBytes + size
  /\ peakBytes' = Max({peakBytes, currentBytes'})

Free(alloc) ==
  /\ currentBytes' = currentBytes - alloc.size
  /\ segments' = Released(segments, alloc.offset)
  /\ allocByHandle' = [h \in DOMAIN allocByHandle \ {alloc.handle} |-> allocByHandle[h]]
  /\ UNCHANGED <<arenaTop, nextHandle, peakBytes>>

Defragment ==
  /\ segments' = Defragmented(segments)
  /\ arenaTop' = TopDefragmented(segments, arenaTop)
  /\ UNCHANGED <<nextHandle, allocByHandle, currentBytes, peakBytes>>
-----------------------------------------------------------------------------
Live == {allocByHandle[h] : h \in DOMAIN allocByHandle}

(* A client of the pool alone.                                             *)
PoolNext ==
  \/ \E n \in Requests : Malloc(n)
  \/ \E alloc \in Live : Free(alloc)
  \/ Defragment

PoolSpec == PoolInit /\ [][PoolNext]_poolVars
-----------------------------------------------------------------------------
Blocks == {[offset |-> alloc.offset, size |-> alloc.size] : alloc \in Live}

(* The segments cover the arena exactly, without overlap: no byte is lost  *)
(* by splitting, coalescing or trimming.                                   *)
SegmentsTileArena ==
  \A x \in 0..(arenaTop + Alignment) :
    Cardinality({s \in segments : s.offset <= x /\ x < End(s)})
      = (IF x < arenaTop THEN 1 ELSE 0)

(* The bytes of the live allocations, in the order of their handles.       *)
LiveBytes ==
  LET total[h \in 0..nextHandle] ==
        IF h = 0 THEN 0
        ELSE total[h - 1] +
               IF h - 1 \in DOMAIN allocByHandle THEN allocByHandle[h - 1].size ELSE 0
  IN total[nextHandle]

(* The allocated segments are the live allocations: the free-list and the  *)
(* table of handles, updated apart, never disagree, nor does the counter.  *)
AllocationsBacked ==
  /\ Cardinality(Blocks) = Cardinality(Live)
  /\ {[offset |-> s.offset, size |-> s.size] : s \in {r \in segments : ~ r.free}} = Blocks
  /\ currentBytes = LiveBytes
  /\ currentBytes <= peakBytes

(* Every hole is one segment: malloc never misses a hole because it lies   *)
(* in two pieces.                                                          *)
HolesWhole == \A s, r \in segments : (s.free /\ r.free) => End(s) # r.offset

(* After any series of malloc, free and defragment the free-list is exact: *)
(* it tiles the arena, agrees with the handles and holds each hole whole.  *)
FreeListExact == SegmentsTileArena /\ AllocationsBacked /\ HolesWhole

(* The pool is an arena: its free-list finds a gap whenever one exists.    *)
Abstract == INSTANCE Arena WITH
  live <- Blocks, top <- arenaTop, BlockSizes <- {BlockSize(n) : n \in Requests}
ArenaSpec == Abstract!Spec
=============================================================================
