----------------------------- MODULE IntervalScan ---------------------------
(***************************************************************************)
(* The linear scan of both register allocators (C1/src/regalloc), as       *)
(* steps.  Values with their intervals of liveness are taken in the order  *)
(* of their first positions; each gets a free register, or that of a value *)
(* that lives longer and is spilled instead, or is spilled itself.  A      *)
(* client begins a scan, lets it run, and takes the result when it ends.   *)
(***************************************************************************)
EXTENDS Integers, Sequences, SequencesExt

VARIABLES
  intervals,  (* what the scan was begun with: [v, start, end] each        *)
  homes,      (* the registers it may give; none when no scan is under way *)
  pending,    (* the intervals it has not come to                          *)
  active,     (* those whose values are in registers                       *)
  free,       (* the registers that hold nothing                           *)
  home,       (* the register of a value                                   *)
  spilled     (* the values without one, in the order of their slots       *)

scanVars == <<intervals, homes, pending, active, free, home, spilled>>

Idle ==
  /\ intervals = {} /\ homes = {} /\ pending = {} /\ active = {} /\ free = {}
  /\ home = [v \in {} |-> 0] /\ spilled = <<>>

Begin(values, registers) ==
  /\ homes = {}
  /\ intervals' = values /\ pending' = values
  /\ homes' = registers /\ free' = registers
  /\ UNCHANGED <<active, home, spilled>>

Before(x, y) == x.start < y.start \/ (x.start = y.start /\ x.v < y.v)

TakeNext(iv) ==
  /\ iv \in pending /\ \A y \in pending \ {iv} : Before(iv, y)
  /\ pending' = pending \ {iv}
  /\ UNCHANGED <<intervals, homes>>

(* Mutant: a value makes room at its last position already. *)
LiveBriefly(iv) == {a \in active : a.end > iv.start}

(* What is still live where iv begins, and the registers that hold nothing *)
(* there.                                                                  *)
Live(iv) == {a \in active : a.end >= iv.start}

(* Mutant: the registers of dead values are not handed out again. *)
VacantAtFirst(iv) == free

Vacant(iv) == free \cup {home[a.v] : a \in active \ Live(iv)}

(* The active interval to evict for iv, if any: one that outlives it, and  *)
(* of the longest-lived the first made active, which is the first of all.  *)
Victims(iv) ==
  LET outlive == {a \in Live(iv) : a.end > iv.end}
  IN {a \in outlive : \A o \in outlive \ {a} : a.end > o.end \/ (a.end = o.end /\ Before(a, o))}

(* These values stay where they are, and v moves to h.                     *)
Housed(values, v, h) == [u \in values \cup {v} |-> IF u = v THEN h ELSE home[u]]

TakeFree(iv) ==
  /\ TakeNext(iv) /\ Vacant(iv) # {}
  /\ home' = Housed(DOMAIN home, iv.v, Min(Vacant(iv)))
  /\ free' = Vacant(iv) \ {Min(Vacant(iv))}
  /\ active' = Live(iv) \cup {iv}
  /\ UNCHANGED spilled

Evict(iv) ==
  /\ TakeNext(iv) /\ Vacant(iv) = {}
  /\ \E out \in Victims(iv) :
       /\ home' = Housed(DOMAIN home \ {out.v}, iv.v, home[out.v])
       /\ active' = (Live(iv) \ {out}) \cup {iv}
       /\ spilled' = Append(spilled, out.v)
  /\ UNCHANGED free

SpillItself(iv) ==
  /\ TakeNext(iv) /\ Vacant(iv) = {} /\ Victims(iv) = {}
  /\ active' = Live(iv)
  /\ spilled' = Append(spilled, iv.v)
  /\ UNCHANGED <<free, home>>

Scan == \E iv \in pending : TakeFree(iv) \/ Evict(iv) \/ SpillItself(iv)

End ==
  /\ homes # {} /\ pending = {}
  /\ intervals' = {} /\ homes' = {} /\ active' = {} /\ free' = {}
  /\ home' = [v \in {} |-> 0] /\ spilled' = <<>>
  /\ UNCHANGED pending

-----------------------------------------------------------------------------
(* What a client asks for: finitely many values, with one interval each.   *)
IsRequest(values, registers) ==
  /\ values \subseteq [v : Nat, start : Nat, end : Nat] /\ IsFiniteSet(values)
  /\ \A x \in values : x.start <= x.end
  /\ \A x, y \in values : x.v = y.v => x = y
  /\ registers \subseteq Nat /\ IsFiniteSet(registers) /\ registers # {}

ScanNext ==
  \/ \E values, registers : IsRequest(values, registers) /\ Begin(values, registers)
  \/ Scan
  \/ End

ScanSpec == Idle /\ [][ScanNext]_scanVars

(* Two values that are live at one position never share a register: what   *)
(* frees a register and what evicts agree on when a value is dead          *)
(* (linear_scan.cpp:273).                                                  *)
HomesApart ==
  \A x, y \in intervals :
    (/\ x # y /\ {x.v, y.v} \subseteq DOMAIN home /\ home[x.v] = home[y.v])
    => x.end < y.start \/ y.end < x.start

(* Each value has a register or one slot: none is lost when a value loses  *)
(* its register to another, and none is spilled twice.                     *)
EachPlaced ==
  \A x \in intervals \ pending :
    LET slots == {k \in DOMAIN spilled : spilled[k] = x.v} IN
    IF x.v \in DOMAIN home THEN home[x.v] \in homes /\ slots = {}
    ELSE \E k \in slots : slots = {k}

(* Nothing is spilled unless somewhere more values are live than there are *)
(* registers.                                                              *)
SpillsNeeded ==
  spilled # <<>> =>
    \E x \in intervals :
      Cardinality({y \in intervals : y.start <= x.start /\ x.start <= y.end})
        > Cardinality(homes)

(* The scan gives every value a place, none to two values that are live at *)
(* once, and uses memory only when the register file is too small          *)
(* (linear_scan.cpp, step 5; pred_alloc.cpp, step 4).                      *)
AllocationSound == HomesApart /\ EachPlaced /\ SpillsNeeded
=============================================================================
