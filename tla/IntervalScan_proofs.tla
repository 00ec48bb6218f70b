------------------------- MODULE IntervalScan_proofs -------------------------
(***************************************************************************)
(* Theorems about IntervalScan, for every set of intervals and registers   *)
(* and any number of scans: no two values that are live at once share a    *)
(* register, none is lost, and none is spilled without need.               *)
(***************************************************************************)
EXTENDS IntervalScan, TLAPS, WellFoundedInduction, FiniteSetTheorems

Visited == intervals \ pending

(* What surrounds a scan: nothing is left of one that has ended.           *)
Asked ==
  /\ homes = {} => Idle
  /\ homes # {} => IsRequest(intervals, homes)

(* Who has been come to, and in which order.                               *)
Progress ==
  /\ pending \subseteq intervals /\ active \subseteq Visited
  /\ \A x \in Visited, y \in pending : x.start <= y.start
  /\ DOMAIN home \subseteq {x.v : x \in Visited}
  /\ spilled \in Seq({x.v : x \in Visited})

(* A register is free or an active value has it, and it alone.             *)
Divided ==
  /\ free \subseteq homes
  /\ \A a \in active : a.v \in DOMAIN home /\ home[a.v] \in homes \ free
  /\ \A a, b \in active : home[a.v] = home[b.v] => a = b
  /\ \A h \in homes : h \in free \/ \E a \in active : home[a.v] = h

(* A value that is not active but in a register ends before what is to     *)
(* come.                                                                   *)
Past ==
  \A x \in Visited \ active, y \in pending : x.v \in DOMAIN home => x.end < y.start

ScanInv == Asked /\ Progress /\ Divided /\ Past /\ AllocationSound

-----------------------------------------------------------------------------
(* The least register.                                                     *)
LEMMA LeastOf ==
  ASSUME NEW S, S \subseteq Nat, S # {}
  PROVE  Min(S) \in S
<1>. DEFINE Below == OpToRel(<, Nat)
<1>1. PICK x \in S : \A y \in S : ~ (<<y, x>> \in Below)
  BY WFMin, NatLessThanWellFounded
<1>2. \A y \in S : y < x => <<y, x>> \in Below
  BY DEF OpToRel
<1>. HIDE DEF Below
<1>3. \A y \in S : ~ (y < x)
  BY <1>1, <1>2, Zenon
<1>4. \A y \in S : x <= y
  BY <1>3
<1>. QED
  BY <1>4 DEF Min

(* The interval a step takes, and what is known of it.                     *)
LEMMA Taken ==
  ASSUME ScanInv, NEW iv \in pending, TakeNext(iv)
  PROVE  /\ homes # {} /\ IsRequest(intervals, homes) /\ IsRequest(intervals', homes')
         /\ intervals' = intervals /\ homes' = homes /\ pending' = pending \ {iv}
         /\ iv \in intervals /\ iv \notin Visited /\ Visited' = Visited \cup {iv}
         /\ \A x \in intervals : x.v \in Nat /\ x.start \in Nat /\ x.end \in Nat /\ x.start <= x.end
         /\ \A x, y \in intervals : x.v = y.v => x = y
         /\ \A x \in Visited', y \in pending' : x.start <= y.start
         /\ \A x \in Visited : x.start <= iv.start
         /\ \A y \in pending' : iv.start <= y.start
         /\ iv.v \notin DOMAIN home /\ \A k \in DOMAIN spilled : spilled[k] # iv.v
<1>1. homes # {} /\ IsRequest(intervals, homes)
  BY DEF ScanInv, Asked, Idle
<1>2. /\ intervals' = intervals /\ homes' = homes /\ pending' = pending \ {iv}
      /\ pending \subseteq intervals /\ iv \in intervals /\ iv \notin Visited
      /\ Visited' = Visited \cup {iv}
  BY DEF ScanInv, Progress, TakeNext, Visited
<1>3. /\ \A x \in intervals : x.v \in Nat /\ x.start \in Nat /\ x.end \in Nat /\ x.start <= x.end
      /\ \A x, y \in intervals : x.v = y.v => x = y
  BY <1>1 DEF IsRequest
<1>4. \A y \in pending' : iv.start <= y.start
  <2>1. SUFFICES ASSUME NEW y \in pending' PROVE iv.start <= y.start
    OBVIOUS
  <2>2. Before(iv, y) /\ y \in intervals
    BY <1>2, <2>1 DEF TakeNext
  <2>. QED
    BY <1>2, <1>3, <2>2 DEF Before
<1>5. \A x \in Visited : x.start <= iv.start
  BY DEF ScanInv, Progress
<1>6. \A x \in Visited', y \in pending' : x.start <= y.start
  BY <1>2, <1>4 DEF ScanInv, Progress
<1>7. \A x \in Visited : x.v # iv.v
  BY <1>2, <1>3 DEF Visited
<1>8. iv.v \notin DOMAIN home /\ \A k \in DOMAIN spilled : spilled[k] # iv.v
  BY <1>7 DEF ScanInv, Progress
<1>. QED
  BY <1>1, <1>2, <1>3, <1>4, <1>5, <1>6, <1>8

(* A full register file.                                                   *)
LEMMA Full ==
  ASSUME ScanInv, NEW iv \in pending, Vacant(iv) = {}
  PROVE  free = {} /\ Live(iv) = active
<1>1. free = {} /\ active \ Live(iv) = {}
  BY DEF Vacant
<1>. QED
  BY <1>1 DEF Live

(* There is need to spill: where iv begins, all that is active lives.      *)
LEMMA Needed ==
  ASSUME ScanInv, NEW iv \in pending, TakeNext(iv), Vacant(iv) = {}
  PROVE  \E x \in intervals :
           Cardinality({y \in intervals : y.start <= x.start /\ x.start <= y.end})
             > Cardinality(homes)
<1>1. free = {} /\ Live(iv) = active
  BY Full
<1>2. PICK S : S = {y \in intervals : y.start <= iv.start /\ iv.start <= y.end}
  OBVIOUS
<1>3. IsFiniteSet(S) /\ IsFiniteSet(active) /\ IsFiniteSet(homes) /\ active \subseteq Visited
  BY <1>2, Taken, FS_Subset DEF IsRequest, ScanInv, Progress, Visited
<1>4. active \cup {iv} \subseteq S
  <2>1. iv \in S
    BY <1>2, Taken
  <2>2. ASSUME NEW a \in active PROVE a \in S
    <3>1. a.end >= iv.start
      BY <1>1 DEF Live
    <3>2. a \in intervals /\ a.start <= iv.start /\ a.end \in Nat /\ iv.start \in Nat
      BY <1>3, Taken DEF Visited
    <3>. QED
      BY <1>2, <3>1, <3>2
  <2>. QED
    BY <2>1, <2>2
<1>5. Cardinality(active) = Cardinality(homes)
  <2>1. PICK f : f = [a \in active |-> home[a.v]]
    OBVIOUS
  <2>2. f \in [active -> homes] /\ \A a, b \in active : f[a] = f[b] => a = b
    BY <2>1 DEF ScanInv, Divided
  <2>3. \A h \in homes : \E a \in active : f[a] = h
    BY <1>1, <2>1 DEF ScanInv, Divided
  <2>4. f \in Bijection(active, homes)
    BY <2>2, <2>3 DEF Bijection, Injection, Surjection, IsInjective
  <2>5. ExistsBijection(active, homes)
    BY <2>4 DEF ExistsBijection
  <2>. QED
    BY <1>3, <2>5, FS_Bijection, FS_SameCardinalityBij
<1>6. Cardinality(active \cup {iv}) = Cardinality(active) + 1
  BY <1>3, Taken, FS_AddElement
<1>7. Cardinality(active \cup {iv}) <= Cardinality(S)
  BY <1>3, <1>4, FS_Subset
<1>8. Cardinality(S) \in Nat /\ Cardinality(homes) \in Nat
  BY <1>3, FS_CardinalityType
<1>9. Cardinality(S) > Cardinality(homes)
  BY <1>5, <1>6, <1>7, <1>8
<1>. QED
  BY <1>2, <1>9, Taken

(* One more value of those visited is spilled.                             *)
LEMMA Spilling ==
  ASSUME NEW S, NEW T, S \subseteq T, NEW s \in Seq(S), NEW v \in T
  PROVE  Append(s, v) \in Seq(T)
<1>1. s \in Seq(T)
  OBVIOUS
<1>. QED
  BY <1>1

(* ------------------------ the scan keeps ScanInv ----------------------- *)

(* A scan that has not begun.                                              *)
LEMMA InitInv ==
  ASSUME Idle
  PROVE  ScanInv
<1>1. intervals = {} /\ homes = {} /\ pending = {} /\ active = {} /\ free = {} /\ spilled = <<>>
      /\ DOMAIN home = {}
  BY DEF Idle
<1>2. AllocationSound
  BY <1>1 DEF AllocationSound, HomesApart, EachPlaced, SpillsNeeded
<1>3. Progress
  BY <1>1 DEF Progress, Visited
<1>4. Divided /\ Past /\ Asked
  BY <1>1 DEF Divided, Past, Asked, Visited
<1>. QED
  BY <1>2, <1>3, <1>4 DEF ScanInv

(* One that begins: all registers are free and nothing has been visited.   *)
LEMMA BeginInv ==
  ASSUME ScanInv, NEW values, NEW registers, IsRequest(values, registers), Begin(values, registers)
  PROVE  ScanInv'
<1>1. /\ active' = {} /\ spilled' = <<>> /\ DOMAIN home' = {}
      /\ intervals' = values /\ pending' = values /\ homes' = registers /\ free' = registers
      /\ Visited' = {}
  BY DEF ScanInv, Asked, Idle, Begin, Visited
<1>2. AllocationSound'
  BY <1>1 DEF AllocationSound, HomesApart, EachPlaced, SpillsNeeded
<1>3. Progress'
  BY <1>1 DEF Progress
<1>4. Divided' /\ Past'
  BY <1>1 DEF Divided, Past
<1>5. Asked'
  BY <1>1 DEF Asked, IsRequest
<1>. QED
  BY <1>2, <1>3, <1>4, <1>5 DEF ScanInv

(* A free register goes to the value: whoever had it before is dead where  *)
(* the value begins.                                                       *)
LEMMA TakeFreeInv ==
  ASSUME ScanInv, NEW iv \in pending, TakeFree(iv)
  PROVE  ScanInv'
<1>1. TakeNext(iv) /\ UNCHANGED spilled
  BY DEF TakeFree
<1>2. PICK h : h = Min(Vacant(iv))
  OBVIOUS
<1>3. PICK vacant : vacant = Vacant(iv)
  OBVIOUS
<1>4. PICK live : live = Live(iv)
  OBVIOUS
<1>5. vacant = free \cup {home[a.v] : a \in active \ live}
  BY <1>3, <1>4 DEF Vacant
<1>6. live = {a \in active : a.end >= iv.start}
  BY <1>4 DEF Live
<1>7. vacant \subseteq homes /\ homes \subseteq Nat
  BY <1>1, <1>5, Taken DEF ScanInv, Divided, IsRequest
<1>8. h \in vacant
  BY <1>2, <1>3, <1>7, LeastOf DEF TakeFree
<1>9. /\ DOMAIN home' = DOMAIN home \cup {iv.v}
      /\ \A u \in DOMAIN home : u # iv.v => home'[u] = home[u]
      /\ home'[iv.v] = h
      /\ free' = vacant \ {h} /\ active' = live \cup {iv}
  BY <1>2, <1>3, <1>4 DEF TakeFree, Housed
<1>10. \A x \in Visited : x.v \in DOMAIN home /\ home[x.v] = h => x.end < iv.start
  <2>1. SUFFICES ASSUME NEW x \in Visited, x.v \in DOMAIN home, home[x.v] = h PROVE x.end < iv.start
    OBVIOUS
  <2>2. CASE x \notin active
    BY <2>1, <2>2 DEF ScanInv, Past
  <2>3. CASE x \in live
    <3>1. h \notin free /\ x \in active
      BY <1>6, <2>1, <2>3 DEF ScanInv, Divided
    <3>2. PICK a \in active \ live : home[a.v] = h
      BY <1>5, <1>8, <3>1
    <3>3. a = x
      BY <2>1, <3>1, <3>2 DEF ScanInv, Divided
    <3>. QED
      BY <2>3, <3>2, <3>3
  <2>4. CASE x \in active \ live
    BY <1>1, <1>6, <2>4, Taken DEF Visited
  <2>. QED
    BY <2>2, <2>3, <2>4
<1>11. Asked'
  BY <1>1, Taken DEF Asked
<1>12. Progress'
  <2>1. pending' \subseteq intervals' /\ active' \subseteq Visited'
    BY <1>1, <1>6, <1>9, Taken DEF ScanInv, Progress
  <2>2. DOMAIN home' \subseteq {x.v : x \in Visited'}
    BY <1>1, <1>9, Taken DEF ScanInv, Progress
  <2>3. spilled' \in Seq({x.v : x \in Visited'})
    <3>1. {x.v : x \in Visited} \subseteq {x.v : x \in Visited'}
      BY <1>1, Taken
    <3>. QED
      BY <1>1, <3>1 DEF ScanInv, Progress
  <2>. QED
    BY <1>1, <2>1, <2>2, <2>3, Taken DEF Progress
<1>13. Divided'
  <2>1. \A a \in live : a.v \in DOMAIN home /\ a.v # iv.v /\ home[a.v] \in homes \ vacant
    <3>1. SUFFICES ASSUME NEW a \in live
                   PROVE  a.v \in DOMAIN home /\ a.v # iv.v /\ home[a.v] \in homes \ vacant
      OBVIOUS
    <3>2. a.v \in DOMAIN home /\ home[a.v] \in homes \ free /\ a \in active
      BY <1>6, <3>1 DEF ScanInv, Divided
    <3>3. \A b \in active \ live : home[b.v] # home[a.v]
      BY <3>2 DEF ScanInv, Divided
    <3>. QED
      BY <1>1, <1>5, <3>2, <3>3, Taken
  <2>2. free' \subseteq homes'
    BY <1>1, <1>7, <1>9, Taken
  <2>3. \A a \in active' : a.v \in DOMAIN home' /\ home'[a.v] \in homes' \ free'
    BY <1>1, <1>7, <1>8, <1>9, <2>1, Taken
  <2>4. \A a, b \in active' : home'[a.v] = home'[b.v] => a = b
    <3>1. SUFFICES ASSUME NEW a \in active', NEW b \in active', home'[a.v] = home'[b.v] PROVE a = b
      OBVIOUS
    <3>2. CASE a \in live /\ b \in live
      BY <1>6, <1>9, <2>1, <3>1, <3>2 DEF ScanInv, Divided
    <3>3. \A c \in live : home'[c.v] # h
      BY <1>8, <1>9, <2>1
    <3>. QED
      BY <1>9, <3>1, <3>2, <3>3
  <2>5. \A g \in homes' : g \in free' \/ \E a \in active' : home'[a.v] = g
    <3>1. SUFFICES ASSUME NEW g \in homes, g \notin free', g # h
                   PROVE  \E a \in active' : home'[a.v] = g
      BY <1>1, <1>9, Taken
    <3>2. g \notin vacant
      BY <1>9, <3>1
    <3>3. PICK a \in active : home[a.v] = g
      BY <1>5, <3>2 DEF ScanInv, Divided
    <3>4. a \in live
      BY <1>5, <3>2, <3>3
    <3>. QED
      BY <1>9, <2>1, <3>3, <3>4
  <2>. QED
    BY <2>2, <2>3, <2>4, <2>5 DEF Divided
<1>14. Past'
  <2>1. SUFFICES ASSUME NEW x \in Visited' \ active', NEW y \in pending', x.v \in DOMAIN home'
                 PROVE  x.end < y.start
    BY DEF Past
  <2>2. x \in Visited /\ x.v \in DOMAIN home /\ y \in pending
    BY <1>1, <1>9, <2>1, Taken DEF Visited
  <2>3. CASE x \notin active
    BY <2>2, <2>3 DEF ScanInv, Past
  <2>4. CASE x \in active
    <3>1. x \notin live
      BY <1>9, <2>1
    <3>2. x.end < iv.start /\ iv.start <= y.start
      BY <1>1, <1>6, <2>1, <2>2, <2>4, <3>1, Taken DEF Visited
    <3>3. x \in intervals /\ y \in intervals /\ iv \in intervals
      BY <1>1, <2>2, Taken DEF ScanInv, Progress, Visited
    <3>. QED
      BY <1>1, <3>2, <3>3, Taken
  <2>. QED
    BY <2>3, <2>4
<1>15. HomesApart'
  <2>1. SUFFICES ASSUME NEW x \in intervals', NEW y \in intervals', x # y,
                        x.v \in DOMAIN home', y.v \in DOMAIN home', home'[x.v] = home'[y.v]
                 PROVE  x.end < y.start \/ y.end < x.start
    BY DEF HomesApart
  <2>2. \A z \in intervals : z.v \in DOMAIN home' => z = iv \/ (z \in Visited /\ z.v \in DOMAIN home /\ z.v # iv.v)
    BY <1>1, <1>9, Taken DEF ScanInv, Progress, Visited
  <2>3. CASE x = iv
    BY <1>1, <1>9, <1>10, <2>1, <2>2, <2>3, Taken
  <2>4. CASE y = iv
    BY <1>1, <1>9, <1>10, <2>1, <2>2, <2>4, Taken
  <2>5. CASE x # iv /\ y # iv
    <3>1. /\ x \in intervals /\ x.v \in DOMAIN home /\ home'[x.v] = home[x.v]
          /\ y \in intervals /\ y.v \in DOMAIN home /\ home'[y.v] = home[y.v]
      BY <1>1, <1>9, <2>1, <2>2, <2>5, Taken
    <3>. QED
      BY <2>1, <3>1 DEF ScanInv, AllocationSound, HomesApart
  <2>. QED
    BY <2>3, <2>4, <2>5
<1>16. EachPlaced'
  <2>1. SUFFICES ASSUME NEW x \in Visited'
                 PROVE  LET slots == {k \in DOMAIN spilled : spilled[k] = x.v} IN
                        IF x.v \in DOMAIN home' THEN home'[x.v] \in homes /\ slots = {}
                        ELSE \E k \in slots : slots = {k}
    BY <1>1, Taken DEF EachPlaced, Visited
  <2>2. CASE x = iv
    BY <1>1, <1>7, <1>8, <1>9, <2>2, Taken
  <2>3. CASE x # iv
    <3>1. x \in intervals /\ x \in Visited /\ x.v # iv.v
      BY <1>1, <2>1, <2>3, Taken DEF Visited
    <3>2. x.v \in DOMAIN home' <=> x.v \in DOMAIN home
      BY <1>9, <3>1
    <3>3. x.v \in DOMAIN home => home'[x.v] = home[x.v]
      BY <1>9, <3>1
    <3>. QED
      BY <3>1, <3>2, <3>3 DEF ScanInv, AllocationSound, EachPlaced, Visited
  <2>. QED
    BY <2>2, <2>3
<1>17. SpillsNeeded'
  BY <1>1, Taken DEF ScanInv, AllocationSound, SpillsNeeded
<1>. QED
  BY <1>11, <1>12, <1>13, <1>14, <1>15, <1>16, <1>17 DEF ScanInv, AllocationSound

(* An eviction: all active values live where iv begins, so that whoever    *)
(* else had the register before is dead there.                             *)
LEMMA EvictInv ==
  ASSUME ScanInv, NEW iv \in pending, Evict(iv)
  PROVE  ScanInv'
<1>1. TakeNext(iv) /\ Vacant(iv) = {} /\ free' = free
  BY DEF Evict
<1>2. free = {} /\ Live(iv) = active
  BY <1>1, Full
<1>3. PICK out \in Victims(iv) :
        /\ home' = Housed(DOMAIN home \ {out.v}, iv.v, home[out.v])
        /\ active' = (Live(iv) \ {out}) \cup {iv}
        /\ spilled' = Append(spilled, out.v)
  BY DEF Evict
<1>4. out \in active /\ out \in Visited /\ out \in intervals /\ out # iv /\ out.v # iv.v
  BY <1>1, <1>2, Taken DEF Victims, ScanInv, Progress, Visited
<1>5. PICK h : h = home[out.v]
  OBVIOUS
<1>6. /\ DOMAIN home' = (DOMAIN home \ {out.v}) \cup {iv.v}
      /\ \A u \in DOMAIN home \ {out.v} : u # iv.v => home'[u] = home[u]
      /\ home'[iv.v] = h
      /\ active' = (active \ {out}) \cup {iv}
  BY <1>2, <1>3, <1>5 DEF Housed
<1>7. out.v \in DOMAIN home /\ h \in homes
  BY <1>4, <1>5 DEF ScanInv, Divided
<1>8. \A x \in Visited : x # out /\ x.v \in DOMAIN home /\ home[x.v] = h => x.end < iv.start
  <2>1. SUFFICES ASSUME NEW x \in Visited, x # out, x.v \in DOMAIN home, home[x.v] = h
                 PROVE  x.end < iv.start
    OBVIOUS
  <2>2. x \notin active
    BY <1>4, <1>5, <2>1 DEF ScanInv, Divided
  <2>. QED
    BY <2>1, <2>2 DEF ScanInv, Past
<1>9. Asked'
  BY <1>1, Taken DEF Asked
<1>10. Progress'
  <2>1. pending' \subseteq intervals' /\ active' \subseteq Visited'
    BY <1>1, <1>6, Taken DEF ScanInv, Progress
  <2>2. DOMAIN home' \subseteq {x.v : x \in Visited'}
    BY <1>1, <1>6, Taken DEF ScanInv, Progress
  <2>3. spilled' \in Seq({x.v : x \in Visited'})
    <3>1. {x.v : x \in Visited} \subseteq {x.v : x \in Visited'} /\ out.v \in {x.v : x \in Visited'}
      BY <1>1, <1>4, Taken
    <3>. QED
      BY <1>3, <3>1, Spilling DEF ScanInv, Progress
  <2>. QED
    BY <1>1, <2>1, <2>2, <2>3, Taken DEF Progress
<1>11. Divided'
  <2>1. \A a \in active \ {out} :
          a.v \in DOMAIN home \ {out.v} /\ a.v # iv.v /\ home[a.v] \in homes \ {h}
    <3>1. SUFFICES ASSUME NEW a \in active, a # out
                   PROVE  a.v \in DOMAIN home \ {out.v} /\ a.v # iv.v /\ home[a.v] \in homes \ {h}
      OBVIOUS
    <3>2. a.v \in DOMAIN home /\ home[a.v] \in homes /\ home[a.v] # h
      BY <1>4, <1>5, <3>1 DEF ScanInv, Divided
    <3>. QED
      BY <1>1, <1>5, <3>2, Taken
  <2>2. free' \subseteq homes'
    BY <1>1, <1>2
  <2>3. \A a \in active' : a.v \in DOMAIN home' /\ home'[a.v] \in homes' \ free'
    BY <1>1, <1>2, <1>6, <1>7, <2>1, Taken
  <2>4. \A a, b \in active' : home'[a.v] = home'[b.v] => a = b
    <3>1. SUFFICES ASSUME NEW a \in active', NEW b \in active', home'[a.v] = home'[b.v] PROVE a = b
      OBVIOUS
    <3>2. CASE a \in active \ {out} /\ b \in active \ {out}
      BY <1>6, <2>1, <3>1, <3>2 DEF ScanInv, Divided
    <3>3. \A c \in active \ {out} : home'[c.v] # h
      BY <1>6, <2>1
    <3>. QED
      BY <1>6, <3>1, <3>2, <3>3
  <2>5. \A g \in homes' : g \in free' \/ \E a \in active' : home'[a.v] = g
    <3>1. SUFFICES ASSUME NEW g \in homes, g # h PROVE \E a \in active' : home'[a.v] = g
      BY <1>1, <1>6, Taken
    <3>2. PICK a \in active : home[a.v] = g
      BY <1>2 DEF ScanInv, Divided
    <3>. QED
      BY <1>5, <1>6, <2>1, <3>1, <3>2
  <2>. QED
    BY <2>2, <2>3, <2>4, <2>5 DEF Divided
<1>12. Past'
  <2>1. SUFFICES ASSUME NEW x \in Visited' \ active', NEW y \in pending', x.v \in DOMAIN home'
                 PROVE  x.end < y.start
    BY DEF Past
  <2>2. x \in Visited /\ x # out /\ x.v \in DOMAIN home /\ y \in pending
    BY <1>1, <1>4, <1>6, <2>1, Taken DEF Visited
  <2>. QED
    BY <1>6, <2>1, <2>2 DEF ScanInv, Past
<1>13. HomesApart'
  <2>1. SUFFICES ASSUME NEW x \in intervals', NEW y \in intervals', x # y,
                        x.v \in DOMAIN home', y.v \in DOMAIN home', home'[x.v] = home'[y.v]
                 PROVE  x.end < y.start \/ y.end < x.start
    BY DEF HomesApart
  <2>2. \A z \in intervals : z.v \in DOMAIN home' =>
          z = iv \/ (z \in Visited /\ z # out /\ z.v \in DOMAIN home \ {out.v} /\ z.v # iv.v)
    BY <1>1, <1>4, <1>6, Taken DEF ScanInv, Progress, Visited
  <2>3. CASE x = iv
    BY <1>1, <1>6, <1>8, <2>1, <2>2, <2>3, Taken
  <2>4. CASE y = iv
    BY <1>1, <1>6, <1>8, <2>1, <2>2, <2>4, Taken
  <2>5. CASE x # iv /\ y # iv
    <3>1. /\ x \in intervals /\ x.v \in DOMAIN home /\ home'[x.v] = home[x.v]
          /\ y \in intervals /\ y.v \in DOMAIN home /\ home'[y.v] = home[y.v]
      BY <1>1, <1>6, <2>1, <2>2, <2>5, Taken
    <3>. QED
      BY <2>1, <3>1 DEF ScanInv, AllocationSound, HomesApart
  <2>. QED
    BY <2>3, <2>4, <2>5
<1>14. EachPlaced'
  <2>1. PICK n : n = Len(spilled)
    OBVIOUS
  <2>2. /\ n \in Nat /\ DOMAIN spilled = 1 .. n /\ DOMAIN spilled' = 1 .. n + 1
        /\ spilled'[n + 1] = out.v /\ \A k \in 1 .. n : spilled'[k] = spilled[k]
    BY <1>3, <2>1 DEF ScanInv, Progress
  <2>3. SUFFICES ASSUME NEW x \in Visited'
                 PROVE  LET slots == {k \in DOMAIN spilled' : spilled'[k] = x.v} IN
                        IF x.v \in DOMAIN home' THEN home'[x.v] \in homes /\ slots = {}
                        ELSE \E k \in slots : slots = {k}
    BY <1>1, Taken DEF EachPlaced, Visited
  <2>4. CASE x = iv
    <3>1. \A k \in 1 .. n + 1 : spilled'[k] # iv.v
      BY <1>1, <1>4, <2>2, Taken
    <3>. QED
      BY <1>6, <1>7, <2>2, <2>4, <3>1
  <2>5. CASE x = out
    <3>1. out.v \notin DOMAIN home'
      BY <1>4, <1>6
    <3>2. \A k \in 1 .. n : spilled[k] # out.v
      BY <1>4, <1>7, <2>2 DEF ScanInv, AllocationSound, EachPlaced, Visited
    <3>3. {k \in DOMAIN spilled' : spilled'[k] = x.v} = {n + 1}
      BY <2>2, <2>5, <3>2
    <3>. QED
      BY <2>5, <3>1, <3>3
  <2>6. CASE x # iv /\ x # out
    <3>1. x \in intervals /\ x \in Visited /\ x.v # iv.v /\ x.v # out.v
      BY <1>1, <1>4, <2>3, <2>6, Taken DEF Visited
    <3>2. x.v \in DOMAIN home' <=> x.v \in DOMAIN home
      BY <1>6, <3>1
    <3>3. x.v \in DOMAIN home => home'[x.v] = home[x.v]
      BY <1>6, <3>1
    <3>4. {k \in DOMAIN spilled' : spilled'[k] = x.v} = {k \in DOMAIN spilled : spilled[k] = x.v}
      BY <2>2, <3>1
    <3>. QED
      BY <3>1, <3>2, <3>3, <3>4 DEF ScanInv, AllocationSound, EachPlaced, Visited
  <2>. QED
    BY <2>4, <2>5, <2>6
<1>15. SpillsNeeded'
  BY <1>1, Needed, Taken DEF SpillsNeeded
<1>. QED
  BY <1>9, <1>10, <1>11, <1>12, <1>13, <1>14, <1>15 DEF ScanInv, AllocationSound

(* The value itself is spilled: all registers stay as they are.            *)
LEMMA SpillItselfInv ==
  ASSUME ScanInv, NEW iv \in pending, SpillItself(iv)
  PROVE  ScanInv'
<1>1. TakeNext(iv) /\ Vacant(iv) = {} /\ free' = free /\ home' = home
      /\ spilled' = Append(spilled, iv.v)
  BY DEF SpillItself
<1>2. active' = active
  BY <1>1, Full DEF SpillItself
<1>3. Asked'
  BY <1>1, Taken DEF Asked
<1>4. Progress'
  <2>1. {x.v : x \in Visited} \subseteq {x.v : x \in Visited'} /\ iv.v \in {x.v : x \in Visited'}
    BY <1>1, Taken
  <2>2. spilled' \in Seq({x.v : x \in Visited'})
    BY <1>1, <2>1, Spilling DEF ScanInv, Progress
  <2>3. DOMAIN home' \subseteq {x.v : x \in Visited'}
    BY <1>1, <2>1 DEF ScanInv, Progress
  <2>4. pending' \subseteq intervals' /\ active' \subseteq Visited'
    BY <1>1, <1>2, Taken DEF ScanInv, Progress
  <2>. QED
    BY <1>1, <2>2, <2>3, <2>4, Taken DEF Progress
<1>5. Divided'
  BY <1>1, <1>2, Taken DEF ScanInv, Divided
<1>6. Past'
  <2>1. SUFFICES ASSUME NEW x \in Visited' \ active', NEW y \in pending', x.v \in DOMAIN home'
                 PROVE  x.end < y.start
    BY DEF Past
  <2>2. x \in Visited \ active /\ y \in pending /\ x.v \in DOMAIN home
    BY <1>1, <1>2, <2>1, Taken
  <2>. QED
    BY <2>2 DEF ScanInv, Past
<1>7. HomesApart'
  BY <1>1, Taken DEF ScanInv, AllocationSound, HomesApart
<1>8. EachPlaced'
  <2>1. PICK n : n = Len(spilled)
    OBVIOUS
  <2>2. /\ n \in Nat /\ DOMAIN spilled = 1 .. n /\ DOMAIN spilled' = 1 .. n + 1
        /\ spilled'[n + 1] = iv.v /\ \A k \in 1 .. n : spilled'[k] = spilled[k]
    BY <1>1, <2>1 DEF ScanInv, Progress
  <2>3. SUFFICES ASSUME NEW x \in Visited'
                 PROVE  LET slots == {k \in DOMAIN spilled' : spilled'[k] = x.v} IN
                        IF x.v \in DOMAIN home' THEN home'[x.v] \in homes /\ slots = {}
                        ELSE \E k \in slots : slots = {k}
    BY <1>1, Taken DEF EachPlaced, Visited
  <2>4. CASE x = iv
    <3>1. \A k \in 1 .. n : spilled[k] # iv.v
      BY <1>1, <2>2, Taken
    <3>2. {k \in DOMAIN spilled' : spilled'[k] = x.v} = {n + 1}
      BY <2>2, <2>4, <3>1
    <3>3. x.v \notin DOMAIN home'
      BY <1>1, <2>4, Taken
    <3>. QED
      BY <3>2, <3>3
  <2>5. CASE x # iv
    <3>1. x \in intervals /\ x \in Visited /\ x.v # iv.v
      BY <1>1, <2>3, <2>5, Taken DEF Visited
    <3>2. {k \in DOMAIN spilled' : spilled'[k] = x.v} = {k \in DOMAIN spilled : spilled[k] = x.v}
      BY <2>2, <3>1
    <3>. QED
      BY <1>1, <3>1, <3>2 DEF ScanInv, AllocationSound, EachPlaced, Visited
  <2>. QED
    BY <2>4, <2>5
<1>9. SpillsNeeded'
  BY <1>1, Needed, Taken DEF SpillsNeeded
<1>. QED
  BY <1>3, <1>4, <1>5, <1>6, <1>7, <1>8, <1>9 DEF ScanInv, AllocationSound

(* An ended scan leaves nothing.                                           *)
LEMMA EndInv ==
  ASSUME ScanInv, End
  PROVE  ScanInv'
<1>1. /\ intervals' = {} /\ homes' = {} /\ pending' = {} /\ active' = {} /\ free' = {}
      /\ home' = [v \in {} |-> 0] /\ spilled' = <<>> /\ DOMAIN home' = {}
  BY DEF End
<1>2. Asked'
  BY <1>1 DEF Asked, Idle
<1>3. Progress'
  BY <1>1 DEF Progress, Visited
<1>4. Divided' /\ Past'
  BY <1>1 DEF Divided, Past, Visited
<1>5. AllocationSound'
  BY <1>1 DEF AllocationSound, HomesApart, EachPlaced, SpillsNeeded
<1>. QED
  BY <1>2, <1>3, <1>4, <1>5 DEF ScanInv

(* Every step keeps the invariant.                                         *)
LEMMA NextInv ==
  ASSUME ScanInv, [ScanNext]_scanVars
  PROVE  ScanInv'
<1>1. CASE \E values, registers : IsRequest(values, registers) /\ Begin(values, registers)
  BY <1>1, BeginInv
<1>2. CASE Scan
  BY <1>2, TakeFreeInv, EvictInv, SpillItselfInv DEF Scan
<1>3. CASE End
  BY <1>3, EndInv
<1>4. CASE UNCHANGED scanVars
  <2>1. /\ intervals' = intervals /\ homes' = homes /\ pending' = pending /\ active' = active
        /\ free' = free /\ home' = home /\ spilled' = spilled /\ Visited' = Visited
    BY <1>4 DEF scanVars, Visited
  <2>2. Asked' /\ Progress'
    BY <2>1 DEF ScanInv, Asked, Idle, IsRequest, Progress
  <2>3. Divided' /\ Past'
    BY <2>1 DEF ScanInv, Divided, Past
  <2>4. AllocationSound'
    BY <2>1 DEF ScanInv, AllocationSound, HomesApart, EachPlaced, SpillsNeeded
  <2>. QED
    BY <2>2, <2>3, <2>4 DEF ScanInv
<1>. QED
  BY <1>1, <1>2, <1>3, <1>4 DEF ScanNext

(* Whatever is scanned, at every step two values that are live at one      *)
(* position have two registers, each value come to has a register or one   *)
(* slot, and memory is used only when at some position more values are     *)
(* live than there are registers (linear_scan.cpp:256-331).                *)
THEOREM ScansAreSound == ScanSpec => []AllocationSound
<1>1. Idle => ScanInv
  BY InitInv
<1>2. ScanInv /\ [ScanNext]_scanVars => ScanInv'
  BY NextInv
<1>3. ScanInv => AllocationSound
  BY DEF ScanInv
<1>. QED
  BY <1>1, <1>2, <1>3, PTL DEF ScanSpec

=============================================================================
