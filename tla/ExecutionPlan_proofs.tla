------------------------ MODULE ExecutionPlan_proofs ------------------------
(***************************************************************************)
(* Theorems about ExecutionPlan and the two parts a plan is made of.  The  *)
(* memory pool, for every alignment and every set of sizes: its free-list  *)
(* is exact, and it is an arena.  The lifetime analysis, for every set of  *)
(* well-formed graphs: slot sharing is safe, and wastes no slot.  And the  *)
(* plan, for every such set, any sizes and any prefetch distance, streamed *)
(* or not: what it uses it holds, and holds alone; what it no longer uses  *)
(* it gives back; and its own validation objects to nothing but late       *)
(* Constant values.                                                        *)
(***************************************************************************)
EXTENDS ExecutionPlan, TLAPS, WellFoundedInduction, FunctionTheorems, FiniteSetTheorems

SegOf == [offset : Nat, size : Nat \ {0}, free : BOOLEAN]

(* The segments tile the bytes below the top.                              *)
Tiles(S, top) ==
  /\ S \subseteq SegOf /\ \A s \in S : End(s) <= top
  /\ \A s, r \in S : s.offset <= r.offset /\ r.offset < End(s) => s = r
  /\ \A x \in Nat : x < top => \E s \in S : s.offset <= x /\ x < End(s)

Whole(S) == \A s, r \in S : (s.free /\ r.free) => End(s) # r.offset

Allocated(S) == {s \in S : ~ s.free}
FreeOf(S) == {s \in S : s.free}
FreeByte(S, x) == \E s \in FreeOf(S) : s.offset <= x /\ x < End(s)

-----------------------------------------------------------------------------
(* Least and greatest elements.                                            *)
LEMMA LeastThere ==
  ASSUME NEW S, S \subseteq Nat, S # {}
  PROVE  \E x \in S : \A y \in S : x <= y
<1>. DEFINE Below == OpToRel(<, Nat)
<1>1. PICK x \in S : \A y \in S : ~ (<<y, x>> \in Below)
  BY WFMin, NatLessThanWellFounded
<1>2. \A y \in S : y < x => <<y, x>> \in Below
  BY DEF OpToRel
<1>. HIDE DEF Below
<1>3. \A y \in S : ~ (y < x)
  BY <1>1, <1>2, Zenon
<1>. QED
  BY <1>3

LEMMA GreatestThere ==
  ASSUME NEW N \in Nat, NEW S, S \subseteq 0..N, S # {}
  PROVE  \E x \in S : \A y \in S : y <= x
<1>1. PICK R : R = {r \in Nat : \E p \in S : r + p = N}
  OBVIOUS
<1>2. PICK p \in S : TRUE
  OBVIOUS
<1>3. N - p \in R
  BY <1>1, <1>2
<1>4. PICK r \in R : \A q \in R : r <= q
  BY <1>1, <1>3, LeastThere
<1>5. PICK x \in S : r + x = N
  BY <1>1, <1>4
<1>6. ASSUME NEW q \in S PROVE q <= x
  <2>1. N - q \in R
    BY <1>1, <1>6
  <2>. QED
    BY <1>1, <1>4, <1>5, <1>6, <2>1
<1>. QED
  BY <1>6

LEMMA MinThere ==
  ASSUME NEW S, S \subseteq Nat, S # {}
  PROVE  Min(S) \in S /\ \A y \in S : Min(S) <= y
<1>1. PICK x \in S : \A y \in S : x <= y
  BY LeastThere
<1>. QED
  BY <1>1 DEF Min

LEMMA MaxPair ==
  ASSUME NEW m \in Int, NEW n \in Int
  PROVE  Max({m, n}) = IF m >= n THEN m ELSE n
<1>1. PICK k \in {m, n} : \A x \in {m, n} : x <= k
  OBVIOUS
<1>. QED
  BY <1>1 DEF Max

(* A request is rounded up, to a block that holds it.                      *)
LEMMA BlockFits ==
  ASSUME NEW n \in Nat
  PROVE  BlockSize(n) \in Nat \ {0} /\ n <= BlockSize(n)
<1>1. PICK A \in Nat \ {0} : A = Alignment
  BY AlignmentAssumption
<1>2. PICK q \in Int : q = (n + A - 1) \div A /\ A * q <= n + A - 1 /\ n + A - 1 < A * q + A
  <2>1. \E q, r \in Int : n + A - 1 = A * q + r /\ 0 <= r /\ r < A /\ q = (n + A - 1) \div A
    BY <1>1
  <2>. QED
    BY <2>1
<1>3. Align(n) = q * A
  BY <1>1, <1>2 DEF Align
<1>4. q * A \in Int /\ n <= q * A
  BY <1>1, <1>2
<1>5. Align(n) \in Int /\ n <= Align(n)
  BY <1>3, <1>4
<1>6. BlockSize(n) = IF Align(n) >= A THEN Align(n) ELSE A
  BY <1>1, <1>5, MaxPair DEF BlockSize
<1>. QED
  BY <1>1, <1>5, <1>6

-----------------------------------------------------------------------------
(* Segments that tile.                                                     *)
LEMMA SegShape ==
  ASSUME NEW s \in SegOf
  PROVE  /\ s.offset \in Nat /\ s.size \in Nat \ {0} /\ s.free \in BOOLEAN
         /\ End(s) = s.offset + s.size /\ End(s) \in Nat /\ s.offset < End(s)
BY DEF SegOf, End

LEMMA Segments ==
  ASSUME NEW o \in Nat, NEW n \in Nat \ {0}, NEW b \in BOOLEAN
  PROVE  /\ Segment(o, n, b) \in SegOf
         /\ Segment(o, n, b).offset = o /\ Segment(o, n, b).size = n /\ Segment(o, n, b).free = b
         /\ End(Segment(o, n, b)) = o + n
BY DEF SegOf, End, Segment

LEMMA ShareByte ==
  ASSUME NEW S, NEW top \in Nat, Tiles(S, top), NEW s \in S, NEW r \in S, NEW x \in Nat,
         s.offset <= x, x < End(s), r.offset <= x, x < End(r)
  PROVE  s = r
<1>1. s \in SegOf /\ r \in SegOf
  BY DEF Tiles
<1>2. s.offset <= r.offset \/ r.offset <= s.offset
  BY <1>1, SegShape
<1>. QED
  BY <1>1, <1>2, SegShape DEF Tiles

(* A coalesced free-list: one segment for every run of free bytes.         *)
Runs(S, top, N) ==
  /\ N \subseteq SegOf
  /\ \A n \in N : /\ n.free /\ End(n) <= top
                  /\ \A x \in Nat : n.offset <= x /\ x < End(n) => FreeByte(S, x)
                  /\ ~ FreeByte(S, End(n))
                  /\ n.offset = 0 \/ ~ FreeByte(S, n.offset - 1)
  /\ \A x \in Nat : FreeByte(S, x) => \E n \in N : n.offset <= x /\ x < End(n)

LEMMA CoalesceRuns ==
  ASSUME NEW S, NEW top \in Nat, Tiles(S, top)
  PROVE  \E N : Coalesce(S) = Allocated(S) \cup N /\ Runs(S, top, N)
<1>1. PICK F : F = FreeOf(S)
  OBVIOUS
<1>2. PICK Starts : Starts = {s.offset : s \in F} \ {End(s) : s \in F}
  OBVIOUS
<1>3. PICK Ends : Ends = {End(s) : s \in F} \ {s.offset : s \in F}
  OBVIOUS
<1>4. PICK N : N = {Segment(o, Min({e \in Ends : e > o}) - o, TRUE) : o \in Starts}
  OBVIOUS
<1>5. Coalesce(S) = Allocated(S) \cup N
  BY <1>1, <1>2, <1>3, <1>4 DEF Coalesce, Allocated, FreeOf
<1>6. ASSUME NEW s \in F
      PROVE  /\ s \in S /\ s \in SegOf /\ s.free /\ s.offset \in Nat /\ End(s) \in Nat
             /\ s.offset < End(s) /\ End(s) <= top
  BY <1>1, <1>6, SegShape DEF FreeOf, Tiles
<1>7. ASSUME NEW s \in F, NEW r \in F, NEW x \in Nat,
             s.offset <= x, x < End(s), r.offset <= x, x < End(r)
      PROVE  s = r
  BY <1>6, <1>7, ShareByte
<1>8. \A x \in Nat : FreeByte(S, x) <=> \E s \in F : s.offset <= x /\ x < End(s)
  BY <1>1 DEF FreeByte
<1>9. ASSUME NEW e \in Ends PROVE e \in Nat /\ e <= top /\ ~ FreeByte(S, e)
  <2>1. PICK g \in F : e = End(g) /\ \A s \in F : s.offset # e
    BY <1>3, <1>9
  <2>2. ASSUME NEW f \in F, f.offset <= e, e < End(f) PROVE FALSE
    <3>1. f.offset <= e - 1 /\ e - 1 < End(f) /\ g.offset <= e - 1 /\ e - 1 < End(g) /\ e - 1 \in Nat
      BY <1>6, <2>1, <2>2
    <3>2. f = g
      BY <1>7, <3>1
    <3>. QED
      BY <2>1, <2>2, <3>2, <1>6
  <2>. QED
    BY <1>6, <1>8, <2>1, <2>2
<1>10. ASSUME NEW o \in Starts
       PROVE  /\ o \in Nat /\ FreeByte(S, o) /\ (o = 0 \/ ~ FreeByte(S, o - 1))
              /\ \E e \in Ends : /\ Segment(o, Min({d \in Ends : d > o}) - o, TRUE) = Segment(o, e - o, TRUE)
                                 /\ e > o /\ \A x \in Nat : o <= x /\ x < e => FreeByte(S, x)
  <2>1. PICK f \in F : o = f.offset /\ \A s \in F : End(s) # o
    BY <1>2, <1>10
  <2>2. o \in Nat /\ FreeByte(S, o)
    BY <1>6, <1>8, <2>1
  <2>3. ASSUME o # 0, FreeByte(S, o - 1) PROVE FALSE
    <3>1. o - 1 \in Nat
      BY <2>2, <2>3
    <3>2. PICK g \in F : g.offset <= o - 1 /\ o - 1 < End(g)
      BY <1>8, <2>3, <3>1
    <3>3. g.offset <= o /\ o < End(g)
      BY <1>6, <2>1, <2>2, <3>2
    <3>4. g = f
      BY <1>6, <1>7, <2>1, <2>2, <3>3
    <3>. QED
      BY <1>6, <2>1, <3>2, <3>4
  <2>4. PICK D : D = {d \in Ends : d > o}
    OBVIOUS
  <2>5. D # {}
    <3>1. {End(s) : s \in F} \subseteq 0..top /\ {End(s) : s \in F} # {}
      BY <1>6, <2>1
    <3>2. PICK m \in {End(s) : s \in F} : \A y \in {End(s) : s \in F} : y <= m
      BY <3>1, GreatestThere
    <3>3. \A s \in F : s.offset # m
      BY <1>6, <3>2
    <3>4. m > o
      BY <1>6, <2>1, <3>2
    <3>. QED
      BY <1>3, <2>4, <3>2, <3>3, <3>4
  <2>6. PICK e : e = Min(D) /\ e \in D /\ \A d \in D : e <= d
    BY <1>9, <2>4, <2>5, MinThere
  <2>7. e \in Ends /\ e > o /\ e \in Nat
    BY <1>9, <2>4, <2>6
  <2>8. ASSUME NEW x \in Nat, o <= x, x < e, ~ FreeByte(S, x) PROVE FALSE
    <3>1. PICK B : B = {y \in Nat : o <= y /\ y < e /\ ~ FreeByte(S, y)}
      OBVIOUS
    <3>2. PICK y \in B : \A z \in B : y <= z
      BY <2>8, <3>1, LeastThere
    <3>3. y \in Nat /\ o < y /\ y < e /\ ~ FreeByte(S, y) /\ y - 1 \in Nat
      BY <2>2, <3>1, <3>2
    <3>4. FreeByte(S, y - 1)
      <4>1. PICK z \in Nat : z = y - 1
        BY <3>3
      <4>2. o <= z /\ z < e /\ z < y
        BY <2>2, <2>7, <3>3, <4>1
      <4>3. z \notin B
        BY <3>1, <3>2, <4>2
      <4>. QED
        BY <3>1, <4>1, <4>2, <4>3
    <3>5. PICK f1 \in F : f1.offset <= y - 1 /\ y - 1 < End(f1)
      BY <1>8, <3>3, <3>4
    <3>6. End(f1) = y
      BY <1>6, <1>8, <3>3, <3>5
    <3>7. \A s \in F : s.offset # y
      BY <1>6, <1>8, <3>3
    <3>8. y \in D
      BY <1>3, <2>4, <3>3, <3>6, <3>7
    <3>. QED
      BY <2>6, <2>7, <3>3, <3>8
  <2>9. Segment(o, Min({d \in Ends : d > o}) - o, TRUE) = Segment(o, e - o, TRUE)
    BY <2>4, <2>6, Zenon
  <2>. QED
    BY <2>2, <2>3, <2>7, <2>8, <2>9
<1>11. ASSUME NEW n \in N
       PROVE  /\ n \in SegOf /\ n.free /\ End(n) \in Ends /\ n.offset \in Starts
              /\ \A x \in Nat : n.offset <= x /\ x < End(n) => FreeByte(S, x)
  <2>1. PICK o \in Starts : n = Segment(o, Min({e \in Ends : e > o}) - o, TRUE)
    BY <1>4, <1>11
  <2>2. PICK e \in Ends : /\ Segment(o, Min({d \in Ends : d > o}) - o, TRUE) = Segment(o, e - o, TRUE)
                          /\ e > o /\ \A x \in Nat : o <= x /\ x < e => FreeByte(S, x)
    BY <1>10
  <2>3. n = Segment(o, e - o, TRUE)
    BY <2>1, <2>2, Zenon
  <2>4. o \in Nat /\ e \in Nat /\ e - o \in Nat \ {0} /\ o + (e - o) = e
    <3>1. o \in Nat
      BY <1>10
    <3>2. e \in Nat /\ e > o
      BY <1>9, <2>2
    <3>. QED
      BY <3>1, <3>2
  <2>5. n \in SegOf /\ n.free /\ n.offset = o /\ End(n) = o + (e - o)
    BY <2>3, <2>4, Segments
  <2>. QED
    BY <2>2, <2>4, <2>5
<1>12. ASSUME NEW x \in Nat, FreeByte(S, x) PROVE \E n \in N : n.offset <= x /\ x < End(n)
  <2>1. PICK B : B = {y \in Nat : y <= x /\ \A z \in Nat : y <= z /\ z <= x => FreeByte(S, z)}
    OBVIOUS
  <2>2. x \in B
    BY <1>12, <2>1
  <2>3. PICK y \in B : \A z \in B : y <= z
    BY <2>1, <2>2, LeastThere
  <2>4. y \in Nat /\ y <= x /\ FreeByte(S, y)
    BY <2>1, <2>3
  <2>5. y = 0 \/ ~ FreeByte(S, y - 1)
    <3>1. SUFFICES ASSUME y # 0, FreeByte(S, y - 1) PROVE FALSE
      OBVIOUS
    <3>2. y - 1 \in Nat /\ y - 1 <= x
      BY <2>4, <3>1
    <3>3. ASSUME NEW z \in Nat, y - 1 <= z, z <= x PROVE FreeByte(S, z)
      <4>1. CASE z = y - 1
        BY <3>1, <4>1
      <4>2. CASE z # y - 1
        <5>1. y <= z
          BY <2>4, <3>3, <4>2
        <5>. QED
          BY <2>1, <2>3, <3>3, <5>1
      <4>. QED
        BY <4>1, <4>2
    <3>4. y - 1 \in B
      BY <2>1, <3>2, <3>3
    <3>. QED
      BY <2>3, <2>4, <3>4
  <2>6. PICK f \in F : f.offset <= y /\ y < End(f)
    BY <1>8, <2>4
  <2>7. f.offset = y
    <3>1. SUFFICES ASSUME f.offset < y PROVE FALSE
      BY <1>6, <2>4, <2>6
    <3>2. y - 1 \in Nat /\ f.offset <= y - 1 /\ y - 1 < End(f) /\ y # 0
      BY <1>6, <2>4, <2>6, <3>1
    <3>. QED
      BY <1>8, <2>5, <3>2
  <2>8. ASSUME NEW g \in F, End(g) = y PROVE FALSE
    <3>1. y - 1 \in Nat /\ g.offset <= y - 1 /\ y - 1 < End(g) /\ y # 0
      BY <1>6, <2>4, <2>8
    <3>. QED
      BY <1>8, <2>5, <3>1
  <2>9. y \in Starts
    BY <1>2, <2>7, <2>8
  <2>10. PICK e \in Ends : Segment(y, Min({d \in Ends : d > y}) - y, TRUE) = Segment(y, e - y, TRUE) /\ e > y
    BY <1>10, <2>9
  <2>11. PICK n \in N : n = Segment(y, e - y, TRUE)
    BY <1>4, <2>9, <2>10
  <2>12. e \in Nat /\ ~ FreeByte(S, e) /\ e - y \in Nat \ {0} /\ y + (e - y) = e
    BY <1>9, <2>4, <2>10
  <2>13. n.offset = y /\ End(n) = y + (e - y)
    BY <2>4, <2>11, <2>12, Segments
  <2>14. x < e
    <3>1. SUFFICES ASSUME e <= x PROVE FALSE
      BY <2>12
    <3>. QED
      BY <2>1, <2>3, <2>4, <2>10, <2>12, <3>1
  <2>. QED
    BY <2>4, <2>12, <2>13, <2>14
<1>13. Runs(S, top, N)
  BY <1>9, <1>10, <1>11, <1>12 DEF Runs
<1>. QED
  BY <1>5, <1>13

(* Coalescing keeps the tiling and what is allocated, and makes every hole *)
(* one segment.                                                            *)
LEMMA CoalesceTiles ==
  ASSUME NEW S, NEW top \in Nat, Tiles(S, top)
  PROVE  /\ Tiles(Coalesce(S), top) /\ Whole(Coalesce(S))
         /\ Allocated(Coalesce(S)) = Allocated(S)
<1>1. PICK N : Coalesce(S) = Allocated(S) \cup N /\ Runs(S, top, N)
  BY CoalesceRuns
<1>2. PICK C : C = Coalesce(S)
  OBVIOUS
<1>3. ASSUME NEW a \in Allocated(S)
      PROVE  /\ a \in S /\ a \in SegOf /\ ~ a.free /\ End(a) <= top
             /\ \A x \in Nat : a.offset <= x /\ x < End(a) => ~ FreeByte(S, x)
  <2>1. a \in S /\ a \in SegOf /\ ~ a.free /\ End(a) <= top
    BY <1>3 DEF Allocated, Tiles
  <2>2. ASSUME NEW x \in Nat, a.offset <= x, x < End(a), FreeByte(S, x) PROVE FALSE
    BY <2>1, <2>2, ShareByte DEF FreeByte, FreeOf
  <2>. QED
    BY <2>1, <2>2
<1>4. ASSUME NEW n \in N
      PROVE  /\ n \in SegOf /\ n.free /\ End(n) <= top /\ ~ FreeByte(S, End(n))
             /\ \A x \in Nat : n.offset <= x /\ x < End(n) => FreeByte(S, x)
             /\ n.offset = 0 \/ ~ FreeByte(S, n.offset - 1)
  BY <1>1, <1>4 DEF Runs
<1>5. C \subseteq SegOf /\ \A s \in C : End(s) <= top
  BY <1>1, <1>2, <1>3, <1>4
<1>6. ASSUME NEW s \in C, NEW r \in C, s.offset <= r.offset, r.offset < End(s) PROVE s = r
  <2>1. /\ s \in SegOf /\ r \in SegOf /\ r.offset \in Nat /\ s.offset \in Nat
        /\ r.offset < End(r) /\ s.offset < End(s) /\ End(s) \in Nat /\ End(r) \in Nat
        /\ End(s) = s.offset + s.size /\ End(r) = r.offset + r.size
        /\ s.size \in Nat /\ r.size \in Nat
    BY <1>5, SegShape
  <2>2. CASE s \in Allocated(S) /\ r \in Allocated(S)
    BY <1>3, <1>6, <2>2 DEF Tiles
  <2>3. CASE s \in Allocated(S) /\ r \in N
    BY <1>3, <1>4, <1>6, <2>1, <2>3
  <2>4. CASE s \in N /\ r \in Allocated(S)
    BY <1>3, <1>4, <1>6, <2>1, <2>4
  <2>5. CASE s \in N /\ r \in N
    <3>1. s.offset = r.offset
      <4>1. SUFFICES ASSUME s.offset < r.offset PROVE FALSE
        BY <1>6, <2>1
      <4>2. r.offset - 1 \in Nat /\ s.offset <= r.offset - 1 /\ r.offset - 1 < End(s) /\ r.offset # 0
        BY <1>6, <2>1, <4>1
      <4>. QED
        BY <1>4, <2>5, <4>2
    <3>2. ~ (End(s) < End(r)) /\ ~ (End(r) < End(s))
      BY <1>4, <2>1, <2>5, <3>1
    <3>3. s.size = r.size /\ s.free = TRUE /\ r.free = TRUE
      BY <1>4, <2>1, <2>5, <3>1, <3>2 DEF SegOf
    <3>. QED
      BY <2>1, <3>1, <3>3 DEF SegOf
  <2>. QED
    BY <1>1, <1>2, <2>2, <2>3, <2>4, <2>5
<1>7. ASSUME NEW x \in Nat, x < top PROVE \E s \in C : s.offset <= x /\ x < End(s)
  <2>1. PICK s \in S : s.offset <= x /\ x < End(s)
    BY <1>7 DEF Tiles
  <2>2. CASE s.free
    <3>1. FreeByte(S, x)
      BY <2>1, <2>2 DEF FreeByte, FreeOf
    <3>. QED
      BY <1>1, <1>2, <3>1 DEF Runs
  <2>3. CASE ~ s.free
    BY <1>1, <1>2, <2>1, <2>3 DEF Allocated
  <2>. QED
    BY <2>2, <2>3
<1>8. ASSUME NEW s \in C, NEW r \in C, s.free, r.free, End(s) = r.offset PROVE FALSE
  <2>1. s \in N /\ r \in N
    BY <1>1, <1>2, <1>3, <1>8
  <2>2. r.offset \in Nat /\ r.offset < End(r)
    BY <1>4, <2>1, SegShape
  <2>. QED
    BY <1>4, <1>8, <2>1, <2>2
<1>9. Allocated(C) = Allocated(S)
  BY <1>1, <1>2, <1>4 DEF Allocated
<1>10. Tiles(C, top) /\ Whole(C)
  BY <1>5, <1>6, <1>7, <1>8 DEF Tiles, Whole
<1>. QED
  BY <1>2, <1>9, <1>10

(* free: the segments tile as before, less one allocated segment.          *)
LEMMA ReleasedTiles ==
  ASSUME NEW S, NEW top \in Nat, Tiles(S, top), NEW o
  PROVE  /\ Tiles(Released(S, o), top) /\ Whole(Released(S, o))
         /\ Allocated(Released(S, o)) = {s \in Allocated(S) : s.offset # o}
<1>. DEFINE m(s) == IF s.offset = o THEN [s EXCEPT !.free = TRUE] ELSE s
<1>1. PICK R : R = {m(s) : s \in S}
  OBVIOUS
<1>2. ASSUME NEW s \in S
      PROVE  /\ s \in SegOf /\ m(s) \in SegOf /\ m(s).offset = s.offset /\ m(s).size = s.size
             /\ End(m(s)) = End(s) /\ End(s) <= top
             /\ m(s).free = (s.free \/ s.offset = o)
             /\ (s.offset # o => m(s) = s)
  <2>1. s \in SegOf /\ End(s) <= top
    BY <1>2 DEF Tiles
  <2>2. CASE s.offset = o
    <3>1. PICK r : r = m(s)
      OBVIOUS
    <3>2. r = [s EXCEPT !.free = TRUE]
      BY <2>2, <3>1
    <3>3. r \in SegOf /\ r.offset = s.offset /\ r.size = s.size /\ r.free = TRUE
      BY <2>1, <3>2 DEF SegOf
    <3>4. End(r) = End(s)
      BY <3>3 DEF End
    <3>. HIDE DEF m
    <3>. QED
      BY <2>1, <2>2, <3>1, <3>3, <3>4
  <2>3. CASE s.offset # o
    BY <2>1, <2>3 DEF SegOf
  <2>. QED
    BY <2>2, <2>3
<1>. HIDE DEF m
<1>3. Tiles(R, top)
  <2>1. R \subseteq SegOf /\ \A r \in R : End(r) <= top
    BY <1>1, <1>2
  <2>2. ASSUME NEW a \in R, NEW b \in R, a.offset <= b.offset, b.offset < End(a) PROVE a = b
    <3>1. PICK s \in S : a = m(s)
      BY <1>1
    <3>2. PICK r \in S : b = m(r)
      BY <1>1
    <3>3. s = r
      BY <1>2, <2>2, <3>1, <3>2 DEF Tiles
    <3>. QED
      BY <3>1, <3>2, <3>3
  <2>3. ASSUME NEW x \in Nat, x < top PROVE \E r \in R : r.offset <= x /\ x < End(r)
    <3>1. PICK s \in S : s.offset <= x /\ x < End(s)
      BY <2>3 DEF Tiles
    <3>2. m(s) \in R /\ m(s).offset <= x /\ x < End(m(s))
      BY <1>1, <1>2, <3>1
    <3>. QED
      BY <3>2
  <2>. QED
    BY <2>1, <2>2, <2>3 DEF Tiles
<1>4. Allocated(R) = {s \in Allocated(S) : s.offset # o}
  <2>1. ASSUME NEW r \in Allocated(R) PROVE r \in S /\ ~ r.free /\ r.offset # o
    <3>1. PICK s \in S : r = m(s) /\ ~ m(s).free
      BY <1>1 DEF Allocated
    <3>2. s.offset # o /\ ~ s.free
      BY <1>2, <3>1
    <3>. QED
      BY <1>2, <3>1, <3>2
  <2>2. ASSUME NEW s \in S, ~ s.free, s.offset # o PROVE s \in Allocated(R)
    <3>1. s = m(s)
      BY <1>2, <2>2
    <3>. QED
      BY <1>1, <2>2, <3>1 DEF Allocated
  <2>. QED
    BY <2>1, <2>2 DEF Allocated
<1>5. Released(S, o) = Coalesce(R)
  BY <1>1 DEF Released, m
<1>. QED
  BY <1>3, <1>4, <1>5, CoalesceTiles

(* The segment a request is served from exists whenever one is large       *)
(* enough.                                                                 *)
LEMMA BestFitFits ==
  ASSUME NEW S, S \subseteq SegOf, NEW size \in Nat, Fitting(S, size) # {}
  PROVE  BestFit(S, size) \in Fitting(S, size)
<1>1. PICK F : F = Fitting(S, size)
  OBVIOUS
<1>2. \A s \in F : s.offset \in Nat /\ s.size \in Nat
  BY <1>1 DEF Fitting, SegOf
<1>3. PICK Z : Z = {s.size : s \in F}
  OBVIOUS
<1>4. Z \subseteq Nat /\ Z # {}
  BY <1>1, <1>2, <1>3
<1>5. PICK z \in Z : \A y \in Z : z <= y
  BY <1>4, LeastThere
<1>6. PICK O : O = {s.offset : s \in {r \in F : r.size = z}}
  OBVIOUS
<1>7. O \subseteq Nat /\ O # {}
  BY <1>2, <1>3, <1>6
<1>8. PICK o \in O : \A y \in O : o <= y
  BY <1>7, LeastThere
<1>9. PICK s \in F : s.size = z /\ s.offset = o
  BY <1>6
<1>10. ASSUME NEW r \in F PROVE s.size < r.size \/ (s.size = r.size /\ s.offset <= r.offset)
  <2>1. r.size \in Z /\ z <= r.size
    BY <1>3, <1>5
  <2>2. CASE r.size = z
    BY <1>6, <1>8, <1>9, <2>2
  <2>3. CASE r.size # z
    BY <1>2, <1>9, <2>1, <2>3
  <2>. QED
    BY <2>2, <2>3
<1>11. \E t \in Fitting(S, size) :
         \A r \in Fitting(S, size) : t.size < r.size \/ (t.size = r.size /\ t.offset <= r.offset)
  BY <1>1, <1>10
<1>. QED
  BY <1>11, Zenon DEF BestFit

(* malloc: one more allocated segment, at the offset of the allocation,    *)
(* and the segments tile the arena that may have grown.                    *)
LEMMA PlacedTiles ==
  ASSUME NEW S, NEW top \in Nat, Tiles(S, top), Whole(S), NEW size \in Nat \ {0}
  PROVE  /\ PlacedAt(S, top, size) \in Nat /\ TopAfter(S, top, size) \in Nat
         /\ Tiles(Placed(S, top, size), TopAfter(S, top, size)) /\ Whole(Placed(S, top, size))
         /\ Allocated(Placed(S, top, size))
              = Allocated(S) \cup {Segment(PlacedAt(S, top, size), size, FALSE)}
         /\ \A s \in Allocated(S) : s.offset # PlacedAt(S, top, size)
<1>1. ASSUME NEW s \in S
      PROVE  /\ s \in SegOf /\ s.offset \in Nat /\ s.size \in Nat /\ s.size # 0 /\ End(s) <= top
             /\ End(s) = s.offset + s.size /\ End(s) \in Nat /\ s.offset < End(s)
  BY SegShape DEF Tiles
<1>2. CASE Fitting(S, size) # {}
  <2>1. PICK f : f = BestFit(S, size) /\ f \in S /\ f.free /\ f.size >= size
    <3>1. S \subseteq SegOf
      BY DEF Tiles
    <3>. QED
      BY <1>2, <3>1, BestFitFits DEF Fitting
  <2>2. PICK a : a = Segment(f.offset, size, FALSE)
    OBVIOUS
  <2>3. a \in SegOf /\ a.offset = f.offset /\ a.size = size /\ a.free = FALSE /\ End(a) = f.offset + size
    <3>1. f.offset \in Nat
      BY <1>1, <2>1
    <3>. QED
      BY <2>2, <3>1, Segments
  <2>4. PICK X : X = IF f.size > size THEN {Segment(f.offset + size, f.size - size, TRUE)} ELSE {}
    OBVIOUS
  <2>m. PICK m \in Nat : m = f.offset + size
    BY <1>1, <2>1
  <2>e. /\ f.offset \in Nat /\ End(f) \in Nat /\ f.offset < m /\ m <= End(f) /\ End(f) <= top
        /\ (f.size > size <=> m < End(f))
    BY <1>1, <2>1, <2>m
  <2>5. ASSUME NEW r \in X
        PROVE  r \in SegOf /\ r.offset = m /\ r.free = TRUE /\ End(r) = End(f) /\ m < End(f)
    <3>1. f.size > size /\ r = Segment(f.offset + size, f.size - size, TRUE)
      BY <2>4, <2>5
    <3>2. PICK k \in Nat \ {0} : k = f.size - size
      BY <1>1, <2>1, <3>1
    <3>3. r = Segment(m, k, TRUE)
      BY <2>m, <3>1, <3>2
    <3>4. m + k = End(f)
      BY <1>1, <2>1, <2>m, <3>2
    <3>5. m < End(f)
      BY <2>e, <3>1
    <3>6. r \in SegOf /\ r.offset = m /\ r.free = TRUE /\ End(r) = m + k
      BY <3>3, Segments
    <3>. QED
      BY <3>4, <3>5, <3>6
  <2>a. a.offset = f.offset /\ End(a) = m /\ ~ a.free
    BY <2>m, <2>3
  <2>x. \A r \in X : r.offset = m /\ End(r) = End(f) /\ m < End(f) /\ m \in Nat
    BY <2>5
  <2>w. \A r \in {a} \cup X : /\ r.offset \in Nat /\ End(r) \in Nat /\ f.offset <= r.offset
                              /\ End(r) <= End(f) /\ r.offset < End(r)
    BY <2>e, <2>a, <2>x
  <2>o. \A s \in S \ {f} : /\ s.offset \in Nat /\ End(s) \in Nat /\ s.offset < End(s)
                           /\ End(s) <= f.offset \/ End(f) <= s.offset
    BY <1>1, <2>1 DEF Tiles
  <2>6. PICK P : P = (S \ {f}) \cup {a} \cup X
    OBVIOUS
  <2>7. Placed(S, top, size) = P /\ PlacedAt(S, top, size) = f.offset /\ TopAfter(S, top, size) = top
    BY <1>2, <2>1, <2>2, <2>4, <2>6, Zenon DEF Placed, PlacedAt, TopAfter, Split
  <2>8. ASSUME NEW s \in S \ {f} PROVE End(s) <= f.offset \/ End(f) <= s.offset
    BY <1>1, <2>1 DEF Tiles
  <2>9. ASSUME NEW s \in P
        PROVE  /\ s \in SegOf /\ s.offset \in Nat /\ s.offset < End(s) /\ End(s) \in Nat /\ End(s) <= top
    <3>1. CASE s \in S
      BY <1>1, <3>1
    <3>2. CASE s = a
      BY <2>e, <2>m, <2>3, <3>2
    <3>3. CASE s \in X
      BY <2>e, <2>5, <3>3
    <3>. QED
      BY <2>6, <3>1, <3>2, <3>3
  <2>10. ASSUME NEW s \in P, NEW r \in P, s.offset <= r.offset, r.offset < End(s) PROVE s = r
    <3>1. CASE s \in S \ {f} /\ r \in S \ {f}
      BY <2>10, <3>1 DEF Tiles
    <3>2. CASE s \in S \ {f} /\ r \in {a} \cup X
      BY <2>e, <2>w, <2>o, <2>10, <3>2
    <3>3. CASE s \in {a} \cup X /\ r \in S \ {f}
      BY <2>e, <2>w, <2>o, <2>10, <3>3
    <3>4. CASE s = a /\ r \in X
      BY <2>e, <2>a, <2>x, <2>10, <3>4
    <3>5. CASE s \in X /\ r = a
      BY <2>e, <2>a, <2>x, <2>10, <3>5
    <3>6. CASE (s \in X /\ r \in X) \/ (s = a /\ r = a)
      BY <2>4, <3>6
    <3>. QED
      BY <2>6, <3>1, <3>2, <3>3, <3>4, <3>5, <3>6
  <2>11. ASSUME NEW x \in Nat, x < top PROVE \E s \in P : s.offset <= x /\ x < End(s)
    <3>1. PICK s \in S : s.offset <= x /\ x < End(s)
      BY <2>11 DEF Tiles
    <3>2. CASE s # f
      BY <2>6, <3>1, <3>2
    <3>3. CASE s = f /\ x < f.offset + size
      BY <2>3, <2>6, <3>1, <3>3
    <3>4. CASE s = f /\ ~ (x < f.offset + size)
      <4>1. f.size > size
        BY <2>e, <2>m, <3>1, <3>4
      <4>2. PICK r \in X : TRUE
        BY <2>4, <4>1
      <4>3. r \in P /\ r.offset <= x /\ x < End(r)
        BY <2>e, <2>m, <2>x, <2>6, <3>1, <3>4, <4>2
      <4>. QED
        BY <4>3
    <3>. QED
      BY <3>2, <3>3, <3>4
  <2>12. ASSUME NEW s \in P, NEW r \in P, s.free, r.free, End(s) = r.offset PROVE FALSE
    <3>1. s # a /\ r # a
      BY <2>3, <2>12
    <3>2. CASE s \in S \ {f} /\ r \in S \ {f}
      BY <2>12, <3>2 DEF Whole
    <3>3. CASE s \in X /\ r \in S \ {f}
      BY <2>1, <2>x, <2>12, <3>3 DEF Whole
    <3>4. CASE s \in S \ {f} /\ r \in X
      BY <2>e, <2>x, <2>o, <2>12, <3>4
    <3>5. CASE s \in X /\ r \in X
      BY <2>e, <2>x, <2>12, <3>5
    <3>. QED
      BY <2>6, <3>1, <3>2, <3>3, <3>4, <3>5
  <2>13. Allocated(P) = Allocated(S) \cup {a}
    BY <2>1, <2>3, <2>5, <2>6 DEF Allocated
  <2>14. \A s \in Allocated(S) : s.offset # f.offset
    <3>1. ASSUME NEW s \in S, ~ s.free PROVE s.offset # f.offset
      BY <1>1, <2>1, <2>8, <3>1
    <3>. QED
      BY <3>1 DEF Allocated
  <2>15. Tiles(P, top) /\ Whole(P)
    <3>1. P \subseteq SegOf /\ \A s \in P : End(s) <= top
      BY <2>9
    <3>. QED
      BY <2>10, <2>11, <2>12, <3>1 DEF Tiles, Whole
  <2>. QED
    BY <1>1, <2>1, <2>2, <2>7, <2>13, <2>14, <2>15
<1>3. CASE Fitting(S, size) = {}
  <2>1. PICK a : a = Segment(top, size, FALSE)
    OBVIOUS
  <2>2. a \in SegOf /\ a.offset = top /\ a.size = size /\ a.free = FALSE /\ End(a) = top + size
    BY <2>1, Segments
  <2>3. PICK P : P = S \cup {a}
    OBVIOUS
  <2>4. Placed(S, top, size) = P /\ PlacedAt(S, top, size) = top /\ TopAfter(S, top, size) = top + size
    BY <1>3, <2>1, <2>3 DEF Placed, PlacedAt, TopAfter
  <2>5. P \subseteq SegOf /\ \A s \in P : End(s) <= top + size
    BY <1>1, <2>2, <2>3
  <2>6. ASSUME NEW s \in P, NEW r \in P, s.offset <= r.offset, r.offset < End(s) PROVE s = r
    <3>1. CASE s \in S /\ r \in S
      BY <2>6, <3>1 DEF Tiles
    <3>2. CASE s \in S /\ r = a
      BY <1>1, <2>2, <2>6, <3>2
    <3>3. CASE s = a /\ r \in S
      BY <1>1, <2>2, <2>6, <3>3
    <3>. QED
      BY <2>3, <3>1, <3>2, <3>3
  <2>7. ASSUME NEW x \in Nat, x < top + size PROVE \E s \in P : s.offset <= x /\ x < End(s)
    <3>1. CASE x < top
      BY <2>3, <3>1 DEF Tiles
    <3>2. CASE ~ (x < top)
      BY <2>2, <2>3, <2>7, <3>2
    <3>. QED
      BY <3>1, <3>2
  <2>8. Whole(P)
    BY <2>2, <2>3 DEF Whole
  <2>9. Allocated(P) = Allocated(S) \cup {a}
    BY <2>2, <2>3 DEF Allocated
  <2>10. \A s \in Allocated(S) : s.offset # top
    <3>1. ASSUME NEW s \in S PROVE s.offset # top
      BY <1>1
    <3>. QED
      BY <3>1 DEF Allocated
  <2>11. Tiles(P, top + size)
    BY <2>5, <2>6, <2>7 DEF Tiles
  <2>. QED
    BY <2>1, <2>4, <2>8, <2>9, <2>10, <2>11
<1>. QED
  BY <1>2, <1>3

(* defragment: at most one free segment goes, the one that ends at the     *)
(* top.                                                                    *)
LEMMA DefragmentedTiles ==
  ASSUME NEW S, NEW top \in Nat, Tiles(S, top),
         NEW T, T = TopDefragmented(S, top), NEW D, D = Defragmented(S)
  PROVE  /\ T \in Nat /\ T <= top /\ Tiles(D, T) /\ Whole(D) /\ Allocated(D) = Allocated(S)
         /\ T = top \/ T = 0 \/ \E s \in Allocated(S) : End(s) = T
<1>1. PICK C : C = Coalesce(S)
  OBVIOUS
<1>2. Tiles(C, top) /\ Whole(C) /\ Allocated(C) = Allocated(S)
  BY <1>1, CoalesceTiles
<1>3. PICK Q : Q = {s \in C : \A r \in C : r.offset >= s.offset => r.free}
  OBVIOUS
<1>4. D = C \ Q /\ T = Min({top} \cup {s.offset : s \in Q})
  BY <1>1, <1>3, Zenon DEF Defragmented, TopDefragmented, Trailing
<1>5. ASSUME NEW s \in C
      PROVE  /\ s \in SegOf /\ s.offset \in Nat /\ End(s) <= top /\ End(s) \in Nat /\ s.offset < End(s)
  BY <1>2, SegShape DEF Tiles
<1>6. ASSUME NEW t \in Q PROVE t \in C /\ t.free /\ End(t) = top
  <2>1. t \in C /\ \A r \in C : r.offset >= t.offset => r.free
    BY <1>3, <1>6
  <2>2. t.free
    BY <1>5, <2>1
  <2>3. ASSUME End(t) < top PROVE FALSE
    <3>1. PICK r \in C : r.offset <= End(t) /\ End(t) < End(r)
      BY <1>2, <1>5, <2>1, <2>3 DEF Tiles
    <3>2. r # t
      BY <1>5, <3>1
    <3>3. ~ (r.offset <= t.offset) /\ ~ (t.offset <= r.offset /\ r.offset < End(t))
      BY <1>2, <1>5, <2>1, <3>1, <3>2 DEF Tiles
    <3>4. r.offset = End(t) /\ r.free
      BY <1>5, <2>1, <3>1, <3>3
    <3>. QED
      BY <1>2, <2>1, <2>2, <3>4 DEF Whole
  <2>. QED
    BY <1>5, <2>1, <2>2, <2>3
<1>7. ASSUME NEW s \in C, NEW t \in Q PROVE s = t \/ End(s) <= t.offset
  BY <1>2, <1>5, <1>6 DEF Tiles
<1>8. Whole(D)
  BY <1>2, <1>4 DEF Whole
<1>9. Allocated(D) = Allocated(S)
  BY <1>2, <1>4, <1>6 DEF Allocated
<1>10. CASE Q = {}
  <2>1. T = top /\ D = C
    <3>1. {s.offset : s \in Q} = {}
      BY <1>10
    <3>2. {top} \cup {s.offset : s \in Q} = {top}
      BY <3>1
    <3>3. T \in {top}
      BY <1>4, <3>2, MinThere
    <3>. QED
      BY <1>4, <1>10, <3>3
  <2>. QED
    BY <1>2, <1>8, <1>9, <2>1
<1>11. ASSUME NEW t \in Q PROVE T \in Nat /\ T <= top /\ Tiles(D, T) /\ (T = 0 \/ \E s \in Allocated(S) : End(s) = T)
  <2>1. \A q \in Q : q = t
    BY <1>5, <1>6, <1>7, <1>11
  <2>2. T = t.offset
    <3>1. {top} \cup {s.offset : s \in Q} \subseteq Nat /\ t.offset \in {s.offset : s \in Q}
      BY <1>5, <1>6, <1>11
    <3>2. T \in {top} \cup {s.offset : s \in Q} /\ T <= t.offset
      BY <1>4, <3>1, MinThere
    <3>3. t.offset < top
      BY <1>5, <1>6, <1>11
    <3>. QED
      BY <1>5, <1>6, <2>1, <3>2, <3>3
  <2>3. D = C \ {t}
    BY <1>4, <1>11, <2>1
  <2>4. t \in C /\ T \in Nat /\ T <= top /\ T < End(t) /\ End(t) = top
    BY <1>5, <1>6, <1>11, <2>2
  <2>5. Tiles(D, T)
    <3>1. D \subseteq SegOf /\ \A s \in D : End(s) <= T
      BY <1>5, <1>7, <2>2, <2>3
    <3>2. \A s, r \in D : s.offset <= r.offset /\ r.offset < End(s) => s = r
      BY <1>2, <2>3 DEF Tiles
    <3>3. ASSUME NEW x \in Nat, x < T PROVE \E s \in D : s.offset <= x /\ x < End(s)
      <4>1. PICK s \in C : s.offset <= x /\ x < End(s)
        BY <1>2, <2>4, <3>3 DEF Tiles
      <4>2. s # t
        BY <1>5, <2>2, <2>4, <3>3, <4>1
      <4>. QED
        BY <2>3, <4>1, <4>2
    <3>. QED
      BY <3>1, <3>2, <3>3 DEF Tiles
  <2>6. ASSUME T # 0 PROVE \E s \in Allocated(S) : End(s) = T
    <3>1. T - 1 \in Nat /\ T - 1 < T
      BY <2>4, <2>6
    <3>2. PICK s \in D : s.offset <= T - 1 /\ T - 1 < End(s)
      BY <2>5, <3>1 DEF Tiles
    <3>3. s \in C /\ End(s) <= T
      BY <2>3, <2>5, <3>2 DEF Tiles
    <3>4. End(s) = T
      BY <1>5, <2>4, <3>2, <3>3
    <3>5. ~ s.free
      BY <1>2, <1>6, <1>11, <2>2, <2>4, <3>3, <3>4 DEF Whole
    <3>. QED
      BY <1>2, <3>3, <3>4, <3>5 DEF Allocated
  <2>. QED
    BY <2>4, <2>5, <2>6
<1>. QED
  BY <1>8, <1>9, <1>10, <1>11

-----------------------------------------------------------------------------
(* The inductive invariant of the pool.                                    *)
HandleOf == [handle : Nat, offset : Nat, size : Nat \ {0}]

PoolNumbers ==
  /\ arenaTop \in Nat /\ nextHandle \in Nat
  /\ currentBytes \in Int /\ peakBytes \in Int /\ currentBytes <= peakBytes

FreeListOK == Tiles(segments, arenaTop) /\ Whole(segments)

HandlesOK ==
  \A h \in DOMAIN allocByHandle :
    /\ h \in Nat /\ h < nextHandle
    /\ allocByHandle[h] \in HandleOf /\ allocByHandle[h].handle = h

Backing(alloc) == Segment(alloc.offset, alloc.size, FALSE)

(* The allocated segments are those of the handles, one each.              *)
SegmentsBacked ==
  /\ Allocated(segments) = {Backing(allocByHandle[h]) : h \in DOMAIN allocByHandle}
  /\ \A h, g \in DOMAIN allocByHandle : allocByHandle[h].offset = allocByHandle[g].offset => h = g

Held(h) == IF h \in DOMAIN allocByHandle THEN allocByHandle[h].size ELSE 0

(* A running sum of the live allocations ends at the counter.              *)
Sums(acc, n, bytes) ==
  /\ acc \in [0..n -> Int] /\ acc[0] = 0 /\ acc[n] = bytes
  /\ \A h \in 0..n : h # 0 => acc[h] = acc[h - 1] + Held(h - 1)

BytesAdded == \E acc : Sums(acc, nextHandle, currentBytes)

PoolInv == PoolNumbers /\ FreeListOK /\ HandlesOK /\ SegmentsBacked /\ BytesAdded

LEMMA InitPoolInv == PoolInit => PoolInv
<1>. SUFFICES ASSUME PoolInit PROVE PoolInv
  OBVIOUS
<1>1. DOMAIN allocByHandle = {}
  BY DEF PoolInit
<1>2. PoolNumbers /\ HandlesOK /\ FreeListOK
  BY <1>1 DEF PoolInit, PoolNumbers, HandlesOK, FreeListOK, Tiles, Whole
<1>3. SegmentsBacked
  BY <1>1 DEF PoolInit, SegmentsBacked, Allocated
<1>4. BytesAdded
  <2>1. PICK acc : acc = [h \in 0..0 |-> 0]
    OBVIOUS
  <2>2. Sums(acc, 0, 0)
    BY <2>1 DEF Sums
  <2>. QED
    BY <2>2 DEF PoolInit, BytesAdded
<1>. QED
  BY <1>2, <1>3, <1>4 DEF PoolInv

(* malloc keeps the invariant.                                             *)
LEMMA MallocPoolInv ==
  ASSUME PoolInv, NEW n \in Requests, Malloc(n)
  PROVE  PoolInv'
<1>1. PICK size \in Nat \ {0} : size = BlockSize(n)
  BY BlockFits, PoolAssumption
<1>2. PICK o : o = PlacedAt(segments, arenaTop, size)
  OBVIOUS
<1>3. PICK k \in Nat : k = nextHandle
  BY DEF PoolInv, PoolNumbers
<1>4. PICK a : a = [handle |-> k, offset |-> o, size |-> size]
  OBVIOUS
<1>5. /\ o \in Nat /\ arenaTop' \in Nat /\ Tiles(segments', arenaTop') /\ Whole(segments')
      /\ Allocated(segments') = Allocated(segments) \cup {Segment(o, size, FALSE)}
      /\ \A s \in Allocated(segments) : s.offset # o
  <2>1. segments' = Placed(segments, arenaTop, size) /\ arenaTop' = TopAfter(segments, arenaTop, size)
    BY <1>1 DEF Malloc
  <2>2. arenaTop \in Nat /\ Tiles(segments, arenaTop) /\ Whole(segments)
    BY DEF PoolInv, PoolNumbers, FreeListOK
  <2>. QED
    BY <1>1, <1>2, <2>1, <2>2, PlacedTiles
<1>6. a \in HandleOf /\ a.handle = k /\ a.offset = o /\ a.size = size /\ Backing(a) = Segment(o, size, FALSE)
  BY <1>4, <1>5 DEF HandleOf, Backing
<1>7. PICK D : D = DOMAIN allocByHandle /\ k \notin D /\ \A h \in D : h \in Nat /\ h < k
  BY <1>3 DEF PoolInv, HandlesOK
<1>8. /\ DOMAIN allocByHandle' = D \cup {k} /\ allocByHandle'[k] = a
      /\ \A h \in D : allocByHandle'[h] = allocByHandle[h]
  <2>1. Allocation(n) = a
    BY <1>1, <1>2, <1>3, <1>4 DEF Allocation
  <2>2. allocByHandle' = [h \in D \cup {k} |-> IF h = k THEN a ELSE allocByHandle[h]]
    BY <1>3, <1>7, <2>1 DEF Malloc
  <2>. QED
    BY <1>7, <2>2
<1>9. nextHandle' = k + 1 /\ currentBytes' = currentBytes + size
  BY <1>1, <1>3 DEF Malloc
<1>10. PoolNumbers'
  <2>1. peakBytes \in Int /\ currentBytes \in Int /\ currentBytes' \in Int
    BY <1>1, <1>9 DEF PoolInv, PoolNumbers
  <2>2. peakBytes' = Max({peakBytes, currentBytes'})
    BY DEF Malloc
  <2>3. peakBytes' = IF peakBytes >= currentBytes' THEN peakBytes ELSE currentBytes'
    BY <2>1, <2>2, MaxPair
  <2>. QED
    BY <1>3, <1>5, <1>9, <2>1, <2>3 DEF PoolNumbers
<1>11. FreeListOK'
  BY <1>5 DEF FreeListOK
<1>12. HandlesOK'
  BY <1>3, <1>6, <1>7, <1>8, <1>9 DEF PoolInv, HandlesOK
<1>13. \A h \in D : allocByHandle[h].offset # o
  <2>1. ASSUME NEW h \in D PROVE allocByHandle[h].offset # o
    <3>1. Backing(allocByHandle[h]) \in Allocated(segments)
      BY <1>7 DEF PoolInv, SegmentsBacked
    <3>2. Backing(allocByHandle[h]).offset = allocByHandle[h].offset
      BY DEF Backing, Segment
    <3>. QED
      BY <1>5, <3>1, <3>2
  <2>. QED
    BY <2>1
<1>14. SegmentsBacked'
  <2>1. Allocated(segments') = {Backing(allocByHandle'[h]) : h \in D \cup {k}}
    <3>1. Allocated(segments) = {Backing(allocByHandle[h]) : h \in D}
      BY <1>7 DEF PoolInv, SegmentsBacked
    <3>2. \A h \in D : Backing(allocByHandle'[h]) = Backing(allocByHandle[h])
      BY <1>8
    <3>3. Backing(allocByHandle'[k]) = Segment(o, size, FALSE)
      BY <1>6, <1>8
    <3>4. {Backing(allocByHandle'[h]) : h \in D \cup {k}}
            = {Backing(allocByHandle[h]) : h \in D} \cup {Segment(o, size, FALSE)}
      BY <3>2, <3>3
    <3>. QED
      BY <1>5, <3>1, <3>4
  <2>2. \A h, g \in D \cup {k} : allocByHandle'[h].offset = allocByHandle'[g].offset => h = g
    BY <1>6, <1>7, <1>8, <1>13 DEF PoolInv, SegmentsBacked
  <2>. QED
    BY <1>8, <2>1, <2>2 DEF SegmentsBacked
<1>15. BytesAdded'
  <2>1. PICK acc : Sums(acc, k, currentBytes)
    BY <1>3 DEF PoolInv, BytesAdded
  <2>2. PICK new : new = [h \in 0..(k + 1) |-> IF h = k + 1 THEN acc[k] + size ELSE acc[h]]
    OBVIOUS
  <2>3. acc \in [0..k -> Int] /\ acc[0] = 0 /\ acc[k] = currentBytes
    BY <2>1 DEF Sums
  <2>4. new \in [0..(k + 1) -> Int] /\ new[0] = 0 /\ new[k + 1] = currentBytes + size /\ new[k] = acc[k]
    BY <1>1, <1>3, <2>2, <2>3
  <2>5. ASSUME NEW h \in 0..(k + 1), h # 0 PROVE new[h] = new[h - 1] + Held(h - 1)'
    <3>1. CASE h = k + 1
      <4>1. Held(k)' = size
        BY <1>6, <1>8 DEF Held
      <4>. QED
        BY <1>3, <2>3, <2>4, <3>1, <4>1
    <3>2. CASE h # k + 1
      <4>1. h \in 0..k /\ h - 1 \in 0..k /\ h - 1 # k
        BY <1>3, <2>5, <3>2
      <4>2. new[h] = acc[h] /\ new[h - 1] = acc[h - 1]
        BY <1>3, <2>2, <4>1
      <4>3. Held(h - 1)' = Held(h - 1)
        BY <1>7, <1>8, <4>1 DEF Held
      <4>. QED
        BY <2>1, <2>5, <4>1, <4>2, <4>3 DEF Sums
    <3>. QED
      BY <3>1, <3>2
  <2>. QED
    BY <1>9, <2>4, <2>5 DEF BytesAdded, Sums
<1>. QED
  BY <1>10, <1>11, <1>12, <1>14, <1>15 DEF PoolInv

(* free keeps the invariant.                                               *)
LEMMA FreePoolInv ==
  ASSUME PoolInv, NEW k \in DOMAIN allocByHandle, Free(allocByHandle[k])
  PROVE  PoolInv'
<1>1. PICK a : a = allocByHandle[k]
  OBVIOUS
<1>2. PICK n \in Nat : n = nextHandle
  BY DEF PoolInv, PoolNumbers
<1>3. PICK D : D = DOMAIN allocByHandle /\ \A h \in D : h \in Nat /\ h < n
  BY <1>2 DEF PoolInv, HandlesOK
<1>4. a \in HandleOf /\ a.handle = k /\ a.offset \in Nat /\ a.size \in Nat \ {0} /\ k \in Nat /\ k < n
  BY <1>1, <1>2 DEF PoolInv, HandlesOK, HandleOf
<1>5. /\ DOMAIN allocByHandle' = D \ {k}
      /\ \A h \in D \ {k} : allocByHandle'[h] = allocByHandle[h]
  BY <1>1, <1>3, <1>4 DEF Free
<1>6. /\ arenaTop' = arenaTop /\ nextHandle' = nextHandle /\ peakBytes' = peakBytes
      /\ currentBytes' = currentBytes - a.size /\ segments' = Released(segments, a.offset)
  BY <1>1 DEF Free
<1>7. /\ Tiles(segments', arenaTop) /\ Whole(segments')
      /\ Allocated(segments') = {s \in Allocated(segments) : s.offset # a.offset}
  BY <1>6, ReleasedTiles DEF PoolInv, PoolNumbers, FreeListOK
<1>8. PoolNumbers'
  BY <1>4, <1>6 DEF PoolInv, PoolNumbers
<1>9. FreeListOK'
  BY <1>6, <1>7 DEF FreeListOK
<1>10. HandlesOK'
  BY <1>3, <1>5, <1>6 DEF PoolInv, HandlesOK
<1>11. SegmentsBacked'
  <2>1. \A h \in D \ {k} : Backing(allocByHandle'[h]) = Backing(allocByHandle[h])
    BY <1>5
  <2>2. \A h \in D : Backing(allocByHandle[h]).offset = a.offset <=> h = k
    <3>1. \A h \in D : Backing(allocByHandle[h]).offset = allocByHandle[h].offset
      BY DEF Backing, Segment
    <3>2. \A h \in D : allocByHandle[h].offset = a.offset <=> h = k
      BY <1>1, <1>3 DEF PoolInv, SegmentsBacked
    <3>. QED
      BY <3>1, <3>2
  <2>3. Allocated(segments) = {Backing(allocByHandle[h]) : h \in D}
    BY <1>3 DEF PoolInv, SegmentsBacked
  <2>4. {s \in {Backing(allocByHandle[h]) : h \in D} : s.offset # a.offset}
          = {Backing(allocByHandle[h]) : h \in D \ {k}}
    BY <2>2
  <2>5. {Backing(allocByHandle'[h]) : h \in D \ {k}} = {Backing(allocByHandle[h]) : h \in D \ {k}}
    BY <2>1
  <2>6. \A h, g \in D \ {k} : allocByHandle'[h].offset = allocByHandle'[g].offset => h = g
    BY <1>3, <1>5 DEF PoolInv, SegmentsBacked
  <2>. QED
    BY <1>5, <1>7, <2>3, <2>4, <2>5, <2>6 DEF SegmentsBacked
<1>12. BytesAdded'
  <2>1. PICK acc : Sums(acc, n, currentBytes)
    BY <1>2 DEF PoolInv, BytesAdded
  <2>2. PICK new : new = [h \in 0..n |-> IF h > k THEN acc[h] - a.size ELSE acc[h]]
    OBVIOUS
  <2>3. acc \in [0..n -> Int] /\ acc[0] = 0 /\ acc[n] = currentBytes
    BY <2>1 DEF Sums
  <2>4. new \in [0..n -> Int] /\ new[0] = 0 /\ new[n] = currentBytes - a.size
    BY <1>2, <1>4, <2>2, <2>3
  <2>5. ASSUME NEW h \in 0..n, h # 0 PROVE new[h] = new[h - 1] + Held(h - 1)'
    <3>1. h - 1 \in 0..n /\ h \in Nat /\ acc[h] \in Int /\ acc[h - 1] \in Int
      BY <1>2, <2>3, <2>5
    <3>2. acc[h] = acc[h - 1] + Held(h - 1)
      BY <2>1, <2>5 DEF Sums
    <3>3. CASE h - 1 = k
      <4>1. Held(h - 1) = a.size /\ Held(h - 1)' = 0
        BY <1>1, <1>5, <3>3 DEF Held
      <4>2. new[h] = acc[h] - a.size /\ new[h - 1] = acc[h - 1]
        BY <1>4, <2>2, <3>1, <3>3
      <4>. QED
        BY <1>4, <3>1, <3>2, <4>1, <4>2
    <3>4. CASE h - 1 # k
      <4>1. Held(h - 1)' = Held(h - 1) /\ Held(h - 1) \in Int
        <5>1. CASE h - 1 \in D
          BY <1>3, <1>5, <3>4, <5>1 DEF Held, PoolInv, HandlesOK, HandleOf
        <5>2. CASE h - 1 \notin D
          BY <1>3, <1>5, <5>2 DEF Held
        <5>. QED
          BY <5>1, <5>2
      <4>2. CASE h > k
        <5>1. new[h] = acc[h] - a.size /\ new[h - 1] = acc[h - 1] - a.size
          BY <1>4, <2>2, <3>1, <3>4, <4>2
        <5>. QED
          BY <1>4, <3>1, <3>2, <4>1, <5>1
      <4>3. CASE ~ (h > k)
        <5>1. new[h] = acc[h] /\ new[h - 1] = acc[h - 1]
          BY <1>4, <2>2, <3>1, <4>3
        <5>. QED
          BY <3>2, <4>1, <5>1
      <4>. QED
        BY <4>2, <4>3
    <3>. QED
      BY <3>3, <3>4
  <2>. QED
    BY <1>2, <1>6, <2>4, <2>5 DEF BytesAdded, Sums
<1>. QED
  BY <1>8, <1>9, <1>10, <1>11, <1>12 DEF PoolInv

(* defragment keeps the invariant, and so does every step.                 *)
LEMMA DefragmentPoolInv ==
  ASSUME PoolInv, Defragment
  PROVE  PoolInv'
<1>1. /\ arenaTop' \in Nat /\ Tiles(segments', arenaTop') /\ Whole(segments')
      /\ Allocated(segments') = Allocated(segments)
  BY DefragmentedTiles DEF PoolInv, PoolNumbers, FreeListOK, Defragment
<1>2. /\ nextHandle' = nextHandle /\ allocByHandle' = allocByHandle
      /\ currentBytes' = currentBytes /\ peakBytes' = peakBytes
  BY DEF Defragment
<1>3. PoolNumbers' /\ FreeListOK'
  BY <1>1, <1>2 DEF PoolInv, PoolNumbers, FreeListOK
<1>4. HandlesOK'
  BY <1>2 DEF PoolInv, HandlesOK
<1>5. SegmentsBacked'
  BY <1>1, <1>2 DEF PoolInv, SegmentsBacked
<1>6. BytesAdded'
  BY <1>2 DEF PoolInv, BytesAdded, Sums, Held
<1>. QED
  BY <1>3, <1>4, <1>5, <1>6 DEF PoolInv

LEMMA NextPoolInv == PoolInv /\ [PoolNext]_poolVars => PoolInv'
<1>. SUFFICES ASSUME PoolInv, [PoolNext]_poolVars PROVE PoolInv'
  OBVIOUS
<1>1. ASSUME NEW n \in Requests, Malloc(n) PROVE PoolInv'
  BY <1>1, MallocPoolInv
<1>2. ASSUME NEW alloc \in Live, Free(alloc) PROVE PoolInv'
  <2>1. PICK k \in DOMAIN allocByHandle : alloc = allocByHandle[k]
    BY DEF Live
  <2>2. Free(allocByHandle[k])
    BY <1>2, <2>1
  <2>. QED
    BY <2>2, FreePoolInv
<1>3. CASE Defragment
  BY <1>3, DefragmentPoolInv
<1>4. CASE UNCHANGED poolVars
  <2>1. /\ segments' = segments /\ arenaTop' = arenaTop /\ nextHandle' = nextHandle
        /\ allocByHandle' = allocByHandle /\ currentBytes' = currentBytes /\ peakBytes' = peakBytes
    BY <1>4 DEF poolVars
  <2>2. PoolNumbers' /\ FreeListOK'
    BY <2>1 DEF PoolInv, PoolNumbers, FreeListOK
  <2>3. HandlesOK' /\ SegmentsBacked'
    BY <2>1 DEF PoolInv, HandlesOK, SegmentsBacked
  <2>4. BytesAdded'
    BY <2>1 DEF PoolInv, BytesAdded, Sums, Held
  <2>. QED
    BY <2>2, <2>3, <2>4 DEF PoolInv
<1>. QED
  BY <1>1, <1>2, <1>3, <1>4 DEF PoolNext

LEMMA PoolInvariant == PoolSpec => []PoolInv
BY InitPoolInv, NextPoolInv, PTL DEF PoolSpec

(* The running sum is the sum LiveBytes names.                             *)
LEMMA CounterExact == PoolInv => currentBytes = LiveBytes
<1>. SUFFICES ASSUME PoolInv PROVE currentBytes = LiveBytes
  OBVIOUS
<1>1. PICK n \in Nat : n = nextHandle
  BY DEF PoolInv, PoolNumbers
<1>2. PICK acc : Sums(acc, n, currentBytes)
  BY <1>1 DEF PoolInv, BytesAdded
<1>3. acc \in [0..n -> Int] /\ acc[0] = 0 /\ acc[n] = currentBytes
  BY <1>2 DEF Sums
<1>. DEFINE Rec(f) == [h \in 0..n |-> IF h = 0 THEN 0 ELSE f[h - 1] + Held(h - 1)]
<1>4. acc = Rec(acc)
  <2>1. \A h \in 0..n : acc[h] = IF h = 0 THEN 0 ELSE acc[h - 1] + Held(h - 1)
    BY <1>2, <1>3 DEF Sums
  <2>. QED
    BY <1>3, <2>1
<1>5. PICK total : total = CHOOSE f : f = Rec(f)
  OBVIOUS
<1>6. total = Rec(total)
  <2>. HIDE DEF Rec
  <2>. QED
    BY <1>4, <1>5
<1>7. \A h \in 0..n : total[h] = IF h = 0 THEN 0 ELSE total[h - 1] + Held(h - 1)
  BY <1>6
<1>8. total[n] = acc[n]
  <2>1. SUFFICES ASSUME total[n] # acc[n] PROVE FALSE
    OBVIOUS
  <2>2. PICK B : B = {h \in 0..n : total[h] # acc[h]}
    OBVIOUS
  <2>3. B \subseteq Nat /\ B # {}
    BY <1>1, <2>1, <2>2
  <2>4. PICK b \in B : \A h \in B : b <= h
    BY <2>3, LeastThere
  <2>5. b \in 0..n /\ total[b] # acc[b] /\ b # 0
    BY <1>1, <1>3, <1>7, <2>2, <2>4
  <2>6. b - 1 \in 0..n /\ ~ (b <= b - 1)
    BY <1>1, <2>5
  <2>7. total[b - 1] = acc[b - 1]
    BY <2>2, <2>4, <2>6
  <2>8. total[b] = total[b - 1] + Held(b - 1) /\ acc[b] = acc[b - 1] + Held(b - 1)
    BY <1>2, <1>7, <2>5 DEF Sums
  <2>. QED
    BY <2>5, <2>7, <2>8
<1>9. LiveBytes = total[n]
  BY <1>1, <1>5, Zenon DEF LiveBytes, Held
<1>. QED
  BY <1>3, <1>8, <1>9

(* The blocks in terms of the handles.                                     *)
BlockOf(alloc) == [offset |-> alloc.offset, size |-> alloc.size]

LEMMA BlocksBacked ==
  ASSUME PoolInv
  PROVE  /\ Blocks = {BlockOf(allocByHandle[h]) : h \in DOMAIN allocByHandle}
         /\ {[offset |-> s.offset, size |-> s.size] : s \in Allocated(segments)} = Blocks
<1>1. PICK D : D = DOMAIN allocByHandle
  OBVIOUS
<1>2. Blocks = {BlockOf(allocByHandle[h]) : h \in D}
  BY <1>1 DEF Blocks, Live, BlockOf
<1>3. Allocated(segments) = {Backing(allocByHandle[h]) : h \in D}
  BY <1>1 DEF PoolInv, SegmentsBacked
<1>4. \A h \in D : BlockOf(Backing(allocByHandle[h])) = BlockOf(allocByHandle[h])
  BY DEF BlockOf, Backing, Segment
<1>5. {BlockOf(s) : s \in Allocated(segments)} = {BlockOf(allocByHandle[h]) : h \in D}
  <2>1. \A s \in Allocated(segments) : \E h \in D : BlockOf(s) = BlockOf(allocByHandle[h])
    BY <1>3, <1>4
  <2>2. \A h \in D : \E s \in Allocated(segments) : BlockOf(s) = BlockOf(allocByHandle[h])
    BY <1>3, <1>4
  <2>. HIDE DEF BlockOf
  <2>. QED
    BY <2>1, <2>2
<1>. QED
  BY <1>1, <1>2, <1>5 DEF BlockOf

(* There are as many blocks as live allocations.                           *)
LEMMA BlocksApart ==
  ASSUME PoolInv
  PROVE  Cardinality(Blocks) = Cardinality(Live)
<1>1. PICK D : D = DOMAIN allocByHandle
  OBVIOUS
<1>2. Live = {allocByHandle[h] : h \in D} /\ Blocks = {BlockOf(a) : a \in Live}
  BY <1>1 DEF Live, Blocks, BlockOf
<1>3. PICK n \in Nat : n = nextHandle /\ \A h \in D : h \in 0..n
  BY <1>1 DEF PoolInv, HandlesOK, PoolNumbers
<1>4. IsFiniteSet(D)
  <2>1. IsFiniteSet(0..n)
    BY FS_Interval
  <2>2. D \in SUBSET (0..n)
    BY <1>3
  <2>. QED
    BY <2>1, <2>2, FS_Subset
<1>5. PICK f : f = [h \in D |-> allocByHandle[h]]
  OBVIOUS
<1>6. f \in Surjection(D, Live)
  BY <1>2, <1>5 DEF Surjection
<1>7. IsFiniteSet(Live)
  BY <1>4, <1>6, FS_Surjection
<1>8. PICK g : g = [a \in Live |-> BlockOf(a)]
  OBVIOUS
<1>9. g \in Surjection(Live, Blocks)
  BY <1>2, <1>8 DEF Surjection
<1>10. ASSUME NEW a \in Live, NEW b \in Live, BlockOf(a) = BlockOf(b) PROVE a = b
  <2>1. PICK h \in D : a = allocByHandle[h]
    BY <1>2
  <2>2. PICK k \in D : b = allocByHandle[k]
    BY <1>2
  <2>3. a.offset = b.offset
    BY <1>10 DEF BlockOf
  <2>. QED
    BY <1>1, <2>1, <2>2, <2>3 DEF PoolInv, SegmentsBacked
<1>11. g \in Injection(Live, Blocks)
  <2>1. g \in [Live -> Blocks] /\ \A a \in Live : g[a] = BlockOf(a)
    BY <1>8, <1>9 DEF Surjection
  <2>2. IsInjective(g)
    BY <1>10, <2>1 DEF IsInjective
  <2>. QED
    BY <2>1, <2>2 DEF Injection
<1>. QED
  BY <1>7, <1>9, <1>11, FS_Surjection

(* The free-list is exact whenever the invariant holds.                    *)
LEMMA ExactFreeList == PoolInv => FreeListExact
<1>. SUFFICES ASSUME PoolInv PROVE FreeListExact
  OBVIOUS
<1>1. arenaTop \in Nat /\ Tiles(segments, arenaTop) /\ Whole(segments)
  BY DEF PoolInv, PoolNumbers, FreeListOK
<1>2. SegmentsTileArena
  <2>1. SUFFICES ASSUME NEW x \in 0..(arenaTop + Alignment)
                 PROVE  Cardinality({s \in segments : s.offset <= x /\ x < End(s)})
                          = (IF x < arenaTop THEN 1 ELSE 0)
    BY DEF SegmentsTileArena
  <2>2. x \in Nat
    BY <1>1, <2>1, AlignmentAssumption
  <2>3. PICK Z : Z = {s \in segments : s.offset <= x /\ x < End(s)}
    OBVIOUS
  <2>4. CASE x < arenaTop
    <3>1. PICK s \in segments : s.offset <= x /\ x < End(s)
      BY <1>1, <2>2, <2>4 DEF Tiles
    <3>2. \A r \in Z : r = s
      BY <1>1, <2>2, <2>3, <3>1, ShareByte
    <3>3. Z = {s}
      BY <2>3, <3>1, <3>2
    <3>. QED
      BY <2>3, <2>4, <3>3, FS_Singleton
  <2>5. CASE ~ (x < arenaTop)
    <3>1. \A s \in segments : s \in SegOf /\ End(s) <= arenaTop
      BY <1>1 DEF Tiles
    <3>2. \A s \in segments : ~ (x < End(s))
      BY <1>1, <2>2, <2>5, <3>1, SegShape
    <3>3. Z = {}
      BY <2>3, <3>2
    <3>. QED
      BY <2>3, <2>5, <3>3, FS_EmptySet
  <2>. QED
    BY <2>4, <2>5
<1>3. HolesWhole
  BY <1>1 DEF HolesWhole, Whole
<1>4. AllocationsBacked
  <2>1. Allocated(segments) = {r \in segments : ~ r.free}
    BY DEF Allocated
  <2>2. {[offset |-> s.offset, size |-> s.size] : s \in {r \in segments : ~ r.free}} = Blocks
    BY <2>1, BlocksBacked, Zenon
  <2>3. currentBytes <= peakBytes
    BY DEF PoolInv, PoolNumbers
  <2>. QED
    BY <2>2, <2>3, CounterExact, BlocksApart DEF AllocationsBacked
<1>. QED
  BY <1>2, <1>3, <1>4 DEF FreeListExact

(* After any series of malloc, free and defragment the free-list tiles the *)
(* arena, agrees with the handles and the counters, and holds every hole   *)
(* whole.                                                                  *)
THEOREM FreeListStaysExact == PoolSpec => []FreeListExact
BY PoolInvariant, ExactFreeList, PTL

-----------------------------------------------------------------------------
(* The pool implements the arena.                                          *)
LEMMA MallocInArena ==
  ASSUME PoolInv, NEW n \in Requests, Malloc(n)
  PROVE  Abstract!Next
<1>1. PICK size \in Nat \ {0} : size = BlockSize(n)
  BY BlockFits, PoolAssumption
<1>2. PICK o : o = PlacedAt(segments, arenaTop, size)
  OBVIOUS
<1>3. arenaTop \in Nat /\ Tiles(segments, arenaTop) /\ Whole(segments)
  BY DEF PoolInv, PoolNumbers, FreeListOK
<1>4. ASSUME NEW s \in segments
      PROVE  /\ s \in SegOf /\ s.offset \in Nat /\ s.size \in Nat \ {0} /\ End(s) \in Nat
             /\ End(s) = s.offset + s.size /\ s.offset < End(s) /\ End(s) <= arenaTop
  BY <1>3, SegShape DEF Tiles
<1>5. Blocks = {[offset |-> s.offset, size |-> s.size] : s \in Allocated(segments)}
  BY BlocksBacked
<1>6. Blocks' = Blocks \cup {[offset |-> o, size |-> size]}
  <2>1. PICK D : D = DOMAIN allocByHandle /\ nextHandle \notin D
    BY DEF PoolInv, HandlesOK, PoolNumbers
  <2>2. allocByHandle' = [h \in D \cup {nextHandle} |->
                            IF h = nextHandle THEN Allocation(n) ELSE allocByHandle[h]]
    BY <2>1 DEF Malloc
  <2>3. Allocation(n).offset = o /\ Allocation(n).size = size
    BY <1>1, <1>2 DEF Allocation
  <2>4. DOMAIN allocByHandle' = D \cup {nextHandle} /\ allocByHandle'[nextHandle] = Allocation(n)
    BY <2>2
  <2>5. \A h \in D : allocByHandle'[h] = allocByHandle[h]
    BY <2>1, <2>2
  <2>6. Live = {allocByHandle[h] : h \in D}
    BY <2>1 DEF Live
  <2>7. Live' = {allocByHandle'[h] : h \in D \cup {nextHandle}}
    BY <2>4 DEF Live
  <2>8. Live' = Live \cup {Allocation(n)}
    BY <2>4, <2>5, <2>6, <2>7
  <2>9. BlockOf(Allocation(n)) = [offset |-> o, size |-> size]
    BY <2>3 DEF BlockOf
  <2>10. Blocks = {BlockOf(a) : a \in Live} /\ Blocks' = {BlockOf(a) : a \in Live'}
    BY DEF Blocks, BlockOf
  <2>. HIDE DEF BlockOf
  <2>. QED
    BY <2>8, <2>9, <2>10
<1>7. arenaTop' = TopAfter(segments, arenaTop, size)
  BY <1>1 DEF Malloc
<1>8. CASE Fitting(segments, size) # {}
  <2>1. PICK f : f = BestFit(segments, size) /\ f \in segments /\ f.free /\ f.size >= size
    <3>1. segments \subseteq SegOf
      BY <1>3 DEF Tiles
    <3>. QED
      BY <1>8, <3>1, BestFitFits DEF Fitting
  <2>2. o = f.offset /\ arenaTop' = arenaTop
    BY <1>2, <1>7, <1>8, <2>1 DEF PlacedAt, TopAfter
  <2>3. o \in 0..arenaTop /\ o + size <= End(f) /\ End(f) <= arenaTop
    BY <1>3, <1>4, <2>1, <2>2
  <2>4. ASSUME NEW b \in Blocks PROVE o + size <= b.offset \/ b.offset + b.size <= o
    <3>1. PICK s \in Allocated(segments) : b = [offset |-> s.offset, size |-> s.size]
      BY <1>5
    <3>2. s \in segments /\ s # f /\ b.offset = s.offset /\ b.offset + b.size = End(s)
      BY <2>1, <3>1 DEF Allocated, End
    <3>3. End(s) <= f.offset \/ End(f) <= s.offset
      BY <1>3, <1>4, <2>1, <3>2 DEF Tiles
    <3>. QED
      BY <1>4, <2>1, <2>2, <2>3, <3>2, <3>3
  <2>5. Abstract!Clear(o, size)
    BY <1>3, <1>4, <2>1, <2>3, <2>4 DEF Abstract!Clear
  <2>6. Abstract!Add(o, size)
    BY <1>6 DEF Abstract!Add
  <2>7. Abstract!AllocInGap(size)
    BY <2>2, <2>3, <2>5, <2>6 DEF Abstract!AllocInGap
  <2>. QED
    BY <1>1, <2>7 DEF Abstract!Next
<1>9. CASE Fitting(segments, size) = {}
  <2>1. o = arenaTop /\ arenaTop' = arenaTop + size
    BY <1>2, <1>7, <1>9 DEF PlacedAt, TopAfter
  <2>2. ASSUME NEW z \in 0..arenaTop, Abstract!Clear(z, size) PROVE FALSE
    <3>1. /\ z \in Nat /\ z + size <= arenaTop
          /\ \A b \in Blocks : z + size <= b.offset \/ b.offset + b.size <= z
      BY <1>3, <2>2 DEF Abstract!Clear
    <3>2. ASSUME NEW s \in segments, NEW x \in Nat, z <= x, x < z + size, s.offset <= x, x < End(s)
          PROVE  s.free /\ s.size < size
      <4>1. ASSUME ~ s.free PROVE FALSE
        <5>1. PICK b \in Blocks : b = [offset |-> s.offset, size |-> s.size]
          BY <1>5, <4>1 DEF Allocated
        <5>2. b.offset = s.offset /\ b.offset + b.size = End(s)
          BY <5>1 DEF End
        <5>. QED
          BY <1>4, <3>1, <3>2, <5>2
      <4>2. s.free
        BY <4>1, <1>4 DEF SegOf
      <4>. QED
        BY <1>4, <1>9, <4>2 DEF Fitting
    <3>3. PICK s \in segments : s.offset <= z /\ z < End(s)
      BY <1>3, <3>1 DEF Tiles
    <3>4. s.free /\ s.size < size
      BY <3>1, <3>2, <3>3
    <3>5. End(s) \in Nat /\ z <= End(s) /\ End(s) < z + size /\ End(s) < arenaTop
      BY <1>3, <1>4, <3>1, <3>3, <3>4
    <3>6. PICK r \in segments : r.offset <= End(s) /\ End(s) < End(r)
      BY <1>3, <3>5 DEF Tiles
    <3>7. r.free
      BY <3>2, <3>5, <3>6
    <3>8. r # s
      BY <1>4, <3>6
    <3>9. ~ (r.offset <= s.offset) /\ ~ (s.offset <= r.offset /\ r.offset < End(s))
      BY <1>3, <1>4, <3>6, <3>8 DEF Tiles
    <3>10. r.offset = End(s)
      BY <1>4, <3>6, <3>9
    <3>. QED
      BY <1>3, <3>4, <3>7, <3>10 DEF Whole
  <2>3. Abstract!Add(arenaTop, size)
    BY <1>6, <2>1 DEF Abstract!Add
  <2>4. Abstract!AllocAtTop(size)
    BY <2>1, <2>2, <2>3 DEF Abstract!AllocAtTop
  <2>. QED
    BY <1>1, <2>4 DEF Abstract!Next
<1>. QED
  BY <1>8, <1>9

LEMMA FreeInArena ==
  ASSUME PoolInv, NEW k \in DOMAIN allocByHandle, Free(allocByHandle[k])
  PROVE  Abstract!Free
<1>1. PICK D : D = DOMAIN allocByHandle /\ k \in D
  OBVIOUS
<1>2. allocByHandle[k].handle = k
  BY DEF PoolInv, HandlesOK
<1>3. DOMAIN allocByHandle' = D \ {k} /\ \A h \in D \ {k} : allocByHandle'[h] = allocByHandle[h]
  BY <1>1, <1>2 DEF Free
<1>4. PICK b : b = BlockOf(allocByHandle[k])
  OBVIOUS
<1>5. Blocks = {BlockOf(allocByHandle[h]) : h \in D}
  BY <1>1 DEF Blocks, Live, BlockOf
<1>6. Blocks' = {BlockOf(allocByHandle'[h]) : h \in D \ {k}}
  BY <1>3 DEF Blocks, Live, BlockOf
<1>7. \A h \in D \ {k} : BlockOf(allocByHandle'[h]) = BlockOf(allocByHandle[h])
  BY <1>3
<1>8. \A h \in D \ {k} : BlockOf(allocByHandle[h]) # b
  <2>1. ASSUME NEW h \in D, h # k PROVE BlockOf(allocByHandle[h]) # b
    <3>1. allocByHandle[h].offset # allocByHandle[k].offset
      BY <1>1, <2>1 DEF PoolInv, SegmentsBacked
    <3>. QED
      BY <1>4, <3>1 DEF BlockOf
  <2>. QED
    BY <2>1
<1>9. b \in Blocks /\ Blocks' = Blocks \ {b}
  <2>. HIDE DEF BlockOf
  <2>. QED
    BY <1>1, <1>4, <1>5, <1>6, <1>7, <1>8
<1>10. arenaTop' = arenaTop
  BY DEF Free
<1>. QED
  BY <1>9, <1>10 DEF Abstract!Free

LEMMA DefragmentInArena ==
  ASSUME PoolInv, Defragment
  PROVE  Abstract!Trim \/ UNCHANGED Abstract!arena
<1>1. arenaTop \in Nat /\ Tiles(segments, arenaTop) /\ Whole(segments)
  BY DEF PoolInv, PoolNumbers, FreeListOK
<1>2. /\ arenaTop' \in Nat /\ arenaTop' <= arenaTop /\ Tiles(segments', arenaTop')
      /\ Allocated(segments') = Allocated(segments)
      /\ arenaTop' = arenaTop \/ arenaTop' = 0 \/ \E s \in Allocated(segments) : End(s) = arenaTop'
  BY <1>1, DefragmentedTiles DEF Defragment
<1>3. Blocks' = Blocks
  BY DEF Defragment, Blocks, Live
<1>4. Blocks = {BlockOf(s) : s \in Allocated(segments)}
  BY BlocksBacked DEF BlockOf
<1>5. \A s : BlockOf(s).offset + BlockOf(s).size = End(s)
  BY DEF BlockOf, End
<1>6. CASE arenaTop' = arenaTop
  BY <1>3, <1>6 DEF Abstract!arena
<1>7. CASE arenaTop' # arenaTop
  <2>1. arenaTop' < arenaTop
    BY <1>1, <1>2, <1>7
  <2>2. arenaTop' \in {0} \cup {b.offset + b.size : b \in Blocks}
    <3>. HIDE DEF BlockOf
    <3>. QED
      BY <1>2, <1>4, <1>5, <1>7
  <2>3. \A b \in Blocks : b.offset + b.size <= arenaTop'
    <3>1. \A s \in Allocated(segments) : End(s) <= arenaTop'
      BY <1>2 DEF Tiles, Allocated
    <3>. HIDE DEF BlockOf
    <3>. QED
      BY <1>4, <1>5, <3>1
  <2>. QED
    BY <1>3, <2>1, <2>2, <2>3 DEF Abstract!Trim
<1>. QED
  BY <1>6, <1>7

LEMMA StepInArena == PoolInv /\ [PoolNext]_poolVars => [Abstract!Next]_(Abstract!arena)
<1>. SUFFICES ASSUME PoolInv, [PoolNext]_poolVars
              PROVE  Abstract!Next \/ UNCHANGED Abstract!arena
  OBVIOUS
<1>1. ASSUME NEW n \in Requests, Malloc(n) PROVE Abstract!Next
  BY <1>1, MallocInArena
<1>2. ASSUME NEW alloc \in Live, Free(alloc) PROVE Abstract!Next
  <2>1. PICK k \in DOMAIN allocByHandle : alloc = allocByHandle[k]
    BY DEF Live
  <2>2. Free(allocByHandle[k])
    BY <1>2, <2>1
  <2>. QED
    BY <2>2, FreeInArena DEF Abstract!Next
<1>3. CASE Defragment
  BY <1>3, DefragmentInArena DEF Abstract!Next
<1>4. CASE UNCHANGED poolVars
  BY <1>4 DEF poolVars, Abstract!arena, Blocks, Live
<1>. QED
  BY <1>1, <1>2, <1>3, <1>4 DEF PoolNext

(* malloc serves a request inside the arena whenever a gap between live    *)
(* blocks is large enough, whatever was allocated, freed and trimmed       *)
(* before; the arena grows only when none is.                              *)
THEOREM PoolIsArena == PoolSpec => ArenaSpec
<1>1. PoolInit => Abstract!Init
  <2>1. ASSUME PoolInit PROVE Blocks = {} /\ arenaTop = 0
    <3>1. DOMAIN allocByHandle = {} /\ arenaTop = 0
      BY <2>1 DEF PoolInit
    <3>. QED
      BY <3>1 DEF Blocks, Live
  <2>. QED
    BY <2>1 DEF Abstract!Init
<1>. QED
  BY <1>1, PoolInvariant, StepInArena, PTL DEF PoolSpec, ArenaSpec, Abstract!Spec

-----------------------------------------------------------------------------
(* The lifetimes found so far: the first loop has seen the nodes before i, *)
(* the second all producers and the readers before i, and at the end the   *)
(* last use is no earlier than any reader, past the end for an output.     *)
LifetimesCover ==
  \A t \in DOMAIN lifetimes :
    /\ lifetimes[t].first \in Steps
    /\ lifetimes[t].first <= lifetimes[t].last
    /\ \A p \in Steps :
         (t \in graph.nodes[p].outputs /\ (phase = "produce" => p < i))
           => lifetimes[t].first = p
    /\ \A r \in Steps :
         (t \in graph.nodes[r].inputs /\ (phase = "slots" \/ (phase = "consume" /\ r < i)))
           => r <= lifetimes[t].last
    /\ (phase = "slots" /\ t \in graph.outputs)
         => lifetimes[t].last = Len(graph.nodes) + 1

(* Dead before every tensor that still waits for a slot.                   *)
Past(t) == \A u \in events : lifetimes[t].last < lifetimes[u].first

Tenants(s) == {t \in DOMAIN tensorToSlot : tensorToSlot[t] = s}

(* Lifetimes in one slot are disjoint.                                     *)
SlotsExclusive ==
  \A t, u \in DOMAIN tensorToSlot :
    (t # u /\ tensorToSlot[t] = tensorToSlot[u])
      => \/ lifetimes[t].last < lifetimes[u].first
         \/ lifetimes[u].last < lifetimes[t].first

(* Why they are: a tenant is past, or holds its slot in active; an active  *)
(* slot has one holder and is not free; the tenants of a free slot are     *)
(* past.  Slots are counted from 0, so the next number is a new slot.      *)
SlotsHeld ==
  /\ \A t \in DOMAIN tensorToSlot :
       \/ [last |-> lifetimes[t].last, slot |-> tensorToSlot[t]] \in active
       \/ Past(t)
  /\ \A x, y \in active : x.slot = y.slot => x = y
  /\ \A x \in active : x.slot \notin freeSlots
  /\ \A s \in freeSlots : \A t \in Tenants(s) : Past(t)
  /\ IsFiniteSet(Slots) /\ Slots = 0..(Cardinality(Slots) - 1)

(* Until the third loop there are no slots.                                *)
NoSlotsYet ==
  phase # "slots" => /\ events = {} /\ active = {} /\ freeSlots = {}
                     /\ tensorToSlot = NoEntry /\ slotSizes = NoEntry

IInv == /\ TypeOK /\ LifetimesCover /\ NoSlotsYet
        /\ SlotsHeld /\ SlotsExclusive /\ TenantsFit

-----------------------------------------------------------------------------
LEMMA GraphShape ==
  ASSUME graph \in Graphs
  PROVE  /\ WellFormed(graph)
         /\ Len(graph.nodes) \in Nat
         /\ Steps = 1..Len(graph.nodes)
         /\ \A p \in Steps : graph.nodes[p].inputs \subseteq Tensor
                             /\ graph.nodes[p].outputs \subseteq Tensor
<1>1. WellFormed(graph) /\ graph \in Graph
  BY GraphsAssumption
<1>2. graph.nodes \in Seq(Node)
  BY <1>1 DEF Graph
<1>3. Len(graph.nodes) \in Nat /\ Steps = 1..Len(graph.nodes)
  BY <1>2 DEF Steps
<1>4. \A p \in Steps : graph.nodes[p] \in Node
  BY <1>2, <1>3
<1>. QED
  BY <1>1, <1>3, <1>4 DEF Node

LEMMA IInvInit == Init => IInv
<1>. SUFFICES ASSUME Init PROVE IInv
  OBVIOUS
<1>1. TypeOK
  BY DEF Init, TypeOK, NoEntry, Slots
<1>2. LifetimesCover /\ NoSlotsYet /\ SlotsExclusive /\ TenantsFit
  BY DEF Init, LifetimesCover, NoSlotsYet, SlotsExclusive, TenantsFit, NoEntry
<1>3. SlotsHeld
  <2>1. Slots = {}
    BY DEF Init, NoEntry, Slots
  <2>2. IsFiniteSet(Slots) /\ Cardinality(Slots) = 0
    BY <2>1, FS_EmptySet
  <2>3. 0..(0 - 1) = {}
    OBVIOUS
  <2>. QED
    BY <2>1, <2>2, <2>3 DEF Init, SlotsHeld, NoEntry, Tenants
<1>. QED
  BY <1>1, <1>2, <1>3 DEF IInv

-----------------------------------------------------------------------------
LEMMA ProduceInv == IInv /\ Produce => IInv'
<1>. SUFFICES ASSUME IInv, Produce PROVE IInv'
  OBVIOUS
<1>. USE DEF IInv
<1>0. graph \in Graphs /\ phase = "produce" /\ i \in Steps /\ Steps' = Steps
  BY DEF Produce, TypeOK, Steps
<1>1. TypeOK'
  BY <1>0, GraphShape DEF Produce, TypeOK, slotVars, Slots
<1>2. LifetimesCover'
  <2>. SUFFICES ASSUME NEW t \in DOMAIN lifetimes' PROVE
      /\ lifetimes'[t].first \in Steps
      /\ lifetimes'[t].first <= lifetimes'[t].last
      /\ \A p \in Steps :
           (t \in graph.nodes[p].outputs /\ p < i + 1) => lifetimes'[t].first = p
    BY <1>0 DEF LifetimesCover, Produce
  <2>1. CASE t \in graph.nodes[i].outputs
    BY <1>0, <2>1, GraphShape DEF Produce, WellFormed, Steps
  <2>2. CASE t \notin graph.nodes[i].outputs
    <3>1. t \in DOMAIN lifetimes /\ lifetimes'[t] = lifetimes[t]
      BY <2>2 DEF Produce
    <3>2. \A p \in Steps : (t \in graph.nodes[p].outputs /\ p < i + 1) => p < i
      BY <1>0, <2>2, GraphShape
    <3>. QED
      BY <1>0, <3>1, <3>2 DEF LifetimesCover
  <2>. QED
    BY <2>1, <2>2
<1>3. NoSlotsYet'
  BY DEF NoSlotsYet, Produce, slotVars
<1>4. SlotsHeld' /\ SlotsExclusive' /\ TenantsFit'
  <2>1. (events = {} /\ active = {} /\ freeSlots = {}
           /\ tensorToSlot = NoEntry /\ slotSizes = NoEntry)'
    BY <1>0 DEF NoSlotsYet, Produce, slotVars
  <2>2. Slots' = {}
    BY <2>1 DEF NoEntry, Slots
  <2>3. IsFiniteSet({}) /\ Cardinality({}) = 0 /\ 0..(0 - 1) = {}
    BY FS_EmptySet
  <2>. QED
    BY <2>1, <2>2, <2>3 DEF SlotsHeld, SlotsExclusive, TenantsFit, NoEntry, Tenants
<1>. QED
  BY <1>1, <1>2, <1>3, <1>4

LEMMA ConsumeInv == IInv /\ (Produced \/ Consume) => IInv'
<1>. SUFFICES ASSUME IInv, Produced \/ Consume PROVE IInv'
  OBVIOUS
<1>. USE DEF IInv
<1>0. graph \in Graphs /\ phase # "slots" /\ phase' = "consume" /\ Steps' = Steps /\ graph' = graph
  BY DEF Produced, Consume, TypeOK, Steps
<1>1. TypeOK'
  <2>1. CASE Produced
    BY <1>0, <2>1 DEF Produced, TypeOK, slotVars, Slots
  <2>2. CASE Consume
    <3>1. \A t \in DOMAIN lifetimes :
            [first |-> lifetimes[t].first, last |-> Later(lifetimes[t].last, i)]
              \in [first : Nat, last : Nat]
      BY DEF TypeOK, Later
    <3>2. lifetimes' \in [DOMAIN lifetimes -> [first : Nat, last : Nat]]
      BY <2>2, <3>1 DEF Consume, TypeOK
    <3>. QED
      BY <1>0, <2>2, <3>2 DEF Consume, TypeOK, slotVars, Slots
  <2>. QED
    BY <2>1, <2>2
<1>2. LifetimesCover'
  <2>1. CASE Produced
    <3>1. \A p \in Steps : p < i
      BY <2>1, <1>0, GraphShape DEF Produced, TypeOK
    <3>2. \A r \in Steps : ~ (r < 1)
      BY <1>0, GraphShape
    <3>. QED
      BY <1>0, <2>1, <3>1, <3>2 DEF Produced, LifetimesCover
  <2>2. CASE Consume
    <3>. SUFFICES ASSUME NEW t \in DOMAIN lifetimes PROVE
        /\ lifetimes'[t].first = lifetimes[t].first
        /\ lifetimes'[t].first <= lifetimes'[t].last
        /\ \A r \in Steps : (t \in graph.nodes[r].inputs /\ r < i + 1) => r <= lifetimes'[t].last
      BY <1>0, <2>2 DEF LifetimesCover, Consume
    <3>1. lifetimes[t].first \in Nat /\ lifetimes[t].last \in Nat /\ i \in Nat
      BY DEF TypeOK
    <3>2. CASE t \in graph.nodes[i].inputs
      <4>1. lifetimes'[t] = [first |-> lifetimes[t].first, last |-> Later(lifetimes[t].last, i)]
        BY <2>2, <3>2 DEF Consume
      <4>. QED
        BY <1>0, <2>2, <3>1, <4>1, GraphShape DEF Consume, LifetimesCover, Later
    <3>3. CASE t \notin graph.nodes[i].inputs
      <4>1. lifetimes'[t] = lifetimes[t]
        BY <2>2, <3>3 DEF Consume
      <4>2. \A r \in Steps : (t \in graph.nodes[r].inputs /\ r < i + 1) => r < i
        BY <1>0, <3>1, <3>3, GraphShape
      <4>. QED
        BY <1>0, <2>2, <4>1, <4>2 DEF Consume, LifetimesCover
    <3>. QED
      BY <3>2, <3>3
  <2>. QED
    BY <2>1, <2>2
<1>3. NoSlotsYet'
  BY <1>0 DEF NoSlotsYet, Produced, Consume, slotVars
<1>4. SlotsHeld' /\ SlotsExclusive' /\ TenantsFit'
  <2>1. (events = {} /\ active = {} /\ freeSlots = {}
           /\ tensorToSlot = NoEntry /\ slotSizes = NoEntry)'
    BY <1>0, <1>3 DEF NoSlotsYet
  <2>2. Slots' = {}
    BY <2>1 DEF NoEntry, Slots
  <2>3. IsFiniteSet({}) /\ Cardinality({}) = 0 /\ 0..(0 - 1) = {}
    BY FS_EmptySet
  <2>. QED
    BY <2>1, <2>2, <2>3 DEF SlotsHeld, SlotsExclusive, TenantsFit, NoEntry, Tenants
<1>. QED
  BY <1>1, <1>2, <1>3, <1>4

LEMMA OutputsInv == IInv /\ Outputs => IInv'
<1>. SUFFICES ASSUME IInv, Outputs PROVE IInv'
  OBVIOUS
<1>. USE DEF IInv
<1>0. /\ graph \in Graphs /\ phase = "consume" /\ phase' = "slots" /\ Steps' = Steps
      /\ graph' = graph /\ DOMAIN lifetimes' = DOMAIN lifetimes
  BY DEF Outputs, TypeOK, Steps
<1>1. (active = {} /\ freeSlots = {} /\ tensorToSlot = NoEntry /\ slotSizes = NoEntry)'
  BY <1>0 DEF NoSlotsYet, Outputs
<1>2. \A t \in DOMAIN lifetimes : lifetimes'[t] =
        IF t \in graph.outputs
        THEN [first |-> lifetimes[t].first, last |-> Len(graph.nodes) + 1] ELSE lifetimes[t]
  BY DEF Outputs
<1>3. TypeOK'
  <2>1. lifetimes' \in [DOMAIN lifetimes -> [first : Nat, last : Nat]]
    BY <1>0, GraphShape DEF Outputs, TypeOK
  <2>2. DOMAIN tensorToSlot' = {} /\ Slots' = {}
    BY <1>1 DEF NoEntry, Slots
  <2>. QED
    BY <1>0, <1>1, <2>1, <2>2 DEF Outputs, TypeOK, Slots, NoEntry
<1>4. LifetimesCover'
  <2>. SUFFICES ASSUME NEW t \in DOMAIN lifetimes PROVE
      /\ lifetimes'[t].first = lifetimes[t].first
      /\ lifetimes'[t].first <= lifetimes'[t].last
      /\ \A r \in Steps : t \in graph.nodes[r].inputs => r <= lifetimes'[t].last
      /\ t \in graph.outputs => lifetimes'[t].last = Len(graph.nodes) + 1
    BY <1>0 DEF LifetimesCover
  <2>1. /\ lifetimes[t].first \in Steps /\ lifetimes[t].first <= lifetimes[t].last
        /\ \A r \in Steps : r < i
    BY <1>0, GraphShape DEF LifetimesCover, Outputs, TypeOK
  <2>2. \A r \in Steps : t \in graph.nodes[r].inputs => r <= lifetimes[t].last
    BY <1>0, <2>1 DEF LifetimesCover
  <2>. QED
    BY <1>0, <1>2, <2>1, <2>2, GraphShape
<1>5. NoSlotsYet'
  BY <1>0 DEF NoSlotsYet
<1>6. SlotsHeld' /\ SlotsExclusive' /\ TenantsFit'
  <2>1. Slots' = {}
    BY <1>1 DEF NoEntry, Slots
  <2>2. IsFiniteSet({}) /\ Cardinality({}) = 0 /\ 0..(0 - 1) = {}
    BY FS_EmptySet
  <2>. QED
    BY <1>1, <2>1, <2>2 DEF SlotsHeld, SlotsExclusive, TenantsFit, NoEntry, Tenants
<1>. QED
  BY <1>3, <1>4, <1>5, <1>6

-----------------------------------------------------------------------------
(* The slot that a tensor gets has no tenant that is still alive.          *)
LEMMA ChosenSlotIdle ==
  ASSUME IInv, NEW t \in events, NEW s \in SlotChoices(t), phase = "slots"
  PROVE  /\ \A u \in Tenants(s) : lifetimes[u].last < lifetimes[t].first
         /\ \A x \in active \ Expired(t) : x.slot # s
<1>. USE DEF IInv
<1>1. CASE s \in freeSlots
  BY <1>1 DEF SlotsHeld, Past
<1>2. CASE \E y \in Expired(t) : s = y.slot
  <2>1. PICK y \in Expired(t) : s = y.slot
    BY <1>2
  <2>2. y \in active /\ y.last < lifetimes[t].first
    BY <2>1 DEF Expired
  <2>3. \A x \in active \ Expired(t) : x.slot # s
    BY <2>1, <2>2 DEF SlotsHeld
  <2>4. ASSUME NEW u \in Tenants(s) PROVE lifetimes[u].last < lifetimes[t].first
    <3>1. u \in DOMAIN tensorToSlot /\ tensorToSlot[u] = s
      BY DEF Tenants
    <3>2. CASE [last |-> lifetimes[u].last, slot |-> tensorToSlot[u]] \in active
      <4>1. [last |-> lifetimes[u].last, slot |-> s] = y
        BY <2>1, <2>2, <3>1, <3>2 DEF SlotsHeld
      <4>. QED
        BY <2>2, <4>1
    <3>3. CASE Past(u)
      BY <3>3 DEF Past
    <3>. QED
      BY <3>1, <3>2, <3>3 DEF SlotsHeld
  <2>. QED
    BY <2>3, <2>4
<1>3. CASE Available(t) = {}
  <2>1. s = Cardinality(Slots) /\ s \notin Slots
    BY <1>3, FS_CardinalityType DEF SlotChoices, SlotsHeld
  <2>2. Tenants(s) = {}
    BY <2>1 DEF TypeOK, Tenants
  <2>3. \A x \in active : x.slot # s
    BY <2>1 DEF TypeOK
  <2>. QED
    BY <2>2, <2>3
<1>. QED
  BY <1>1, <1>2, <1>3 DEF SlotChoices, Available

LEMMA AssignSlotInv == ASSUME NEW t \in events PROVE IInv /\ AssignSlot(t) => IInv'
<1>. SUFFICES ASSUME IInv, AssignSlot(t) PROVE IInv'
  OBVIOUS
<1>. USE DEF IInv
<1>1. PICK s \in SlotChoices(t) : Place(t, s)
  BY DEF AssignSlot
<1>2. /\ phase = "slots" /\ phase' = "slots" /\ graph' = graph /\ Steps' = Steps /\ i' = i
      /\ lifetimes' = lifetimes /\ events' = events \ {t}
  BY DEF AssignSlot, Steps
<1>3. t \in DOMAIN lifetimes /\ t \notin DOMAIN tensorToSlot
  BY <1>2 DEF TypeOK
<1>4. \A u \in DOMAIN lifetimes : lifetimes[u].first \in Nat /\ lifetimes[u].last \in Nat
  BY DEF TypeOK
<1>5. Slots' = Slots \cup {s} /\ Slots = 0..(Cardinality(Slots) - 1) /\ IsFiniteSet(Slots)
  BY <1>1 DEF Place, Slots, SlotsHeld
<1>6. Available(t) \subseteq Slots /\ s \in Nat
  <2>1. Available(t) \subseteq Slots
    BY DEF Available, Expired, TypeOK
  <2>2. Cardinality(Slots) \in Nat
    BY <1>5, FS_CardinalityType
  <2>. QED
    BY <2>1, <2>2 DEF SlotChoices, TypeOK
<1>7. DOMAIN tensorToSlot' = DOMAIN tensorToSlot \cup {t}
      /\ \A u \in DOMAIN tensorToSlot' :
           tensorToSlot'[u] = IF u = t THEN s ELSE tensorToSlot[u]
  BY <1>1 DEF Place
<1>8. \A u \in Tenants(s) : lifetimes[u].last < lifetimes[t].first
  BY <1>2, ChosenSlotIdle
<1>9. \A x \in active \ Expired(t) : x.slot # s
  BY <1>2, ChosenSlotIdle
<1>10. SizeAfter(s, t) \in Nat /\ SizeOf[t] <= SizeAfter(s, t)
       /\ (s \in Slots => slotSizes[s] <= SizeAfter(s, t))
  BY <1>3, GraphsAssumption DEF SizeAfter, TypeOK, Later
<1>11. TypeOK'
  <2>1. slotSizes' \in [Slots' -> Nat] /\ Slots' \subseteq Nat
    BY <1>1, <1>5, <1>6, <1>10 DEF Place, TypeOK
  <2>2. active' \subseteq [last : Nat, slot : Slots']
    BY <1>1, <1>3, <1>4, <1>5 DEF Place, TypeOK
  <2>3. freeSlots' \subseteq Slots'
    BY <1>1, <1>5, <1>6 DEF Place
  <2>4. tensorToSlot' \in [DOMAIN tensorToSlot' -> Slots']
    BY <1>1, <1>5 DEF Place, TypeOK
  <2>5. DOMAIN tensorToSlot' = DOMAIN lifetimes' \ events'
    BY <1>2, <1>3, <1>7 DEF TypeOK
  <2>. QED
    BY <1>2, <2>1, <2>2, <2>3, <2>4, <2>5 DEF TypeOK
<1>12. LifetimesCover' /\ NoSlotsYet'
  BY <1>2 DEF LifetimesCover, NoSlotsYet
<1>13. TenantsFit'
  <2>. SUFFICES ASSUME NEW u \in DOMAIN tensorToSlot' PROVE SizeOf[u] <= slotSizes'[tensorToSlot'[u]]
    BY DEF TenantsFit
  <2>0. \A r \in Slots \cup {s} : slotSizes'[r] = IF r = s THEN SizeAfter(s, t) ELSE slotSizes[r]
    BY <1>1 DEF Place
  <2>1. CASE u = t
    BY <1>7, <1>10, <2>0, <2>1
  <2>2. CASE u # t
    <3>1. u \in DOMAIN tensorToSlot /\ tensorToSlot'[u] = tensorToSlot[u]
          /\ tensorToSlot[u] \in Slots
      BY <1>7, <2>2 DEF TypeOK
    <3>2. SizeOf[u] <= slotSizes[tensorToSlot[u]] /\ SizeOf[u] \in Nat
          /\ slotSizes[tensorToSlot[u]] \in Nat
      BY <3>1, <1>2, GraphsAssumption DEF TenantsFit, TypeOK
    <3>. QED
      BY <1>10, <2>0, <3>1, <3>2
  <2>. QED
    BY <2>1, <2>2
<1>14. SlotsExclusive'
  <2>. SUFFICES ASSUME NEW u \in DOMAIN tensorToSlot', NEW v \in DOMAIN tensorToSlot',
                       u # v, tensorToSlot'[u] = tensorToSlot'[v]
                PROVE  \/ lifetimes[u].last < lifetimes[v].first
                       \/ lifetimes[v].last < lifetimes[u].first
    BY <1>2 DEF SlotsExclusive
  <2>1. CASE u # t /\ v # t
    BY <1>7, <2>1 DEF SlotsExclusive
  <2>2. CASE u = t
    BY <1>7, <1>8, <2>2 DEF Tenants
  <2>3. CASE v = t
    BY <1>7, <1>8, <2>3 DEF Tenants
  <2>. QED
    BY <2>1, <2>2, <2>3
<1>15. \A u \in DOMAIN tensorToSlot : Past(u) => Past(u)'
  BY <1>2 DEF Past
<1>16. \A u \in DOMAIN tensorToSlot : lifetimes[u].last < lifetimes[t].first => Past(u)'
  <2>. SUFFICES ASSUME NEW u \in DOMAIN tensorToSlot, lifetimes[u].last < lifetimes[t].first,
                       NEW v \in events
                PROVE  lifetimes[u].last < lifetimes[v].first
    BY <1>2 DEF Past
  <2>1. lifetimes[t].first <= lifetimes[v].first
    BY <1>4 DEF AssignSlot, NextEvent, TypeOK
  <2>2. u \in DOMAIN lifetimes /\ v \in DOMAIN lifetimes
    BY <1>2 DEF TypeOK
  <2>. QED
    BY <1>3, <1>4, <2>1, <2>2
<1>17. SlotsHeld'
  <2>1. ASSUME NEW u \in DOMAIN tensorToSlot'
        PROVE  \/ [last |-> lifetimes[u].last, slot |-> tensorToSlot'[u]] \in active'
               \/ Past(u)'
    <3>1. CASE u = t
      BY <1>1, <1>7, <3>1 DEF Place
    <3>2. CASE u # t
      <4>1. u \in DOMAIN tensorToSlot /\ tensorToSlot'[u] = tensorToSlot[u]
        BY <1>7, <3>2
      <4>2. CASE Past(u)
        BY <1>15, <4>1, <4>2
      <4>3. CASE [last |-> lifetimes[u].last, slot |-> tensorToSlot[u]] \in active
        BY <1>1, <1>16, <4>1, <4>3 DEF Place, Expired
      <4>. QED
        BY <4>1, <4>2, <4>3 DEF SlotsHeld
    <3>. QED
      BY <3>1, <3>2
  <2>2. \A x, y \in active' : x.slot = y.slot => x = y
    BY <1>1, <1>9 DEF Place, SlotsHeld
  <2>3. \A x \in active' : x.slot \notin freeSlots'
    <3>1. \A x \in active \ Expired(t) : x.slot \notin Available(t)
      BY DEF SlotsHeld, Available, Expired
    <3>. QED
      BY <1>1, <3>1 DEF Place
  <2>4. ASSUME NEW r \in freeSlots', NEW u \in Tenants(r)' PROVE Past(u)'
    <3>1. r # s /\ r \in Available(t)
      BY <1>1 DEF Place
    <3>2. u \in Tenants(r) /\ u \in DOMAIN tensorToSlot
      BY <1>7, <3>1 DEF Tenants
    <3>3. CASE r \in freeSlots
      BY <1>15, <3>2, <3>3 DEF SlotsHeld
    <3>4. CASE r \notin freeSlots
      <4>1. PICK y \in Expired(t) : r = y.slot
        BY <3>1, <3>4 DEF Available
      <4>2. y \in active /\ y.last < lifetimes[t].first
        BY <4>1 DEF Expired
      <4>3. CASE Past(u)
        BY <1>15, <3>2, <4>3
      <4>4. CASE [last |-> lifetimes[u].last, slot |-> tensorToSlot[u]] \in active
        <5>1. [last |-> lifetimes[u].last, slot |-> tensorToSlot[u]] = y
          BY <3>2, <4>1, <4>2, <4>4 DEF SlotsHeld, Tenants
        <5>. QED
          BY <1>16, <3>2, <4>2, <5>1
      <4>. QED
        BY <3>2, <4>3, <4>4 DEF SlotsHeld
    <3>. QED
      BY <3>3, <3>4
  <2>5. IsFiniteSet(Slots') /\ Slots' = 0..(Cardinality(Slots') - 1)
    <3>1. CASE s \in Slots
      BY <1>5, <3>1
    <3>2. CASE s \notin Slots
      <4>1. s = Cardinality(Slots)
        BY <1>6, <3>2 DEF SlotChoices
      <4>2. Cardinality(Slots) \in Nat
        BY <1>5, FS_CardinalityType
      <4>3. IsFiniteSet(Slots') /\ Cardinality(Slots') = Cardinality(Slots) + 1
        BY <1>5, <3>2, FS_AddElement
      <4>4. \A n \in Nat : (0..(n - 1)) \cup {n} = 0..((n + 1) - 1)
        OBVIOUS
      <4>5. (0..(Cardinality(Slots) - 1)) \cup {Cardinality(Slots)}
              = 0..((Cardinality(Slots) + 1) - 1)
        BY <4>2, <4>4
      <4>6. Slots' = (0..(Cardinality(Slots) - 1)) \cup {Cardinality(Slots)}
        BY <1>5, <4>1
      <4>. QED
        BY <4>3, <4>5, <4>6
    <3>. QED
      BY <3>1, <3>2
  <2>. QED
    BY <1>2, <2>1, <2>2, <2>3, <2>4, <2>5 DEF SlotsHeld
<1>. QED
  BY <1>11, <1>12, <1>13, <1>14, <1>17

-----------------------------------------------------------------------------
LEMMA IInvNext == IInv /\ [Next]_vars => IInv'
<1>1. ASSUME IInv, UNCHANGED vars PROVE IInv'
  BY <1>1 DEF vars, slotVars, IInv, TypeOK, LifetimesCover, NoSlotsYet, SlotsHeld,
              SlotsExclusive, TenantsFit, Tenants, Past, Steps, Slots
<1>. QED
  BY <1>1, ProduceInv, ConsumeInv, OutputsInv, AssignSlotInv DEF Next, Done

LEMMA Invariant == Spec => []IInv
  BY IInvInit, IInvNext, PTL DEF Spec

(* Every variable of analyze keeps its type.                               *)
THEOREM TypesOK == Spec => []TypeOK
<1>1. IInv => TypeOK
  BY DEF IInv
<1>. QED
  BY <1>1, Invariant, PTL

(* In every graph, each slot is at least as large as all of its tenants.   *)
THEOREM SlotsLargeEnough == Spec => []TenantsFit
<1>1. IInv => TenantsFit
  BY DEF IInv
<1>. QED
  BY <1>1, Invariant, PTL

(* Slot sharing is safe for every graph: a tensor stays in its slot until  *)
(* its last reader, and a graph output until the end.                      *)
THEOREM ReadersSafe == Spec => []ReadersFindTheirTensor
<1>1. ASSUME IInv PROVE ReadersFindTheirTensor
  <2>. SUFFICES ASSUME Analyzed,
                       NEW t \in DOMAIN tensorToSlot, NEW u \in DOMAIN tensorToSlot, t # u,
                       tensorToSlot[t] = tensorToSlot[u], NEW p \in Steps, NEW w \in Steps,
                       t \in graph.nodes[p].outputs, u \in graph.nodes[w].outputs, p <= w
                PROVE  /\ p # w
                       /\ t \notin graph.outputs
                       /\ \A r \in Steps : t \in graph.nodes[r].inputs => r < w
    BY DEF ReadersFindTheirTensor
  <2>1. /\ t \in DOMAIN lifetimes /\ u \in DOMAIN lifetimes /\ phase = "slots"
        /\ graph \in Graphs
    BY <1>1 DEF IInv, TypeOK, Analyzed
  <2>2. /\ lifetimes[t].first = p /\ lifetimes[u].first = w
        /\ lifetimes[u].first <= lifetimes[u].last
        /\ \A r \in Steps : t \in graph.nodes[r].inputs => r <= lifetimes[t].last
        /\ t \in graph.outputs => lifetimes[t].last = Len(graph.nodes) + 1
        /\ lifetimes[t].first <= lifetimes[t].last
    BY <1>1, <2>1 DEF IInv, LifetimesCover
  <2>3. /\ lifetimes[t].last \in Nat /\ lifetimes[u].last \in Nat
    BY <1>1, <2>1 DEF IInv, TypeOK
  <2>4. \/ lifetimes[t].last < lifetimes[u].first
        \/ lifetimes[u].last < lifetimes[t].first
    BY <1>1 DEF IInv, SlotsExclusive
  <2>5. Steps = 1..Len(graph.nodes) /\ Len(graph.nodes) \in Nat
    BY <2>1, GraphShape
  <2>6. lifetimes[t].last < w
    BY <2>2, <2>3, <2>4, <2>5
  <2>. QED
    BY <2>2, <2>3, <2>5, <2>6
<1>. QED
  BY <1>1, Invariant, PTL
-----------------------------------------------------------------------------
(* Why no slot is wasted: the tensors get their slots in the order of      *)
(* their first use, a slot is active or free, an active one until the last *)
(* use of one of its tenants - and in some step every slot that there is   *)
(* holds a tensor that is alive, which a new tenant does not change.       *)
AliveAt(p) == {t \in DOMAIN tensorToSlot : lifetimes[t].first <= p /\ p <= lifetimes[t].last}

InOrder ==
  \A t \in DOMAIN tensorToSlot, u \in events : lifetimes[t].first <= lifetimes[u].first

SlotsUsed == Slots = freeSlots \cup {a.slot : a \in active}

ActiveHeld ==
  \A a \in active : \E t \in DOMAIN tensorToSlot :
    tensorToSlot[t] = a.slot /\ lifetimes[t].last = a.last

Crowded ==
  Slots # {} => \E p \in Steps : \A s \in Slots : \E t \in AliveAt(p) : tensorToSlot[t] = s

CrowdInv == InOrder /\ SlotsUsed /\ ActiveHeld /\ Crowded

(* A slot is added only when every other one is in use.                    *)
LEMMA AssignSlotCrowd ==
  ASSUME IInv, CrowdInv, NEW t \in events, AssignSlot(t)
  PROVE  CrowdInv'
<1>1. /\ phase = "slots" /\ NextEvent(t) /\ events' = events \ {t}
      /\ lifetimes' = lifetimes /\ graph' = graph /\ Steps' = Steps
  BY DEF AssignSlot, Steps
<1>2. PICK s \in SlotChoices(t) : Place(t, s)
  BY DEF AssignSlot
<1>3. /\ DOMAIN tensorToSlot = DOMAIN lifetimes \ events /\ events \subseteq DOMAIN lifetimes
      /\ t \in DOMAIN lifetimes /\ t \notin DOMAIN tensorToSlot
      /\ \A u \in DOMAIN lifetimes : lifetimes[u].first \in Nat /\ lifetimes[u].last \in Nat
      /\ active \subseteq [last : Nat, slot : Slots]
  BY <1>1 DEF IInv, TypeOK
<1>4. /\ DOMAIN tensorToSlot' = DOMAIN tensorToSlot \cup {t}
      /\ tensorToSlot'[t] = s
      /\ \A u \in DOMAIN tensorToSlot : tensorToSlot'[u] = tensorToSlot[u]
      /\ Slots' = Slots \cup {s}
      /\ active' = (active \ Expired(t)) \cup {[last |-> lifetimes[t].last, slot |-> s]}
      /\ freeSlots' = Available(t) \ {s}
  BY <1>2, <1>3 DEF Place, Slots
<1>5. \A u \in events : lifetimes[t].first <= lifetimes[u].first
  BY <1>1, <1>3 DEF NextEvent
<1>6. /\ lifetimes[t].first \in Steps /\ lifetimes[t].first <= lifetimes[t].last
  BY <1>3 DEF IInv, LifetimesCover
<1>7. InOrder'
  BY <1>1, <1>3, <1>4, <1>5 DEF InOrder, CrowdInv
<1>8. SlotsUsed'
  <2>1. {a.slot : a \in active'} = {a.slot : a \in active \ Expired(t)} \cup {s}
    <3>1. PICK e : e = [last |-> lifetimes[t].last, slot |-> s]
      OBVIOUS
    <3>2. e.slot = s /\ active' = (active \ Expired(t)) \cup {e}
      BY <1>4, <3>1
    <3>. QED
      BY <3>2
  <2>2. {a.slot : a \in active} = {a.slot : a \in active \ Expired(t)}
                                    \cup {a.slot : a \in Expired(t)}
    BY DEF Expired
  <2>. QED
    BY <1>4, <2>1, <2>2 DEF SlotsUsed, CrowdInv, Available
<1>9. ActiveHeld'
  <2>. SUFFICES ASSUME NEW a \in active'
                PROVE  \E u \in DOMAIN tensorToSlot' :
                         tensorToSlot'[u] = a.slot /\ lifetimes[u].last = a.last
    BY <1>1 DEF ActiveHeld
  <2>1. CASE a = [last |-> lifetimes[t].last, slot |-> s]
    BY <1>4, <2>1
  <2>2. CASE a \in active
    BY <1>4, <2>2 DEF ActiveHeld, CrowdInv
  <2>. QED
    BY <1>4, <2>1, <2>2
<1>10. ASSUME NEW p, NEW u \in AliveAt(p)
       PROVE  u \in AliveAt(p)' /\ tensorToSlot'[u] = tensorToSlot[u]
  BY <1>1, <1>4 DEF AliveAt
<1>11. Crowded'
  <2>1. CASE s \in Slots
    <3>1. PICK p \in Steps : \A r \in Slots : \E u \in AliveAt(p) : tensorToSlot[u] = r
      BY <2>1 DEF Crowded, CrowdInv
    <3>2. \A r \in Slots : \E u \in AliveAt(p)' : tensorToSlot'[u] = r
      BY <1>10, <3>1
    <3>3. Slots' = Slots
      BY <1>4, <2>1
    <3>. QED
      BY <1>1, <3>2, <3>3 DEF Crowded
  <2>2. CASE s \notin Slots
    <3>0. PICK p \in Steps : p = lifetimes[t].first
      BY <1>6
    <3>1. Available(t) = {}
      <4>1. Available(t) \subseteq Slots
        BY <1>3 DEF Available, Expired, IInv, TypeOK
      <4>. QED
        BY <1>2, <2>2, <4>1 DEF SlotChoices
    <3>2. freeSlots = {} /\ Expired(t) = {}
      BY <3>1 DEF Available
    <3>3. ASSUME NEW r \in Slots PROVE \E u \in AliveAt(p) : tensorToSlot[u] = r
      <4>1. PICK a \in active : a.slot = r
        BY <3>2 DEF SlotsUsed, CrowdInv
      <4>2. PICK u \in DOMAIN tensorToSlot : tensorToSlot[u] = r /\ lifetimes[u].last = a.last
        BY <4>1 DEF ActiveHeld, CrowdInv
      <4>3. p <= lifetimes[u].last
        BY <1>3, <3>0, <3>2, <4>2 DEF Expired
      <4>4. lifetimes[u].first <= p
        BY <3>0 DEF InOrder, CrowdInv
      <4>. QED
        BY <4>2, <4>3, <4>4 DEF AliveAt
    <3>4. t \in AliveAt(p)'
      BY <1>1, <1>3, <1>4, <1>6, <3>0 DEF AliveAt
    <3>5. ASSUME NEW r \in Slots' PROVE \E u \in AliveAt(p)' : tensorToSlot'[u] = r
      <4>1. CASE r = s
        BY <1>4, <3>4, <4>1
      <4>2. CASE r \in Slots
        <5>1. PICK u \in AliveAt(p) : tensorToSlot[u] = r
          BY <3>3, <4>2
        <5>2. u \in AliveAt(p)' /\ tensorToSlot'[u] = tensorToSlot[u]
          BY <1>10
        <5>. QED
          BY <5>1, <5>2
      <4>. QED
        BY <1>4, <4>1, <4>2
    <3>. QED
      BY <1>1, <3>5 DEF Crowded
  <2>. QED
    BY <2>1, <2>2
<1>. QED
  BY <1>7, <1>8, <1>9, <1>11 DEF CrowdInv

LEMMA CrowdNext == IInv /\ CrowdInv /\ [Next]_vars => CrowdInv'
<1>1. ASSUME CrowdInv, UNCHANGED vars PROVE CrowdInv'
  BY <1>1 DEF vars, slotVars, CrowdInv, InOrder, SlotsUsed, ActiveHeld, Crowded, AliveAt, Steps, Slots
<1>2. ASSUME IInv, Produce \/ Produced \/ Consume \/ Outputs PROVE CrowdInv'
  <2>1. /\ tensorToSlot' = NoEntry /\ slotSizes' = NoEntry /\ active' = {} /\ freeSlots' = {}
    BY <1>2 DEF IInv, NoSlotsYet, Produce, Produced, Consume, Outputs, slotVars
  <2>. QED
    BY <2>1 DEF CrowdInv, InOrder, SlotsUsed, ActiveHeld, Crowded, AliveAt, Slots, NoEntry
<1>. QED
  BY <1>1, <1>2, AssignSlotCrowd DEF Next, Done

(* In every graph the analysis uses no more slots than there are tensors   *)
(* alive in one step: fewer would not do.                                  *)
THEOREM NoSlotWasted == Spec => []SlotsMinimal
<1>1. Init => CrowdInv
  BY DEF Init, CrowdInv, InOrder, SlotsUsed, ActiveHeld, Crowded, AliveAt, Slots, NoEntry
<1>2. ASSUME IInv, CrowdInv PROVE SlotsMinimal
  <2>. SUFFICES ASSUME Slots # {}
                PROVE  \E p \in Steps : Cardinality(Slots) = Cardinality(AliveAt(p))
    BY DEF SlotsMinimal, AliveAt
  <2>1. PICK p \in Steps : \A s \in Slots : \E t \in AliveAt(p) : tensorToSlot[t] = s
    BY <1>2 DEF CrowdInv, Crowded
  <2>. DEFINE slotOf == [t \in AliveAt(p) |-> tensorToSlot[t]]
  <2>2. /\ \A t \in AliveAt(p) : t \in DOMAIN tensorToSlot /\ tensorToSlot[t] \in Slots
        /\ \A t \in AliveAt(p) : t \in DOMAIN lifetimes
    BY <1>2 DEF IInv, TypeOK, AliveAt
  <2>3. \A t, u \in AliveAt(p) : tensorToSlot[t] = tensorToSlot[u] => t = u
    <3>. SUFFICES ASSUME NEW t \in AliveAt(p), NEW u \in AliveAt(p), t # u,
                         tensorToSlot[t] = tensorToSlot[u]
                  PROVE  FALSE
      OBVIOUS
    <3>1. \/ lifetimes[t].last < lifetimes[u].first
          \/ lifetimes[u].last < lifetimes[t].first
      BY <1>2, <2>2 DEF IInv, SlotsExclusive
    <3>2. /\ lifetimes[t].first <= p /\ p <= lifetimes[t].last
          /\ lifetimes[u].first <= p /\ p <= lifetimes[u].last
      BY DEF AliveAt
    <3>3. /\ {lifetimes[t].first, lifetimes[t].last, lifetimes[u].first, lifetimes[u].last} \subseteq Nat
          /\ p \in Int
      BY <1>2, <2>2, GraphShape DEF IInv, TypeOK
    <3>. QED
      BY <3>1, <3>2, <3>3
  <2>4. slotOf \in Bijection(AliveAt(p), Slots)
    BY <2>1, <2>2, <2>3 DEF Bijection, Injection, Surjection, IsInjective
  <2>5. IsFiniteSet(Slots)
    BY <1>2 DEF IInv, SlotsHeld
  <2>6. ExistsBijection(AliveAt(p), Slots)
    BY <2>4 DEF ExistsBijection
  <2>7. ExistsBijection(Slots, AliveAt(p))
    BY <2>6, Fun_ExistsBijSymmetric
  <2>. QED
    BY <2>5, <2>7, FS_Bijection
<1>. QED
  BY <1>1, <1>2, Invariant, CrowdNext, PTL DEF Spec

-----------------------------------------------------------------------------
(* ------------------------------- the plan ------------------------------ *)

N == Len(graph.nodes)
First(t) == lifetimes[t].first
LastUse(t) == lifetimes[t].last

(* What the analysis leaves for the plan: it finds every tensor that a     *)
(* node produces and no other, a tensor dies at a node unless it is a      *)
(* graph output, and the size of a slot is the size of a tensor.           *)
Found ==
  /\ \A t \in DOMAIN lifetimes :
       \E p \in Steps : t \in graph.nodes[p].outputs /\ (phase = "produce" => p < i)
  /\ \A p \in Steps : (phase = "produce" => p < i) => graph.nodes[p].outputs \subseteq DOMAIN lifetimes
  /\ \A t \in DOMAIN lifetimes :
       LastUse(t) \in Steps \/ (phase = "slots" /\ t \in graph.outputs)
  /\ \A s \in Slots : slotSizes[s] \in Requests

(* Where the loop over the nodes is, and what it still has to visit there. *)
Ended == {"accepted", "rejected"}
Body == {"weights", "bind", "free", "release"} \cup Ended

Placing ==
  /\ node \in Nat /\ stage \in {"analyze", "upFront"} \cup Body
  /\ stage # "analyze" => Analyzed
  /\ stage \in {"analyze", "upFront"} => node = 0
  /\ stage \in Body => node \in Steps
  /\ stage = "analyze" => pending = {}
  /\ stage = "upFront" => pending \subseteq UpFront
  /\ stage = "weights" => pending \subseteq UploadsAt(node)
  /\ stage = "bind" => pending \subseteq graph.nodes[node].outputs
  /\ stage = "free" => pending \subseteq Dead
  /\ stage = "release" => pending \subseteq Spent
  /\ stage \in Ended => node + 1 \notin Steps /\ pending = {}

(* A tensor has its buffer from the node that produces it, when its output *)
(* is bound, to its death.                                                 *)
Bound(t) ==
  /\ stage \in Body /\ t \in NodeOutputs
  /\ \/ First(t) < node
     \/ /\ First(t) = node
        /\ stage \in {"free", "release"} \cup Ended \/ (stage = "bind" /\ t \notin pending)

Gone(t) ==
  \/ LastUse(t) < node
  \/ /\ LastUse(t) = node
     /\ stage \in {"release"} \cup Ended \/ (stage = "free" /\ t \notin pending)

Alive(t) == Bound(t) /\ ~ Gone(t)

SlotsTaken ==
  /\ \A t \in NodeOutputs : Alive(t) => Occupies(t)
  /\ \A s \in DOMAIN slotAlloc :
       /\ Alive(slotAlloc[s].tensor) /\ tensorToSlot[slotAlloc[s].tensor] = s
       /\ tensorInfo[slotAlloc[s].tensor].offset = slotAlloc[s].alloc.offset
       /\ slotAlloc[s].alloc.size = BlockSize(slotSizes[s])

(* A weight that was read so far, and one that will be read, this node     *)
(* included until its last readers are through.                            *)
Began(w) ==
  \E p \in Steps : /\ w \in WeightsOf(p)
                   /\ p < node \/ (p = node /\ ~ (stage = "weights" /\ w \in pending))

Wanted(w) ==
  \E p \in Steps :
    /\ w \in WeightsOf(p)
    /\ \/ p > node
       \/ /\ p = node
          /\ stage \in {"weights", "bind", "free"} \/ (stage = "release" /\ w \in pending)

Streamed(w) ==
  /\ w \in Weights
  /\ IF w \in NodeOutputs THEN stage # "analyze" /\ ~ (stage = "upFront" /\ w \in pending)
                          ELSE Began(w) /\ Wanted(w)

WeightsLoaded ==
  /\ DOMAIN weightAlloc \subseteq Weights
  /\ streaming => \A w \in Weights : w \in DOMAIN weightAlloc <=> Streamed(w)
  /\ ~ streaming => /\ \A w \in Weights : Began(w) => w \in DOMAIN weightAlloc
                    /\ \A w \in DOMAIN weightAlloc : \E p \in Steps : w \in WeightsOf(p)
  /\ \A w \in DOMAIN weightAlloc :
       w \in DOMAIN weightInfo /\ weightInfo[w].offset = weightAlloc[w].offset

(* Every live allocation has one owner: a weight or a slot.                *)
Owned ==
  /\ \A w \in DOMAIN weightAlloc :
       /\ weightAlloc[w].handle \in DOMAIN allocByHandle
       /\ allocByHandle[weightAlloc[w].handle] = weightAlloc[w]
  /\ \A s \in DOMAIN slotAlloc :
       /\ slotAlloc[s].alloc.handle \in DOMAIN allocByHandle
       /\ allocByHandle[slotAlloc[s].alloc.handle] = slotAlloc[s].alloc
  /\ \A w, v \in DOMAIN weightAlloc : weightAlloc[w].handle = weightAlloc[v].handle => w = v
  /\ \A s, r \in DOMAIN slotAlloc : slotAlloc[s].alloc.handle = slotAlloc[r].alloc.handle => s = r
  /\ \A w \in DOMAIN weightAlloc : \A s \in DOMAIN slotAlloc :
       weightAlloc[w].handle # slotAlloc[s].alloc.handle
  /\ \A h \in DOMAIN allocByHandle :
       \/ \E w \in DOMAIN weightAlloc : weightAlloc[w].handle = h
       \/ \E s \in DOMAIN slotAlloc : slotAlloc[s].alloc.handle = h

(* The nodes that have computed.                                           *)
Computed == {p \in Steps : p < node \/ (p = node /\ stage \in {"free", "release"} \cup Ended)}

(* What the tables say of a weight and of a tensor stands from the moment  *)
(* a step names it.                                                        *)
Recorded ==
  /\ stepCount \in Nat
  /\ \A w \in DOMAIN weightInfo : /\ w \in DOMAIN allocStep
                                  /\ weightInfo[w].offset >= 0 /\ weightInfo[w].size > 0
                                  /\ weightInfo[w].offset \in Nat /\ weightInfo[w].size \in Nat
  /\ \A t \in DOMAIN tensorInfo : /\ Bound(t) /\ t \in DOMAIN allocStep /\ t \in DOMAIN tensorStep
                                  /\ tensorStep[t] = tensorInfo[t]
                                  /\ tensorInfo[t].offset \in Nat /\ tensorInfo[t].size \in Nat
                                  /\ tensorInfo[t].size > 0
  /\ \A t \in NodeOutputs : Bound(t) => t \in DOMAIN tensorInfo
  /\ \A x \in DOMAIN allocStep : allocStep[x] \in Nat /\ allocStep[x] < stepCount

Bindings ==
  /\ DOMAIN compute = Computed
  /\ \A p \in Computed :
       /\ compute[p].step \in Nat /\ compute[p].step < stepCount
       /\ \A t \in graph.nodes[p].inputs :
            /\ t \in Weights => /\ t \in DOMAIN weightInfo /\ compute[p].inputs[t] = weightInfo[t]
                                /\ allocStep[t] <= compute[p].step
            /\ t \in GraphInputs \ Weights => compute[p].inputs[t].size = SizeOf[t]
            /\ t \notin Weights \cup GraphInputs =>
                 t \in DOMAIN tensorInfo /\ compute[p].inputs[t] = tensorInfo[t]
       /\ \A o \in graph.nodes[p].outputs :
            /\ o \in DOMAIN tensorInfo /\ compute[p].outputs[o] = tensorInfo[o]
            /\ (streaming \/ Weights \cap NodeOutputs = {}) => allocStep[o] <= compute[p].step
PlanInv ==
  /\ IInv /\ Found /\ PoolInv
  /\ Placing /\ SlotsTaken /\ WeightsLoaded /\ Owned /\ Recorded /\ Bindings

-----------------------------------------------------------------------------
(* The analysis.                                                           *)
LEMMA FoundInit == Init => Found
<1>. SUFFICES ASSUME Init PROVE Found
  OBVIOUS
<1>1. DOMAIN lifetimes = {} /\ Slots = {} /\ phase = "produce" /\ i = 1 /\ graph \in Graphs
  BY DEF Init, NoEntry, Slots
<1>2. \A p \in Steps : ~ (p < i)
  BY <1>1, GraphShape
<1>. QED
  BY <1>1, <1>2 DEF Found

LEMMA FoundNext == IInv /\ Found /\ [Next]_vars => Found'
<1>. SUFFICES ASSUME IInv, Found, [Next]_vars PROVE Found'
  OBVIOUS
<1>1. graph \in Graphs /\ i \in Nat /\ graph' = graph /\ Steps' = Steps
  BY DEF IInv, TypeOK, Next, vars, Produce, Produced, Consume, Outputs, AssignSlot, Done, Steps
<1>2. Len(graph.nodes) \in Nat /\ Steps = 1..Len(graph.nodes)
  BY <1>1, GraphShape
<1>3. CASE Produce
  <2>1. /\ phase = "produce" /\ i \in Steps /\ phase' = phase /\ i' = i + 1 /\ slotSizes' = slotSizes
        /\ DOMAIN lifetimes' = DOMAIN lifetimes \cup graph.nodes[i].outputs
        /\ \A t \in graph.nodes[i].outputs : lifetimes'[t] = [first |-> i, last |-> i]
        /\ \A t \in DOMAIN lifetimes \ graph.nodes[i].outputs : lifetimes'[t] = lifetimes[t]
    BY <1>3 DEF Produce, slotVars
  <2>2. \A t \in DOMAIN lifetimes' : \E p \in Steps : t \in graph.nodes[p].outputs /\ p < i + 1
    <3>1. \A t \in DOMAIN lifetimes : \E p \in Steps : t \in graph.nodes[p].outputs /\ p < i
      BY <2>1 DEF Found
    <3>. QED
      BY <1>2, <2>1, <3>1
  <2>3. \A p \in Steps : p < i + 1 => graph.nodes[p].outputs \subseteq DOMAIN lifetimes'
    <3>1. \A p \in Steps : p < i => graph.nodes[p].outputs \subseteq DOMAIN lifetimes
      BY <2>1 DEF Found
    <3>2. \A p \in Steps : p < i + 1 => p < i \/ p = i
      BY <1>1, <1>2
    <3>. QED
      BY <2>1, <3>1, <3>2
  <2>4. \A t \in DOMAIN lifetimes' : LastUse(t)' \in Steps
    BY <2>1 DEF Found, LastUse
  <2>5. \A s \in Slots : slotSizes[s] \in Requests
    BY DEF Found
  <2>. QED
    BY <1>1, <2>1, <2>2, <2>3, <2>4, <2>5 DEF Found, Slots
<1>4. CASE Produced \/ Done \/ UNCHANGED vars
  <2>1. /\ lifetimes' = lifetimes /\ slotSizes' = slotSizes
        /\ \/ phase' = phase /\ i' = i
           \/ phase = "produce" /\ phase' = "consume" /\ i \notin Steps
    BY <1>4 DEF Produced, Done, vars, slotVars
  <2>2. CASE phase' = phase /\ i' = i
    BY <1>1, <2>1, <2>2 DEF Found, Slots, LastUse
  <2>3. CASE phase = "produce" /\ phase' = "consume" /\ i \notin Steps
    <3>1. \A p \in Steps : p < i
      <4>1. i > Len(graph.nodes)
        BY <1>1, <1>2, <2>3 DEF IInv, TypeOK
      <4>. QED
        BY <1>1, <1>2, <4>1
    <3>. QED
      BY <1>1, <2>1, <2>3, <3>1 DEF Found, Slots, LastUse
  <2>. QED
    BY <2>1, <2>2, <2>3
<1>5. CASE Consume
  <2>1. /\ phase = "consume" /\ i \in Steps /\ phase' = phase /\ slotSizes' = slotSizes
        /\ DOMAIN lifetimes' = DOMAIN lifetimes
        /\ \A t \in DOMAIN lifetimes : lifetimes'[t].last \in {LastUse(t), i}
    BY <1>5 DEF Consume, slotVars, Later, LastUse
  <2>2. \A t \in DOMAIN lifetimes : LastUse(t) \in Steps
    BY <2>1 DEF Found
  <2>3. \A t \in DOMAIN lifetimes' : LastUse(t)' \in Steps
    BY <2>1, <2>2 DEF LastUse
  <2>. QED
    BY <1>1, <2>1, <2>3 DEF Found, Slots
<1>6. CASE Outputs
  <2>1. /\ phase = "consume" /\ phase' = "slots" /\ slotSizes' = slotSizes
        /\ DOMAIN lifetimes' = DOMAIN lifetimes
        /\ \A t \in DOMAIN lifetimes : t \in graph.outputs \/ lifetimes'[t].last = LastUse(t)
    BY <1>6 DEF Outputs, LastUse
  <2>2. \A t \in DOMAIN lifetimes : LastUse(t) \in Steps
    BY <2>1 DEF Found
  <2>. QED
    BY <1>1, <2>1, <2>2 DEF Found, Slots, LastUse
<1>7. ASSUME NEW t \in events, AssignSlot(t) PROVE Found'
  <2>1. /\ phase = "slots" /\ phase' = "slots" /\ lifetimes' = lifetimes
        /\ \E s \in SlotChoices(t) : slotSizes' = [r \in Slots \cup {s} |-> IF r = s THEN SizeAfter(s, t) ELSE slotSizes[r]]
    BY <1>7 DEF AssignSlot, Place
  <2>2. PICK s \in SlotChoices(t) :
          slotSizes' = [r \in Slots \cup {s} |-> IF r = s THEN SizeAfter(s, t) ELSE slotSizes[r]]
    BY <2>1
  <2>3. SizeOf[t] \in Requests
    BY PlanAssumption DEF IInv, TypeOK
  <2>4. \A r \in Slots : slotSizes[r] \in Requests
    BY DEF Found
  <2>5. SizeAfter(s, t) \in Requests
    BY <2>3, <2>4 DEF SizeAfter, Later
  <2>6. \A r \in Slots' : slotSizes'[r] \in Requests
    BY <2>2, <2>4, <2>5 DEF Slots
  <2>. QED
    BY <1>1, <2>1, <2>6 DEF Found, LastUse
<1>. QED
  BY <1>3, <1>4, <1>5, <1>6, <1>7 DEF Next

(* What the plan relies on once the analysis is done.                      *)
LEMMA Analysis ==
  ASSUME IInv, Found, Analyzed
  PROVE  /\ N \in Nat /\ Steps = 1..N /\ NodeOutputs = DOMAIN lifetimes
         /\ \A t \in NodeOutputs :
              /\ First(t) \in Steps /\ LastUse(t) \in Nat /\ First(t) <= LastUse(t)
              /\ t \in graph.nodes[First(t)].outputs
              /\ \A p \in Steps : t \in graph.nodes[p].outputs => p = First(t)
              /\ \A r \in Steps : t \in graph.nodes[r].inputs => First(t) < r /\ r <= LastUse(t)
              /\ LastUse(t) = N + 1 <=> t \in graph.outputs
              /\ LastUse(t) <= N + 1
              /\ tensorToSlot[t] \in Slots /\ slotSizes[tensorToSlot[t]] \in Requests
              /\ SizeOf[t] <= slotSizes[tensorToSlot[t]]
         /\ \A t, u \in NodeOutputs : tensorToSlot[t] = tensorToSlot[u] =>
              t = u \/ LastUse(t) < First(u) \/ LastUse(u) < First(t)
<1>1. graph \in Graphs /\ phase = "slots" /\ events = {}
  BY DEF IInv, TypeOK, Analyzed
<1>2. N \in Nat /\ Steps = 1..N /\ WellFormed(graph)
  BY <1>1, GraphShape DEF N
<1>3. NodeOutputs = DOMAIN lifetimes
  <2>1. \A t \in DOMAIN lifetimes : \E p \in Steps : t \in graph.nodes[p].outputs
    BY DEF Found
  <2>2. \A p \in Steps : graph.nodes[p].outputs \subseteq DOMAIN lifetimes
    BY <1>1 DEF Found
  <2>. QED
    BY <2>1, <2>2 DEF NodeOutputs
<1>4. DOMAIN tensorToSlot = NodeOutputs
  BY <1>1, <1>3 DEF IInv, TypeOK
<1>5. ASSUME NEW t \in NodeOutputs
      PROVE  /\ First(t) \in Steps /\ LastUse(t) \in Nat /\ First(t) <= LastUse(t)
             /\ t \in graph.nodes[First(t)].outputs
             /\ \A p \in Steps : t \in graph.nodes[p].outputs => p = First(t)
             /\ \A r \in Steps : t \in graph.nodes[r].inputs => First(t) < r /\ r <= LastUse(t)
             /\ LastUse(t) = N + 1 <=> t \in graph.outputs
             /\ LastUse(t) <= N + 1
             /\ tensorToSlot[t] \in Slots /\ slotSizes[tensorToSlot[t]] \in Requests
             /\ SizeOf[t] <= slotSizes[tensorToSlot[t]]
  <2>1. First(t) \in Steps /\ First(t) <= LastUse(t) /\ \A p \in Steps : t \in graph.nodes[p].outputs => p = First(t)
    BY <1>1, <1>3, <1>5 DEF IInv, LifetimesCover, First, LastUse
  <2>2. LastUse(t) \in Nat
    BY <1>3, <1>5 DEF IInv, TypeOK, LastUse
  <2>3. t \in graph.nodes[First(t)].outputs
    BY <1>5, <2>1 DEF NodeOutputs
  <2>4. \A r \in Steps : t \in graph.nodes[r].inputs => r <= LastUse(t)
    BY <1>1, <1>3, <1>5 DEF IInv, LifetimesCover, LastUse
  <2>5. \A r \in Steps : t \in graph.nodes[r].inputs => First(t) < r
    BY <1>2, <2>1, <2>3 DEF WellFormed, Steps
  <2>6. t \in graph.outputs => LastUse(t) = N + 1
    BY <1>1, <1>3, <1>5 DEF IInv, LifetimesCover, LastUse, N
  <2>7. LastUse(t) \in Steps \/ t \in graph.outputs
    BY <1>1, <1>3, <1>5 DEF Found
  <2>8. tensorToSlot[t] \in Slots /\ slotSizes[tensorToSlot[t]] \in Requests
    BY <1>4, <1>5 DEF IInv, TypeOK, Found
  <2>9. SizeOf[t] <= slotSizes[tensorToSlot[t]]
    BY <1>4, <1>5 DEF IInv, TenantsFit
  <2>. QED
    BY <1>2, <2>1, <2>2, <2>3, <2>4, <2>5, <2>6, <2>7, <2>8, <2>9
<1>6. \A t, u \in NodeOutputs : tensorToSlot[t] = tensorToSlot[u] =>
        t = u \/ LastUse(t) < First(u) \/ LastUse(u) < First(t)
  BY <1>4 DEF IInv, SlotsExclusive, First, LastUse
<1>. QED
  BY <1>2, <1>3, <1>5, <1>6

-----------------------------------------------------------------------------
(* After the analysis nothing of it changes.                               *)
LEMMA AnalysisKept ==
  ASSUME IInv, Found, UNCHANGED <<analysisVars, streaming>>
  PROVE  /\ IInv' /\ Found' /\ (Analyzed' <=> Analyzed) /\ graph' = graph /\ streaming' = streaming
         /\ lifetimes' = lifetimes /\ tensorToSlot' = tensorToSlot /\ slotSizes' = slotSizes
         /\ N' = N /\ Steps' = Steps /\ NodeOutputs' = NodeOutputs /\ UpFront' = UpFront
         /\ \A t : First(t)' = First(t) /\ LastUse(t)' = LastUse(t)
         /\ \A p : WeightsOf(p)' = WeightsOf(p) /\ UploadsAt(p)' = UploadsAt(p)
<1>1. UNCHANGED vars /\ streaming' = streaming
  BY DEF analysisVars
<1>2. IInv' /\ Found'
  BY <1>1, IInvNext, FoundNext
<1>3. /\ graph' = graph /\ lifetimes' = lifetimes /\ tensorToSlot' = tensorToSlot
      /\ slotSizes' = slotSizes /\ phase' = phase /\ events' = events
  BY <1>1 DEF vars, slotVars
<1>4. Steps' = Steps /\ N' = N /\ (Analyzed' <=> Analyzed)
  BY <1>3 DEF Steps, N, Analyzed
<1>5. NodeOutputs' = NodeOutputs
  BY <1>3, <1>4 DEF NodeOutputs
<1>6. UpFront' = UpFront
  BY <1>1, <1>5 DEF UpFront
<1>7. \A t : First(t)' = First(t) /\ LastUse(t)' = LastUse(t)
  BY <1>3 DEF First, LastUse
<1>8. \A p : WeightsOf(p)' = WeightsOf(p)
  BY <1>3 DEF WeightsOf
<1>9. \A p : UploadsAt(p)' = UploadsAt(p)
  BY <1>1, <1>4, <1>8 DEF UploadsAt
<1>. QED
  BY <1>1, <1>2, <1>3, <1>4, <1>5, <1>6, <1>7, <1>8, <1>9

(* Walking from one loop to the next gives no tensor and no weight its     *)
(* buffer, and takes none away.                                            *)
Walk ==
  \/ Start \/ NextNode("upFront") \/ NextNode("release") \/ WeightsDone
  \/ Compute \/ FreesDone \/ Validate

Standing(t) == (Bound(t)' <=> Bound(t)) /\ (Gone(t)' <=> Gone(t))

LEMMA WalkKeeps ==
  ASSUME PlanInv, Walk
  PROVE  /\ UNCHANGED <<analysisVars, streaming>> /\ Analyzed /\ Placing'
         /\ \A t \in NodeOutputs : Standing(t)
         /\ \A w : Began(w)' <=> Began(w)
         /\ streaming => \A w \in Weights : Streamed(w)' <=> Streamed(w)
<1>. USE DEF Body, Ended
<1>1. UNCHANGED <<analysisVars, streaming>>
  BY DEF Walk, Start, NextNode, WeightsDone, Compute, FreesDone, Validate
<1>2. Analyzed
  BY DEF PlanInv, Placing, Walk, Start, NextNode, WeightsDone, Compute, FreesDone, Validate, Continue
<1>3. /\ N \in Nat /\ Steps = 1..N
      /\ \A t \in NodeOutputs :
           /\ First(t) \in Steps /\ LastUse(t) \in Nat /\ First(t) <= LastUse(t)
           /\ t \in graph.nodes[First(t)].outputs
  BY <1>2, Analysis DEF PlanInv
<1>4. /\ Analyzed' /\ graph' = graph /\ streaming' = streaming /\ Steps' = Steps
      /\ NodeOutputs' = NodeOutputs /\ UpFront' = UpFront /\ lifetimes' = lifetimes
      /\ \A t : First(t)' = First(t) /\ LastUse(t)' = LastUse(t)
      /\ \A p : WeightsOf(p)' = WeightsOf(p) /\ UploadsAt(p)' = UploadsAt(p)
  BY <1>1, <1>2, AnalysisKept DEF PlanInv
<1>5. node \in Nat /\ \A p \in Steps : p \in Nat /\ p # 0
  BY <1>3 DEF PlanInv, Placing
<1>6. NodeOutputs = DOMAIN lifetimes
  BY <1>2, Analysis DEF PlanInv
<1>7. CASE Start
  <2>1. stage = "analyze" /\ stage' = "upFront" /\ node = 0 /\ node' = 0 /\ pending' = UpFront
    BY <1>7 DEF Start, Continue, PlanInv, Placing
  <2>2. Placing'
    BY <1>4, <2>1 DEF Placing
  <2>3. ASSUME NEW t \in NodeOutputs PROVE Standing(t)
    BY <1>3, <1>4, <1>5, <2>1 DEF Standing, Bound, Gone
  <2>4. ASSUME NEW w PROVE Began(w)' <=> Began(w)
    BY <1>4, <1>5, <2>1 DEF Began
  <2>5. ASSUME streaming, NEW w \in Weights PROVE Streamed(w)' <=> Streamed(w)
    <3>1. ~ Began(w)
      BY <1>5, <2>1 DEF Began
    <3>2. w \in NodeOutputs => w \in UpFront
      BY <2>5 DEF UpFront
    <3>. QED
      BY <1>4, <2>1, <2>4, <3>1, <3>2 DEF Streamed
  <2>. QED
    BY <1>1, <1>2, <2>2, <2>3, <2>4, <2>5
<1>8. CASE NextNode("upFront") \/ NextNode("release")
  <2>1. /\ stage \in {"upFront", "release"} /\ stage' = "weights" /\ node' = node + 1
        /\ node + 1 \in Steps /\ pending = {} /\ pending' = UploadsAt(node + 1)
        /\ stage = "upFront" => node = 0
    BY <1>8 DEF NextNode, Continue, PlanInv, Placing
  <2>2. Placing'
    BY <1>4, <1>5, <2>1 DEF Placing
  <2>3. ASSUME NEW t \in NodeOutputs PROVE Standing(t)
    <3>1. PICK f \in Nat \ {0} : f = First(t)
      BY <1>3, <1>5
    <3>2. PICK l \in Nat : l = LastUse(t) /\ f <= l
      BY <1>3, <3>1
    <3>3. Bound(t)' <=> f < node + 1
      BY <1>4, <2>1, <3>1 DEF Bound
    <3>4. Bound(t) <=> f <= node
      BY <1>5, <2>1, <3>1 DEF Bound
    <3>5. Gone(t)' <=> l < node + 1
      BY <1>4, <2>1, <3>2 DEF Gone
    <3>6. Gone(t) <=> l <= node
      BY <1>5, <2>1, <3>1, <3>2 DEF Gone
    <3>. QED
      BY <1>5, <3>3, <3>4, <3>5, <3>6 DEF Standing
  <2>4. \A w : w \in WeightsOf(node + 1) => w \in pending'
    BY <2>1 DEF UploadsAt
  <2>5. ASSUME NEW w PROVE Began(w)' <=> Began(w)
    <3>1. Began(w)' <=> \E p \in Steps : w \in WeightsOf(p) /\ p < node + 1
      BY <1>4, <2>1, <2>4 DEF Began
    <3>2. Began(w) <=> \E p \in Steps : w \in WeightsOf(p) /\ p <= node
      BY <1>5, <2>1 DEF Began
    <3>. QED
      BY <1>5, <3>1, <3>2
  <2>6. ASSUME streaming, NEW w \in Weights PROVE Streamed(w)' <=> Streamed(w)
    <3>1. Began(w) => (Wanted(w)' <=> Wanted(w))
      <4>1. Wanted(w)' <=> \E p \in Steps : w \in WeightsOf(p) /\ p >= node + 1
        BY <1>4, <1>5, <2>1 DEF Wanted
      <4>2. Wanted(w) <=> \E p \in Steps : w \in WeightsOf(p) /\ p > node
        BY <1>5, <2>1 DEF Wanted
      <4>. QED
        BY <1>5, <4>1, <4>2
    <3>. QED
      BY <1>4, <2>1, <2>5, <3>1 DEF Streamed
  <2>. QED
    BY <1>1, <1>2, <2>2, <2>3, <2>5, <2>6
<1>9. CASE WeightsDone
  <2>1. /\ stage = "weights" /\ stage' = "bind" /\ node' = node /\ node \in Steps /\ pending = {}
        /\ pending' = graph.nodes[node].outputs
    BY <1>9 DEF WeightsDone, Continue, PlanInv, Placing
  <2>2. Placing'
    BY <1>4, <1>5, <2>1 DEF Placing
  <2>3. ASSUME NEW t \in NodeOutputs PROVE Standing(t)
    BY <1>3, <1>4, <2>1 DEF Standing, Bound, Gone
  <2>4. ASSUME NEW w PROVE Began(w)' <=> Began(w)
    BY <1>4, <2>1 DEF Began
  <2>5. ASSUME streaming, NEW w \in Weights PROVE Streamed(w)' <=> Streamed(w)
    <3>1. Wanted(w)' <=> Wanted(w)
      BY <1>4, <2>1 DEF Wanted
    <3>. QED
      BY <1>4, <2>1, <2>4, <3>1 DEF Streamed
  <2>. QED
    BY <1>1, <1>2, <2>2, <2>3, <2>4, <2>5
<1>10. CASE Compute
  <2>1. /\ stage = "bind" /\ stage' = "free" /\ node' = node /\ node \in Steps /\ pending = {}
        /\ pending' = Dead
    BY <1>10 DEF Compute, Continue, PlanInv, Placing
  <2>2. Dead' = Dead
    BY <1>4, <2>1 DEF Dead
  <2>3. Placing'
    BY <1>4, <1>5, <2>1, <2>2 DEF Placing
  <2>4. ASSUME NEW t \in NodeOutputs PROVE Standing(t)
    <3>1. LastUse(t) = node => t \in Dead
      BY <1>6 DEF Dead, LastUse
    <3>. QED
      BY <1>3, <1>4, <2>1, <3>1 DEF Standing, Bound, Gone
  <2>5. ASSUME NEW w PROVE Began(w)' <=> Began(w)
    BY <1>4, <2>1 DEF Began
  <2>6. ASSUME streaming, NEW w \in Weights PROVE Streamed(w)' <=> Streamed(w)
    <3>1. Wanted(w)' <=> Wanted(w)
      BY <1>4, <2>1 DEF Wanted
    <3>. QED
      BY <1>4, <2>1, <2>5, <3>1 DEF Streamed
  <2>. QED
    BY <1>1, <1>2, <2>3, <2>4, <2>5, <2>6
<1>11. CASE FreesDone
  <2>1. /\ stage = "free" /\ stage' = "release" /\ node' = node /\ node \in Steps /\ pending = {}
        /\ pending' = Spent
    BY <1>11 DEF FreesDone, Continue, PlanInv, Placing
  <2>2. Spent' = Spent
    BY <1>4, <2>1 DEF Spent
  <2>3. Placing'
    BY <1>4, <1>5, <2>1, <2>2 DEF Placing
  <2>4. ASSUME NEW t \in NodeOutputs PROVE Standing(t)
    BY <1>3, <1>4, <2>1 DEF Standing, Bound, Gone
  <2>5. ASSUME NEW w PROVE Began(w)' <=> Began(w)
    BY <1>4, <2>1 DEF Began
  <2>6. ASSUME streaming, NEW w \in Weights PROVE Streamed(w)' <=> Streamed(w)
    <3>1. w \notin NodeOutputs => (Wanted(w)' <=> Wanted(w))
      <4>1. Wanted(w)' <=> \E p \in Steps : w \in WeightsOf(p) /\ (p > node \/ (p = node /\ w \in Spent))
        BY <1>4, <2>1 DEF Wanted
      <4>2. Wanted(w) <=> \E p \in Steps : w \in WeightsOf(p) /\ (p > node \/ p = node)
        BY <1>4, <2>1 DEF Wanted
      <4>3. ASSUME w \notin NodeOutputs, w \in WeightsOf(node)
            PROVE  w \in Spent \/ \E q \in Steps : q > node /\ w \in WeightsOf(q)
        BY <2>6, <4>3 DEF Spent
      <4>. QED
        BY <2>1, <4>1, <4>2, <4>3
    <3>. QED
      BY <1>4, <2>1, <2>5, <3>1 DEF Streamed
  <2>. QED
    BY <1>1, <1>2, <2>3, <2>4, <2>5, <2>6
<1>12. CASE Validate
  <2>1. /\ stage = "release" /\ stage' \in {"accepted", "rejected"} /\ node' = node /\ node \in Steps
        /\ pending = {} /\ pending' = {} /\ node + 1 \notin Steps
    BY <1>12 DEF Validate, Continue, PlanInv, Placing
  <2>2. Placing'
    BY <1>4, <1>5, <2>1 DEF Placing
  <2>3. ASSUME NEW t \in NodeOutputs PROVE Standing(t)
    BY <1>3, <1>4, <2>1 DEF Standing, Bound, Gone
  <2>4. ASSUME NEW w PROVE Began(w)' <=> Began(w)
    BY <1>4, <2>1 DEF Began
  <2>5. ASSUME streaming, NEW w \in Weights PROVE Streamed(w)' <=> Streamed(w)
    <3>1. Wanted(w)' <=> Wanted(w)
      BY <1>4, <2>1 DEF Wanted
    <3>. QED
      BY <1>4, <2>1, <2>4, <3>1 DEF Streamed
  <2>. QED
    BY <1>1, <1>2, <2>2, <2>3, <2>4, <2>5
<1>. QED
  BY <1>7, <1>8, <1>9, <1>10, <1>11, <1>12 DEF Walk

(* What a visit to x changes, by the loop it is in.                        *)
LEMMA VisitKeeps ==
  ASSUME PlanInv, NEW x, Visit(x), UNCHANGED <<analysisVars, streaming, stage, node>>
  PROVE  /\ Analyzed /\ Placing'
         /\ x \in pending /\ stage \in {"upFront", "weights", "bind", "free", "release"}
         /\ \A t \in NodeOutputs : /\ Bound(t)' <=> (Bound(t) \/ (stage = "bind" /\ t = x))
                                   /\ Gone(t)' <=> (Gone(t) \/ (stage = "free" /\ t = x))
         /\ \A w : Began(w)' <=> (Began(w) \/ (stage = "weights" /\ w = x /\ w \in WeightsOf(node)))
         /\ streaming => \A w \in Weights :
              Streamed(w)' <=> /\ Streamed(w) \/ (stage \in {"upFront", "weights"} /\ w = x)
                               /\ ~ (stage = "release" /\ w = x)
<1>. USE DEF Body, Ended
<1>1. x \in pending /\ pending' = pending \ {x}
  BY DEF Visit
<1>2. stage \in {"upFront", "weights", "bind", "free", "release"}
  BY <1>1 DEF PlanInv, Placing
<1>3. Analyzed
  BY <1>2 DEF PlanInv, Placing
<1>4. /\ N \in Nat /\ Steps = 1..N
      /\ \A t \in NodeOutputs :
           /\ First(t) \in Steps /\ LastUse(t) \in Nat /\ First(t) <= LastUse(t)
           /\ t \in graph.nodes[First(t)].outputs
           /\ \A p \in Steps : t \in graph.nodes[p].outputs => p = First(t)
  BY <1>3, Analysis DEF PlanInv
<1>5. /\ Analyzed' /\ graph' = graph /\ streaming' = streaming /\ Steps' = Steps
      /\ NodeOutputs' = NodeOutputs /\ UpFront' = UpFront /\ lifetimes' = lifetimes
      /\ \A t : First(t)' = First(t) /\ LastUse(t)' = LastUse(t)
      /\ \A p : WeightsOf(p)' = WeightsOf(p) /\ UploadsAt(p)' = UploadsAt(p)
  BY <1>3, AnalysisKept DEF PlanInv
<1>6. node \in Nat /\ stage' = stage /\ node' = node /\ \A p \in Steps : p \in Nat /\ p # 0
  BY <1>4 DEF PlanInv, Placing
<1>7. Placing'
  <2>1. Dead' = Dead
    BY <1>5, <1>6 DEF Dead
  <2>2. Spent' = Spent
    <3>1. WeightsOf(node)' = WeightsOf(node)
      BY <1>5, <1>6 DEF WeightsOf
    <3>2. PICK W : W = WeightsOf(node)
      OBVIOUS
    <3>3. Spent = IF streaming
                  THEN {w \in W \ NodeOutputs : \A q \in Steps : q > node => w \notin WeightsOf(q)}
                  ELSE {}
      BY <3>2 DEF Spent
    <3>4. Spent' = IF streaming
                   THEN {w \in W \ NodeOutputs : \A q \in Steps : q > node => w \notin WeightsOf(q)'}
                   ELSE {}
      BY <1>5, <1>6, <3>1, <3>2 DEF Spent
    <3>. QED
      BY <1>5, <3>3, <3>4
  <2>. QED
    BY <1>1, <1>2, <1>5, <1>6, <2>1, <2>2 DEF PlanInv, Placing
<1>8. ASSUME NEW t \in NodeOutputs
      PROVE  /\ Bound(t)' <=> (Bound(t) \/ (stage = "bind" /\ t = x))
             /\ Gone(t)' <=> (Gone(t) \/ (stage = "free" /\ t = x))
  <2>1. stage = "bind" /\ t = x => First(t) = node
    <3>1. stage = "bind" => pending \subseteq graph.nodes[node].outputs /\ node \in Steps
      BY DEF PlanInv, Placing
    <3>. QED
      BY <1>1, <1>4, <3>1
  <2>2. stage = "free" /\ t = x => LastUse(t) = node
    <3>1. stage = "free" => pending \subseteq Dead
      BY DEF PlanInv, Placing
    <3>. QED
      BY <1>1, <3>1 DEF Dead, LastUse
  <2>3. Bound(t)' <=> (Bound(t) \/ (stage = "bind" /\ t = x))
    BY <1>1, <1>2, <1>5, <1>6, <2>1 DEF Bound
  <2>4. Gone(t)' <=> (Gone(t) \/ (stage = "free" /\ t = x))
    BY <1>1, <1>2, <1>5, <1>6, <2>2 DEF Gone
  <2>. QED
    BY <2>3, <2>4
<1>9. ASSUME NEW w PROVE Began(w)' <=> (Began(w) \/ (stage = "weights" /\ w = x /\ w \in WeightsOf(node)))
  <2>1. stage = "weights" => node \in Steps
    BY DEF PlanInv, Placing
  <2>2. CASE stage = "weights" /\ w = x
    <3>1. Began(w)' <=> \E p \in Steps : w \in WeightsOf(p) /\ (p < node \/ p = node)
      BY <1>1, <1>5, <1>6, <2>2 DEF Began
    <3>2. Began(w) <=> \E p \in Steps : w \in WeightsOf(p) /\ p < node
      BY <1>1, <1>5, <1>6, <2>2 DEF Began
    <3>. QED
      BY <2>1, <2>2, <3>1, <3>2
  <2>3. CASE ~ (stage = "weights" /\ w = x)
    BY <1>1, <1>5, <1>6, <2>3 DEF Began
  <2>. QED
    BY <2>2, <2>3
<1>10. ASSUME streaming, NEW w \in Weights
       PROVE  Streamed(w)' <=> /\ Streamed(w) \/ (stage \in {"upFront", "weights"} /\ w = x)
                               /\ ~ (stage = "release" /\ w = x)
  <2>1. CASE w # x
    <3>1. Wanted(w)' <=> Wanted(w)
      BY <1>1, <1>5, <1>6, <2>1 DEF Wanted
    <3>2. Began(w)' <=> Began(w)
      BY <1>9, <2>1
    <3>. QED
      BY <1>1, <1>5, <1>6, <2>1, <3>1, <3>2 DEF Streamed
  <2>2. CASE w = x /\ stage = "upFront"
    <3>1. w \in NodeOutputs
      BY <1>1, <1>10, <2>2 DEF PlanInv, Placing, UpFront
    <3>. QED
      BY <1>1, <1>5, <1>6, <1>10, <2>2, <3>1 DEF Streamed
  <2>3. CASE w = x /\ stage = "weights"
    <3>1. w \in WeightsOf(node) /\ node \in Steps
      BY <1>1, <1>10, <2>3 DEF PlanInv, Placing, UploadsAt
    <3>2. Began(w)'
      BY <1>9, <2>3, <3>1
    <3>3. Wanted(w)'
      BY <1>5, <1>6, <2>3, <3>1 DEF Wanted
    <3>. QED
      BY <1>5, <1>6, <1>10, <2>3, <3>2, <3>3 DEF Streamed
  <2>4. CASE w = x /\ stage = "release"
    <3>1. w \notin NodeOutputs /\ \A q \in Steps : q > node => w \notin WeightsOf(q)
      BY <1>1, <1>10, <2>4 DEF PlanInv, Placing, Spent
    <3>2. ~ Wanted(w)'
      BY <1>1, <1>5, <1>6, <2>4, <3>1 DEF Wanted
    <3>. QED
      BY <1>5, <2>4, <3>1, <3>2 DEF Streamed
  <2>5. CASE w = x /\ stage \in {"bind", "free"}
    <3>1. Wanted(w)' <=> Wanted(w)
      BY <1>1, <1>5, <1>6, <2>5 DEF Wanted
    <3>2. Began(w)' <=> Began(w)
      BY <1>9, <2>5
    <3>. QED
      BY <1>1, <1>5, <1>6, <2>5, <3>1, <3>2 DEF Streamed
  <2>. QED
    BY <1>2, <2>1, <2>2, <2>3, <2>4, <2>5
<1>. QED
  BY <1>1, <1>2, <1>3, <1>7, <1>8, <1>9, <1>10

-----------------------------------------------------------------------------
(* What a call of the pool does to its table, as the plan sees it.         *)
LEMMA MallocTable ==
  ASSUME PoolInv, NEW n \in Requests, Malloc(n), NEW alloc, alloc = Allocation(n)
  PROVE  /\ PoolInv' /\ alloc \in HandleOf /\ alloc.size = BlockSize(n)
         /\ alloc.handle \notin DOMAIN allocByHandle
         /\ DOMAIN allocByHandle' = DOMAIN allocByHandle \cup {alloc.handle}
         /\ allocByHandle'[alloc.handle] = alloc
         /\ \A h \in DOMAIN allocByHandle : allocByHandle'[h] = allocByHandle[h]
<1>1. alloc.handle = nextHandle /\ alloc.size = BlockSize(n)
  BY DEF Allocation
<1>2. alloc.handle \notin DOMAIN allocByHandle
  BY <1>1 DEF PoolInv, HandlesOK, PoolNumbers
<1>3. /\ DOMAIN allocByHandle' = DOMAIN allocByHandle \cup {alloc.handle}
      /\ allocByHandle'[alloc.handle] = alloc
      /\ \A h \in DOMAIN allocByHandle : allocByHandle'[h] = allocByHandle[h]
  <2>1. allocByHandle' = [h \in DOMAIN allocByHandle \cup {nextHandle} |->
                            IF h = nextHandle THEN alloc ELSE allocByHandle[h]]
    BY DEF Malloc
  <2>. QED
    BY <1>1, <1>2, <2>1
<1>4. PoolInv'
  BY MallocPoolInv
<1>5. alloc \in HandleOf
  BY <1>3, <1>4 DEF PoolInv, HandlesOK
<1>. QED
  BY <1>1, <1>2, <1>3, <1>4, <1>5

LEMMA FreeTable ==
  ASSUME PoolInv, NEW alloc, alloc.handle \in DOMAIN allocByHandle,
         allocByHandle[alloc.handle] = alloc, Free(alloc)
  PROVE  /\ PoolInv' /\ DOMAIN allocByHandle' = DOMAIN allocByHandle \ {alloc.handle}
         /\ \A h \in DOMAIN allocByHandle' : allocByHandle'[h] = allocByHandle[h]
<1>1. PICK k \in DOMAIN allocByHandle : k = alloc.handle /\ alloc = allocByHandle[k]
  OBVIOUS
<1>2. Free(allocByHandle[k])
  BY <1>1
<1>3. PoolInv'
  BY <1>2, FreePoolInv
<1>. QED
  BY <1>3 DEF Free

-----------------------------------------------------------------------------
(* Walking keeps the invariant.                                            *)
LEMMA WalkInv ==
  ASSUME PlanInv, Walk
  PROVE  PlanInv'
<1>1. /\ UNCHANGED <<analysisVars, streaming>> /\ Analyzed /\ Placing'
      /\ \A t \in NodeOutputs : Standing(t)
      /\ \A w : Began(w)' <=> Began(w)
      /\ streaming => \A w \in Weights : Streamed(w)' <=> Streamed(w)
  BY WalkKeeps
<1>2. /\ IInv' /\ Found' /\ graph' = graph /\ streaming' = streaming /\ Steps' = Steps
      /\ NodeOutputs' = NodeOutputs /\ tensorToSlot' = tensorToSlot /\ slotSizes' = slotSizes
      /\ \A p : WeightsOf(p)' = WeightsOf(p)
  BY <1>1, AnalysisKept DEF PlanInv
<1>3. /\ weightAlloc' = weightAlloc /\ weightInfo' = weightInfo
      /\ slotAlloc' = slotAlloc /\ tensorInfo' = tensorInfo /\ tensorStep' = tensorStep
      /\ allocStep' = allocStep
      /\ UNCHANGED poolVars \/ Defragment
      /\ stepCount \in Nat => stepCount' \in Nat /\ stepCount <= stepCount'
  <2>1. CASE Start \/ NextNode("upFront") \/ NextNode("release") \/ WeightsDone \/ Validate
    BY <2>1 DEF Start, NextNode, WeightsDone, Validate, weightVars, tensorVars, stepVars
  <2>2. CASE Compute
    BY <2>2 DEF Compute, weightVars, tensorVars
  <2>3. CASE FreesDone
    <3>1. \/ UNCHANGED poolVars /\ stepCount' = stepCount
          \/ Defragment /\ stepCount' = stepCount + 1
      BY <2>3 DEF FreesDone
    <3>. QED
      BY <2>3, <3>1 DEF FreesDone, weightVars, tensorVars
  <2>. QED
    BY <2>1, <2>2, <2>3 DEF Walk
<1>4. PoolInv' /\ allocByHandle' = allocByHandle
  <2>1. PoolInv'
    BY <1>3, NextPoolInv DEF PlanInv, PoolNext
  <2>2. allocByHandle' = allocByHandle
    BY <1>3 DEF poolVars, Defragment
  <2>. QED
    BY <2>1, <2>2
<1>5. SlotsTaken'
  <2>1. \A t \in NodeOutputs : Alive(t)' <=> Alive(t)
    BY <1>1 DEF Alive, Standing
  <2>2. \A t : Occupies(t)' <=> Occupies(t)
    BY <1>2, <1>3 DEF Occupies
  <2>3. \A t \in NodeOutputs : Alive(t)' => Occupies(t)'
    BY <2>1, <2>2 DEF PlanInv, SlotsTaken
  <2>4. ASSUME NEW s \in DOMAIN slotAlloc
        PROVE  /\ Alive(slotAlloc[s].tensor)' /\ tensorToSlot[slotAlloc[s].tensor] = s
               /\ tensorInfo[slotAlloc[s].tensor].offset = slotAlloc[s].alloc.offset
               /\ slotAlloc[s].alloc.size = BlockSize(slotSizes[s])
    <3>1. PICK t : t = slotAlloc[s].tensor
      OBVIOUS
    <3>2. Alive(t) /\ t \in NodeOutputs
      BY <3>1 DEF PlanInv, SlotsTaken, Alive, Bound
    <3>3. Alive(t)'
      BY <2>1, <3>2
    <3>4. Alive(slotAlloc[s].tensor)'
      BY <1>3, <3>1, <3>3
    <3>. QED
      BY <3>4 DEF PlanInv, SlotsTaken
  <2>. QED
    BY <1>2, <1>3, <2>3, <2>4 DEF SlotsTaken
<1>6. WeightsLoaded'
  BY <1>1, <1>2, <1>3 DEF PlanInv, WeightsLoaded
<1>7. Owned'
  BY <1>3, <1>4 DEF PlanInv, Owned
<1>8. Recorded'
  <2>1. \A t \in NodeOutputs : Bound(t)' <=> Bound(t)
    BY <1>1 DEF Standing
  <2>2. \A t \in DOMAIN tensorInfo : t \in NodeOutputs /\ Bound(t)'
    <3>1. \A t \in DOMAIN tensorInfo : Bound(t) /\ t \in NodeOutputs
      BY DEF PlanInv, Recorded, Bound
    <3>. QED
      BY <2>1, <3>1
  <2>3. stepCount' \in Nat /\ stepCount <= stepCount' /\ stepCount \in Nat
    BY <1>3 DEF PlanInv, Recorded
  <2>4. \A y \in DOMAIN allocStep : allocStep[y] \in Nat /\ allocStep[y] < stepCount'
    BY <2>3 DEF PlanInv, Recorded
  <2>. QED
    BY <1>2, <1>3, <2>1, <2>2, <2>3, <2>4 DEF PlanInv, Recorded
<1>9. Bindings'
  <2>1. stepCount' \in Nat /\ stepCount <= stepCount' /\ stepCount \in Nat
    BY <1>3 DEF PlanInv, Recorded
  <2>2. N \in Nat /\ Steps = 1..N /\ node \in Nat
    BY <1>1, Analysis DEF PlanInv, Placing
  <2>3. CASE ~ Compute
    <3>1. compute' = compute
      BY <2>3 DEF Walk, Start, NextNode, WeightsDone, Validate, FreesDone, stepVars
    <3>2. Computed' = Computed
      <4>1. CASE Start
        <5>1. stage = "analyze" /\ stage' = "upFront" /\ node = 0 /\ node' = 0
          BY <4>1 DEF Start, Continue, PlanInv, Placing
        <5>. QED
          BY <1>2, <2>2, <5>1 DEF Computed, Ended
      <4>2. CASE NextNode("upFront") \/ NextNode("release")
        <5>1. /\ stage' = "weights" /\ node' = node + 1
              /\ stage = "release" \/ (stage = "upFront" /\ node = 0)
          BY <4>2 DEF NextNode, Continue, PlanInv, Placing
        <5>2. \A p \in Steps : p < node + 1 <=> (p < node \/ p = node)
          BY <2>2
        <5>3. node = 0 => \A p \in Steps : p # node
          BY <2>2
        <5>. QED
          BY <1>2, <5>1, <5>2, <5>3 DEF Computed, Ended
      <4>3. CASE WeightsDone
        BY <1>2, <4>3 DEF WeightsDone, Continue, Computed, Ended
      <4>4. CASE FreesDone
        BY <1>2, <4>4 DEF FreesDone, Continue, Computed, Ended
      <4>5. CASE Validate
        BY <1>2, <4>5 DEF Validate, Continue, Computed, Ended
      <4>. QED
        BY <2>3, <4>1, <4>2, <4>3, <4>4, <4>5 DEF Walk
    <3>3. \A p \in Computed : compute[p].step \in Nat /\ compute[p].step < stepCount'
      BY <2>1 DEF PlanInv, Bindings
    <3>. QED
      BY <1>2, <1>3, <3>1, <3>2, <3>3 DEF PlanInv, Bindings
  <2>4. CASE Compute
    <3>1. /\ stage = "bind" /\ stage' = "free" /\ node' = node /\ node \in Steps /\ pending = {}
          /\ stepCount' = stepCount + 1
          /\ compute' = With(compute, node, [step |-> stepCount, inputs |-> InputBindings(node),
                                             outputs |-> OutputBindings(node)])
      BY <2>4 DEF Compute, Continue, PlanInv, Placing, Body
    <3>2. Computed' = Computed \cup {node} /\ node \notin Computed
      BY <1>2, <2>2, <3>1 DEF Computed, Ended
    <3>3. /\ DOMAIN compute' = Computed \cup {node}
          /\ \A p \in Computed : compute'[p] = compute[p]
          /\ compute'[node].step = stepCount /\ compute'[node].inputs = InputBindings(node)
          /\ compute'[node].outputs = OutputBindings(node)
      BY <3>1, <3>2 DEF PlanInv, Bindings, With
    <3>4. ASSUME NEW t \in graph.nodes[node].inputs
          PROVE  /\ t \in Weights => /\ t \in DOMAIN weightInfo /\ InputBindings(node)[t] = weightInfo[t]
                                     /\ allocStep[t] <= stepCount
                 /\ t \in GraphInputs \ Weights => InputBindings(node)[t].size = SizeOf[t]
                 /\ t \notin Weights \cup GraphInputs =>
                      t \in DOMAIN tensorInfo /\ InputBindings(node)[t] = tensorInfo[t]
      <4>1. CASE t \in Weights
        <5>1. t \in WeightsOf(node)
          BY <3>4, <4>1 DEF WeightsOf
        <5>2. Began(t) /\ Wanted(t)
          BY <3>1, <5>1 DEF Began, Wanted
        <5>3. Streamed(t)
          BY <3>1, <4>1, <5>2 DEF Streamed
        <5>4. t \in DOMAIN weightAlloc
          BY <4>1, <5>2, <5>3 DEF PlanInv, WeightsLoaded
        <5>5. t \in DOMAIN weightInfo
          BY <5>4 DEF PlanInv, WeightsLoaded
        <5>6. InputBindings(node)[t] = weightInfo[t]
          BY <3>4, <4>1, <5>5 DEF InputBindings
        <5>7. t \in DOMAIN allocStep
          BY <5>5 DEF PlanInv, Recorded
        <5>8. allocStep[t] <= stepCount
          BY <2>1, <5>7 DEF PlanInv, Recorded
        <5>. QED
          BY <4>1, <5>5, <5>6, <5>8
      <4>2. CASE t \in GraphInputs \ Weights
        BY <3>4, <4>2 DEF InputBindings
      <4>3. CASE t \notin Weights \cup GraphInputs
        <5>1. t \in NodeOutputs
          <6>1. graph \in Graphs
            BY DEF PlanInv, IInv, TypeOK
          <6>2. t \in UNION {graph.nodes[q].outputs : q \in 1..(node - 1)}
            BY <3>1, <3>4, <4>3, <6>1, PlanAssumption DEF Steps
          <6>3. PICK q \in 1..(node - 1) : t \in graph.nodes[q].outputs
            BY <6>2
          <6>4. q \in Steps
            BY <2>2, <3>1
          <6>. QED
            BY <6>3, <6>4 DEF NodeOutputs
        <5>2. First(t) < node
          BY <1>1, <3>1, <3>4, <5>1, Analysis DEF PlanInv
        <5>3. Bound(t)
          BY <3>1, <5>1, <5>2 DEF Bound, Body
        <5>4. t \in DOMAIN tensorInfo
          BY <5>1, <5>3 DEF PlanInv, Recorded
        <5>. QED
          BY <3>4, <4>3, <5>4 DEF InputBindings
      <4>. QED
        BY <4>1, <4>2, <4>3
    <3>5. ASSUME NEW o \in graph.nodes[node].outputs
          PROVE  /\ o \in DOMAIN tensorInfo /\ OutputBindings(node)[o] = tensorInfo[o]
                 /\ allocStep[o] <= stepCount
      <4>1. o \in NodeOutputs
        BY <3>1 DEF NodeOutputs
      <4>2. First(o) = node
        BY <1>1, <3>1, <4>1, Analysis DEF PlanInv
      <4>3. Bound(o)
        BY <3>1, <4>1, <4>2 DEF Bound, Body
      <4>4. o \in DOMAIN tensorInfo
        BY <4>1, <4>3 DEF PlanInv, Recorded
      <4>5. o \in DOMAIN allocStep
        BY <4>4 DEF PlanInv, Recorded
      <4>6. allocStep[o] <= stepCount
        BY <2>1, <4>5 DEF PlanInv, Recorded
      <4>. QED
        BY <4>4, <4>6 DEF OutputBindings
    <3>6. \A p \in Computed : compute[p].step \in Nat /\ compute[p].step < stepCount'
      BY <2>1 DEF PlanInv, Bindings
    <3>7. stepCount \in Nat /\ stepCount < stepCount'
      BY <2>1, <3>1
    <3>8. Computed' = Computed \cup {node} /\ DOMAIN compute' = Computed'
      BY <3>2, <3>3
    <3>9. ASSUME NEW p \in Computed'
          PROVE  /\ compute'[p].step \in Nat /\ compute'[p].step < stepCount'
                 /\ \A t \in graph.nodes[p].inputs :
                      /\ t \in Weights => /\ t \in DOMAIN weightInfo /\ compute'[p].inputs[t] = weightInfo[t]
                                          /\ allocStep[t] <= compute'[p].step
                      /\ t \in GraphInputs \ Weights => compute'[p].inputs[t].size = SizeOf[t]
                      /\ t \notin Weights \cup GraphInputs =>
                           t \in DOMAIN tensorInfo /\ compute'[p].inputs[t] = tensorInfo[t]
                 /\ \A o \in graph.nodes[p].outputs :
                      /\ o \in DOMAIN tensorInfo /\ compute'[p].outputs[o] = tensorInfo[o]
                      /\ (streaming \/ Weights \cap NodeOutputs = {}) => allocStep[o] <= compute'[p].step
      <4>1. CASE p \in Computed
        BY <3>3, <3>6, <4>1 DEF PlanInv, Bindings
      <4>2. CASE p = node
        BY <3>3, <3>4, <3>5, <3>7, <4>2
      <4>. QED
        BY <3>8, <4>1, <4>2
    <3>. QED
      BY <1>2, <1>3, <3>8, <3>9 DEF Bindings
  <2>. QED
    BY <2>3, <2>4
<1>. QED
  BY <1>1, <1>2, <1>4, <1>5, <1>6, <1>7, <1>8, <1>9 DEF PlanInv

-----------------------------------------------------------------------------
(* Visits that leave the tables of tensors alone.                          *)
LEMMA SlotsStay ==
  ASSUME PlanInv, NEW x, Visit(x), UNCHANGED <<analysisVars, streaming, stage, node>>,
         stage \notin {"bind", "free"}, UNCHANGED <<slotAlloc, tensorInfo>>
  PROVE  SlotsTaken' /\ \A t : Bound(t)' <=> Bound(t)
<1>1. /\ Analyzed
      /\ \A t \in NodeOutputs : /\ Bound(t)' <=> (Bound(t) \/ (stage = "bind" /\ t = x))
                                /\ Gone(t)' <=> (Gone(t) \/ (stage = "free" /\ t = x))
  BY VisitKeeps
<1>2. /\ NodeOutputs' = NodeOutputs /\ tensorToSlot' = tensorToSlot /\ slotSizes' = slotSizes
  BY <1>1, AnalysisKept DEF PlanInv
<1>3. \A t : Bound(t)' <=> Bound(t)
  <2>1. \A t \in NodeOutputs : Bound(t)' <=> Bound(t)
    BY <1>1
  <2>. QED
    BY <1>2, <2>1 DEF Bound
<1>4. \A t \in NodeOutputs : Alive(t)' <=> Alive(t)
  BY <1>1 DEF Alive
<1>5. \A t : Occupies(t)' <=> Occupies(t)
  BY <1>2 DEF Occupies
<1>6. ASSUME NEW s \in DOMAIN slotAlloc
      PROVE  /\ Alive(slotAlloc[s].tensor)' /\ tensorToSlot[slotAlloc[s].tensor] = s
             /\ tensorInfo[slotAlloc[s].tensor].offset = slotAlloc[s].alloc.offset
             /\ slotAlloc[s].alloc.size = BlockSize(slotSizes[s])
  <2>1. PICK t : t = slotAlloc[s].tensor
    OBVIOUS
  <2>2. Alive(t) /\ t \in NodeOutputs
    BY <2>1 DEF PlanInv, SlotsTaken, Alive, Bound
  <2>3. Alive(t)'
    BY <1>4, <2>2
  <2>4. Alive(slotAlloc[s].tensor)'
    BY <2>1, <2>3
  <2>. QED
    BY <2>4 DEF PlanInv, SlotsTaken
<1>7. SlotsTaken'
  BY <1>2, <1>4, <1>5, <1>6 DEF PlanInv, SlotsTaken
<1>. QED
  BY <1>3, <1>7

(* The tables of the compute steps stand while nothing they name changes.  *)
LEMMA BindingsStay ==
  ASSUME PlanInv, Analyzed, UNCHANGED <<analysisVars, streaming, stage, node>>,
         compute' = compute, stepCount \in Nat, stepCount' \in Nat, stepCount <= stepCount',
         DOMAIN weightInfo \subseteq DOMAIN weightInfo', DOMAIN tensorInfo \subseteq DOMAIN tensorInfo',
         \A p \in Computed : \A t \in graph.nodes[p].inputs :
           /\ t \in Weights => weightInfo'[t] = weightInfo[t] /\ allocStep'[t] = allocStep[t]
           /\ t \notin Weights \cup GraphInputs => tensorInfo'[t] = tensorInfo[t],
         \A p \in Computed : \A o \in graph.nodes[p].outputs :
           /\ tensorInfo'[o] = tensorInfo[o]
           /\ (streaming \/ Weights \cap NodeOutputs = {}) => allocStep'[o] = allocStep[o]
  PROVE  Bindings'
<1>1. graph' = graph /\ streaming' = streaming /\ Steps' = Steps /\ NodeOutputs' = NodeOutputs
  BY AnalysisKept DEF PlanInv
<1>2. Computed' = Computed
  BY <1>1 DEF Computed
<1>3. ASSUME NEW p \in Computed
      PROVE  /\ compute[p].step \in Nat /\ compute[p].step < stepCount'
             /\ \A t \in graph.nodes[p].inputs :
                  /\ t \in Weights => /\ t \in DOMAIN weightInfo' /\ compute[p].inputs[t] = weightInfo'[t]
                                      /\ allocStep'[t] <= compute[p].step
                  /\ t \in GraphInputs \ Weights => compute[p].inputs[t].size = SizeOf[t]
                  /\ t \notin Weights \cup GraphInputs =>
                       t \in DOMAIN tensorInfo' /\ compute[p].inputs[t] = tensorInfo'[t]
             /\ \A o \in graph.nodes[p].outputs :
                  /\ o \in DOMAIN tensorInfo' /\ compute[p].outputs[o] = tensorInfo'[o]
                  /\ (streaming \/ Weights \cap NodeOutputs = {}) => allocStep'[o] <= compute[p].step
  <2>1. compute[p].step \in Nat /\ compute[p].step < stepCount
    BY DEF PlanInv, Bindings
  <2>2. compute[p].step < stepCount'
    BY <2>1
  <2>3. ASSUME NEW t \in graph.nodes[p].inputs
        PROVE  /\ t \in Weights => /\ t \in DOMAIN weightInfo' /\ compute[p].inputs[t] = weightInfo'[t]
                                   /\ allocStep'[t] <= compute[p].step
               /\ t \in GraphInputs \ Weights => compute[p].inputs[t].size = SizeOf[t]
               /\ t \notin Weights \cup GraphInputs =>
                    t \in DOMAIN tensorInfo' /\ compute[p].inputs[t] = tensorInfo'[t]
    BY DEF PlanInv, Bindings
  <2>4. ASSUME NEW o \in graph.nodes[p].outputs
        PROVE  /\ o \in DOMAIN tensorInfo' /\ compute[p].outputs[o] = tensorInfo'[o]
               /\ (streaming \/ Weights \cap NodeOutputs = {}) => allocStep'[o] <= compute[p].step
    BY DEF PlanInv, Bindings
  <2>. QED
    BY <2>1, <2>2, <2>3, <2>4
<1>4. DOMAIN compute' = Computed'
  BY <1>2 DEF PlanInv, Bindings
<1>. QED
  BY <1>1, <1>2, <1>3, <1>4 DEF Bindings

(* A weight that has been read by a node that computed is on the device    *)
(* until its last reader is through.                                       *)
LEMMA ReadWeightsStay ==
  ASSUME PlanInv, NEW w \in Weights, stage \in {"upFront", "weights"},
         w \in pending, w \notin DOMAIN weightAlloc
  PROVE  /\ \A p \in Computed : w \notin graph.nodes[p].inputs
         /\ (streaming \/ Weights \cap NodeOutputs = {}) =>
              \A p \in Computed : w \notin graph.nodes[p].outputs
<1>1. Analyzed /\ stage \notin Ended
  BY DEF PlanInv, Placing, Ended
<1>2. N \in Nat /\ Steps = 1..N /\ node \in Nat
  BY <1>1, Analysis DEF PlanInv, Placing
<1>3. \A p \in Computed : p \in Steps /\ p < node
  BY <1>1 DEF Computed, Ended
<1>4. ASSUME NEW p \in Computed, w \in graph.nodes[p].inputs PROVE FALSE
  <2>1. w \in WeightsOf(p) /\ p \in Steps /\ p < node
    BY <1>3, <1>4 DEF WeightsOf
  <2>2. Began(w)
    BY <2>1 DEF Began
  <2>3. streaming
    BY <2>2 DEF PlanInv, WeightsLoaded
  <2>4. stage = "weights" /\ w \in WeightsOf(node)
    <3>1. stage # "upFront"
      BY <1>2, <2>1 DEF PlanInv, Placing
    <3>. QED
      BY <2>3, <3>1 DEF PlanInv, Placing, UploadsAt
  <2>5. Wanted(w)
    <3>1. node \in Steps
      BY <2>4 DEF PlanInv, Placing, Body
    <3>. QED
      BY <2>4, <3>1 DEF Wanted
  <2>6. Streamed(w)
    BY <2>2, <2>4, <2>5 DEF Streamed
  <2>. QED
    BY <2>3, <2>6 DEF PlanInv, WeightsLoaded
<1>5. ASSUME streaming \/ Weights \cap NodeOutputs = {}, NEW p \in Computed, w \in graph.nodes[p].outputs
      PROVE  FALSE
  <2>1. w \in NodeOutputs /\ streaming /\ p \in Steps /\ p < node
    BY <1>3, <1>5 DEF NodeOutputs
  <2>2. stage = "weights"
    BY <1>2, <2>1 DEF PlanInv, Placing
  <2>3. Streamed(w)
    BY <2>1, <2>2 DEF Streamed
  <2>. QED
    BY <2>1, <2>3 DEF PlanInv, WeightsLoaded
<1>. QED
  BY <1>4, <1>5

(* upload_weight keeps the invariant.                                      *)
LEMMA UploadInv ==
  ASSUME PlanInv, NEW w, Upload(w)
  PROVE  PlanInv'
<1>1. /\ stage \in {"upFront", "weights"} /\ Visit(w) /\ UNCHANGED <<analysisVars, streaming, stage, node>>
      /\ w \notin DOMAIN weightAlloc /\ w \in pending
  BY DEF Upload, Inside, Visit
<1>2. /\ Analyzed /\ Placing'
      /\ \A v : Began(v)' <=> (Began(v) \/ (stage = "weights" /\ v = w /\ v \in WeightsOf(node)))
      /\ streaming => \A v \in Weights : Streamed(v)' <=> (Streamed(v) \/ v = w)
  BY <1>1, VisitKeeps
<1>3. /\ IInv' /\ Found' /\ graph' = graph /\ streaming' = streaming /\ Steps' = Steps
      /\ NodeOutputs' = NodeOutputs /\ \A p : WeightsOf(p)' = WeightsOf(p)
  BY <1>1, <1>2, AnalysisKept DEF PlanInv
<1>4. /\ w \in Weights /\ w \in Tensor
      /\ ~ streaming => \E p \in Steps : w \in WeightsOf(p)
  <2>1. CASE stage = "upFront"
    BY <1>1, <2>1, PlanAssumption DEF PlanInv, Placing, UpFront
  <2>2. CASE stage = "weights"
    <3>1. w \in UploadsAt(node) /\ node \in Steps
      BY <1>1, <2>2 DEF PlanInv, Placing, Body
    <3>. QED
      BY <3>1, PlanAssumption DEF UploadsAt, WeightsOf
  <2>. QED
    BY <1>1, <2>1, <2>2
<1>5. SizeOf[w] \in Requests /\ SizeOf[w] \in Nat /\ SizeOf[w] > 0
  BY <1>4, PlanAssumption, GraphsAssumption
<1>6. PICK a : a = Allocation(SizeOf[w])
  OBVIOUS
<1>7. /\ PoolInv' /\ a \in HandleOf /\ a.handle \notin DOMAIN allocByHandle
      /\ DOMAIN allocByHandle' = DOMAIN allocByHandle \cup {a.handle}
      /\ allocByHandle'[a.handle] = a
      /\ \A h \in DOMAIN allocByHandle : allocByHandle'[h] = allocByHandle[h]
  BY <1>5, <1>6, MallocTable DEF PlanInv, Upload
<1>8. /\ DOMAIN weightAlloc' = DOMAIN weightAlloc \cup {w} /\ weightAlloc'[w] = a
      /\ \A v \in DOMAIN weightAlloc : weightAlloc'[v] = weightAlloc[v]
  <2>1. weightAlloc' = With(weightAlloc, w, a)
    BY <1>6 DEF Upload
  <2>. QED
    BY <1>1, <2>1 DEF With
<1>9. /\ DOMAIN weightInfo' = DOMAIN weightInfo \cup {w}
      /\ weightInfo'[w].offset = a.offset /\ weightInfo'[w].size = SizeOf[w]
      /\ \A v \in DOMAIN weightInfo : v # w => weightInfo'[v] = weightInfo[v]
  <2>1. weightInfo' = With(weightInfo, w, [offset |-> a.offset, size |-> SizeOf[w]])
    BY <1>6 DEF Upload
  <2>. QED
    BY <2>1 DEF With
<1>10. /\ DOMAIN allocStep' = DOMAIN allocStep \cup {w} /\ allocStep'[w] = stepCount
       /\ \A v \in DOMAIN allocStep : v # w => allocStep'[v] = allocStep[v]
       /\ stepCount' = stepCount + 2
  BY DEF Upload, With
<1>11. /\ slotAlloc' = slotAlloc /\ tensorInfo' = tensorInfo /\ tensorStep' = tensorStep
       /\ compute' = compute
  BY DEF Upload, tensorVars
<1>12. SlotsTaken' /\ \A t : Bound(t)' <=> Bound(t)
  BY <1>1, <1>11, SlotsStay
<1>13. WeightsLoaded'
  <2>1. DOMAIN weightAlloc' \subseteq Weights
    BY <1>4, <1>8 DEF PlanInv, WeightsLoaded
  <2>2. streaming => \A v \in Weights : v \in DOMAIN weightAlloc' <=> Streamed(v)'
    BY <1>2, <1>8 DEF PlanInv, WeightsLoaded
  <2>3. ~ streaming => \A v \in Weights : Began(v)' => v \in DOMAIN weightAlloc'
    BY <1>2, <1>8 DEF PlanInv, WeightsLoaded
  <2>4. ~ streaming => \A v \in DOMAIN weightAlloc' : \E p \in Steps : v \in WeightsOf(p)
    BY <1>4, <1>8 DEF PlanInv, WeightsLoaded
  <2>5. \A v \in DOMAIN weightAlloc' :
          v \in DOMAIN weightInfo' /\ weightInfo'[v].offset = weightAlloc'[v].offset
    BY <1>1, <1>8, <1>9 DEF PlanInv, WeightsLoaded
  <2>. QED
    BY <1>3, <2>1, <2>2, <2>3, <2>4, <2>5 DEF WeightsLoaded
<1>14. Owned'
  <2>1. \A v \in DOMAIN weightAlloc' :
          /\ weightAlloc'[v].handle \in DOMAIN allocByHandle'
          /\ allocByHandle'[weightAlloc'[v].handle] = weightAlloc'[v]
    BY <1>7, <1>8 DEF PlanInv, Owned
  <2>2. \A s \in DOMAIN slotAlloc :
          /\ slotAlloc[s].alloc.handle \in DOMAIN allocByHandle'
          /\ allocByHandle'[slotAlloc[s].alloc.handle] = slotAlloc[s].alloc
    BY <1>7 DEF PlanInv, Owned
  <2>3. \A u, v \in DOMAIN weightAlloc' : weightAlloc'[u].handle = weightAlloc'[v].handle => u = v
    BY <1>7, <1>8 DEF PlanInv, Owned
  <2>4. \A s, r \in DOMAIN slotAlloc : slotAlloc[s].alloc.handle = slotAlloc[r].alloc.handle => s = r
    BY DEF PlanInv, Owned
  <2>5. \A v \in DOMAIN weightAlloc' : \A s \in DOMAIN slotAlloc :
          weightAlloc'[v].handle # slotAlloc[s].alloc.handle
    BY <1>7, <1>8 DEF PlanInv, Owned
  <2>6. \A h \in DOMAIN allocByHandle' :
          \/ \E v \in DOMAIN weightAlloc' : weightAlloc'[v].handle = h
          \/ \E s \in DOMAIN slotAlloc : slotAlloc[s].alloc.handle = h
    BY <1>7, <1>8 DEF PlanInv, Owned
  <2>. QED
    BY <1>11, <2>1, <2>2, <2>3, <2>4, <2>5, <2>6 DEF Owned
<1>15. stepCount \in Nat /\ stepCount' \in Nat /\ stepCount <= stepCount' /\ stepCount < stepCount'
  BY <1>10 DEF PlanInv, Recorded
<1>16. Recorded'
  <2>1. \A v \in DOMAIN weightInfo' :
          /\ v \in DOMAIN allocStep' /\ weightInfo'[v].offset >= 0 /\ weightInfo'[v].size > 0
          /\ weightInfo'[v].offset \in Nat /\ weightInfo'[v].size \in Nat
    <3>1. a.offset \in Nat
      BY <1>7 DEF HandleOf
    <3>. QED
      BY <1>5, <1>9, <1>10, <3>1 DEF PlanInv, Recorded
  <2>2. \A y \in DOMAIN allocStep' : allocStep'[y] \in Nat /\ allocStep'[y] < stepCount'
    BY <1>10, <1>15 DEF PlanInv, Recorded
  <2>3. \A t \in DOMAIN tensorInfo : t \in DOMAIN allocStep'
    BY <1>10 DEF PlanInv, Recorded
  <2>. QED
    BY <1>3, <1>11, <1>12, <1>15, <2>1, <2>2, <2>3 DEF PlanInv, Recorded
<1>17. Bindings'
  <2>1. /\ \A p \in Computed : w \notin graph.nodes[p].inputs
        /\ (streaming \/ Weights \cap NodeOutputs = {}) =>
             \A p \in Computed : w \notin graph.nodes[p].outputs
    BY <1>1, <1>4, ReadWeightsStay
  <2>2. \A p \in Computed : \A t \in graph.nodes[p].inputs :
          t \in Weights => weightInfo'[t] = weightInfo[t] /\ allocStep'[t] = allocStep[t]
    <3>1. \A p \in Computed : \A t \in graph.nodes[p].inputs : t \in Weights => t \in DOMAIN weightInfo
      BY DEF PlanInv, Bindings
    <3>2. \A t \in DOMAIN weightInfo : t \in DOMAIN allocStep
      BY DEF PlanInv, Recorded
    <3>. QED
      BY <1>9, <1>10, <2>1, <3>1, <3>2
  <2>3. \A p \in Computed : \A o \in graph.nodes[p].outputs :
          (streaming \/ Weights \cap NodeOutputs = {}) => allocStep'[o] = allocStep[o]
    <3>1. \A p \in Computed : \A o \in graph.nodes[p].outputs : o \in DOMAIN allocStep
      BY DEF PlanInv, Bindings, Recorded
    <3>. QED
      BY <1>10, <2>1, <3>1
  <2>. QED
    BY <1>1, <1>2, <1>9, <1>11, <1>15, <2>2, <2>3, BindingsStay
<1>. QED
  BY <1>2, <1>3, <1>7, <1>12, <1>13, <1>14, <1>16, <1>17 DEF PlanInv

(* A weight found on the device, and a weight given back.                  *)
LEMMA AlreadyUploadedInv ==
  ASSUME PlanInv, NEW w, AlreadyUploaded(w)
  PROVE  PlanInv'
<1>1. /\ stage \in {"upFront", "weights"} /\ Visit(w) /\ UNCHANGED <<analysisVars, streaming, stage, node>>
      /\ w \in DOMAIN weightAlloc
      /\ UNCHANGED <<poolVars, weightVars, tensorVars, stepVars>>
  BY DEF AlreadyUploaded, Inside
<1>2. /\ Analyzed /\ Placing'
      /\ \A v : Began(v)' <=> (Began(v) \/ (stage = "weights" /\ v = w /\ v \in WeightsOf(node)))
      /\ streaming => \A v \in Weights : Streamed(v)' <=> (Streamed(v) \/ v = w)
  BY <1>1, VisitKeeps
<1>3. /\ IInv' /\ Found' /\ graph' = graph /\ streaming' = streaming /\ Steps' = Steps
      /\ NodeOutputs' = NodeOutputs /\ \A p : WeightsOf(p)' = WeightsOf(p)
  BY <1>1, <1>2, AnalysisKept DEF PlanInv
<1>4. /\ weightAlloc' = weightAlloc /\ weightInfo' = weightInfo /\ slotAlloc' = slotAlloc
      /\ tensorInfo' = tensorInfo /\ tensorStep' = tensorStep /\ allocStep' = allocStep
      /\ stepCount' = stepCount /\ compute' = compute /\ allocByHandle' = allocByHandle
  BY <1>1 DEF weightVars, tensorVars, stepVars, poolVars
<1>5. PoolInv'
  BY <1>1, NextPoolInv DEF PlanInv
<1>6. SlotsTaken' /\ \A t : Bound(t)' <=> Bound(t)
  BY <1>1, <1>4, SlotsStay
<1>7. WeightsLoaded'
  <2>1. streaming => \A v \in Weights : v \in DOMAIN weightAlloc <=> Streamed(v)'
    BY <1>1, <1>2 DEF PlanInv, WeightsLoaded
  <2>2. ~ streaming => \A v \in Weights : Began(v)' => v \in DOMAIN weightAlloc
    BY <1>1, <1>2 DEF PlanInv, WeightsLoaded
  <2>. QED
    BY <1>3, <1>4, <2>1, <2>2 DEF PlanInv, WeightsLoaded
<1>8. Owned'
  BY <1>4 DEF PlanInv, Owned
<1>9. Recorded'
  BY <1>3, <1>4, <1>6 DEF PlanInv, Recorded
<1>10. Bindings'
  <2>1. stepCount \in Nat
    BY DEF PlanInv, Recorded
  <2>. QED
    BY <1>1, <1>2, <1>4, <2>1, BindingsStay
<1>. QED
  BY <1>2, <1>3, <1>5, <1>6, <1>7, <1>8, <1>9, <1>10 DEF PlanInv

LEMMA FreeWeightInv ==
  ASSUME PlanInv, NEW w, FreeWeight(w)
  PROVE  PlanInv'
<1>1. /\ stage = "release" /\ Visit(w) /\ UNCHANGED <<analysisVars, streaming, stage, node>>
      /\ w \in DOMAIN weightAlloc /\ w \in pending
  BY DEF FreeWeight, Inside, Visit
<1>2. /\ Analyzed /\ Placing'
      /\ \A v : Began(v)' <=> Began(v)
      /\ streaming => \A v \in Weights : Streamed(v)' <=> (Streamed(v) /\ v # w)
  BY <1>1, VisitKeeps
<1>3. /\ IInv' /\ Found' /\ graph' = graph /\ streaming' = streaming /\ Steps' = Steps
      /\ NodeOutputs' = NodeOutputs /\ \A p : WeightsOf(p)' = WeightsOf(p)
  BY <1>1, <1>2, AnalysisKept DEF PlanInv
<1>4. streaming
  BY <1>1 DEF PlanInv, Placing, Spent
<1>5. PICK a : a = weightAlloc[w]
  OBVIOUS
<1>6. a.handle \in DOMAIN allocByHandle /\ allocByHandle[a.handle] = a
  BY <1>1, <1>5 DEF PlanInv, Owned
<1>7. /\ PoolInv' /\ DOMAIN allocByHandle' = DOMAIN allocByHandle \ {a.handle}
      /\ \A h \in DOMAIN allocByHandle' : allocByHandle'[h] = allocByHandle[h]
  BY <1>5, <1>6, FreeTable DEF PlanInv, FreeWeight
<1>8. /\ DOMAIN weightAlloc' = DOMAIN weightAlloc \ {w}
      /\ \A v \in DOMAIN weightAlloc' : weightAlloc'[v] = weightAlloc[v]
  BY DEF FreeWeight, Without
<1>9. /\ slotAlloc' = slotAlloc /\ tensorInfo' = tensorInfo /\ tensorStep' = tensorStep
      /\ weightInfo' = weightInfo /\ allocStep' = allocStep /\ compute' = compute
      /\ stepCount' = stepCount + 1
  BY DEF FreeWeight, tensorVars
<1>10. SlotsTaken' /\ \A t : Bound(t)' <=> Bound(t)
  BY <1>1, <1>9, SlotsStay
<1>11. WeightsLoaded'
  <2>1. \A v \in Weights : v \in DOMAIN weightAlloc' <=> Streamed(v)'
    BY <1>2, <1>4, <1>8 DEF PlanInv, WeightsLoaded
  <2>. QED
    BY <1>3, <1>4, <1>8, <1>9, <2>1 DEF PlanInv, WeightsLoaded
<1>12. Owned'
  <2>1. \A v \in DOMAIN weightAlloc' :
          /\ weightAlloc'[v].handle \in DOMAIN allocByHandle'
          /\ allocByHandle'[weightAlloc'[v].handle] = weightAlloc'[v]
    BY <1>1, <1>5, <1>7, <1>8 DEF PlanInv, Owned
  <2>2. \A s \in DOMAIN slotAlloc :
          /\ slotAlloc[s].alloc.handle \in DOMAIN allocByHandle'
          /\ allocByHandle'[slotAlloc[s].alloc.handle] = slotAlloc[s].alloc
    BY <1>1, <1>5, <1>7 DEF PlanInv, Owned
  <2>3. \A u, v \in DOMAIN weightAlloc' : weightAlloc'[u].handle = weightAlloc'[v].handle => u = v
    BY <1>8 DEF PlanInv, Owned
  <2>4. \A s, r \in DOMAIN slotAlloc : slotAlloc[s].alloc.handle = slotAlloc[r].alloc.handle => s = r
    BY DEF PlanInv, Owned
  <2>5. \A v \in DOMAIN weightAlloc' : \A s \in DOMAIN slotAlloc :
          weightAlloc'[v].handle # slotAlloc[s].alloc.handle
    BY <1>8 DEF PlanInv, Owned
  <2>6. \A h \in DOMAIN allocByHandle' :
          \/ \E v \in DOMAIN weightAlloc' : weightAlloc'[v].handle = h
          \/ \E s \in DOMAIN slotAlloc : slotAlloc[s].alloc.handle = h
    BY <1>5, <1>7, <1>8 DEF PlanInv, Owned
  <2>. QED
    BY <1>9, <2>1, <2>2, <2>3, <2>4, <2>5, <2>6 DEF Owned
<1>13. stepCount \in Nat /\ stepCount' \in Nat /\ stepCount <= stepCount' /\ stepCount < stepCount'
  BY <1>9 DEF PlanInv, Recorded
<1>14. Recorded'
  <2>1. \A y \in DOMAIN allocStep : allocStep[y] \in Nat /\ allocStep[y] < stepCount'
    BY <1>13 DEF PlanInv, Recorded
  <2>. QED
    BY <1>3, <1>9, <1>10, <1>13, <2>1 DEF PlanInv, Recorded
<1>15. Bindings'
  BY <1>1, <1>2, <1>9, <1>13, BindingsStay
<1>. QED
  BY <1>2, <1>3, <1>7, <1>10, <1>11, <1>12, <1>14, <1>15 DEF PlanInv

(* A slot that two tensors share is empty when the second is bound.        *)
LEMMA SlotEmpty ==
  ASSUME PlanInv, NEW o \in graph.nodes[node].outputs, stage = "bind", o \in pending
  PROVE  /\ o \in NodeOutputs /\ First(o) = node /\ ~ Bound(o) /\ ~ Gone(o)
         /\ tensorToSlot[o] \notin DOMAIN slotAlloc
<1>1. Analyzed /\ node \in Steps /\ node \in Nat
  BY DEF PlanInv, Placing, Body
<1>2. o \in NodeOutputs
  BY <1>1 DEF NodeOutputs
<1>3. First(o) = node /\ LastUse(o) \in Nat /\ node <= LastUse(o)
  BY <1>1, <1>2, Analysis DEF PlanInv
<1>4. ~ Bound(o) /\ ~ Gone(o)
  BY <1>1, <1>3 DEF Bound, Gone, Ended
<1>5. ASSUME tensorToSlot[o] \in DOMAIN slotAlloc PROVE FALSE
  <2>1. PICK t : t = slotAlloc[tensorToSlot[o]].tensor
    OBVIOUS
  <2>2. Alive(t) /\ tensorToSlot[t] = tensorToSlot[o]
    BY <1>5, <2>1 DEF PlanInv, SlotsTaken
  <2>3. t \in NodeOutputs /\ t # o
    BY <1>4, <2>2 DEF Alive, Bound
  <2>4. LastUse(t) < First(o) \/ LastUse(o) < First(t)
    BY <1>1, <1>2, <2>2, <2>3, Analysis DEF PlanInv
  <2>5. First(t) \in Nat /\ LastUse(t) \in Nat
    <3>1. First(t) \in Steps /\ LastUse(t) \in Nat /\ N \in Nat /\ Steps = 1..N
      BY <1>1, <2>3, Analysis DEF PlanInv
    <3>. QED
      BY <3>1
  <2>6. First(t) <= node /\ ~ (LastUse(t) < node)
    BY <1>1, <2>2, <2>5 DEF Alive, Bound, Gone
  <2>. QED
    BY <1>1, <1>3, <2>4, <2>5, <2>6
<1>. QED
  BY <1>2, <1>3, <1>4, <1>5

(* Binding an output keeps the invariant.                                  *)
LEMMA BindInv ==
  ASSUME PlanInv, NEW o, Bind(o)
  PROVE  PlanInv'
<1>1. /\ stage = "bind" /\ Visit(o) /\ UNCHANGED <<analysisVars, streaming, stage, node>> /\ o \in pending
      /\ weightAlloc' = weightAlloc /\ weightInfo' = weightInfo /\ compute' = compute
  BY DEF Bind, Inside, Visit, weightVars
<1>2. /\ Analyzed /\ Placing'
      /\ \A t \in NodeOutputs : /\ Bound(t)' <=> (Bound(t) \/ t = o)
                                /\ Gone(t)' <=> Gone(t)
      /\ \A v : Began(v)' <=> Began(v)
      /\ streaming => \A v \in Weights : Streamed(v)' <=> Streamed(v)
  BY <1>1, VisitKeeps
<1>3. /\ IInv' /\ Found' /\ graph' = graph /\ streaming' = streaming /\ Steps' = Steps
      /\ NodeOutputs' = NodeOutputs /\ tensorToSlot' = tensorToSlot /\ slotSizes' = slotSizes
      /\ \A p : WeightsOf(p)' = WeightsOf(p)
  BY <1>1, <1>2, AnalysisKept DEF PlanInv
<1>4. o \in graph.nodes[node].outputs /\ node \in Steps
  BY <1>1 DEF PlanInv, Placing, Body
<1>5. /\ o \in NodeOutputs /\ First(o) = node /\ ~ Bound(o) /\ ~ Gone(o)
      /\ tensorToSlot[o] \notin DOMAIN slotAlloc
  BY <1>1, <1>4, SlotEmpty
<1>6. PICK slot : slot = tensorToSlot[o]
  OBVIOUS
<1>7. PICK n \in Requests : n = BufferBytes(o) /\ n = slotSizes[slot] /\ n \in Nat
  <2>1. slotSizes[tensorToSlot[o]] \in Requests
    BY <1>2, <1>5, Analysis DEF PlanInv
  <2>. QED
    BY <1>6, <2>1, PoolAssumption DEF BufferBytes
<1>8. PICK a : a = Allocation(n)
  OBVIOUS
<1>9. PICK info : info = [slot |-> slot, offset |-> a.offset, size |-> a.size]
  OBVIOUS
<1>10. /\ Malloc(n) /\ tensorInfo' = With(tensorInfo, o, info)
       /\ slotAlloc' = With(slotAlloc, slot, [tensor |-> o, alloc |-> a])
       /\ tensorStep' = With(tensorStep, o, info)
       /\ allocStep' = With(allocStep, o, stepCount) /\ stepCount' = stepCount + 1
  BY <1>5, <1>6, <1>7, <1>8, <1>9, Zenon DEF Bind
<1>11. /\ PoolInv' /\ a \in HandleOf /\ a.handle \notin DOMAIN allocByHandle
       /\ DOMAIN allocByHandle' = DOMAIN allocByHandle \cup {a.handle}
       /\ allocByHandle'[a.handle] = a /\ a.size = BlockSize(n)
       /\ \A h \in DOMAIN allocByHandle : allocByHandle'[h] = allocByHandle[h]
  BY <1>8, <1>10, MallocTable DEF PlanInv
<1>12. /\ DOMAIN slotAlloc' = DOMAIN slotAlloc \cup {slot}
       /\ slotAlloc'[slot].tensor = o /\ slotAlloc'[slot].alloc = a
       /\ \A s \in DOMAIN slotAlloc : slotAlloc'[s] = slotAlloc[s] /\ s # slot
  BY <1>5, <1>6, <1>10 DEF With
<1>13. /\ DOMAIN tensorInfo' = DOMAIN tensorInfo \cup {o} /\ o \notin DOMAIN tensorInfo
       /\ tensorInfo'[o] = info
       /\ \A t \in DOMAIN tensorInfo : tensorInfo'[t] = tensorInfo[t]
  BY <1>5, <1>10 DEF With, PlanInv, Recorded
<1>14. /\ o \in DOMAIN tensorStep' /\ tensorStep'[o] = info
       /\ \A t \in DOMAIN tensorInfo : t \in DOMAIN tensorStep' /\ tensorStep'[t] = tensorStep[t]
  BY <1>10, <1>13 DEF With, PlanInv, Recorded
<1>15. /\ DOMAIN allocStep' = DOMAIN allocStep \cup {o} /\ allocStep'[o] = stepCount
       /\ \A y \in DOMAIN allocStep : y # o => allocStep'[y] = allocStep[y]
  BY <1>10 DEF With
<1>16. a.offset \in Nat /\ a.size \in Nat /\ a.size > 0 /\ info.offset = a.offset /\ info.size = a.size
  BY <1>9, <1>11 DEF HandleOf
<1>17. SlotsTaken'
  <2>1. \A t \in NodeOutputs : Alive(t)' <=> (Alive(t) \/ t = o)
    BY <1>2, <1>5 DEF Alive
  <2>2. ASSUME NEW t \in NodeOutputs, Alive(t)' PROVE Occupies(t)'
    <3>1. CASE t = o
      BY <1>3, <1>6, <1>12, <3>1 DEF Occupies
    <3>2. CASE t # o
      <4>1. Occupies(t)
        BY <2>1, <2>2, <3>2 DEF PlanInv, SlotsTaken
      <4>. QED
        BY <1>3, <1>12, <4>1 DEF Occupies
    <3>. QED
      BY <3>1, <3>2
  <2>3. ASSUME NEW s \in DOMAIN slotAlloc'
        PROVE  /\ Alive(slotAlloc[s].tensor)' /\ tensorToSlot[slotAlloc'[s].tensor] = s
               /\ tensorInfo'[slotAlloc'[s].tensor].offset = slotAlloc'[s].alloc.offset
               /\ slotAlloc'[s].alloc.size = BlockSize(slotSizes[s])
    <3>1. CASE s = slot
      <4>1. Alive(o)'
        BY <1>5, <2>1
      <4>2. slotAlloc'[s].tensor = o /\ slotAlloc'[s].alloc = a
        BY <1>12, <3>1
      <4>3. Alive(slotAlloc[s].tensor)'
        BY <4>1, <4>2
      <4>. QED
        BY <1>6, <1>7, <1>11, <1>13, <1>16, <3>1, <4>2, <4>3
    <3>2. CASE s # slot
      <4>1. s \in DOMAIN slotAlloc /\ slotAlloc'[s] = slotAlloc[s]
        BY <1>12, <2>3, <3>2
      <4>2. PICK t : t = slotAlloc[s].tensor
        OBVIOUS
      <4>3. Alive(t) /\ t \in NodeOutputs /\ Bound(t)
        BY <4>1, <4>2 DEF PlanInv, SlotsTaken, Alive, Bound
      <4>4. Alive(t)'
        BY <2>1, <4>3
      <4>5. Alive(slotAlloc[s].tensor)'
        BY <4>1, <4>2, <4>4
      <4>6. t \in DOMAIN tensorInfo
        BY <4>3 DEF PlanInv, Recorded
      <4>7. tensorInfo'[t] = tensorInfo[t]
        BY <1>13, <4>6
      <4>. QED
        BY <4>1, <4>2, <4>5, <4>7 DEF PlanInv, SlotsTaken
    <3>. QED
      BY <3>1, <3>2
  <2>. QED
    BY <1>3, <2>2, <2>3 DEF SlotsTaken
<1>18. WeightsLoaded'
  BY <1>1, <1>2, <1>3 DEF PlanInv, WeightsLoaded
<1>19. Owned'
  <2>1. \A v \in DOMAIN weightAlloc :
          /\ weightAlloc[v].handle \in DOMAIN allocByHandle'
          /\ allocByHandle'[weightAlloc[v].handle] = weightAlloc[v]
    BY <1>11 DEF PlanInv, Owned
  <2>2. \A s \in DOMAIN slotAlloc' :
          /\ slotAlloc'[s].alloc.handle \in DOMAIN allocByHandle'
          /\ allocByHandle'[slotAlloc'[s].alloc.handle] = slotAlloc'[s].alloc
    BY <1>11, <1>12 DEF PlanInv, Owned
  <2>3. \A u, v \in DOMAIN weightAlloc : weightAlloc[u].handle = weightAlloc[v].handle => u = v
    BY DEF PlanInv, Owned
  <2>4. \A s, r \in DOMAIN slotAlloc' : slotAlloc'[s].alloc.handle = slotAlloc'[r].alloc.handle => s = r
    BY <1>11, <1>12 DEF PlanInv, Owned
  <2>5. \A v \in DOMAIN weightAlloc : \A s \in DOMAIN slotAlloc' :
          weightAlloc[v].handle # slotAlloc'[s].alloc.handle
    BY <1>11, <1>12 DEF PlanInv, Owned
  <2>6. \A h \in DOMAIN allocByHandle' :
          \/ \E v \in DOMAIN weightAlloc : weightAlloc[v].handle = h
          \/ \E s \in DOMAIN slotAlloc' : slotAlloc'[s].alloc.handle = h
    BY <1>11, <1>12 DEF PlanInv, Owned
  <2>. QED
    BY <1>1, <2>1, <2>2, <2>3, <2>4, <2>5, <2>6 DEF Owned
<1>20. stepCount \in Nat /\ stepCount' \in Nat /\ stepCount <= stepCount' /\ stepCount < stepCount'
  BY <1>10 DEF PlanInv, Recorded
<1>21. Recorded'
  <2>1. \A v \in DOMAIN weightInfo : v \in DOMAIN allocStep'
    BY <1>15 DEF PlanInv, Recorded
  <2>2. \A y \in DOMAIN allocStep' : allocStep'[y] \in Nat /\ allocStep'[y] < stepCount'
    BY <1>15, <1>20 DEF PlanInv, Recorded
  <2>3. ASSUME NEW t \in DOMAIN tensorInfo'
        PROVE  /\ Bound(t)' /\ t \in DOMAIN allocStep' /\ t \in DOMAIN tensorStep'
               /\ tensorStep'[t] = tensorInfo'[t]
               /\ tensorInfo'[t].offset \in Nat /\ tensorInfo'[t].size \in Nat
               /\ tensorInfo'[t].size > 0
    <3>1. CASE t = o
      BY <1>2, <1>5, <1>13, <1>14, <1>15, <1>16, <3>1
    <3>2. CASE t # o
      <4>1. t \in DOMAIN tensorInfo /\ Bound(t) /\ t \in NodeOutputs
        BY <1>13, <2>3, <3>2 DEF PlanInv, Recorded, Bound
      <4>2. Bound(t)'
        BY <1>2, <4>1
      <4>. QED
        BY <1>13, <1>14, <1>15, <4>1, <4>2 DEF PlanInv, Recorded
    <3>. QED
      BY <3>1, <3>2
  <2>4. \A t \in NodeOutputs : Bound(t)' => t \in DOMAIN tensorInfo'
    BY <1>2, <1>13 DEF PlanInv, Recorded
  <2>. QED
    BY <1>1, <1>3, <1>20, <2>1, <2>2, <2>3, <2>4 DEF PlanInv, Recorded
<1>22. Bindings'
  <2>1. node \in Nat /\ \A p \in Computed : p \in Steps /\ p < node
    BY <1>1 DEF PlanInv, Placing, Computed, Ended
  <2>2. \A p \in Computed : o \notin graph.nodes[p].inputs
    <3>1. \A p \in Steps : o \in graph.nodes[p].inputs => node < p
      BY <1>2, <1>5, Analysis DEF PlanInv
    <3>2. \A p \in Steps : p \in Nat
      BY <1>2, Analysis DEF PlanInv
    <3>. QED
      BY <2>1, <3>1, <3>2
  <2>3. \A p \in Computed : o \notin graph.nodes[p].outputs
    <3>1. \A p \in Steps : o \in graph.nodes[p].outputs => p = node
      BY <1>2, <1>5, Analysis DEF PlanInv
    <3>. QED
      BY <2>1, <3>1
  <2>4. \A p \in Computed : \A t \in graph.nodes[p].inputs :
          /\ t \in Weights => allocStep'[t] = allocStep[t]
          /\ t \notin Weights \cup GraphInputs => tensorInfo'[t] = tensorInfo[t]
    <3>1. \A p \in Computed : \A t \in graph.nodes[p].inputs :
            /\ t \in Weights => t \in DOMAIN allocStep
            /\ t \notin Weights \cup GraphInputs => t \in DOMAIN tensorInfo
      BY DEF PlanInv, Bindings, Recorded
    <3>. QED
      BY <1>13, <1>15, <2>2, <3>1
  <2>5. \A p \in Computed : \A y \in graph.nodes[p].outputs :
          tensorInfo'[y] = tensorInfo[y] /\ allocStep'[y] = allocStep[y]
    <3>1. \A p \in Computed : \A y \in graph.nodes[p].outputs : y \in DOMAIN tensorInfo /\ y \in DOMAIN allocStep
      BY DEF PlanInv, Bindings, Recorded
    <3>. QED
      BY <1>13, <1>15, <2>3, <3>1
  <2>. QED
    BY <1>1, <1>2, <1>13, <1>20, <2>4, <2>5, BindingsStay
<1>. QED
  BY <1>2, <1>3, <1>11, <1>17, <1>18, <1>19, <1>21, <1>22 DEF PlanInv

(* A death finds its tensor in its slot.                                   *)
LEMMA DyingOccupies ==
  ASSUME PlanInv, stage = "free", NEW t \in pending
  PROVE  t \in NodeOutputs /\ Alive(t) /\ Occupies(t)
<1>1. Analyzed /\ node \in Steps /\ node \in Nat
  BY DEF PlanInv, Placing, Body
<1>2. t \in DOMAIN lifetimes /\ LastUse(t) = node
  BY DEF PlanInv, Placing, Dead, LastUse
<1>3. t \in NodeOutputs /\ First(t) \in Steps /\ First(t) <= node
  BY <1>1, <1>2, Analysis DEF PlanInv
<1>4. First(t) < node \/ First(t) = node
  <2>1. First(t) \in Nat
    BY <1>1, <1>3, Analysis DEF PlanInv
  <2>. QED
    BY <1>1, <1>3, <2>1
<1>5. Bound(t)
  BY <1>3, <1>4 DEF Bound, Body
<1>6. ~ Gone(t)
  BY <1>1, <1>2 DEF Gone, Ended
<1>. QED
  BY <1>3, <1>5, <1>6 DEF Alive, PlanInv, SlotsTaken

LEMMA FreeTensorInv ==
  ASSUME PlanInv, NEW x, FreeTensor(x)
  PROVE  PlanInv'
<1>1. /\ stage = "free" /\ Visit(x) /\ UNCHANGED <<analysisVars, streaming, stage, node>> /\ x \in pending
      /\ weightAlloc' = weightAlloc /\ weightInfo' = weightInfo /\ compute' = compute
      /\ tensorInfo' = tensorInfo /\ tensorStep' = tensorStep /\ allocStep' = allocStep
  BY DEF FreeTensor, Inside, Visit, weightVars
<1>2. /\ Analyzed /\ Placing'
      /\ \A t \in NodeOutputs : /\ Bound(t)' <=> Bound(t)
                                /\ Gone(t)' <=> (Gone(t) \/ t = x)
      /\ \A v : Began(v)' <=> Began(v)
      /\ streaming => \A v \in Weights : Streamed(v)' <=> Streamed(v)
  BY <1>1, VisitKeeps
<1>3. /\ IInv' /\ Found' /\ graph' = graph /\ streaming' = streaming /\ Steps' = Steps
      /\ NodeOutputs' = NodeOutputs /\ tensorToSlot' = tensorToSlot /\ slotSizes' = slotSizes
      /\ \A p : WeightsOf(p)' = WeightsOf(p)
  BY <1>1, <1>2, AnalysisKept DEF PlanInv
<1>4. x \in NodeOutputs /\ Alive(x) /\ Occupies(x)
  BY <1>1, DyingOccupies
<1>5. PICK slot : slot = tensorToSlot[x]
  OBVIOUS
<1>6. slot \in DOMAIN slotAlloc /\ slotAlloc[slot].tensor = x
  BY <1>4, <1>5 DEF Occupies
<1>7. PICK a : a = slotAlloc[slot].alloc
  OBVIOUS
<1>8. Free(a) /\ slotAlloc' = Without(slotAlloc, slot) /\ stepCount' = stepCount + 1
  BY <1>4, <1>5, <1>7, Zenon DEF FreeTensor
<1>9. a.handle \in DOMAIN allocByHandle /\ allocByHandle[a.handle] = a
  BY <1>6, <1>7 DEF PlanInv, Owned
<1>10. /\ PoolInv' /\ DOMAIN allocByHandle' = DOMAIN allocByHandle \ {a.handle}
       /\ \A h \in DOMAIN allocByHandle' : allocByHandle'[h] = allocByHandle[h]
  BY <1>8, <1>9, FreeTable DEF PlanInv
<1>11. /\ DOMAIN slotAlloc' = DOMAIN slotAlloc \ {slot}
       /\ \A s \in DOMAIN slotAlloc' : slotAlloc'[s] = slotAlloc[s] /\ s \in DOMAIN slotAlloc /\ s # slot
  BY <1>8 DEF Without
<1>12. \A t : Bound(t)' <=> Bound(t)
  <2>1. \A t : (Bound(t) => t \in NodeOutputs) /\ (Bound(t)' => t \in NodeOutputs)
    BY <1>3 DEF Bound
  <2>. QED
    BY <1>2, <2>1
<1>13. SlotsTaken'
  <2>1. \A t \in NodeOutputs : Alive(t)' <=> (Alive(t) /\ t # x)
    BY <1>2 DEF Alive
  <2>2. ASSUME NEW t \in NodeOutputs, Alive(t)' PROVE Occupies(t)'
    <3>1. t # x /\ Occupies(t)
      BY <2>1, <2>2 DEF PlanInv, SlotsTaken
    <3>2. tensorToSlot[t] # slot
      BY <1>6, <3>1 DEF Occupies
    <3>. QED
      BY <1>3, <1>11, <3>1, <3>2 DEF Occupies
  <2>3. ASSUME NEW s \in DOMAIN slotAlloc'
        PROVE  /\ Alive(slotAlloc[s].tensor)' /\ tensorToSlot[slotAlloc'[s].tensor] = s
               /\ tensorInfo[slotAlloc'[s].tensor].offset = slotAlloc'[s].alloc.offset
               /\ slotAlloc'[s].alloc.size = BlockSize(slotSizes[s])
    <3>1. s \in DOMAIN slotAlloc /\ slotAlloc'[s] = slotAlloc[s] /\ s # slot
      BY <1>11, <2>3
    <3>2. PICK t : t = slotAlloc[s].tensor
      OBVIOUS
    <3>3. Alive(t) /\ t \in NodeOutputs /\ tensorToSlot[t] = s
      BY <3>1, <3>2 DEF PlanInv, SlotsTaken, Alive, Bound
    <3>4. t # x
      BY <1>5, <3>1, <3>3
    <3>5. Alive(t)'
      BY <2>1, <3>3, <3>4
    <3>6. Alive(slotAlloc[s].tensor)'
      BY <3>1, <3>2, <3>5
    <3>. QED
      BY <3>1, <3>6 DEF PlanInv, SlotsTaken
  <2>. QED
    BY <1>1, <1>3, <2>2, <2>3 DEF SlotsTaken
<1>14. WeightsLoaded'
  BY <1>1, <1>2, <1>3 DEF PlanInv, WeightsLoaded
<1>15. Owned'
  <2>1. \A v \in DOMAIN weightAlloc :
          /\ weightAlloc[v].handle \in DOMAIN allocByHandle'
          /\ allocByHandle'[weightAlloc[v].handle] = weightAlloc[v]
    BY <1>6, <1>7, <1>10 DEF PlanInv, Owned
  <2>2. \A s \in DOMAIN slotAlloc' :
          /\ slotAlloc'[s].alloc.handle \in DOMAIN allocByHandle'
          /\ allocByHandle'[slotAlloc'[s].alloc.handle] = slotAlloc'[s].alloc
    BY <1>6, <1>7, <1>10, <1>11 DEF PlanInv, Owned
  <2>3. \A u, v \in DOMAIN weightAlloc : weightAlloc[u].handle = weightAlloc[v].handle => u = v
    BY DEF PlanInv, Owned
  <2>4. \A s, r \in DOMAIN slotAlloc' : slotAlloc'[s].alloc.handle = slotAlloc'[r].alloc.handle => s = r
    BY <1>11 DEF PlanInv, Owned
  <2>5. \A v \in DOMAIN weightAlloc : \A s \in DOMAIN slotAlloc' :
          weightAlloc[v].handle # slotAlloc'[s].alloc.handle
    BY <1>11 DEF PlanInv, Owned
  <2>6. \A h \in DOMAIN allocByHandle' :
          \/ \E v \in DOMAIN weightAlloc : weightAlloc[v].handle = h
          \/ \E s \in DOMAIN slotAlloc' : slotAlloc'[s].alloc.handle = h
    BY <1>7, <1>10, <1>11 DEF PlanInv, Owned
  <2>. QED
    BY <1>1, <2>1, <2>2, <2>3, <2>4, <2>5, <2>6 DEF Owned
<1>16. stepCount \in Nat /\ stepCount' \in Nat /\ stepCount <= stepCount' /\ stepCount < stepCount'
  BY <1>8 DEF PlanInv, Recorded
<1>17. Recorded'
  <2>1. \A y \in DOMAIN allocStep : allocStep[y] \in Nat /\ allocStep[y] < stepCount'
    BY <1>16 DEF PlanInv, Recorded
  <2>. QED
    BY <1>1, <1>3, <1>12, <1>16, <2>1 DEF PlanInv, Recorded
<1>18. Bindings'
  BY <1>1, <1>2, <1>16, BindingsStay
<1>. QED
  BY <1>2, <1>3, <1>10, <1>13, <1>14, <1>15, <1>17, <1>18 DEF PlanInv

-----------------------------------------------------------------------------
(* While the analysis runs, the plan is empty.                             *)
LEMMA NothingPlanned ==
  ASSUME PlanInv, stage = "analyze"
  PROVE  /\ node = 0 /\ pending = {} /\ DOMAIN slotAlloc = {} /\ DOMAIN tensorInfo = {}
         /\ Computed = {} /\ \A w : ~ Began(w) /\ ~ Streamed(w)
<1>1. node = 0 /\ pending = {}
  BY DEF PlanInv, Placing
<1>2. Len(graph.nodes) \in Nat /\ Steps = 1..Len(graph.nodes)
  BY GraphShape DEF PlanInv, IInv, TypeOK
<1>3. \A t : ~ Bound(t)
  BY DEF Bound, Body, Ended
<1>4. DOMAIN slotAlloc = {} /\ DOMAIN tensorInfo = {}
  BY <1>3 DEF PlanInv, SlotsTaken, Alive, Recorded
<1>5. Computed = {}
  BY <1>1, <1>2 DEF Computed
<1>6. \A w : ~ Began(w)
  BY <1>1, <1>2 DEF Began
<1>7. \A w : ~ Streamed(w)
  BY <1>6 DEF Streamed
<1>. QED
  BY <1>1, <1>4, <1>5, <1>6, <1>7

LEMMA AnalyzeInv ==
  ASSUME PlanInv, Analyze
  PROVE  PlanInv'
<1>1. stage = "analyze" /\ stage' = "analyze" /\ UNCHANGED planVars
  BY DEF Analyze, planVars
<1>2. IInv' /\ Found'
  BY IInvNext, FoundNext DEF PlanInv, Analyze
<1>3. /\ node = 0 /\ pending = {} /\ DOMAIN slotAlloc = {} /\ DOMAIN tensorInfo = {}
      /\ Computed = {} /\ \A w : ~ Began(w) /\ ~ Streamed(w)
  BY <1>1, NothingPlanned
<1>4. /\ node' = node /\ pending' = pending /\ streaming' = streaming /\ slotAlloc' = slotAlloc
      /\ tensorInfo' = tensorInfo /\ tensorStep' = tensorStep /\ weightAlloc' = weightAlloc
      /\ weightInfo' = weightInfo /\ allocStep' = allocStep /\ compute' = compute
      /\ stepCount' = stepCount /\ allocByHandle' = allocByHandle /\ UNCHANGED poolVars
  BY <1>1 DEF planVars, poolVars, weightVars, tensorVars, stepVars
<1>5. graph' = graph
  BY DEF Analyze, Next, Produce, Produced, Consume, Outputs, AssignSlot, Done, vars
<1>6. Steps' = Steps /\ NodeOutputs' = NodeOutputs /\ \A p : WeightsOf(p)' = WeightsOf(p)
  BY <1>5 DEF Steps, NodeOutputs, WeightsOf
<1>7. PoolInv'
  BY <1>4, NextPoolInv DEF PlanInv
<1>8. Placing'
  BY <1>1, <1>3, <1>4 DEF Placing, Body, Ended
<1>9. \A t : ~ Bound(t)'
  BY <1>1 DEF Bound, Body, Ended
<1>10. SlotsTaken'
  BY <1>3, <1>4, <1>9 DEF SlotsTaken, Alive
<1>11. \A w : ~ Began(w)' /\ ~ Streamed(w)'
  <2>1. Len(graph.nodes) \in Nat /\ Steps = 1..Len(graph.nodes)
    BY GraphShape DEF PlanInv, IInv, TypeOK
  <2>2. \A w : ~ Began(w)'
    BY <1>3, <1>4, <1>6, <2>1 DEF Began
  <2>. QED
    BY <1>1, <2>2 DEF Streamed
<1>12. WeightsLoaded'
  BY <1>3, <1>4, <1>6, <1>11 DEF PlanInv, WeightsLoaded
<1>13. Owned'
  BY <1>4 DEF PlanInv, Owned
<1>14. Recorded'
  BY <1>3, <1>4, <1>6, <1>9 DEF PlanInv, Recorded
<1>15. Bindings'
  <2>1. Computed' = Computed
    BY <1>1, <1>4, <1>6 DEF Computed, Ended
  <2>. QED
    BY <1>3, <1>4, <2>1 DEF PlanInv, Bindings
<1>. QED
  BY <1>2, <1>7, <1>8, <1>10, <1>12, <1>13, <1>14, <1>15 DEF PlanInv

LEMMA PlanInvInit == PlanInit => PlanInv
<1>. SUFFICES ASSUME PlanInit PROVE PlanInv
  OBVIOUS
<1>1. IInv /\ Found /\ PoolInv
  BY IInvInit, FoundInit, InitPoolInv DEF PlanInit, PlanInitAt
<1>2. /\ stage = "analyze" /\ node = 0 /\ pending = {} /\ stepCount = 0
      /\ DOMAIN weightAlloc = {} /\ DOMAIN weightInfo = {} /\ DOMAIN slotAlloc = {}
      /\ DOMAIN tensorInfo = {} /\ DOMAIN allocStep = {} /\ DOMAIN compute = {}
      /\ DOMAIN allocByHandle = {}
  BY DEF PlanInit, PlanInitAt, NoEntry, PoolInit
<1>3. Placing
  BY <1>2 DEF Placing, Body, Ended
<1>4. \A t : ~ Bound(t)
  BY <1>2 DEF Bound, Body, Ended
<1>5. Len(graph.nodes) \in Nat /\ Steps = 1..Len(graph.nodes)
  BY <1>1, GraphShape DEF IInv, TypeOK
<1>6. \A w : ~ Began(w) /\ ~ Streamed(w)
  BY <1>2, <1>5 DEF Began, Streamed
<1>7. SlotsTaken /\ WeightsLoaded /\ Owned /\ Recorded
  BY <1>2, <1>4, <1>6 DEF SlotsTaken, WeightsLoaded, Owned, Recorded, Alive
<1>8. Bindings
  <2>1. Computed = {}
    BY <1>2, <1>5 DEF Computed, Ended
  <2>. QED
    BY <1>2, <2>1 DEF Bindings
<1>. QED
  BY <1>1, <1>3, <1>7, <1>8 DEF PlanInv

LEMMA PlanInvNext == PlanInv /\ [PlanNext]_<<analysisVars, planVars>> => PlanInv'
<1>. SUFFICES ASSUME PlanInv, [PlanNext]_<<analysisVars, planVars>> PROVE PlanInv'
  OBVIOUS
<1>1. CASE Analyze
  BY <1>1, AnalyzeInv
<1>2. CASE Walk
  BY <1>2, WalkInv
<1>3. ASSUME NEW w \in pending, Upload(w) \/ AlreadyUploaded(w) \/ FreeWeight(w) PROVE PlanInv'
  BY <1>3, UploadInv, AlreadyUploadedInv, FreeWeightInv
<1>4. ASSUME NEW o \in pending, Bind(o) PROVE PlanInv'
  BY <1>4, BindInv
<1>5. ASSUME NEW t \in pending, FreeTensor(t) PROVE PlanInv'
  BY <1>5, FreeTensorInv
<1>6. CASE Finished \/ UNCHANGED <<analysisVars, planVars>>
  <2>1. UNCHANGED <<analysisVars, streaming>> /\ UNCHANGED planVars
    BY <1>6 DEF Finished, planVars
  <2>2. /\ IInv' /\ Found' /\ (Analyzed' <=> Analyzed) /\ graph' = graph /\ streaming' = streaming
        /\ lifetimes' = lifetimes /\ tensorToSlot' = tensorToSlot /\ slotSizes' = slotSizes
        /\ Steps' = Steps /\ NodeOutputs' = NodeOutputs /\ UpFront' = UpFront
        /\ \A t : First(t)' = First(t) /\ LastUse(t)' = LastUse(t)
        /\ \A p : WeightsOf(p)' = WeightsOf(p) /\ UploadsAt(p)' = UploadsAt(p)
    BY <2>1, AnalysisKept DEF PlanInv
  <2>3. /\ stage' = stage /\ node' = node /\ pending' = pending /\ slotAlloc' = slotAlloc
        /\ tensorInfo' = tensorInfo /\ tensorStep' = tensorStep /\ weightAlloc' = weightAlloc
        /\ weightInfo' = weightInfo /\ allocStep' = allocStep /\ compute' = compute
        /\ stepCount' = stepCount /\ allocByHandle' = allocByHandle /\ UNCHANGED poolVars
    BY <2>1 DEF planVars, poolVars, weightVars, tensorVars, stepVars
  <2>4. PoolInv'
    BY <2>3, NextPoolInv DEF PlanInv
  <2>5. Dead' = Dead /\ WeightsOf(node)' = WeightsOf(node)
    BY <2>2, <2>3 DEF Dead, WeightsOf
  <2>6. Spent' = Spent
    <3>1. PICK W : W = WeightsOf(node)
      OBVIOUS
    <3>2. Spent' = IF streaming
                   THEN {w \in W \ NodeOutputs : \A q \in Steps : q > node => w \notin WeightsOf(q)'}
                   ELSE {}
      BY <2>2, <2>3, <2>5, <3>1 DEF Spent
    <3>. QED
      BY <2>2, <3>1, <3>2 DEF Spent
  <2>7. Placing'
    BY <2>2, <2>3, <2>5, <2>6 DEF PlanInv, Placing
  <2>8. \A t : (Bound(t)' <=> Bound(t)) /\ (Alive(t)' <=> Alive(t)) /\ (Occupies(t)' <=> Occupies(t))
    BY <2>2, <2>3 DEF Bound, Alive, Gone, Occupies
  <2>9. SlotsTaken'
    BY <2>2, <2>3, <2>8 DEF PlanInv, SlotsTaken
  <2>10. \A w : (Began(w)' <=> Began(w)) /\ (Streamed(w)' <=> Streamed(w))
    BY <2>2, <2>3 DEF Began, Wanted, Streamed
  <2>11. WeightsLoaded' /\ Owned' /\ Recorded'
    BY <2>2, <2>3, <2>8, <2>10 DEF PlanInv, WeightsLoaded, Owned, Recorded
  <2>12. Bindings'
    <3>1. Computed' = Computed
      BY <2>2, <2>3 DEF Computed
    <3>. QED
      BY <2>2, <2>3, <3>1 DEF PlanInv, Bindings
  <2>. QED
    BY <2>2, <2>4, <2>7, <2>9, <2>11, <2>12 DEF PlanInv
<1>. QED
  BY <1>1, <1>2, <1>3, <1>4, <1>5, <1>6 DEF PlanNext, Walk

LEMMA PlanInvariant == PlanSpec => []PlanInv
BY PlanInvInit, PlanInvNext, PTL DEF PlanSpec

-----------------------------------------------------------------------------
(* Buffers told apart by their handles are as many as their owners.        *)
LEMMA OneEach ==
  ASSUME NEW D, NEW f, NEW n \in Nat,
         \A x \in D : f[x].handle \in 0..n,
         \A x, y \in D : f[x].handle = f[y].handle => x = y
  PROVE  /\ IsFiniteSet({f[x] : x \in D})
         /\ Cardinality({f[x] : x \in D}) = Cardinality(D)
<1>1. PICK h : h = [x \in D |-> f[x].handle]
  OBVIOUS
<1>2. h \in Injection(D, 0..n)
  BY <1>1 DEF Injection, IsInjective
<1>3. IsFiniteSet(0..n)
  BY FS_Interval
<1>4. IsFiniteSet(D)
  BY <1>2, <1>3, FS_Injection
<1>5. PICK T : T = {f[x] : x \in D}
  OBVIOUS
<1>6. PICK g : g = [x \in D |-> f[x]]
  OBVIOUS
<1>7. g \in Surjection(D, T)
  BY <1>5, <1>6 DEF Surjection
<1>8. g \in Injection(D, T)
  BY <1>5, <1>6 DEF Injection, IsInjective
<1>9. IsFiniteSet(T) /\ Cardinality(T) = Cardinality(D)
  BY <1>4, <1>7, <1>8, FS_Surjection
<1>. QED
  BY <1>5, <1>9

LEMMA HeldAlone ==
  ASSUME PlanInv
  PROVE  BuffersBacked
<1>1. PICK n \in Nat : \A h \in DOMAIN allocByHandle : h \in 0..n
  BY DEF PlanInv, PoolInv, PoolNumbers, HandlesOK
<1>2. PICK A : A = {weightAlloc[w] : w \in DOMAIN weightAlloc}
  OBVIOUS
<1>3. PICK B : B = {slotAlloc[s].alloc : s \in DOMAIN slotAlloc}
  OBVIOUS
<1>4. IsFiniteSet(A) /\ Cardinality(A) = Cardinality(DOMAIN weightAlloc)
  <2>1. \A w \in DOMAIN weightAlloc : weightAlloc[w].handle \in 0..n
    BY <1>1 DEF PlanInv, Owned
  <2>2. \A w, v \in DOMAIN weightAlloc : weightAlloc[w].handle = weightAlloc[v].handle => w = v
    BY DEF PlanInv, Owned
  <2>. QED
    BY <1>2, <2>1, <2>2, OneEach
<1>5. IsFiniteSet(B) /\ Cardinality(B) = Cardinality(DOMAIN slotAlloc)
  <2>1. PICK f : f = [s \in DOMAIN slotAlloc |-> slotAlloc[s].alloc]
    OBVIOUS
  <2>2. \A s \in DOMAIN slotAlloc : f[s].handle \in 0..n
    BY <1>1, <2>1 DEF PlanInv, Owned
  <2>3. \A s, r \in DOMAIN slotAlloc : f[s].handle = f[r].handle => s = r
    BY <2>1 DEF PlanInv, Owned
  <2>4. {f[s] : s \in DOMAIN slotAlloc} = B
    BY <1>3, <2>1
  <2>. QED
    BY <2>2, <2>3, <2>4, OneEach
<1>6. A \cap B = {}
  BY <1>2, <1>3 DEF PlanInv, Owned
<1>7. Cardinality(A \cup B) = Cardinality(DOMAIN weightAlloc) + Cardinality(DOMAIN slotAlloc)
  <2>1. Cardinality(A \cap B) = 0
    BY <1>6, FS_EmptySet
  <2>2. Cardinality(A) \in Nat /\ Cardinality(B) \in Nat
    BY <1>4, <1>5, FS_CardinalityType
  <2>3. Cardinality(A \cup B) = Cardinality(A) + Cardinality(B) - Cardinality(A \cap B)
    BY <1>4, <1>5, FS_Union
  <2>. QED
    BY <1>4, <1>5, <2>1, <2>2, <2>3
<1>8. Buffers = A \cup B
  BY <1>2, <1>3 DEF Buffers
<1>9. Buffers \subseteq Live
  BY DEF PlanInv, Owned, Buffers, Live
<1>. QED
  BY <1>7, <1>8, <1>9 DEF BuffersBacked

(* What a node reads and writes is there when it computes.                 *)
LEMMA OperandsHeld ==
  ASSUME PlanInv, stage = "bind", pending = {}
  PROVE  /\ \A w \in WeightsOf(node) :
              w \in DOMAIN weightAlloc /\ weightAlloc[w].offset = InputBindings(node)[w].offset
         /\ \A t \in (graph.nodes[node].inputs \ (Weights \cup GraphInputs))
                       \cup graph.nodes[node].outputs :
              /\ Occupies(t)
              /\ slotAlloc[tensorToSlot[t]].alloc.offset = tensorInfo[t].offset
              /\ SizeOf[t] <= slotAlloc[tensorToSlot[t]].alloc.size
<1>1. Analyzed /\ node \in Steps /\ node \in Nat
  BY DEF PlanInv, Placing, Body
<1>2. N \in Nat /\ Steps = 1..N /\ graph \in Graphs
  BY <1>1, Analysis DEF PlanInv, IInv, TypeOK
<1>3. ASSUME NEW w \in WeightsOf(node)
      PROVE  w \in DOMAIN weightAlloc /\ weightAlloc[w].offset = InputBindings(node)[w].offset
  <2>1. w \in Weights /\ w \in graph.nodes[node].inputs
    BY <1>3 DEF WeightsOf
  <2>2. Began(w) /\ Wanted(w)
    BY <1>1, <1>3 DEF Began, Wanted
  <2>3. Streamed(w)
    BY <2>1, <2>2 DEF Streamed
  <2>4. w \in DOMAIN weightAlloc
    BY <2>1, <2>2, <2>3 DEF PlanInv, WeightsLoaded, Bindings, IInv
  <2>5. w \in DOMAIN weightInfo /\ weightInfo[w].offset = weightAlloc[w].offset
    BY <2>4 DEF PlanInv, WeightsLoaded
  <2>6. InputBindings(node)[w] = weightInfo[w]
    BY <2>1, <2>5 DEF InputBindings
  <2>. QED
    BY <2>4, <2>5, <2>6
<1>4. ASSUME NEW t \in NodeOutputs, Alive(t)
      PROVE  /\ Occupies(t)
             /\ slotAlloc[tensorToSlot[t]].alloc.offset = tensorInfo[t].offset
             /\ SizeOf[t] <= slotAlloc[tensorToSlot[t]].alloc.size
  <2>1. Occupies(t)
    BY <1>4 DEF PlanInv, SlotsTaken
  <2>2. PICK s : s = tensorToSlot[t]
    OBVIOUS
  <2>3. s \in DOMAIN slotAlloc /\ slotAlloc[s].tensor = t
    BY <2>1, <2>2 DEF Occupies
  <2>4. tensorInfo[t].offset = slotAlloc[s].alloc.offset /\ slotAlloc[s].alloc.size = BlockSize(slotSizes[s])
    BY <2>3 DEF PlanInv, SlotsTaken
  <2>5. slotSizes[s] \in Nat /\ SizeOf[t] <= slotSizes[s]
    BY <1>1, <1>4, <2>2, Analysis, PoolAssumption DEF PlanInv
  <2>6. BlockSize(slotSizes[s]) \in Nat /\ slotSizes[s] <= BlockSize(slotSizes[s])
    BY <2>5, BlockFits
  <2>7. SizeOf[t] \in Nat
    <3>1. t \in Tensor
      BY <1>1, <1>4, Analysis DEF PlanInv, IInv, TypeOK
    <3>. QED
      BY <3>1, GraphsAssumption
  <2>. QED
    BY <2>1, <2>2, <2>4, <2>5, <2>6, <2>7
<1>5. ASSUME NEW t \in graph.nodes[node].inputs \ (Weights \cup GraphInputs)
      PROVE  t \in NodeOutputs /\ Alive(t)
  <2>1. t \in UNION {graph.nodes[q].outputs : q \in 1..(node - 1)}
    BY <1>1, <1>2, <1>5, PlanAssumption DEF Steps
  <2>2. t \in NodeOutputs
    BY <1>1, <1>2, <2>1 DEF NodeOutputs
  <2>3. First(t) \in Steps /\ LastUse(t) \in Nat /\ First(t) < node /\ node <= LastUse(t)
    BY <1>1, <1>5, <2>2, Analysis DEF PlanInv
  <2>4. Bound(t)
    BY <2>2, <2>3 DEF Bound, Body
  <2>5. ~ Gone(t)
    BY <1>1, <2>3 DEF Gone, Ended
  <2>. QED
    BY <2>2, <2>4, <2>5 DEF Alive
<1>6. ASSUME NEW t \in graph.nodes[node].outputs
      PROVE  t \in NodeOutputs /\ Alive(t)
  <2>1. t \in NodeOutputs
    BY <1>1, <1>6 DEF NodeOutputs
  <2>2. First(t) = node /\ LastUse(t) \in Nat /\ node <= LastUse(t)
    BY <1>1, <1>6, <2>1, Analysis DEF PlanInv
  <2>3. Bound(t)
    BY <2>1, <2>2 DEF Bound, Body
  <2>4. ~ Gone(t)
    BY <1>1, <2>2 DEF Gone, Ended
  <2>. QED
    BY <2>1, <2>3, <2>4 DEF Alive
<1>. QED
  BY <1>3, <1>4, <1>5, <1>6

(* What the plan uses it holds, and holds alone: no buffer goes back to    *)
(* the pool while a node still needs it, none has two owners, and each is  *)
(* where the binding says and large enough.  (build_execution_plan)        *)
THEOREM PlanHoldsWhatItUses == PlanSpec => []BuffersHeld
<1>1. PlanInv => BuffersHeld
  BY HeldAlone, OperandsHeld DEF BuffersHeld, OperandsResident
<1>. QED
  BY <1>1, PlanInvariant, PTL

-----------------------------------------------------------------------------
(* What is left at the end.                                                *)
LEMMA LastNode ==
  ASSUME PlanInv, node + 1 \notin Steps, stage \in Body
  PROVE  N \in Nat /\ Steps = 1..N /\ node = N /\ node \in Steps /\ Analyzed
<1>1. Analyzed /\ node \in Steps /\ node \in Nat
  BY DEF PlanInv, Placing, Body, Ended
<1>2. N \in Nat /\ Steps = 1..N
  BY <1>1, Analysis DEF PlanInv
<1>. QED
  BY <1>1, <1>2

LEMMA NothingLeft ==
  ASSUME PlanInv, stage \in Ended
  PROVE  /\ Live = Buffers
         /\ {slotAlloc[s].tensor : s \in DOMAIN slotAlloc} = graph.outputs \cap NodeOutputs
         /\ DOMAIN weightAlloc =
              IF streaming THEN Weights \cap NodeOutputs ELSE UNION {WeightsOf(p) : p \in Steps}
<1>1. N \in Nat /\ Steps = 1..N /\ node = N /\ node \in Steps /\ Analyzed
  BY LastNode DEF PlanInv, Placing, Body
<1>2. Live = Buffers
  <2>1. \A w \in DOMAIN weightAlloc :
          weightAlloc[w].handle \in DOMAIN allocByHandle /\ allocByHandle[weightAlloc[w].handle] = weightAlloc[w]
    BY DEF PlanInv, Owned
  <2>2. \A s \in DOMAIN slotAlloc :
          /\ slotAlloc[s].alloc.handle \in DOMAIN allocByHandle
          /\ allocByHandle[slotAlloc[s].alloc.handle] = slotAlloc[s].alloc
    BY DEF PlanInv, Owned
  <2>3. \A h \in DOMAIN allocByHandle :
          \/ \E w \in DOMAIN weightAlloc : weightAlloc[w].handle = h
          \/ \E s \in DOMAIN slotAlloc : slotAlloc[s].alloc.handle = h
    BY DEF PlanInv, Owned
  <2>4. \A h \in DOMAIN allocByHandle : allocByHandle[h] \in Buffers
    BY <2>1, <2>2, <2>3 DEF Buffers
  <2>5. Buffers \subseteq Live
    BY <2>1, <2>2 DEF Buffers, Live
  <2>. QED
    BY <2>4, <2>5 DEF Live
<1>3. ASSUME NEW t \in NodeOutputs
      PROVE  Alive(t) <=> t \in graph.outputs
  <2>1. /\ First(t) \in Steps /\ LastUse(t) \in Nat /\ LastUse(t) <= N + 1
        /\ LastUse(t) = N + 1 <=> t \in graph.outputs
    BY <1>1, <1>3, Analysis DEF PlanInv
  <2>2. First(t) < node \/ First(t) = node
    BY <1>1, <2>1
  <2>3. Bound(t)
    BY <1>3, <2>2 DEF Bound, Body
  <2>4. Gone(t) <=> LastUse(t) <= N
    <3>1. Gone(t) <=> (LastUse(t) < node \/ LastUse(t) = node)
      BY DEF Gone
    <3>. QED
      BY <1>1, <2>1, <3>1
  <2>. QED
    BY <1>1, <2>1, <2>3, <2>4 DEF Alive
<1>4. {slotAlloc[s].tensor : s \in DOMAIN slotAlloc} = graph.outputs \cap NodeOutputs
  <2>1. ASSUME NEW s \in DOMAIN slotAlloc
        PROVE  slotAlloc[s].tensor \in graph.outputs \cap NodeOutputs
    <3>1. Alive(slotAlloc[s].tensor)
      BY DEF PlanInv, SlotsTaken
    <3>2. slotAlloc[s].tensor \in NodeOutputs
      BY <3>1 DEF Alive, Bound
    <3>. QED
      BY <1>3, <3>1, <3>2
  <2>2. ASSUME NEW t \in graph.outputs \cap NodeOutputs
        PROVE  \E s \in DOMAIN slotAlloc : slotAlloc[s].tensor = t
    <3>1. Occupies(t)
      BY <1>3, <2>2 DEF PlanInv, SlotsTaken
    <3>. QED
      BY <3>1 DEF Occupies
  <2>. QED
    BY <2>1, <2>2
<1>5. \A w : Began(w) <=> \E p \in Steps : w \in WeightsOf(p)
  <2>1. \A p \in Steps : p < node \/ p = node
    BY <1>1
  <2>. QED
    BY <2>1 DEF Began, Ended
<1>6. \A w : ~ Wanted(w)
  <2>1. \A p \in Steps : ~ (p > node)
    BY <1>1
  <2>. QED
    BY <2>1 DEF Wanted, Ended
<1>7. CASE streaming
  <2>1. \A w \in Weights : Streamed(w) <=> w \in NodeOutputs
    BY <1>6 DEF Streamed, Ended
  <2>2. \A w \in Weights : w \in DOMAIN weightAlloc <=> w \in NodeOutputs
    BY <1>7, <2>1 DEF PlanInv, WeightsLoaded
  <2>3. DOMAIN weightAlloc \subseteq Weights
    BY DEF PlanInv, WeightsLoaded
  <2>4. DOMAIN weightAlloc = Weights \cap NodeOutputs
    BY <2>2, <2>3
  <2>. QED
    BY <1>2, <1>4, <1>7, <2>4
<1>8. CASE ~ streaming
  <2>1. \A w \in Weights : Began(w) => w \in DOMAIN weightAlloc
    BY <1>8 DEF PlanInv, WeightsLoaded
  <2>2. \A w \in DOMAIN weightAlloc : \E p \in Steps : w \in WeightsOf(p)
    BY <1>8 DEF PlanInv, WeightsLoaded
  <2>3. \A p : WeightsOf(p) \subseteq Weights
    BY DEF WeightsOf
  <2>4. DOMAIN weightAlloc = UNION {WeightsOf(p) : p \in Steps}
    BY <1>5, <2>1, <2>2, <2>3
  <2>. QED
    BY <1>2, <1>4, <1>8, <2>4
<1>. QED
  BY <1>7, <1>8

LEMMA StreamedOnTime ==
  ASSUME PlanInv, streaming, stage = "bind"
  PROVE  DOMAIN weightAlloc \ NodeOutputs =
           {w \in Weights \ NodeOutputs :
              /\ \E p \in Steps : p <= node /\ w \in WeightsOf(p)
              /\ \E p \in Steps : p >= node /\ w \in WeightsOf(p)}
<1>1. node \in Nat /\ N \in Nat /\ Steps = 1..N
  BY Analysis DEF PlanInv, Placing
<1>2. \A w : Began(w) <=> \E p \in Steps : p <= node /\ w \in WeightsOf(p)
  <2>1. \A p \in Steps : p <= node <=> (p < node \/ p = node)
    BY <1>1
  <2>2. \A w : Began(w) <=> \E p \in Steps : (p < node \/ p = node) /\ w \in WeightsOf(p)
    BY DEF Began
  <2>. QED
    BY <2>1, <2>2, Zenon
<1>3. \A w : Wanted(w) <=> \E p \in Steps : p >= node /\ w \in WeightsOf(p)
  <2>1. \A p \in Steps : p >= node <=> (p > node \/ p = node)
    BY <1>1
  <2>2. \A w : Wanted(w) <=> \E p \in Steps : (p > node \/ p = node) /\ w \in WeightsOf(p)
    BY DEF Wanted
  <2>. QED
    BY <2>1, <2>2, Zenon
<1>4. \A w \in Weights \ NodeOutputs : Streamed(w) <=> Began(w) /\ Wanted(w)
  BY DEF Streamed
<1>5. DOMAIN weightAlloc \subseteq Weights /\ \A w \in Weights : w \in DOMAIN weightAlloc <=> Streamed(w)
  BY DEF PlanInv, WeightsLoaded
<1>. QED
  BY <1>2, <1>3, <1>4, <1>5

(* What the plan no longer uses it has given back: at the end only graph   *)
(* outputs and resident weights hold memory, and a streamed weight is on   *)
(* the device from its first reader to its last.  (build_execution_plan)   *)
THEOREM PlanKeepsNothingElse == PlanSpec => []NothingHeldTooLong
<1>1. PlanInv => NothingHeldTooLong
  BY NothingLeft, StreamedOnTime DEF NothingHeldTooLong, NothingLeaks, StreamedWeightsMinimal, Ended
<1>. QED
  BY <1>1, PlanInvariant, PTL

-----------------------------------------------------------------------------
(* The plan's own validation.                                              *)
LEMMA ValidWhenEarly ==
  ASSUME PlanInv, stage = "release", node + 1 \notin Steps,
         streaming \/ Weights \cap NodeOutputs = {}
  PROVE  Valid
<1>1. N \in Nat /\ Steps = 1..N /\ node = N /\ node \in Steps /\ Analyzed
  BY LastNode DEF Body
<1>2. Computed = Steps
  <2>1. \A p \in Steps : p < node \/ p = node
    BY <1>1
  <2>. QED
    BY <2>1 DEF Computed
<1>3. ASSUME NEW p \in Steps, NEW t \in graph.nodes[p].inputs
      PROVE  InputValid(p, t)
  <2>1. p \in Computed
    BY <1>2
  <2>2. PICK b : b = compute[p].inputs[t]
    OBVIOUS
  <2>3. CASE t \in GraphInputs \ Weights
    <3>1. b.size = SizeOf[t]
      BY <2>1, <2>2, <2>3 DEF PlanInv, Bindings
    <3>2. SizeOf[t] > 0
      BY <2>3, PlanAssumption
    <3>. QED
      BY <2>2, <2>3, <3>1, <3>2 DEF InputValid
  <2>4. CASE t \in Weights
    <3>1. t \in DOMAIN weightInfo /\ b = weightInfo[t] /\ allocStep[t] <= compute[p].step
      BY <2>1, <2>2, <2>4 DEF PlanInv, Bindings
    <3>2. weightInfo[t].offset >= 0 /\ weightInfo[t].size > 0
      BY <3>1 DEF PlanInv, Recorded
    <3>. QED
      BY <2>2, <2>4, <3>1, <3>2 DEF InputValid
  <2>5. CASE t \notin Weights \cup GraphInputs
    <3>1. t \in DOMAIN tensorInfo /\ b = tensorInfo[t]
      BY <2>1, <2>2, <2>5 DEF PlanInv, Bindings
    <3>2. tensorInfo[t].offset \in Nat /\ tensorInfo[t].size > 0 /\ tensorStep[t] = tensorInfo[t]
      BY <3>1 DEF PlanInv, Recorded
    <3>3. tensorInfo[t].offset >= 0
      BY <3>2
    <3>. QED
      BY <2>2, <2>5, <3>1, <3>2, <3>3 DEF InputValid
  <2>. QED
    BY <2>3, <2>4, <2>5
<1>4. ASSUME NEW p \in Steps, NEW o \in graph.nodes[p].outputs
      PROVE  OutputValid(p, o)
  <2>1. p \in Computed
    BY <1>2
  <2>2. PICK b : b = compute[p].outputs[o]
    OBVIOUS
  <2>3. o \in DOMAIN tensorInfo /\ b = tensorInfo[o] /\ allocStep[o] <= compute[p].step
    BY <2>1, <2>2 DEF PlanInv, Bindings
  <2>4. tensorInfo[o].offset \in Nat /\ tensorInfo[o].size > 0 /\ tensorStep[o] = tensorInfo[o]
    BY <2>3 DEF PlanInv, Recorded
  <2>5. tensorInfo[o].offset >= 0
    BY <2>4
  <2>. QED
    BY <2>2, <2>3, <2>4, <2>5 DEF OutputValid
<1>. QED
  BY <1>3, <1>4 DEF Valid

LEMMA RejectionKept ==
  PlanInv /\ RejectsLateConstantsOnly /\ [PlanNext]_<<analysisVars, planVars>> => RejectsLateConstantsOnly'
<1>. SUFFICES ASSUME PlanInv, RejectsLateConstantsOnly, [PlanNext]_<<analysisVars, planVars>>,
                     stage' = "rejected"
              PROVE  ~ streaming' /\ Weights \cap NodeOutputs' # {}
  BY DEF RejectsLateConstantsOnly
<1>1. streaming' = streaming /\ NodeOutputs' = NodeOutputs
      /\ \/ stage = "rejected"
         \/ stage = "release" /\ node + 1 \notin Steps /\ ~ Valid
  <2>1. CASE Validate
    BY <2>1 DEF Validate, Continue, analysisVars, vars, NodeOutputs, Steps
  <2>2. CASE Finished \/ UNCHANGED <<analysisVars, planVars>>
    BY <2>2 DEF Finished, analysisVars, planVars, vars, NodeOutputs, Steps
  <2>3. CASE Analyze \/ Start \/ NextNode("upFront") \/ NextNode("release") \/ WeightsDone \/ Compute \/ FreesDone
    <3>1. stage' \in {"analyze", "upFront", "weights", "bind", "free", "release"}
      BY <2>3 DEF Analyze, planVars, Start, NextNode, WeightsDone, Compute, FreesDone, Continue
    <3>. QED
      BY <3>1
  <2>4. ASSUME NEW x \in pending, Upload(x) \/ AlreadyUploaded(x) \/ FreeWeight(x) \/ Bind(x) \/ FreeTensor(x)
        PROVE  FALSE
    <3>1. stage' = stage /\ stage \in {"upFront", "weights", "bind", "free", "release"}
      BY <2>4 DEF Upload, AlreadyUploaded, FreeWeight, Bind, FreeTensor, Inside
    <3>. QED
      BY <3>1
  <2>. QED
    BY <2>1, <2>2, <2>3, <2>4 DEF PlanNext
<1>2. CASE stage = "rejected"
  BY <1>1, <1>2 DEF RejectsLateConstantsOnly
<1>3. CASE stage = "release" /\ node + 1 \notin Steps /\ ~ Valid
  BY <1>1, <1>3, ValidWhenEarly
<1>. QED
  BY <1>1, <1>2, <1>3

(* The validation accepts every plan the builder makes, but for the values *)
(* of Constant nodes when it does not stream.  (validate_execution_plan)   *)
THEOREM ValidationObjectsToLateConstants == PlanSpec => []RejectsLateConstantsOnly
<1>1. PlanInit => RejectsLateConstantsOnly
  BY DEF PlanInit, PlanInitAt, RejectsLateConstantsOnly
<1>. QED
  BY <1>1, PlanInvariant, RejectionKept, PTL DEF PlanSpec

-----------------------------------------------------------------------------
(* A plan is a client of the pool: it asks for sizes the pool serves, and  *)
(* frees what it holds.                                                    *)
LEMMA PlanStepsThePool ==
  PlanInv /\ [PlanNext]_<<analysisVars, planVars>> => [PoolNext]_poolVars
<1>. SUFFICES ASSUME PlanInv, [PlanNext]_<<analysisVars, planVars>> PROVE [PoolNext]_poolVars
  OBVIOUS
<1>1. CASE Analyze \/ Finished \/ UNCHANGED <<analysisVars, planVars>>
  BY <1>1 DEF Analyze, Finished, planVars
<1>2. CASE Start \/ NextNode("upFront") \/ NextNode("release") \/ WeightsDone \/ Compute \/ Validate
  BY <1>2 DEF Start, NextNode, WeightsDone, Compute, Validate
<1>3. CASE FreesDone
  BY <1>3 DEF FreesDone, PoolNext
<1>4. ASSUME NEW w \in pending, Upload(w) PROVE PoolNext
  <2>1. w \in Weights
    <3>1. stage \in {"upFront", "weights"}
      BY <1>4 DEF Upload, Inside
    <3>. QED
      BY <1>4, <3>1 DEF PlanInv, Placing, UpFront, UploadsAt, WeightsOf
  <2>2. SizeOf[w] \in Requests
    BY <2>1, PlanAssumption
  <2>. QED
    BY <1>4, <2>2 DEF Upload, PoolNext
<1>5. ASSUME NEW w \in pending, AlreadyUploaded(w) PROVE UNCHANGED poolVars
  BY <1>5 DEF AlreadyUploaded
<1>6. ASSUME NEW w \in pending, FreeWeight(w) PROVE PoolNext
  <2>1. Free(weightAlloc[w]) /\ w \in DOMAIN weightAlloc
    BY <1>6 DEF FreeWeight
  <2>2. weightAlloc[w] \in Live
    BY <2>1 DEF PlanInv, Owned, Live
  <2>. QED
    BY <2>1, <2>2 DEF PoolNext
<1>7. ASSUME NEW o \in pending, Bind(o) PROVE [PoolNext]_poolVars
  <2>1. BufferBytes(o) \in Requests
    <3>1. stage = "bind" /\ Analyzed /\ node \in Steps /\ o \in graph.nodes[node].outputs
      BY <1>7 DEF Bind, Inside, PlanInv, Placing, Body
    <3>2. o \in NodeOutputs
      BY <3>1 DEF NodeOutputs
    <3>. QED
      BY <3>1, <3>2, Analysis DEF PlanInv, BufferBytes
  <2>2. Malloc(BufferBytes(o)) \/ UNCHANGED poolVars
    BY <1>7, Zenon DEF Bind
  <2>. QED
    BY <2>1, <2>2 DEF PoolNext
<1>8. ASSUME NEW t \in pending, FreeTensor(t) PROVE [PoolNext]_poolVars
  <2>1. CASE Occupies(t)
    <3>1. Free(slotAlloc[tensorToSlot[t]].alloc) /\ tensorToSlot[t] \in DOMAIN slotAlloc
      BY <1>8, <2>1 DEF FreeTensor, Occupies
    <3>2. slotAlloc[tensorToSlot[t]].alloc \in Live
      BY <3>1 DEF PlanInv, Owned, Live
    <3>. QED
      BY <3>1, <3>2 DEF PoolNext
  <2>2. CASE ~ Occupies(t)
    BY <1>8, <2>2 DEF FreeTensor
  <2>. QED
    BY <2>1, <2>2
<1>. QED
  BY <1>1, <1>2, <1>3, <1>4, <1>5, <1>6, <1>7, <1>8 DEF PlanNext

LEMMA PlanUsesThePool == PlanSpec => PoolSpec
<1>1. PlanInit => PoolInit
  BY DEF PlanInit, PlanInitAt
<1>. QED
  BY <1>1, PlanInvariant, PlanStepsThePool, PTL DEF PlanSpec, PoolSpec

(* Through a whole plan the pool stays exact: no byte is lost, counted     *)
(* twice or hidden between two holes.  (DeviceMemoryPool in                *)
(* build_execution_plan)                                                   *)
THEOREM PlanKeepsThePoolExact == PlanSpec => []FreeListExact
BY PlanUsesThePool, FreeListStaysExact, PTL

(* And it serves the plan as an arena does: from a gap whenever one is     *)
(* large enough.  (DeviceMemoryPool.malloc)                                *)
THEOREM PlanIsServedByAnArena == PlanSpec => ArenaSpec
BY PlanUsesThePool, PoolIsArena, PTL

-----------------------------------------------------------------------------
(* The plan implements the analysis: it starts as the analysis does, and   *)
(* each of its steps is one of the analysis or leaves it alone.            *)
THEOREM PlanImplementsTheAnalysis == PlanSpec => Spec
<1>1. PlanInit => Init
  BY DEF PlanInit, PlanInitAt
<1>2. [PlanNext]_<<analysisVars, planVars>> => [Next]_vars
  <2>1. CASE Analyze
    BY <2>1 DEF Analyze
  <2>2. CASE UNCHANGED <<analysisVars, planVars>>
    BY <2>2 DEF analysisVars
  <2>3. CASE Start \/ NextNode("upFront") \/ NextNode("release") \/ WeightsDone \/ Compute
             \/ FreesDone \/ Validate \/ Finished
    BY <2>3 DEF Start, NextNode, WeightsDone, Compute, FreesDone, Validate, Finished, analysisVars
  <2>4. ASSUME NEW t \in pending,
               \/ Upload(t) \/ AlreadyUploaded(t) \/ FreeWeight(t)
               \/ Bind(t) \/ FreeTensor(t)
        PROVE  UNCHANGED vars
    BY <2>4 DEF Upload, AlreadyUploaded, FreeWeight, Bind, FreeTensor, Inside, analysisVars
  <2>. QED
    BY <2>1, <2>2, <2>3, <2>4 DEF PlanNext
<1>. QED
  BY <1>1, <1>2, PTL DEF PlanSpec, Spec

(* In every graph the slots are large enough for all their tenants, and as *)
(* few as possible.                                                        *)
THEOREM SlotsRightSized == Spec => []SlotsFit
BY SlotsLargeEnough, NoSlotWasted, PTL DEF SlotsFit

(* So the slots a plan is built on are shared safely, are large enough for *)
(* every tensor they hold in turn, and are no more than there must be.     *)
(* (LifetimePlanner.analyze, called by build_execution_plan)               *)
THEOREM PlanSharesSlotsSafely == PlanSpec => [](ReadersFindTheirTensor /\ SlotsFit)
BY PlanImplementsTheAnalysis, ReadersSafe, SlotsRightSized, PTL
=============================================================================
