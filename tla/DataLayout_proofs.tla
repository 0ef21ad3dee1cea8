-------------------------- MODULE DataLayout_proofs --------------------------
(***************************************************************************)
(* Proofs that the linker keeps the static objects of any number of units  *)
(* apart, aligned and below the heap, and relocates all the references to  *)
(* an object alike, whatever the layout of each unit (WellPlaced, proved   *)
(* of the compiler's in GlobalDataAllocator_proofs).                       *)
(***************************************************************************)
EXTENDS DataLayout, WellFoundedInduction, TLAPS

(* Every nonempty set of natural numbers has a least element.              *)
LEMMA MinFacts ==
  ASSUME NEW S, S \subseteq Nat, S # {}
  PROVE  Min(S) \in S /\ Min(S) \in Nat /\ \A y \in S : Min(S) <= y
<1> DEFINE Less == {p \in Nat \X Nat : p[1] < p[2]}
<1>1. IsWellFoundedOn(Less, Nat)
  BY NatLessThanWellFounded, Zenon DEF OpToRel
<1> HIDE DEF Less
<1>2. PICK x \in S : \A y \in S : ~(<<y, x>> \in Less)
  BY <1>1, WFMin
<1>3. \A y \in S : x <= y
  <2> TAKE y \in S
  <2>1. ~(y < x)
    BY <1>2 DEF Less
  <2> QED BY <2>1
<1>4. \E z \in S : \A y \in S : z <= y
  BY <1>3
<1> QED BY <1>4 DEF Min

(* Every nonempty set of natural numbers with a bound has a greatest one.  *)
LEMMA MaxFacts ==
  ASSUME NEW S, NEW n \in Nat, S \subseteq 0 .. n, S # {}
  PROVE  Max(S) \in S /\ Max(S) \in Nat /\ \A y \in S : Max(S) >= y
<1> DEFINE T == {n - x : x \in S}
<1>0. \A x \in S : x \in Nat /\ x <= n
  OBVIOUS
<1>1. T \subseteq Nat /\ T # {}
  <2>1. \A x \in S : n - x \in Nat
    BY <1>0
  <2> QED BY <2>1
<1>2. PICK m \in T : \A y \in T : m <= y
  BY <1>1, MinFacts
<1>3. PICK x \in S : m = n - x
  OBVIOUS
<1>4. \A y \in S : x >= y
  <2> TAKE y \in S
  <2>1. n - y \in T
    OBVIOUS
  <2>2. m <= n - y /\ x \in Nat /\ y \in Nat
    BY <2>1, <1>0, <1>2
  <2> QED BY <2>2, <1>3
<1>5. \E z \in S : \A y \in S : z >= y
  BY <1>4
<1>6. Max(S) \in S /\ \A y \in S : Max(S) >= y
  BY <1>5 DEF Max
<1> QED BY <1>0, <1>6

LEMMA AlignUp8 ==
  ASSUME NEW n \in Nat
  PROVE  AlignUp(n, 8) \in Nat /\ AlignUp(n, 8) >= n /\ AlignUp(n, 8) % 8 = 0
BY DEF AlignUp

-----------------------------------------------------------------------------
(* What mergeOne learns of a unit: its block starts at or below everything *)
(* it sees, and ends above the top, because of the marker.                 *)
LEMMA ExtentFacts ==
  ASSUME NEW u, ValidUnit(u), DOMAIN u.objs # {}
  PROVE  /\ Extents(u) # {} /\ Low(u) \in Nat /\ High(u) \in Nat
         /\ FirstAddress <= Low(u) /\ Low(u) <= u.top /\ u.top + 1 <= High(u)
         /\ \A e \in Segments(u) : /\ e.lo \in Nat /\ e.hi \in Nat
                                   /\ Low(u) <= e.lo /\ e.lo <= e.hi /\ e.hi <= High(u)
         /\ \A x \in Seen(u) : Low(u) <= u.objs[x].addr /\ u.objs[x].addr < High(u)
<1> DEFINE E == Extents(u)
           L == {e.lo : e \in E}
           H == {e.hi : e \in E}
<1>1. /\ u.top \in Nat /\ WellPlaced(u.objs, u.top) /\ u.code \subseteq DOMAIN u.objs
      /\ \A x \in DOMAIN u.objs : u.objs[x] \in Placed
  BY DEF ValidUnit
<1>2. \A x \in DOMAIN u.objs :
        /\ u.objs[x].addr \in Nat /\ End(u.objs[x]) \in Nat
        /\ FirstAddress <= u.objs[x].addr /\ u.objs[x].addr < End(u.objs[x])
        /\ End(u.objs[x]) <= u.top
  BY <1>1 DEF WellPlaced, Placed, End
<1>3. PICK w : w \in DOMAIN u.objs
  OBVIOUS
<1>4. FirstAddress <= u.top
  BY <1>1, <1>2, <1>3 DEF FirstAddress
<1>5. [lo |-> u.top, hi |-> u.top + 1] \in Segments(u)
  BY DEF Segments, Marker
<1>6. \A e \in Segments(u) : /\ e.lo \in Nat /\ e.hi \in Nat /\ e.lo <= e.hi
                             /\ FirstAddress <= e.lo /\ e.hi <= u.top + 1
  <2> TAKE e \in Segments(u)
  <2>1. CASE e \in Marker(u)
    BY <1>1, <1>4, <2>1 DEF Marker, FirstAddress
  <2>2. CASE \E x \in WithData(u) : e = [lo |-> u.objs[x].addr, hi |-> End(u.objs[x])]
    BY <1>1, <1>2, <2>2 DEF WithData, FirstAddress
  <2> QED BY <2>1, <2>2 DEF Segments
<1>7. \A e \in E : /\ e.lo \in Nat /\ e.hi \in 0 .. u.top + 8 /\ FirstAddress <= e.lo
  <2> TAKE e \in E
  <2>1. CASE e \in Segments(u)
    BY <1>1, <1>6, <2>1 DEF FirstAddress
  <2>2. CASE \E x \in Addressed(u) : e = [lo |-> u.objs[x].addr, hi |-> u.objs[x].addr + 8]
    BY <1>1, <1>2, <2>2 DEF Addressed, FirstAddress
  <2> QED BY <2>1, <2>2 DEF Extents
<1>8. E # {} /\ Segments(u) \subseteq E
  BY <1>5 DEF Extents
<1>9. L \subseteq Nat /\ L # {} /\ H \subseteq 0 .. u.top + 8 /\ H # {}
  <2> HIDE DEF E
  <2> QED BY <1>7, <1>8
<1>10. Low(u) \in L /\ Low(u) \in Nat /\ \A y \in L : Low(u) <= y
  <2> HIDE DEF L
  <2>1. Min(L) \in L /\ Min(L) \in Nat /\ \A y \in L : Min(L) <= y
    BY <1>9, MinFacts
  <2> QED BY <2>1 DEF Low, L
<1>11. High(u) \in H /\ High(u) \in Nat /\ \A y \in H : High(u) >= y
  <2> HIDE DEF H
  <2>1. u.top + 8 \in Nat
    BY <1>1
  <2>2. Max(H) \in H /\ Max(H) \in Nat /\ \A y \in H : Max(H) >= y
    BY <1>9, <2>1, MaxFacts
  <2> QED BY <2>2 DEF High, H
<1>12. FirstAddress <= Low(u)
  BY <1>7, <1>10
<1>13. \A e \in E : Low(u) <= e.lo /\ e.hi <= High(u)
  <2> TAKE e \in E
  <2>1. e.lo \in L /\ e.hi \in H
    OBVIOUS
  <2>2. e.hi \in Nat
    BY <1>7
  <2> QED BY <1>10, <1>11, <2>1, <2>2
<1>14. Low(u) <= u.top /\ u.top + 1 <= High(u)
  BY <1>5, <1>8, <1>13
<1>15. \A x \in Seen(u) : Low(u) <= u.objs[x].addr /\ u.objs[x].addr < High(u)
  <2> TAKE x \in Seen(u)
  <2>1. \E e \in E : e.lo = u.objs[x].addr
    <3>1. CASE x \in WithData(u)
      <4> DEFINE e == [lo |-> u.objs[x].addr, hi |-> End(u.objs[x])]
      <4>1. e \in Segments(u)
        BY <3>1 DEF Segments
      <4> QED BY <4>1, <1>8
    <3>2. CASE x \in Addressed(u)
      <4> DEFINE e == [lo |-> u.objs[x].addr, hi |-> u.objs[x].addr + 8]
      <4>1. e \in E
        BY <3>2 DEF Extents
      <4> QED BY <4>1
    <3> QED BY <3>1, <3>2 DEF Seen
  <2>2. x \in DOMAIN u.objs
    BY <1>1 DEF Seen, WithData, Addressed
  <2>3. Low(u) <= u.objs[x].addr
    BY <2>1, <1>13
  <2>4. u.objs[x].addr < High(u)
    BY <1>1, <1>2, <1>11, <1>14, <2>2
  <2> QED BY <2>3, <2>4
<1>16. \A e \in Segments(u) : /\ e.lo \in Nat /\ e.hi \in Nat
                              /\ Low(u) <= e.lo /\ e.lo <= e.hi /\ e.hi <= High(u)
  BY <1>6, <1>8, <1>13
<1> QED BY <1>8, <1>10, <1>11, <1>12, <1>14, <1>15, <1>16

LEMMA NoExtents ==
  ASSUME NEW u, ValidUnit(u), DOMAIN u.objs = {}
  PROVE  Extents(u) = {} /\ Segments(u) = {}
BY DEF ValidUnit, Extents, Segments, Marker, WithData, Addressed

(* One merge: the block lands at or above the old top, and the new top is  *)
(* above it; a unit without storage changes nothing.                       *)
LEMMA MergeFacts ==
  ASSUME NEW u, ValidUnit(u), NEW t \in Nat
  PROVE  /\ Delta(u, t) \in Int /\ TopAfter(u, t) \in Nat /\ t <= TopAfter(u, t)
         /\ DOMAIN u.objs # {} =>
              /\ t <= Low(u) + Delta(u, t)
              /\ High(u) + Delta(u, t) <= TopAfter(u, t)
<1>1. CASE DOMAIN u.objs = {}
  BY <1>1, NoExtents DEF Delta, TopAfter
<1>2. CASE DOMAIN u.objs # {} /\ t = 0
  <2>1. /\ Extents(u) # {} /\ Low(u) \in Nat /\ High(u) \in Nat
    BY <1>2, ExtentFacts
  <2>2. Delta(u, t) = 0 /\ TopAfter(u, t) = High(u)
    BY <1>2, <2>1 DEF Delta, TopAfter
  <2> QED BY <1>2, <2>1, <2>2
<1>3. CASE DOMAIN u.objs # {} /\ t # 0
  <2>1. /\ Extents(u) # {} /\ Low(u) \in Nat /\ High(u) \in Nat
        /\ Low(u) <= u.top /\ u.top + 1 <= High(u) /\ u.top \in Nat
    BY <1>3, ExtentFacts DEF ValidUnit
  <2>2. Delta(u, t) = NewBase(t) - Low(u) /\ TopAfter(u, t) = NewBase(t) + High(u) - Low(u)
    BY <1>3, <2>1 DEF Delta, TopAfter
  <2>3. NewBase(t) \in Nat /\ NewBase(t) >= t
    BY AlignUp8 DEF NewBase
  <2> QED BY <2>1, <2>2, <2>3
<1> QED BY <1>1, <1>2, <1>3

(* A unit whose first object is seen moves by a multiple of 8.             *)
LEMMA AnchoredDelta ==
  ASSUME NEW u, ValidUnit(u), NEW t \in Nat, Anchored(u)
  PROVE  Delta(u, t) % 8 = 0
<1>1. PICK x \in Seen(u) : u.objs[x].addr = FirstAddress
  BY DEF Anchored
<1>2. x \in DOMAIN u.objs
  BY DEF Seen, WithData, Addressed, ValidUnit
<1>3. Low(u) = 8 /\ Extents(u) # {}
  <2>1. Low(u) \in Nat /\ FirstAddress <= Low(u) /\ Low(u) <= u.objs[x].addr /\ Extents(u) # {}
    BY <1>2, ExtentFacts
  <2> QED BY <2>1, <1>1 DEF FirstAddress
<1>4. NewBase(t) \in Nat /\ NewBase(t) % 8 = 0
  BY AlignUp8 DEF NewBase
<1>5. Delta(u, t) = 0 \/ Delta(u, t) = NewBase(t) - 8
  BY <1>3 DEF Delta
<1> QED BY <1>4, <1>5

(* Every tracked reference of the unit is moved by the same delta.         *)
RelocatedRef(u, k, d, r) ==
  /\ r.unit = k /\ r.obj \in DOMAIN u.objs /\ r.value \in Int
  /\ r.via \in {"segment", "code", "global", "data", "store"}
  /\ r.via # "store" /\ (r.via = "data" => ~u.disk) => r.value = u.objs[r.obj].addr + d

LEMMA RefsFacts ==
  ASSUME NEW u, ValidUnit(u), NEW t \in Nat, NEW k
  PROVE  \A r \in Refs(k, u, Delta(u, t)) :
           /\ RelocatedRef(u, k, Delta(u, t), r)
           /\ r \in [unit : {k}, obj : DOMAIN u.objs,
                     via : {"segment", "code", "global", "data", "store"}, value : Int]
<1> DEFINE d == Delta(u, t)
           R(x, via, value) == [unit |-> k, obj |-> x, via |-> via, value |-> value]
<1>1. d \in Int
  BY MergeFacts
<1>2. \A x \in DOMAIN u.objs : u.objs[x].addr \in Int
  BY DEF ValidUnit, Placed
<1>3. \A x \in DOMAIN u.objs : u.objs[x].global =>
        GlobalValue(u, u.objs[x].addr, d) = u.objs[x].addr + d
  <2> SUFFICES ASSUME NEW x \in DOMAIN u.objs, u.objs[x].global
               PROVE  GlobalValue(u, u.objs[x].addr, d) = u.objs[x].addr + d
    OBVIOUS
  <2>1. x \in Seen(u)
    BY DEF Seen, Addressed
  <2>2. Low(u) <= u.objs[x].addr /\ u.objs[x].addr < High(u)
    BY <2>1, ExtentFacts
  <2> HIDE DEF d
  <2> QED BY <1>1, <1>2, <2>2 DEF GlobalValue
<1> HIDE DEF d
<1> SUFFICES ASSUME NEW r \in Refs(k, u, d)
             PROVE  /\ RelocatedRef(u, k, d, r)
                    /\ r \in [unit : {k}, obj : DOMAIN u.objs,
                              via : {"segment", "code", "global", "data", "store"}, value : Int]
  BY DEF d
<1>4. CASE \E x \in WithData(u) : r = R(x, "segment", u.objs[x].addr + d)
  BY <1>1, <1>2, <1>4 DEF WithData, RelocatedRef
<1>5. CASE \E x \in u.code : r = R(x, "code", u.objs[x].addr + d)
  BY <1>1, <1>2, <1>5 DEF ValidUnit, RelocatedRef
<1>6. CASE \E x \in {y \in DOMAIN u.objs : u.objs[y].global} :
             r = R(x, "global", GlobalValue(u, u.objs[x].addr, d))
  BY <1>1, <1>2, <1>3, <1>6 DEF RelocatedRef
<1>7. CASE \E p \in u.pointers :
             r = R(p[2], "data", IF u.disk THEN u.objs[p[2]].addr ELSE u.objs[p[2]].addr + d)
  <2>1. \A p \in u.pointers : p[2] \in DOMAIN u.objs
    BY DEF ValidUnit
  <2> QED BY <1>1, <1>2, <1>7, <2>1 DEF RelocatedRef
<1>8. CASE \E x \in u.stores : r = R(x, "store", u.objs[x].addr)
  BY <1>2, <1>8 DEF ValidUnit, RelocatedRef
<1> QED BY <1>4, <1>5, <1>6, <1>7, <1>8 DEF Refs

-----------------------------------------------------------------------------
(* The invariant, by the blocks of the units merged so far: each object    *)
(* has moved by its unit's delta, lies below dataTop and below the marker, *)
(* and the covered objects of a unit lie above all of the units before it. *)
Home(k, x) == input[k].objs[x].addr + deltas[k]
HomeEnd(k, x) == End(input[k].objs[x]) + deltas[k]
CoveredIn(u, x) == \E y \in Seen(u) : u.objs[y].addr <= u.objs[x].addr

Relocated == \A r \in refs : Tracked(r) => r.value = Home(r.unit, r.obj)
BelowTop ==
  \A k \in DOMAIN deltas : \A x \in DOMAIN input[k].objs :
    HomeEnd(k, x) <= dataTop /\ \E e \in segs : HomeEnd(k, x) <= e
BlocksApart ==
  \A k, l \in DOMAIN deltas : k < l =>
    \A x \in DOMAIN input[k].objs, y \in DOMAIN input[l].objs :
      CoveredIn(input[l], y) => HomeEnd(k, x) <= Home(l, y)
DeltasAligned == \A k \in DOMAIN deltas : Anchored(input[k]) => deltas[k] % 8 = 0

IInv == /\ TypeOK /\ Relocated /\ BelowTop /\ BlocksApart /\ DeltasAligned
        /\ phase = "linked" => base = HeapBaseOver(segs)

LEMMA InitIInv == Init => IInv
<1> SUFFICES ASSUME Init PROVE IInv
  OBVIOUS
<1>1. TypeOK
  BY InputsAssumption DEF Init, TypeOK
<1>2. DOMAIN deltas = {} /\ refs = {} /\ phase = "merge"
  BY DEF Init
<1> QED BY <1>1, <1>2 DEF IInv, Relocated, BelowTop, BlocksApart, DeltasAligned

(* What the objects of a unit are, in integers. *)
LEMMA UnitFacts ==
  ASSUME NEW u, ValidUnit(u)
  PROVE  /\ \A x \in DOMAIN u.objs : /\ u.objs[x].addr \in Nat /\ u.objs[x].size \in Nat
                                     /\ End(u.objs[x]) = u.objs[x].addr + u.objs[x].size
                                     /\ End(u.objs[x]) \in Nat /\ End(u.objs[x]) <= u.top
                                     /\ u.objs[x].align \in Align
                                     /\ u.objs[x].addr % u.objs[x].align = 0
         /\ u.top \in Nat /\ Seen(u) \subseteq DOMAIN u.objs
  BY DEF ValidUnit, Placed, WellPlaced, End, Seen, WithData, Addressed

LEMMA MergeIInv ==
  ASSUME IInv, MergeOne
  PROVE  IInv'
<1> PICK k \in Nat \ {0}, u \in Units : k = Len(deltas) + 1 /\ k \in DOMAIN input /\ u = input[k]
  BY DEF IInv, TypeOK, MergeOne
<1> PICK t \in Nat : t = dataTop
  BY DEF IInv, TypeOK
<1> DEFINE d == Delta(u, t)
           top == TopAfter(u, t)
<1>u. ValidUnit(u)
  BY UnitsAssumption
<1>1. /\ deltas' = Append(deltas, d) /\ refs' = refs \cup Refs(k, u, d)
      /\ segs' = segs \cup {e.hi + d : e \in Segments(u)} /\ dataTop' = top
      /\ input' = input /\ base' = base /\ phase' = "merge"
  BY DEF MergeOne
<1>2. /\ d \in Int /\ top \in Nat /\ t <= top
      /\ DOMAIN u.objs # {} => t <= Low(u) + d /\ High(u) + d <= top
  BY <1>u, MergeFacts
<1>3. \A r \in Refs(k, u, d) :
        /\ RelocatedRef(u, k, d, r)
        /\ r \in [unit : {k}, obj : DOMAIN u.objs,
                  via : {"segment", "code", "global", "data", "store"}, value : Int]
  BY <1>u, RefsFacts
<1>4. Anchored(u) => d % 8 = 0
  BY <1>u, AnchoredDelta
<1> HIDE DEF d, top
<1>5. /\ deltas \in Seq(Int) /\ DOMAIN deltas = 1 .. k - 1 /\ DOMAIN deltas' = 1 .. k
      /\ deltas' \in Seq(Int) /\ Len(deltas') = k /\ deltas'[k] = d
      /\ \A j \in DOMAIN deltas : deltas'[j] = deltas[j] /\ j < k
  BY <1>1, <1>2 DEF IInv, TypeOK
<1>6. /\ input \in Seq(Units) /\ k <= Len(input) /\ segs \subseteq 0 .. t
      /\ \A j \in DOMAIN input : input[j] \in Units
  BY DEF IInv, TypeOK
<1>e. \A e \in Segments(u) : e.hi + d \in 0 .. top /\ e.hi \in Nat
  <2> TAKE e \in Segments(u)
  <2>1. DOMAIN u.objs # {}
    BY <1>u, NoExtents
  <2>2. /\ Low(u) \in Nat /\ High(u) \in Nat /\ e.lo \in Nat /\ e.hi \in Nat
        /\ Low(u) <= e.lo /\ e.lo <= e.hi /\ e.hi <= High(u)
    BY <1>u, <2>1, ExtentFacts
  <2> QED BY <1>2, <2>1, <2>2
<1>7. TypeOK'
  <2>1. segs' \subseteq 0 .. dataTop'
    <3> SUFFICES ASSUME NEW e \in segs' PROVE e \in 0 .. top
      BY <1>1
    <3>1. CASE e \in segs
      BY <1>2, <1>6, <3>1
    <3>2. CASE \E f \in Segments(u) : e = f.hi + d
      BY <1>e, <3>2
    <3> QED BY <1>1, <3>1, <3>2
  <2>2. refs' \subseteq Ref'
    <3>1. Refs(k, u, d) \subseteq Ref
      BY <1>3, <1>u DEF Ref, ValidUnit
    <3>2. Ref' = Ref
      BY <1>1 DEF Ref
    <3> QED BY <1>1, <3>1, <3>2 DEF IInv, TypeOK
  <2>3. \A r \in refs' : r.unit <= Len(deltas') /\ r.obj \in DOMAIN input'[r.unit].objs
    <3> TAKE r \in refs'
    <3>1. CASE r \in refs
      <4>1. r.unit \in DOMAIN input /\ r.unit <= Len(deltas) /\ r.obj \in DOMAIN input[r.unit].objs
        BY <3>1 DEF IInv, TypeOK, Ref, Unit
      <4> QED BY <1>1, <1>5, <1>6, <4>1
    <3>2. CASE r \in Refs(k, u, d)
      BY <1>1, <1>3, <1>5, <3>2 DEF RelocatedRef
    <3> QED BY <1>1, <3>1, <3>2
  <2>4. base' \in Nat
    BY <1>1 DEF IInv, TypeOK
  <2> QED BY <1>1, <1>2, <1>5, <1>6, <2>1, <2>2, <2>3, <2>4 DEF TypeOK, Unit
<1>8. Relocated'
  <2> SUFFICES ASSUME NEW r \in refs', Tracked(r)'
               PROVE  r.value = Home(r.unit, r.obj)'
    BY DEF Relocated
  <2>0. Tracked(r)
    BY <1>1 DEF Tracked, Unit
  <2>1. CASE r \in refs
    <3>1. r.unit \in DOMAIN deltas
      BY <2>1, <1>5 DEF IInv, TypeOK, Ref
    <3> QED BY <1>1, <1>5, <2>0, <2>1, <3>1 DEF IInv, Relocated, Home
  <2>2. CASE r \in Refs(k, u, d)
    BY <1>1, <1>3, <1>5, <2>0, <2>2 DEF RelocatedRef, Tracked, Unit, Home
  <2> QED BY <1>1, <2>1, <2>2
<1>9. BelowTop'
  <2> SUFFICES ASSUME NEW j \in DOMAIN deltas', NEW x \in DOMAIN input[j].objs
               PROVE  HomeEnd(j, x)' <= dataTop' /\ \E e \in segs' : HomeEnd(j, x)' <= e
    BY <1>1 DEF BelowTop
  <2>1. CASE j \in DOMAIN deltas
    <3>1. HomeEnd(j, x)' = HomeEnd(j, x)
      BY <1>1, <1>5, <2>1 DEF HomeEnd, End
    <3>2. HomeEnd(j, x) <= t /\ \E e \in segs : HomeEnd(j, x) <= e
      BY <2>1 DEF IInv, BelowTop
    <3>3. HomeEnd(j, x) \in Int
      BY <1>5, <1>6, <2>1, UnitsAssumption, UnitFacts DEF HomeEnd
    <3> QED BY <1>1, <1>2, <3>1, <3>2, <3>3
  <2>2. CASE j = k
    <3>1. HomeEnd(j, x)' = End(u.objs[x]) + d /\ x \in DOMAIN u.objs
      BY <1>1, <1>5, <2>2 DEF HomeEnd, End
    <3>2. End(u.objs[x]) \in Nat /\ End(u.objs[x]) <= u.top /\ u.top \in Nat
      BY <1>u, <3>1, UnitFacts
    <3>3. High(u) \in Nat /\ u.top + 1 <= High(u)
      BY <1>u, <3>1, ExtentFacts
    <3>4. u.top + 1 + d \in segs'
      <4>1. [lo |-> u.top, hi |-> u.top + 1] \in Segments(u)
        BY <3>1 DEF Segments, Marker
      <4> QED BY <1>1, <4>1
    <3>5. End(u.objs[x]) + d <= top /\ End(u.objs[x]) + d <= u.top + 1 + d
      BY <1>2, <3>1, <3>2, <3>3
    <3>6. HomeEnd(j, x)' <= dataTop'
      BY <1>1, <3>1, <3>5
    <3>7. HomeEnd(j, x)' <= u.top + 1 + d
      BY <3>1, <3>5
    <3> QED BY <3>4, <3>6, <3>7
  <2> QED BY <1>5, <2>1, <2>2
<1>10. BlocksApart'
  <2> SUFFICES ASSUME NEW i \in DOMAIN deltas', NEW j \in DOMAIN deltas', i < j,
                      NEW x \in DOMAIN input[i].objs, NEW y \in DOMAIN input[j].objs,
                      CoveredIn(input[j], y)
               PROVE  HomeEnd(i, x)' <= Home(j, y)'
    BY <1>1 DEF BlocksApart, CoveredIn, Seen, WithData, Addressed
  <2>1. i \in DOMAIN deltas /\ HomeEnd(i, x)' = HomeEnd(i, x)
    BY <1>1, <1>5 DEF HomeEnd, End
  <2>2. CASE j \in DOMAIN deltas
    <3>1. Home(j, y)' = Home(j, y)
      BY <1>1, <1>5, <2>2 DEF Home
    <3> QED BY <2>1, <2>2, <3>1 DEF IInv, BlocksApart
  <2>3. CASE j = k
    <3>1. Home(j, y)' = u.objs[y].addr + d /\ y \in DOMAIN u.objs
      BY <1>1, <1>5, <2>3 DEF Home
    <3>2. PICK z \in Seen(u) : u.objs[z].addr <= u.objs[y].addr
      BY <2>3 DEF CoveredIn
    <3>3. Low(u) \in Nat /\ Low(u) <= u.objs[z].addr
      BY <1>u, <3>1, ExtentFacts
    <3>4. u.objs[z].addr \in Nat /\ u.objs[y].addr \in Nat
      BY <1>u, <3>1, UnitFacts
    <3>5. HomeEnd(i, x) <= t /\ HomeEnd(i, x) \in Int
      BY <1>5, <1>6, <2>1, UnitsAssumption, UnitFacts DEF IInv, BelowTop, HomeEnd
    <3> QED BY <1>2, <2>1, <3>1, <3>2, <3>3, <3>4, <3>5
  <2> QED BY <1>5, <2>2, <2>3
<1>11. DeltasAligned'
  <2> SUFFICES ASSUME NEW j \in DOMAIN deltas', Anchored(input[j])
               PROVE  deltas'[j] % 8 = 0
    BY <1>1 DEF DeltasAligned, Anchored, Seen, WithData, Addressed
  <2>1. CASE j \in DOMAIN deltas
    BY <1>5, <2>1 DEF IInv, DeltasAligned
  <2>2. CASE j = k
    BY <1>4, <1>5, <2>2
  <2> QED BY <1>5, <2>1, <2>2
<1> QED BY <1>1, <1>7, <1>8, <1>9, <1>10, <1>11 DEF IInv

LEMMA Crt0IInv ==
  ASSUME IInv, Crt0
  PROVE  IInv'
<1>1. /\ UNCHANGED <<input, deltas, dataTop, refs, segs>>
      /\ base' = HeapBaseOver(segs) /\ phase' = "linked"
  BY DEF Crt0
<1>2. HeapBaseOver(segs) \in Nat
  <2>1. CASE segs = {}
    BY <2>1 DEF HeapBaseOver
  <2>2. CASE segs # {}
    <3>1. Max(segs) \in Nat
      BY <2>2, MaxFacts DEF IInv, TypeOK
    <3> QED BY <2>2, <3>1, AlignUp8 DEF HeapBaseOver
  <2> QED BY <2>1, <2>2
<1>3. TypeOK'
  BY <1>1, <1>2 DEF IInv, TypeOK, Ref, Unit
<1>4. Relocated'
  BY <1>1 DEF IInv, Relocated, Tracked, Unit, Home
<1>5. BelowTop'
  BY <1>1 DEF IInv, BelowTop, HomeEnd, End
<1>6. BlocksApart'
  BY <1>1 DEF IInv, BlocksApart, HomeEnd, Home, End, CoveredIn, Seen, WithData, Addressed
<1>7. DeltasAligned'
  BY <1>1 DEF IInv, DeltasAligned, Anchored, Seen, WithData, Addressed
<1>8. base' = HeapBaseOver(segs')
  BY <1>1 DEF HeapBaseOver
<1> QED BY <1>1, <1>3, <1>4, <1>5, <1>6, <1>7, <1>8 DEF IInv, HeapBaseOver

LEMMA StutterIInv ==
  ASSUME IInv, UNCHANGED vars
  PROVE  IInv'
<1>1. UNCHANGED <<input, deltas, dataTop, refs, segs, base, phase>>
  BY DEF vars
<1>3. TypeOK'
  BY <1>1 DEF IInv, TypeOK, Ref, Unit
<1>4. Relocated'
  BY <1>1 DEF IInv, Relocated, Tracked, Unit, Home
<1>5. BelowTop'
  BY <1>1 DEF IInv, BelowTop, HomeEnd, End
<1>6. BlocksApart'
  BY <1>1 DEF IInv, BlocksApart, HomeEnd, Home, End, CoveredIn, Seen, WithData, Addressed
<1>7. DeltasAligned'
  BY <1>1 DEF IInv, DeltasAligned, Anchored, Seen, WithData, Addressed
<1>8. phase' = "linked" => base' = HeapBaseOver(segs')
  BY <1>1 DEF IInv, HeapBaseOver
<1> QED BY <1>3, <1>4, <1>5, <1>6, <1>7, <1>8 DEF IInv

LEMMA Inductive == Spec => []IInv
<1>1. IInv /\ [Next]_vars => IInv'
  BY MergeIInv, Crt0IInv, StutterIInv DEF Next, Finished
<1> QED BY <1>1, InitIInv, PTL DEF Spec

(* What a tracked reference says of its object. *)
LEMMA TrackedFacts ==
  ASSUME IInv, NEW r \in refs, Tracked(r)
  PROVE  /\ r.unit \in DOMAIN deltas /\ r.unit \in DOMAIN input /\ r.unit \in Nat
         /\ ValidUnit(input[r.unit]) /\ r.obj \in DOMAIN input[r.unit].objs
         /\ r.value = Home(r.unit, r.obj) /\ r.value \in Int
         /\ deltas[r.unit] \in Int /\ Obj(r).size \in Nat
         /\ r.value + Obj(r).size = HomeEnd(r.unit, r.obj)
<1>1. /\ r \in Ref /\ r.unit <= Len(deltas) /\ r.obj \in DOMAIN input[r.unit].objs
      /\ deltas \in Seq(Int) /\ input \in Seq(Units)
  BY DEF IInv, TypeOK, Unit
<1>2. r.unit \in DOMAIN deltas /\ r.unit \in DOMAIN input /\ r.unit \in Nat
  BY <1>1 DEF Ref
<1>3. ValidUnit(input[r.unit]) /\ deltas[r.unit] \in Int
  BY <1>1, <1>2, UnitsAssumption
<1>4. r.value = Home(r.unit, r.obj)
  BY DEF IInv, Relocated
<1>5. /\ input[r.unit].objs[r.obj].addr \in Nat /\ input[r.unit].objs[r.obj].size \in Nat
      /\ End(input[r.unit].objs[r.obj])
           = input[r.unit].objs[r.obj].addr + input[r.unit].objs[r.obj].size
  BY <1>1, <1>3, UnitFacts
<1>6. Obj(r) = input[r.unit].objs[r.obj]
  BY DEF Obj, Unit
<1>7. r.value \in Int /\ r.value + Obj(r).size = HomeEnd(r.unit, r.obj) /\ Obj(r).size \in Nat
  BY <1>3, <1>4, <1>5, <1>6 DEF Home, HomeEnd
<1> QED BY <1>1, <1>2, <1>3, <1>4, <1>7

-----------------------------------------------------------------------------
(* Type correctness of the layout. *)
THEOREM TypeCorrect == Spec => []TypeOK
<1>1. IInv => TypeOK
  BY DEF IInv
<1> QED BY <1>1, Inductive, PTL

(* However many units are merged, the code, the address-global, the data   *)
(* segment and the recorded pointers of an object agree on its address.    *)
THEOREM OneAddressHolds == Spec => []OneAddress
<1>1. IInv => OneAddress
  BY DEF IInv, Relocated, OneAddress, SameObject
<1> QED BY <1>1, Inductive, PTL

(* No two covered objects of any two units share a byte. *)
THEOREM DisjointHolds == Spec => []Disjoint
<1>1. IInv => Disjoint
  <2> SUFFICES ASSUME IInv, NEW r \in refs, NEW s \in refs, Tracked(r), Tracked(s),
                      Covered(r), Covered(s), ~SameObject(r, s)
               PROVE  r.value + Obj(r).size <= s.value \/ s.value + Obj(s).size <= r.value
    BY DEF Disjoint
  <2>1. /\ r.unit \in DOMAIN deltas /\ s.unit \in DOMAIN deltas
        /\ r.unit \in Nat /\ s.unit \in Nat
        /\ r.obj \in DOMAIN input[r.unit].objs /\ s.obj \in DOMAIN input[s.unit].objs
        /\ r.value = Home(r.unit, r.obj) /\ s.value = Home(s.unit, s.obj)
        /\ r.value + Obj(r).size = HomeEnd(r.unit, r.obj)
        /\ s.value + Obj(s).size = HomeEnd(s.unit, s.obj)
        /\ ValidUnit(input[r.unit]) /\ deltas[r.unit] \in Int
    BY TrackedFacts
  <2>2. CoveredIn(input[r.unit], r.obj) /\ CoveredIn(input[s.unit], s.obj)
    BY DEF Covered, CoveredIn, Unit, Obj
  <2>3. CASE r.unit < s.unit
    BY <2>1, <2>2, <2>3 DEF IInv, BlocksApart
  <2>4. CASE s.unit < r.unit
    BY <2>1, <2>2, <2>4 DEF IInv, BlocksApart
  <2>5. CASE r.unit = s.unit
    <3> DEFINE u == input[r.unit]
    <3>1. r.obj # s.obj /\ r.obj \in DOMAIN u.objs /\ s.obj \in DOMAIN u.objs /\ ValidUnit(u)
      BY <2>1, <2>5 DEF SameObject
    <3>2. Apart(u.objs[r.obj], u.objs[s.obj])
      BY <3>1 DEF ValidUnit, WellPlaced
    <3>3. /\ End(u.objs[r.obj]) \in Nat /\ u.objs[r.obj].addr \in Nat
          /\ End(u.objs[s.obj]) \in Nat /\ u.objs[s.obj].addr \in Nat
      BY <3>1, UnitFacts
    <3> QED BY <2>1, <2>5, <3>2, <3>3 DEF Apart, Home, HomeEnd
  <2> QED BY <2>1, <2>3, <2>4, <2>5
<1> QED BY <1>1, Inductive, PTL

(* The heap lies above every static object. *)
THEOREM HeapAboveHolds == Spec => []HeapAbove
<1>1. IInv => HeapAbove
  <2> SUFFICES ASSUME IInv, phase = "linked"
               PROVE  base % 8 = 0 /\ \A r \in refs : Tracked(r) => r.value + Obj(r).size <= base
    BY DEF HeapAbove
  <2>1. base = HeapBaseOver(segs) /\ dataTop \in Nat /\ segs \subseteq 0 .. dataTop
    BY DEF IInv, TypeOK
  <2>2. base % 8 = 0 /\ base \in Nat /\ \A e \in segs : e <= base
    <3>1. CASE segs = {}
      BY <2>1, <3>1 DEF HeapBaseOver
    <3>2. CASE segs # {}
      <4>1. Max(segs) \in Nat /\ \A e \in segs : Max(segs) >= e
        BY <2>1, <3>2, MaxFacts
      <4>2. base = AlignUp(Max(segs), 8)
        BY <2>1, <3>2 DEF HeapBaseOver
      <4>3. base \in Nat /\ base >= Max(segs) /\ base % 8 = 0
        BY <4>1, <4>2, AlignUp8
      <4>4. \A e \in segs : e \in Int
        BY <2>1
      <4> QED BY <4>1, <4>3, <4>4
    <3> QED BY <3>1, <3>2
  <2>3. ASSUME NEW r \in refs, Tracked(r)
        PROVE  r.value + Obj(r).size <= base
    <3>1. /\ r.unit \in DOMAIN deltas /\ r.obj \in DOMAIN input[r.unit].objs
          /\ r.value + Obj(r).size = HomeEnd(r.unit, r.obj)
          /\ r.value \in Int /\ Obj(r).size \in Nat
      BY <2>3, TrackedFacts
    <3>2. PICK e \in segs : HomeEnd(r.unit, r.obj) <= e
      BY <3>1 DEF IInv, BelowTop
    <3>3. e \in Int /\ e <= base
      BY <2>1, <2>2
    <3> QED BY <2>2, <3>1, <3>2, <3>3
  <2> QED BY <2>2, <2>3
<1> QED BY <1>1, Inductive, PTL

(* Moving an aligned address by a multiple of eight keeps it aligned, as every
   alignment the layout uses divides eight. *)
LEMMA MoveAligned ==
  ASSUME NEW a \in Nat, NEW d \in Int, d % 8 = 0, NEW al \in Align, a % al = 0
  PROVE  (a + d) % al = 0
<1>1. CASE al = 1
  BY <1>1
<1>2. CASE al = 2
  <2>1. d % 2 = 0
    OBVIOUS
  <2>2. a % 2 = 0
    BY <1>2
  <2>3. PICK q \in Int : d = 2 * q
    BY <2>1
  <2>4. PICK t \in Int : a = 2 * t
    BY <2>2
  <2>5. a + d = 2 * (t + q) /\ t + q \in Int
    BY <2>3, <2>4
  <2> QED BY <1>2, <2>5
<1>3. CASE al = 4
  BY <1>3
<1>4. CASE al = 8
  BY <1>4
<1> QED BY <1>1, <1>2, <1>3, <1>4 DEF Align

(* The objects of anchored units keep their alignment. *)
THEOREM AlignedHolds == Spec => []Aligned
<1>1. IInv => Aligned
  <2> SUFFICES ASSUME IInv, NEW r \in refs, Tracked(r), Anchored(Unit(r))
               PROVE  r.value % Obj(r).align = 0
    BY DEF Aligned
  <2> DEFINE o == input[r.unit].objs[r.obj]
  <2>1. /\ r.value = o.addr + deltas[r.unit] /\ deltas[r.unit] \in Int
        /\ r.obj \in DOMAIN input[r.unit].objs /\ ValidUnit(input[r.unit])
        /\ r.unit \in DOMAIN deltas /\ Obj(r) = o
    BY TrackedFacts DEF Home, Obj, Unit
  <2>2. o.addr \in Nat /\ o.align \in Align /\ o.addr % o.align = 0
    BY <2>1, UnitFacts
  <2>3. deltas[r.unit] % 8 = 0
    BY <2>1 DEF IInv, DeltasAligned, Unit
  <2> HIDE DEF o
  <2> QED BY <2>1, <2>2, <2>3, MoveAligned
<1> QED BY <1>1, Inductive, PTL
=============================================================================
