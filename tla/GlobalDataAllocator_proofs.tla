--------------------- MODULE GlobalDataAllocator_proofs ---------------------
(***************************************************************************)
(* Proofs that the storage of every translation unit is well placed, and   *)
(* that the heap base and the data-top marker lie above it.                *)
(***************************************************************************)
EXTENDS GlobalDataAllocator, TLAPS

(* AlignUp returns a multiple of a that is at least n: the mask expression *)
(* of allocate() for the alignments there are.                             *)
LEMMA AlignUpFacts ==
  ASSUME NEW n \in Nat, NEW a \in Align
  PROVE  AlignUp(n, a) \in Nat /\ AlignUp(n, a) >= n /\ AlignUp(n, a) % a = 0
<1>1. CASE a = 1  BY <1>1 DEF AlignUp
<1>2. CASE a = 2  BY <1>2 DEF AlignUp
<1>4. CASE a = 4  BY <1>4 DEF AlignUp
<1>8. CASE a = 8  BY <1>8 DEF AlignUp
<1> QED BY <1>1, <1>2, <1>4, <1>8 DEF Align

(* The object allocate() places lies between the old top and the new one.  *)
LEMMA AllocatedFacts ==
  ASSUME NEW t \in Nat, NEW d \in Declaration
  PROVE  /\ Allocated(t, d) \in Placed /\ NewTop(t, d) \in Nat
         /\ t <= Allocated(t, d).addr
         /\ Allocated(t, d).addr % Allocated(t, d).align = 0
         /\ End(Allocated(t, d)) = NewTop(t, d) /\ t <= NewTop(t, d)
<1> DEFINE addr == AlignUp(t, AlignOf(d))
           b1 == d.data \/ d.kind = "string"
           b2 == d.kind = "def"
<1>1. AlignOf(d) \in Align
  BY DEF AlignOf, Declaration, Align
<1>2. SizeOf(d) \in Nat \ {0}
  BY DEF SizeOf, Declaration
<1>3. addr \in Nat /\ addr >= t /\ addr % AlignOf(d) = 0
  BY <1>1, AlignUpFacts
<1>4. b1 \in BOOLEAN /\ b2 \in BOOLEAN
  OBVIOUS
<1>5. Allocated(t, d) = [addr |-> addr, size |-> SizeOf(d), align |-> AlignOf(d),
                         data |-> b1, global |-> b2]
  BY DEF Allocated
<1>6. NewTop(t, d) = addr + SizeOf(d)
  BY DEF NewTop
<1> HIDE DEF addr, b1, b2
<1>7. Allocated(t, d) \in Placed
  BY <1>1, <1>2, <1>3, <1>4, <1>5 DEF Placed
<1>8. End(Allocated(t, d)) = NewTop(t, d)
  BY <1>5, <1>6 DEF End
<1>9. NewTop(t, d) \in Nat /\ t <= NewTop(t, d)
  BY <1>2, <1>3, <1>6
<1> QED BY <1>3, <1>5, <1>7, <1>8, <1>9

-----------------------------------------------------------------------------
(* TypeOK and StoragePlaced are inductive together: a new object starts at *)
(* or above the top below which all the others end.                        *)
IInv == /\ TypeOK
        /\ StoragePlaced
        /\ pc = "run" => marker = {}
        /\ pc = "done" => IF freestanding THEN heapBase = AlignUp(top, 8)
                                          ELSE top > FirstAddress => marker = {top}

LEMMA InitIInv == Init => IInv
<1> SUFFICES ASSUME Init PROVE IInv
  OBVIOUS
<1>1. DOMAIN objs = {}
  BY DEF Init, NoObjects
<1>2. source \in Seq(Declaration)
  BY SourcesAssumption DEF Init
<1>3. TypeOK
  BY <1>1, <1>2 DEF Init, TypeOK, FirstAddress
<1>4. StoragePlaced
  BY <1>1 DEF Init, StoragePlaced, WellPlaced
<1> QED BY <1>3, <1>4 DEF IInv, Init

(* A declaration of a known name changes no place, only the data flag.     *)
LEMMA KnownName ==
  ASSUME NEW os, NEW t \in Nat, WellPlaced(os, t), NEW d \in Declaration,
         DOMAIN os \subseteq Object, \A x \in DOMAIN os : os[x] \in Placed,
         d.name \in DOMAIN os
  PROVE  LET r == Register(t, os, d) IN
         /\ r.top = t /\ DOMAIN r.objs \subseteq Object
         /\ \A x \in DOMAIN r.objs : r.objs[x] \in Placed
         /\ WellPlaced(r.objs, r.top)
<1> DEFINE new == Register(t, os, d).objs
<1>1. Register(t, os, d).top = t /\ new = [os EXCEPT ![d.name].data = @ \/ d.data]
  BY DEF Register
<1>2. DOMAIN new = DOMAIN os
  BY <1>1
<1>3. (os[d.name].data \/ d.data) \in BOOLEAN
  OBVIOUS
<1>4. \A x \in DOMAIN os :
        /\ new[x] \in Placed /\ new[x].addr = os[x].addr
        /\ new[x].size = os[x].size /\ new[x].align = os[x].align
  <2> TAKE x \in DOMAIN os
  <2>1. CASE x = d.name
    <3> DEFINE b == os[d.name].data \/ d.data
    <3>1. b \in BOOLEAN
      BY <1>3
    <3>2. new[x] = [os[x] EXCEPT !.data = b]
      BY <1>1, <2>1
    <3> HIDE DEF b
    <3>3. [os[x] EXCEPT !.data = b] \in Placed
      BY <3>1 DEF Placed
    <3>4. os[x] \in Placed
      OBVIOUS
    <3> HIDE DEF new
    <3> QED BY <3>2, <3>3, <3>4 DEF Placed
  <2>2. CASE x # d.name
    BY <1>1, <2>2
  <2> QED BY <2>1, <2>2
<1> HIDE DEF new
<1>5. WellPlaced(new, t)
  BY <1>2, <1>4 DEF WellPlaced, Apart, End, FirstAddress
<1> QED BY <1>1, <1>2, <1>4, <1>5 DEF new

(* A new name is placed above everything placed so far.                    *)
LEMMA NewName ==
  ASSUME NEW os, NEW t \in Nat, t >= FirstAddress, WellPlaced(os, t), NEW d \in Declaration,
         DOMAIN os \subseteq Object, \A x \in DOMAIN os : os[x] \in Placed,
         d.name \notin DOMAIN os
  PROVE  LET r == Register(t, os, d) IN
         /\ r.top \in Nat /\ r.top >= t /\ DOMAIN r.objs \subseteq Object
         /\ \A x \in DOMAIN r.objs : r.objs[x] \in Placed
         /\ WellPlaced(r.objs, r.top)
<1> DEFINE r == Register(t, os, d)
           new == r.objs
           obj == Allocated(t, d)
           end == NewTop(t, d)
<1>1. /\ r.top = end
      /\ new = [x \in DOMAIN os \cup {d.name} |-> IF x = d.name THEN obj ELSE os[x]]
  BY DEF Register
<1>2. /\ obj \in Placed /\ end \in Nat /\ t <= obj.addr
      /\ obj.addr % obj.align = 0 /\ End(obj) = end /\ t <= end
  BY AllocatedFacts
<1>3. DOMAIN new = DOMAIN os \cup {d.name}
  BY <1>1
<1>4. new[d.name] = obj /\ \A x \in DOMAIN os : new[x] = os[x]
  BY <1>1
<1>5. d.name \in Object
  BY DEF Declaration
<1> HIDE DEF new, obj, end
<1>6. \A x \in DOMAIN new : new[x] \in Placed
  BY <1>2, <1>3, <1>4
<1>7. \A x \in DOMAIN new : /\ new[x].addr % new[x].align = 0
                            /\ FirstAddress <= new[x].addr /\ End(new[x]) <= end
  <2> TAKE x \in DOMAIN new
  <2>1. CASE x = d.name
    BY <1>2, <1>4, <2>1 DEF Placed, FirstAddress
  <2>2. CASE x # d.name
    <3>1. x \in DOMAIN os /\ new[x] = os[x]
      BY <1>3, <1>4, <2>2
    <3> QED BY <1>2, <3>1 DEF WellPlaced, Placed, End
  <2> QED BY <2>1, <2>2
<1>8. \A x, y \in DOMAIN new : x # y => Apart(new[x], new[y])
  <2> SUFFICES ASSUME NEW x \in DOMAIN new, NEW y \in DOMAIN new, x # y
               PROVE  Apart(new[x], new[y])
    OBVIOUS
  <2>1. CASE x # d.name /\ y # d.name
    BY <1>3, <1>4, <2>1 DEF WellPlaced
  <2>2. CASE x = d.name
    <3>1. y \in DOMAIN os /\ new[y] = os[y] /\ new[x] = obj
      BY <1>3, <1>4, <2>2
    <3> QED BY <1>2, <3>1 DEF WellPlaced, Apart, Placed, End
  <2>3. CASE y = d.name
    <3>1. x \in DOMAIN os /\ new[x] = os[x] /\ new[y] = obj
      BY <1>3, <1>4, <2>3
    <3> QED BY <1>2, <3>1 DEF WellPlaced, Apart, Placed, End
  <2> QED BY <2>1, <2>2, <2>3
<1>9. WellPlaced(new, end)
  <2>1. \E x \in DOMAIN new : new[x].addr = FirstAddress
    <3>1. CASE DOMAIN os = {}
      <4>1. t = 8 /\ AlignUp(8, AlignOf(d)) = 8
        BY <3>1 DEF WellPlaced, FirstAddress, AlignUp, AlignOf, Declaration, Align
      <4>2. obj.addr = 8
        BY <4>1 DEF obj, Allocated
      <4> QED BY <1>3, <1>4, <4>2 DEF FirstAddress
    <3>2. CASE DOMAIN os # {}
      BY <1>3, <1>4, <3>2 DEF WellPlaced
    <3> QED BY <3>1, <3>2
  <2> QED BY <1>3, <1>7, <1>8, <2>1 DEF WellPlaced
<1> HIDE DEF r
<1>10. WellPlaced(r.objs, r.top)
  BY <1>1, <1>9 DEF new
<1>11. \A x \in DOMAIN r.objs : r.objs[x] \in Placed
  BY <1>6 DEF new
<1>12. DOMAIN r.objs \subseteq Object
  BY <1>3, <1>5 DEF new
<1> QED BY <1>1, <1>2, <1>10, <1>11, <1>12 DEF r

LEMMA RegisterIInv ==
  ASSUME IInv, RegisterNext
  PROVE  IInv'
<1> PICK d \in Declaration : d = source[next]
  BY DEF IInv, TypeOK, RegisterNext
<1>u. /\ next' \in 1 .. Len(source) + 1 /\ source' = source /\ freestanding' = freestanding
      /\ marker' = {} /\ heapBase' = heapBase /\ pc' = "run"
  BY DEF IInv, TypeOK, RegisterNext
<1>r. top' = Register(top, objs, d).top /\ objs' = Register(top, objs, d).objs
  BY DEF RegisterNext
<1>t. /\ top \in Nat /\ top >= FirstAddress /\ DOMAIN objs \subseteq Object
      /\ \A x \in DOMAIN objs : objs[x] \in Placed
      /\ WellPlaced(objs, top)
  BY DEF IInv, TypeOK, StoragePlaced
<1>1. /\ top' \in Nat /\ top' >= FirstAddress /\ DOMAIN objs' \subseteq Object
      /\ \A x \in DOMAIN objs' : objs'[x] \in Placed
      /\ WellPlaced(objs', top')
  <2>1. CASE d.name \in DOMAIN objs
    BY <1>r, <1>t, <2>1, KnownName
  <2>2. CASE d.name \notin DOMAIN objs
    BY <1>r, <1>t, <2>2, NewName DEF FirstAddress
  <2> QED BY <2>1, <2>2
<1>2. TypeOK'
  BY <1>u, <1>1 DEF IInv, TypeOK
<1>3. StoragePlaced'
  BY <1>1 DEF StoragePlaced, WellPlaced, Apart, End, FirstAddress
<1> QED BY <1>2, <1>3, <1>u DEF IInv

LEMMA FinishIInv ==
  ASSUME IInv, FinishFreestanding \/ FinishLinkable
  PROVE  IInv'
<1>1. UNCHANGED <<source, freestanding, next, top, objs>> /\ pc' = "done"
  BY DEF FinishFreestanding, FinishLinkable
<1>2. top \in Nat /\ AlignUp(top, 8) \in Nat
  BY AlignUpFacts DEF IInv, TypeOK, Align
<1>3. marker' \subseteq {top} /\ heapBase' \in Nat
  BY <1>2 DEF IInv, TypeOK, FinishFreestanding, FinishLinkable, HeapBaseOf
<1>4. TypeOK'
  BY <1>1, <1>3 DEF IInv, TypeOK
<1>5. StoragePlaced'
  BY <1>1 DEF IInv, StoragePlaced, WellPlaced, Apart, End, FirstAddress
<1>6. IF freestanding' THEN heapBase' = AlignUp(top', 8)
                       ELSE top' > FirstAddress => marker' = {top'}
  BY <1>1 DEF FinishFreestanding, FinishLinkable, HeapBaseOf
<1> QED BY <1>1, <1>4, <1>5, <1>6 DEF IInv, FirstAddress, AlignUp

LEMMA StutterIInv ==
  ASSUME IInv, UNCHANGED vars
  PROVE  IInv'
<1>1. TypeOK'
  BY DEF vars, IInv, TypeOK
<1>2. StoragePlaced'
  BY DEF vars, IInv, StoragePlaced, WellPlaced, Apart, End, FirstAddress
<1> QED BY <1>1, <1>2 DEF vars, IInv, AlignUp, FirstAddress

LEMMA Inductive == Spec => []IInv
<1>1. IInv /\ [Next]_vars => IInv'
  BY RegisterIInv, FinishIInv, StutterIInv DEF Next, Finished
<1> QED BY <1>1, InitIInv, PTL DEF Spec

(* Type correctness of the allocator's state. *)
THEOREM TypeCorrect == Spec => []TypeOK
<1>1. IInv => TypeOK
  BY DEF IInv
<1> QED BY <1>1, Inductive, PTL

(* No two objects of a translation unit share a byte, all are aligned, for *)
(* any declarations.                                                       *)
THEOREM StoragePlacedHolds == Spec => []StoragePlaced
<1>1. IInv => StoragePlaced
  BY DEF IInv
<1> QED BY <1>1, Inductive, PTL

(* The heap base and the data-top marker lie above all static storage.     *)
THEOREM AboveStaticsHolds == Spec => []AboveStatics
<1>1. IInv => AboveStatics
  <2> SUFFICES ASSUME IInv, pc = "done", NEW x \in DOMAIN objs
               PROVE  IF freestanding THEN End(objs[x]) <= heapBase
                                      ELSE \E m \in marker : End(objs[x]) <= m
    BY DEF AboveStatics
  <2>1. /\ top \in Nat /\ objs[x] \in Placed /\ End(objs[x]) <= top
        /\ FirstAddress <= objs[x].addr
    BY DEF IInv, TypeOK, StoragePlaced, WellPlaced
  <2>2. End(objs[x]) \in Nat /\ top > FirstAddress
    BY <2>1 DEF Placed, End, FirstAddress
  <2>3. CASE freestanding
    <3>1. heapBase = AlignUp(top, 8)
      BY <2>3 DEF IInv
    <3>2. AlignUp(top, 8) \in Nat /\ AlignUp(top, 8) >= top
      BY <2>1, AlignUpFacts DEF Align
    <3> QED BY <2>1, <2>2, <2>3, <3>1, <3>2
  <2>4. CASE ~freestanding
    <3>1. marker = {top}
      BY <2>2, <2>4 DEF IInv
    <3> QED BY <2>1, <2>4, <3>1
  <2> QED BY <2>3, <2>4
<1> QED BY <1>1, Inductive, PTL
=============================================================================
