----------------------------- MODULE DataLayout -----------------------------
(***************************************************************************)
(* Where the linker puts the static storage of the units it merges: every  *)
(* unit arrives laid out from address 8 (GlobalDataAllocator); mergeOne    *)
(* moves its block behind those merged before and relocates the references *)
(* it knows of (src/link/ModuleMerge.cpp), and crt0 puts the heap above    *)
(* the last data segment (src/link/Crt0Synth.cpp).  Memory 0 only: the     *)
(* placement memories hold no heap.  Addresses are integers; the code's    *)
(* 64-bit sums wrap around only where a difference is negative here.       *)
(***************************************************************************)
EXTENDS StaticStorage, FiniteSetsExt

CONSTANTS
  Units,   \* the units considered
  Inputs   \* the sequences of units considered, in merge order

(* A unit: its objects and top, the objects its code addresses, the        *)
(* pointers its data segments hold, the objects a guarded store in the     *)
(* code initializes (the static locals whose initializer is not encodable  *)
(* as data), and whether it was read from a .o file or an archive, which   *)
(* do not record the pointers of the data segments.                        *)
ValidUnit(u) ==
  /\ DOMAIN u.objs \subseteq Object /\ \A x \in DOMAIN u.objs : u.objs[x] \in Placed
  /\ u.top \in Nat /\ WellPlaced(u.objs, u.top)
  /\ u.code \subseteq DOMAIN u.objs /\ u.stores \subseteq DOMAIN u.objs
  /\ u.pointers \subseteq {x \in DOMAIN u.objs : u.objs[x].data} \X DOMAIN u.objs
  /\ u.disk \in BOOLEAN
ASSUME UnitsAssumption  == \A u \in Units : ValidUnit(u)
ASSUME InputsAssumption == Inputs \subseteq Seq(Units)

VARIABLES
  input,   \* the units
  deltas,  \* the dataDelta of each merge done so far
  dataTop, \* DedupState's dataTop: 0 until a unit has data
  refs,    \* the references to objects: [unit, obj, via, value]
  segs,    \* the ends of the data segments of the output
  base,    \* the init value of __heap_base
  phase    \* "merge" or "linked"

vars == <<input, deltas, dataTop, refs, segs, base, phase>>

-----------------------------------------------------------------------------
(* The marker of emitLinkableDataTopMarker and the objects' own segments.  *)
WithData(u) == {x \in DOMAIN u.objs : u.objs[x].data}
Addressed(u) == u.code \cup {x \in DOMAIN u.objs : u.objs[x].global}
MarkerMissing(u) == {}   \* fault: the linker is not told where .bss ends (#99)
Marker(u) == IF DOMAIN u.objs = {} THEN {} ELSE {[lo |-> u.top, hi |-> u.top + 1]}
Segments(u) ==
  {[lo |-> u.objs[x].addr, hi |-> End(u.objs[x])] : x \in WithData(u)} \cup Marker(u)

(* What mergeOne notes of the unit's block: its segments, and a word for   *)
(* each address in its code and in its address-globals.                    *)
ExtentsOfData(u) == Segments(u)   \* fault: a unit without a segment has no extent
Extents(u) ==
  Segments(u) \cup {[lo |-> u.objs[x].addr, hi |-> u.objs[x].addr + 8] : x \in Addressed(u)}
Low(u)  == Min({e.lo : e \in Extents(u)})    \* tuMin
High(u) == Max({e.hi : e \in Extents(u)})    \* tuMax

NewBaseUnaligned(top) == top   \* fault: not rounded up
NewBase(top) == AlignUp(top, 8)
Delta(u, top) == IF Extents(u) = {} \/ top = 0 THEN 0 ELSE NewBase(top) - Low(u)
TopAfter(u, top) ==
  CASE Extents(u) = {} -> top
    [] Extents(u) # {} /\ top = 0 -> High(u)
    [] Extents(u) # {} /\ top # 0 -> NewBase(top) + High(u) - Low(u)

(* The address-global of an object moves if its value lies in the block.   *)
GlobalValueInside(u, v, d) ==   \* fault: the lowest address is not inside
  IF d # 0 /\ Low(u) < v /\ v < High(u) THEN v + d ELSE v
GlobalValue(u, v, d) == IF d # 0 /\ Low(u) <= v /\ v < High(u) THEN v + d ELSE v

(* What a reference holds after the merge: the segment and the code sites  *)
(* are relocated, the pointers in data segments only if they were          *)
(* recorded, the guarded stores never.                                     *)
Refs(k, u, d) ==
  LET R(x, via, value) == [unit |-> k, obj |-> x, via |-> via, value |-> value]
      Addr(x) == u.objs[x].addr
      Kept(v) == IF u.disk THEN v ELSE v + d IN
  {R(x, "segment", Addr(x) + d) : x \in WithData(u)}
    \cup {R(x, "code", Addr(x) + d) : x \in u.code}
    \cup {R(x, "global", GlobalValue(u, Addr(x), d)) :
            x \in {y \in DOMAIN u.objs : u.objs[y].global}}
    \cup {R(p[2], "data", Kept(Addr(p[2]))) : p \in u.pointers}
    \cup {R(x, "store", Addr(x)) : x \in u.stores}

-----------------------------------------------------------------------------
Init ==
  /\ input \in Inputs
  /\ deltas = << >> /\ dataTop = 0 /\ refs = {} /\ segs = {}
  /\ base = 0 /\ phase = "merge"

MergeOne ==
  /\ phase = "merge" /\ Len(deltas) < Len(input)
  /\ LET k == Len(deltas) + 1
         u == input[k]
         d == Delta(u, dataTop) IN
     /\ deltas' = Append(deltas, d)
     /\ refs' = refs \cup Refs(k, u, d)
     /\ segs' = segs \cup {e.hi + d : e \in Segments(u)}
     /\ dataTop' = TopAfter(u, dataTop)
  /\ UNCHANGED <<input, base, phase>>

(* crt0's heap base: from the ends of the data segments, 0 without any.    *)
HeapBaseOver(ends) == IF ends = {} THEN 0 ELSE AlignUp(Max(ends), 8)

Crt0 ==
  /\ phase = "merge" /\ Len(deltas) = Len(input)
  /\ base' = HeapBaseOver(segs)
  /\ phase' = "linked"
  /\ UNCHANGED <<input, deltas, dataTop, refs, segs>>

Finished == phase = "linked" /\ UNCHANGED vars

Next == MergeOne \/ Crt0 \/ Finished
Spec == Init /\ [][Next]_vars

-----------------------------------------------------------------------------
Unit(r) == input[r.unit]
Obj(r) == Unit(r).objs[r.obj]
SameObject(r, s) == r.unit = s.unit /\ r.obj = s.obj

(* The references the linker relocates; RelocSection.cpp:64-71 excepts the *)
(* pointers in the data of separately compiled objects.                    *)
Tracked(r) == r.via # "store" /\ (r.via = "data" => ~Unit(r).disk)

(* The objects the linker can see, and those no lower than the first of    *)
(* them; the first object of a unit is at FirstAddress.                    *)
Seen(u) == WithData(u) \cup Addressed(u)
Covered(r) == \E x \in Seen(Unit(r)) : Unit(r).objs[x].addr <= Obj(r).addr
Anchored(u) == \E x \in Seen(u) : u.objs[x].addr = FirstAddress

Ref == [unit : DOMAIN input, obj : Object,
        via : {"segment", "code", "global", "data", "store"}, value : Int]

(* Type correctness; every data segment ends at or below dataTop.          *)
TypeOK ==
  /\ input \in Seq(Units) /\ deltas \in Seq(Int) /\ Len(deltas) <= Len(input)
  /\ dataTop \in Nat /\ segs \subseteq 0 .. dataTop
  /\ refs \subseteq Ref
  /\ \A r \in refs : r.unit <= Len(deltas) /\ r.obj \in DOMAIN Unit(r).objs
  /\ base \in Nat /\ phase \in {"merge", "linked"}

(* All the references to an object agree, and agree with where its bytes   *)
(* are put: code, address-global, pointer and data segment of one object   *)
(* are relocated by four different pieces of mergeOne.                     *)
OneAddress ==
  \A r, s \in refs : Tracked(r) /\ Tracked(s) /\ SameObject(r, s) => r.value = s.value

(* No two objects of the program share a byte, in whatever order units     *)
(* with and without initialized data are merged (see StaticsDisjoint for   *)
(* the objects that are not covered).                                      *)
Disjoint ==
  \A r, s \in refs :
    Tracked(r) /\ Tracked(s) /\ Covered(r) /\ Covered(s) /\ ~SameObject(r, s)
      => r.value + Obj(r).size <= s.value \/ s.value + Obj(s).size <= r.value

(* malloc's memory lies above every static object, those in .bss included. *)
HeapAbove ==
  phase = "linked" => /\ base % 8 = 0
                      /\ \A r \in refs : Tracked(r) => r.value + Obj(r).size <= base

(* Merging keeps the alignment code generation gave to the objects of a    *)
(* unit whose first object the linker sees.                                *)
Aligned ==
  \A r \in refs : Tracked(r) /\ Anchored(Unit(r)) => r.value % Obj(r).align = 0

-----------------------------------------------------------------------------
(* What the comment at ModuleMerge.cpp:320-325 says: the .bss objects are  *)
(* rebased to a region of their own, whichever references them.            *)
StaticsDisjoint ==
  \A r, s \in refs :
    Tracked(r) /\ Tracked(s) /\ ~SameObject(r, s)
      => r.value + Obj(r).size <= s.value \/ s.value + Obj(s).size <= r.value
=============================================================================
