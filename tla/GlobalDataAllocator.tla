------------------------ MODULE GlobalDataAllocator ------------------------
(***************************************************************************)
(* Code generation of one translation unit, as far as its static storage   *)
(* goes: the declarations are registered one after another, then the top   *)
(* becomes the heap base of a freestanding module or the marker segment of *)
(* a linkable one (src/codegen/ModuleCodegen.cpp).                         *)
(***************************************************************************)
EXTENDS StaticStorage

CONSTANT Sources   \* the translation units considered: sequences of declarations

ASSUME SourcesAssumption == Sources \subseteq Seq(Declaration)

VARIABLES
  source,       \* the declarations, in the order code generation meets them
  freestanding, \* the compile mode
  next,         \* position of the next declaration
  top,          \* currentTop_
  objs,         \* the objects that have storage
  marker,       \* the data-top marker segment, if emitted
  heapBase,     \* the init value of __heap_base
  pc            \* "run" or "done"

vars == <<source, freestanding, next, top, objs, marker, heapBase, pc>>

(* finalizeFreestandingHeapBase: from the allocator's top, so that objects *)
(* without a segment count.                                                *)
Max0(S) == IF S = {} THEN 0 ELSE CHOOSE n \in S : \A m \in S : m <= n
HeapBaseFromSegments(t, os) ==   \* fault: only the data segments count
  AlignUp(Max0({os[x].addr + os[x].size : x \in {y \in DOMAIN os : os[y].data}}), 8)
HeapBaseOf(t, os) == AlignUp(t, 8)

-----------------------------------------------------------------------------
Init ==
  /\ source \in Sources /\ freestanding \in BOOLEAN
  /\ next = 1 /\ top = FirstAddress /\ objs = NoObjects
  /\ marker = {} /\ heapBase = 0 /\ pc = "run"

RegisterNext ==
  /\ pc = "run" /\ next \in DOMAIN source
  /\ LET r == Register(top, objs, source[next]) IN top' = r.top /\ objs' = r.objs
  /\ next' = next + 1
  /\ UNCHANGED <<source, freestanding, marker, heapBase, pc>>

FinishFreestanding ==
  /\ pc = "run" /\ next \notin DOMAIN source /\ freestanding
  /\ heapBase' = HeapBaseOf(top, objs)
  /\ pc' = "done"
  /\ UNCHANGED <<source, freestanding, next, top, objs, marker>>

(* emitLinkableDataTopMarker *)
FinishLinkable ==
  /\ pc = "run" /\ next \notin DOMAIN source /\ ~freestanding
  /\ marker' = IF top > FirstAddress THEN {top} ELSE {}
  /\ pc' = "done"
  /\ UNCHANGED <<source, freestanding, next, top, objs, heapBase>>

Finished == pc = "done" /\ UNCHANGED vars

Next == RegisterNext \/ FinishFreestanding \/ FinishLinkable \/ Finished
Spec == Init /\ [][Next]_vars

-----------------------------------------------------------------------------
(* Every variable holds a value of its C++ type, and every object has at   *)
(* least one byte.                                                         *)
TypeOK ==
  /\ source \in Seq(Declaration) /\ freestanding \in BOOLEAN
  /\ next \in 1 .. Len(source) + 1
  /\ top \in Nat /\ top >= FirstAddress
  /\ DOMAIN objs \subseteq Object /\ \A x \in DOMAIN objs : objs[x] \in Placed
  /\ marker \subseteq {top} /\ heapBase \in Nat /\ pc \in {"run", "done"}

(* Whatever the order and the sizes of the declarations, and however often *)
(* a name is declared again or a literal repeated, no two objects of the   *)
(* unit share a byte and each has the alignment of its type (registerGlobal*)
(* Var, static locals, internString together).                             *)
StoragePlaced == WellPlaced(objs, top)

(* The heap that malloc grows from __heap_base lies above every static     *)
(* object of a freestanding program, those without a data segment (.bss)   *)
(* included, and the linker is told of every unit that has storage: the    *)
(* marker lies above all of it (#99).                                      *)
AboveStatics ==
  pc = "done" => \A x \in DOMAIN objs :
    IF freestanding THEN End(objs[x]) <= heapBase
                    ELSE \E m \in marker : End(objs[x]) <= m
=============================================================================
