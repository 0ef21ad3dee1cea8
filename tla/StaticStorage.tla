--------------------------- MODULE StaticStorage ---------------------------
(***************************************************************************)
(* The static storage of one translation unit: GlobalDataAllocator hands   *)
(* out addresses of linear memory 0 upwards from 8, as ModuleCodegen meets *)
(* the file-scope objects, then the static locals and the string and       *)
(* compound literals of the functions (src/codegen/GlobalDataAllocator.cpp *)
(* and ModuleCodegen.cpp).  What an initializer's bytes are is left out:   *)
(* only whether they need a data segment.                                  *)
(***************************************************************************)
EXTENDS Integers, Sequences

CONSTANT Object   \* identities: file-scope names, static locals, literals

Align == {1, 2, 4, 8}

(* "def": a file-scope declaration that is not extern; "static": a static  *)
(* local or a compound literal; "string": a string literal, whose identity *)
(* is its content.  data: the initializer has a nonzero byte.              *)
Declaration == [kind : {"def", "static", "string"}, name : Object,
                size : Nat, align : Align \cup {0}, data : BOOLEAN]

-----------------------------------------------------------------------------
AlignUp(n, a) == ((n + a - 1) \div a) * a

(* What is known of an object: its place, whether a data segment holds its *)
(* bytes and whether a linkable unit exports an address-global for it (it  *)
(* does for every file-scope definition, the static ones included).        *)
Placed == [addr : Nat, size : Nat \ {0}, align : Align, data : BOOLEAN, global : BOOLEAN]

SizeOf(d)  == IF d.size = 0 THEN 4 ELSE d.size
AlignOf(d) == IF d.align = 0 THEN 4 ELSE d.align

(* allocate(), from registerGlobalVar, a static local or internString: the *)
(* object placed when the top is t, and the new top.                       *)
Allocated(t, d) ==
  [addr |-> AlignUp(t, AlignOf(d)), size |-> SizeOf(d), align |-> AlignOf(d),
   data |-> d.data \/ d.kind = "string", global |-> d.kind = "def"]
NewTopUnpadded(t, d) == t + SizeOf(d)   \* fault: the padding is not counted
NewTop(t, d) == AlignUp(t, AlignOf(d)) + SizeOf(d)

(* One declaration: a name already known keeps its storage, and only gains *)
(* a data segment if this declaration initializes it; a literal already    *)
(* interned is shared.                                                     *)
Register(t, os, d) ==
  IF d.name \in DOMAIN os
    THEN [top |-> t, objs |-> [os EXCEPT ![d.name].data = @ \/ d.data]]
    ELSE [top |-> NewTop(t, d),
          objs |-> [x \in DOMAIN os \cup {d.name} |->
                      IF x = d.name THEN Allocated(t, d) ELSE os[x]]]

FirstAddress == 8   \* below it: the null pointer
NoObjects == [x \in {} |-> {}]

End(o) == o.addr + o.size
Apart(o, p) == End(o) <= p.addr \/ End(p) <= o.addr

(* The storage of a unit: aligned, from the first address to the top, no   *)
(* byte shared.                                                            *)
WellPlaced(os, t) ==
  /\ IF DOMAIN os = {} THEN t = FirstAddress ELSE \E x \in DOMAIN os : os[x].addr = FirstAddress
  /\ \A x \in DOMAIN os : /\ os[x].addr % os[x].align = 0
                          /\ FirstAddress <= os[x].addr /\ End(os[x]) <= t
  /\ \A x, y \in DOMAIN os : x # y => Apart(os[x], os[y])
=============================================================================
