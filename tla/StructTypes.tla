---------------------------- MODULE StructTypes ----------------------------
(***************************************************************************)
(* A struct or union specifier on its way through the compiler: the parser *)
(* and the semantic pass fold its constant expressions and may already     *)
(* have asked for its size, LayoutEngine places its members one by one,    *)
(* and code generation reads the result through TypeMap.                   *)
(***************************************************************************)
EXTENDS ConstExprEval

CONSTANT Specifiers     \* the specifiers to lay out

(***************************************************************************)
(* codegen::LayoutEngine: where the members of a struct or union go.  The  *)
(* cursor counts bits; a field starts on the next byte that its alignment  *)
(* allows, a bit-field in the unit the cursor is in if it fits there.      *)
(*                                                                         *)
(* A member is [base, alignas, decls], a declarator of it                  *)
(* [d |-> declarator, width |-> <<>> or <<bits>>].  _Alignas is not looked *)
(* at, and a width is taken from literals only.                            *)
(***************************************************************************)
Box(size) == [sz |-> size, al |-> size]
BaseBox(b) == Box(IF b.b = "simple" THEN SimpleSize(b.s) ELSE 8)
IsSigned(b) == b.b # "simple" \/ ~IsUnsigned(b.s)

\* arrayCount: an unknown bound counts one element.
ArrayCount(bound) ==
  LET v == IF bound = <<>> THEN NoICE ELSE Evaluate(bound[1])
  IN IF v.ok /\ v.v > 0 THEN v.v ELSE 1

ApplyLayer(box, layer) ==
  IF layer.k = "ptr" THEN Box(8) ELSE [box EXCEPT !.sz = @ * ArrayCount(layer.n)]

\* applyDeclaratorToLayout
ApplyDeclaratorToLayout(box, d) ==
  FoldLeft(ApplyLayer, box, Reverse(BelowName(Chain(d))) \o AboveName(Chain(d)))

HasPointer(d) == \E i \in DOMAIN Chain(d) : Chain(d)[i].k = "ptr"
IsFlexible(su, i, d) == su.k = "struct" /\ IsLast(su, i) /\ ~HasPointer(d) /\ Unsized(d)

EmptyLayout == [size |-> 0, align |-> 1, bits |-> 0, max |-> 0, offsets |-> <<>>, bitFields |-> <<>>]
Bytes(bits) == (bits + 7) \div 8

PlaceField(su, l, name, box) ==
  LET off == IF su.k = "union" THEN 0 ELSE Padded(Bytes(l.bits), box.al)
  IN [l EXCEPT !.offsets = Append(@, [name |-> name, off |-> off]),
               !.align = Larger(@, box.al),
               !.max = IF su.k = "union" THEN Larger(@, box.sz) ELSE @,
               !.bits = IF su.k = "union" THEN @ ELSE 8 * (off + box.sz)]

\* The first bit of a field of w bits in units of u bits.
Straddles(start, w, u) == (start % u) + w > u
\* Fault: a field that straddles a unit stays where it is.
FirstBitPacked(start, w, u) == start
FirstBit(start, w, u) == IF Straddles(start, w, u) THEN Padded(start, u) ELSE start

InUnit(su, l, name, box, w, signed, start) ==
  LET unit == start \div (8 * box.sz)
  IN [l EXCEPT !.offsets = Append(@, [name |-> name, off |-> unit * box.sz]),
               !.bitFields = Append(@, [name |-> name, at |-> start - 8 * unit * box.sz, width |-> w,
                                        storage |-> box.sz, signed |-> signed]),
               !.align = Larger(@, box.al),
               !.max = IF su.k = "union" THEN Larger(@, box.sz) ELSE @,
               !.bits = IF su.k = "union" THEN @ ELSE start + w]

PlaceBitField(su, l, name, box, w, signed) ==
  IF w = 0
  THEN [l EXCEPT !.align = Larger(@, box.al),
                 !.bits = IF su.k = "union" THEN @ ELSE Padded(@, 8 * box.sz)]
  ELSE InUnit(su, l, name, box, w, signed,
              FirstBit(IF su.k = "union" THEN 0 ELSE l.bits, w, 8 * box.sz))

\* The members of an anonymous member are members of its container; where
\* their bit-fields are is not handed on.
Hoisted(l, sub) ==
  LET base == l.offsets[Len(l.offsets)].off
      named == SelectSeq(sub.offsets, LAMBDA o : o.name # <<>>)
  IN [l EXCEPT !.offsets = @ \o [i \in DOMAIN named |-> [named[i] EXCEPT !.off = base + @]]]

Finish(su, l) == [l EXCEPT !.size = Padded(IF su.k = "union" THEN l.max ELSE Bytes(l.bits), l.align)]

RECURSIVE ComputeLayout(_)

\* Embedded by value; an empty one takes a byte.
SubBox(sub) == [sz |-> IF sub.size = 0 THEN 1 ELSE sub.size, al |-> sub.align]
MemberBox(b, d) ==
  ApplyDeclaratorToLayout(IF b.b = "su" /\ ~HasPointer(d) THEN SubBox(ComputeLayout(b.su)) ELSE BaseBox(b), d)

PlaceSub(su, l, sub) == Hoisted(PlaceField(su, l, <<>>, SubBox(sub)), sub)
PlaceAnonymous(su, l, b) ==
  IF b.b = "su" THEN PlaceSub(su, l, ComputeLayout(b.su)) ELSE PlaceField(su, l, <<>>, BaseBox(b))

IfFlexible(box, flexible) == IF flexible THEN [box EXCEPT !.sz = 0] ELSE box
PlaceDeclared(su, l, i, b, sd) ==
  IF sd.width # <<>> THEN PlaceBitField(su, l, sd.d.name, BaseBox(b), sd.width[1], IsSigned(b))
  ELSE PlaceField(su, l, sd.d.name, IfFlexible(MemberBox(b, sd.d), IsFlexible(su, i, sd.d)))

\* One turn of the loop over the members and their declarators.
Place(su, l, at) ==
  LET m == su.members[at[1]]
  IN IF at[2] = 0 THEN PlaceAnonymous(su, l, m.base)
     ELSE PlaceDeclared(su, l, at[1], m.base, m.decls[at[2]])

ComputeLayout(su) == Finish(su, FoldLeft(LAMBDA l, at : Place(su, l, at), EmptyLayout, Order(su)))

(***************************************************************************)
(* codegen::TypeMap: sizes of types, the width of the loads and stores     *)
(* made for them, and what code generation asks of a member: its offset,   *)
(* its type and the bits it has.  Types are those of the semantic pass.    *)
(*                                                                         *)
(* Left out: float types of members, _Atomic, void, and the list of field  *)
(* names for initializers.                                                 *)
(***************************************************************************)
RECURSIVE ByteSize(_)
ByteSize(type) ==
  CASE type.t = "ptr" -> 8
    [] type.t = "arr" -> ByteSize(type.of) * ArrayCount(type.n)
    [] type.t = "fun" -> 4
    [] type.t = "base" -> CASE type.b.b = "simple" -> SimpleSize(type.b.s)
                            [] type.b.b = "enum" -> 4
                            [] type.b.b = "su" -> ComputeLayout(type.b.su).size

IsAggregate(type) == type.t = "arr" \/ (type.t = "base" /\ type.b.b = "su")

\* toWasmType, then makeLoad and makeStore: the bytes an access touches.
ToWasmType(type) ==
  IF type.t # "base" THEN "i64"
  ELSE CASE type.b.b = "enum" -> "i32"
         [] type.b.b = "su" -> "i64"
         [] type.b.b = "simple" -> IF type.b.s \in {"long", "ulong", "llong", "ullong"} THEN "i64" ELSE "i32"
\* Fault: narrow integers are stored with the width of their Wasm type.
AccessBytesWide(wasm, size) == IF wasm = "i64" THEN 8 ELSE 4
AccessBytes(wasm, size) == IF wasm = "i64" THEN 8 ELSE IF size \in {1, 2} THEN size ELSE 4

(***************************************************************************)
(* Members                                                                 *)
(***************************************************************************)
\* getFieldOffset and getFieldBitInfo: the first entry with the name; a name
\* that is not there is at offset 0.
Entries(table, name) == SelectSeq(table, LAMBDA x : x.name = name)
GetFieldOffset(layout, name) ==
  IF Entries(layout.offsets, name) = <<>> THEN 0 ELSE Entries(layout.offsets, name)[1].off
GetFieldBitInfo(layout, name) == Entries(layout.bitFields, name)

RECURSIVE GetFieldType(_, _)
\* <<type>>, or <<>> when no member has the name.
MemberFieldType(m, name) ==
  IF m.decls # <<>>
  THEN LET named == SelectSeq(m.decls, LAMBDA sd : sd.d.name = name)
       IN IF named = <<>> THEN <<>> ELSE <<SemanticType(BaseType(m.base), named[1].d)>>
  ELSE IF m.base.b = "su" THEN GetFieldType(m.base.su, name) ELSE <<>>
GetFieldType(su, name) ==
  LET found == SelectSeq([i \in DOMAIN su.members |-> MemberFieldType(su.members[i], name)],
                         LAMBDA t : t # <<>>)
  IN IF found = <<>> THEN <<>> ELSE found[1]

(***************************************************************************)
(* What `s.f = v' touches: the bytes of an aggregate are copied, a scalar  *)
(* is stored; a bit-field's unit is loaded, the field's bits are replaced  *)
(* and the unit is stored back.                                            *)
(***************************************************************************)
FieldBytes(type, size) == IF IsAggregate(type) THEN size ELSE AccessBytes(ToWasmType(type), size)
BitsFrom(start, n) == start..(start + n - 1)

\* The storage the access loads and stores, and the bits of it it changes.
FieldUnit(off, type) == BitsFrom(8 * off, 8 * FieldBytes(type, ByteSize(type)))
FieldBits(off, unit, bit) == IF bit = <<>> THEN unit ELSE BitsFrom(8 * off + bit[1].at, bit[1].width)

(***************************************************************************)
(* From specifier to layout                                                *)
(***************************************************************************)
VARIABLES
  su,         \* the specifier
  next,       \* the next of its declarators to place
  layout,     \* what is placed
  finished

vars == <<su, next, layout, finished>>

C == INSTANCE CTypes

Init ==
  /\ su \in Specifiers
  /\ next = 1
  /\ layout = EmptyLayout
  /\ finished = FALSE

PlaceNext ==
  /\ ~finished /\ next <= Len(Order(su))
  /\ layout' = Place(su, layout, Order(su)[next])
  /\ next' = next + 1
  /\ UNCHANGED <<su, finished>>

FinishLayout ==
  /\ ~finished /\ next > Len(Order(su))
  /\ layout' = Finish(su, layout)
  /\ finished' = TRUE
  /\ UNCHANGED <<su, next>>

Next == PlaceNext \/ FinishLayout

Spec == Init /\ [][Next]_vars

(***************************************************************************)
(* Properties                                                              *)
(***************************************************************************)
\* What an assignment to each member touches.
Touched(off, type, unit, bit) == [type |-> type, unit |-> unit, bits |-> FieldBits(off, unit, bit)]
Touches(off, type, bit) == Touched(off, type, FieldUnit(off, type), bit)
Fields ==
  [f \in C!NamesOf(su) |->
     Touches(GetFieldOffset(layout, f), GetFieldType(su, f)[1], GetFieldBitInfo(layout, f))]
IsFlexibleType(type) == type.t = "arr" /\ type.n = <<>>

\* An assignment to a member changes nothing of any member it does not
\* overlay and touches no byte behind the aggregate: the offsets of
\* LayoutEngine go with the types of the semantic pass and with the widths
\* that TypeMap gives loads, stores and copies.
ApartIn(fields) ==
  \A f \in DOMAIN fields :
    /\ IsFlexibleType(fields[f].type) \/ fields[f].unit \subseteq 0..(8 * layout.size - 1)
    /\ \A g \in DOMAIN fields \ {f} : C!Overlaid(su, f, g) \/ fields[f].bits \cap fields[g].bits = {}
FieldsApart == finished => ApartIn(Fields)

\* The bounds of its arrays; a bound the standard allows is positive.
BoundsOf(m) == {l.n[1] : l \in {x \in UNION {Range(Chain(sd.d)) : sd \in Range(m.decls)} : x.k = "arr" /\ x.n # <<>>}}
Bounds == UNION {BoundsOf(su.members[i]) : i \in DOMAIN su.members}
Positive(v) == v.def /\ v.n > 0 /\ v.n <= Largest("long")
Allowed == \A e \in Bounds : Positive(C!Meaning(e))

\* Every member has the type its declarator gives it and the place that
\* natural alignment gives it, and the aggregate the size: what two files
\* compiled apart must agree on.
PromisedIn(fields) ==
  \A f \in C!MembersOf(su) :
    /\ fields[f.name].type = f.type
    /\ Min(fields[f.name].bits) = f.at
    /\ f.width # <<>> => Cardinality(fields[f.name].bits) = f.width[1]
LayoutAsPromised ==
  finished /\ Allowed =>
    [size |-> layout.size, align |-> layout.align] = C!Aggregated(su) /\ PromisedIn(Fields)

\* What the semantic pass says before any layout exists, for _Static_assert,
\* array bounds, offsetof and enum constants, is what the code generator
\* lays out, whenever it says anything.  Declarators with both stars and
\* brackets are left out (README).
MixesLayers(d) == \E i, j \in DOMAIN Chain(d) : Chain(d)[i].k = "ptr" /\ Chain(d)[j].k = "arr"
Mixed == \E i \in DOMAIN su.members : \E j \in DOMAIN su.members[i].decls : MixesLayers(su.members[i].decls[j].d)
ConstantSizesAgree ==
  finished /\ Allowed /\ ~Mixed =>
    /\ SuSize(su, FALSE) \in {-1, layout.size}
    /\ SuSize(su, TRUE) \in {-1, layout.align}
    /\ \A sd \in UNION {Range(su.members[i].decls) : i \in DOMAIN su.members} :
         StructMemberOffset(su, sd.d.name) \in {<<>>, <<GetFieldOffset(layout, sd.d.name)>>}

\* A constant expression folds to the value the standard gives it, whatever
\* types its operands have, when the standard gives it one.
FoldsTo(x, v) == x.ok /\ AsUnsigned(x.v) = v.n % 2^Bits["long"]
BoundsAsWritten ==
  finished =>
    \A e \in Bounds : LET v == C!Meaning(e) IN v.def => FoldsTo(Evaluate(e), v)
=============================================================================
