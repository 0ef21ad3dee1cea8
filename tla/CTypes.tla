------------------------------- MODULE CTypes -------------------------------
(***************************************************************************)
(* What C17 and docs/spec.md (`natural alignment with padding', bit-fields *)
(* `left-to-right within storage unit') promise, said without any of the   *)
(* compiler's algorithms: the type a declarator declares, the value of an  *)
(* integer constant expression, and the place of every member.             *)
(***************************************************************************)
EXTENDS Lexer, FiniteSetsExt, SequencesExt

(***************************************************************************)
(* Constant expressions (6.3.1, 6.5, 6.6).  A value has one of the integer *)
(* types; [def |-> FALSE] is one the standard does not define or allow.    *)
(***************************************************************************)
IntegerTypes == <<"bool", "char", "short", "int", "long", "llong">>
Rank(s) ==
  CHOOSE i \in DOMAIN IntegerTypes : IntegerTypes[i] = s \/ (i > 1 /\ UnsignedOf[IntegerTypes[i]] = s)
SizeInBytes(s) == CASE Rank(s) \in {1, 2} -> 1 [] Rank(s) = 3 -> 2 [] Rank(s) = 4 -> 4 [] OTHER -> 8

Least(s) == IF IsUnsigned(s) THEN 0 ELSE -(2^(WidthOf(s) - 1))
Represents(s, n) == Least(s) <= n /\ n <= Largest(s)
ValueOf(n, s) == [def |-> TRUE, n |-> n, s |-> s]
Undefined == [def |-> FALSE]

\* A result of type s: modulo for unsigned types, undefined when it overflows.
Result(n, s) ==
  IF IsUnsigned(s) THEN ValueOf(n % 2^WidthOf(s), s)
  ELSE IF Represents(s, n) THEN ValueOf(n, s) ELSE Undefined

\* Conversion: docs/spec.md has signed types wrap.
Converted(n, s) ==
  IF s = "bool" THEN IF n = 0 THEN 0 ELSE 1
  ELSE CHOOSE m \in Least(s)..Largest(s) : (m - n) % 2^WidthOf(s) = 0

Promoted(s) == IF Rank(s) < Rank("int") THEN "int" ELSE s
OfGreaterRank(a, b) == IF Rank(a) >= Rank(b) THEN a ELSE b
\* The usual arithmetic conversions of two promoted types.
CommonType(a, b) ==
  LET u == IF IsUnsigned(a) THEN a ELSE b
      s == IF IsUnsigned(a) THEN b ELSE a
  IN IF IsUnsigned(a) = IsUnsigned(b) THEN OfGreaterRank(a, b)
     ELSE IF Rank(u) >= Rank(s) THEN u
     ELSE IF Represents(s, Largest(u)) THEN s ELSE UnsignedOf[s]

\* The first type in the standard's list that has room.
TypeOfConstant(c) ==
  LET allowed == {s \in {"int", "long", "llong"} \cup {UnsignedOf[r] : r \in {"int", "long", "llong"}} :
                    /\ Rank(s) >= Rank("int") + c.l
                    /\ c.u => IsUnsigned(s)
                    /\ c.decimal /\ ~c.u => ~IsUnsigned(s)
                    /\ Represents(s, c.n)}
      before(s, t) == Rank(s) < Rank(t) \/ (Rank(s) = Rank(t) /\ (s = t \/ ~IsUnsigned(s)))
  IN CHOOSE s \in allowed : \A t \in allowed : before(s, t)

TruncatedQuotient(a, b) ==
  LET abs(x) == IF x < 0 THEN -x ELSE x
      q == CHOOSE k \in 0..abs(a) : k * abs(b) <= abs(a) /\ abs(a) < (k + 1) * abs(b)
  IN IF (a < 0) = (b < 0) THEN q ELSE -q

\* The bits of a two's complement number, and the number of a set of bits.
BitsOf(n, s) == {k \in 0..(WidthOf(s) - 1) : (n \div 2^k) % 2 = 1}
FromBits(bits, s) == Converted(FoldSet(LAMBDA k, sum : sum + 2^k, 0, bits), s)

Related(op, a, b) ==
  CASE op = "<" -> a < b [] op = ">" -> a > b [] op = "<=" -> a <= b [] op = ">=" -> a >= b
    [] op = "==" -> a = b [] op = "!=" -> a # b
Boolean(b) == ValueOf(IF b THEN 1 ELSE 0, "int")

\* Both operands already of type s.
Operation(op, a, b, s) ==
  CASE op = "+" -> Result(a + b, s) [] op = "-" -> Result(a - b, s) [] op = "*" -> Result(a * b, s)
    [] op \in {"/", "%"} /\ b = 0 -> Undefined
    [] op = "/" /\ b # 0 -> Result(TruncatedQuotient(a, b), s)
    [] op = "%" /\ b # 0 -> IF Represents(s, TruncatedQuotient(a, b))
                            THEN Result(a - b * TruncatedQuotient(a, b), s) ELSE Undefined
    [] op = "&" -> ValueOf(FromBits(BitsOf(a, s) \cap BitsOf(b, s), s), s)
    [] op = "|" -> ValueOf(FromBits(BitsOf(a, s) \cup BitsOf(b, s), s), s)
    [] op = "^" -> ValueOf(FromBits((BitsOf(a, s) \cup BitsOf(b, s)) \ (BitsOf(a, s) \cap BitsOf(b, s)), s), s)
    [] OTHER -> Boolean(Related(op, a, b))

Shifts(op, a, n, s) ==
  IF n < 0 \/ n >= WidthOf(s) THEN Undefined
  ELSE IF op = ">>" THEN ValueOf(a \div 2^n, s)
  ELSE IF a < 0 THEN Undefined ELSE Result(a * 2^n, s)

BinaryValue(op, l, r) ==
  IF ~l.def \/ ~r.def THEN Undefined
  ELSE IF op \in {"<<", ">>"} THEN Shifts(op, l.n, r.n, Promoted(l.s))
  ELSE LET s == CommonType(Promoted(l.s), Promoted(r.s))
       IN Operation(op, Converted(l.n, s), Converted(r.n, s), s)

UnaryValue(op, a) ==
  CASE ~a.def -> Undefined
    [] a.def /\ op = "!" -> Boolean(a.n = 0)
    [] a.def /\ op = "-" -> Result(-Converted(a.n, Promoted(a.s)), Promoted(a.s))
    [] a.def /\ op = "+" -> Result(a.n, Promoted(a.s))
    [] a.def /\ op = "~" -> ValueOf(Converted(-1 - a.n, Promoted(a.s)), Promoted(a.s))

RECURSIVE TypeOfExpression(_), Meaning(_), Box(_)

\* The type of an expression that is not evaluated.
TypeOfExpression(e) ==
  CASE e.e = "int" -> TypeOfConstant(e)
    [] e.e = "cast" -> e.type.b.s
    [] e.e \in {"sizeof", "sizeof expr", "alignof"} -> "ulong"
    [] e.e = "un" -> IF e.op = "!" THEN "int" ELSE Promoted(TypeOfExpression(e.a))
    [] e.e = "if" -> CommonType(Promoted(TypeOfExpression(e.a)), Promoted(TypeOfExpression(e.b)))
    [] e.e = "bin" ->
         CASE e.op \in {"<", ">", "<=", ">=", "==", "!=", "&&", "||"} -> "int"
           [] e.op \in {"<<", ">>"} -> Promoted(TypeOfExpression(e.a))
           [] OTHER -> CommonType(Promoted(TypeOfExpression(e.a)), Promoted(TypeOfExpression(e.b)))
    [] e.e = "generic" -> "int"

\* && and || do not evaluate what they need not, ?: one branch only.
Decided(op, l, Right(_), b) ==
  IF ~l.def THEN Undefined
  ELSE IF (l.n # 0) = (op = "||") THEN Boolean(op = "||")
  ELSE LET r == Right(b) IN IF r.def THEN Boolean(r.n # 0) ELSE Undefined

As(v, s) == IF v.def THEN ValueOf(Converted(v.n, s), s) ELSE Undefined
Chosen(q, Of(_), e) ==
  IF ~q.def THEN Undefined ELSE As(Of(IF q.n # 0 THEN e.a ELSE e.b), TypeOfExpression(e))

\* The association of a type, else the default one.
Association(assocs, s) ==
  LET fits == {i \in DOMAIN assocs : assocs[i].type.t = "base" /\ assocs[i].type.b.s = s}
      default == {i \in DOMAIN assocs : assocs[i].type.t = "none"}
  IN IF fits # {} THEN fits ELSE default

Meaning(e) ==
  CASE e.e = "int" -> ValueOf(e.n, TypeOfConstant(e))
    [] e.e = "un" -> UnaryValue(e.op, Meaning(e.a))
    [] e.e = "cast" -> As(Meaning(e.a), e.type.b.s)
    [] e.e = "sizeof" -> ValueOf(Box(e.type).size, "ulong")
    [] e.e = "alignof" -> ValueOf(Box(e.type).align, "ulong")
    [] e.e = "sizeof expr" -> ValueOf(SizeInBytes(TypeOfExpression(e.a)), "ulong")
    [] e.e = "bin" -> IF e.op \in {"&&", "||"} THEN Decided(e.op, Meaning(e.a), Meaning, e.b)
                      ELSE BinaryValue(e.op, Meaning(e.a), Meaning(e.b))
    [] e.e = "if" -> Chosen(Meaning(e.q), Meaning, e)
    [] e.e = "generic" ->
         LET at == Association(e.assocs, TypeOfExpression(e.a))
         IN IF at = {} THEN Undefined ELSE Meaning(e.assocs[CHOOSE i \in at : TRUE].a)

(***************************************************************************)
(* Declarators (6.7.6): with T the type so far, `D [n]' declares the       *)
(* identifier of D as an array of T, `D (...)' as a function returning T,  *)
(* `* D' as a pointer to T; suffixes bind before stars.                    *)
(***************************************************************************)
RECURSIVE Pointed(_, _), Suffixed(_, _), DeclaredAs(_, _)
Pointed(type, stars) == IF stars = 0 THEN type ELSE Pointed([t |-> "ptr", of |-> type], stars - 1)
Suffixed(type, suffixes) ==
  IF suffixes = <<>> THEN type
  ELSE LET rest == Suffixed(type, Tail(suffixes))
       IN IF Head(suffixes).k = "fun" THEN [t |-> "fun", of |-> rest]
          ELSE [t |-> "arr", of |-> rest, n |-> Head(suffixes).n]
DeclaredAs(type, d) ==
  LET outer == Suffixed(Pointed(type, d.stars), d.suffixes)
  IN IF d.inner = <<>> THEN outer ELSE DeclaredAs(outer, d.inner[1])

\* A typedef name stands for its type, an enum for int.
BaseOf(b) ==
  CASE b.b = "typedef" -> b.means
    [] b.b \in {"simple", "su", "enum"} -> [t |-> "base", b |-> b]

(***************************************************************************)
(* Members (6.7.2.1): each at the first bit, not before the end of the     *)
(* last one, at which it may be: a multiple of its alignment, for a        *)
(* bit-field one from which it does not leave its unit.  The members of an *)
(* anonymous member are members of its container.                          *)
(***************************************************************************)
FirstFrom(n, MayBe(_)) == CHOOSE p \in n..(n + 63) : MayBe(p) /\ \A q \in n..(p - 1) : ~MayBe(q)
Rounded(n, unit) == FirstFrom(n, LAMBDA p : p % unit = 0)

ItemsOf(m) ==
  IF m.decls = <<>>
  THEN <<[name |-> <<>>, type |-> BaseOf(m.base), width |-> <<>>, inner |-> <<m.base.su>>]>>
  ELSE [j \in DOMAIN m.decls |->
          [name |-> m.decls[j].d.name, type |-> DeclaredAs(BaseOf(m.base), m.decls[j].d),
           width |-> m.decls[j].width, inner |-> <<>>]]
Items(su) == FlattenSeq([i \in DOMAIN su.members |-> ItemsOf(su.members[i])])

\* The first bit of an item whose type has the size and alignment of box,
\* when the last one ended before bit n.
At(item, box, n) ==
  IF item.width = <<>> THEN Rounded(n, 8 * box.align)
  ELSE IF item.width[1] = 0 THEN Rounded(n, 8 * box.size)
  ELSE FirstFrom(n, LAMBDA p : p \div (8 * box.size) = (p + item.width[1] - 1) \div (8 * box.size))

PlaceOf(item, box, at) ==
  [item |-> item, at |-> at, align |-> box.align,
   end |-> at + (IF item.width = <<>> THEN 8 * box.size ELSE item.width[1]),
   unit |-> IF item.width = <<>> \/ item.width[1] = 0 THEN 0 ELSE box.size]
EndOf(places) == IF places = <<>> THEN 0 ELSE places[Len(places)].end

\* The places of all items, one after the other or all at the start.
Placed(su, BoxOf(_)) ==
  LET put(places, item, box) ==
        Append(places, PlaceOf(item, box, At(item, box, IF su.k = "union" THEN 0 ELSE EndOf(places))))
  IN FoldLeft(LAMBDA places, item : put(places, item, BoxOf(item.type)), <<>>, Items(su))

\* A union has room for the whole unit of a bit-field.
Enclosing(su, places) ==
  LET bytes(p) == IF su.k = "union" /\ p.unit # 0 THEN p.unit ELSE (p.end + 7) \div 8
      align == Max({1} \cup {places[i].align : i \in DOMAIN places})
  IN [size |-> Rounded(Max({0} \cup {bytes(places[i]) : i \in DOMAIN places}), align), align |-> align]

Natural(n) == [size |-> n, align |-> n]
Repeated(box, n) == [box EXCEPT !.size = n * @]
Box(type) ==
  CASE type.t = "ptr" -> Natural(8)
    [] type.t = "arr" -> Repeated(Box(type.of), IF type.n = <<>> THEN 0 ELSE Meaning(type.n[1]).n)
    [] type.t = "base" -> CASE type.b.b = "simple" -> Natural(SizeInBytes(type.b.s))
                            [] type.b.b = "enum" -> Natural(4)
                            [] type.b.b = "su" -> Enclosing(type.b.su, Placed(type.b.su, Box))

Aggregated(su) == Enclosing(su, Placed(su, Box))

\* All members by name: type, first bit, and width if a bit-field.
RECURSIVE MembersOf(_)
MembersOf(su) ==
  LET shifted(p, fs) == {[f EXCEPT !.at = @ + p.at] : f \in fs}
      of(p) == IF p.item.inner # <<>> THEN shifted(p, MembersOf(p.item.inner[1]))
               ELSE IF p.item.name = <<>> THEN {}
               ELSE {[name |-> p.item.name, type |-> p.item.type, at |-> p.at, width |-> p.item.width]}
  IN UNION {of(p) : p \in Range(Placed(su, Box))}

\* Two members overlay each other when the closest aggregate they are both
\* in is a union.
RECURSIVE NamesOf(_), Overlaid(_, _, _)
NamesOf(su) ==
  UNION {IF m.decls = <<>> THEN NamesOf(m.base.su) ELSE {sd.d.name : sd \in Range(m.decls)} \ {<<>>}
           : m \in Range(su.members)}
Overlaid(su, f, g) ==
  LET both == {m \in Range(su.members) : m.decls = <<>> /\ {f, g} \subseteq NamesOf(m.base.su)}
  IN IF both = {} THEN su.k = "union" ELSE \E m \in both : Overlaid(m.base.su, f, g)
=============================================================================
