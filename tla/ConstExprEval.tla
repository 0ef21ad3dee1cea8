--------------------------- MODULE ConstExprEval ---------------------------
(***************************************************************************)
(* ConstExprEvaluator: integer constant expressions and the sizes they may *)
(* ask for, worked out without the type tables of the later phases.  All   *)
(* arithmetic is done in long long with a flag for unsigned types.         *)
(*                                                                         *)
(* Left out: folding of floating constants, subscripts of literals, and    *)
(* operands only a resolver of the semantic pass can type.                 *)
(***************************************************************************)
EXTENDS Declarators, Lexer

(***************************************************************************)
(* Base types: a scalar, a struct or union, an enum, or the name of a      *)
(* typedef.  Names of scalar types are replaced by the parser already      *)
(* (Parser::recordTypedef), the others stay names.                         *)
(***************************************************************************)
Scalar(s) == [b |-> "simple", s |-> s]
Aggregate(su) == [b |-> "su", su |-> su]
Enumerated == [b |-> "enum"]
Named(type) == [b |-> "typedef", means |-> type]
Base(b) == [t |-> "base", b |-> b]
BaseType(b) == IF b.b = "typedef" THEN b.means ELSE Base(b)

NoType == [t |-> "none"]
IntegerType(s) == Base(Scalar(s))

\* simpleSize; also the sizes of LayoutEngine and TypeMap.
SimpleSize(s) ==
  CASE s \in {"bool", "char", "uchar"} -> 1
    [] s \in {"short", "ushort"} -> 2
    [] s \in {"int", "uint", "float"} -> 4
    [] s \in {"long", "ulong", "llong", "ullong", "double"} -> 8

\* The members of a struct or union one declarator at a time; <<i, 0>> is a
\* member without declarators.
Order(su) ==
  FlattenSeq([i \in DOMAIN su.members |->
    LET m == su.members[i]
    IN IF m.decls = <<>> THEN <<<<i, 0>>>> ELSE [j \in DOMAIN m.decls |-> <<i, j>>]])
Padded(n, al) == IF n % al = 0 THEN n ELSE n + al - (n % al)

(***************************************************************************)
(* Values                                                                  *)
(***************************************************************************)
Wrap(n, bits) == LET m == n % 2^bits IN IF 2 * m >= 2^bits THEN m - 2^bits ELSE m
LongLong(n) == Wrap(n, Bits["long"])
AsUnsigned(v) == v % 2^Bits["long"]
ICE(v, u) == [ok |-> TRUE, v |-> v, u |-> u]
NoICE == [ok |-> FALSE]
Truth(b) == ICE(IF b THEN 1 ELSE 0, FALSE)

(***************************************************************************)
(* Scalar identities                                                       *)
(***************************************************************************)
\* canonScalarOf
Canonical(type) ==
  IF type.t # "base" THEN "unknown"
  ELSE IF type.b.b = "enum" THEN "int"
  ELSE IF type.b.b = "simple" THEN type.b.s ELSE "unknown"

PromoteScalar(s) ==
  CASE s \in {"bool", "char", "uchar", "short", "ushort", "int"} -> IntegerType("int")
    [] s = "unknown" -> NoType
    [] OTHER -> IntegerType(s)

ScalarRank(s) ==
  CASE s \in {"int", "uint"} -> 1 [] s \in {"long", "ulong"} -> 2
    [] s \in {"llong", "ullong"} -> 3 [] s = "float" -> 4 [] s = "double" -> 5
    [] OTHER -> 0

Relational == {"<", ">", "<=", ">=", "==", "!="}

SimpleOf(longs) == CASE longs = 0 -> "int" [] longs = 1 -> "long" [] longs = 2 -> "llong"
LiteralType(c) ==
  IntegerType(IF LiteralUnsigned(c) THEN UnsignedOf[SimpleOf(LiteralLongs(c))] ELSE SimpleOf(LiteralLongs(c)))

\* The higher rank wins, the left operand a tie.
Arithmetic(l, r) ==
  IF "unknown" \in {l, r} THEN NoType
  ELSE PromoteScalar(IF ScalarRank(r) > ScalarRank(l) THEN r ELSE l)

Alternatives(l, r, a, b) ==
  CASE l = "unknown" -> b
    [] l # "unknown" /\ r = "unknown" -> a
    [] OTHER -> PromoteScalar(IF ScalarRank(r) > ScalarRank(l) THEN r ELSE l)
BetweenTypes(a, b) == Alternatives(Canonical(a), Canonical(b), a, b)

RECURSIVE Inferred(_)
\* inferExprType
Inferred(e) ==
  CASE e.e = "int" -> LiteralType(e)
    [] e.e = "chr" -> IntegerType("int")
    [] e.e = "cast" -> e.type
    [] e.e \in {"sizeof", "sizeof expr", "alignof"} -> IntegerType("ulong")
    [] e.e = "un" ->
         IF e.op = "!" THEN IntegerType("int") ELSE PromoteScalar(Canonical(Inferred(e.a)))
    [] e.e = "if" -> BetweenTypes(Inferred(e.a), Inferred(e.b))
    [] e.e = "bin" ->
         CASE e.op \in Relational \cup {"&&", "||"} -> IntegerType("int")
           [] e.op \in {"<<", ">>"} -> PromoteScalar(Canonical(Inferred(e.a)))
           [] OTHER -> Arithmetic(Canonical(Inferred(e.a)), Canonical(Inferred(e.b)))
    [] e.e = "generic" -> NoType

(***************************************************************************)
(* evalICE                                                                 *)
(***************************************************************************)
\* applyIntegerCast; a long keeps its bits.
CastTo(s, x) ==
  CASE ~x.ok \/ s \in {"unknown", "float", "double"} -> NoICE
    [] x.ok /\ s = "bool" -> Truth(x.v # 0)
    [] x.ok /\ s \in {"char", "short", "int"} -> ICE(Wrap(x.v, WidthOf(s)), FALSE)
    [] x.ok /\ s \in {"uchar", "ushort", "uint"} -> ICE(x.v % 2^WidthOf(s), TRUE)
    [] x.ok /\ s \in {"long", "llong", "ulong", "ullong"} -> ICE(x.v, IsUnsigned(s))
\* An enum keeps its value.
Cast(type, x) ==
  IF x.ok /\ type = Base(Enumerated) THEN ICE(x.v, FALSE) ELSE CastTo(Canonical(type), x)

Prefix(op, x) ==
  CASE ~x.ok -> NoICE
    [] x.ok /\ op = "-" -> ICE(LongLong(-x.v), x.u)
    [] x.ok /\ op = "+" -> x
    [] x.ok /\ op = "~" -> ICE(-1 - x.v, x.u)
    [] x.ok /\ op = "!" -> Truth(x.v = 0)

Magnitude(n) == IF n < 0 THEN -n ELSE n
Quotient(a, b) == (IF (a < 0) = (b < 0) THEN 1 ELSE -1) * (Magnitude(a) \div Magnitude(b))

Bitwise(op, a, b) ==
  LET bit(x, k) == (x \div 2^k) % 2
      both(x, y) == CASE op = "&" -> x * y [] op = "|" -> x + y - x * y [] op = "^" -> (x + y) % 2
  IN FoldFunction(LAMBDA x, y : x + y, 0,
                  [k \in 0..(Bits["long"] - 1) |-> 2^k * both(bit(a, k), bit(b, k))])

Ordered(op, a, b) ==
  CASE op = "<" -> a < b [] op = ">" -> a > b [] op = "<=" -> a <= b [] op = ">=" -> a >= b
    [] op = "==" -> a = b [] op = "!=" -> a # b

\* Of operands read as unsigned ones if either is.
Computed(op, a, b) ==
  CASE op = "+" -> a + b
    [] op = "-" -> a - b
    [] op = "*" -> a * b
    [] op = "/" -> Quotient(a, b)
    [] op = "%" -> a - b * Quotient(a, b)
    [] op \in {"&", "|", "^"} -> Bitwise(op, a, b)

Read(x, u) == IF u THEN AsUnsigned(x.v) ELSE x.v
\* Fault: the left operand alone decides whether the two are unsigned.
EitherUnsignedLeft(l, r) == l.u
EitherUnsigned(l, r) == l.u \/ r.u

\* A shift by the width or more is undefined in the compiler's own code;
\* the host masks the count.
Shift(op, l, n) ==
  ICE(LongLong(IF op = "<<" THEN l.v * 2^n ELSE Read(l, l.u) \div 2^n), l.u)

Combined(op, a, b, u) ==
  IF op \in Relational THEN Truth(Ordered(op, a, b)) ELSE ICE(LongLong(Computed(op, a, b)), u)
Usual(op, l, r, u) == Combined(op, Read(l, u), Read(r, u), u)
Binary(op, l, r) ==
  CASE ~l.ok \/ ~r.ok -> NoICE
    [] l.ok /\ r.ok /\ op \in {"<<", ">>"} -> Shift(op, l, r.v % Bits["long"])
    [] l.ok /\ r.ok /\ op \in {"/", "%"} /\ r.v = 0 -> NoICE
    [] OTHER -> Usual(op, l, r, EitherUnsigned(l, r))

\* The first association of the controlling type, else the default.
Selected(assocs, control) ==
  IF control = "unknown" THEN <<>>
  ELSE SelectSeq(assocs, LAMBDA x : x.type # NoType /\ Canonical(x.type) = control)
       \o SelectSeq(assocs, LAMBDA x : x.type = NoType)

RECURSIVE Evaluate(_), NodeSize(_, _), SuSize(_, _)

\* The right operand counts only if the left one does not decide; of ?: and
\* _Generic only the one chosen does.
Logical(op, l, Right(_), e) ==
  IF l.ok /\ (l.v # 0) = (op = "&&")
  THEN LET r == Right(e) IN IF r.ok THEN Truth(r.v # 0) ELSE NoICE
  ELSE IF l.ok THEN Truth(op = "||") ELSE NoICE
Conditional(q, Of(_), e) == IF q.ok THEN Of(IF q.v # 0 THEN e.a ELSE e.b) ELSE NoICE
Association(fits, Of(_)) == IF fits = <<>> THEN NoICE ELSE Of(fits[1].a)

SizeICE(n) == IF n < 0 THEN NoICE ELSE ICE(n, TRUE)
Sized(e) == IF e.e = "sizeof expr" THEN Inferred(e.a) ELSE e.type

Evaluate(e) ==
  CASE e.e = "int" -> ICE(LongLong(e.n), LiteralUnsigned(e))
    [] e.e = "chr" -> ICE(e.n, FALSE)
    [] e.e = "un" -> Prefix(e.op, Evaluate(e.a))
    [] e.e = "cast" -> Cast(e.type, Evaluate(e.a))
    [] e.e \in {"sizeof", "sizeof expr", "alignof"} -> SizeICE(NodeSize(Sized(e), e.e = "alignof"))
    [] e.e = "bin" -> IF e.op \in {"&&", "||"} THEN Logical(e.op, Evaluate(e.a), Evaluate, e.b)
                      ELSE Binary(e.op, Evaluate(e.a), Evaluate(e.b))
    [] e.e = "if" -> Conditional(Evaluate(e.q), Evaluate, e)
    [] e.e = "generic" -> Association(Selected(e.assocs, Canonical(Inferred(e.a))), Evaluate)

(***************************************************************************)
(* typeNodeSize and suByteSize; -1 says that the size is not known here.   *)
(***************************************************************************)
Times(elem, bound) == IF elem >= 0 /\ bound.ok /\ bound.v >= 0 THEN elem * bound.v ELSE -1

NodeSize(type, align) ==
  CASE type.t \in {"none", "fun"} -> -1
    [] type.t = "ptr" -> 8
    [] type.t = "arr" -> IF align THEN NodeSize(type.of, TRUE)
                         ELSE IF type.n = <<>> THEN -1
                         ELSE Times(NodeSize(type.of, FALSE), Evaluate(type.n[1]))
    [] type.t = "base" ->
         CASE type.b.b = "simple" -> SimpleSize(type.b.s)
           [] type.b.b = "enum" -> 4
           [] type.b.b = "su" -> SuSize(type.b.su, align)
           [] type.b.b = "typedef" -> -1

\* Size and alignment of a member; no array of it may lack its bound but the
\* last dimension of a struct's last member.
Unsized(d) == \E i \in DOMAIN Chain(d) : Chain(d)[i].k = "arr" /\ Chain(d)[i].n = <<>>
IsLast(su, i) == i = Len(su.members)
SizeUnknown == [sz |-> -1, al |-> -1]

\* A member whose declarator names a function anywhere is not sized.
HasFunction(d) == \E i \in DOMAIN Chain(d) : Chain(d)[i].k = "fun"
MemberType(m, j) ==
  IF j = 0 THEN Base(m.base)
  ELSE IF HasFunction(m.decls[j].d) THEN NoType ELSE ConstantType(Base(m.base), m.decls[j].d)

FlexibleSize(type) ==
  [sz |-> IF type = NoType THEN -1 ELSE 0, al |-> IF type.t = "arr" THEN NodeSize(type.of, TRUE) ELSE 1]
MemberSize(su, i, unsized, type) ==
  IF ~unsized THEN [sz |-> NodeSize(type, FALSE), al |-> NodeSize(type, TRUE)]
  ELSE IF IsLast(su, i) /\ su.k = "struct" THEN FlexibleSize(type) ELSE SizeUnknown
UnsizedMember(m, j) == j # 0 /\ Unsized(m.decls[j].d)

\* Fault: a bit-field is sized as an ordinary member of its type.
UnsizableNames(m) == m.base.b = "typedef"
\* A bit-field anywhere in the member, or a type that is only a name.
Unsizable(m) == m.base.b = "typedef" \/ \E j \in DOMAIN m.decls : m.decls[j].width # <<>>

\* _Alignas raises the alignment.
Raised(m, al) == IF m.alignas > al THEN m.alignas ELSE al

Larger(a, b) == IF a > b THEN a ELSE b
Laid(su, s, sz, al) ==
  IF sz < 0 \/ al < 0 THEN [s EXCEPT !.ok = FALSE]
  ELSE [s EXCEPT !.align = Larger(@, al), !.max = Larger(@, sz), !.offset = Padded(@, al) + sz]

SuStep(su, s, at) ==
  LET m == su.members[at[1]]
      put(n) == Laid(su, s, n.sz, Raised(m, n.al))
  IN IF ~s.ok \/ Unsizable(m) THEN [s EXCEPT !.ok = FALSE]
     ELSE put(MemberSize(su, at[1], UnsizedMember(m, at[2]), MemberType(m, at[2])))

Total(su, s, align) ==
  IF ~s.ok THEN -1
  ELSE IF align THEN s.align
  ELSE Padded(IF su.k = "union" THEN s.max ELSE s.offset, s.align)

SuSize(su, align) ==
  Total(su, FoldLeft(LAMBDA s, at : SuStep(su, s, at),
                     [ok |-> TRUE, offset |-> 0, max |-> 0, align |-> 1], Order(su)), align)

(***************************************************************************)
(* structMemberOffset: the walk of SuSize without flexible arrays and      *)
(* without _Alignas; members of an anonymous member are not looked for.    *)
(***************************************************************************)
Passed(su, s, here, off, sz) ==
  IF here THEN [s EXCEPT !.found = <<off>>]
  ELSE IF su.k = "union" THEN s ELSE [s EXCEPT !.offset = off + sz]
Offsetted(su, s, here, sz, al) ==
  IF sz < 0 \/ al < 0 THEN [s EXCEPT !.ok = FALSE]
  ELSE Passed(su, s, here, IF su.k = "union" THEN 0 ELSE Padded(s.offset, al), sz)
OffsetStep(su, s, m, j, name) ==
  LET put(type) == Offsetted(su, s, j # 0 /\ m.decls[j].d.name = name, NodeSize(type, FALSE), NodeSize(type, TRUE))
  IN IF s.found # <<>> \/ ~s.ok THEN s
     ELSE IF Unsizable(m) THEN [s EXCEPT !.ok = FALSE] ELSE put(MemberType(m, j))

\* <<offset>>, or <<>> when it is not known.
StructMemberOffset(su, name) ==
  FoldLeft(LAMBDA s, at : OffsetStep(su, s, su.members[at[1]], at[2], name),
           [ok |-> TRUE, offset |-> 0, found |-> <<>>], Order(su)).found
=============================================================================
