------------------------------ MODULE MCTypes ------------------------------
(***************************************************************************)
(* Structs and unions of up to three members, and one-member structs whose *)
(* array bound is a constant expression.  The widths are 2, 3, 4 and 6     *)
(* bits: int is narrower than long, and 2^6 holds every size that occurs.  *)
(***************************************************************************)
EXTENDS StructTypes

MCBits == [s \in {"char", "short", "int", "long"} |->
             CASE s = "char" -> 2 [] s = "short" -> 3 [] s = "int" -> 4 [] s = "long" -> 6]

Lit(n) == Constant(n, TRUE, FALSE, 0)
Member(b, decls) == [base |-> b, alignas |-> 0, decls |-> decls]
Decl(d) == [d |-> d, width |-> <<>>]
Field(name, w) == [d |-> Plain(name, 0, <<>>), width |-> <<w>>]
Of(n) == Arr(<<Lit(n)>>)
One(b, d) == Member(b, <<Decl(d)>>)
SimpleMember(s, name) == One(Scalar(s), Plain(name, 0, <<>>))
Struct(ms) == [k |-> "struct", members |-> ms]
Union(ms) == [k |-> "union", members |-> ms]

\* Names are tuples: <<i>> is the i-th member, <<i, 2>> the second of its
\* declaration; <<>> is no name.
Inner == Struct(<<SimpleMember("char", <<91>>), SimpleMember("long", <<92>>)>>)
InnerUnion(i) == Union(<<SimpleMember("short", <<i>>), SimpleMember("uint", <<i, 2>>)>>)
InnerStruct(i) == Struct(<<SimpleMember("uchar", <<i>>),
                           Member(Aggregate(InnerUnion(i + 10)), <<>>)>>)
Pair == Struct(<<SimpleMember("char", <<91>>), One(Scalar("char"), Plain(<<92>>, 0, <<Of(2)>>))>>)

Pool(i) ==
  {SimpleMember("char", <<i>>), SimpleMember("ushort", <<i>>), SimpleMember("int", <<i>>),
   SimpleMember("long", <<i>>), SimpleMember("bool", <<i>>),
   One(Named(IntegerType("int")), Plain(<<i>>, 1, <<>>)),
   One(Scalar("char"), Plain(<<i>>, 0, <<Of(3)>>)),
   One(Scalar("short"), Plain(<<i>>, 0, <<Of(2), Of(3)>>)),
   One(Scalar("char"), Plain(<<i>>, 1, <<Of(2)>>)),
   One(Scalar("char"), Parens(Plain(<<i>>, 1, <<>>), 0, <<Of(3)>>)),
   One(Scalar("char"), Parens(Plain(<<i>>, 1, <<Of(2)>>), 0, <<Fun>>)),
   One(Aggregate(Inner), Plain(<<i>>, 0, <<>>)),
   One(Aggregate(Inner), Plain(<<i>>, 1, <<>>)),
   One(Aggregate(Pair), Plain(<<i>>, 0, <<Of(3)>>)),
   Member(Aggregate(InnerUnion(i)), <<>>), Member(Aggregate(InnerStruct(i)), <<>>),
   Member(Scalar("int"), <<Field(<<i>>, 3)>>), Member(Scalar("uint"), <<Field(<<i>>, 31), Field(<<i, 2>>, 2)>>),
   Member(Scalar("uchar"), <<Field(<<i>>, 5)>>), Member(Scalar("long"), <<Field(<<i>>, 33)>>),
   Member(Scalar("int"), <<Field(<<>>, 0)>>),
   Member(Scalar("char"), <<Decl(Plain(<<i>>, 0, <<>>)), Decl(Plain(<<i, 2>>, 1, <<>>))>>)}

Flexible == One(Scalar("short"), Plain(<<3>>, 0, <<Arr(<<>>)>>))

\* The third is one that the two in front of it can push out of place.
Third ==
  {SimpleMember("char", <<3>>), SimpleMember("long", <<3>>), One(Scalar("char"), Plain(<<3>>, 1, <<Of(2)>>)),
   One(Aggregate(Pair), Plain(<<3>>, 0, <<Of(3)>>)), Member(Aggregate(InnerStruct(3)), <<>>),
   Member(Scalar("int"), <<Field(<<3>>, 3)>>), Member(Scalar("uint"), <<Field(<<3>>, 31), Field(<<3, 2>>, 2)>>),
   Member(Scalar("uchar"), <<Field(<<3>>, 5)>>), Member(Scalar("int"), <<Field(<<>>, 0)>>)}

MCStructs ==
  {[k |-> k, members |-> ms] : k \in {"struct", "union"},
     ms \in {<<a, b, c>> : a \in Pool(1), b \in Pool(2), c \in Third}}
  \cup {Struct(<<a, b, Flexible>>) : a \in Pool(1), b \in Pool(2)}

(***************************************************************************)
(* Constant expressions.  Unsigned operands are as wide as long, and both  *)
(* branches of ?: have the same signedness (README).                       *)
(***************************************************************************)
Bin(op, a, b) == [e |-> "bin", op |-> op, a |-> a, b |-> b]
Un(op, a) == [e |-> "un", op |-> op, a |-> a]
CastOf(s, a) == [e |-> "cast", type |-> IntegerType(s), a |-> a]
SizeofType(type) == [e |-> "sizeof", type |-> type]
SizeofExpr(a) == [e |-> "sizeof expr", a |-> a]
Question(q, a, b) == [e |-> "if", q |-> q, a |-> a, b |-> b]
Assoc(type, a) == [type |-> type, a |-> a]

Operators == {"+", "-", "*", "/", "%", "<<", ">>", "&", "|", "^", "&&", "||", "<", ">", "<=", ">=", "==", "!="}
Operands ==
  {Lit(0), Lit(1), Lit(3), Lit(7), Lit(8), Constant(2, TRUE, FALSE, 1), Constant(3, FALSE, TRUE, 1),
   Constant(40, FALSE, FALSE, 0), Un("-", Lit(1)), Un("-", Lit(8)), CastOf("ulong", Un("-", Lit(2))),
   CastOf("char", Lit(3)), CastOf("short", Lit(9)), CastOf("int", Lit(9)), CastOf("bool", Lit(2)),
   SizeofType(TypeName(IntegerType("short"), 1, <<Of(3)>>)), SizeofType(IntegerType("int")),
   Bin("/", Lit(1), Lit(0))}
Nested ==
  {Bin(p, Bin(q, a, Lit(3)), b) : p \in {"+", "/", "<", "&&"}, q \in {"-", ">>", "^", "||"},
     a \in Operands, b \in {Lit(2), CastOf("ulong", Lit(1))}}
Unaries == {Un(op, a) : op \in {"-", "+", "~", "!"}, a \in Operands}
Others ==
  {Question(q, a, Un("-", a)) : q \in Operands, a \in {Lit(1), Lit(8)}}
  \cup {SizeofExpr(Bin(op, a, b)) : op \in {"+", "<<", "=="}, a \in Operands, b \in Operands}
  \cup {[e |-> "generic", a |-> a,
         assocs |-> <<Assoc(IntegerType("int"), Lit(1)), Assoc(NoType, Lit(2)), Assoc(IntegerType("long"), Lit(3))>>]
          : a \in Operands}
  \cup {[e |-> "alignof", type |-> Base(Aggregate(Pair))], SizeofType(Base(Aggregate(Inner)))}
Expressions == {Bin(op, a, b) : op \in Operators, a \in Operands, b \in Operands} \cup Nested \cup Unaries \cup Others

MCExpressions == {Struct(<<One(Scalar("char"), Plain(<<1>>, 0, <<Arr(<<e>>)>>))>>) : e \in Expressions}

MCSpecifiers == MCStructs \cup MCExpressions

(***************************************************************************)
(* A struct that a typedef names, embedded by that name.                   *)
(***************************************************************************)
Triple == Struct(<<SimpleMember("int", <<93>>), SimpleMember("int", <<94>>), SimpleMember("int", <<95>>)>>)
TypedefSpecifiers ==
  {Struct(<<One(Named(Base(Aggregate(s))), Plain(<<1>>, stars, <<>>)),
            One(Named(Base(Aggregate(s))), Plain(<<2>>, stars, <<>>))>>)
     : s \in {Triple, Pair}, stars \in 0..1}
=============================================================================
