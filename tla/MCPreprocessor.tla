--------------------------- MODULE MCPreprocessor ---------------------------
(***************************************************************************)
(* Three families of sources: pairs of macros with a line that uses them,  *)
(* arrangements of directives over three files, and conditions.            *)
(***************************************************************************)
EXTENDS CPreprocessing

Object(name, repl) ==
  [name |-> <<name>>, fun |-> FALSE, params |-> <<>>, variadic |-> FALSE, repl |-> repl]
Function(name, params, variadic, repl) ==
  [name |-> <<name>>, fun |-> TRUE, params |-> [i \in DOMAIN params |-> <<params[i]>>],
   variadic |-> variadic, repl |-> repl]

Call(f, arg) == <<Id(f), P("(")>> \o arg \o <<P(")")>>
x == Id("x")
y == Id("y")
Args2(a, b) == a \o <<Comma, Ws>> \o b

(***************************************************************************)
(* Macros and the lines that use them                                      *)
(***************************************************************************)
First ==
  {Object("a", <<>>),
   Object("a", <<Id("a"), P("+"), Id("k")>>),
   Object("a", <<Num("1"), Ws, Id("__LINE__")>>),
   Object("a", Call("f", <<Id("a")>>)),
   Object("a", <<P("("), Id("k"), P(")")>>)}
Second ==
  {Function("f", <<"x">>, FALSE, <<x, P("+"), Id("f"), P("("), x, P(")")>>),
   Function("f", <<"x">>, FALSE, <<P("#"), x, Ws, x>>),
   Function("f", <<"x">>, FALSE, <<Id("k"), P("##"), Ws, x, Ws, Id("k"), x>>),
   Function("f", <<"x">>, FALSE, <<P("["), x, P("]"), Id("__LINE__")>>),
   Function("f", <<"x">>, TRUE, <<x, P(":"), Id("__VA_ARGS__")>>),
   Function("f", <<"x">>, TRUE, <<P("#"), Id("__VA_ARGS__"), x>>),
   Function("f", <<"x">>, FALSE, <<Num("7"), P("#"), x>>)}
Third ==
  {Object("k", <<Num("5")>>),
   Object("ka", <<P("*")>>),
   Function("g", <<"x", "y">>, FALSE, <<x, P("##"), y, Ws, Id("f"), P("("), y, P(")")>>),
   Function("g", <<"x", "y">>, FALSE, <<y, Id("a"), P("#"), x, P("#"), Ws, y>>)}

Uses(two) ==
  LET gap == IF P("#") \in ToSet(two.repl) THEN Ws ELSE Nl  \* a line end is not stringized
      simple == {<<Id("a")>>, <<Id("a"), P("("), Num("2"), P(")")>>, <<Str("s"), Id("a"), Str("t")>>,
                 <<Str("s")>> \o Call("f", <<Num("2")>>) \o <<Ws, Str("t")>>}
      single == {Call("f", arg) : arg \in
                  {<<Id("a")>>, <<Num("2"), Ws, P("+"), gap, Id("k")>>, <<Ws, Str("s"), Ws>>,
                   Call("f", <<Id("k")>>), <<P("("), Id("k"), Comma, x, P(")")>>}}
      variadic == {Call("f", <<Id("a"), Comma, Id("k"), Ws, Id("a"), Comma, Num("2")>>)}
      both == {Call("g", Args2(<<Id("k")>>, <<Id("a")>>)), Call("g", Args2(<<Num("2")>>, <<Num("3")>>)),
               Call("f", Call("g", Args2(<<Id("a")>>, <<Num("3")>>)))}
  IN simple \cup {<<P("{")>> \o u \o <<Ws, P("}")>> :
       u \in (IF two.variadic THEN variadic ELSE single) \cup both}
     \cup {<<Id("f"), P(";")>>}

Sys == [dir |-> "sys", name |-> <<"h">>]
Near == [dir |-> "src", name |-> <<"h">>]
Root == [dir |-> "src", name |-> <<"main">>]
Other == [dir |-> "sys", name |-> <<"o">>]

SourceOf(parts) ==
  [root |-> Root, paths |-> <<"sys">>, parts |-> parts,
   files |-> [p \in DOMAIN parts |-> Rendered(parts[p])]]

\* The replacement of an object-like macro holds no string literal (README).
MakesLiteral(one, two) == Id("f") \in ToSet(one.repl) /\ P("#") \in ToSet(two.repl)

\* A macro is not reached again through the replacement of another (README).
Reenters(one, two) == Id("f") \in ToSet(one.repl) /\ P("##") \in ToSet(two.repl)

\* A macro that uses __LINE__ is not named in the replacement of another (README).
NestsLine(ms) ==
  \E m, n \in ms : /\ Id("__LINE__") \in ToSet(m.repl)
                   /\ Token("id", m.name) \in ToSet(n.repl)

\* The line has two literals that one replacement put side by side (README).
JoinsWhilePushed(ms, use) ==
  LET ts == Replaced([macros |-> [n \in {m.name : m \in ms} |-> CHOOSE m \in ms : m.name = n],
                      offset |-> 0], Solid(use), <<>>)
  IN Head(use).k # "str" /\ \E i \in 2..Len(ts) : ts[i - 1].k = "str" /\ ts[i].k = "str"

MacroCase(ms, use) ==
  SourceOf(Root :> <<Definition(ms[1]), Text(<<>>), Definition(ms[2]), Definition(ms[3]),
                     LineNumber(40), Text(use), Text(<<Id("k"), P(";")>>)>>)

Macros ==
  {ms \in First \X Second \X Third :
     ~MakesLiteral(ms[1], ms[2]) /\ ~Reenters(ms[1], ms[2]) /\ ~NestsLine(ToSet(ms))}

MacroSources ==
  UNION {{MacroCase(ms, use) : use \in {u \in Uses(ms[2]) : ~JoinsWhilePushed(ToSet(ms), u)}} :
         ms \in Macros}

\* The lines left out, and one where next() joins a literal to one that # made
\* of a literal.
JoinedSources ==
  UNION {{MacroCase(ms, use) : use \in {u \in Uses(ms[2]) : JoinsWhilePushed(ToSet(ms), u)}} :
         ms \in Macros}
EscapedSources ==
  {MacroCase(ms, Call("f", <<Str("s")>>) \o <<Str("t")>>) :
     ms \in {n \in Macros : n[2].repl = <<Num("7"), P("#"), x>>}}

(***************************************************************************)
(* Directives.  The name k is defined, redefined, undefined and tested; h  *)
(* is a header beside the main file and in the search path, o only in the  *)
(* search path.                                                            *)
(***************************************************************************)
K(n) == Definition(Object("k", <<Num(n)>>))
UseK == Text(<<Id("k"), P(";")>>)
Word(w) == Text(<<Id(w)>>)
ErrorLine == Wrong(Hash("error") \o <<Ws, Id("k")>>)

Simple ==
  {K("1"), K("0"), Definition(Object("k", <<Id("h")>>)), Undefinition(<<"k">>), UseK, Text(<<>>),
   Definition(Function("k", <<"x">>, FALSE, <<x, P(","), Num("1")>>)),
   LineNumber(7), LineAndFile(9, "other"),
   Text(<<Token("str", <<"L", "s">>), Nl, Str("t"), Id("__LINE__")>>),
   Text(<<Id("__FILE__"), P(";"), Id("__STDC__")>>),
   Idle(<<P("#")>>), Idle(<<P("#"), Num("1"), Ws>>),
   Idle(Hash("pragma") \o <<Ws, Id("STDC"), Ws, Id("FP_CONTRACT"), Ws, Id("ON")>>)}

Header == {Inclusion(<<"h">>, FALSE, <<>>), Inclusion(<<"h">>, TRUE, <<>>), Inclusion(<<"o">>, FALSE, <<>>)}

WrongLines ==
  {Wrong(ts) : ts \in
    {Hash("error"), Hash("warning"), Hash("else"), Hash("endif"), Hash("elif") \o <<Ws, Num("1")>>,
     Hash("if"), Hash("if") \o <<Ws, P("+")>>, Hash("if") \o <<Ws, Id("defined"), Ws, Num("1")>>,
     Hash("define"), Hash("define") \o <<Ws, Num("1")>>, Hash("define") \o <<Ws, Id("defined")>>,
     Hash("define") \o <<Ws, Id("f"), P("("), Num("1"), P(")")>>,
     Hash("define") \o <<Ws, Id("f"), P("("), x, P(")"), Ws, P("#"), y>>,
     Hash("undef") \o <<Ws, Id("__FILE__")>>, Hash("undef") \o <<Ws, Num("1")>>,
     Hash("include"), Hash("include") \o <<Ws, Id("x")>>, Hash("include") \o <<Ws, P("<"), Id("x"), P(">")>>,
     Hash("include") \o <<Ws, Str("x")>>, Hash("include") \o <<Ws, Id("lt"), Id("h")>>,
     Hash("line"), Hash("line") \o <<Ws, Id("x")>>, Hash("line") \o <<Ws, Num("3"), Ws, Id("x")>>,
     Hash("pragma") \o <<Ws, Id("x")>>, <<Id("_Pragma"), x>>, <<Id("_Pragma"), P("("), x>>,
     <<Id("_Pragma"), Ws, P("("), Str("once"), Ws, Id("k")>>, <<Id("_Pragma")>>,
     <<Token("str", <<"L", "s">>), Token("str", <<"u", "t">>)>>}}

Tests ==
  {Test("ifdef", n, "defined", <<"k">>) : n \in BOOLEAN}
  \cup {Test("if", n, w, <<"k">>) : n \in BOOLEAN, w \in {"defined", "name"}}
  \cup {Test("if", FALSE, "num", <<n>>) : n \in {"0", "1"}}
IfTests == {t \in Tests : t.form = "if"}

Branch(t, body) == [test |-> t, body |-> body]
Guarded == {K("2"), Undefinition(<<"k">>), ErrorLine, Inclusion(<<"h">>, FALSE, <<>>), UseK}
Nested(t) == Conditionals(<<Branch(t, <<Word("p")>>)>>, <<Word("q"), Undefinition(<<"k">>)>>)

Groups ==
  {Conditionals(<<Branch(t, <<part>>)>>, <<Word("e"), Text(<<Id("__LINE__")>>)>>) :
     t \in Tests, part \in Guarded}
  \cup {Conditionals(<<Branch(t, <<Word("one")>>), Branch(u, <<part, Word("two")>>),
                       Branch(Test("if", FALSE, "num", <<"1">>), <<Word("three")>>)>>, else) :
          t \in {r \in Tests : r.what = "defined"}, u \in IfTests, part \in {K("2"), UseK},
          else \in {<<>>, <<ErrorLine>>}}
  \cup {Conditionals(<<Branch(t, <<Nested(u), Word("r")>>)>>, <<Nested(u), Idle(Hash("other"))>>) :
          t \in Tests, u \in Tests}

\* The headers: guarded, guarded by #pragma once or _Pragma, unguarded, each
\* including the other, one with a literal at its end.
Guard(body) ==
  <<Conditionals(<<Branch(Test("ifdef", TRUE, "defined", <<"G">>),
                          <<Definition(Object("G", <<>>))>> \o body)>>, <<>>)>>
Headers ==
  {Guard(<<K("1"), Word("h")>>), <<Once, K("3"), Inclusion(<<"o">>, TRUE, <<>>), UseK>>,
   <<OncePragma, Text(<<Str("h")>>)>>, <<Inclusion(<<"o">>, FALSE, <<>>), Text(<<Id("__LINE__"), Str("h")>>)>>}
Others == {<<Word("o")>>, <<Once, Inclusion(<<"h">>, TRUE, <<>>), Text(<<Id("k"), Str("o")>>)>>}

Files(main, h, o) == SourceOf(Root :> main @@ Near :> h @@ Sys :> <<Word("sys")>> @@ Other :> o)
OneHeader == CHOOSE h \in Headers : TRUE

DirectiveSources ==
  {Files(<<one, choice, UseK>>, Guard(<<K("1"), Word("h")>>), <<Word("o")>>) :
     one \in Simple, choice \in Groups}
  \cup {Files(<<a, one, b, UseK>>, h, o) :
          a \in Header, one \in Simple, b \in Header, h \in Headers, o \in Others}
  \cup {Files(<<one, wrong, UseK>>, <<>>, <<>>) : one \in {K("1"), Text(<<>>)}, wrong \in WrongLines}
  \cup {Files(<<Conditionals(<<Branch(t, <<wrong, Word("p")>>)>>, <<Word("q")>>)>>, <<>>, <<>>) :
          t \in {r \in Tests : r.what # "name"},
          wrong \in {w \in WrongLines : Len(w.ts) < 2 \/ w.ts[2].v \notin
                       {<<n>> : n \in {"if", "elif", "else", "endif"}}}}
  \cup {Files(<<Definition(Object("hdr", name)), Inclusion(<<"h">>, angle, <<"hdr">>), UseK>>, h, <<>>) :
          <<name, angle>> \in {<<<<P("<"), Id("h"), P(">")>>, TRUE>>, <<<<Str("h")>>, FALSE>>},
          h \in Headers}
  \cup {Files(<<Inclusion(<<"main">>, FALSE, <<>>), UseK>>, <<>>, <<>>)}

(***************************************************************************)
(* Conditions: expressions of two operators, each asked for its value and  *)
(* for whether it is unsigned.  No operand is undefined, be it evaluated   *)
(* or not (README).                                                        *)
(***************************************************************************)
N(n) == Constant(<<ToString(n)>>, n, FALSE)
U(n) == Constant(<<ToString(n), "u">>, n, TRUE)
Letter == Leaf(Token("chr", <<"", "A">>), 65)
Triples ==
  {<<N(7), N(2), N(3)>>, <<Constant(<<"0xc8">>, 200, TRUE), N(1), Unop("-", N(5))>>,
   <<Unop("~", Constant(<<"012">>, 10, FALSE)), U(3), Leaf(Id("zz"), 0)>>,
   <<Letter, Unop("!", N(0)), U(2)>>}

BinaryOperators == UNION ToSet(Operators)
Trees ==
  UNION {{Binop(p, Binop(q, l[1], l[2]), l[3]), Binop(p, l[1], Binop(q, l[2], l[3])),
          Unop("-", Binop(p, l[1], l[3])), Choose(Binop(p, l[1], l[2]), Binop(q, l[3], l[1]), l[2])} :
           p \in BinaryOperators, q \in BinaryOperators, l \in Triples}

RECURSIVE DefinedThroughout(_)
DefinedThroughout(e) ==
  /\ Meant(e).def
  /\ e.e \in {"un", "bin", "if"} => DefinedThroughout(e.a)
  /\ e.e \in {"bin", "if"} => DefinedThroughout(e.b)
  /\ e.e = "if" => DefinedThroughout(e.q)

Literal(m) ==
  CASE m.u -> U(m.n)
    [] ~m.u /\ m.n >= 0 -> N(m.n)
    [] ~m.u /\ m.n < 0 -> Binop("-", Unop("-", N(-m.n - 1)), N(1))
IsSigned(e) == Binop("<", Choose(N(1), Unop("-", N(1)), e), N(0))
Probe(e) ==
  Binop("&&", Binop("==", e, Literal(Meant(e))),
              IF Meant(e).u THEN Unop("!", IsSigned(e)) ELSE IsSigned(e))

ExpressionSources ==
  {SourceOf(Root :> <<Conditionals(<<Branch(Test("if", FALSE, "expr", Probe(e)), <<Word("p")>>)>>,
                                   <<Word("q")>>)>>) :
     e \in {tree \in Trees : DefinedThroughout(tree)}}
  \cup {SourceOf(Root :> <<Wrong(Hash("if") \o <<Ws>> \o ts), Wrong(Hash("endif"))>>) :
          ts \in {<<Num("1"), P("/"), Num("0")>>, <<P("("), Num("1")>>, <<Num("08")>>, <<Num("1.5")>>,
                  <<Num("1"), Ws, Num("2")>>, <<Num("1"), P("?"), Num("2")>>, <<P("("), P(")")>>,
                  <<Str("s")>>, <<Num("1"), P("%"), P("!"), Num("3")>>, <<Num("2"), P("+")>>}}

AllSources == MacroSources \cup DirectiveSources \cup ExpressionSources

\* Two macros that name each other.
MutualSources ==
  {SourceOf(Root :> <<Definition(one), Definition(two), Text(<<Id("a"), P(";")>>)>>) :
     <<one, two>> \in {<<Object("a", <<Id("b")>>), Object("b", <<Num("1")>>)>>,
                      <<Object("a", <<Id("b")>>), Object("b", <<Id("a"), P("+"), Num("1")>>)>>}}
=============================================================================
