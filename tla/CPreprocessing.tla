--------------------------- MODULE CPreprocessing ---------------------------
(***************************************************************************)
(* What translation phases 4 and 6 make of a source (C11 6.10), stated on  *)
(* the structure of the source rather than on its tokens: groups of text   *)
(* lines, definitions, conditionals and inclusions.  Macro replacement is  *)
(* the algorithm the standard's wording was written from, in which every   *)
(* token carries the set of macros that may no longer replace it.          *)
(*                                                                         *)
(* Rendered turns a structure into the tokens Preprocessor reads, Meaning  *)
(* into the tokens that should come out.                                   *)
(***************************************************************************)
EXTENDS Preprocessor

(***************************************************************************)
(* The parts of a source                                                   *)
(***************************************************************************)
Id(v) == Token("id", <<v>>)
Num(v) == Token("num", <<v>>)
Str(v) == Token("str", <<"", v>>)
P(v) == Token("punct", <<v>>)
Hash(word) == <<P("#"), Id(word)>>

Text(ts) == [p |-> "text", ts |-> ts]
Definition(m) == [p |-> "define", m |-> m]
Undefinition(name) == [p |-> "undef", name |-> name]
\* A conditional: [test, body] branches and the group of its #else.
Conditionals(branches, else) == [p |-> "if", branches |-> branches, else |-> else]
\* via names the macro whose replacement the header-name is, if any.
Inclusion(name, angle, via) == [p |-> "include", name |-> name, angle |-> angle, via |-> via]
LineNumber(n) == [p |-> "line", n |-> n, file |-> <<>>]
LineAndFile(n, file) == [p |-> "line", n |-> n, file |-> <<Str(file)>>]
Once == [p |-> "once"]
OncePragma == [p |-> "pragma"]       \* _Pragma("once")
\* A line that breaks a constraint, and one that is only reported.
Wrong(ts) == [p |-> "wrong", ts |-> ts]
\* A directive without effect.
Idle(ts) == [p |-> "idle", ts |-> ts]

\* A condition: form is "ifdef" or "if", what "defined", "name", "num" or "expr".
Test(form, neg, what, v) == [form |-> form, neg |-> neg, what |-> what, v |-> v]

(***************************************************************************)
(* Rendered: the tokens of the parts, each with its line                   *)
(***************************************************************************)
ParameterList(m) ==
  LET names == [i \in DOMAIN m.params |-> Token("id", m.params[i])]
      all == names \o (IF m.variadic THEN <<P("...")>> ELSE <<>>)
  IN <<P("(")>> \o FlattenSeq([i \in DOMAIN all |->
                     IF i = 1 THEN <<all[i]>> ELSE <<Comma, Ws, all[i]>>]) \o <<P(")")>>

(***************************************************************************)
(* Integer constant expressions (6.10.1, 6.6) as trees, written with no    *)
(* more parentheses than they need.  Meant gives the value as an integer,  *)
(* whether its type is unsigned, and whether C defines it; an operand that *)
(* is not evaluated need not be defined.                                   *)
(***************************************************************************)
Constant(v, n, u) == [e |-> "leaf", t |-> Token("num", v), n |-> n, u |-> u]
Leaf(t, n) == [e |-> "leaf", t |-> t, n |-> n, u |-> FALSE]
Unop(op, a) == [e |-> "un", op |-> op, a |-> a]
Binop(op, a, b) == [e |-> "bin", op |-> op, a |-> a, b |-> b]
Choose(q, a, b) == [e |-> "if", q |-> q, a |-> a, b |-> b]

Binding(op) ==
  CASE op = "||" -> 1 [] op = "&&" -> 2 [] op = "|" -> 3 [] op = "^" -> 4 [] op = "&" -> 5
    [] op \in {"==", "!="} -> 6 [] op \in {"<", ">", "<=", ">="} -> 7
    [] op \in {"<<", ">>"} -> 8 [] op \in {"+", "-"} -> 9 [] op \in {"*", "/", "%"} -> 10

RECURSIVE Written(_, _)
Written(e, outer) ==
  LET inner == CASE e.e = "leaf" -> 12 [] e.e = "un" -> 11 [] e.e = "bin" -> Binding(e.op)
                 [] e.e = "if" -> 0
      bare == CASE e.e = "leaf" -> <<e.t>>
                [] e.e = "un" -> <<P(e.op)>> \o Written(e.a, 11)
                [] e.e = "bin" -> Written(e.a, inner) \o <<Ws, P(e.op), Ws>> \o Written(e.b, inner + 1)
                [] e.e = "if" -> Written(e.q, 1) \o <<P("?")>> \o Written(e.a, 0)
                                   \o <<P(":")>> \o Written(e.b, 0)
  IN IF inner < outer THEN <<P("(")>> \o bare \o <<P(")")>> ELSE bare

Meaning2(n, u, def) ==
  [n |-> IF u THEN n % Modulus ELSE n, u |-> u,
   def |-> def /\ (u \/ (-Modulus <= 2 * n /\ 2 * n < Modulus))]
Whether(b, def) == Meaning2(IF b THEN 1 ELSE 0, FALSE, def)

Bit(n, k) == ((n % Modulus) \div 2^k) % 2 = 1
FromBits(u, F(_)) ==
  LET n == FoldFunction(LAMBDA a, b : a + b, 0, [k \in 0..(Width - 1) |-> IF F(k) THEN 2^k ELSE 0])
  IN IF ~u /\ 2 * n >= Modulus THEN n - Modulus ELSE n

Meant2(op, x, y) ==
  LET u == x.u \/ y.u
      a == IF u THEN x.n % Modulus ELSE x.n
      b == IF u THEN y.n % Modulus ELSE y.n
      def == x.def /\ y.def
      abs(n) == IF n < 0 THEN -n ELSE n
      toward0 == LET q == abs(a) \div abs(b) IN IF a * b < 0 THEN -q ELSE q
  IN CASE op = "||" -> Whether(x.n # 0 \/ y.n # 0, x.def /\ (x.n # 0 \/ y.def))
       [] op = "&&" -> Whether(x.n # 0 /\ y.n # 0, x.def /\ (x.n = 0 \/ y.def))
       [] op \in {"==", "!="} -> Whether((a = b) = (op = "=="), def)
       [] op \in {"<", ">="} -> Whether((a < b) = (op = "<"), def)
       [] op \in {">", "<="} -> Whether((a > b) = (op = ">"), def)
       [] op = "|" -> Meaning2(FromBits(u, LAMBDA k : Bit(a, k) \/ Bit(b, k)), u, def)
       [] op = "&" -> Meaning2(FromBits(u, LAMBDA k : Bit(a, k) /\ Bit(b, k)), u, def)
       [] op = "^" -> Meaning2(FromBits(u, LAMBDA k : Bit(a, k) # Bit(b, k)), u, def)
       [] op \in {"<<", ">>"} ->
            LET ok == def /\ 0 <= y.n /\ y.n < Width /\ (op = ">>" \/ x.u \/ x.n >= 0)
            IN IF ~ok THEN Meaning2(0, x.u, FALSE)
               ELSE Meaning2(IF op = "<<" THEN x.n * 2^y.n ELSE x.n \div 2^y.n, x.u, TRUE)
       [] op = "+" -> Meaning2(a + b, u, def)
       [] op = "-" -> Meaning2(a - b, u, def)
       [] op = "*" -> Meaning2(a * b, u, def)
       [] op \in {"/", "%"} ->
            IF b = 0 THEN Meaning2(0, u, FALSE)
            ELSE IF op = "/" THEN Meaning2(toward0, u, def)
            ELSE Meaning2(a - b * toward0, u, Meaning2(toward0, u, def).def)

RECURSIVE Meant(_)
Meant(e) ==
  CASE e.e = "leaf" -> Meaning2(e.n, e.u, TRUE)
    [] e.e = "bin" -> Meant2(e.op, Meant(e.a), Meant(e.b))
    [] e.e = "if" ->
         LET q == Meant(e.q)  a == Meant(e.a)  b == Meant(e.b)
         IN Meaning2(IF q.n # 0 THEN a.n ELSE b.n, a.u \/ b.u,
                     q.def /\ (IF q.n # 0 THEN a.def ELSE b.def))
    [] e.e = "un" ->
         LET a == Meant(e.a)
         IN CASE e.op = "!" -> Whether(a.n = 0, a.def)
              [] e.op = "~" -> Meaning2(-1 - a.n, a.u, a.def)
              [] e.op = "-" -> Meaning2(-a.n, a.u, a.def)
              [] e.op = "+" -> a

TestTokens(t) ==
  (IF t.neg THEN <<P("!")>> ELSE <<>>) \o
  (CASE t.what = "defined" -> <<Id("defined"), P("("), Token("id", t.v), P(")")>>
     [] t.what = "name" -> <<Token("id", t.v)>>
     [] t.what = "num" -> <<Token("num", t.v)>>
     [] t.what = "expr" -> <<P("(")>> \o Written(t.v, 0) \o <<P(")")>>)

TestLine(t, first) ==
  CASE t.form = "ifdef" -> Hash(IF t.neg THEN "ifndef" ELSE "ifdef") \o <<Ws, Token("id", t.v), Nl>>
    [] t.form = "if" -> Hash(IF first THEN "if" ELSE "elif") \o <<Ws>> \o TestTokens(t) \o <<Nl>>

RECURSIVE Lines(_)
PartTokens(x) ==
  CASE x.p \in {"text", "wrong", "idle"} -> Append(x.ts, Nl)
    [] x.p = "define" -> Hash("define") \o <<Ws, Token("id", x.m.name)>>
                           \o (IF x.m.fun THEN ParameterList(x.m) ELSE <<>>)
                           \o <<Ws>> \o x.m.repl \o <<Ws, Nl>>
    [] x.p = "undef" -> Hash("undef") \o <<Ws, Token("id", x.name), Nl>>
    [] x.p = "include" -> Hash("include") \o <<Ws>>
                            \o (IF x.via # <<>> THEN <<Token("id", x.via)>>
                                ELSE IF x.angle THEN <<P("<"), Token("id", x.name), P(">")>>
                                ELSE <<Token("str", <<"">> \o x.name)>>) \o <<Nl>>
    [] x.p = "line" -> Hash("line") \o <<Ws, Num(ToString(x.n))>>
                         \o (IF x.file = <<>> THEN <<Nl>> ELSE <<Ws, x.file[1], Nl>>)
    [] x.p = "once" -> Hash("pragma") \o <<Ws, Id("once"), Nl>>
    [] x.p = "pragma" -> <<Id("_Pragma"), P("("), Str("once"), P(")"), Nl>>
    [] x.p = "if" ->
         FlattenSeq([i \in DOMAIN x.branches |->
                       TestLine(x.branches[i].test, i = 1) \o Lines(x.branches[i].body)])
           \o (IF x.else = <<>> THEN <<>> ELSE Hash("else") \o <<Nl>> \o Lines(x.else))
           \o Hash("endif") \o <<Nl>>
Lines(parts) == FlattenSeq([i \in DOMAIN parts |-> PartTokens(parts[i])])

LineCount(ts) == Cardinality({i \in DOMAIN ts : ts[i].k = "nl"})
Located(ts, ln) ==
  [i \in DOMAIN ts |-> [ts[i] EXCEPT !.ln = ln + LineCount(SubSeq(ts, 1, i - 1))]]
Rendered(parts) == Located(Lines(parts), 1)

(***************************************************************************)
(* Macro replacement.  White space is a mark on the token it precedes.     *)
(***************************************************************************)
Solid(ts) ==
  SelectSeq([i \in DOMAIN ts |-> [k |-> ts[i].k, v |-> ts[i].v, ln |-> ts[i].ln, hide |-> {},
                                  sp |-> i > 1 /\ IsBlank(ts[i - 1])]],
            LAMBDA t : ~IsBlank(t))

\* The arguments of an invocation whose ( is at position i, and its ).
RECURSIVE Actuals(_, _, _, _)
Actuals(ts, i, depth, args) ==
  LET t == ts[i]
      more == [args EXCEPT ![Len(args)] = Append(@, t)]
  IN CASE IsPunct(t, ")") /\ depth = 0 -> [args |-> args, hide |-> t.hide, end |-> i]
       [] IsPunct(t, ")") /\ depth > 0 -> Actuals(ts, i + 1, depth - 1, more)
       [] IsPunct(t, "(") -> Actuals(ts, i + 1, depth + 1, more)
       [] IsPunct(t, ",") /\ depth = 0 -> Actuals(ts, i + 1, depth, Append(args, <<>>))
       [] OTHER -> Actuals(ts, i + 1, depth, more)

\* What a parameter stands for: the variable arguments keep their commas.
Between(args, from) ==
  FlattenSeq([i \in 1..(Len(args) - from + 1) |->
    IF i = 1 THEN args[from]
    ELSE <<[Comma EXCEPT !.ln = 0] @@ [hide |-> {}, sp |-> FALSE]>> \o args[from + i - 1]])

Formal(m, t) ==
  IF t.k # "id" THEN 0
  ELSE IF m.variadic /\ t.v = VaArgs THEN Len(m.params) + 1
  ELSE IF t.v \in ToSet(m.params) THEN CHOOSE p \in DOMAIN m.params : m.params[p] = t.v ELSE 0

Actual(m, args, p) == IF p > Len(m.params) THEN Between(args, p) ELSE args[p]

AsString(ts) ==
  FlattenSeq([i \in DOMAIN ts |-> (IF ts[i].sp /\ i > 1 THEN <<" ">> ELSE <<>>)
    \o (IF ts[i].k = "str" THEN Lexeme(ts[i]) ELSE ts[i].v)])

RECURSIVE Replaced(_, _, _), Body(_, _, _, _)

\* The tokens of the replacement list repl of m, with the arguments in place.
Operand(repl, r) == \E q \in {r - 1, r + 1} : q \in DOMAIN repl /\ IsPunct(repl[q], "##")

Stood(env, m, args, repl, r, p) ==
  IF p = 0 THEN <<repl[r]>>
  ELSE IF Operand(repl, r) THEN Actual(m, args, p)
  ELSE Replaced(env, Actual(m, args, p), <<>>)

Stringized(m, args, hash, param) ==
  [hash EXCEPT !.k = "str", !.v = <<"">> \o AsString(Actual(m, args, Formal(m, param)))]

Body(env, m, args, repl) ==
  FlattenSeq([r \in DOMAIN repl |->
    IF m.fun /\ IsPunct(repl[r], "#") THEN <<Stringized(m, args, repl[r], repl[r + 1])>>
    ELSE IF m.fun /\ r > 1 /\ IsPunct(repl[r - 1], "#") THEN <<>>
    ELSE Stood(env, m, args, repl, r, Formal(m, repl[r]))])

RECURSIVE Glued(_, _)
Glued(ts, i) ==
  IF i > Len(ts) THEN <<>>
  ELSE IF i + 1 < Len(ts) /\ IsPunct(ts[i + 1], "##")
  THEN Glued([ts EXCEPT ![i + 2] = [ts[i] EXCEPT !.v = @ \o ts[i + 2].v,
                                                 !.hide = @ \cap ts[i + 2].hide]], i + 2)
  ELSE <<ts[i]>> \o Glued(ts, i + 1)

\* What the name t, read before the tokens after it, is replaced by.
Result(env, t, args, hide) ==
  LET body == Glued(Body(env, env.macros[t.v], args, Solid(env.macros[t.v].repl)), 1)
  IN [i \in DOMAIN body |-> [body[i] EXCEPT !.hide = @ \cup hide \cup {t.v}, !.ln = t.ln]]

Invoked(env, t, rest, call) ==
  Result(env, t, call.args, t.hide \cap call.hide) \o SubSeq(rest, call.end + 1, Len(rest))

LineOf(env, t) ==
  IF t.v = <<"__LINE__">> THEN [t EXCEPT !.k = "num", !.v = <<ToString(t.ln + env.offset)>>] ELSE t

Replaces(env, t, rest) ==
  /\ t.k = "id" /\ t.v \in DOMAIN env.macros /\ t.v \notin t.hide
  /\ env.macros[t.v].fun => (rest # <<>> /\ IsPunct(rest[1], "("))

Rescanned(env, t, rest) ==
  IF env.macros[t.v].fun THEN Invoked(env, t, rest, Actuals(rest, 2, 0, <<<<>>>>))
  ELSE Result(env, t, <<>>, t.hide) \o rest

Replaced(env, ts, done) ==
  IF ts = <<>> THEN done
  ELSE IF Replaces(env, ts[1], Tail(ts)) THEN Replaced(env, Rescanned(env, ts[1], Tail(ts)), done)
  ELSE Replaced(env, Tail(ts), Append(done, LineOf(env, ts[1])))

(***************************************************************************)
(* Meaning: the state after a part, from the state before it.  at is the   *)
(* file being read and the files around it; s.out the text so far, s.wrong *)
(* whether a constraint was broken, s.ln the line of the part.             *)
(***************************************************************************)
EnvOf(s) == [macros |-> s.macros, offset |-> s.offset]

Truth(s, t, value) ==
  CASE t.what = "defined" -> t.v \in DOMAIN s.macros
    [] t.what = "num" -> t.v # <<"0">>
    [] t.what = "name" -> value # <<>> /\ value[1].k = "num" /\ value[1].v # <<"0">>
Holds(s, t) ==
  IF t.what = "expr" THEN t.neg # (Meant(t.v).n # 0)
  ELSE t.neg # Truth(s, t, Replaced(EnvOf(s), Solid(<<Token("id", t.v)>>), <<>>))

\* The files an inclusion may name, the first one being meant.
Named(at, x) ==
  SelectSeq([i \in 1..(Len(source.paths) + 1) |->
               [dir |-> IF i > 1 THEN source.paths[i - 1] ELSE IF x.angle THEN "none" ELSE at.path.dir,
                name |-> x.name]],
            LAMBDA p : p \in DOMAIN source.parts)

Size(parts) == LineCount(Lines(parts))

RECURSIVE Meaning(_, _, _), Group(_, _, _)

\* The lines before the group of branch n, its #if or #elif included.
Above(x, n) ==
  n + FoldLeft(LAMBDA sum, b : sum + Size(b.body), 0, SubSeq(x.branches, 1, n - 1))

Least(ns) == IF ns = {} THEN 0 ELSE CHOOSE n \in ns : \A k \in ns : n <= k
Taken(x, s) == Least({n \in DOMAIN x.branches : Holds(s, x.branches[n].test)})

\* The group of branch n, 0 being the #else, with the lines above it.
Selected(x, s, at, n) ==
  LET all == Len(x.branches)
  IN IF n > 0 THEN Group(x.branches[n].body, [s EXCEPT !.ln = @ + Above(x, n)], at)
     ELSE Group(x.else, [s EXCEPT !.ln = @ + Above(x, all + 1)], at)

Included(paths, s, at) ==
  IF paths = <<>> THEN [s EXCEPT !.wrong = TRUE]
  ELSE IF paths[1] \in s.once THEN s
  ELSE IF paths[1] \in at.around THEN [s EXCEPT !.wrong = TRUE]
  ELSE Group(source.parts[paths[1]], [s EXCEPT !.ln = 1, !.offset = 0],
             [path |-> paths[1], around |-> at.around \cup {paths[1]}])

Effect(x, s, at) ==
  CASE x.p = "text" ->
         [s EXCEPT !.out = @ \o Replaced(EnvOf(s), Solid(Located(x.ts, s.ln)), <<>>)]
    [] x.p = "define" ->
         IF x.m.name \in Protected
            \/ (x.m.name \in DOMAIN s.macros /\ s.macros[x.m.name] # x.m)
         THEN [s EXCEPT !.wrong = TRUE]
         ELSE [s EXCEPT !.macros = (x.m.name :> x.m) @@ @]
    [] x.p = "undef" -> [s EXCEPT !.macros = [n \in DOMAIN @ \ {x.name} |-> @[n]]]
    [] x.p = "if" -> Selected(x, s, at, Taken(x, s))
    [] x.p = "include" ->
         Included(Named(at, x), s, at)
    [] x.p = "line" ->
         LET named == [s EXCEPT !.offset = x.n - s.ln - 1]
         IN IF x.file = <<>> THEN named
            ELSE [named EXCEPT !.macros[<<"__FILE__">>].repl = x.file]
    [] x.p \in {"once", "pragma"} -> [s EXCEPT !.once = @ \cup {at.path}]
    [] x.p = "wrong" -> [s EXCEPT !.wrong = TRUE]
    [] x.p = "idle" -> s

\* #line numbers the lines of its own file only.
Meaning(x, s, at) ==
  [Effect(x, s, at) EXCEPT !.ln = s.ln + Size(<<x>>),
                           !.offset = IF x.p = "include" THEN s.offset ELSE @]

Group(parts, s, at) ==
  IF parts = <<>> THEN s ELSE Group(Tail(parts), Meaning(Head(parts), s, at), at)

\* Phase 6: runs of literals, and whether one mixes two prefixes.
RECURSIVE Literals(_, _)
Literals(ts, done) ==
  IF ts = <<>> THEN done
  ELSE LET t == Head(ts)
           last == Last(done.ts)
           joins == done.ts # <<>> /\ last.k = "str" /\ t.k = "str"
           prefixes == {last.v[1], t.v[1]} \ {""}
       IN IF ~joins THEN Literals(Tail(ts), [done EXCEPT !.ts = Append(@, t)])
          ELSE IF Cardinality(prefixes) > 1
          THEN Literals(Tail(ts), [ts |-> Append(done.ts, t), wrong |-> TRUE])
          ELSE Literals(Tail(ts), [done EXCEPT !.ts[Len(done.ts)].v =
                 <<IF prefixes = {} THEN "" ELSE CHOOSE x \in prefixes : TRUE>>
                   \o Tail(last.v) \o Tail(t.v)])

Start == [out |-> <<>>, macros |-> Predefined(source.root), once |-> {}, wrong |-> FALSE,
          ln |-> 1, offset |-> 0]
Phase6(end) == Literals(end.out, [ts |-> <<>>, wrong |-> end.wrong])
Translation == Phase6(Group(source.parts[source.root], Start,
                            [path |-> source.root, around |-> {source.root}]))
Spellings(ts) == [i \in DOMAIN ts |-> <<ts[i].k, ts[i].v>>]

(***************************************************************************)
(* Properties                                                              *)
(***************************************************************************)
\* What the Lexer takes of a token: the decoded value of a literal, the lexeme,
\* quotes and all, of one that was never decoded.  The prefix, which it drops
\* (README), is kept.
HandedOn(t) ==
  IF t.dec # <<>> THEN [t EXCEPT !.v = <<Head(@)>> \o t.dec[1]]
  ELSE IF t.k = "str" THEN [t EXCEPT !.v = Lexeme(t)] ELSE t

Produced ==
  LET solid == SelectSeq(output, LAMBDA t : ~IsBlank(t))
  IN Spellings([i \in DOMAIN solid |-> HandedOn(solid[i])])

\* A source that breaks no constraint translates to the tokens the standard
\* gives it: skipped groups and directives leave nothing, definitions hold
\* from their line on through the headers, each replacement is made once and
\* only once (Preprocessor::ensureBuffer, expandMacros, executeInclude, next).
OutputAsWritten ==
  Finished => \E ref \in {Translation} : ref.wrong \/ Produced = Spellings(ref.ts)

\* Diagnostics are reported for the sources that break a constraint and for
\* no others; one in a skipped group is not looked at.
ErrorsAsWritten ==
  Finished => \E ref \in {Translation} : ref.wrong = (errors # <<>>)

\* Replacing a macro never leads back to it without end: no expansion nests
\* deeper than the macros there are, twice over (docs/preprocessor.md:99; the
\* paint of expandMacros).
ReplacementsEnd ==
  \A i \in DOMAIN calls : Loop \notin (ToSet(calls[i].buf) \cup ToSet(calls[i].out))
=============================================================================
