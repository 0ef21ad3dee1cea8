--------------------------- MODULE MacroExpansion ---------------------------
(***************************************************************************)
(* Macro replacement as Preprocessor performs it on a list of tokens:      *)
(* collecting arguments, substituting and stringizing parameters, pasting, *)
(* and expandMacros, which expands a list and rescans every replacement on *)
(* its own.  "Paint" keeps a macro from replacing its own name again.      *)
(*                                                                         *)
(* A lexeme is a sequence of atoms, so that pasting is concatenation; the  *)
(* first atom of a string literal is its encoding prefix.  A literal has a *)
(* second spelling, its decoded value: dec is <<>> until there is one.     *)
(* White space is a token, as it is in the code.                           *)
(***************************************************************************)
EXTENDS Integers, SequencesExt, TLC

CONSTANTS
  MaxNesting    \* bound: rescans nested deeper than this are cut short

Token(k, v) == [k |-> k, v |-> v, dec |-> <<>>, paint |-> {}, ln |-> 0]
Ws == Token("ws", <<" ">>)
Nl == Token("nl", <<"\n">>)
Comma == Token("punct", <<",">>)

\* What an expansion that is nested past the bound leaves.
Loop == Token("loop", <<>>)

IsPunct(t, c) == t.k = "punct" /\ t.v = <<c>>

\* skipWhitespaceTokens: the first position from i on that is not white space.
RECURSIVE SkipWs(_, _)
SkipWs(ts, i) == IF i <= Len(ts) /\ ts[i].k = "ws" THEN SkipWs(ts, i + 1) ELSE i
RECURSIVE SkipWsBack(_, _)
SkipWsBack(ts, i) == IF i >= 1 /\ ts[i].k = "ws" THEN SkipWsBack(ts, i - 1) ELSE i

NotWs(ts) == SelectSeq(ts, LAMBDA t : t.k # "ws")
RECURSIVE DropLastWs(_)
DropLastWs(ts) == IF ts # <<>> /\ Last(ts).k = "ws" THEN DropLastWs(Front(ts)) ELSE ts

Painted(ts, name) == [i \in DOMAIN ts |-> [ts[i] EXCEPT !.paint = @ \cup {name}]]

(***************************************************************************)
(* collectMacroArguments from position k, just past the opening                *)
(* parenthesis.  A list that ends first leaves endIdx at the first token.  *)
(***************************************************************************)
RECURSIVE Collect(_, _, _, _, _)
Collect(ts, k, depth, arg, args) ==
  IF k > Len(ts) THEN [args |-> args, end |-> 1]
  ELSE LET t == ts[k]
           kept == IF t.k = "ws" /\ arg = <<>> THEN arg ELSE Append(arg, t)
       IN CASE IsPunct(t, "(") -> Collect(ts, k + 1, depth + 1, kept, args)
            [] IsPunct(t, ")") /\ depth > 1 -> Collect(ts, k + 1, depth - 1, kept, args)
            [] IsPunct(t, ")") /\ depth = 1 ->
                 [args |-> IF arg # <<>> \/ args = <<>> THEN Append(args, arg) ELSE args,
                  end |-> k]
            [] IsPunct(t, ",") /\ depth = 1 -> Collect(ts, k + 1, depth, <<>>, Append(args, arg))
            [] OTHER -> Collect(ts, k + 1, depth, kept, args)

\* collectVariadicArgs: the arguments past the parameters become one.
RECURSIVE Joined(_)
Joined(args) == CASE args = <<>> -> <<>>
                  [] Len(args) = 1 -> args[1]
                  [] OTHER -> args[1] \o <<Comma>> \o Joined(Tail(args))

WithVarArgs(m, args) ==
  LET n == Len(m.params)
  IN IF ~m.variadic \/ Len(args) < n THEN args
     ELSE Append(SubSeq(args, 1, n), Joined(SubSeq(args, n + 1, Len(args))))

\* findParamIndex: the argument a token of the replacement stands for, 0 for
\* none; the variable arguments follow the named ones.
VaArgs == <<"__VA_ARGS__">>
ParamIndex(m, t) ==
  IF m.variadic /\ t.v = VaArgs THEN Len(m.params) + 1
  ELSE LET at == {p \in DOMAIN m.params : m.params[p] = t.v}
       IN IF at = {} THEN 0 ELSE CHOOSE p \in at : \A q \in at : p <= q

Argument(args, p) == IF p \in DOMAIN args THEN args[p] ELSE <<>>

(***************************************************************************)
(* stringifyTokens: inner white space is one blank, outer white space goes,*)
(* quotes and backslashes are escaped.  The token is made with its decoded *)
(* value, in which the escapes are gone; its lexeme keeps them.            *)
(***************************************************************************)
Backslash == "\\"
Quote == "\""

\* A literal as it is written: prefix, quote, contents, quote.
Lexeme(t) == SelectSeq(<<Head(t.v)>>, LAMBDA a : a # "") \o <<Quote>> \o Tail(t.v) \o <<Quote>>

Escaped(v) ==
  FlattenSeq([i \in DOMAIN v |->
    IF v[i] \in {Quote, Backslash} THEN <<Backslash, v[i]>> ELSE <<v[i]>>])

RECURSIVE Unescaped(_)
Unescaped(v) ==
  IF Len(v) < 2 THEN v
  ELSE IF v[1] = Backslash THEN <<v[2]>> \o Unescaped(SubSeq(v, 3, Len(v)))
  ELSE <<v[1]>> \o Unescaped(Tail(v))

Stringified == <<"__STRINGIFIED__">>

Spelled(t) == Escaped(IF t.k = "str" THEN Lexeme(t) ELSE t.v)
RECURSIVE Spell(_, _)
Spell(ts, i) ==
  IF i > Len(ts) THEN <<>>
  ELSE LET gap == IF i > 1 /\ ts[i - 1].k = "ws" THEN <<" ">> ELSE <<>>
       IN IF ts[i].k = "ws" THEN Spell(ts, i + 1) ELSE gap \o Spelled(ts[i]) \o Spell(ts, i + 1)

Stringify(ts) ==
  LET trimmed == DropLastWs(SubSeq(ts, SkipWs(ts, 1), Len(ts)))
      inner == Spell(trimmed, 1)
  IN [Token("str", <<"">> \o inner) EXCEPT !.dec = <<Unescaped(inner)>>, !.paint = {Stringified}]

\* isPasteAdjacent: the token at r is an operand of ##.
IsPasteAdjacent(m, r) ==
  LET p == SkipWsBack(m.repl, r - 1)
      n == SkipWs(m.repl, r + 1)
  IN \/ p >= 1 /\ IsPunct(m.repl[p], "##")
     \/ n <= Len(m.repl) /\ IsPunct(m.repl[n], "##")

(***************************************************************************)
(* handleTokenPasting: each ## joins the next token to the last one kept.  *)
(***************************************************************************)
RECURSIVE Paste(_, _, _)
Paste(ts, i, kept) ==
  IF i > Len(ts) THEN kept
  ELSE LET prev == SkipWsBack(ts, i - 1)
           n == SkipWs(ts, i + 1)
           left == DropLastWs(kept)
       IN IF IsPunct(ts[i], "##") /\ prev >= 1 /\ n <= Len(ts) /\ left # <<>>
          THEN Paste(ts, n + 1, [left EXCEPT ![Len(left)].v = @ \o ts[n].v])
          ELSE Paste(ts, i + 1, Append(kept, ts[i]))

\* __LINE__ in a replacement list has the line of the invocation.
AtLine(t, ln) == IF t.v = <<"__LINE__">> THEN [t EXCEPT !.ln = ln] ELSE t

Line(env, t) == Token("num", <<ToString(t.ln + env.offset)>>)

(***************************************************************************)
(* expandMacros from position i on, and the operators it calls; env is the *)
(* macro table and the offset of #line, depth the number of rescans around *)
(* this one.                                                               *)
(***************************************************************************)
RECURSIVE ExpandFrom(_, _, _, _, _), Substitute(_, _, _, _, _, _)

ExpandMacros(env, ts, depth) ==
  IF depth > MaxNesting THEN <<Loop>> ELSE ExpandFrom(env, ts, 1, depth, <<>>)

\* Fault: an operand of ## is expanded, too.
SubstitutedArgumentExpanded(env, m, r, arg, depth) ==
  Painted(ExpandMacros(env, arg, depth), m.name)

\* appendSubstitutedArgument: a ## operand is taken as it is, another one expanded.
SubstitutedArgument(env, m, r, arg, depth) ==
  Painted(IF IsPasteAdjacent(m, r) THEN arg ELSE ExpandMacros(env, arg, depth), m.name)

\* substituteParameters from position r of the replacement list on.
Substitute(env, m, args, at, r, depth) ==
  IF r > Len(m.repl) THEN <<>>
  ELSE LET t == m.repl[r]
           n == SkipWs(m.repl, r + 1)
           strings == IsPunct(t, "#") /\ n <= Len(m.repl) /\ ParamIndex(m, m.repl[n]) > 0
           p == ParamIndex(m, t)
           rest(from) == Substitute(env, m, args, at, from, depth)
       IN CASE strings ->
                 Painted(<<Stringify(Argument(args, ParamIndex(m, m.repl[n])))>>, m.name)
                   \o rest(n + 1)
            [] ~strings /\ t.k = "id" /\ p > 0 ->
                 SubstitutedArgument(env, m, r, Argument(args, p), depth) \o rest(r + 1)
            [] OTHER -> Painted(<<AtLine(t, at.ln)>>, m.name) \o rest(r + 1)

\* tryExpandFunctionLikeMacro on the name at position i.
Invocation(ts, i, m) ==
  LET open == SkipWs(ts, i + 1)
      c == Collect(ts, open + 1, 1, <<>>, <<>>)
      args == WithVarArgs(m, c.args)
      fits == IF m.variadic THEN Len(args) >= Len(m.params) ELSE Len(args) = Len(m.params)
  IN IF open > Len(ts) \/ ~IsPunct(ts[open], "(") THEN [ok |-> FALSE]
     ELSE IF ~fits THEN [ok |-> FALSE] ELSE [ok |-> TRUE, args |-> args, end |-> c.end]

InvocationResult(env, m, args, at, depth) ==
  ExpandMacros(env, Paste(Substitute(env, m, args, at, 1, depth), 1, <<>>), depth + 1)

\* The replacement of an object-like macro, before it is rescanned.
ObjectReplacement(m, at) == Painted([i \in DOMAIN m.repl |-> AtLine(m.repl[i], at.ln)], m.name)

ExpandFrom(env, ts, i, depth, done) ==
  IF i > Len(ts) THEN done
  ELSE LET t == ts[i]
           asIs == ExpandFrom(env, ts, i + 1, depth, Append(done, t))
       IN CASE t.k # "id" -> asIs
            [] t.k = "id" /\ t.v = <<"__LINE__">> ->
                 ExpandFrom(env, ts, i + 1, depth, Append(done, Line(env, t)))
            [] t.k = "id" /\ t.v # <<"__LINE__">> ->
                 IF t.v \notin DOMAIN env.macros \/ t.v \in t.paint THEN asIs
                 ELSE LET m == env.macros[t.v]
                          call == Invocation(ts, i, m)
                      IN IF ~m.fun
                         THEN ExpandFrom(env, ts, i + 1, depth,
                                done \o ExpandMacros(env, ObjectReplacement(m, t), depth + 1))
                         ELSE IF ~call.ok THEN asIs
                         ELSE ExpandFrom(env, ts, call.end + 1, depth,
                                done \o InvocationResult(env, m, call.args, t, depth))
=============================================================================
