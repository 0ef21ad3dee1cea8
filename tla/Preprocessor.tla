---------------------------- MODULE Preprocessor ----------------------------
(***************************************************************************)
(* The streaming preprocessor: ensureBuffer reads the tokens of a file,    *)
(* performs directives, skips inactive groups and replaces macros into     *)
(* outBuffer; next() takes tokens from there and joins adjacent string     *)
(* literals.  An #include runs a second Preprocessor to its end and hands  *)
(* its tokens, macros and #pragma once files back, so that the             *)
(* preprocessors that are running form a stack.                            *)
(***************************************************************************)
EXTENDS ConstantExpressions

CONSTANTS
  Sources       \* what may be translated: [files, root, paths, ...]

VARIABLES
  source,    \* the files (path -> tokens), the root file and the search paths
  calls,     \* the running preprocessors, the innermost last
  output,    \* what the outermost one has produced, once it is done
  errors     \* its diagnostics by kind, once it is done

vars == <<source, calls, output, errors>>

(***************************************************************************)
(* A Preprocessor.  inclusion holds the files being included from the      *)
(* outermost on, held the string literal next() is joining to, out what    *)
(* next() has returned.                                                    *)
(***************************************************************************)
Preprocessor(path, macros, once, inclusion) ==
  [toks |-> source.files[path], dir |-> path.dir, pos |-> 1,
   conds |-> <<>>, macros |-> macros, once |-> once,
   inclusion |-> Append(inclusion, path), offset |-> 0, atLineStart |-> TRUE,
   buf |-> <<>>, held |-> <<>>, out |-> <<>>, diags |-> <<>>]

c == Last(calls)
SetTop(d) == /\ calls' = [calls EXCEPT ![Len(calls)] = d]
             /\ UNCHANGED <<source, output, errors>>
Report(d, kind) == [d EXCEPT !.diags = Append(@, kind)]

AtEnd(d) == d.pos > Len(d.toks)
Here(d) == d.toks[d.pos]
Env(d) == [macros |-> d.macros, offset |-> d.offset]

RECURSIVE LineEnd(_, _)
LineEnd(d, i) == IF i > Len(d.toks) THEN i ELSE IF d.toks[i].k = "nl" THEN i ELSE LineEnd(d, i + 1)
LineTokens(d, i) == SubSeq(d.toks, i, LineEnd(d, i) - 1)
PastLine(d, i) == LineEnd(d, i) + 1

Frame(seen, active) == [seen |-> seen, active |-> active, inElse |-> FALSE]

\* checkActiveState, checkParentActiveState.
Active(conds) == \A i \in DOMAIN conds : conds[i].active
ParentActive(conds) == Active(Front(conds))

\* handleInactiveConditionalToken looks at the innermost frame only.
Skipping(d) == d.conds # <<>> /\ ~Last(d.conds).active

(***************************************************************************)
(* Phases 5 and 6.  normalizeLiteralToken decodes a literal once: the      *)
(* decoded value becomes its lexeme as well.  Two literals join unless     *)
(* both have a prefix and they differ.  next() joins both spellings;       *)
(* joining while tokens are pushed makes a new lexeme and leaves the       *)
(* decoded value the literal in the buffer had (README).                   *)
(***************************************************************************)
IsBlank(t) == t.k \in {"ws", "nl"}

Decoded(t) ==
  IF t.k \notin {"str", "chr"} \/ Stringified \in t.paint \/ t.dec # <<>> THEN t
  ELSE LET inner == Unescaped(Tail(t.v))
       IN [t EXCEPT !.v = <<Head(t.v)>> \o inner, !.dec = <<inner>>]

Joinable(l, r) == Head(l.v) = "" \/ Head(r.v) = "" \/ Head(l.v) = Head(r.v)
JoinedLexeme(l, r) ==
  <<IF Head(l.v) = "" THEN Head(r.v) ELSE Head(l.v)>> \o Tail(l.v) \o Tail(r.v)

\* What becomes of t, the one of l and r that is kept, while tokens are pushed.
Absorb(t, l, r) == [t EXCEPT !.v = JoinedLexeme(Decoded(l), Decoded(r)), !.paint = l.paint \cup r.paint]

\* In next().
JoinStrings(l, r) ==
  LET v == JoinedLexeme(l, r)
  IN [l EXCEPT !.v = v, !.dec = <<Tail(v)>>, !.paint = @ \cup r.paint]

\* pushTokenBackWithConcat: a literal joins the last one in the buffer.
RECURSIVE LastSolid(_, _)
LastSolid(b, i) == IF i >= 1 /\ IsBlank(b[i]) THEN LastSolid(b, i - 1) ELSE i

PushBack(d, t) ==
  LET p == LastSolid(d.buf, Len(d.buf))
      after == p >= 1 /\ t.k = "str" /\ d.buf[p].k = "str"
  IN IF after /\ Joinable(d.buf[p], t)
     THEN [d EXCEPT !.buf = Append(SubSeq(@, 1, p - 1), Absorb(@[p], @[p], t))]
     ELSE IF after THEN [Report(d, "prefixes") EXCEPT !.buf = Append(@, t)]
     ELSE [d EXCEPT !.buf = Append(@, Decoded(t))]

PushAllBack(d, ts) == FoldLeft(PushBack, d, ts)

(***************************************************************************)
(* pushTokenFrontWithConcat: a literal joins the first one in the buffer;  *)
(* when the buffer does not start with one, the literal looks ahead in the *)
(* raw tokens of the file, and the first token that is not a literal ends  *)
(* up right behind it, in front of what the buffer held.                   *)
(***************************************************************************)
RECURSIVE FirstSolid(_, _)
FirstSolid(b, i) == IF i <= Len(b) /\ IsBlank(b[i]) THEN FirstSolid(b, i + 1) ELSE i

RECURSIVE LookAhead(_, _, _)
LookAhead(d, merged, saved) ==
  IF AtEnd(d) THEN [d EXCEPT !.buf = <<merged>> \o saved \o @]
  ELSE LET t == Here(d)
           rest == [d EXCEPT !.pos = @ + 1]
           behind(next) == [rest EXCEPT !.buf = <<merged>> \o saved \o <<next>> \o @]
       IN IF IsBlank(t) THEN LookAhead(rest, merged, Append(saved, t))
          ELSE IF t.k # "str" THEN behind(t)
          ELSE IF Joinable(merged, t) THEN LookAhead(rest, Absorb(merged, merged, t), <<>>)
          ELSE Report(behind(Decoded(t)), "prefixes")

PushFront(d, t) ==
  LET j == FirstSolid(d.buf, 1)
      joins == j <= Len(d.buf) /\ d.buf[j].k = "str"
  IN IF t.k # "str" THEN [d EXCEPT !.buf = <<t>> \o @]
     ELSE IF ~joins THEN LookAhead(d, Decoded(t), <<>>)
     ELSE IF Joinable(t, d.buf[j])
     THEN [d EXCEPT !.buf = <<Absorb(@[j], t, @[j])>> \o SubSeq(@, j + 1, Len(@))]
     ELSE [Report(d, "prefixes") EXCEPT !.buf = <<t>> \o @]

RECURSIVE PushAllFront(_, _)
PushAllFront(d, ts) == IF ts = <<>> THEN d ELSE PushAllFront(PushFront(d, Last(ts)), Front(ts))

(***************************************************************************)
(* handleIdentifierExpansionToken on a name that was read: the state it    *)
(* leaves, and whether the name was dealt with.  The replacement of an     *)
(* object-like macro goes to the front of the buffer, that of a            *)
(* function-like one to its back.                                          *)
(***************************************************************************)
\* collectInvocationTokens: the position of the parenthesis that closes.
RECURSIVE Closing(_, _, _)
Closing(d, i, depth) ==
  IF i > Len(d.toks) THEN Len(d.toks)
  ELSE LET after == CASE IsPunct(d.toks[i], "(") -> depth + 1
                      [] IsPunct(d.toks[i], ")") -> depth - 1
                      [] OTHER -> depth
       IN IF IsPunct(d.toks[i], ")") /\ after <= 0 THEN i ELSE Closing(d, i + 1, after)

ExpandIdentifier(d, t) ==
  LET m == d.macros[t.v]
      open == SkipWs(d.toks, d.pos)
      opens == open <= Len(d.toks) /\ IsPunct(d.toks[open], "(")
      close == Closing(d, open, 0)
      invoked == <<t>> \o SubSeq(d.toks, open, close)
      call == Invocation(invoked, 1, m)
      result == IF call.ok THEN InvocationResult(Env(d), m, call.args, t, 0) ELSE invoked
  IN IF ~m.fun
     THEN [ok |-> TRUE,
           d |-> PushAllFront(d, ExpandMacros(Env(d), ObjectReplacement(m, t), 0))]
     ELSE IF ~opens THEN [ok |-> FALSE, d |-> [d EXCEPT !.pos = open]]
     ELSE [ok |-> TRUE, d |-> PushAllBack([d EXCEPT !.pos = close + 1], result)]

\* emitTokenOrLineExpansion.
Emit(d, t) ==
  [PushBack(d, IF t.k = "id" /\ t.v = <<"__LINE__">> THEN Line(Env(d), t) ELSE t)
     EXCEPT !.atLineStart = FALSE]

(***************************************************************************)
(* ensureBuffer on an ordinary token                                       *)
(***************************************************************************)
Reading == calls # <<>> /\ c.buf = <<>> /\ ~AtEnd(c)
IsDirective == c.atLineStart /\ IsPunct(Here(c), "#")
Rest == [c EXCEPT !.pos = @ + 1]

NewlineToken ==
  /\ Reading /\ Here(c).k = "nl"
  /\ SetTop([Rest EXCEPT !.buf = Append(@, Here(c)), !.atLineStart = TRUE])

SkipInactiveToken ==
  /\ Reading /\ Here(c).k # "nl" /\ Skipping(c) /\ ~IsDirective
  /\ SetTop(Rest)

TextToken ==
  /\ Reading /\ Here(c).k # "nl" /\ ~Skipping(c) /\ ~IsDirective
  /\ LET t == Here(c)
     IN IF t.k = "id" /\ t.v \in DOMAIN c.macros
        THEN \E x \in {ExpandIdentifier(Rest, t)} :
               SetTop(IF x.ok THEN x.d ELSE Emit(x.d, t))
        ELSE SetTop(Emit(Rest, t))

(***************************************************************************)
(* #define, #undef                                                         *)
(***************************************************************************)
Protected == {<<"defined">>, <<"__LINE__">>, <<"__FILE__">>, <<"__STDC__">>}

\* parseMacroParameters from position i: white space and commas are skipped.
RECURSIVE Parameters(_, _, _)
Parameters(d, i, params) ==
  IF i > Len(d.toks) THEN [ok |-> TRUE, params |-> params, variadic |-> FALSE, end |-> i]
  ELSE LET t == d.toks[i]
           close == SkipWs(d.toks, i + 1)
       IN CASE IsPunct(t, ")") ->
                 [ok |-> TRUE, params |-> params, variadic |-> FALSE, end |-> i + 1]
            [] IsPunct(t, "...") ->
                 [ok |-> TRUE, params |-> params, variadic |-> TRUE,
                  end |-> IF close <= Len(d.toks) /\ IsPunct(d.toks[close], ")")
                          THEN close + 1 ELSE close]
            [] t.k = "ws" \/ IsPunct(t, ",") -> Parameters(d, i + 1, params)
            [] t.k = "id" -> Parameters(d, i + 1, Append(params, t.v))
            [] OTHER -> [ok |-> FALSE, params |-> params, variadic |-> FALSE, end |-> i]

Trim(ts) == DropLastWs(SubSeq(ts, SkipWs(ts, 1), Len(ts)))

\* 6.10.3.2p1: every # of a function-like macro stands before a parameter.
HashesNameParameters(m) ==
  \A k \in DOMAIN m.repl :
    IsPunct(m.repl[k], "#") =>
      LET n == SkipWs(m.repl, k + 1)
      IN n <= Len(m.repl) /\ m.repl[n].k = "id" /\ ParamIndex(m, m.repl[n]) > 0

\* replacementListsIdentical: the same spellings, white space in the same gaps.
Normalized(ts) ==
  LET solid == SelectSeq([i \in DOMAIN ts |-> [t |-> ts[i], ws |-> i > 1 /\ ts[i - 1].k = "ws"]],
                         LAMBDA x : x.t.k # "ws")
  IN [i \in DOMAIN solid |-> <<solid[i].t.v, solid[i].ws /\ i > 1>>]

SameMacro(m, n) ==
  /\ m.fun = n.fun /\ m.variadic = n.variadic /\ m.params = n.params
  /\ Normalized(m.repl) = Normalized(n.repl)

Define(d, at) ==
  LET i == SkipWs(d.toks, at)
      named == i <= Len(d.toks) /\ d.toks[i].k = "id"
      name == d.toks[i].v
      fun == i + 1 <= Len(d.toks) /\ IsPunct(d.toks[i + 1], "(")
      ps == IF fun THEN Parameters(d, i + 2, <<>>)
            ELSE [ok |-> TRUE, params |-> <<>>, variadic |-> FALSE, end |-> i + 1]
      m == [name |-> name, fun |-> fun, params |-> ps.params, variadic |-> ps.variadic,
            repl |-> Trim(LineTokens(d, ps.end))]
      done == [d EXCEPT !.pos = LineEnd(d, ps.end)]
  IN CASE ~named -> Report([d EXCEPT !.pos = i], "macro name")
       [] named /\ name \in Protected -> Report([d EXCEPT !.pos = i], "protected")
       [] named /\ name \notin Protected /\ ~ps.ok -> Report([d EXCEPT !.pos = ps.end], "parameter")
       [] OTHER ->
            IF fun /\ ~HashesNameParameters(m) THEN Report(done, "hash")
            ELSE IF name \in DOMAIN d.macros /\ ~SameMacro(d.macros[name], m)
            THEN Report(done, "redefined")
            ELSE [done EXCEPT !.macros = (name :> m) @@ @]

Undef(d, at) ==
  LET i == SkipWs(d.toks, at)
      named == i <= Len(d.toks) /\ d.toks[i].k = "id"
  IN IF ~named THEN Report([d EXCEPT !.pos = i], "macro name")
     ELSE IF d.toks[i].v \in Protected THEN Report([d EXCEPT !.pos = i], "protected")
     ELSE [d EXCEPT !.pos = i + 1,
                    !.macros = [n \in DOMAIN @ \ {d.toks[i].v} |-> @[n]]]

(***************************************************************************)
(* #if and its kin                                                         *)
(***************************************************************************)
\* tryParseDefinedOperator over the tokens of a condition.
RECURSIVE FoldDefined(_, _, _)
FoldDefined(d, ts, i) ==
  IF i > Len(ts) THEN [ts |-> <<>>, diags |-> <<>>]
  ELSE LET j == SkipWs(ts, i + 1)
           parens == j <= Len(ts) /\ IsPunct(ts[j], "(")
           n == IF parens THEN SkipWs(ts, j + 1) ELSE j
           named == n <= Len(ts) /\ ts[n].k = "id"
           close == SkipWs(ts, n + 1)
           closed == parens => (close <= Len(ts) /\ IsPunct(ts[close], ")"))
           value == Token("num", <<IF ts[n].v \in DOMAIN d.macros THEN "1" ELSE "0">>)
           step(t, next, diags) ==
             LET more == FoldDefined(d, ts, next)
             IN [ts |-> <<t>> \o more.ts, diags |-> diags \o more.diags]
       IN IF ts[i].v # <<"defined">> THEN step(ts[i], i + 1, <<>>)
          ELSE IF named /\ closed THEN step(value, IF parens THEN close + 1 ELSE n + 1, <<>>)
          ELSE step(ts[i], i + 1, <<"defined">>)

\* evaluateConstantExpression
Verdict(diags, x) ==
  [ok |-> x.ok, holds |-> x.ok /\ x.bits # 0,
   diags |-> diags \o (IF x.ok THEN <<>> ELSE <<"expression">>)]
Folded(d, folded) ==
  Verdict(folded.diags, EvaluateExpression(Env(d), NotWs(ExpandMacros(Env(d), folded.ts, 0))))
Evaluate(d, ts) == Folded(d, FoldDefined(d, ts, 1))

Opened(read, x) ==
  LET told == [read EXCEPT !.diags = @ \o x.diags]
  IN IF x.ok THEN [told EXCEPT !.conds = Append(@, Frame(x.holds, x.holds /\ Active(@)))] ELSE told

If(d, at) == Opened([d EXCEPT !.pos = PastLine(d, at)], Evaluate(d, LineTokens(d, at)))

Reopened(read, n, x) ==
  LET told == [read EXCEPT !.diags = @ \o x.diags]
  IN IF x.ok THEN [told EXCEPT !.conds[n].seen = x.holds,
                               !.conds[n].active = x.holds /\ ParentActive(read.conds)]
     ELSE told

Elif(d, at) ==
  LET read == [d EXCEPT !.pos = PastLine(d, at)]
      n == Len(d.conds)
  IN IF n = 0 THEN Report(read, "elif without if")
     ELSE IF d.conds[n].inElse THEN Report(read, "elif after else")
     ELSE IF d.conds[n].seen THEN [read EXCEPT !.conds[n].active = FALSE]
     ELSE Reopened(read, n, Evaluate(d, LineTokens(d, at)))

Else(d, at) ==
  LET read == [d EXCEPT !.pos = PastLine(d, at)]
      n == Len(d.conds)
  IN IF n = 0 THEN Report(read, "else without if")
     ELSE IF d.conds[n].inElse THEN Report(read, "multiple else")
     ELSE [read EXCEPT !.conds[n].inElse = TRUE,
                       !.conds[n].active = ~d.conds[n].seen /\ ParentActive(d.conds)]

Endif(d, at) ==
  LET read == [d EXCEPT !.pos = at]
  IN IF d.conds = <<>> THEN Report(read, "endif without if")
     ELSE [read EXCEPT !.conds = Front(@)]

\* handleIfdef: the rest of the line is left to be read.
Ifdef(d, at, wantDefined) ==
  LET i == SkipWs(d.toks, at)
      named == i <= Len(d.toks) /\ d.toks[i].k = "id"
      take == named /\ ((d.toks[i].v \in DOMAIN d.macros) = wantDefined)
  IN [d EXCEPT !.pos = i + 1, !.conds = Append(@, Frame(take, take /\ Active(@)))]

(***************************************************************************)
(* #error, #warning, #line, #pragma                                        *)
(***************************************************************************)
LineNumberOf(t) == CHOOSE n \in 0..99 : ToString(n) = t.v[1]

LineDirective(d, ts) ==
  LET i == SkipWs(ts, 1)
      j == SkipWs(ts, i + 1)
      numbered == [d EXCEPT !.offset = LineNumberOf(ts[i]) - ts[i].ln - 1]
      file == [name |-> <<"__FILE__">>, fun |-> FALSE, params |-> <<>>, variadic |-> FALSE,
               repl |-> <<ts[j]>>]
  IN IF i > Len(ts) THEN Report(d, "line number")
     ELSE IF ts[i].k # "num" THEN Report(d, "line number")
     ELSE IF j > Len(ts) THEN numbered
     ELSE IF ts[j].k # "str" THEN Report(numbered, "line file")
     ELSE [numbered EXCEPT !.macros = (<<"__FILE__">> :> file) @@ @]

\* handlePragmaDirective: once, STDC FP_CONTRACT, or a warning.
Pragma(d, ts) ==
  LET words == [i \in DOMAIN NotWs(ts) |-> NotWs(ts)[i].v]
  IN CASE words = <<<<"once">>>> -> [d EXCEPT !.once = @ \cup {Last(d.inclusion)}]
       [] words = <<<<"STDC">>, <<"FP_CONTRACT">>, <<"ON">>>> -> d
       [] OTHER -> Report(d, "unknown pragma")

Utility(d, name, ts) ==
  CASE ~Active(d.conds) -> d
    [] Active(d.conds) /\ name = "error" -> Report(d, "#error")
    [] Active(d.conds) /\ name = "warning" -> Report(d, "#warning")
    [] Active(d.conds) /\ name = "line" -> LineDirective(d, ts)
    [] Active(d.conds) /\ name = "pragma" -> Pragma(d, ts)

(***************************************************************************)
(* #include.  Trying to include a header leaves a state of the includer    *)
(* and a path to open, or none.                                            *)
(***************************************************************************)
Failed(d, kind) == [d |-> Report(d, kind), ok |-> FALSE, open |-> FALSE]

\* resolveInclude: the directories a header is looked for in.
Places(d, angle) == (IF angle THEN <<>> ELSE <<d.dir>>) \o source.paths
Found(d, header, angle) ==
  SelectSeq([i \in DOMAIN Places(d, angle) |-> [dir |-> Places(d, angle)[i], name |-> header]],
            LAMBDA p : p \in DOMAIN source.files)

\* executeInclude up to the point where the file is open.
Attempt(d, header, angle) ==
  LET found == Found(d, header, angle)
  IN IF found = <<>> THEN Failed(d, "not found")
     ELSE IF found[1] \in d.once THEN [d |-> d, ok |-> TRUE, open |-> FALSE]
     ELSE IF found[1] \in ToSet(d.inclusion) THEN Failed(d, "failed to open")
     ELSE [d |-> d, ok |-> TRUE, open |-> TRUE, path |-> found[1]]

\* A quoted header that fails is tried again as an angle-bracketed one.
Quoted(d, header) ==
  LET first == Attempt(d, header, FALSE)
  IN IF first.ok THEN first ELSE Attempt(first.d, header, TRUE)

Spelling(ts) == FlattenSeq([i \in DOMAIN ts |-> ts[i].v])

\* The first position in ts of a >, one past the end if there is none.
RECURSIVE CloseAngle(_, _)
CloseAngle(ts, i) == IF i > Len(ts) THEN i ELSE IF IsPunct(ts[i], ">") THEN i
                     ELSE CloseAngle(ts, i + 1)

\* processMacroExpandedInclude
MacroInclude(d, ts) ==
  LET xs == ExpandMacros(Env(d), ts, 0)
      i == SkipWs(xs, 1)
      end == CloseAngle(xs, i)
  IN IF i > Len(xs) THEN Failed(d, "missing header-name")
     ELSE IF IsPunct(xs[i], "<")
     THEN IF end > Len(xs) THEN Failed(d, "unterminated header-name")
          ELSE Attempt(d, Spelling(SubSeq(xs, i + 1, end - 1)), TRUE)
     ELSE IF xs[i].k = "str" THEN Quoted(d, Tail(xs[i].v))
     ELSE Failed(d, "expected header")

Include(d, at) ==
  LET i == SkipWs(d.toks, at)
      line == LineTokens(d, i)
      end == CloseAngle(line, 1)
      to(n) == [d EXCEPT !.pos = n]
  IN IF line = <<>> THEN MacroInclude(to(i), <<>>)
     ELSE IF IsPunct(line[1], "<")
     THEN Attempt(to(IF end > Len(line) THEN i + Len(line) ELSE i + end),
                  Spelling(SubSeq(line, 2, end - 1)), TRUE)
     ELSE IF line[1].k = "str" THEN Quoted(to(i + 1), Tail(line[1].v))
     ELSE MacroInclude(to(i + Len(line)), line)

(***************************************************************************)
(* handleDirective                                                         *)
(***************************************************************************)
NameAt == SkipWs(c.toks, c.pos + 1)
AtName == Reading /\ IsDirective /\ NameAt <= Len(c.toks) /\ c.toks[NameAt].k = "id"
Directive(name) == AtName /\ c.toks[NameAt].v = <<name>>

\* Fault: a skipped group is searched for every directive.
HonoredAlways(name) == Directive(name)

Conditional == {"if", "ifdef", "ifndef", "elif", "else", "endif"}
Honored(name) == Directive(name) /\ (name \in Conditional \/ ~Skipping(c))

\* A # that no name follows: the null directive, or a line to skip.
NoName ==
  /\ Reading /\ IsDirective /\ ~AtName
  /\ SetTop([c EXCEPT !.pos = IF NameAt > Len(c.toks) THEN NameAt ELSE PastLine(c, NameAt)])

Known == Conditional \cup {"define", "undef", "include", "error", "warning", "line", "pragma"}

SkippedDirective ==
  /\ AtName
  /\ \A name \in Known : ~Honored(name)
  /\ SetTop([c EXCEPT !.pos = PastLine(c, NameAt)])

DefineDirective == Honored("define") /\ SetTop(Define(c, NameAt + 1))
UndefDirective == Honored("undef") /\ SetTop(Undef(c, NameAt + 1))
IfDirective == Honored("if") /\ \E d \in {If(c, NameAt + 1)} : SetTop(d)
IfdefDirective == Honored("ifdef") /\ SetTop(Ifdef(c, NameAt + 1, TRUE))
IfndefDirective == Honored("ifndef") /\ SetTop(Ifdef(c, NameAt + 1, FALSE))
ElifDirective == Honored("elif") /\ \E d \in {Elif(c, NameAt + 1)} : SetTop(d)
ElseDirective == Honored("else") /\ SetTop(Else(c, NameAt + 1))
EndifDirective == Honored("endif") /\ SetTop(Endif(c, NameAt + 1))

UtilityDirective ==
  \E name \in {"error", "warning", "line", "pragma"} :
    /\ Honored(name)
    /\ SetTop(Utility([c EXCEPT !.pos = PastLine(c, NameAt)], name, LineTokens(c, NameAt + 1)))

IncludeDirective ==
  /\ Honored("include")
  /\ \E x \in {Include(c, NameAt + 1)} :
       IF x.open
       THEN /\ calls' = Append([calls EXCEPT ![Len(calls)] = x.d],
                               Preprocessor(x.path, c.macros, x.d.once, c.inclusion))
            /\ UNCHANGED <<source, output, errors>>
       ELSE SetTop(x.d)

(***************************************************************************)
(* handlePragmaOperator: _Pragma ( "..." ), once it is the next token.     *)
(***************************************************************************)
\* pullPragmaOperandToken: the next token that is not blank, macros replaced.
RECURSIVE Pull(_)
Pull(d) ==
  IF d.buf # <<>>
  THEN IF IsBlank(Head(d.buf)) THEN Pull([d EXCEPT !.buf = Tail(@)])
       ELSE [t |-> Head(d.buf), d |-> [d EXCEPT !.buf = Tail(@)]]
  ELSE IF AtEnd(d) THEN [t |-> Nl, d |-> d]
  ELSE LET t == Here(d)
           rest == [d EXCEPT !.pos = @ + 1]
           x == ExpandIdentifier(rest, t)
       IN IF IsBlank(t) THEN Pull(rest)
          ELSE IF t.k = "id" /\ t.v \in DOMAIN d.macros
          THEN IF x.ok THEN Pull(x.d) ELSE [t |-> t, d |-> x.d]
          ELSE [t |-> t, d |-> rest]

AtPragmaOperator == calls # <<>> /\ c.buf # <<>> /\ Head(c.buf).k = "id"
                    /\ Head(c.buf).v = <<"_Pragma">>

PragmaOperator ==
  /\ AtPragmaOperator
  /\ \E open \in {Pull([c EXCEPT !.buf = Tail(@)])} :
     \E str \in {Pull(open.d)} :
     \E close \in {Pull(str.d)} :
       SetTop(IF ~IsPunct(open.t, "(") THEN Report(open.d, "_Pragma")
              ELSE IF str.t.k # "str" THEN Report(str.d, "_Pragma")
              ELSE IF ~IsPunct(close.t, ")") THEN Report(close.d, "_Pragma")
              ELSE Pragma(close.d, <<Token("id", Tail(str.t.v))>>))

(***************************************************************************)
(* next(): the front of the buffer is returned; a literal is held back     *)
(* until a token comes that does not join it.                              *)
(***************************************************************************)
Taking == calls # <<>> /\ c.buf # <<>> /\ ~AtPragmaOperator

TakeToken ==
  /\ Taking /\ c.held = <<>>
  /\ LET t == Decoded(Head(c.buf))
         taken == [c EXCEPT !.buf = Tail(@)]
     IN SetTop(IF t.k = "str" THEN [taken EXCEPT !.held = <<t>>]
               ELSE [taken EXCEPT !.out = Append(@, t)])

JoinLiteral ==
  /\ Taking /\ c.held # <<>>
  /\ LET t == Decoded(Head(c.buf))
         taken == [c EXCEPT !.buf = Tail(@)]
         returned == [c EXCEPT !.out = @ \o c.held, !.held = <<>>]
     IN SetTop(IF IsBlank(t) THEN taken
               ELSE IF t.k # "str" THEN returned
               ELSE IF Joinable(c.held[1], t)
               THEN [taken EXCEPT !.held = <<JoinStrings(@[1], t)>>]
               ELSE Report(returned, "prefixes"))

(***************************************************************************)
(* The end of a file: what an included file produced goes to the back of   *)
(* the includer's buffer, its macros and #pragma once files are added to   *)
(* the includer's, and its conditional frames are gone with it.            *)
(***************************************************************************)
EndOfFile ==
  /\ calls # <<>> /\ c.buf = <<>> /\ AtEnd(c)
  /\ \E ts \in {c.out \o c.held} :
       IF Len(calls) = 1
       THEN output' = ts /\ errors' = c.diags /\ calls' = <<>>
       ELSE LET d == calls[Len(calls) - 1]
                merged == [d EXCEPT !.diags = @ \o c.diags, !.once = @ \cup c.once,
                                    !.macros = c.macros @@ @]
            IN /\ calls' = Append(SubSeq(calls, 1, Len(calls) - 2), PushAllBack(merged, ts))
               /\ UNCHANGED <<output, errors>>
  /\ UNCHANGED source

Finished == calls = <<>>
Done == Finished /\ UNCHANGED vars

Predefined(root) ==
  LET object(name, t) == name :> [name |-> name, fun |-> FALSE, params |-> <<>>,
                                  variadic |-> FALSE, repl |-> <<t>>]
  IN object(<<"__FILE__">>, Token("str", <<"">> \o root.name))
       @@ object(<<"__STDC__">>, Token("num", <<"1">>))

Init ==
  /\ source \in Sources
  /\ calls = <<Preprocessor(source.root, Predefined(source.root), {}, <<>>)>>
  /\ output = <<>> /\ errors = <<>>

Next ==
  \/ NewlineToken \/ SkipInactiveToken \/ TextToken
  \/ NoName \/ SkippedDirective \/ DefineDirective \/ UndefDirective \/ IncludeDirective
  \/ IfDirective \/ IfdefDirective \/ IfndefDirective \/ ElifDirective \/ ElseDirective
  \/ EndifDirective \/ UtilityDirective \/ PragmaOperator
  \/ TakeToken \/ JoinLiteral \/ EndOfFile
  \/ Done

Spec == Init /\ [][Next]_vars
=============================================================================
