------------------------ MODULE ConstantExpressions ------------------------
(***************************************************************************)
(* ConstExprParser: the value of the expression of an #if or #elif, after  *)
(* macro replacement.  It is a recursive descent that computes as it goes, *)
(* on words with a flag for unsigned types; every operand is evaluated,    *)
(* also one whose value is not used.                                       *)
(*                                                                         *)
(* The look-ahead for a second | or & only tells two errors apart and is   *)
(* left out, as are the wordings of the errors.  The least value divided   *)
(* by -1 stops the compiler itself and is not among the inputs (README).   *)
(***************************************************************************)
EXTENDS MacroExpansion

CONSTANT Width     \* bits of a word: 64 in the code

ASSUME WidthAssumption == Width \in Nat \ {0}

Modulus == 2^Width
Bits(n) == n % Modulus
Signed(bits) == IF 2 * bits >= Modulus THEN bits - Modulus ELSE bits

\* A Value and the position behind what it was read from, or an error.
Value(bits, unsigned, pos) == [ok |-> TRUE, bits |-> bits, u |-> unsigned, pos |-> pos]
Flag(b, pos) == Value(IF b THEN 1 ELSE 0, FALSE, pos)
Invalid == [ok |-> FALSE]

(***************************************************************************)
(* Constants.  A number is spelled by its digits, an atom, and the atoms   *)
(* behind them; stoull knows decimal, octal and hexadecimal digits.        *)
(***************************************************************************)
DigitsValue ==
  [a \in {ToString(n) : n \in 0..(Modulus - 1)} |-> CHOOSE n \in 0..(Modulus - 1) : ToString(n) = a]
    @@ ("012" :> 10) @@ ("0xc8" :> 200)

Suffix == {"u", "L"}

\* tryParsePPNumber: a constant that does not fit intmax_t is unsigned, too.
Number(t, pos) ==
  LET unsigned == \E i \in 2..Len(t.v) : t.v[i] = "u"
      bits == DigitsValue[t.v[1]]
  IN IF t.v[1] \notin DOMAIN DigitsValue \/ \E i \in 2..Len(t.v) : t.v[i] \notin Suffix THEN Invalid
     ELSE Value(bits, unsigned \/ 2 * bits >= Modulus, pos)

\* tryParseCharConst: one character without a prefix.
CharCode == ("A" :> 65) @@ ("z" :> 122)
Character(t, pos) ==
  IF t.v[1] = "" /\ Len(t.v) = 2 /\ t.v[2] \in DOMAIN CharCode
  THEN Value(CharCode[t.v[2]], FALSE, pos) ELSE Invalid

(***************************************************************************)
(* Operators                                                               *)
(***************************************************************************)
\* From the loosest to the tightest.
Operators ==
  <<{"||"}, {"&&"}, {"|"}, {"^"}, {"&"}, {"==", "!="}, {"<", ">", "<=", ">="}, {"<<", ">>"},
    {"+", "-"}, {"*", "/", "%"}>>

IsOperator(ts, i, ops) == i <= Len(ts) /\ \E op \in ops : IsPunct(ts[i], op)

Bitwise(F(_, _), a, b) ==
  LET bit(x, k) == (x \div 2^k) % 2
  IN FoldFunction(LAMBDA x, y : x + y, 0,
       [k \in 0..(Width - 1) |-> IF F(bit(a, k) = 1, bit(b, k) = 1) THEN 2^k ELSE 0])

Magnitude(n) == IF n < 0 THEN -n ELSE n
Quotient(a, b) == (IF (a < 0) = (b < 0) THEN 1 ELSE -1) * (Magnitude(a) \div Magnitude(b))

Shifted(op, l, n) ==
  IF op = "<<" THEN Bits(l.bits * 2^n)
  ELSE Bits((IF l.u THEN l.bits ELSE Signed(l.bits)) \div 2^n)

Relation == {"||", "&&", "==", "!=", "<", ">", "<=", ">="}
Compared(op, a, b) ==
  CASE op = "||" -> a # 0 \/ b # 0
    [] op = "&&" -> a # 0 /\ b # 0
    [] op = "==" -> a = b
    [] op = "!=" -> a # b
    [] op = "<" -> a < b
    [] op = ">" -> a > b
    [] op = "<=" -> a <= b
    [] op = ">=" -> a >= b

Computed(op, a, b) ==
  CASE op = "|" -> Bitwise(LAMBDA x, y : x \/ y, a, b)
    [] op = "^" -> Bitwise(LAMBDA x, y : x # y, a, b)
    [] op = "&" -> Bitwise(LAMBDA x, y : x /\ y, a, b)
    [] op = "+" -> a + b
    [] op = "-" -> a - b
    [] op = "*" -> a * b
    [] op = "/" -> Quotient(a, b)
    [] op = "%" -> a - b * Quotient(a, b)

\* What a binary operator makes of two values; one unsigned operand makes
\* both unsigned, except for a shift.
Common(l, r) == l.u \/ r.u
Read(x, u) == IF u THEN x.bits ELSE Signed(x.bits)

Apply(op, l, r) ==
  CASE op \in Relation ->
         Flag(Compared(op, Read(l, Common(l, r)), Read(r, Common(l, r))), r.pos)
    [] op \in {"<<", ">>"} -> Value(Shifted(op, l, r.bits % Width), l.u, r.pos)
    [] op \in {"/", "%"} /\ r.bits = 0 -> Invalid
    [] OTHER -> Value(Bits(Computed(op, Read(l, Common(l, r)), Read(r, Common(l, r)))),
                      Common(l, r), r.pos)

(***************************************************************************)
(* The descent: what stands at position i of ts, operators of a level and  *)
(* of the tighter ones included; level 0 is the conditional operator.      *)
(***************************************************************************)
RECURSIVE Expression(_, _, _, _), Operations(_, _, _, _)

\* tryParseDefined, for a "defined" that macro replacement left.
Defined(env, ts, i) ==
  LET parens == i <= Len(ts) /\ IsPunct(ts[i], "(")
      n == IF parens THEN i + 1 ELSE i
      closed == parens => (n + 1 <= Len(ts) /\ IsPunct(ts[n + 1], ")"))
  IN IF n > Len(ts) \/ ~closed THEN Invalid
     ELSE IF ts[n].k # "id" THEN Invalid
     ELSE Flag(ts[n].v \in DOMAIN env.macros, IF parens THEN n + 2 ELSE n + 1)

Parenthesized(ts, inner) ==
  IF inner.ok /\ IsOperator(ts, inner.pos, {")"}) THEN [inner EXCEPT !.pos = @ + 1] ELSE Invalid

\* parsePrimary: a name that is left counts as 0.
Primary(env, ts, i) ==
  CASE i > Len(ts) -> Invalid
    [] i <= Len(ts) /\ ts[i].k = "num" -> Number(ts[i], i + 1)
    [] i <= Len(ts) /\ ts[i].k = "chr" -> Character(ts[i], i + 1)
    [] i <= Len(ts) /\ ts[i].k = "id" ->
         IF ts[i].v = <<"defined">> THEN Defined(env, ts, i + 1) ELSE Value(0, FALSE, i + 1)
    [] i <= Len(ts) /\ ts[i].k \notin {"num", "chr", "id"} ->
         IF IsPunct(ts[i], "(") THEN Parenthesized(ts, Expression(env, ts, i + 1, 0)) ELSE Invalid

Prefixed(op, x) ==
  CASE ~x.ok -> Invalid
    [] x.ok /\ op = "!" -> Flag(x.bits = 0, x.pos)
    [] x.ok /\ op = "~" -> [x EXCEPT !.bits = Modulus - 1 - @]
    [] x.ok /\ op = "-" -> [x EXCEPT !.bits = Bits(-@)]
    [] x.ok /\ op = "+" -> x

Tightest == Len(Operators) + 1

Unary(env, ts, i) ==
  IF IsOperator(ts, i, {"!", "~", "+", "-"})
  THEN Prefixed(ts[i].v[1], Expression(env, ts, i + 1, Tightest)) ELSE Primary(env, ts, i)

\* parseTernary behind its condition c: both branches are evaluated.
Chosen(c, yes, no) ==
  IF no.ok THEN Value(IF c.bits # 0 THEN yes.bits ELSE no.bits, Common(yes, no), no.pos)
  ELSE Invalid

Branches(env, ts, c, yes) ==
  IF yes.ok /\ IsOperator(ts, yes.pos, {":"})
  THEN Chosen(c, yes, Expression(env, ts, yes.pos + 1, 0)) ELSE Invalid

Ternary(env, ts, c) ==
  IF c.ok /\ IsOperator(ts, c.pos, {"?"})
  THEN Branches(env, ts, c, Expression(env, ts, c.pos + 1, 0)) ELSE c

\* The loop of a level behind its left operand.
Operated(env, ts, left, right, level) ==
  IF right.ok THEN Operations(env, ts, Apply(ts[left.pos].v[1], left, right), level) ELSE Invalid

Operations(env, ts, left, level) ==
  IF left.ok /\ IsOperator(ts, left.pos, Operators[level])
  THEN Operated(env, ts, left, Expression(env, ts, left.pos + 1, level + 1), level) ELSE left

Expression(env, ts, i, level) ==
  IF level = 0 THEN Ternary(env, ts, Expression(env, ts, i, 1))
  ELSE IF level = Tightest THEN Unary(env, ts, i)
  ELSE Operations(env, ts, Expression(env, ts, i, level + 1), level)

\* ConstExprParser::evaluate on tokens without white space.
Whole(ts, x) == IF x.ok /\ x.pos > Len(ts) THEN x ELSE Invalid
EvaluateExpression(env, ts) == Whole(ts, Expression(env, ts, 1, 0))
=============================================================================
