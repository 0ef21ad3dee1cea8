------------------------------- MODULE Lexer -------------------------------
(***************************************************************************)
(* The type and value the Lexer and Parser::parsePrimary give to an        *)
(* integer constant.  A constant is its value n, whether it is written in  *)
(* decimal, whether it has a suffix u, and the number of its l's; checking *)
(* the spelling is left out, and so are floating constants.                *)
(***************************************************************************)
EXTENDS Integers, Sequences

CONSTANT Bits      \* the widths of "char", "short", "int" and "long"

ASSUME BitsAssumption ==
  /\ DOMAIN Bits = {"char", "short", "int", "long"}
  /\ \A s \in DOMAIN Bits : Bits[s] \in Nat \ {0}
  /\ Bits["char"] <= Bits["short"] /\ Bits["short"] <= Bits["int"] /\ Bits["int"] <= Bits["long"]

Constant(n, decimal, u, l) == [e |-> "int", n |-> n, decimal |-> decimal, u |-> u, l |-> l]

UnsignedOf ==
  [s \in {"char", "short", "int", "long", "llong"} |->
     CASE s = "char" -> "uchar" [] s = "short" -> "ushort" [] s = "int" -> "uint"
       [] s = "long" -> "ulong" [] s = "llong" -> "ullong"]
IsUnsigned(s) == s = "bool" \/ \E r \in DOMAIN UnsignedOf : UnsignedOf[r] = s

WidthOf(s) ==
  CASE s \in {"char", "uchar"} -> Bits["char"]
    [] s \in {"short", "ushort"} -> Bits["short"]
    [] s \in {"int", "uint"} -> Bits["int"]
    [] s \in {"long", "ulong", "llong", "ullong"} -> Bits["long"]
    [] s = "bool" -> 1

Largest(s) == IF IsUnsigned(s) THEN 2^WidthOf(s) - 1 ELSE 2^(WidthOf(s) - 1) - 1

\* The types tried in turn.
Candidates(c) ==
  CASE ~c.u /\ c.l = 0 /\ c.decimal -> <<"int", "long", "llong">>
    [] ~c.u /\ c.l = 0 /\ ~c.decimal -> <<"int", "uint", "long", "ulong", "llong", "ullong">>
    [] c.u /\ c.l = 0 -> <<"uint", "ulong", "ullong">>
    [] ~c.u /\ c.l = 1 /\ c.decimal -> <<"long", "llong">>
    [] ~c.u /\ c.l = 1 /\ ~c.decimal -> <<"long", "ulong", "llong", "ullong">>
    [] c.u /\ c.l = 1 -> <<"ulong", "ullong">>
    [] ~c.u /\ c.l = 2 -> <<"llong", "ullong">>
    [] c.u /\ c.l = 2 -> <<"ullong">>

\* "none" is diagnosed by the parser.
FirstOr(seq, default) == IF seq = <<>> THEN default ELSE seq[1]
Resolved(c) == FirstOr(SelectSeq(Candidates(c), LAMBDA s : c.n <= Largest(s)), "none")

\* parsePrimary keeps whether the type is unsigned, and its rank.
UnsignedBy(type, u) == u \/ IsUnsigned(type)
LiteralUnsigned(c) == UnsignedBy(Resolved(c), c.u)
LongsOf(type) ==
  CASE type \in {"long", "ulong"} -> 1 [] type \in {"llong", "ullong"} -> 2 [] OTHER -> 0
LiteralLongs(c) == LongsOf(Resolved(c))
=============================================================================
