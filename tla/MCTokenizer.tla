---------------------------- MODULE MCTokenizer ----------------------------
(***************************************************************************)
(* Documents of up to three pieces between a first and a last identifier.  *)
(***************************************************************************)
EXTENDS Tokenizer

Token(kind, raw, spelling) == Piece("token", raw, kind, spelling)
Blanks(raw) == Piece("blank", raw, "none", <<>>)

Id == Token("Identifier", <<"a">>, <<"a">>)
IdSpliced == Token("Identifier", <<"x", BS, LF, "e">>, <<"x", "e">>)
IdUcn == Token("Identifier", <<BS, "u", "0", "0", "e", "1">>, <<BS, "u", "0", "0", "e", "1">>)
Number == Token("PPNumber", <<".", "1", "e", "+", "8", "L">>, <<".", "1", "e", "+", "8", "L">>)
NumberSpliced == Token("PPNumber", <<"0", BS, CR, LF, "x">>, <<"0", "x">>)
Opener == Token("StringLiteral", <<DQ, "/", "*", DQ>>, <<DQ, "/", "*", DQ>>)
Escaped == Token("StringLiteral", <<DQ, BS, DQ, "/", "/", DQ>>, <<DQ, BS, DQ, "/", "/", DQ>>)
WideQuote == Token("CharConst", <<"L", SQ, DQ, SQ>>, <<"L", SQ, DQ, SQ>>)
QuoteChar == Token("CharConst", <<SQ, BS, SQ, SQ>>, <<SQ, BS, SQ, SQ>>)
Utf8 == Token("StringLiteral", <<"u", "8", DQ, SQ, DQ>>, <<"u", "8", DQ, SQ, DQ>>)
Bracket == Token("Punctuator", <<"?", "?", "(">>, <<"[">>)
Plus == Token("Punctuator", <<"+">>, <<"+">>)
Shift == Token("Punctuator", <<"<", "<", "=">>, <<"<", "<", "=">>)
Stray == Token("Other", <<"@">>, <<"@">>)

Solid == {Id, IdSpliced, IdUcn, Number, NumberSpliced, Opener, Escaped, WideQuote, QuoteChar,
          Utf8, Bracket, Plus, Shift, Stray}
Comments ==
  {Blanks(<<"/", "*", DQ, "*", "/">>), Blanks(<<"/", "*", LF, SQ, "*", "*", "/">>),
   Blanks(<<"/", "*", "/", "*", "/">>)}
LineComment == Piece("lineComment", <<"/", "/", DQ, "/", "*", LF>>, "none", <<>>)
Space == Blanks(<<" ">>)
Ends == {Piece("newline", <<LF>>, "none", <<>>), Piece("newline", <<CR, LF>>, "none", <<>>),
         Piece("newline", <<CR>>, "none", <<>>)}
Splices == {Piece("splice", <<BS, LF>>, "none", <<>>), Piece("splice", <<BS, CR, LF>>, "none", <<>>)}

Pieces == Solid \cup Comments \cup Splices \cup Ends \cup {Space, LineComment}

(***************************************************************************)
(* Two tokens are written with something between them that C takes as a    *)
(* separator.  A lone CR is not followed by LF, which would make one line  *)
(* end of two.  A comment directly after a trigraph is left out (README).  *)
(***************************************************************************)
Separated(d) ==
  LET bare == SelectSeq(d, LAMBDA p : p.class # "splice")
  IN /\ \A i \in 1..Len(bare) - 1 : ~(bare[i].class = "token" /\ bare[i + 1].class = "token")
     /\ \A i \in 1..Len(d) - 1 :
          /\ ~(Last(d[i].raw) = CR /\ Head(d[i + 1].raw) = LF)
          /\ ~(d[i] = Bracket /\ d[i + 1] \in Comments)

Sandwich(ps) == <<Plus>> \o ps \o <<Id>>

MCDocuments ==
  LET upTo3 == {<<p>> : p \in Pieces} \cup (Pieces \X Pieces) \cup (Pieces \X Pieces \X Pieces)
  IN {Sandwich(ps) : ps \in {q \in upTo3 : Separated(Sandwich(q))}}
     \cup {d \in Pieces \X Pieces \X Pieces : Separated(d)}

\* The same file with LF and with CRLF line ends, a line comment in it.
CrlfComment == Piece("lineComment", <<"/", "/", " ", CR, LF>>, "none", <<>>)
CrlfDocuments == {<<Id, CrlfComment, Plus, p>> : p \in Ends} \cup {<<Id, LineComment, Plus>>}
=============================================================================
