----------------------------- MODULE Tokenizer -----------------------------
(***************************************************************************)
(* Translation phases 1 to 3 as wvmcc performs them: SourceBuffer turns    *)
(* the bytes of a file into characters (trigraphs, line splices and        *)
(* comments are gone, every character carries the position it came from),  *)
(* Tokenizer groups the characters into preprocessing tokens.  The two     *)
(* layers keep separate state: SourceBuffer follows literals and comments  *)
(* on its own, before any token exists.                                    *)
(*                                                                         *)
(* A text is a sequence of one-character strings.  SourceBuffer is pulled  *)
(* one character at a time and never looks at what the tokenizer did, so   *)
(* the model lets it run to the end of the text before tokens are read.    *)
(***************************************************************************)
EXTENDS Naturals, SequencesExt

LF == "\n"   CR == "\r"   BS == "\\"   DQ == "\""   SQ == "'"

VARIABLES
  text,      \* inputAccum, once it is complete
  rawIdx,    \* the next unread byte
  rawPos,    \* its line and column
  st,        \* "Normal", "InString", "InChar", "InBlockComment", "InLineComment"
  esc,       \* inside a literal: the byte before was an escaping backslash
  lastWs,    \* lastOutputWasWhitespace
  pending,   \* pendingSpace: a comment ended and owes its space
  chars,     \* the characters produced, each with its position
  next,      \* the first character no token has taken
  tokens     \* the tokens read

source == <<text, rawIdx, rawPos, st, esc, lastWs, pending, chars>>
vars == <<source, next, tokens>>

Start == [line |-> 1, col |-> 1]

\* account_consumed: the position just past a character.
After(pos, c) == IF c = LF THEN [line |-> pos.line + 1, col |-> 1]
                           ELSE [pos EXCEPT !.col = @ + 1]

At(i) == IF i <= Len(text) THEN text[i] ELSE "eof"

\* Fault: A lone CR does not end a line.
AdvanceUnix(n) ==
  LET step[i \in rawIdx..rawIdx + n] == IF i = rawIdx THEN rawPos ELSE After(step[i - 1], At(i - 1))
  IN /\ rawIdx' = rawIdx + n
     /\ rawPos' = step[rawIdx + n]

\* advance_raw: n bytes are consumed; a lone CR ends a line as LF does.
Advance(n) ==
  LET ends(i) == \/ text[i] = LF
                 \/ text[i] = CR /\ At(i + 1) # LF
      step[i \in rawIdx..rawIdx + n] ==
        IF i = rawIdx THEN rawPos
        ELSE After(step[i - 1], IF ends(i - 1) THEN LF ELSE "x")
  IN /\ rawIdx' = rawIdx + n
     /\ rawPos' = step[rawIdx + n]

Push(c) == chars' = Append(chars, [c |-> c, at |-> rawPos])

Trigraph(i) ==
  LET third == <<"=", "(", "/", ")", "'", "<", "!", ">", "-">>
      value == <<"#", "[", BS, "]", "^", "{", "|", "}", "~">>
      hit == {k \in DOMAIN third : At(i) = "?" /\ At(i + 1) = "?" /\ At(i + 2) = third[k]}
  IN IF hit = {} THEN "none" ELSE value[CHOOSE k \in hit : TRUE]

(***************************************************************************)
(* SourceBuffer: one action per branch of the loop of fill_buffer.         *)
(***************************************************************************)
Reading == rawIdx <= Len(text)

\* handlePendingSpace, the branch that produces the space.
EmitSpace ==
  /\ Reading /\ pending /\ ~lastWs
  /\ Push(" ")
  /\ pending' = FALSE /\ lastWs' = TRUE
  /\ UNCHANGED <<text, rawIdx, rawPos, st, esc, next, tokens>>

\* Fault: A space that is suppressed is still owed.
ScanOwingStuck(space) ==
  /\ Reading /\ ~pending
  /\ pending' = space
  /\ UNCHANGED <<text, next, tokens>>

\* The rest of an iteration: a space that is still owed here is suppressed.
ScanOwing(space) ==
  /\ Reading /\ (pending => lastWs)
  /\ pending' = space
  /\ UNCHANGED <<text, next, tokens>>

Scan == ScanOwing(FALSE)

CarriageReturn ==
  /\ Scan /\ At(rawIdx) = CR
  /\ Push(LF) /\ Advance(IF At(rawIdx + 1) = LF THEN 2 ELSE 1)
  /\ lastWs' = TRUE
  /\ UNCHANGED <<st, esc>>

Normal == Scan /\ At(rawIdx) # CR /\ st = "Normal"

ReplaceTrigraph ==
  /\ Normal /\ Trigraph(rawIdx) # "none"
  /\ Push(Trigraph(rawIdx)) /\ Advance(3)
  /\ UNCHANGED <<st, esc, lastWs>>

EnterLiteral ==
  /\ Normal /\ At(rawIdx) \in {DQ, SQ}
  /\ Push(At(rawIdx)) /\ Advance(1)
  /\ st' = (IF At(rawIdx) = DQ THEN "InString" ELSE "InChar")
  /\ esc' = FALSE /\ lastWs' = FALSE

OpensComment == At(rawIdx) = "/" /\ At(rawIdx + 1) \in {"*", "/"}

EnterComment ==
  /\ Normal /\ OpensComment
  /\ Advance(2)
  /\ st' = (IF At(rawIdx + 1) = "*" THEN "InBlockComment" ELSE "InLineComment")
  /\ UNCHANGED <<esc, lastWs, chars>>

\* Fault: A splice whose line ends in CRLF keeps its LF.
SpliceLengthUnix == IF At(rawIdx) = BS /\ At(rawIdx + 1) \in {LF, CR} THEN 2 ELSE 0

SpliceLength ==
  CASE At(rawIdx) = BS /\ At(rawIdx + 1) = LF -> 2
    [] At(rawIdx) = BS /\ At(rawIdx + 1) = CR /\ At(rawIdx + 2) = LF -> 3
    [] At(rawIdx) = BS /\ At(rawIdx + 1) = CR /\ At(rawIdx + 2) # LF -> 2
    [] OTHER -> 0

Splice ==
  /\ Normal /\ SpliceLength > 0
  /\ Advance(SpliceLength)
  /\ UNCHANGED <<st, esc, lastWs, chars>>

Blank == {" ", "\t", "\f"}

PlainChar ==
  /\ Normal /\ Trigraph(rawIdx) = "none" /\ At(rawIdx) \notin {DQ, SQ}
  /\ ~OpensComment /\ SpliceLength = 0
  /\ Push(At(rawIdx)) /\ Advance(1)
  /\ lastWs' = (At(rawIdx) \in Blank)
  /\ UNCHANGED <<st, esc>>

LiteralChar ==
  LET c == At(rawIdx)
      closes == ~esc /\ c = (IF st = "InString" THEN DQ ELSE SQ)
  IN /\ Scan /\ c # CR /\ st \in {"InString", "InChar"}
     /\ Push(c) /\ Advance(1)
     /\ lastWs' = FALSE
     /\ esc' = (~esc /\ c = BS)
     /\ st' = (IF closes THEN "Normal" ELSE st)

ClosesComment == At(rawIdx) = "*" /\ At(rawIdx + 1) = "/"

BlockCommentChar ==
  /\ ScanOwing(ClosesComment) /\ At(rawIdx) # CR /\ st = "InBlockComment"
  /\ Advance(IF ClosesComment THEN 2 ELSE 1)
  /\ st' = (IF ClosesComment THEN "Normal" ELSE st)
  /\ UNCHANGED <<esc, lastWs, chars>>

LineCommentChar ==
  /\ Scan /\ At(rawIdx) # CR /\ st = "InLineComment"
  /\ Advance(1)
  /\ IF At(rawIdx) = LF
     THEN Push(LF) /\ lastWs' = TRUE /\ st' = "Normal"
     ELSE UNCHANGED <<chars, lastWs, st>>
  /\ UNCHANGED esc

FillBuffer ==
  \/ EmitSpace \/ CarriageReturn \/ ReplaceTrigraph \/ EnterLiteral \/ EnterComment
  \/ Splice \/ PlainChar \/ LiteralChar \/ BlockCommentChar \/ LineCommentChar

(***************************************************************************)
(* Tokenizer: the length of the token that starts at character i, tried in *)
(* the order of readNextToken.                                             *)
(***************************************************************************)
Ch(i) == IF i <= Len(chars) THEN chars[i].c ELSE "eof"

Digit == {"0", "1", "8"}
Nondigit == {"_", "a", "e", "u", "L", "x", "p"}
Hex == Digit \cup {"a", "e"}

\* The first position from i on whose character is not in S.
RECURSIVE Past(_, _)
Past(i, S) == IF Ch(i) \in S THEN Past(i + 1, S) ELSE i

\* tryReadPPNumber: a sign is part of the number right after an exponent letter.
RECURSIVE NumberEnd(_)
NumberEnd(i) ==
  CASE Ch(i) \in {"e", "p"} /\ Ch(i + 1) \in {"+", "-"} -> NumberEnd(i + 2)
    [] Ch(i) \in Digit \cup Nondigit \cup {"."} /\
         ~(Ch(i) \in {"e", "p"} /\ Ch(i + 1) \in {"+", "-"}) -> NumberEnd(i + 1)
    [] OTHER -> i

StartsNumber(i) == Ch(i) \in Digit \/ (Ch(i) = "." /\ Ch(i + 1) \in Digit)

\* tryReadCharConstant, processStringContent: i is just past the opening quote.
RECURSIVE LiteralEnd(_, _)
LiteralEnd(i, quote) ==
  CASE Ch(i) \in {"eof", LF} -> i
    [] Ch(i) = quote -> i + 1
    [] Ch(i) = BS -> LiteralEnd(IF Ch(i + 1) = "eof" THEN i + 1 ELSE i + 2, quote)
    [] OTHER -> LiteralEnd(i + 1, quote)

\* starts_char, starts_string: the length of the encoding prefix, 99 when none.
CharPrefix(i) == CASE Ch(i) = SQ -> 0
                   [] Ch(i) \in {"L", "u"} /\ Ch(i + 1) = SQ -> 1
                   [] OTHER -> 99
StringPrefix(i) == CASE Ch(i) = DQ -> 0
                     [] Ch(i) \in {"L", "u"} /\ Ch(i + 1) = DQ -> 1
                     [] Ch(i) = "u" /\ Ch(i + 1) = "8" /\ Ch(i + 2) = DQ -> 2
                     [] OTHER -> 99

\* try_ucn: a universal character name has four hexadecimal digits.
IsUcn(i) == Ch(i) = BS /\ Ch(i + 1) = "u" /\ \A k \in 2..5 : Ch(i + k) \in Hex

RECURSIVE IdentifierEnd(_)
IdentifierEnd(i) ==
  CASE Ch(i) \in Nondigit \cup Digit -> IdentifierEnd(i + 1)
    [] IsUcn(i) -> IdentifierEnd(i + 6)
    [] OTHER -> i

\* match_punct: the punctuators the texts can spell, as character sequences.
Punctuators ==
  {<<c>> : c \in {"%", "<", ">", ":", "#", "-", "+", "&", "|", "*", "/", "^", "!", "=",
                  ".", "[", "]", "(", ")", "{", "}", "~", ",", ";", "?"}}
  \cup {<<"#", "#">>, <<"+", "+">>, <<"+", "=">>, <<"-", ">">>, <<"-", "-">>, <<"/", "=">>,
        <<"*", "=">>, <<"|", "|">>, <<"<", "<">>, <<"<", ":">>, <<".", ".", ".">>,
        <<"<", "<", "=">>, <<"%", ":">>, <<"%", ":", "%", ":">>}

PunctuatorLength(i) ==
  LET fits == {n \in 1..4 : [k \in 1..n |-> Ch(i + k - 1)] \in Punctuators}
  IN IF fits = {} THEN 0 ELSE CHOOSE n \in fits : \A m \in fits : m <= n

\* readNextToken: the kind of the token at i and the position past it.
Lexeme(i) ==
  CASE StartsNumber(i) -> [kind |-> "PPNumber", end |-> NumberEnd(i + 1)]
    [] ~StartsNumber(i) /\ CharPrefix(i) < 99 ->
         [kind |-> "CharConst", end |-> LiteralEnd(i + CharPrefix(i) + 1, SQ)]
    [] StringPrefix(i) < 99 ->
         [kind |-> "StringLiteral", end |-> LiteralEnd(i + StringPrefix(i) + 1, DQ)]
    [] Ch(i) = LF -> [kind |-> "Newline", end |-> i + 1]
    [] Ch(i) \in Blank -> [kind |-> "Whitespace", end |-> Past(i, Blank)]
    [] (Ch(i) \in Nondigit /\ CharPrefix(i) = 99 /\ StringPrefix(i) = 99) \/ IsUcn(i) ->
         [kind |-> "Identifier", end |-> IdentifierEnd(i)]
    [] PunctuatorLength(i) > 0 ->
         [kind |-> "Punctuator", end |-> i + PunctuatorLength(i)]
    [] OTHER -> [kind |-> "Other", end |-> i + 1]

\* feeder.position(): of the next character, or just past the last one.
PositionAt(i) == IF i <= Len(chars) THEN chars[i].at
                 ELSE After(chars[i - 1].at, chars[i - 1].c)

ReadNextToken ==
  /\ ~Reading /\ next <= Len(chars)
  /\ \E x \in {Lexeme(next)} :
       /\ tokens' = Append(tokens, [kind |-> x.kind, begin |-> PositionAt(next),
                                    lexeme |-> [k \in 1..x.end - next |-> Ch(next + k - 1)]])
       /\ next' = x.end
  /\ UNCHANGED source

Finished == ~Reading /\ next > Len(chars)

InitOn(t) ==
  /\ text = t
  /\ rawIdx = 1 /\ rawPos = Start /\ st = "Normal" /\ esc = FALSE
  /\ lastWs = FALSE /\ pending = FALSE /\ chars = <<>>
  /\ next = 1 /\ tokens = <<>>

Next == FillBuffer \/ ReadNextToken

-----------------------------------------------------------------------------
(***************************************************************************)
(* What the C standard promises of phases 1 to 3 (C17 5.1.1.2), stated     *)
(* piece by piece: a file is written as a sequence of pieces, each a       *)
(* token, a comment, a blank, a line end or a splice, and reading the file *)
(* must give back the tokens that were written, each with the place it was *)
(* written at.  A piece knows nothing of the state machines above.         *)
(***************************************************************************)
CONSTANTS
  Documents    \* sequences of pieces

VARIABLE document

(***************************************************************************)
(* A piece: its bytes, and what it is: "token" (of a kind, with a          *)
(* spelling), "blank" (blanks and comments), "newline", "lineComment" (a   *)
(* comment with the line end that closes it) or "splice".                  *)
(***************************************************************************)
Piece(class, raw, kind, spelling) ==
  [class |-> class, raw |-> raw, kind |-> kind, spelling |-> spelling]

Raw(d) == FlattenSeq([i \in DOMAIN d |-> d[i].raw])

RECURSIVE WalkFrom(_, _, _)
WalkFrom(pos, raw, i) ==
  IF i > Len(raw) THEN pos
  ELSE WalkFrom(IF raw[i] = LF \/ (raw[i] = CR /\ (i = Len(raw) \/ raw[i + 1] # LF))
                THEN [line |-> pos.line + 1, col |-> 1]
                ELSE [pos EXCEPT !.col = @ + 1], raw, i + 1)

(***************************************************************************)
(* The tokens of a document, with the place each was written at.  Blanks   *)
(* that follow a token on its line are one Whitespace token, without       *)
(* position or spelling; blanks at the start of a line are left out.       *)
(***************************************************************************)
RECURSIVE Written(_, _, _, _)
Written(d, i, pos, got) ==
  LET piece == d[i]
      to == WalkFrom(pos, piece.raw, 1)
      onLine == got # <<>> /\ Last(got).kind \notin {"Newline", "Whitespace"}
      ws == [kind |-> "Whitespace"]
      token == [kind |-> piece.kind, lexeme |-> piece.spelling, begin |-> pos]
      newline(at) == [kind |-> "Newline", lexeme |-> <<LF>>, begin |-> at]
      lineEnd == WalkFrom(pos, SubSeq(piece.raw, 1, Len(piece.raw) - 1), 1)
      more == CASE piece.class = "token" -> <<token>>
                [] piece.class = "newline" -> <<newline(pos)>>
                [] piece.class = "lineComment" -> <<newline(lineEnd)>>
                [] piece.class = "blank" /\ onLine -> <<ws>>
                [] OTHER -> <<>>
  IN IF i > Len(d) THEN got ELSE Written(d, i + 1, to, got \o more)

\* The tokens read, in the same form.
RECURSIVE Reported(_, _, _)
Reported(ts, i, got) ==
  LET onLine == got # <<>> /\ Last(got).kind \notin {"Newline", "Whitespace"}
      more == CASE ts[i].kind # "Whitespace" -> <<ts[i]>>
                [] ts[i].kind = "Whitespace" /\ onLine -> <<[kind |-> "Whitespace"]>>
                [] OTHER -> <<>>
  IN IF i > Len(ts) THEN got ELSE Reported(ts, i + 1, got \o more)

\* Without blanks at the end of a line, where C does not tell them apart.
Trimmed(ts) ==
  LET trailing(i) == ts[i].kind = "Whitespace" /\ (i = Len(ts) \/ ts[i + 1].kind = "Newline")
  IN SelectSeq([i \in DOMAIN ts |-> IF trailing(i) THEN [kind |-> "dropped"] ELSE ts[i]],
               LAMBDA t : t.kind # "dropped")

Init == \E d \in Documents : document = d /\ InitOn(Raw(d))

Read == Next /\ UNCHANGED document

Spec == Init /\ [][Read]_<<vars, document>> /\ WF_<<vars, document>>(Read)

(***************************************************************************)
(* Properties                                                              *)
(***************************************************************************)
Spelling(t) == IF t.kind = "Whitespace" THEN t ELSE [kind |-> t.kind, lexeme |-> t.lexeme]
Spellings(ts) == [i \in DOMAIN ts |-> Spelling(ts[i])]

\* Reading a file gives the tokens that were written: comments count as one
\* blank and separate tokens, their contents and those of literals are never
\* taken for the other, splices vanish, line ends stay
\* (SourceBuffer::fill_buffer and Tokenizer::readNextToken).
TokensAsWritten ==
  Finished =>
    Spellings(Trimmed(Reported(tokens, 1, <<>>)))
      = Spellings(Trimmed(Written(document, 1, Start, <<>>)))

\* Every token read carries the line and column it was written at, whatever
\* comments, splices and trigraphs came before it (Tokenizer.hpp: positions
\* stay correct across collapsed constructs).
PositionsExact ==
  LET exact(t, w) == t.begin = w.begin
      read == SelectSeq(Reported(tokens, 1, <<>>), LAMBDA t : t.kind # "Whitespace")
      written == SelectSeq(Written(document, 1, Start, <<>>), LAMBDA t : t.kind # "Whitespace")
  IN Finished => /\ Len(read) = Len(written)
                 /\ \A i \in DOMAIN read : exact(read[i], written[i])

\* The reader always comes to the end of the file, in whatever state a
\* literal or a comment is left (the loops of fill_buffer, suppressed spaces
\* included).
ReadsToTheEnd == <>Finished
=============================================================================
