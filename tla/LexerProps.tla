----------------------------- MODULE LexerProps -----------------------------
(***************************************************************************)
(* What the tokens of a source text are, stated from the text as a whole,  *)
(* and the properties of the way from the text to the parser.              *)
(*                                                                         *)
(* A token of the reference may be "error", where the text is wrong, or    *)
(* "any", from where on the language does not say or the analyzer has a    *)
(* reading of its own (see the README).                                    *)
(***************************************************************************)
EXTENDS Frontend

NoLexeme == Token("error", FALSE, <<>>)
AnyLexeme == Token("any", FALSE, <<>>)

BeginsWith(s, chars) == IsPrefix(Codes(chars), s)

-----------------------------------------------------------------------------
(* Operators, words and numbers: a token is the longest beginning of the   *)
(* text that is one or that can become one.                                *)

OperatorLexemes ==
  Codes(<<",">>) :> "COMMA" @@ Codes(<<"<">>) :> "LT" @@ Codes(<<"<", "=">>) :> "LEQ" @@
  Codes(<<">">>) :> "GT" @@ Codes(<<">", "=">>) :> "GEQ" @@ Codes(<<"!">>) :> "NOT_NIL" @@
  Codes(<<"!", "=">>) :> "NEQ" @@ Codes(<<"?", "?">>) :> "NIL_CHECK" @@ Codes(<<"=">>) :> "ASS" @@
  Codes(<<"=", "=">>) :> "EQ" @@ Codes(<<":">>) :> "COL" @@ Codes(<<";">>) :> "SEMICOL" @@
  Codes(<<"}">>) :> "R_BKT" @@ Codes(<<"{">>) :> "L_BKT" @@ Codes(<<")">>) :> "R_PAR" @@
  Codes(<<"(">>) :> "L_PAR" @@ Codes(<<"+">>) :> "ADD" @@ Codes(<<"-">>) :> "SUB" @@
  Codes(<<"-", ">">>) :> "RET_VAL" @@ Codes(<<"*">>) :> "MUL" @@ Codes(<<"/">>) :> "DIV" @@
  Codes(<<"_">>) :> "UND_SCR"

IsWord(s) ==
  /\ s # <<>>
  /\ is_alfa(s[1]) \/ (s[1] = Code["_"] /\ Len(s) > 1 /\ is_alfa_num(s[2]))
  /\ \A i \in 2..Len(s) : is_alfa_num(s[i]) \/ s[i] = Code["_"]

WordLexeme(s) ==
  CASE s \in DOMAIN keywords -> Token(keywords[s], FALSE, <<>>)
    [] s \in DOMAIN data_types -> Token(data_types[s], FALSE, <<0>>)
    [] OTHER -> Token("IDENTIFIER", FALSE, s)

Lexeme(s) ==
  CASE s \in DOMAIN OperatorLexemes -> Token(OperatorLexemes[s], FALSE, <<>>)
    [] IsWord(s) -> WordLexeme(s)
    [] s # <<>> /\ Last(s) = Code["?"] /\ Front(s) \in DOMAIN data_types ->
         Token(data_types[Front(s)], FALSE, <<1>>)
    [] IsDigits(s) -> Token("INT", FALSE, <<Number(s)>>)
    [] ~IsDigits(s) /\ IsNumeral(s) -> Token("DBL", FALSE, NumeralValue[s])
    [] OTHER -> NoLexeme

Viable(s) ==
  \/ Lexeme(s) # NoLexeme
  \/ Lexeme(Append(s, Code["0"])) # NoLexeme
  \/ Lexeme(Append(s, Code["?"])) # NoLexeme

LongestViable(s) ==
  Max({0} \union {n \in 1..Len(s) : \A k \in 1..n : Viable(First(s, k))})

-----------------------------------------------------------------------------
(* Strings.  A scanned string is its value and how many characters it took.*)

Scanned(token, n) == [token |-> token, length |-> n]

SimpleEscapes ==
  Code["n"] :> NEWLINE @@ Code["r"] :> RETURN @@ Code["t"] :> TAB @@ QUOTE :> QUOTE @@
  BACKSLASH :> BACKSLASH

\* The length of the escape sequence at the beginning of s: 0 where it is
\* wrong, -1 where the language does not know it.
EscapeLength(s) ==
  CASE Len(s) = 1 -> 0
    [] Len(s) > 1 /\ s[2] \in DOMAIN SimpleEscapes -> 2
    [] Len(s) > 1 /\ s[2] = Code["u"] ->
         CASE Len(s) = 2 -> 0
           [] Len(s) > 2 /\ s[3] = Code["{"] ->
                LET ends == {k \in 1..8 : /\ Len(s) >= 4 + k /\ s[4 + k] = Code["}"]
                                          /\ \A i \in 4..(3 + k) : is_hexa(s[i])}
                IN IF ends = {} THEN 0 ELSE 4 + Min(ends)
           [] OTHER -> -1
    [] OTHER -> -1

EscapeValue(s, n) ==
  IF n = 2 THEN SimpleEscapes[s[2]] ELSE hexa_to_dec(SubSeq(s, 4, n - 1))

\* The rest of a string on one line, from position i on.
RECURSIVE StringFrom(_, _, _)
StringFrom(s, i, chars) ==
  LET n == EscapeLength(Rest(s, i - 1))
  IN CASE i > Len(s) -> Scanned(NoLexeme, 0)
       [] i <= Len(s) /\ s[i] = QUOTE -> Scanned(Token("STRING", FALSE, chars), i)
       [] i <= Len(s) /\ s[i] = BACKSLASH ->
            CASE n = 0 -> Scanned(NoLexeme, 0)
              [] n = -1 -> Scanned(AnyLexeme, 0)
              [] OTHER -> StringFrom(s, i + n, Append(chars, EscapeValue(Rest(s, i - 1), n)))
       [] i <= Len(s) /\ s[i] <= 31 -> Scanned(NoLexeme, 0)
       [] OTHER -> StringFrom(s, i + 1, Append(chars, s[i]))

RECURSIVE Lines(_)
Lines(s) ==
  LET breaks == {i \in 1..Len(s) : s[i] = NEWLINE}
  IN IF breaks = {} THEN <<s>>
     ELSE <<First(s, Min(breaks) - 1)>> \o Lines(Rest(s, Min(breaks)))

Blanks(s) == Max({n \in 0..Len(s) : \A i \in 1..n : is_whitespace(s[i])})

Closes(line) == BeginsWith(Rest(line, Blanks(line)), <<"\"", "\"", "\"">>)

\* A line with its escape sequences replaced; empty where one is wrong.
RECURSIVE Replaced(_)
Replaced(s) ==
  LET n == EscapeLength(s)
  IN CASE s = <<>> -> <<>>
       [] s # <<>> /\ s[1] = BACKSLASH -> <<EscapeValue(s, n)>> \o Replaced(Rest(s, n))
       [] OTHER -> <<s[1]>> \o Replaced(Tail(s))

\* Lines the analyzer has its own reading of: escape sequences it does not
\* know, that stand for a line break, that are part of the indentation, or
\* that follow quotes at the beginning of a line.
RECURSIVE Peculiar(_)
Peculiar(s) ==
  LET n == EscapeLength(s)
  IN CASE s = <<>> -> FALSE
       [] s # <<>> /\ s[1] = BACKSLASH ->
            n <= 0 \/ EscapeValue(s, n) = NEWLINE \/ Peculiar(Rest(s, n))
       [] OTHER -> Peculiar(Tail(s))

QuoteThenEscape(line) ==
  LET s == Rest(line, Blanks(line))
  IN BeginsWith(s, <<"\"", "\\">>) \/ BeginsWith(s, <<"\"", "\"", "\\">>)

EscapedIndent(line, indent) ==
  \E i \in 1..Len(line) : i <= Len(indent) /\ line[i] = BACKSLASH

RECURSIVE Join(_)
Join(lines) ==
  IF lines = <<>> THEN <<>>
  ELSE IF Len(lines) = 1 THEN lines[1] ELSE lines[1] \o <<NEWLINE>> \o Join(Tail(lines))

\* The text of a multi-line string: its lines without the indentation of the
\* closing quotes.  An empty last line keeps its line break.
Unindented(lines, indent) ==
  LET last == lines[Len(lines)]
      bodies == [i \in 1..Len(lines) |->
                   IF lines[i] = <<>> THEN <<>> ELSE Replaced(Rest(lines[i], Len(indent)))]
  IN IF lines = <<>> THEN <<>>
     ELSE Join(bodies) \o (IF last = <<>> THEN <<NEWLINE>> ELSE <<>>)

MultiLine(s) ==
  LET all == Lines(Rest(s, 4))
      closing == {k \in 1..Len(all) : Closes(all[k])}
      lines == First(all, Min(closing) - 1)
      end == all[Min(closing)]
      indent == First(end, Blanks(end))
      wrong == {k \in 1..Len(lines) : lines[k] # <<>> /\ ~IsPrefix(indent, lines[k])}
      length == 4 + FoldLeft(LAMBDA n, line : n + Len(line) + 1, 0, lines) + Len(indent) + 3
  IN CASE ~BeginsWith(s, <<"\"", "\"", "\"">>) \/ Len(s) < 4 -> Scanned(NoLexeme, 0)
       [] Len(s) >= 4 /\ (s[4] # NEWLINE \/ closing = {}) -> Scanned(NoLexeme, 0)
       [] OTHER ->
            CASE \E k \in 1..Len(lines) : \/ Peculiar(lines[k]) \/ QuoteThenEscape(lines[k])
                                          \/ EscapedIndent(lines[k], indent) -> Scanned(AnyLexeme, 0)
              [] OTHER ->
                   CASE wrong = {Len(lines)} /\ IsPrefix(lines[Len(lines)], indent) ->
                          Scanned(AnyLexeme, 0)
                     [] wrong = {} -> Scanned(Token("STRING", FALSE, Unindented(lines, indent)), length)
                     [] OTHER -> Scanned(NoLexeme, 0)

StringLexeme(s) ==
  IF BeginsWith(s, <<"\"", "\"", "\"">>) THEN MultiLine(s) ELSE StringFrom(s, 2, <<>>)

-----------------------------------------------------------------------------
(* Comments and the whole text.                                            *)

\* **/ and //*, which the analyzer takes apart behind their first two characters.
Starred(s, i) ==
  i + 2 <= Len(s) /\ SubSeq(s, i, i + 2) \in {Codes(<<"*", "*", "/">>), Codes(<<"/", "/", "*">>)}

\* The length of the comment of which i - 1 characters were read and in which
\* open comments are not closed, 0 if it is not closed at all; and whether the
\* analyzer may read it differently.
RECURSIVE CommentFrom(_, _, _, _)
CommentFrom(s, i, open, starred) ==
  LET pair == SubSeq(s, i, i + 1)
      seen == starred \/ Starred(s, i)
  IN CASE open = 0 -> [length |-> i - 1, starred |-> starred]
       [] open > 0 /\ i >= Len(s) -> [length |-> 0, starred |-> starred]
       [] open > 0 /\ i < Len(s) ->
            CASE pair = Codes(<<"*", "/">>) -> CommentFrom(s, i + 2, open - 1, starred)
              [] pair = Codes(<<"/", "*">>) -> CommentFrom(s, i + 2, open + 1, starred)
              [] OTHER -> CommentFrom(s, i + 1, open, seen)

Comment(s) == CommentFrom(s, 3, 1, FALSE)

RECURSIVE Reference(_, _)
Reference(s, eol) ==
  LET comment == Comment(s)
      string == StringLexeme(s)
      n == LongestViable(s)
  IN CASE s = <<>> -> <<Token("EOF", eol, <<>>)>>
       [] s # <<>> ->
            CASE is_whitespace(s[1]) -> Reference(Tail(s), eol)
              [] s[1] = NEWLINE -> Reference(Tail(s), TRUE)
              [] BeginsWith(s, <<"/", "/">>) -> Reference(Rest(s, Len(Lines(s)[1])), eol)
              [] BeginsWith(s, <<"/", "*">>) ->
                   CASE comment.starred -> <<AnyLexeme>>
                     [] ~comment.starred /\ comment.length = 0 -> <<NoLexeme>>
                     [] OTHER -> Reference(Rest(s, comment.length), eol)
              [] BeginsWith(s, <<"_", "_">>) -> <<AnyLexeme>>
              [] s[1] = QUOTE ->
                   IF string.length = 0 THEN <<string.token>>
                   ELSE <<[string.token EXCEPT !.preceding_eol = eol]>>
                        \o Reference(Rest(s, string.length), FALSE)
              [] OTHER ->
                   IF n = 0 \/ Lexeme(First(s, n)) = NoLexeme THEN <<NoLexeme>>
                   ELSE <<[Lexeme(First(s, n)) EXCEPT !.preceding_eol = eol]>>
                        \o Reference(Rest(s, n), FALSE)

-----------------------------------------------------------------------------
(* Properties.                                                             *)

\* The variables of the analyzer and of the buffer have their types.
TypeOK ==
  /\ lex.token.type \in TokenType /\ lex.token.preceding_eol \in BOOLEAN
  /\ lex.open_comments \in Nat /\ lex.hexa_string \in 0..9
  /\ lex.unread \in -1..127 /\ {lex.is_final, lex.set_eol, lost} \subseteq BOOLEAN
  /\ runner \in DOMAIN nodes \union {Buffer!NULL} /\ head \in DOMAIN nodes \union {Buffer!NULL}
  /\ phase \in {"call", "scan", "filled", "first", "second", "dispose", "pop", "ended"}
  /\ res \in {"none", "LEXICAL", "INTERNAL", "SYNTAX"}

Source == IF Closed THEN Front(text) ELSE text

\* parser_fill_buffer has returned, because of the end of the file or an error.
Analyzed == ~lost /\ (phase = "filled" \/ (phase = "dispose" /\ res = "LEXICAL"))

Found == IF phase = "filled" THEN Buffer!Listed ELSE Append(Buffer!Listed, NoLexeme)

\* The tokens that were found are compared with those of the reference.
Agree(Same(_, _)) ==
  Analyzed =>
    LET expected == Reference(Source, FALSE)
    IN (\A i \in 1..Len(expected) : expected[i].type # "any") => Same(Found, expected)

SameTokens(found, expected) ==
  /\ Len(found) = Len(expected)
  /\ \A i \in 1..Len(found) :
       found[i].type = expected[i].type /\ found[i].value = expected[i].value

\* The flags of the tokens; that of the end of the file is not looked at.
SameLines(found, expected) ==
  \A i \in 1..Len(found) : i <= Len(expected) =>
    \/ expected[i].type \in {"EOF", "error"}
    \/ found[i].preceding_eol = expected[i].preceding_eol

\* The tokens in the buffer are those of the text, each as long as it can be,
\* with the right values, and get_token reports an error exactly where the text
\* has no token: for operators, words, numbers, nested comments, escape
\* sequences and the indentation of multi-line strings.
TokensRight == Agree(SameTokens)

EmptyComment(s) ==
  \E i \in 1..(Len(s) - 2) : SubSeq(s, i, i + 2) = Append(Codes(<<"/", "/">>), NEWLINE)

\* A token's preceding_eol tells whether there is a line break between it and
\* the token before it, outside of block comments.  A comment without text
\* loses the line break behind it.
LinesRight == ~EmptyComment(Source) => Agree(SameLines)

\* The same for every comment.
LinesAlways == Agree(SameLines)

\* When a comment has been read to its end, open_comments says that no comment
\* is open.
CommentsClosed ==
  phase = "scan" /\ BeginsWith(Source, <<"/", "*">>) /\ Comment(Source).length = Len(Source) =>
    lex.open_comments = 0

\* What the buffer promises to the parser in both of its passes, and until it
\* is freed.
BufferIsSequence == Buffer!BufferIsSequence

\* Every text is read to its end or to an error, comments and strings that are
\* not closed included.
LexerEnds == <>(phase \notin {"call", "scan"})

\* The first pass comes to its end if the end of the file is in the buffer,
\* even if the buffer is too small for another token.
FirstPassEnds ==
  phase = "first" /\ (\E a \in DOMAIN nodes : nodes[a].token.type = "EOF") ~> phase # "first"
=============================================================================
