------------------------------- MODULE Lexer -------------------------------
(***************************************************************************)
(* The lexical analyzer (lexical_analyzer.c): an automaton that reads one  *)
(* character at a time.  Its global variables are the record lex; each     *)
(* state function is an operator from lex and the character to the new     *)
(* lex.  A character is its code, as in C.                                 *)
(*                                                                         *)
(* The value of a token is a sequence of numbers: the characters of a      *)
(* string or an identifier, the number, mantissa and decimal exponent of a *)
(* double, 1 or 0 for a type that is nilable or not.                       *)
(***************************************************************************)
EXTENDS DynString, SequencesExt, FiniteSetsExt, TLC

CONSTANT Texts  \* the source texts: for each alternative and position, the characters there

VARIABLES
  task,  \* the alternative
  text,  \* what was read of it, with the end of the file
  lex    \* the variables of the analyzer

-----------------------------------------------------------------------------
(* Characters.                                                             *)

Printable ==
  << "!", "\"", "#", "$", "%", "&", "'", "(", ")", "*", "+", ",", "-", ".", "/",
     "0", "1", "2", "3", "4", "5", "6", "7", "8", "9", ":", ";", "<", "=", ">", "?", "@",
     "A", "B", "C", "D", "E", "F", "G", "H", "I", "J", "K", "L", "M", "N", "O", "P", "Q",
     "R", "S", "T", "U", "V", "W", "X", "Y", "Z", "[", "\\", "]", "^", "_", "grave",
     "a", "b", "c", "d", "e", "f", "g", "h", "i", "j", "k", "l", "m", "n", "o", "p", "q",
     "r", "s", "t", "u", "v", "w", "x", "y", "z", "{", "|", "}", "~" >>

Code == [ch \in ToSet(Printable) |-> 32 + CHOOSE i \in 1..Len(Printable) : Printable[i] = ch]
Codes(chars) == [i \in 1..Len(chars) |-> Code[chars[i]]]

EOF == -1
NUL == 0
TAB == 9
NEWLINE == 10
RETURN == 13
SPACE == 32
QUOTE == Code["\""]
BACKSLASH == Code["\\"]

is_whitespace(c) == c \in {SPACE, TAB, 11, 12, RETURN}
is_number(c) == c \in Code["0"]..Code["9"]
is_alfa(c) == c \in (Code["a"]..Code["z"]) \union (Code["A"]..Code["Z"])
is_alfa_num(c) == is_alfa(c) \/ is_number(c)
is_hexa(c) == c \in (Code["a"]..Code["f"]) \union (Code["A"]..Code["F"]) \/ is_number(c)
is_in_string_sigma(c) == c > 31 /\ c # QUOTE

-----------------------------------------------------------------------------
(* The library's conversions of numbers.                                   *)

First(s, n) == SubSeq(s, 1, n)
Rest(s, n) == SubSeq(s, n + 1, Len(s))

\* The longest beginning of s that P holds for.
Longest(s, P(_)) == Max({0} \union {n \in 1..Len(s) : P(First(s, n))})

Number(digits) == FoldLeft(LAMBDA n, c : 10 * n + c - Code["0"], 0, digits)

\* m * 10^e without trailing zeros in m.
Double(m, e) ==
  IF m = 0 THEN <<0, 0>>
  ELSE CHOOSE d \in {<<m \div (10 ^ k), e + k>> : k \in {i \in 0..9 : m % (10 ^ i) = 0}} :
         d[1] % 10 # 0

IsDigits(s) == s # <<>> /\ \A i \in 1..Len(s) : is_number(s[i])

\* The numerals of the library, such as 12, 12.5 and 12.5e-1: the places of
\* the point and of the exponent.
Point(s, i) == s[i] = Code["."] /\ IsDigits(First(s, i - 1)) /\ IsDigits(Rest(s, i))
IsDecimal(s) == IsDigits(s) \/ \E i \in 2..Len(s) : Point(s, i)
Signed(s) == s # <<>> /\ s[1] \in {Code["+"], Code["-"]}
IsPower(s) == IsDigits(IF Signed(s) THEN Tail(s) ELSE s)
Exponent(s, i) == s[i] \in {Code["e"], Code["E"]} /\ IsDecimal(First(s, i - 1)) /\ IsPower(Rest(s, i))
IsNumeral(s) == IsDecimal(s) \/ \E i \in 2..Len(s) : Exponent(s, i)

PowerValue(s) ==
  IF ~Signed(s) THEN Number(s)
  ELSE IF s[1] = Code["-"] THEN -Number(Tail(s)) ELSE Number(Tail(s))

DecimalValue(s, power) ==
  IF IsDigits(s) THEN Double(Number(s), power)
  ELSE LET i == CHOOSE k \in 2..Len(s) : Point(s, k)
       IN Double(Number(First(s, i - 1) \o Rest(s, i)), power - (Len(s) - i))

NumeralValue[s \in Seq(Int)] ==
  CASE s = <<>> -> <<0, 0>>
    [] s # <<>> /\ IsDecimal(s) -> DecimalValue(s, 0)
    [] OTHER -> LET i == CHOOSE k \in 2..Len(s) : Exponent(s, k)
                IN DecimalValue(First(s, i - 1), PowerValue(Rest(s, i)))

atoi[s \in Seq(Int)] == Number(First(s, Longest(s, IsDigits)))

\* The value at the beginning of s, and what is behind it.
strtod[s \in Seq(Int)] ==
  LET n == Longest(s, IsNumeral)
  IN [value |-> NumeralValue[First(s, n)], end |-> Rest(s, n)]

\* v * pow(10, x), for an x that is whole
TimesPow10(v, x) == Double(v[1], v[2] + x[1] * (10 ^ x[2]))

-----------------------------------------------------------------------------
(* Steps of the state functions.                                           *)

Token(type, eol, value) == [type |-> type, preceding_eol |-> eol, value |-> value]

\* get_token, before the first character is read; an unread character is kept,
\* and so are the counters, which are only cleared when a token was completed.
Restart(l) ==
  [state |-> "start", is_final |-> FALSE, set_eol |-> FALSE, unread |-> l.unread, read |-> NUL,
   open_comments |-> l.open_comments, hexa_string |-> l.hexa_string,
   read_string |-> dstring_init, tmp_string |-> dstring_init,
   token |-> Token("UNDEFINED", FALSE, <<>>)]

\* NEXT_STATE
Goto(l, state) == [l EXCEPT !.state = state]

\* UNREAD
Unread(l, c) == [l EXCEPT !.unread = c]

\* A character is appended to read_string.
Keep(l, c) == [l EXCEPT !.read_string = dstring_append(@, c)]

\* A token is complete.
Final(l, type, value) ==
  [l EXCEPT !.is_final = TRUE, !.set_eol = FALSE, !.state = "NULL",
            !.token = Token(type, l.set_eol, value)]

-----------------------------------------------------------------------------
(* White space, operators, comments.                                       *)

eof(l) == Final(l, "EOF", <<>>)

\* The state behind the first character of a token.
FirstChar ==
  [comma |-> ",", lt |-> "<", gt |-> ">", not_nil |-> "!", qm |-> "?", ass |-> "=",
   col |-> ":", semicol |-> ";", r_bkt |-> "}", l_bkt |-> "{", r_par |-> ")", l_par |-> "(",
   add |-> "+", sub |-> "-", mul |-> "*", s_div |-> "/", string_start |-> "\""]
FirstStates(c) == {s \in DOMAIN FirstChar : Code[FirstChar[s]] = c}

start(l, c) ==
  CASE is_whitespace(c) -> l
    [] is_number(c) -> Goto(Keep(l, c), "s_int")
    [] c = NEWLINE -> [l EXCEPT !.set_eol = TRUE]
    [] c = EOF -> eof(l)
    [] c = Code["_"] -> Goto(Keep(l, c), "und_scr")
    [] is_alfa(c) -> Goto(Keep(l, c), "identifier")
    [] FirstStates(c) # {} -> Goto(l, CHOOSE s \in FirstStates(c) : TRUE)
    [] OTHER -> Goto(l, "NULL")

\* Operators of one character, and those that another character makes longer.
Simple ==
  [comma |-> "COMMA", lt |-> "LT", leq |-> "LEQ", gt |-> "GT", geq |-> "GEQ",
   not_nil |-> "NOT_NIL", neq |-> "NEQ", nil_check |-> "NIL_CHECK", ass |-> "ASS",
   eq |-> "EQ", col |-> "COL", semicol |-> "SEMICOL", r_bkt |-> "R_BKT",
   l_bkt |-> "L_BKT", r_par |-> "R_PAR", l_par |-> "L_PAR", add |-> "ADD", sub |-> "SUB",
   ret_val |-> "RET_VAL", mul |-> "MUL"]

Longer ==
  [lt |-> <<"=", "leq">>, gt |-> <<"=", "geq">>, not_nil |-> <<"=", "neq">>,
   qm |-> <<"?", "nil_check">>, ass |-> <<"=", "eq">>, sub |-> <<">", "ret_val">>]

Operators == DOMAIN Simple \union DOMAIN Longer

operator(l, c) ==
  CASE l.state \in DOMAIN Longer /\ c = Code[Longer[l.state][1]] ->
         Goto(l, Longer[l.state][2])
    [] l.state = "qm" /\ c # Code["?"] -> Goto(l, "NULL")
    [] OTHER -> Unread(Final(l, Simple[l.state], <<>>), c)

s_div(l, c) ==
  CASE c = Code["/"] -> Goto(l, "line_c")
    [] c = Code["*"] -> Goto([l EXCEPT !.open_comments = @ + 1], "block_c")
    [] OTHER -> Unread(Final(l, "DIV", <<>>), c)

\* At the end of the file eof() completes the token, and the loop of get_token
\* ends although the state is line_c again.
line_c(l, c) ==
  CASE c = EOF -> Goto([eof(l) EXCEPT !.set_eol = TRUE], "line_c")
    [] c = NEWLINE -> Goto(l, "start")
    [] OTHER -> [l EXCEPT !.set_eol = TRUE]

block_c(l, c) ==
  CASE c = Code["*"] -> Goto(l, "block_c_end_q")
    [] c = Code["/"] -> Goto(l, "block_c_start_q")
    [] OTHER -> l

\* Bug: the first */ ends all comments.
EndAll(l, c) ==
  IF c = Code["/"] THEN Goto([l EXCEPT !.open_comments = 0], "start") ELSE Goto(l, "block_c")

block_c_end_q(l, c) ==
  LET open == IF c = Code["/"] THEN l.open_comments - 1 ELSE l.open_comments
  IN Goto([l EXCEPT !.open_comments = open],
          IF c = Code["/"] /\ open = 0 THEN "start" ELSE "block_c")

block_c_start_q(l, c) ==
  Goto([l EXCEPT !.open_comments = IF c = Code["*"] THEN @ + 1 ELSE @], "block_c")

-----------------------------------------------------------------------------
(* Words and numbers.                                                      *)

keywords ==
  Codes(<<"e", "l", "s", "e">>) :> "ELSE" @@ Codes(<<"f", "u", "n", "c">>) :> "FUNC" @@
  Codes(<<"i", "f">>) :> "IF" @@ Codes(<<"l", "e", "t">>) :> "LET" @@
  Codes(<<"n", "i", "l">>) :> "NIL" @@ Codes(<<"r", "e", "t", "u", "r", "n">>) :> "RETURN" @@
  Codes(<<"v", "a", "r">>) :> "VAR" @@ Codes(<<"w", "h", "i", "l", "e">>) :> "WHILE"

data_types ==
  Codes(<<"D", "o", "u", "b", "l", "e">>) :> "DT_DOUBLE" @@
  Codes(<<"I", "n", "t">>) :> "DT_INT" @@
  Codes(<<"S", "t", "r", "i", "n", "g">>) :> "DT_STRING"

und_scr(l, c) ==
  IF is_alfa_num(c) THEN Goto(Keep(l, c), "identifier")
  ELSE Unread(Final(Keep(l, c), "UND_SCR", <<>>), c)

\* The character behind the word is appended, unread and taken off again.  The
\* string of a keyword is freed by get_token.
identifier(l, c) ==
  LET longer == Keep(l, c)
      word == dstring_retract(longer.read_string, 1)
      l1 == Unread([longer EXCEPT !.read_string = word], c)
  IN CASE is_alfa_num(c) \/ c = Code["_"] -> longer
       [] OTHER ->
            CASE word.str \in DOMAIN keywords -> Final(l1, keywords[word.str], <<>>)
              [] word.str \in DOMAIN data_types ->
                   Goto(Final(l1, data_types[word.str], <<0>>), "data_type")
              [] OTHER -> Final(l1, "IDENTIFIER", word.str)

\* Bug: the token is completed once more, when its line break is forgotten.
CompleteTwice(l, c) ==
  IF c = Code["?"] THEN Final(l, l.token.type, <<1>>)
  ELSE Unread(Final(l, l.token.type, <<0>>), c)

data_type(l, c) ==
  Goto(IF c = Code["?"] THEN [l EXCEPT !.token.value = <<1>>] ELSE Unread(l, c), "NULL")

\* The automaton of numbers; NULL where the number ends.
NumberState(state, c) ==
  CASE state = "s_int" /\ c = Code["."] -> "dbl_s"
    [] state \in {"s_int", "dbl"} /\ c \in {Code["e"], Code["E"]} -> "exp_s"
    [] state = "exp_s" /\ c \in {Code["+"], Code["-"]} -> "exp_sign"
    [] state \in {"s_int", "dbl", "s_exp"} /\ is_number(c) -> state
    [] state = "dbl_s" /\ is_number(c) -> "dbl"
    [] state \in {"exp_s", "exp_sign"} /\ is_number(c) -> "s_exp"
    [] OTHER -> "NULL"

NumberStates == {"s_int", "dbl_s", "dbl", "exp_s", "exp_sign", "s_exp"}

\* The character behind the number is appended and left to the conversion,
\* which stops there.
number(l, c) ==
  LET l1 == Keep(l, c)
      s == l1.read_string.str
      base == strtod[s]
  IN CASE NumberState(l.state, c) # "NULL" -> Goto(l1, NumberState(l.state, c))
       [] OTHER ->
            CASE l.state = "s_int" -> Unread(Final(l1, "INT", <<atoi[s]>>), c)
              [] l.state = "dbl" -> Unread(Final(l1, "DBL", base.value), c)
              [] l.state = "s_exp" ->
                   Unread(Final(l1, "DBL", TimesPow10(base.value, strtod[Tail(base.end)].value)), c)
              [] OTHER -> Goto(l1, "NULL")

-----------------------------------------------------------------------------
(* Strings.                                                                *)

HexValue(c) ==
  CASE is_number(c) -> c - Code["0"]
    [] c \in Code["a"]..Code["f"] -> c - Code["a"] + 10
    [] c \in Code["A"]..Code["F"] -> c - Code["A"] + 10

\* The last two digits, as a signed 8-bit number.
hexa_to_dec(hexa) ==
  LET n == Len(hexa)
      byte == IF n > 1 THEN 16 * HexValue(hexa[n - 1]) + HexValue(hexa[n]) ELSE HexValue(hexa[n])
  IN IF byte > 127 THEN byte - 256 ELSE byte

\* Behind a backslash; the u stays in read_string until the escape is complete.
Escape(l, c, inner, hexa_q, allowed) ==
  CASE c = Code["n"] -> Goto(Keep(l, NEWLINE), inner)
    [] c = Code["r"] -> Goto(Keep(l, RETURN), inner)
    [] c = Code["t"] -> Goto(Keep(l, TAB), inner)
    [] c = Code["u"] -> Goto(Keep(l, c), hexa_q)
    [] OTHER -> Goto(Keep(l, c), IF allowed THEN inner ELSE "NULL")

\* Behind \u
HexaStart(l, c, inner, hexa, allowed) ==
  IF c = Code["{"] THEN Goto([l EXCEPT !.hexa_string = 0], hexa)
  ELSE Goto(Keep(l, c), IF allowed THEN inner ELSE "NULL")

\* Behind \u{
Hexa(l, c, inner) ==
  CASE c = Code["}"] /\ l.hexa_string > 0 ->
         Goto([l EXCEPT !.read_string =
                          dstring_append(dstring_retract(@, 1), hexa_to_dec(l.tmp_string.str)),
                        !.tmp_string = dstring_clear(@)], inner)
    [] is_hexa(c) ->
         Goto([l EXCEPT !.tmp_string = dstring_append(@, c), !.hexa_string = @ + 1],
              IF l.hexa_string + 1 > 8 THEN "NULL" ELSE l.state)
    [] OTHER -> Goto(l, "NULL")

string_inner(l, c) ==
  CASE c = BACKSLASH -> Goto(l, "string_escape")
    [] c = QUOTE -> Goto(l, IF l.state = "string_start" THEN "empty_string" ELSE "string_end")
    [] OTHER -> Goto(Keep(l, c), IF is_in_string_sigma(c) THEN "string_inner" ELSE "NULL")

string_start(l, c) == string_inner(l, c)

string_escape(l, c) ==
  Escape(l, c, "string_inner", "string_hexa_q", is_in_string_sigma(c) \/ c = QUOTE)

string_hexa_q(l, c) ==
  HexaStart(l, c, "string_inner", "string_hexa", is_in_string_sigma(c))

string_hexa(l, c) == Hexa(l, c, "string_inner")

string_end(l, c) == Unread(Final(l, "STRING", l.read_string.str), c)

empty_string(l, c) == IF c = QUOTE THEN Goto(l, "eol_start_q") ELSE string_end(l, c)

\* Multi-line strings: behind """, at the beginning of a line, inside of a
\* line, and behind one or two quotes at the beginning of a line.
eol_start_q(l, c) == Goto(l, IF c = NEWLINE THEN "eol_end_q" ELSE "NULL")

eol_end_q(l, c) ==
  CASE c = BACKSLASH -> Goto(l, "m_string_escape")
    [] c = NEWLINE \/ is_whitespace(c) -> Keep(l, c)
    [] OTHER -> Goto(Keep(l, c), IF c = QUOTE THEN "m_string_end1" ELSE "m_string_inner")

m_string_inner(l, c) ==
  IF c = BACKSLASH THEN Goto(l, "m_string_escape")
  ELSE Goto(Keep(l, c), IF c = NEWLINE THEN "eol_end_q" ELSE "m_string_inner")

m_string_escape(l, c) == Escape(l, c, "m_string_inner", "m_string_hexa_q", TRUE)

m_string_hexa_q(l, c) == HexaStart(l, c, "m_string_inner", "m_string_hexa", TRUE)

m_string_hexa(l, c) == Hexa(l, c, "m_string_inner")

m_string_end1(l, c) ==
  Goto(Keep(l, c), CASE c = NEWLINE -> "eol_end_q"
                     [] c = QUOTE -> "m_string_end2"
                     [] OTHER -> "m_string_inner")

\* One character of the text: the indentation is compared and left out.
Unindent(indent, acc, c) ==
  CASE ~acc.ok -> acc
    [] acc.ok /\ c = NEWLINE ->
         [ok |-> acc.at = 0 \/ acc.at >= Len(indent), at |-> 0, result |-> Append(acc.result, c)]
    [] acc.ok /\ c # NEWLINE /\ acc.at < Len(indent) ->
         [acc EXCEPT !.ok = c = indent[acc.at + 1], !.at = @ + 1]
    [] OTHER -> [acc EXCEPT !.at = @ + 1, !.result = Append(@, c)]

\* The indentation of the closing quotes is taken off every line; str has the
\* closing quotes at its end.
indentation_perform(str) ==
  LET len == Len(str) - 3
      indent == SubSeq(str, Max({0} \union {i \in 1..len : str[i] = NEWLINE}) + 1, len)
      before == len - Len(indent) - 1
      for_iter == IF before < 0 THEN 0
                  ELSE IF str[IF before = 0 THEN 1 ELSE before] = NEWLINE THEN before + 1
                  ELSE before
      acc[i \in 0..for_iter] ==
        IF i = 0 THEN [ok |-> TRUE, at |-> 0, result |-> <<>>]
        ELSE Unindent(indent, acc[i - 1], str[i])
  IN acc[for_iter]

m_string_end2(l, c) ==
  LET l1 == Keep(l, c)
      text1 == indentation_perform(l1.read_string.str)
  IN CASE c = NEWLINE -> Goto(l1, "eol_end_q")
       [] c = QUOTE ->
            IF ~text1.ok THEN Goto(l1, "NULL")
            ELSE Goto([l1 EXCEPT !.read_string =
                         dstring_copy([dstring_init EXCEPT !.str = text1.result], dstring_clear(@))],
                      "string_end")
       [] OTHER -> Goto(l1, "m_string_inner")

-----------------------------------------------------------------------------
(* get_token.                                                              *)

actual_state(l, c) ==
  CASE l.state = "start" -> start(l, c)
    [] l.state \in Operators -> operator(l, c)
    [] l.state = "s_div" -> s_div(l, c)
    [] l.state = "line_c" -> line_c(l, c)
    [] l.state = "block_c" -> block_c(l, c)
    [] l.state = "block_c_end_q" -> block_c_end_q(l, c)
    [] l.state = "block_c_start_q" -> block_c_start_q(l, c)
    [] l.state = "und_scr" -> und_scr(l, c)
    [] l.state = "identifier" -> identifier(l, c)
    [] l.state = "data_type" -> data_type(l, c)
    [] l.state \in NumberStates -> number(l, c)
    [] l.state = "string_start" -> string_start(l, c)
    [] l.state = "string_inner" -> string_inner(l, c)
    [] l.state = "string_escape" -> string_escape(l, c)
    [] l.state = "string_hexa_q" -> string_hexa_q(l, c)
    [] l.state = "string_hexa" -> string_hexa(l, c)
    [] l.state = "string_end" -> string_end(l, c)
    [] l.state = "empty_string" -> empty_string(l, c)
    [] l.state = "eol_start_q" -> eol_start_q(l, c)
    [] l.state = "eol_end_q" -> eol_end_q(l, c)
    [] l.state = "m_string_inner" -> m_string_inner(l, c)
    [] l.state = "m_string_escape" -> m_string_escape(l, c)
    [] l.state = "m_string_hexa_q" -> m_string_hexa_q(l, c)
    [] l.state = "m_string_hexa" -> m_string_hexa(l, c)
    [] l.state = "m_string_end1" -> m_string_end1(l, c)
    [] l.state = "m_string_end2" -> m_string_end2(l, c)

Closed == text # <<>> /\ Last(text) = EOF

\* What fgetc may return: a character of the text, which may end anywhere.
NextChars ==
  {EOF} \union (IF Closed \/ Len(text) = Len(Texts[task]) THEN {} ELSE Texts[task][Len(text) + 1])

\* Bug: a comment goes on behind the end of the file.
ScanningComment == lex.state # "NULL" /\ (lex.read # EOF \/ lex.state = "line_c")

\* The condition of the loop of get_token.
Scanning == lex.state # "NULL" /\ lex.read # EOF

\* One pass of the loop with the character c.
Step(l, c) == actual_state([l EXCEPT !.read = c], c)

\* A string has to grow, or indentation_perform needs strings of its own.
Allocates(l, c) ==
  \/ Step(l, c).read_string.alloc_size # l.read_string.alloc_size
  \/ Step(l, c).tmp_string.alloc_size # l.tmp_string.alloc_size
  \/ l.state = "m_string_end2" /\ c = QUOTE

fgetc ==
  /\ Scanning /\ lex.unread = NUL
  /\ \E c \in NextChars :
       /\ lex' = Step(lex, c)
       /\ text' = IF Closed THEN text ELSE Append(text, c)
  /\ UNCHANGED task

TakeUnread ==
  /\ Scanning /\ lex.unread # NUL
  /\ lex' = Step([lex EXCEPT !.unread = NUL], lex.unread)
  /\ UNCHANGED <<task, text>>

\* malloc_error; the caller returns ERR_INTERNAL.
OutOfMemory ==
  /\ Scanning
  /\ \E c \in IF lex.unread = NUL THEN NextChars ELSE {lex.unread} : Allocates(lex, c)
  /\ UNCHANGED <<task, text, lex>>

-----------------------------------------------------------------------------
\* Every string of the analyzer lies, with its '\0', in the memory that is
\* allocated for it.
StringsFit == Fits(lex.read_string) /\ Fits(lex.tmp_string)

\* A dynamic string that fits; what its characters are does not matter.
InMemory(d) ==
  /\ d = [str |-> d.str, alloc_size |-> d.alloc_size]
  /\ Len(d.str) \in Nat /\ d.str = [i \in 1..Len(d.str) |-> d.str[i]]
  /\ d.alloc_size \in Nat /\ Fits(d)

\* The states behind \u, in which the u is taken off read_string.
HexaStates == {"string_hexa_q", "string_hexa", "m_string_hexa_q", "m_string_hexa"}

\* The other states; in NULL get_token returns.
PlainStates ==
  Operators \union NumberStates
    \union {"NULL", "start", "s_div", "line_c", "block_c", "block_c_end_q", "block_c_start_q",
            "und_scr", "identifier", "data_type", "string_start", "string_inner",
            "string_escape", "string_end", "empty_string", "eol_start_q", "eol_end_q",
            "m_string_inner", "m_string_escape", "m_string_end1", "m_string_end2"}

\* The inductive invariant behind StringsFit: there is a u to be taken off.
StringsInv(l) ==
  /\ l = [state |-> l.state, is_final |-> l.is_final, set_eol |-> l.set_eol,
          unread |-> l.unread, read |-> l.read, open_comments |-> l.open_comments,
          hexa_string |-> l.hexa_string, read_string |-> l.read_string,
          tmp_string |-> l.tmp_string, token |-> l.token]
  /\ InMemory(l.read_string) /\ InMemory(l.tmp_string)
  /\ \/ l.state \in PlainStates
     \/ l.state \in HexaStates /\ Len(l.read_string.str) > 0
=============================================================================
