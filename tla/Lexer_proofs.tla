---------------------------- MODULE Lexer_proofs ----------------------------
(***************************************************************************)
(* The strings of the lexical analyzer stay in their memory, for every     *)
(* source text and every DSTR_ALLOC_SIZE of at least two bytes.            *)
(***************************************************************************)
EXTENDS Frontend, Induction_proofs, SequenceTheorems

-----------------------------------------------------------------------------
(* Dynamic strings.                                                        *)

\* The characters of a string that fits are a sequence.
LEMMA StringIsSeq ==
  ASSUME NEW d, InMemory(d)
  PROVE  \E S : d.str \in Seq(S)
<1> DEFINE S == {d.str[i] : i \in 1..Len(d.str)}
<1>1. Len(d.str) \in Nat /\ d.str = [i \in 1..Len(d.str) |-> d.str[i]]
  BY DEF InMemory
<1>2. \A i \in 1..Len(d.str) : d.str[i] \in S
  OBVIOUS
<1> HIDE DEF S
<1>3. d.str \in [1..Len(d.str) -> S]
  BY <1>1, <1>2
<1>4. d.str \in Seq(S)
  BY <1>1, <1>3
<1> QED BY <1>4

\* A record of characters and a size that is large enough is such a string.
LEMMA StringFits ==
  ASSUME NEW S, NEW s \in Seq(S), NEW n \in Nat, Len(s) + 1 <= n
  PROVE  InMemory([str |-> s, alloc_size |-> n])
<1>1. Len(s) \in Nat /\ s = [i \in 1..Len(s) |-> s[i]]
  OBVIOUS
<1> QED BY <1>1 DEF InMemory, Fits

\* dstring_init
LEMMA InitFits == InMemory(dstring_init)
<1>1. <<>> \in Seq({}) /\ AllocSize \in Nat /\ Len(<<>>) + 1 <= AllocSize
  BY AllocSizeAssumption
<1> QED BY <1>1, StringFits DEF dstring_init

\* dstring_clear
LEMMA ClearFits == ASSUME NEW d, InMemory(d) PROVE InMemory(dstring_clear(d))
<1>1. dstring_clear(d) = [str |-> <<>>, alloc_size |-> d.alloc_size]
  BY DEF dstring_clear, InMemory
<1>2. Len(d.str) \in Nat /\ d.alloc_size \in Nat /\ Len(d.str) + 1 <= d.alloc_size
  BY DEF InMemory, Fits
<1>3. <<>> \in Seq({}) /\ Len(<<>>) + 1 <= d.alloc_size
  BY <1>2
<1> QED BY <1>1, <1>2, <1>3, StringFits

\* dstring_append reallocates when the '\0' would not fit.
LEMMA AppendFits ==
  ASSUME NEW d, InMemory(d), NEW c
  PROVE  InMemory(dstring_append(d, c)) /\ Len(dstring_append(d, c).str) = Len(d.str) + 1
<1>1. PICK S : d.str \in Seq(S)
  BY StringIsSeq
<1> DEFINE T == S \union {c}
           s == Append(d.str, c)
<1>2. d.str \in Seq(T)
  BY <1>1
<1>3. s \in Seq(T) /\ Len(s) = Len(d.str) + 1
  BY <1>2
<1> HIDE DEF s, T
<1>4. PICK n \in Nat : n = Len(d.str)
  BY DEF InMemory
<1> DEFINE a == IF n + 1 >= d.alloc_size THEN n + AllocSize ELSE d.alloc_size
<1>5. a \in Nat /\ n + 2 <= a
  BY <1>4, AllocSizeAssumption DEF InMemory
<1>6. dstring_append(d, c) = [str |-> s, alloc_size |-> a]
  BY <1>4 DEF dstring_append, s
<1> HIDE DEF a
<1>7. Len(s) + 1 <= a
  BY <1>3, <1>4, <1>5
<1>8. InMemory([str |-> s, alloc_size |-> a])
  BY <1>3, <1>5, <1>7, StringFits
<1> QED BY <1>3, <1>6, <1>8

\* dstring_retract of one character of a string that has one.
LEMMA RetractFits ==
  ASSUME NEW d, InMemory(d), Len(d.str) > 0
  PROVE  InMemory(dstring_retract(d, 1))
<1>1. PICK S : d.str \in Seq(S)
  BY StringIsSeq
<1>2. PICK n \in Nat : n = Len(d.str) /\ n > 0 /\ n + 1 <= d.alloc_size /\ d.alloc_size \in Nat
  BY DEF InMemory, Fits
<1> DEFINE s == SubSeq(d.str, 1, n - 1)
<1>3. s \in Seq(S) /\ Len(s) = n - 1
  BY <1>1, <1>2, SubSeqProperties
<1>4. dstring_retract(d, 1) = [str |-> s, alloc_size |-> d.alloc_size]
  BY <1>2 DEF dstring_retract, InMemory
<1> HIDE DEF s
<1>5. Len(s) + 1 <= d.alloc_size
  BY <1>2, <1>3
<1> QED BY <1>2, <1>3, <1>4, <1>5, StringFits

\* dstring_copy
LEMMA CopyFits ==
  ASSUME NEW src, NEW S, src.str \in Seq(S), NEW dst, InMemory(dst)
  PROVE  InMemory(dstring_copy(src, dst))
<1>1. PICK n \in Nat : n = Len(src.str)
  OBVIOUS
<1>2. dst.alloc_size \in Nat
  BY DEF InMemory
<1> DEFINE a == IF n >= dst.alloc_size THEN n + 1 ELSE dst.alloc_size
<1>3. a \in Nat /\ n + 1 <= a
  BY <1>1, <1>2
<1>4. dstring_copy(src, dst) = [str |-> src.str, alloc_size |-> a]
  BY <1>1 DEF dstring_copy
<1> HIDE DEF a
<1>5. Len(src.str) + 1 <= a
  BY <1>1, <1>3
<1> QED BY <1>3, <1>4, <1>5, StringFits

-----------------------------------------------------------------------------
(* The parts of the state functions.                                       *)

\* The states are all different.
LEMMA StatesDiffer == PlainStates \intersect HexaStates = {}
<1>1. DOMAIN Simple \intersect HexaStates = {}
  BY DEF Simple, HexaStates
<1>2. DOMAIN Longer \intersect HexaStates = {}
  BY DEF Longer, HexaStates
<1> QED BY <1>1, <1>2 DEF PlainStates, HexaStates, Operators, NumberStates

\* NEXT_STATE
LEMMA GotoInv ==
  ASSUME NEW l, StringsInv(l), NEW state \in PlainStates
  PROVE  StringsInv(Goto(l, state))
BY DEF StringsInv, Goto

\* A state behind \u needs the u.
LEMMA GotoHexa ==
  ASSUME NEW l, StringsInv(l), NEW state \in HexaStates, Len(l.read_string.str) > 0
  PROVE  StringsInv(Goto(l, state))
BY DEF StringsInv, Goto

\* UNREAD
LEMMA UnreadInv == ASSUME NEW l, StringsInv(l), NEW c PROVE StringsInv(Unread(l, c))
BY DEF StringsInv, Unread

\* A character is appended to read_string.
LEMMA KeepInv ==
  ASSUME NEW l, StringsInv(l), NEW c
  PROVE  StringsInv(Keep(l, c)) /\ Len(Keep(l, c).read_string.str) > 0
<1> DEFINE d == dstring_append(l.read_string, c)
<1>1. InMemory(d) /\ Len(d.str) = Len(l.read_string.str) + 1
  BY AppendFits DEF StringsInv
<1>2. Len(l.read_string.str) \in Nat
  BY DEF StringsInv, InMemory
<1>3. Len(d.str) > 0
  BY <1>1, <1>2
<1>4. Keep(l, c) = [l EXCEPT !.read_string = d]
  BY DEF Keep, StringsInv
<1> HIDE DEF d
<1> QED BY <1>1, <1>3, <1>4 DEF StringsInv

\* Fields that are no strings and not the state.
LEMMA FieldsInv ==
  ASSUME NEW l, StringsInv(l), NEW x
  PROVE  /\ StringsInv([l EXCEPT !.read = x]) /\ StringsInv([l EXCEPT !.unread = x])
         /\ StringsInv([l EXCEPT !.set_eol = x]) /\ StringsInv([l EXCEPT !.open_comments = x])
         /\ StringsInv([l EXCEPT !.hexa_string = x]) /\ StringsInv([l EXCEPT !.token = x])
         /\ StringsInv([l EXCEPT !.is_final = x])
         /\ Len([l EXCEPT !.hexa_string = x].read_string.str) = Len(l.read_string.str)
BY DEF StringsInv

\* A token is complete.
LEMMA FinalInv ==
  ASSUME NEW l, StringsInv(l), NEW type, NEW value
  PROVE  StringsInv(Final(l, type, value))
<1> DEFINE l1 == [l EXCEPT !.is_final = TRUE]
           l2 == [l1 EXCEPT !.set_eol = FALSE]
           l3 == Goto(l2, "NULL")
<1>1. StringsInv(l1)
  BY FieldsInv
<1>2. StringsInv(l2)
  BY <1>1, FieldsInv
<1>3. StringsInv(l3)
  BY <1>2, GotoInv DEF PlainStates
<1>4. StringsInv([l3 EXCEPT !.token = Token(type, l.set_eol, value)])
  BY <1>3, FieldsInv
<1> QED BY <1>4 DEF Final, Goto

\* A string is replaced by another one that fits.
LEMMA ReadStringInv ==
  ASSUME NEW l, StringsInv(l), NEW d, InMemory(d), l.state \in PlainStates \/ Len(d.str) > 0
  PROVE  StringsInv([l EXCEPT !.read_string = d])
BY DEF StringsInv

LEMMA TmpStringInv ==
  ASSUME NEW l, StringsInv(l), NEW d, InMemory(d)
  PROVE  /\ StringsInv([l EXCEPT !.tmp_string = d])
         /\ Len([l EXCEPT !.tmp_string = d].read_string.str) = Len(l.read_string.str)
BY DEF StringsInv

-----------------------------------------------------------------------------
(* The state functions.                                                    *)

\* White space, operators and the first character of a token.
LEMMA StartInv ==
  ASSUME NEW l, StringsInv(l), NEW c
  PROVE  StringsInv(start(l, c))
<1>1. StringsInv(Keep(l, c))
  BY KeepInv
<1>2. StringsInv(Goto(Keep(l, c), "s_int")) /\ StringsInv(Goto(Keep(l, c), "und_scr"))
      /\ StringsInv(Goto(Keep(l, c), "identifier")) /\ StringsInv(Goto(l, "NULL"))
  BY <1>1, GotoInv DEF PlainStates, NumberStates
<1>3. StringsInv([l EXCEPT !.set_eol = TRUE]) /\ StringsInv(eof(l))
  BY FieldsInv, FinalInv DEF eof
<1>4. ASSUME FirstStates(c) # {} PROVE StringsInv(Goto(l, CHOOSE s \in FirstStates(c) : TRUE))
  <2>1. (CHOOSE s \in FirstStates(c) : TRUE) \in DOMAIN FirstChar
    BY <1>4 DEF FirstStates
  <2>2. DOMAIN FirstChar \subseteq DOMAIN Simple \union {"qm", "s_div", "string_start"}
    BY DEF FirstChar, Simple
  <2>3. DOMAIN FirstChar \subseteq PlainStates
    BY <2>2 DEF PlainStates, Operators, Longer
  <2> QED BY <2>1, <2>3, GotoInv
<1> QED BY <1>2, <1>3, <1>4 DEF start

\* Operators.
LEMMA OperatorInv ==
  ASSUME NEW l, StringsInv(l), NEW c
  PROVE  StringsInv(operator(l, c))
<1>1. StringsInv(Goto(l, "NULL")) /\ StringsInv(Unread(Final(l, Simple[l.state], <<>>), c))
  BY GotoInv, FinalInv, UnreadInv DEF PlainStates
<1>2. ASSUME l.state \in DOMAIN Longer PROVE StringsInv(Goto(l, Longer[l.state][2]))
  <2>1. Longer[l.state][2] \in DOMAIN Simple
    BY <1>2 DEF Longer, Simple
  <2> QED BY <2>1, GotoInv DEF PlainStates, Operators
<1> QED BY <1>1, <1>2 DEF operator

\* Comments.
LEMMA CommentInv ==
  ASSUME NEW l, StringsInv(l), NEW c
  PROVE  /\ StringsInv(s_div(l, c)) /\ StringsInv(line_c(l, c)) /\ StringsInv(block_c(l, c))
         /\ StringsInv(block_c_end_q(l, c)) /\ StringsInv(block_c_start_q(l, c))
<1>1. \A n : StringsInv([l EXCEPT !.open_comments = n])
  BY FieldsInv
<1>2. \A n : /\ StringsInv(Goto([l EXCEPT !.open_comments = n], "block_c"))
             /\ StringsInv(Goto([l EXCEPT !.open_comments = n], "start"))
  BY <1>1, GotoInv DEF PlainStates
<1>3. StringsInv(Goto(l, "line_c")) /\ StringsInv(Goto(l, "block_c_end_q"))
      /\ StringsInv(Goto(l, "block_c_start_q")) /\ StringsInv(Goto(l, "start"))
  BY GotoInv DEF PlainStates
<1>4. StringsInv(s_div(l, c))
  <2>1. StringsInv(Unread(Final(l, "DIV", <<>>), c))
    BY FinalInv, UnreadInv
  <2> QED BY <1>2, <1>3, <2>1 DEF s_div
<1>5. StringsInv(line_c(l, c))
  <2>1. StringsInv([eof(l) EXCEPT !.set_eol = TRUE]) /\ StringsInv([l EXCEPT !.set_eol = TRUE])
    BY FinalInv, FieldsInv DEF eof
  <2>2. StringsInv(Goto([eof(l) EXCEPT !.set_eol = TRUE], "line_c"))
    BY <2>1, GotoInv DEF PlainStates
  <2> QED BY <1>3, <2>1, <2>2 DEF line_c
<1>6. StringsInv(block_c(l, c))
  BY <1>3 DEF block_c
<1>7. StringsInv(block_c_end_q(l, c))
  BY <1>2 DEF block_c_end_q
<1>8. StringsInv(block_c_start_q(l, c))
  BY <1>2 DEF block_c_start_q
<1> QED BY <1>4, <1>5, <1>6, <1>7, <1>8

\* Words: the character behind a word was appended before it is taken off.
LEMMA WordInv ==
  ASSUME NEW l, StringsInv(l), NEW c
  PROVE  /\ StringsInv(und_scr(l, c)) /\ StringsInv(data_type(l, c))
         /\ l.state = "identifier" => StringsInv(identifier(l, c))
<1>1. StringsInv(Keep(l, c)) /\ Len(Keep(l, c).read_string.str) > 0
  BY KeepInv
<1>2. StringsInv(und_scr(l, c))
  <2>1. StringsInv(Goto(Keep(l, c), "identifier"))
    BY <1>1, GotoInv DEF PlainStates
  <2>2. StringsInv(Unread(Final(Keep(l, c), "UND_SCR", <<>>), c))
    BY <1>1, FinalInv, UnreadInv
  <2> QED BY <2>1, <2>2 DEF und_scr
<1>3. StringsInv(data_type(l, c))
  <2>1. StringsInv([l EXCEPT !.token = [@ EXCEPT !.value = <<1>>]]) /\ StringsInv(Unread(l, c))
    BY FieldsInv, UnreadInv
  <2> QED BY <2>1, GotoInv DEF data_type, PlainStates
<1>4. ASSUME l.state = "identifier" PROVE StringsInv(identifier(l, c))
  <2> DEFINE longer == Keep(l, c)
             word == dstring_retract(longer.read_string, 1)
             l0 == [longer EXCEPT !.read_string = word]
             l1 == Unread(l0, c)
  <2>1. InMemory(word)
    BY <1>1, RetractFits DEF StringsInv
  <2>2. longer.state \in PlainStates
    BY <1>4 DEF Keep, StringsInv, PlainStates
  <2>3. StringsInv(l0)
    BY <1>1, <2>1, <2>2, ReadStringInv
  <2>4. StringsInv(l1)
    BY <2>3, UnreadInv
  <2>5. \A t, v : StringsInv(Final(l1, t, v))
    BY <2>4, FinalInv
  <2>6. \A t, v : StringsInv(Goto(Final(l1, t, v), "data_type"))
    BY <2>5, GotoInv DEF PlainStates
  <2> QED BY <1>1, <2>5, <2>6 DEF identifier
<1> QED BY <1>2, <1>3, <1>4

\* Numbers.
LEMMA NumberInv ==
  ASSUME NEW l, StringsInv(l), NEW c
  PROVE  StringsInv(number(l, c))
<1>1. StringsInv(Keep(l, c))
  BY KeepInv
<1>2. NumberState(l.state, c) \in PlainStates
  BY DEF NumberState, PlainStates, NumberStates
<1>3. StringsInv(Goto(Keep(l, c), NumberState(l.state, c))) /\ StringsInv(Goto(Keep(l, c), "NULL"))
  BY <1>1, <1>2, GotoInv DEF PlainStates
<1>4. \A t, v : StringsInv(Unread(Final(Keep(l, c), t, v), c))
  BY <1>1, FinalInv, UnreadInv
<1> QED BY <1>3, <1>4 DEF number

\* Escape sequences, in strings of one and of several lines.
LEMMA EscapeInv ==
  ASSUME NEW l, StringsInv(l), NEW c, NEW inner \in PlainStates, NEW hexa_q \in HexaStates,
         NEW allowed
  PROVE  StringsInv(Escape(l, c, inner, hexa_q, allowed))
<1>1. \A x : StringsInv(Keep(l, x)) /\ Len(Keep(l, x).read_string.str) > 0
  BY KeepInv
<1>2. \A x : StringsInv(Goto(Keep(l, x), inner)) /\ StringsInv(Goto(Keep(l, x), "NULL"))
  BY <1>1, GotoInv DEF PlainStates
<1>3. StringsInv(Goto(Keep(l, c), hexa_q))
  BY <1>1, GotoHexa
<1> QED BY <1>2, <1>3 DEF Escape

\* Behind \u, where read_string ends with the u.
LEMMA InHexa ==
  ASSUME NEW l, StringsInv(l), l.state \in HexaStates
  PROVE  Len(l.read_string.str) > 0
BY StatesDiffer DEF StringsInv

LEMMA HexaStartInv ==
  ASSUME NEW l, StringsInv(l), l.state \in HexaStates, NEW c, NEW inner \in PlainStates,
         NEW hexa \in HexaStates, NEW allowed
  PROVE  StringsInv(HexaStart(l, c, inner, hexa, allowed))
<1> DEFINE l1 == [l EXCEPT !.hexa_string = 0]
<1>1. StringsInv(l1) /\ Len(l1.read_string.str) > 0
  BY FieldsInv, InHexa
<1> HIDE DEF l1
<1>2. StringsInv(Goto(l1, hexa))
  BY <1>1, GotoHexa
<1>3. StringsInv(Keep(l, c))
  BY KeepInv
<1>4. StringsInv(Goto(Keep(l, c), inner)) /\ StringsInv(Goto(Keep(l, c), "NULL"))
  BY <1>3, GotoInv DEF PlainStates
<1> QED BY <1>2, <1>4 DEF HexaStart, l1

\* Behind \u{, where the u is replaced by the character with that number.
LEMMA HexaInv ==
  ASSUME NEW l, StringsInv(l), l.state \in HexaStates, NEW c, NEW inner \in PlainStates
  PROVE  StringsInv(Hexa(l, c, inner))
<1>1. Len(l.read_string.str) > 0 /\ InMemory(l.read_string) /\ InMemory(l.tmp_string)
  BY InHexa DEF StringsInv
<1>2. StringsInv(Goto(l, "NULL"))
  BY GotoInv DEF PlainStates
<1>3. StringsInv(Goto([l EXCEPT !.read_string =
                          dstring_append(dstring_retract(@, 1), hexa_to_dec(l.tmp_string.str)),
                        !.tmp_string = dstring_clear(@)], inner))
  <2> DEFINE short == dstring_retract(l.read_string, 1)
             d == dstring_append(short, hexa_to_dec(l.tmp_string.str))
             l1 == [l EXCEPT !.read_string = d]
             l2 == [l1 EXCEPT !.tmp_string = dstring_clear(l.tmp_string)]
  <2>1. InMemory(short)
    BY <1>1, RetractFits
  <2>2. InMemory(d) /\ Len(d.str) = Len(short.str) + 1 /\ Len(short.str) \in Nat
    BY <2>1, AppendFits DEF InMemory
  <2>3. Len(d.str) > 0
    BY <2>2
  <2>4. StringsInv(l1)
    BY <2>2, <2>3, ReadStringInv
  <2>5. l1.tmp_string = l.tmp_string
    BY DEF StringsInv
  <2>6. StringsInv(l2)
    BY <1>1, <2>4, ClearFits, TmpStringInv
  <2>7. StringsInv(Goto(l2, inner))
    BY <2>6, GotoInv
  <2>8. l2 = [l EXCEPT !.read_string =
                         dstring_append(dstring_retract(@, 1), hexa_to_dec(l.tmp_string.str)),
                       !.tmp_string = dstring_clear(@)]
    BY DEF StringsInv
  <2> QED BY <2>7, <2>8
<1>4. ASSUME NEW state \in {"NULL", l.state}
      PROVE  StringsInv(Goto([l EXCEPT !.tmp_string = dstring_append(@, c),
                                       !.hexa_string = @ + 1], state))
  <2> DEFINE d == dstring_append(l.tmp_string, c)
             l1 == [l EXCEPT !.tmp_string = d]
             l2 == [l1 EXCEPT !.hexa_string = l.hexa_string + 1]
  <2>1. InMemory(d)
    BY <1>1, AppendFits
  <2>2. StringsInv(l1) /\ Len(l1.read_string.str) = Len(l.read_string.str)
    BY <2>1, TmpStringInv
  <2>3. StringsInv(l2) /\ Len(l2.read_string.str) = Len(l1.read_string.str)
    BY <2>2, FieldsInv
  <2>4. l2 = [l EXCEPT !.tmp_string = dstring_append(@, c), !.hexa_string = @ + 1]
    BY DEF StringsInv
  <2> HIDE DEF l1, l2
  <2>5. StringsInv(Goto(l2, "NULL")) /\ StringsInv(Goto(l2, l.state))
    BY <1>1, <2>2, <2>3, GotoInv, GotoHexa DEF PlainStates
  <2> QED BY <1>4, <2>4, <2>5
<1> QED BY <1>2, <1>3, <1>4 DEF Hexa

\* Strings on one line.
LEMMA StringInv ==
  ASSUME NEW l, StringsInv(l), NEW c
  PROVE  /\ StringsInv(string_inner(l, c)) /\ StringsInv(string_start(l, c))
         /\ StringsInv(string_escape(l, c)) /\ StringsInv(string_end(l, c))
         /\ StringsInv(empty_string(l, c))
<1>1. StringsInv(Keep(l, c))
  BY KeepInv
<1>2. StringsInv(string_inner(l, c))
  <2>1. StringsInv(Goto(l, "string_escape")) /\ StringsInv(Goto(l, "empty_string"))
        /\ StringsInv(Goto(l, "string_end"))
    BY GotoInv DEF PlainStates
  <2>2. StringsInv(Goto(Keep(l, c), "string_inner")) /\ StringsInv(Goto(Keep(l, c), "NULL"))
    BY <1>1, GotoInv DEF PlainStates
  <2> QED BY <2>1, <2>2 DEF string_inner
<1>3. StringsInv(string_escape(l, c))
  BY EscapeInv DEF string_escape, PlainStates, HexaStates
<1>4. StringsInv(string_end(l, c))
  BY FinalInv, UnreadInv DEF string_end
<1>5. StringsInv(empty_string(l, c))
  BY <1>4, GotoInv DEF empty_string, PlainStates
<1> QED BY <1>2, <1>3, <1>4, <1>5 DEF string_start

\* Strings on several lines.
LEMMA LinesInv ==
  ASSUME NEW l, StringsInv(l), NEW c
  PROVE  /\ StringsInv(eol_start_q(l, c)) /\ StringsInv(eol_end_q(l, c))
         /\ StringsInv(m_string_inner(l, c)) /\ StringsInv(m_string_escape(l, c))
         /\ StringsInv(m_string_end1(l, c))
<1>1. StringsInv(Keep(l, c))
  BY KeepInv
<1>2. StringsInv(Goto(l, "eol_end_q")) /\ StringsInv(Goto(l, "NULL"))
      /\ StringsInv(Goto(l, "m_string_escape"))
  BY GotoInv DEF PlainStates
<1>3. /\ StringsInv(Goto(Keep(l, c), "m_string_end1")) /\ StringsInv(Goto(Keep(l, c), "m_string_inner"))
      /\ StringsInv(Goto(Keep(l, c), "eol_end_q")) /\ StringsInv(Goto(Keep(l, c), "m_string_end2"))
  BY <1>1, GotoInv DEF PlainStates
<1>4. StringsInv(eol_start_q(l, c))
  BY <1>2 DEF eol_start_q
<1>5. StringsInv(eol_end_q(l, c))
  BY <1>1, <1>2, <1>3 DEF eol_end_q
<1>6. StringsInv(m_string_inner(l, c))
  BY <1>2, <1>3 DEF m_string_inner
<1>7. StringsInv(m_string_escape(l, c))
  BY EscapeInv DEF m_string_escape, PlainStates, HexaStates
<1>8. StringsInv(m_string_end1(l, c))
  BY <1>3 DEF m_string_end1
<1> QED BY <1>4, <1>5, <1>6, <1>7, <1>8

-----------------------------------------------------------------------------
(* indentation_perform.                                                    *)

\* The characters that are left are a sequence, whatever the text is.
LEMMA IndentationResult ==
  ASSUME NEW str, Len(str) \in Nat
  PROVE  \E S : indentation_perform(str).result \in Seq(S)
<1> DEFINE len == Len(str) - 3
           breaks == {0} \union {i \in 1..len : str[i] = NEWLINE}
           indent == SubSeq(str, Max(breaks) + 1, len)
           before == len - Len(indent) - 1
           for_iter == IF before < 0 THEN 0
                       ELSE IF str[IF before = 0 THEN 1 ELSE before] = NEWLINE THEN before + 1
                       ELSE before
           base == [ok |-> TRUE, at |-> 0, result |-> <<>>]
           acc == CHOOSE f : f = [i \in 0..for_iter |->
                    IF i = 0 THEN base ELSE Unindent(indent, f[i - 1], str[i])]
<1>1. indentation_perform(str) = acc[for_iter]
  BY DEF indentation_perform
<1>2. PICK n \in Nat : n = Len(str)
  OBVIOUS
<1>3. PICK k \in Nat : k = Len(indent)
  <2>1. breaks \in SUBSET (0..n) /\ breaks # {}
    BY <1>2
  <2> HIDE DEF breaks
  <2>2. Max(breaks) \in breaks
    BY <1>2, <2>1, MaxIsIn, Zenon
  <2>3. PICK b \in 0..n : b = Max(breaks)
    BY <2>1, <2>2, Zenon
  <2> QED BY <1>2, <2>3
<1>4. before = n - 3 - k - 1
  BY <1>2, <1>3
<1> HIDE DEF indent
<1>5. for_iter \in Nat
  <2>1. before \in Int
    BY <1>2, <1>3, <1>4
  <2> HIDE DEF before
  <2> QED BY <2>1
<1> HIDE DEF for_iter
<1> DEFINE m == for_iter
           V == {str[i] : i \in 1..m}
           X == [ok : BOOLEAN, at : Nat, result : Seq(V)]
<1>6. base \in X
  OBVIOUS
<1>7. ASSUME NEW a \in X, NEW i \in 1..m PROVE Unindent(indent, a, str[i]) \in X
  <2>1. str[i] \in V
    OBVIOUS
  <2> HIDE DEF V, m
  <2>2. Append(a.result, str[i]) \in Seq(V) /\ a.at \in Nat /\ a.at + 1 \in Nat /\ a.ok \in BOOLEAN
    BY <1>7, <2>1
  <2> QED BY <1>7, <2>2 DEF Unindent
<1> DEFINE step == [i \in 1..m |-> [a \in X |-> Unindent(indent, a, str[i])]]
<1> HIDE DEF base, m, V
<1>8. step \in [1..m -> [X -> X]]
  BY <1>7
<1> HIDE DEF X, step
<1>9. PICK f \in [0..m -> X] : f[0] = base /\ \A i \in 1..m : f[i] = step[i][f[i - 1]]
  <2>1. m \in Nat
    BY <1>5 DEF m
  <2> HIDE DEF m
  <2>2. \E f : IsLoop(f, m, X, base, step)
    BY <1>6, <1>8, <2>1, LoopExists
  <2> QED BY <2>2 DEF IsLoop
<1>10. \A i \in 1..m : f[i] = Unindent(indent, f[i - 1], str[i])
  <2>1. \A i \in 1..m : f[i - 1] \in X
    BY <1>5, <1>9 DEF m
  <2> QED BY <1>9, <2>1 DEF step
<1>11. f = [i \in 0..m |-> IF i = 0 THEN base ELSE Unindent(indent, f[i - 1], str[i])]
  BY <1>5, <1>9, <1>10 DEF m
<1>12. acc = [i \in 0..m |-> IF i = 0 THEN base ELSE Unindent(indent, acc[i - 1], str[i])]
  BY <1>11 DEF m
<1> HIDE DEF acc
<1>13. \A i \in 0..m : acc[i] \in X
  <2> DEFINE S == {i \in 0..m : acc[i] \in X}
  <2>1. 0 \in S
    BY <1>5, <1>6, <1>12 DEF m
  <2>2. ASSUME NEW i \in 1..m, i - 1 \in S PROVE i \in S
    <3>1. acc[i - 1] \in X /\ i \in 0..m /\ i # 0
      BY <1>5, <2>2 DEF m
    <3>2. acc[i] = Unindent(indent, acc[i - 1], str[i])
      BY <1>12, <3>1
    <3> QED BY <1>7, <3>1, <3>2
  <2> HIDE DEF S
  <2>3. \A i \in 0..m : i \in S
    BY <1>5, <2>1, <2>2, UpTo DEF m
  <2> QED BY <2>3 DEF S
<1>14. acc[for_iter].result \in Seq(V)
  BY <1>5, <1>13 DEF m, X
<1> QED BY <1>1, <1>14

\* The last quote of a string on several lines.
LEMMA LastQuoteInv ==
  ASSUME NEW l, StringsInv(l), l.state = "m_string_end2", NEW c
  PROVE  StringsInv(m_string_end2(l, c))
<1> DEFINE l1 == Keep(l, c)
           text1 == indentation_perform(l1.read_string.str)
           d == dstring_copy([dstring_init EXCEPT !.str = text1.result],
                             dstring_clear(l1.read_string))
<1>1. StringsInv(l1) /\ l1.state \in PlainStates
  BY KeepInv DEF Keep, StringsInv, PlainStates
<1>2. InMemory(l1.read_string)
  BY <1>1 DEF StringsInv
<1>3. PICK S : text1.result \in Seq(S)
  BY <1>2, IndentationResult DEF InMemory
<1> HIDE DEF text1
<1>4. [dstring_init EXCEPT !.str = text1.result].str = text1.result
  BY DEF dstring_init
<1>5. InMemory(dstring_clear(l1.read_string))
  BY <1>2, ClearFits
<1>6. InMemory(d)
  BY <1>3, <1>4, <1>5, CopyFits
<1> HIDE DEF l1, d
<1>7. StringsInv([l1 EXCEPT !.read_string = d])
  BY <1>1, <1>6, ReadStringInv
<1>8. /\ StringsInv(Goto(l1, "eol_end_q")) /\ StringsInv(Goto(l1, "NULL"))
      /\ StringsInv(Goto(l1, "m_string_inner"))
      /\ StringsInv(Goto([l1 EXCEPT !.read_string = d], "string_end"))
  BY <1>1, <1>7, GotoInv DEF PlainStates
<1>9. m_string_end2(l, c) =
        CASE c = NEWLINE -> Goto(l1, "eol_end_q")
          [] c = QUOTE -> IF ~text1.ok THEN Goto(l1, "NULL")
                          ELSE Goto([l1 EXCEPT !.read_string = d], "string_end")
          [] OTHER -> Goto(l1, "m_string_inner")
  BY DEF m_string_end2, l1, text1, d
<1> QED BY <1>8, <1>9

-----------------------------------------------------------------------------
(* get_token.                                                              *)

\* One pass of the loop of get_token.
LEMMA StepInv ==
  ASSUME NEW l, StringsInv(l), l.state # "NULL", NEW c
  PROVE  StringsInv(Step(l, c))
<1> DEFINE k == [l EXCEPT !.read = c]
<1>1. StringsInv(k) /\ k.state = l.state
  BY FieldsInv DEF StringsInv
<1> HIDE DEF k
<1>2. \/ k.state \in Operators \/ k.state \in NumberStates \/ k.state \in HexaStates
      \/ k.state \in {"start", "s_div", "line_c", "block_c", "block_c_end_q", "block_c_start_q",
            "und_scr", "identifier", "data_type", "string_start", "string_inner",
            "string_escape", "string_end", "empty_string", "eol_start_q", "eol_end_q",
            "m_string_inner", "m_string_escape", "m_string_end1", "m_string_end2"}
  BY <1>1 DEF StringsInv, PlainStates
<1>3. StringsInv(start(k, c)) /\ StringsInv(operator(k, c)) /\ StringsInv(number(k, c))
  BY <1>1, StartInv, OperatorInv, NumberInv
<1>4. /\ StringsInv(s_div(k, c)) /\ StringsInv(line_c(k, c)) /\ StringsInv(block_c(k, c))
      /\ StringsInv(block_c_end_q(k, c)) /\ StringsInv(block_c_start_q(k, c))
  BY <1>1, CommentInv
<1>5. /\ StringsInv(und_scr(k, c)) /\ StringsInv(data_type(k, c))
      /\ k.state = "identifier" => StringsInv(identifier(k, c))
  BY <1>1, WordInv
<1>6. /\ StringsInv(string_inner(k, c)) /\ StringsInv(string_start(k, c))
      /\ StringsInv(string_escape(k, c)) /\ StringsInv(string_end(k, c))
      /\ StringsInv(empty_string(k, c))
  BY <1>1, StringInv
<1>7. /\ StringsInv(eol_start_q(k, c)) /\ StringsInv(eol_end_q(k, c))
      /\ StringsInv(m_string_inner(k, c)) /\ StringsInv(m_string_escape(k, c))
      /\ StringsInv(m_string_end1(k, c))
  BY <1>1, LinesInv
<1>8. k.state = "m_string_end2" => StringsInv(m_string_end2(k, c))
  BY <1>1, LastQuoteInv
<1>9. ASSUME k.state \in HexaStates
      PROVE  /\ StringsInv(string_hexa_q(k, c)) /\ StringsInv(string_hexa(k, c))
             /\ StringsInv(m_string_hexa_q(k, c)) /\ StringsInv(m_string_hexa(k, c))
  <2>1. {"string_inner", "m_string_inner"} \subseteq PlainStates
    BY DEF PlainStates
  <2>2. {"string_hexa", "m_string_hexa"} \subseteq HexaStates
    BY DEF HexaStates
  <2>3. StringsInv(string_hexa_q(k, c)) /\ StringsInv(m_string_hexa_q(k, c))
    BY <1>1, <1>9, <2>1, <2>2, HexaStartInv DEF string_hexa_q, m_string_hexa_q
  <2>4. StringsInv(string_hexa(k, c)) /\ StringsInv(m_string_hexa(k, c))
    BY <1>1, <1>9, <2>1, HexaInv DEF string_hexa, m_string_hexa
  <2> QED BY <2>3, <2>4
<1>10. StringsInv(actual_state(k, c))
  BY <1>2, <1>3, <1>4, <1>5, <1>6, <1>7, <1>8, <1>9 DEF actual_state, HexaStates
<1> QED BY <1>10 DEF Step, k

\* Calls of get_token and the rest of parse() leave the strings where they are.
LEMMA StringsNext == StringsInv(lex) /\ [Next]_vars => StringsInv(lex)'
<1> SUFFICES ASSUME StringsInv(lex), [Next]_vars PROVE StringsInv(lex')
  OBVIOUS
<1>1. CASE lex' = lex
  BY <1>1
<1>2. CASE lex' = Restart(lex)
  BY <1>2, InitFits DEF Restart, StringsInv, PlainStates
<1>3. ASSUME fgetc PROVE StringsInv(lex')
  <2>1. PICK c : lex.state # "NULL" /\ lex' = Step(lex, c)
    BY <1>3 DEF fgetc, Scanning
  <2> QED BY <2>1, StepInv
<1>4. ASSUME TakeUnread PROVE StringsInv(lex')
  <2> DEFINE l == [lex EXCEPT !.unread = NUL]
  <2>1. lex.state # "NULL" /\ lex' = Step(l, lex.unread)
    BY <1>4 DEF TakeUnread, Scanning
  <2>2. StringsInv(l)
    BY FieldsInv
  <2>3. l.state = lex.state
    BY DEF StringsInv
  <2> HIDE DEF l
  <2> QED BY <2>1, <2>2, <2>3, StepInv
<1>5. lex' = lex \/ lex' = Restart(lex) \/ fgetc \/ TakeUnread
  BY DEF Next, Filling, Reading, Freeing, Call, Scan, Fill, LexicalError, FirstToken, skip,
         HeaderError, Reset, prog, Return, Dispose, Pop, OutOfMemory, vars, lexer
<1> QED BY <1>1, <1>2, <1>3, <1>4, <1>5

\* No character of a token is ever written behind the memory of read_string or
\* tmp_string, and no character is taken off an empty string: for every source
\* text, wherever memory runs out, and for every DSTR_ALLOC_SIZE above 1.
THEOREM StringsStayInMemory == Spec => []StringsFit
<1>1. Init => StringsInv(lex)
  BY InitFits DEF Init, Restart, StringsInv, PlainStates
<1>2. StringsInv(lex) => StringsFit
  BY DEF StringsInv, InMemory, StringsFit
<1> QED BY <1>1, <1>2, StringsNext, PTL DEF Spec
=============================================================================
