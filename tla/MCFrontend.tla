----------------------------- MODULE MCFrontend -----------------------------
(* Instances of Frontend. *)
EXTENDS LexerProps

Set(chars) == {Code[chars[i]] : i \in 1..Len(chars)}
Times(n, set) == [i \in 1..n |-> set]
Word(chars) == [i \in 1..Len(chars) |-> {Code[chars[i]]}]

Break == {NEWLINE}
Blank == {SPACE}

AnyText == << Set(Printable), Set(<<"=", "a", "1", "?">>) \union Break >>
OperatorText == Times(4, Set(<<"=", "?", ">", "<", "!", "-">>) \union Break)
CommentText == Times(5, Set(<<"/", "*", "a">>) \union Break)
BlockText == Word(<<"/", "*">>) \o Times(6, Set(<<"/", "*">>) \union Break) \o <<Set(<<"/", "a">>)>>
NumberText ==
  << Set(<<"1", "0">>) >> \o Times(4, Set(<<"2", "0", ".", "e", "-", "a">>)) \o <<Set(<<"0", "-">>)>>
WordText == Times(2, Set(<<"_", "x", "1">>) \union Break)
Ending == Times(1, Set(<<"?", "_", "a">>) \union Blank \union Break)
          \o Times(1, Set(<<"?", "=">>))
Words ==
  << <<"e", "l", "s", "e">>, <<"f", "u", "n", "c">>, <<"i", "f">>, <<"l", "e", "t">>,
     <<"n", "i", "l">>, <<"r", "e", "t", "u", "r", "n">>, <<"v", "a", "r">>,
     <<"w", "h", "i", "l", "e">>, <<"D", "o", "u", "b", "l", "e">>, <<"I", "n", "t">>,
     <<"S", "t", "r", "i", "n", "g">> >>
WordTexts == [i \in 1..Len(Words) |-> <<Break \union Blank>> \o Word(Words[i]) \o Ending]
StringText ==
  Word(<<"\"">>) \o Times(4, Set(<<"a", "\\", "\"", "n", "u">>) \union Break) \o Times(1, Set(<<"\"">>))
HexaText ==
  Word(<<"\"", "\\", "u", "{">>) \o Times(9, Set(<<"4", "}">>)) \o Times(1, Set(<<"\"">>))
ByteText ==
  Word(<<"\"", "\\", "u">>) \o <<Set(<<"{", "x">>)>> \o Times(3, Set(<<"8", "F", "c", "}", "g">>))
  \o Times(2, Set(<<"\"", "}">>))
Quotes == Word(<<"\"", "\"", "\"">>)
MultiText ==
  Quotes \o <<Break \union Blank>> \o Times(4, Set(<<"a", "\"", "\\">>) \union Break \union Blank)
  \o <<Break>> \o <<Blank \union Set(<<"\"">>)>> \o Quotes
IndentText ==
  Quotes \o <<Break>> \o Times(6, Set(<<"a">>) \union Break \union Blank) \o <<Break>>
  \o <<Blank>> \o <<Blank \union {TAB} \union Set(<<"\"">>)>> \o Quotes

Sources ==
  << AnyText, OperatorText, CommentText, BlockText, NumberText, WordText, StringText, HexaText, ByteText,
     MultiText, IndentText >> \o WordTexts

MemoryFaults == {1, 3, 6, 7, 11}
=============================================================================
