------------------------------ MODULE Frontend ------------------------------
(***************************************************************************)
(* From the source text to the parser: the lexical analyzer fills the      *)
(* token buffer (parser_fill_buffer), which parse() reads twice, once for  *)
(* the function headers and once for everything else, and then frees.      *)
(* Of the parser it keeps how it moves the runner of the buffer.           *)
(***************************************************************************)
EXTENDS Lexer

CONSTANT Faults  \* the alternatives of Texts in which memory may run out

VARIABLES
  head, runner, nodes, allocated,  \* the token buffer
  phase,  \* where parse() is
  res,    \* what it returns
  lost    \* a token was not buffered; at most one allocation of a node fails

buffer == <<head, runner, nodes, allocated>>
lexer == <<task, text, lex>>
vars == <<lexer, buffer, phase, res, lost>>

TokenType ==
  {"UNDEFINED", "EOF", "UND_SCR", "DIV", "IDENTIFIER", "INT", "DBL", "STRING"}
    \union {Simple[s] : s \in DOMAIN Simple}
    \union {keywords[w] : w \in DOMAIN keywords} \union {data_types[w] : w \in DOMAIN data_types}

Buffer == INSTANCE TokenBuffer WITH
  Tokens <- [type : TokenType, preceding_eol : BOOLEAN, value : Seq(Int)]

Init ==
  /\ task \in DOMAIN Texts
  /\ text = <<>>
  /\ lex = Restart([unread |-> NUL, open_comments |-> 0, hexa_string |-> 0])
  /\ Buffer!Init
  /\ phase = "call" /\ res = "none" /\ lost = FALSE

\* A step of parse() returns an error; parser_dispose frees the buffer.
Fail(e) == phase' = "dispose" /\ res' = e

-----------------------------------------------------------------------------
(* parser_fill_buffer.                                                     *)

\* get_token is called; the strings it works with may not be had.
Call ==
  /\ phase = "call"
  /\ \/ lex' = Restart(lex) /\ phase' = "scan" /\ UNCHANGED res
     \/ task \in Faults /\ Fail("INTERNAL") /\ UNCHANGED lex
  /\ UNCHANGED <<task, text, buffer, lost>>

\* One pass of its loop.
Scan ==
  /\ phase = "scan"
  /\ \/ (fgetc \/ TakeUnread) /\ UNCHANGED <<phase, res>>
     \/ task \in Faults /\ OutOfMemory /\ Fail("INTERNAL")
  /\ UNCHANGED <<buffer, lost>>

\* It returns a token, which is pushed; that tb_push may fail is not looked at.
Fill ==
  /\ phase = "scan" /\ ~Scanning /\ lex.is_final
  /\ \/ Buffer!tb_push(lex.token) /\ UNCHANGED lost
     \/ task \in Faults /\ ~lost /\ Buffer!tb_push_fails /\ lost' = TRUE
  /\ phase' = IF lex.token.type = "EOF" THEN "filled" ELSE "call"
  /\ UNCHANGED <<lexer, res>>

LexicalError ==
  /\ phase = "scan" /\ ~Scanning /\ ~lex.is_final
  /\ Fail("LEXICAL")
  /\ UNCHANGED <<lexer, buffer, lost>>

-----------------------------------------------------------------------------
(* The two passes.                                                         *)

\* The runner goes to the head; parser_get_func_decls needs a token.
FirstToken ==
  /\ phase = "filled"
  /\ Buffer!Rewind
  /\ IF Buffer!tb_peek THEN phase' = "first" /\ UNCHANGED res ELSE Fail("INTERNAL")
  /\ UNCHANGED <<lexer, lost>>

\* skip and func_header read on to the end of the file.
skip ==
  /\ phase = "first" /\ Buffer!tb_get_token.type # "EOF"
  /\ Buffer!tb_next
  /\ UNCHANGED <<lexer, phase, res, lost>>

\* func_header meets an error.
HeaderError ==
  /\ phase = "first"
  /\ \E a \in DOMAIN nodes : a <= runner /\ nodes[a].token.type = "FUNC"
  /\ Fail("SYNTAX")
  /\ UNCHANGED <<lexer, buffer, lost>>

\* The runner goes back to the head for the second pass.
Reset ==
  /\ phase = "first" /\ Buffer!tb_get_token.type = "EOF"
  /\ Buffer!Rewind
  /\ phase' = "second"
  /\ UNCHANGED <<lexer, res, lost>>

\* GET_TOKEN, and where a rule has read too far, tb_prev.
prog ==
  /\ phase = "second"
  /\ Buffer!tb_next \/ Buffer!tb_prev
  /\ UNCHANGED <<lexer, phase, res, lost>>

\* prog returns, with an error or without one.
Return ==
  /\ phase = "second"
  /\ \E e \in {"none", "SYNTAX"} : Fail(e)
  /\ UNCHANGED <<lexer, buffer, lost>>

\* tb_dispose
Dispose ==
  /\ phase = "dispose"
  /\ Buffer!Rewind
  /\ phase' = "pop"
  /\ UNCHANGED <<lexer, res, lost>>

Pop ==
  /\ phase = "pop"
  /\ IF Buffer!tb_peek THEN Buffer!tb_pop /\ UNCHANGED phase
     ELSE phase' = "ended" /\ UNCHANGED buffer
  /\ UNCHANGED <<lexer, res, lost>>

Filling == Call \/ Scan \/ Fill \/ LexicalError
Reading == FirstToken \/ skip \/ HeaderError \/ Reset
Freeing == Dispose \/ Pop

Next == Filling \/ Reading \/ prog \/ Return \/ Freeing

\* The program runs on by itself; how often the second pass goes back and forth
\* is the parser's affair.
Spec == Init /\ [][Next]_vars /\ WF_vars(Filling) /\ WF_vars(Reading) /\ WF_vars(Freeing)
=============================================================================
