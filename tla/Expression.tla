----------------------------- MODULE Expression -----------------------------
(***************************************************************************)
(* The precedence parser of expressions (expression.c) with its symbol     *)
(* stack (symstack.c): expr() reads tokens from the token buffer, shifts   *)
(* and reduces by the precedence table, checks the operand types while it  *)
(* reduces, and emits code for a stack machine.                            *)
(*                                                                         *)
(* One pass of the loop of expr() is one action.  The tokens behind the    *)
(* cursor's furthest position are chosen when they are first read, so a    *)
(* behaviour stands for every program that begins with the tokens read.    *)
(***************************************************************************)
EXTENDS Integers, Sequences, FiniteSets

CONSTANTS
  Forms,      \* the forms of input, a sequence of records: tokens, what may stand
              \* at each position (its length bounds the input, behind it the
              \* file ends), and lhs, the type of the variable assigned to or "none"
  MaxDepth    \* bound: symbols on the stack and instructions emitted; the
              \* recovery from an error on a later line may repeat without end

\* A token: its type; preceding_eol; for an identifier what id_is_defined finds
\* in the symbol tables (def, vtype, nilable); for a literal whether it is 0.
\* A token other than a literal has no number in its value; reading one gives
\* zero for the empty token and something else for a string (union of token_T).
Token == [t : {"id", "int", "dbl", "str", "nil", "mul", "div", "add", "sub",
               "??", "eq", "lt", "(", ")", "!", "end", "eof"},
          eol : BOOLEAN, zero : BOOLEAN,
          def : {"initialized", "uninitialized", "undeclared", "none"},
          vtype : {"integer", "double", "string", "undefined"}, nilable : BOOLEAN]

ASSUME ExpressionAssumption ==
  /\ Forms \in Seq([tokens : Seq(SUBSET Token),
                    lhs : {"none", "integer", "double", "string"}])
  /\ MaxDepth \in Nat

VARIABLES
  form,        \* the index in Forms of this behaviour's input
  input,       \* the token buffer, from the first token of the expression
  pos,         \* its runner; 0 is the token before the expression
  cur,         \* p->curr_tok
  stack,       \* symstack_t, the top last
  code,        \* what the code generator was told to emit
  err,         \* error_code_handler's first error
  multiline,   \* is_multiline_expr
  allLiterals, \* is_all_literals
  lhs,         \* type of p->lhs_id, "none" if NULL
  result,      \* p->expr_res
  pc           \* where control is

vars == <<form, input, pos, cur, stack, code, err, multiline, allLiterals, lhs, result, pc>>

EMPTY_TOKEN(eol) ==
  [t |-> "undef", eol |-> eol, zero |-> TRUE, def |-> "none",
   vtype |-> "undefined", nilable |-> FALSE]
EOF == [EMPTY_TOKEN(FALSE) EXCEPT !.t = "eof"]

-----------------------------------------------------------------------------
(* Symbols.                                                                *)

convert_token_to_data(tok) ==
  [tok |-> tok, terminal |-> TRUE, handle |-> FALSE, literal |-> FALSE,
   ident |-> FALSE, type |-> "undefined", nilable |-> FALSE]

\* DEFINE_EXPR_SYMBOL; is_literal and is_identifier are set by who uses it.
ExprSymbol(type, literal) ==
  [convert_token_to_data(EMPTY_TOKEN(FALSE)) EXCEPT
     !.terminal = FALSE, !.type = type, !.literal = literal]

is_literal(tok) == tok.t \in {"int", "dbl", "str", "nil"}
BinaryOperators == {"mul", "div", "add", "sub", "eq", "lt", "??"}
is_operand(tok) == is_literal(tok) \/ tok.t = "id"

convert_to_expr_type(t) ==
  CASE t = "int" -> "integer" [] t = "dbl" -> "double"
    [] t = "str" -> "string"  [] t = "nil" -> "nil" [] OTHER -> "undefined"

-----------------------------------------------------------------------------
(* The precedence table.                                                   *)

\*         * /  + -  ??   i    RO   (    )    !    $
prec_tab ==
  << <<"R", "R", "R", "S", "R", "S", "R", "S", "R">>,   \* * /
     <<"S", "R", "R", "S", "R", "S", "R", "S", "R">>,   \* + -
     <<"S", "S", "S", "S", "S", "S", "R", "S", "R">>,   \* ??
     <<"R", "R", "R", "X", "R", "X", "R", "R", "R">>,   \* i
     <<"S", "S", "R", "S", "E", "S", "R", "S", "R">>,   \* RO
     <<"S", "S", "S", "S", "S", "S", "E", "S", "X">>,   \* (
     <<"R", "R", "R", "X", "R", "X", "R", "X", "R">>,   \* )
     <<"R", "R", "R", "R", "R", "R", "R", "R", "R">>,   \* !
     <<"S", "S", "S", "S", "S", "S", "X", "S", "R">> >> \* $

INDEX_DOLLAR == 9

convert_token_to_index(tok) ==
  CASE tok.t \in {"mul", "div"} -> 1
    [] tok.t \in {"add", "sub"} -> 2
    [] tok.t = "??" -> 3
    [] is_operand(tok) -> 4
    [] tok.t \in {"eq", "lt"} -> 5
    [] tok.t = "(" -> 6
    [] tok.t = ")" -> 7
    [] tok.t = "!" -> 8
    [] OTHER -> INDEX_DOLLAR

Terminals(stk) == {i \in 1..Len(stk) : stk[i].terminal}
get_closest_terminal(stk) ==
  CHOOSE i \in Terminals(stk) : \A j \in Terminals(stk) : j <= i

get_prec_table_operation(stk, tok) ==
  prec_tab[convert_token_to_index(stk[get_closest_terminal(stk)].tok)]
          [convert_token_to_index(tok)]

\* The loop of expr() ends when $ meets $.
AtDollar(stk, tok) ==
  /\ convert_token_to_index(stk[get_closest_terminal(stk)].tok) = INDEX_DOLLAR
  /\ convert_token_to_index(tok) = INDEX_DOLLAR

-----------------------------------------------------------------------------
(* Semantic checks.  An outcome is the symbol that replaces the reduced    *)
(* ones, the instructions emitted and the first error reported.            *)

Outcome(sym, instrs, e) == [sym |-> sym, code |-> instrs, err |-> e]

FirstError(e, f) == IF e = "none" THEN f ELSE e   \* error_code_handler

compare_types_strict(a, b) == a.type = b.type /\ a.nilable = b.nilable

Retypeable(a) == a.type \in {"integer", "double"} /\ ~a.nilable

\* Bug: the operand on the stack is left an int when its symbol is retyped.
NoInt2Double(a, b) ==
  IF Retypeable(a) /\ Retypeable(b)
  THEN [a |-> [a EXCEPT !.type = "double"], b |-> [b EXCEPT !.type = "double"],
        code |-> <<>>, err |-> "none"]
  ELSE [a |-> a, b |-> b, code |-> <<>>, err |-> "TYPE"]

\* An int literal next to a double becomes a double, on the machine's stack
\* (depth 0 is its top) and in the symbol.
convert_if_retypeable(a, b) ==
  LET failed == [a |-> a, b |-> b, code |-> <<>>, err |-> "TYPE"]
  IN CASE ~(Retypeable(a) /\ Retypeable(b)) -> failed
       [] a.literal /\ a.type = "integer" ->
            [a |-> [a EXCEPT !.type = "double"], b |-> b,
             code |-> << <<"int2double", 1>> >>, err |-> "none"]
       [] b.literal /\ b.type = "integer" ->
            [a |-> a, b |-> [b EXCEPT !.type = "double"],
             code |-> << <<"int2double", 0>> >>, err |-> "none"]
       [] OTHER -> failed

NoConversion(a, b) == [a |-> a, b |-> b, code |-> <<>>, err |-> "none"]

\* What id_is_defined reports.
LookupError(tok) == IF tok.def = "initialized" THEN "none" ELSE "UNDEFINED"

\* Bug: the type of a variable is taken over without its nilability.
PlainSymbol(tok) ==
  [ExprSymbol(IF tok.t = "id" /\ tok.def # "undeclared" THEN tok.vtype
              ELSE convert_to_expr_type(tok.t), is_literal(tok)) EXCEPT
     !.tok = tok, !.ident = (tok.t = "id")]

\* The symbol of an operand: a variable has the type that was found for it.
OperandSymbol(tok) ==
  LET found == tok.t = "id" /\ tok.def # "undeclared"
  IN [ExprSymbol(IF found THEN tok.vtype ELSE convert_to_expr_type(tok.t), is_literal(tok)) EXCEPT
        !.tok = tok, !.ident = (tok.t = "id"), !.nilable = found /\ tok.nilable]

process_operand(s) ==
  IF ~s.terminal THEN Outcome(s, <<>>, "none")
  ELSE Outcome(OperandSymbol(s.tok), << <<"push", s.tok>> >>,
               IF s.tok.t = "id" THEN LookupError(s.tok) ELSE "none")

\* A symbol that is not a literal or an identifier has the empty token, whose
\* value reads as 0.
process_division(a, b) ==
  LET type == IF a.type = "integer" THEN "integer" ELSE "double"
      sym == ExprSymbol(type, a.literal /\ b.literal)
  IN CASE ~compare_types_strict(a, b) -> Outcome(sym, <<>>, "TYPE")
       [] b.type \in {"integer", "double"} /\ b.tok.zero -> Outcome(sym, <<>>, "SEMANTIC")
       [] OTHER -> Outcome(sym, << <<IF type = "integer" THEN "idiv" ELSE "div">> >>, "none")

process_concatenation(a, op, b) ==
  LET sym == ExprSymbol("string", a.literal)
  IN IF op = "add" /\ compare_types_strict(a, b)
     THEN Outcome(sym, << <<"concat">> >>, "none")
     ELSE Outcome(sym, <<>>, "TYPE")

\* The part of process_arithmetic_operation behind the conversion of c.a and c.b.
ArithmeticOf(arr, op, c) ==
  LET a == c.a
      b == c.b
      undef == ExprSymbol("undefined", arr[1].literal /\ arr[3].literal)
      same == compare_types_strict(a, b)
      type == CASE a.type = "double" \/ b.type = "double" -> "double"
                [] a.type = "integer" /\ same -> "integer"
                [] OTHER -> "undefined"
  IN CASE ~a.literal /\ ~b.literal /\ ~same -> Outcome(undef, <<>>, "TYPE")
       [] a.nilable \/ b.nilable -> Outcome(undef, <<>>, "TYPE")
       [] a.type = "string" \/ b.type = "string" -> process_concatenation(arr[1], op, arr[3])
       [] op = "div" -> process_division(a, b)
       [] same /\ a.type \notin {"integer", "double"} -> Outcome(undef, <<>>, "TYPE")
       [] OTHER -> Outcome([undef EXCEPT !.type = type], << <<op>> >>, "none")

process_arithmetic_operation(arr) ==
  LET c == IF /\ ~compare_types_strict(arr[1], arr[3])
              /\ arr[1].literal \/ arr[3].literal
           THEN convert_if_retypeable(arr[1], arr[3])
           ELSE NoConversion(arr[1], arr[3])
      r == ArithmeticOf(arr, arr[2].tok.t, c)
  IN Outcome(r.sym, c.code \o r.code, FirstError(c.err, r.err))

\* == and <
Comparison(arr) ==
  LET a == arr[1]
      b == arr[3]
      sym == ExprSymbol("bool", a.literal /\ b.literal)
      failed == Outcome(sym, <<>>, "TYPE")
      c == IF a.type # "nil" /\ b.type # "nil" /\ ~compare_types_strict(a, b)
           THEN convert_if_retypeable(a, b) ELSE NoConversion(a, b)
  IN CASE a.type = "nil" /\ ~b.nilable -> failed
       [] a.type # "nil" /\ b.type = "nil" /\ ~a.nilable -> failed
       [] a.type # "nil" /\ b.type # "nil" /\ ~compare_types_strict(a, b)
            /\ ~a.literal /\ ~b.literal -> failed
       [] OTHER -> Outcome(sym, c.code \o << <<arr[2].tok.t>> >>, c.err)

\* ??
NilCheck(arr) ==
  LET a == arr[1]
      b == arr[3]
      bool == ExprSymbol("bool", a.literal /\ b.literal)
      differ == a.type # "nil" /\ a.type # b.type
      retype == b.literal /\ a.type = "double" /\ b.type = "integer"
      instrs == IF differ THEN << <<"int2double", 0>> >> ELSE <<>>
  IN CASE differ /\ ~retype -> Outcome(bool, <<>>, "TYPE")
       [] a.type # "nil" /\ (~a.nilable \/ b.nilable) -> Outcome(bool, instrs, "TYPE")
       [] OTHER -> Outcome([bool EXCEPT !.type = IF a.type = "nil" THEN b.type ELSE a.type],
                           Append(instrs, <<"nilcheck">>), "none")

process_relational_operation(arr) ==
  IF arr[2].tok.t = "??" THEN NilCheck(arr) ELSE Comparison(arr)

process_parenthesis(arr) == Outcome(ExprSymbol(arr[2].type, arr[2].literal), <<>>, "none")

\* E!: is_literal and is_identifier of the result are never set.
UnwrapOutcomes(e) ==
  {Outcome([ExprSymbol(IF e.nilable THEN e.type ELSE "undefined", lit) EXCEPT
              !.tok = e.tok, !.ident = id],
           <<>>, IF e.ident /\ e.nilable THEN "none" ELSE "TYPE")
     : lit \in BOOLEAN, id \in BOOLEAN}

-----------------------------------------------------------------------------
(* Reductions.                                                             *)

MAX_EXPR_SIZE == 3

\* symbol_arr_move_expr_to_arr stops at a handle, at the bottom of the stack
\* and after MAX_EXPR_SIZE symbols; where it stops the handle is removed.
HandleSize(stk) ==
  LET Ends(k) == \/ k = MAX_EXPR_SIZE
                 \/ k = Len(stk) - 1
                 \/ stk[Len(stk) - k].handle
  IN CHOOSE k \in 0..MAX_EXPR_SIZE : Ends(k) /\ \A j \in 0..(k - 1) : ~Ends(j)

Handle(stk) == SubSeq(stk, Len(stk) - HandleSize(stk) + 1, Len(stk))
BelowHandle(stk) ==
  LET n == Len(stk) - HandleSize(stk)
  IN [SubSeq(stk, 1, n) EXCEPT ![n].handle = FALSE]

\* Bug: the rule for two symbols does not look at the operator.
RuleOfAnyPostfix(arr) ==
  CASE Len(arr) = 1 /\ is_operand(arr[1].tok) -> "operand"
    [] Len(arr) = 2 /\ ~arr[1].terminal -> "unwrap"
    [] Len(arr) = 3 /\ ~arr[1].terminal /\ ~arr[3].terminal ->
         CASE arr[2].tok.t \in {"mul", "div", "add", "sub"} -> "arithmetic"
           [] arr[2].tok.t \in {"eq", "lt", "??"} -> "relational"
           [] OTHER -> "none"
    [] Len(arr) = 3 /\ (arr[1].terminal \/ arr[3].terminal)
         /\ arr[1].tok.t = "(" /\ arr[3].tok.t = ")" -> "parenthesis"
    [] OTHER -> "none"

get_rule(arr) ==
  CASE Len(arr) = 1 /\ is_operand(arr[1].tok) -> "operand"
    [] Len(arr) = 2 /\ ~arr[1].terminal /\ arr[2].tok.t = "!" -> "unwrap"
    [] Len(arr) = 3 /\ ~arr[1].terminal /\ ~arr[3].terminal ->
         CASE arr[2].tok.t \in {"mul", "div", "add", "sub"} -> "arithmetic"
           [] arr[2].tok.t \in {"eq", "lt", "??"} -> "relational"
           [] OTHER -> "none"
    [] Len(arr) = 3 /\ (arr[1].terminal \/ arr[3].terminal)
         /\ arr[1].tok.t = "(" /\ arr[3].tok.t = ")" -> "parenthesis"
    [] OTHER -> "none"

\* push_reduced_symbol_on_stack
Outcomes(arr) ==
  CASE get_rule(arr) = "operand" -> {process_operand(arr[1])}
    [] get_rule(arr) = "unwrap" -> UnwrapOutcomes(arr[1])
    [] get_rule(arr) = "arithmetic" -> {process_arithmetic_operation(arr)}
    [] get_rule(arr) = "relational" -> {process_relational_operation(arr)}
    [] get_rule(arr) = "parenthesis" -> {process_parenthesis(arr)}
    [] OTHER -> {}

find_closest_eol(stk) == \E i \in 1..Len(stk) : stk[i].tok.eol

\* reduce_to_eol pops down to the closest symbol that begins a line.
ToEol(stk) ==
  LET lines == {i \in 1..Len(stk) : stk[i].tok.eol}
  IN SubSeq(stk, 1, CHOOSE i \in lines : \A j \in lines : j <= i)

\* reduce_error: the error it reports, if any, and the symbol it leaves, whose
\* two flags are never set.  It looks at the second symbol even where there is
\* none.
SecondOperand(arr) == Len(arr) > 1 /\ is_operand(arr[2].tok)

ReportedErrors(arr) ==
  CASE arr = <<>> -> {"none"}
    [] Len(arr) = 1 /\ is_operand(arr[1].tok) -> {"none", "SYNTAX"}
    [] Len(arr) > 1 /\ is_operand(arr[1].tok) ->
         {IF SecondOperand(arr) \/ arr[2].tok.t \in {"(", ")"} \union BinaryOperators
          THEN "SYNTAX" ELSE "none"}
    [] OTHER -> {"SYNTAX"}

ErrorSymbols(arr) ==
  LET t == CASE arr # <<>> /\ (is_operand(arr[1].tok) \/ arr[1].tok.t = "(")
                  /\ SecondOperand(arr) -> arr[2].tok.t
             [] arr # <<>> /\ is_operand(arr[1].tok) /\ ~SecondOperand(arr) -> arr[1].tok.t
             [] OTHER -> "undef"
  IN {[ExprSymbol("undefined", lit) EXCEPT !.tok.t = t, !.ident = id]
        : lit \in BOOLEAN, id \in BOOLEAN}

-----------------------------------------------------------------------------
(* The actions.                                                            *)

Tokens == Forms[form].tokens

\* What the buffer holds at position i; a position not read before may hold
\* any token, the last one is the end of the file.  Position 0 holds = or a
\* keyword, the positions before it what was read before the expression.
TokenAt(i) ==
  IF i = 0 THEN {[EOF EXCEPT !.t = "end"]}
  ELSE IF i < 0 THEN UNION {Tokens[j] : j \in DOMAIN Tokens}
  ELSE IF i <= Len(input) THEN {input[i]}
  ELSE IF i > Len(Tokens) THEN {EOF} ELSE Tokens[i] \union {EOF}

\* Bug: the end of the file is not the last token.
ReadBehindEof(from) ==
  \E tok \in TokenAt(from + 1) :
    /\ pos' = from + 1
    /\ cur' = tok
    /\ input' = IF from + 1 > Len(input) THEN Append(input, tok) ELSE input

\* GET_TOKEN: the runner stays on the last token of the file.
GET_TOKEN(from) ==
  LET next == IF from >= 1 /\ from <= Len(input) /\ input[from].t = "eof"
              THEN from ELSE from + 1
  IN \E tok \in TokenAt(next) :
       /\ pos' = next
       /\ cur' = tok
       /\ input' = IF next > Len(input) THEN Append(input, tok) ELSE input

\* The bottom of the stack; its preceding_eol is never set.
push_initial_sym == {convert_token_to_data(EMPTY_TOKEN(eol)) : eol \in BOOLEAN}

Init ==
  /\ input = <<>> /\ pos = 0 /\ cur = EMPTY_TOKEN(FALSE)
  /\ stack = <<>> /\ code = <<>> /\ err = "none"
  /\ multiline = FALSE /\ allLiterals = TRUE
  /\ form \in DOMAIN Forms
  /\ lhs = Forms[form].lhs
  /\ result = [type |-> "undefined", nilable |-> FALSE]
  /\ pc = "start"

Start ==
  /\ pc = "start"
  /\ \E bottom \in push_initial_sym : stack' = <<bottom>>
  /\ GET_TOKEN(0)
  /\ pc' = "loop"
  /\ UNCHANGED <<code, err, multiline, allLiterals, lhs, form, result>>

\* The test at the end of the loop.
EndOfPass == pc' = IF AtDollar(stack', cur') THEN "end" ELSE "loop"

equal_shift ==
  /\ pc = "loop"
  /\ get_prec_table_operation(stack, cur) = "E"
  /\ stack' = Append(stack, convert_token_to_data(cur))
  /\ GET_TOKEN(pos)
  /\ EndOfPass
  /\ UNCHANGED <<code, err, multiline, allLiterals, lhs, form, result>>

shift ==
  /\ pc = "loop"
  /\ get_prec_table_operation(stack, cur) = "S"
  /\ stack' = Append([stack EXCEPT ![get_closest_terminal(stack)].handle = TRUE],
                     convert_token_to_data(cur))
  /\ GET_TOKEN(pos)
  /\ EndOfPass
  /\ UNCHANGED <<code, err, multiline, allLiterals, lhs, form, result>>

\* reduce() with a rule.
Reduce ==
  /\ pc = "loop"
  /\ get_prec_table_operation(stack, cur) = "R"
  /\ \E o \in Outcomes(Handle(stack)) :
       /\ stack' = Append(BelowHandle(stack), o.sym)
       /\ code' = code \o o.code
       /\ err' = FirstError(err, o.err)
  /\ allLiterals' = (allLiterals /\ ~(/\ get_rule(Handle(stack)) = "operand"
                                      /\ Handle(stack)[1].terminal
                                      /\ Handle(stack)[1].tok.t = "id"))
  /\ UNCHANGED <<input, pos, cur, multiline, lhs, form, result>>
  /\ EndOfPass

\* reduce() without a rule, and no line began below the handle: an error.  A
\* handle that is not empty is then freed twice, which ends the program.
ReduceError ==
  /\ pc = "loop"
  /\ get_prec_table_operation(stack, cur) = "R"
  /\ get_rule(Handle(stack)) = "none"
  /\ ~find_closest_eol(BelowHandle(stack))
  /\ \E sym \in ErrorSymbols(Handle(stack)) : stack' = Append(BelowHandle(stack), sym)
  /\ err' = FirstError(err, "SYNTAX")
  /\ UNCHANGED <<input, pos, cur, code, multiline, allLiterals, lhs, form, result>>
  /\ IF Handle(stack) = <<>> THEN EndOfPass ELSE pc' = "aborted"

\* reduce() without a rule where a line began: the expression ended there.
ReduceToEol ==
  /\ pc = "loop"
  /\ get_prec_table_operation(stack, cur) = "R"
  /\ get_rule(Handle(stack)) = "none"
  /\ find_closest_eol(BelowHandle(stack))
  /\ stack' = ToEol(BelowHandle(stack))
  /\ pos' = pos - (Len(BelowHandle(stack)) - Len(stack')) - 1
  /\ cur' = EMPTY_TOKEN(cur.eol)
  /\ multiline' = TRUE
  /\ EndOfPass
  /\ UNCHANGED <<input, code, err, allLiterals, lhs, form, result>>

\* Bug: the runner is left behind the token that begins the line.
KeepRunner ==
  /\ pc = "loop"
  /\ get_prec_table_operation(stack, cur) = "X"
  /\ LET stk == Append(stack, convert_token_to_data(cur))
     IN /\ find_closest_eol(stk)
        /\ stack' = SubSeq(stk, 1, Len(ToEol(stk)) - 1)
        /\ pos' = pos - (Len(stk) - Len(ToEol(stk)))
  /\ cur' = EMPTY_TOKEN(FALSE)
  /\ multiline' = TRUE
  /\ IF Terminals(stack') = {} THEN pc' = "crashed" ELSE EndOfPass
  /\ UNCHANGED <<input, code, err, allLiterals, lhs, form, result>>

\* Case X of expr() where a line began: the expression ended before it.
ErrorAtEol ==
  /\ pc = "loop"
  /\ get_prec_table_operation(stack, cur) = "X"
  /\ LET stk == Append(stack, convert_token_to_data(cur))
     IN /\ find_closest_eol(stk)
        /\ stack' = SubSeq(stk, 1, Len(ToEol(stk)) - 1)
        /\ pos' = pos - (Len(stk) - Len(ToEol(stk))) - 1
  /\ cur' = EMPTY_TOKEN(FALSE)
  /\ multiline' = TRUE
  /\ IF Terminals(stack') = {} THEN pc' = "crashed" ELSE EndOfPass
  /\ UNCHANGED <<input, code, err, allLiterals, lhs, form, result>>

\* Bug: the token in error is not skipped.
NoSkip ==
  /\ pc = "loop"
  /\ get_prec_table_operation(stack, cur) = "X"
  /\ LET stk == Append(stack, convert_token_to_data(cur))
     IN /\ ~find_closest_eol(stk)
        /\ \E sym \in ErrorSymbols(Handle(stk)) : stack' = Append(BelowHandle(stk), sym)
        /\ \E e \in ReportedErrors(Handle(stk)) : err' = FirstError(err, e)
  /\ UNCHANGED <<input, pos, cur, code, multiline, allLiterals, lhs, form, result>>
  /\ EndOfPass

\* Case X of expr() otherwise: expr_error replaces the handle by an error.
expr_error ==
  /\ pc = "loop"
  /\ get_prec_table_operation(stack, cur) = "X"
  /\ LET stk == Append(stack, convert_token_to_data(cur))
     IN /\ ~find_closest_eol(stk)
        /\ \E sym \in ErrorSymbols(Handle(stk)) : stack' = Append(BelowHandle(stk), sym)
        /\ \E e \in ReportedErrors(Handle(stk)) : err' = FirstError(err, e)
  /\ GET_TOKEN(pos)
  /\ EndOfPass
  /\ UNCHANGED <<code, multiline, allLiterals, lhs, form, result>>

\* verify_lhs_type: an expression of int literals assigned to a double.
Retyped(sym) == lhs = "double" /\ allLiterals /\ sym.type = "integer"

\* The rest of expr().  symstack_pop of the only symbol is a missing expression.
Finish ==
  /\ pc = "end"
  /\ LET final == stack[Len(stack)]
     IN /\ err' = IF Len(stack) = 1 THEN FirstError(err, "SYNTAX") ELSE err
        /\ code' = IF Retyped(final) THEN Append(code, <<"int2double", 0>>) ELSE code
        /\ result' = [type |-> IF Retyped(final) THEN "double" ELSE final.type,
                      nilable |-> final.nilable]
  /\ stack' = SubSeq(stack, 1, Len(stack) - 1)
  /\ IF multiline THEN GET_TOKEN(pos) ELSE UNCHANGED <<input, pos, cur>>
  /\ multiline' = FALSE
  /\ allLiterals' = TRUE
  /\ pc' = "done"
  /\ UNCHANGED <<form, lhs>>

WithinBound == Len(stack) <= MaxDepth /\ Len(code) <= MaxDepth

Next ==
  /\ WithinBound
  /\ \/ Start \/ equal_shift \/ shift
     \/ Reduce \/ ReduceError \/ ReduceToEol
     \/ ErrorAtEol \/ expr_error
     \/ Finish

\* expr() is sequential code: it keeps running until it returns.
Spec == Init /\ [][Next]_vars /\ WF_vars(Next)
=============================================================================
