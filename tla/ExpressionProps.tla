--------------------------- MODULE ExpressionProps ---------------------------
(***************************************************************************)
(* What expr() should do: a grammar of expressions by splitting at the     *)
(* operator that binds least, the machine that runs the emitted code, and  *)
(* the properties that compare the parser with them.                       *)
(***************************************************************************)
EXTENDS Expression, SequencesExt

(* The reference grammar.                                                  *)

Level(t) == CASE t = "??" -> 1 [] t \in {"eq", "lt"} -> 2
              [] t \in {"add", "sub"} -> 3 [] OTHER -> 4

Count(s, t) == Cardinality({i \in 1..Len(s) : s[i].t = t})
Outside(s, p) ==  \* not within parentheses
  Count(SubSeq(s, 1, p), "(") = Count(SubSeq(s, 1, p), ")")

Splits(s) == {p \in 2..(Len(s) - 1) : s[p].t \in BinaryOperators /\ Outside(s, p)}
LowestSplits(s) ==
  {p \in Splits(s) : \A q \in Splits(s) : Level(s[p].t) <= Level(s[q].t)}

\* ?? and comparisons group to the right, arithmetic to the left.
SplitAt(s) ==
  LET right == \E p \in LowestSplits(s) : Level(s[p].t) <= 2
  IN CHOOSE p \in LowestSplits(s) :
       \A q \in LowestSplits(s) : IF right THEN p <= q ELSE q <= p

\* The postfix form of s in a singleton; empty if s is no expression.
RECURSIVE Postfix(_)
Postfix(s) ==
  CASE Len(s) = 0 -> {}
    [] Len(s) = 1 -> IF is_operand(s[1]) THEN { << <<"push", s[1]>> >> } ELSE {}
    [] Splits(s) # {} ->
         {l \o r \o << <<s[SplitAt(s)].t>> >> :
            l \in Postfix(SubSeq(s, 1, SplitAt(s) - 1)),
            r \in Postfix(SubSeq(s, SplitAt(s) + 1, Len(s)))}
    [] Splits(s) = {} /\ s[Len(s)].t = "!" ->
         IF \A i \in 1..(Len(s) - 1) : s[i].t # "(" THEN Postfix(Front(s)) ELSE {}
    [] Splits(s) = {} /\ s[1].t = "(" /\ s[Len(s)].t = ")" -> Postfix(Tail(Front(s)))
    [] OTHER -> {}

Before(i) == SubSeq(input, 1, i - 1)

\* The tokens from i on may stand behind an expression: one that no expression
\* contains, or the assignment or call that begins on the next line.
CanFollow(i) ==
  \/ input[i].t \in {"end", "eof"}
  \/ /\ input[i].t = "id" /\ input[i].eol
     /\ i < Len(input) => input[i + 1].t \in {"end", "("}

\* The emitted code without its conversions, in the operators of the source.
Operator(instr) ==
  CASE instr[1] \in {"idiv", "div"} -> <<"div">>
    [] instr[1] = "concat" -> <<"add">>
    [] instr[1] = "nilcheck" -> <<"??">>
    [] OTHER -> instr
Operators == LET Emits(instr) == instr[1] # "int2double"
             IN [i \in 1..Len(SelectSeq(code, Emits)) |-> Operator(SelectSeq(code, Emits)[i])]

-----------------------------------------------------------------------------
(* The machine: a stack of types.  A nilable variable holds a value of its *)
(* type or nil; ! stands behind one that holds a value.                    *)

Pushes(i) == Cardinality({j \in 1..i : code[j][1] = "push"})
OperandsUpTo(i) == Cardinality({j \in 1..i : is_operand(input[j])})

\* The token ! stands behind the k-th operand of the input.
Unwrapped(k) ==
  \E i \in 1..(Len(input) - 1) :
    is_operand(input[i]) /\ OperandsUpTo(i) = k /\ input[i + 1].t = "!"

\* The types of the value that the instruction at i may push.
PushedTypes(i) ==
  LET tok == code[i][2]
  IN IF tok.t # "id" THEN {convert_to_expr_type(tok.t)}
     ELSE {tok.vtype} \union (IF tok.nilable /\ ~Unwrapped(Pushes(i)) THEN {"nil"} ELSE {})

Fault == <<"fault">>
Binop(m, typeOf(_, _)) ==
  IF Len(m) < 2 THEN Fault
  ELSE LET r == typeOf(m[Len(m) - 1], m[Len(m)])
       IN IF r = "fault" THEN Fault ELSE Append(SubSeq(m, 1, Len(m) - 2), r)

\* The stacks after the instruction at i has run on m.
Execute(i, m) ==
  LET instr == code[i]
      Numeric(a, b) == IF a = b /\ a \in {"integer", "double"} THEN a ELSE "fault"
      Only(t, a, b) == IF a = t /\ b = t THEN t ELSE "fault"
      Idiv(a, b) == Only("integer", a, b)
      Div(a, b) == Only("double", a, b)
      Concat(a, b) == Only("string", a, b)
      Eq(a, b) == IF a = b \/ a = "nil" \/ b = "nil" THEN "bool" ELSE "fault"
      Lt(a, b) == IF a = b /\ a \notin {"nil", "bool"} THEN "bool" ELSE "fault"
      Coalesce(a, b) == IF a = "nil" THEN b ELSE a
      at == Len(m) - instr[2]
  IN CASE m = Fault -> {Fault}
       [] instr[1] = "push" -> {Append(m, t) : t \in PushedTypes(i)}
       [] instr[1] \in {"add", "sub", "mul"} -> {Binop(m, Numeric)}
       [] instr[1] = "idiv" -> {Binop(m, Idiv)}
       [] instr[1] = "div" -> {Binop(m, Div)}
       [] instr[1] = "concat" -> {Binop(m, Concat)}
       [] instr[1] = "eq" -> {Binop(m, Eq)}
       [] instr[1] = "lt" -> {Binop(m, Lt)}
       [] instr[1] = "nilcheck" -> {Binop(m, Coalesce)}
       [] instr[1] = "int2double" ->
            {IF at >= 1 /\ m[at] = "integer" THEN [m EXCEPT ![at] = "double"] ELSE Fault}

\* The stacks the emitted code may end with, over the values of the variables.
FinalStacks ==
  FoldLeft(LAMBDA ms, i : UNION {Execute(i, m) : m \in ms}, {<<>>}, [i \in 1..Len(code) |-> i])

-----------------------------------------------------------------------------
(* Properties.                                                             *)

\* The parser's variables have their types.
TypeOK ==
  /\ input \in Seq(Token) /\ Len(input) <= Len(Tokens) + 1
  /\ pos \in Int /\ pos <= Len(input)
  /\ err \in {"none", "SYNTAX", "TYPE", "UNDEFINED", "SEMANTIC"}
  /\ multiline \in BOOLEAN /\ allLiterals \in BOOLEAN
  /\ pc \in {"start", "loop", "end", "done", "aborted", "crashed"}

\* ! directly before an operand or a parenthesis: the row of ! in the table
\* reduces where the others report the end of the expression.
UnwrapBefore(i) ==
  i > 1 /\ i <= Len(input) /\ input[i - 1].t = "!" /\ (is_operand(input[i]) \/ input[i].t = "(")

\* expr() came to an end at a token that can stand behind an expression.
Stopped == pc = "done" /\ pos >= 1 /\ CanFollow(pos)

Accepted ==
  Stopped /\ err = "none" /\ \A i \in 1..Len(input) : ~UnwrapBefore(i)
OnOneLine == \A i \in 1..(pos - 1) : ~input[i].eol

\* When expr() reports no error and the next token can stand behind an
\* expression, the tokens consumed are one expression and the emitted code is
\* its postfix form: precedence, associativity and parentheses are respected
\* and nothing is left on the parser's stack.
Sound ==
  Accepted /\ OnOneLine =>
    Postfix(Before(pos)) = {Operators} /\ Len(stack) = 1

\* An expression followed by a token that can stand behind it is accepted to
\* its last token, also when the next statement begins on the following line.
Complete ==
  pc \in {"done", "aborted", "crashed"} =>
    \A m \in 2..Len(input) :
      CanFollow(m) /\ ~UnwrapBefore(m) /\ Postfix(Before(m)) # {}
        => pc = "done" /\ err # "SYNTAX" /\ pos = m /\ cur = input[m]

Ended == pc \in {"done", "aborted", "crashed"}

\* A variant of the loop of expr(): the tokens before the end of the input, then
\* the terminals, handles and symbols of the stack.
Variant ==
  8 * (Len(Tokens) + 1 - pos) + 4 * Cardinality(Terminals(stack))
    + 2 * Cardinality({i \in 1..Len(stack) : stack[i].handle}) + Len(stack)

\* On tokens of one line every pass of the loop of expr() lowers the variant, the
\* passes that only report an error or meet the end of the file included: expr()
\* comes to an end there.
Advances ==
  [][pc = "loop" /\ pc' = "loop" /\ (\A i \in 1..Len(input') : ~input'[i].eol)
       => Variant' < Variant]_vars

\* expr() comes to an end whatever the tokens.
AlwaysTerminates == <>(Ended \/ ~WithinBound)

\* Where the checks of the parser lose sight of nil: a nilable variable alone in
\* parentheses, which process_parenthesis takes for one that is not; the second
\* operand of nil ?? b; an operand of <, for which two nilable types or nil and a
\* nilable one will do; and nil / nil.  The operands are the tokens next to the
\* operator, parentheses aside.
NilLost ==
  \E i \in 2..(Len(input) - 1) :
    LET Inside == {j \in DOMAIN input : input[j].t \notin {"(", ")"}}
        left == input[CHOOSE j \in Inside : j < i /\ \A k \in Inside : k <= j \/ k >= i]
        right == input[CHOOSE j \in Inside : j > i /\ \A k \in Inside : k >= j \/ k <= i]
    IN \/ input[i - 1].t = "(" /\ input[i].nilable /\ input[i + 1].t = ")"
       \/ input[i].t = "??" /\ left.t = "nil" /\ right.nilable
       \/ input[i].t = "lt" /\ \E tok \in {left, right} : tok.t = "nil" \/ tok.nilable
       \/ input[i].t = "div" /\ left.t = "nil" /\ right.t = "nil"

\* Code emitted without an error report runs without a type fault on the stack
\* machine, whichever of the nilable variables are nil, and leaves one value of
\* the type expr() tells its caller, nil only if it tells that: every implicit
\* conversion is emitted, at the right depth, and no nil reaches an instruction
\* that cannot take it but through the places of NilLost.
TypeSafe ==
  Accepted /\ OnOneLine /\ ~NilLost =>
    \A m \in FinalStacks : m = <<result.type>> \/ (m = <<"nil">> /\ result.nilable)
=============================================================================
