---------------------------- MODULE MCExpression ----------------------------
(* Instances of Expression. *)
EXTENDS ExpressionProps

Tok(t) == [t |-> t, eol |-> FALSE, zero |-> FALSE, def |-> "none",
           vtype |-> "undefined", nilable |-> FALSE]
Var(type, nilable) ==
  [Tok("id") EXCEPT !.def = "initialized", !.vtype = type, !.nilable = nilable]
OnNewLine(tok) == [tok EXCEPT !.eol = TRUE]

Times(n, tokens) == [i \in 1..n |-> tokens]

\* One operator of each row of the table, a variable and a nilable one; the end
\* of the file ends the expression.  A line of six begins with a token that can
\* begin an expression and ends with one that can end it; a page may hold any.
LineTokens ==
  {Var("integer", FALSE), Var("integer", TRUE)}
    \union {Tok(t) : t \in {"mul", "add", "??", "lt", "(", ")", "!"}}
Beginning == {Var("integer", FALSE), Var("integer", TRUE), Tok("(")}
Ending == {Var("integer", FALSE), Tok(")"), Tok("!")}
Line == <<Beginning>> \o Times(4, LineTokens) \o <<Ending>>

\* The same, where a line may begin with a variable or an operator.
Page == Times(4, LineTokens \union {Tok("end"), OnNewLine(Var("integer", FALSE)),
                                    OnNewLine(Tok("add"))})

\* Operands of every type, in expressions of three operands or in parentheses.
Literals == {Tok("int"), [Tok("int") EXCEPT !.zero = TRUE], Tok("dbl"), Tok("str"), Tok("nil")}
Operands ==
  Literals \union {Var("integer", FALSE), Var("integer", TRUE), Var("double", FALSE),
                   Var("double", TRUE), Var("string", FALSE),
                   [Var("integer", FALSE) EXCEPT !.def = "uninitialized"]}
Operators2 == {Tok(t) : t \in {"add", "div", "eq", "lt", "??", "!"}}
Typed == <<Operands \union {Tok("(")},
           Operators2 \union {Tok("int"), Tok("dbl"), Tok("nil"), Var("integer", TRUE)},
           Operands \union {Tok(")")}, Operators2, Operands>>

Form(tokens, type) == [tokens |-> tokens, lhs |-> type]
AllForms == <<Form(Line, "none"), Form(Page, "none"), Form(Typed, "none"), Form(Typed, "double")>>
OnlyPages == <<Form(Page, "none")>>
=============================================================================
