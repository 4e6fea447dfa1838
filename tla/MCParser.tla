------------------------------ MODULE MCParser ------------------------------
(* Instances of Parser. *)
EXTENDS Parser

Integer == [type |-> "integer", nilable |-> FALSE]
OptInteger == [Integer EXCEPT !.nilable = TRUE]
Nil == [type |-> "nil", nilable |-> FALSE]
Bool == [type |-> "bool", nilable |-> FALSE]

VariableTypes == {Integer, OptInteger}
ExprResults == {Integer, Nil, Bool}

Par(name, label) == [name |-> name, type |-> Integer, label |-> label]
Header(ret, params) == [ret |-> ret, params |-> params, variadic |-> FALSE, frame |-> TRUE]
Headers == {Header(Integer, <<Par("x", "_"), Par("f", "_")>>), Header(Nil, <<Par("x", "label")>>),
            Header(OptInteger, <<>>), Header(OptInteger, <<Par("x", "_")>>),
            Header(Integer, <<Par("x", "_"), Par("x", "_")>>)}

Write == [ret |-> Nil, params |-> <<[name |-> NULL, type |-> Nil, label |-> "_"]>>,
          variadic |-> TRUE, frame |-> FALSE]
BuiltinFunctions == [id \in {"write"} |-> Write]

Var(id, label) == [use |-> id, type |-> "none", label |-> label]
Lit(label) == [use |-> NULL, type |-> "integer", label |-> label]
ArgLists == {<<>>, <<Var("x", "none"), Var("x", "none")>>, <<Var("x", "none"), Lit("none")>>,
             <<Var("x", "colon")>>, <<Lit("bare")>>, <<Lit("none")>>}
=============================================================================
