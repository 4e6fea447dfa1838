------------------------------- MODULE Parser -------------------------------
(***************************************************************************)
(* The recursive-descent parser of statements (parser.c) with the scopes   *)
(* and the code it has generated.                                          *)
(*                                                                         *)
(* The rules prog, stmt, func_stmt, block_body and func_body call each     *)
(* other; the calls that are open are the blocks the next token is in      *)
(* (blocks).  One action parses one statement, or the head or the end of a *)
(* block.  Of an expression the model keeps the identifier it uses and the *)
(* type expr() returns, which may be any (Expression models it).           *)
(***************************************************************************)
EXTENDS CodeGenerator, SequencesExt

CONSTANTS
  Functions,   \* the names of the functions the program defines
  Builtins,    \* the built-in functions: from their names to their signatures
  Signatures,  \* what a function header may declare
  Types,       \* the types of variables, with their nilability
  Results,     \* the types expr() may return
  Arguments,   \* the argument lists of calls
  MaxStatements \* bound: number of statements and block heads

Type == [type : {"integer", "double", "string", "bool", "nil"}, nilable : BOOLEAN]
NoValue == [type |-> "nil", nilable |-> FALSE]

\* A parameter; those of the built-in functions need no name.
Parameter == [name : Names \union {NULL}, type : Type, label : {"_", "label"}]
Signature == [ret : Type, params : Seq(Parameter), variadic : BOOLEAN, frame : BOOLEAN]

\* An argument: the variable it uses or NULL, the type of a literal, its label.
Argument == [use : Names \union {NULL}, type : {"integer", "double", "string", "nil", "none"},
             label : {"none", "colon", "bare"}]

\* Functions of the program have a frame and a number of parameters; the built-in
\* write, which takes any number, has no frame.
ASSUME ParserAssumption ==
  /\ Functions \subseteq Names /\ DOMAIN Builtins \subseteq Names \ Functions
  /\ IsFiniteSet(DOMAIN Builtins)
  /\ Types \subseteq Type /\ Results \subseteq Type
  /\ Signatures \subseteq Signature /\ \A f \in DOMAIN Builtins : Builtins[f] \in Signature
  /\ \A sig \in Signatures : \A i \in 1..Len(sig.params) : sig.params[i].name \in Names
  /\ \A sig \in Signatures : sig.frame /\ ~sig.variadic
  /\ \A f \in DOMAIN Builtins : ~(Builtins[f].frame /\ Builtins[f].variadic)
  /\ Arguments \subseteq Seq(Argument)
  /\ MaxStatements \in Nat

VARIABLES
  tables,       \* global_symtab and stack
  unique_id,    \* static counter of item_init
  blocks,       \* the open rules: the program, then function, while, if and else bodies
  in_cond, in_loop, in_func_body, first_stmt, return_found, last_func_id,
  defined,      \* the functions whose definition the second pass has met
  for_open,     \* the code generator's count of open loops
  emitted,      \* the instructions of the last statement
  declared,     \* the variables whose DEFVAR has been printed
  last,         \* the last statement
  err,          \* the error parse() returns
  steps, pc

flags == <<in_cond, in_loop, in_func_body, return_found, last_func_id, for_open>>
vars == <<tables, unique_id, blocks, flags, first_stmt, defined, emitted, declared,
          last, err, steps, pc>>

\* What a function takes and returns: ret, the parameters as its header declares
\* them (written) and as the symbol table lists them (params), whether it takes
\* any number of arguments (write) and whether it is called with a frame of its
\* own (code_generator_need_function_frame).
NoSignature == [ret |-> NoValue, written |-> <<>>, params |-> <<>>, variadic |-> FALSE,
                frame |-> TRUE]

\* Bug: the counter is read after it was advanced.
NextUid(uid) ==
  [uid |-> uid + 1, init |-> FALSE, mutable |-> FALSE, nilable |-> FALSE,
   type |-> "undefined", sig |-> NoSignature]

\* item_init
NewItem(uid) ==
  [uid |-> uid, init |-> FALSE, mutable |-> FALSE, nilable |-> FALSE,
   type |-> "undefined", sig |-> NoSignature]

\* The first parameter of that name in the list of a function.
search_param(params, id) ==
  CHOOSE k \in 1..Len(params) :
    params[k].name = id /\ \A j \in 1..(k - 1) : params[j].name # id

param_init(id) ==
  [name |-> id, label |-> "unset", type |-> [type |-> "undefined", nilable |-> FALSE]]

add_param(params, id) == Append(params, param_init(id))

set_param_label(params, id, label) == [params EXCEPT ![search_param(params, id)].label = label]
set_param_type(params, id, type) == [params EXCEPT ![search_param(params, id)].type.type = type]
set_param_nil(params, id, nil) == [params EXCEPT ![search_param(params, id)].type.nilable = nil]

\* param and ADD_BUILTIN_PARAM: the fields of a new parameter are set by its
\* name, which may be that of an earlier one.
AddParam(params, par) ==
  LET named == set_param_label(add_param(params, par.name), par.name, par.label)
      typed == set_param_type(named, par.name, par.type.type)
  IN set_param_nil(typed, par.name, par.type.nilable)

\* param_list and param_next
ParamList(params) ==
  LET list[i \in 0..Len(params)] == IF i = 0 THEN <<>> ELSE AddParam(list[i - 1], params[i])
  IN list[Len(params)]

\* The item of a function; that it may return nil makes the item nilable.
FunctionItem(uid, sig) ==
  [NewItem(uid) EXCEPT
     !.type = "function", !.nilable = sig.ret.nilable,
     !.sig = [ret |-> sig.ret, written |-> sig.params,
              params |-> ParamList(sig.params),
              variadic |-> sig.variadic, frame |-> sig.frame]]

IsFunction(item) == item # NULL /\ item.type = "function"

\* A place of an item: the table and the name; the pointers lhs_id and current_id.
At(d, id) == [d |-> d, id |-> id]
NoId == [d |-> NONE, id |-> NULL]
Uninitialized(tabs, ref) == ref.d # NONE /\ ~tabs[ref.d][ref.id].init

-----------------------------------------------------------------------------
(* Looking up an operand.                                                  *)

\* id_is_defined, and the same search in arg and term: the variable that is
\* being defined is not visible in its own initial value, which is searched
\* from the next scope on; outside all scopes there is no stack to look at.
NullScope(tabs, ref, id) == ref.id = id /\ Uninitialized(tabs, ref) /\ Len(tabs) = 1

OperandTable(tabs, ref, id) ==
  LET top == IF ref.id = id /\ Uninitialized(tabs, ref) THEN Len(tabs) - 1 ELSE Len(tabs)
  IN OrGlobal(tabs, search_scopes(tabs, top, id), id)

\* An evaluation: its instructions and the error.
Eval(instrs, e) == [code |-> instrs, err |-> e]

\* expr() on an expression that uses at most one identifier.
expr(tabs, lhs, e, loops) ==
  IF e.use = NULL THEN Eval(<<PushLiteral(loops)>>, "none")
  ELSE LET d == OperandTable(tabs, lhs, e.use)
       IN CASE NullScope(tabs, lhs, e.use) -> Eval(<<>>, "crash")
            [] d = NONE -> Eval(<<>>, "UNDEFINED_VARIABLE")
            [] d # NONE /\ ~tabs[d][e.use].init -> Eval(<<>>, "UNDEFINED_VARIABLE")
            [] OTHER -> Eval(<<PushVar(tabs, d, e.use, loops)>>, "none")

\* arg, term and literal: the argument a for the parameter par; current is
\* current_id, which the next argument starts from.
ArgError(tabs, sig, par, a, d) ==
  CASE a.use = NULL -> IF sig.variadic \/ a.type = par.type.type
                            \/ (a.type = "nil" /\ par.type.nilable)
                       THEN "none" ELSE "FUNCTION_PARAMETER"
    [] a.use # NULL /\ d = NONE -> "UNDEFINED_VARIABLE"
    [] a.use # NULL /\ d # NONE ->
         CASE par.label = "_" /\ ~tabs[d][a.use].init -> "UNDEFINED_VARIABLE"
           [] ~sig.variadic /\ tabs[d][a.use].type # par.type.type -> "FUNCTION_PARAMETER"
           [] ~sig.variadic /\ par.label = "_" /\ tabs[d][a.use].nilable # par.type.nilable ->
                "FUNCTION_PARAMETER"
           [] OTHER -> "none"

\* The label is given where the parameter has one; a label that a parameter with
\* _ does not have is taken for a variable, which it does not name.
Fits(given, label) == (given # "none") = (label = "label")

\* The label of an argument: "none", "colon", or "bare" where its colon is
\* missing; opt_arg then skips the value, and no argument is passed.
Arg(tabs, sig, loops, acc, a) ==
  LET k == acc.k
      par == IF sig.variadic THEN sig.params[1] ELSE sig.params[k + 1]
      d == IF a.use = NULL THEN NONE ELSE OperandTable(tabs, acc.current, a.use)
      e == CASE acc.err # "none" -> acc.err
             [] acc.err = "none" /\ ~sig.variadic /\ k >= Len(sig.params) -> "FUNCTION_PARAMETER"
             [] OTHER ->
                  CASE a.label # "none" /\ par.label = "_" -> "UNDEFINED_VARIABLE"
                    [] a.label # "none" /\ par.label = "unset" -> "FUNCTION_PARAMETER"
                    [] a.label = "none" /\ par.label # "_" -> "FUNCTION_PARAMETER"
                    [] a.label = "bare" /\ par.label = "label" -> "none"
                    [] Fits(a.label, par.label) /\ a.label # "bare"
                         /\ a.use # NULL /\ NullScope(tabs, acc.current, a.use) -> "crash"
                    [] OTHER -> ArgError(tabs, sig, par, a, d)
  IN CASE e # "none" -> [acc EXCEPT !.err = e]
       [] e = "none" /\ a.label = "bare" -> [acc EXCEPT !.k = k + 1]
       [] OTHER ->
            [err |-> "none", k |-> k + 1, func_param_id |-> acc.func_param_id + 1,
             current |-> IF a.use = NULL THEN acc.current ELSE At(d, a.use),
             code |-> acc.code \o code_generator_function_call_param_add(
                        sig.frame, acc.func_param_id,
                        IF a.use = NULL THEN LiteralAddr ELSE VarAddr(tabs, a.use, TRUE),
                        IF a.use = NULL THEN LiteralAddr ELSE AddrOf(tabs, d, a.use), loops)]

\* Bug: only a call without any argument is noticed.
MissingAll(args, sig) == args = <<>> /\ sig.params # <<>>

\* The ) of a call comes before the last parameter has its argument.
Missing(args, sig) == Len(args) < Len(sig.params)

\* Behind the ( of a call.
NoArgs(current) ==
  [err |-> "none", k |-> 0, func_param_id |-> 0, current |-> current, code |-> <<>>]

\* arg_list, arg_next and code_generator_function_call
arg_list(tabs, sig, current, args, loops) ==
  LET acc[i \in 0..Len(args)] ==
        IF i = 0 THEN NoArgs(current) ELSE Arg(tabs, sig, loops, acc[i - 1], args[i])
      end == acc[Len(args)]
      frame == IF ~sig.frame \/ end.func_param_id > 0 THEN <<>>
               ELSE << Instr("CREATEFRAME", LiteralAddr, LiteralAddr, loops) >>
  IN IF end.err = "none" /\ ~sig.variadic /\ Missing(args, sig)
     THEN Eval(<<>>, "FUNCTION_PARAMETER")
     ELSE Eval(end.code \o frame, end.err)

-----------------------------------------------------------------------------
(* Right-hand sides.                                                       *)

\* expr: an expression that may begin with an identifier; call: f(...).
Expressions == [kind : {"expr"}, use : Names \union {NULL}, res : Results]
Calls == [kind : {"call"}, f : Names, args : Arguments]

\* The type of a right-hand side.
RhsType(tabs, rhs) ==
  IF rhs.kind = "call" THEN tabs[GLOBAL][rhs.f].sig.ret ELSE rhs.res

\* The checks of opt_assign and expr_type against the declared type, if any.
Compatible(item, t) ==
  CASE item.type = "undefined" -> TRUE
    [] item.type # "undefined" /\ item.type = t.type -> item.nilable \/ ~t.nilable
    [] OTHER -> item.nilable /\ t.type = "nil"

\* What follows = is a call if it begins with the name of a function, and an
\* expression otherwise.  A call is compared with the variable's type before
\* its arguments are parsed, an expression afterwards.
Rhs(tabs, lhs, rhs, loops) ==
  LET head == IF rhs.kind = "call" THEN rhs.f ELSE rhs.use
      item == IF head = NULL THEN NULL ELSE tabs[GLOBAL][head]
      fits == Compatible(tabs[lhs.d][lhs.id], RhsType(tabs, rhs))
      val == expr(tabs, lhs, rhs, loops)
  IN CASE IsFunction(item) ->
            CASE item.sig.ret.type = "nil" -> Eval(<<>>, "INCOMPATIBLE_TYPE")
              [] item.sig.ret.type # "nil" /\ rhs.kind = "expr" -> Eval(<<>>, "SYNTAX")
              [] OTHER -> IF fits THEN arg_list(tabs, item.sig, lhs, rhs.args, loops)
                          ELSE Eval(<<>>, "INCOMPATIBLE_TYPE")
       [] ~IsFunction(item) /\ rhs.kind = "call" ->
            Eval(<<>>, IF item # NULL THEN "UNDEFINED_FUNCTION" ELSE "SYNTAX")
       [] OTHER -> IF val.err = "none" /\ ~fits THEN Eval(<<>>, "INCOMPATIBLE_TYPE") ELSE val

-----------------------------------------------------------------------------
(* Statements.                                                             *)

Top == blocks[Len(blocks)]

\* parser_init and add_builtins
Init ==
  LET names == SetToSeq(DOMAIN Builtins)
  IN /\ tables = << [id \in Names |->
           IF id \in DOMAIN Builtins
           THEN FunctionItem(CHOOSE i \in 0..(Len(names) - 1) : names[i + 1] = id, Builtins[id])
           ELSE NULL] >>
     /\ unique_id = Len(names)
     /\ blocks = << [kind |-> "prog", empty |-> TRUE, returned |-> FALSE] >>
     /\ in_cond = 0 /\ in_loop = 0 /\ in_func_body = FALSE /\ first_stmt = TRUE
     /\ return_found = FALSE /\ last_func_id = NULL /\ defined = {}
     /\ for_open = 0 /\ emitted = <<>> /\ declared = {}
     /\ last = [kind |-> "none"] /\ err = "none" /\ steps = 0 /\ pc = "declarations"

\* func_header, in the first pass
func_header(f, sig) ==
  /\ pc = "declarations"
  /\ tables[GLOBAL][f] = NULL
  /\ tables' = [tables EXCEPT ![GLOBAL][f] = FunctionItem(unique_id, sig)]
  /\ unique_id' = unique_id + 1
  /\ UNCHANGED <<blocks, flags, first_stmt, defined, emitted, declared, last, err, steps, pc>>

Redeclaration(f) ==
  /\ pc = "declarations"
  /\ tables[GLOBAL][f] # NULL
  /\ pc' = "failed" /\ err' = "REDEFINING_VARIABLE"
  /\ UNCHANGED <<tables, unique_id, blocks, flags, first_stmt, defined, emitted, declared,
                 last, steps>>

SecondPass ==
  /\ pc = "declarations"
  /\ pc' = "parse"
  /\ UNCHANGED <<tables, unique_id, blocks, flags, first_stmt, defined, emitted, declared,
                 last, err, steps>>

\* A rule returns an error: every rule above it returns it too.
Fail(e) ==
  /\ pc' = IF e = "crash" THEN "crashed" ELSE "failed"
  /\ err' = e
  /\ UNCHANGED <<tables, unique_id, blocks, flags, first_stmt, defined, emitted, declared,
                 last, steps>>

Parsing == pc = "parse" /\ steps < MaxStatements

\* A statement begins; CHECK_NEWLINE lets it.
InStatement(eol) == Parsing /\ (first_stmt \/ eol)

\* CHECK_NEWLINE does not let it.
SameLine == Parsing /\ ~first_stmt /\ Fail("SYNTAX")

Emit(instrs) ==
  /\ emitted' = instrs
  /\ declared' = declared \union
       {instrs[i].addr : i \in {j \in 1..Len(instrs) : instrs[j].op = "DEFVAR"}}

\* Bug: the statements of a body all count as its first.
KeepFirst(bs) == /\ blocks' = [bs EXCEPT ![Len(bs)].empty = FALSE]
                 /\ UNCHANGED first_stmt

\* Back in block_body, func_body or prog behind a statement.
NextStatement(bs) == /\ blocks' = [bs EXCEPT ![Len(bs)].empty = FALSE]
                     /\ first_stmt' = FALSE

\* var or let, the name, an optional type, an optional value.
define(mutable, id, ann, rhs, eol) ==
  LET local == in_cond > 0 \/ in_loop > 0 \/ in_func_body
      d == IF local THEN Len(tables) ELSE GLOBAL
      fresh == NewItem(unique_id)
      typed == IF ann = NULL THEN fresh
               ELSE [fresh EXCEPT !.type = ann.type, !.nilable = ann.nilable,
                                  !.init = ann.nilable]
      tabs == [tables EXCEPT ![d][id] = typed]
      val == IF rhs = NULL THEN Eval(<<>>, "none") ELSE Rhs(tabs, At(d, id), rhs, for_open)
      t == RhsType(tabs, rhs)
      e == CASE local /\ Len(tables) = 1 -> "INTERNAL"
             [] (~local \/ Len(tables) > 1) /\ tables[d][id] # NULL -> "REDEFINING_VARIABLE"
             [] OTHER ->
                  CASE ann = NULL /\ rhs = NULL -> "SYNTAX"
                    [] ann = NULL /\ rhs # NULL /\ val.err = "none" /\ t.type = "nil" -> "MISSING_TYPE"
                    [] OTHER -> val.err
      item == CASE rhs = NULL -> typed
                [] rhs # NULL /\ ann # NULL -> [typed EXCEPT !.init = TRUE]
                [] OTHER -> [typed EXCEPT !.init = TRUE, !.type = t.type, !.nilable = t.nilable]
      code == IF rhs # NULL \/ typed.nilable
              THEN (IF rhs = NULL THEN <<PushLiteral(for_open)>> ELSE val.code)
                   \o code_generator_var_declare(tabs, d, id, for_open)
              ELSE << code_generator_defvar(VarAddr(tabs, id, FALSE), AddrOf(tabs, d, id)) >>
  IN /\ InStatement(eol)
     /\ IF e # "none" THEN Fail(e)
        ELSE /\ tables' = [tables EXCEPT ![d][id] = [item EXCEPT !.mutable = mutable]]
             /\ unique_id' = unique_id + 1
             /\ Emit(code)
             /\ NextStatement(blocks)
             /\ last' = [kind |-> "define", ann |-> ann, id |-> id, rhs |-> rhs, eol |-> eol]
             /\ steps' = steps + 1
             /\ UNCHANGED <<flags, defined, err, pc>>

\* The case TOKEN_ASS of expr_type; a variable that may be nil is not written
\* when it is assigned nil.
assign(id, rhs, eol) ==
  LET d == OrGlobal(tables, search_scopes(tables, Len(tables), id), id)
      item == tables[d][id]
      val == Rhs(tables, At(d, id), rhs, for_open)
      t == RhsType(tables, rhs)
      tabs == [tables EXCEPT ![d][id].init = TRUE]
      e == CASE d = NONE -> "UNDEFINED_VARIABLE"
             [] d # NONE /\ ~item.mutable /\ item.init -> "SEMANTIC"
             [] OTHER -> val.err
  IN /\ InStatement(eol)
     /\ IF e # "none" THEN Fail(e)
        ELSE /\ tables' = tabs
             /\ Emit(val.code \o (IF item.type = t.type
                                  THEN code_generator_var_assign(tabs, d, id, for_open) ELSE <<>>))
             /\ NextStatement(blocks)
             /\ last' = [kind |-> "assign", id |-> id, rhs |-> rhs, eol |-> eol]
             /\ steps' = steps + 1
             /\ UNCHANGED <<unique_id, flags, defined, err, pc>>

\* The case TOKEN_L_PAR of expr_type.
call(f, args, eol) ==
  LET d == OrGlobal(tables, search_scopes(tables, Len(tables), f), f)
      val == arg_list(tables, tables[d][f].sig, NoId, args, for_open)
      e == CASE d = NONE -> "UNDEFINED_FUNCTION"
             [] d # NONE /\ ~IsFunction(tables[d][f]) -> "UNDEFINED_FUNCTION"
             [] OTHER -> val.err
  IN /\ InStatement(eol)
     /\ IF e # "none" THEN Fail(e)
        ELSE /\ Emit(val.code)
             /\ NextStatement(blocks)
             /\ last' = [kind |-> "call", f |-> f, args |-> args, eol |-> eol]
             /\ steps' = steps + 1
             /\ UNCHANGED <<tables, unique_id, flags, defined, err, pc>>

-----------------------------------------------------------------------------
(* Blocks.                                                                 *)

Block(kind) == [kind |-> kind, empty |-> TRUE, returned |-> FALSE]

\* An action that opens the body of a block, whose first statement need not
\* begin a line.
OpenBody(block) == /\ blocks' = Append(blocks, block)
                   /\ first_stmt' = TRUE

while(cond, eol) ==
  LET val == expr(tables, NoId, cond, for_open + 1)
      e == CASE val.err # "none" -> val.err
             [] val.err = "none" /\ cond.res.type # "bool" -> "INCOMPATIBLE_TYPE"
             [] OTHER -> "none"
  IN /\ InStatement(eol)
     /\ IF e # "none" THEN Fail(e)
        ELSE /\ in_loop' = in_loop + 1
             /\ for_open' = for_open + 1      \* code_generator_for_label
             /\ Emit(val.code)
             /\ tables' = add_scope(tables)
             /\ OpenBody(Block("while"))
             /\ last' = [kind |-> "while", eol |-> eol]
             /\ steps' = steps + 1
             /\ UNCHANGED <<unique_id, in_cond, in_func_body, return_found, last_func_id,
                            defined, err, pc>>

\* if with an expression as its condition; the scope of the condition stays empty.
IfExpr(cond, eol) ==
  LET val == expr(add_scope(tables), NoId, cond, for_open)
      e == CASE val.err # "none" -> val.err
             [] val.err = "none" /\ cond.res.type # "bool" -> "INCOMPATIBLE_TYPE"
             [] OTHER -> "none"
  IN /\ InStatement(eol)
     /\ IF e # "none" THEN Fail(e)
        ELSE /\ in_cond' = in_cond + 1
             /\ Emit(val.code)
             /\ tables' = add_scope(add_scope(tables))
             /\ OpenBody(Block("if"))
             /\ last' = [kind |-> "if", eol |-> eol]
             /\ steps' = steps + 1
             /\ UNCHANGED <<unique_id, in_loop, in_func_body, return_found, last_func_id,
                            for_open, defined, err, pc>>

\* The constant of if let: a new item with the type of the one it is made from.
\* It has no parameters, but its name decides about the frame of a call.
LetItem(uid, item) ==
  [NewItem(uid) EXCEPT !.type = item.type, !.init = TRUE,
                       !.sig = [NoSignature EXCEPT !.frame = item.sig.frame]]

\* if let: the constant is seen without its nilability in the if body.
IfLet(id, eol) ==
  LET d == OrGlobal(tables, search_scopes(tables, Len(tables), id), id)
      item == tables[d][id]
      cond == add_scope(tables)
      top == Len(cond)
      tabs == [cond EXCEPT ![top][id] = LetItem(unique_id, item)]
      e == CASE d = NONE -> "UNDEFINED_VARIABLE"
             [] d # NONE /\ (item.mutable \/ ~item.nilable) -> "SEMANTIC"
             [] OTHER -> "none"
  IN /\ InStatement(eol)
     /\ IF e # "none" THEN Fail(e)
        ELSE /\ in_cond' = in_cond + 1
             /\ Emit(<<PushVar(cond, d, id, for_open), PushVar(cond, d, id, for_open)>>
                     \o code_generator_var_declare(tabs, top, id, for_open))
             /\ tables' = add_scope(tabs)
             /\ unique_id' = unique_id + 1
             /\ OpenBody(Block("if"))
             /\ last' = [kind |-> "iflet", eol |-> eol]
             /\ steps' = steps + 1
             /\ UNCHANGED <<in_loop, in_func_body, return_found, last_func_id, for_open,
                            defined, err, pc>>

\* Bug: a return in an inner body counts for the function.
KeepReturn == UNCHANGED return_found

\* func_body forgets a return when it closes any body; block_body does not.
CloseBody == return_found' = IF in_func_body THEN FALSE ELSE return_found

\* The } of an if body and the else: the scopes of the body and of the
\* condition are popped, the one of the else body is added.
Else ==
  /\ pc = "parse" /\ Top.kind = "if"
  /\ CloseBody
  /\ tables' = add_scope(pop_scope(pop_scope(tables)))
  /\ blocks' = Append(Front(blocks), Block("else"))
  /\ first_stmt' = TRUE
  /\ Emit(<<>>)
  /\ last' = [kind |-> "else"]
  /\ UNCHANGED <<unique_id, in_cond, in_loop, in_func_body, last_func_id, for_open,
                 defined, err, steps, pc>>

\* Bug: the scope of the body is left on the stack.
KeepScope ==
  /\ pc = "parse" /\ Top.kind = "else"
  /\ CloseBody
  /\ in_cond' = in_cond - 1
  /\ Emit(<<>>)
  /\ NextStatement(Front(blocks))
  /\ last' = [kind |-> "end"]
  /\ UNCHANGED <<tables, unique_id, in_loop, in_func_body, last_func_id, for_open,
                 defined, err, steps, pc>>

\* The } of an else body.
EndIf ==
  /\ pc = "parse" /\ Top.kind = "else"
  /\ CloseBody
  /\ tables' = pop_scope(tables)
  /\ in_cond' = in_cond - 1
  /\ Emit(<<>>)
  /\ NextStatement(Front(blocks))
  /\ last' = [kind |-> "end"]
  /\ UNCHANGED <<unique_id, in_loop, in_func_body, last_func_id, for_open,
                 defined, err, steps, pc>>

\* The } of a while body; code_generator_for_loop_end prints the buffer when
\* the outermost loop is closed.
EndWhile ==
  /\ pc = "parse" /\ Top.kind = "while"
  /\ CloseBody
  /\ tables' = pop_scope(tables)
  /\ in_loop' = in_loop - 1
  /\ for_open' = for_open - 1
  /\ Emit(<<>>)
  /\ NextStatement(Front(blocks))
  /\ last' = [kind |-> "end"]
  /\ UNCHANGED <<unique_id, in_cond, in_func_body, last_func_id, defined, err, steps, pc>>

ParamNames(params) == {params[i].name : i \in 1..Len(params)}

\* param_list_skip, param_next_skip, param_skip and type_skip: the scope of the
\* parameters, which are initialized but never nilable.  A name that is repeated
\* is one item, of the last type.
ParamScope(params) ==
  LET Places(id) == {i \in 1..Len(params) : params[i].name = id}
      Uid(id) == unique_id + Cardinality(ParamNames(SubSeq(params, 1, Min(Places(id)) - 1)))
  IN [id \in Names |->
        IF Places(id) = {} THEN NULL
        ELSE [NewItem(Uid(id)) EXCEPT
                !.init = TRUE, !.type = params[Max(Places(id))].type.type]]

\* The code of param_skip, for one parameter after the other.
ParamCode(tabs, params, loops) ==
  LET code[i \in 0..Len(params)] ==
        IF i = 0 THEN <<>>
        ELSE code[i - 1] \o code_generator_param_map(tabs, Len(tabs), params[i].name, loops)
  IN code[Len(params)]

\* The case TOKEN_FUNC of prog, to the { of the body: the scope of the
\* parameters and the one of the body are added.
func(f, eol) ==
  LET params == tables[GLOBAL][f].sig.written
      tabs == Append(tables, ParamScope(params))
  IN /\ InStatement(eol) /\ Top.kind = "prog"
     /\ f \in Functions \ defined /\ IsFunction(tables[GLOBAL][f])
     /\ tables' = add_scope(tabs)
     /\ unique_id' = unique_id + Cardinality(ParamNames(params))
     /\ Emit(ParamCode(tabs, params, for_open))
     /\ in_func_body' = TRUE
     /\ last_func_id' = f
     /\ OpenBody(Block("func"))
     /\ defined' = defined \union {f}
     /\ last' = [kind |-> "func", params |-> params, eol |-> eol]
     /\ steps' = steps + 1
     /\ UNCHANGED <<in_cond, in_loop, return_found, for_open, err, pc>>

ReturnType == tables[GLOBAL][last_func_id].sig.ret

\* The } of a function body.
EndFunc ==
  /\ pc = "parse" /\ Top.kind = "func"
  /\ IF in_cond = 0 /\ in_loop = 0 /\ ReturnType.type # "nil" /\ ~return_found
     THEN Fail("RETURN_TYPE")
     ELSE /\ CloseBody
          /\ tables' = pop_scope(pop_scope(tables))
          /\ in_func_body' = FALSE
          /\ Emit(<<>>)
          /\ NextStatement(Front(blocks))
          /\ last' = [kind |-> "endfunc", f |-> last_func_id, returned |-> Top.returned]
          /\ UNCHANGED <<unique_id, in_cond, in_loop, last_func_id, for_open, defined, err,
                         steps, pc>>

\* return, in a function body or a block of it; value is NULL without a value.
return(value, eol) ==
  LET void == ReturnType.type = "nil"
      val == IF value = NULL THEN Eval(<<>>, "none")
             ELSE expr(tables, NoId, value, for_open)
      e == CASE void # (value = NULL) -> "FUNCTION_RETURN"
             [] void /\ value = NULL -> "none"
             [] OTHER ->
             IF val.err = "none" /\ ReturnType.type # value.res.type
             THEN "RETURN_TYPE" ELSE val.err
  IN /\ InStatement(eol) /\ in_func_body
     /\ IF e # "none" THEN Fail(e)
        ELSE /\ return_found' = TRUE
             /\ Emit(val.code)
             /\ NextStatement([blocks EXCEPT ![Len(blocks)].returned = TRUE])
             /\ last' = [kind |-> "return", eol |-> eol]
             /\ steps' = steps + 1
             /\ UNCHANGED <<tables, unique_id, in_cond, in_loop, in_func_body, last_func_id,
                            for_open, defined, err, pc>>

\* A token no rule expects here, such as a return outside of functions.
Unexpected == Parsing /\ Fail("SYNTAX")

\* The end of the file: every function declared in the first pass was met.
Eof ==
  /\ pc = "parse" /\ Top.kind = "prog"
  /\ \A f \in Functions : IsFunction(tables[GLOBAL][f]) => f \in defined
  /\ pc' = "done"
  /\ UNCHANGED <<tables, unique_id, blocks, flags, first_stmt, defined, emitted, declared,
                 last, err, steps>>

Next ==
  \/ \E f \in Functions : (\E sig \in Signatures : func_header(f, sig)) \/ Redeclaration(f)
  \/ SecondPass
  \/ \E eol \in BOOLEAN :
       \/ \E mutable \in BOOLEAN, id \in Names, ann \in Types \union {NULL},
             rhs \in Expressions \union Calls \union {NULL} : define(mutable, id, ann, rhs, eol)
       \/ \E id \in Names, rhs \in Expressions \union Calls : assign(id, rhs, eol)
       \/ \E f \in Names, args \in Arguments : call(f, args, eol)
       \/ \E cond \in Expressions : while(cond, eol) \/ IfExpr(cond, eol)
       \/ \E id \in Names : IfLet(id, eol)
       \/ \E f \in Functions : func(f, eol)
       \/ \E value \in Expressions \union {NULL} : return(value, eol)
  \/ Else \/ EndIf \/ EndWhile \/ EndFunc
  \/ SameLine \/ Unexpected \/ Eof

Spec == Init /\ [][Next]_vars

-----------------------------------------------------------------------------
(* Properties.                                                             *)

\* The parser's variables have their types.
TypeOK ==
  /\ Len(tables) >= 1 /\ Len(blocks) >= 1
  /\ \A d \in 1..Len(tables), id \in Names :
       tables[d][id] # NULL => tables[d][id].uid \in 0..(unique_id - 1)
  /\ in_cond \in Nat /\ in_loop \in Nat /\ for_open \in Nat
  /\ {in_func_body, first_stmt, return_found} \subseteq BOOLEAN
  /\ defined \subseteq Functions
  /\ pc \in {"declarations", "parse", "done", "failed", "crashed"}
  /\ steps \in 0..MaxStatements

Count(bs, kinds) == Cardinality({i \in 1..Len(bs) : bs[i].kind \in kinds})
NumberOf(kinds) == Count(blocks, kinds)

\* The scope stack and the counters agree with the blocks that are open: each
\* add_scope on the way into a block is undone on the way out, whatever way
\* that is, and when the program ends no loop's code is left in the buffer.
Balanced ==
  pc \in {"parse", "done"} =>
    /\ Len(tables) = 1 + 2 * NumberOf({"func", "if"}) + NumberOf({"while", "else"})
    /\ in_cond = NumberOf({"if", "else"})
    /\ in_loop = NumberOf({"while"}) /\ for_open = in_loop
    /\ in_func_body = (NumberOf({"func"}) = 1)
    /\ pc = "done" => for_open = 0

ArgsOf(stmt) ==
  CASE stmt.kind = "call" -> stmt.args
    [] stmt.kind \in {"define", "assign"} ->
         IF stmt.rhs # NULL /\ stmt.rhs.kind = "call" THEN stmt.rhs.args ELSE <<>>
    [] OTHER -> <<>>

\* term does not ask whether the variable is initialized.
Labelled(stmt) == \E i \in 1..Len(ArgsOf(stmt)) : ArgsOf(stmt)[i].label = "colon"

\* The code names the variable the semantic check looked at, with shadowing in
\* nested scopes and while a variable is being defined by an expression or a
\* call with the name it shadows.
SameVariable ==
  ~Labelled(last) =>
    \A i \in 1..Len(emitted) : emitted[i].addr = emitted[i].want

\* type marks a nilable variable as initialized before its value is parsed.
NilableFromItself(stmt) ==
  /\ stmt.kind = "define" /\ stmt.ann # NULL /\ stmt.rhs # NULL
  /\ stmt.ann.nilable
  /\ \/ stmt.rhs.kind = "expr" /\ stmt.rhs.use = stmt.id
     \/ \E i \in 1..Len(ArgsOf(stmt)) : ArgsOf(stmt)[i].use = stmt.id

\* The name of a function that may return nil passes for a constant in if let,
\* and for an initialized variable once nil is assigned to it.
FunctionAddrs ==
  {AddrOf(tables, GLOBAL, f) : f \in {g \in Names : IsFunction(tables[GLOBAL][g])}}

\* A header that gives two parameters one name is accepted, and its code
\* declares the variable twice.
RepeatedParam(stmt) ==
  stmt.kind = "func" /\ Cardinality(ParamNames(stmt.params)) < Len(stmt.params)

\* A variable is declared in the output before the first instruction that
\* names it, inside and outside of loops.
DeclaredBeforeUse ==
  ~(Labelled(last) \/ NilableFromItself(last) \/ RepeatedParam(last)) =>
    \A i \in 1..Len(emitted) :
      emitted[i].addr.frame \in {"GF", "LF"} /\ emitted[i].addr \notin FunctionAddrs =>
        /\ emitted[i].addr \in declared
        /\ \A j \in (i + 1)..Len(emitted) : emitted[j].op = "DEFVAR" => emitted[j].addr # emitted[i].addr

\* A variable whose declaration or assignment gives it a value is written.
Stored ==
  last.kind \in {"define", "assign"} /\ last.rhs # NULL =>
    emitted # <<>> /\ Last(emitted).op = "POPS"

\* The same but for nil, the assignment of which is lost (expr_type).
StoredUnlessNil ==
  ~(last.kind = "assign" /\ last.rhs.kind = "expr" /\ last.rhs.res.type = "nil") => Stored

\* The variable an argument is passed in is declared in the frame that was
\* created for the call: between its CREATEFRAME and its MOVE in the output.
ArgumentsInFrame ==
  \A i \in 1..Len(emitted) :
    emitted[i].op = "DEFVAR" /\ emitted[i].addr.frame = "TF" =>
      \E j \in 1..(i - 1) : emitted[j].op = "CREATEFRAME" /\ ~emitted[j].buffered

\* A function with a return type is accepted only with a return of its own,
\* not just one in a block of its body.
ReturnsChecked ==
  last.kind = "endfunc" /\ tables[GLOBAL][last.f].sig.ret.type # "nil" => last.returned

\* The function that the last statement calls.
Callee ==
  CASE last.kind = "call" -> {last.f}
    [] last.kind \in {"define", "assign"} ->
         IF last.rhs # NULL /\ last.rhs.kind = "call" THEN {last.rhs.f} ELSE {}
    [] OTHER -> {}

\* if let makes the name of a function that may return nil a constant of the type
\* function, without parameters, and its body may call it.
ConstantCalled ==
  last.kind = "call" /\ \E d \in 2..Len(tables) : tables[d][last.f] # NULL

\* A call is accepted only with an argument for every parameter its header
\* declares, labelled as declared, and a literal only of the parameter's type,
\* also where two parameters share a name.
ArgumentsMatch ==
  ~ConstantCalled => \A f \in Callee :
    LET sig == tables[GLOBAL][f].sig
        args == ArgsOf(last)
    IN ~sig.variadic =>
         /\ Len(args) = Len(sig.written)
         /\ \A i \in 1..Len(args) :
              /\ Fits(args[i].label, sig.written[i].label)
              /\ args[i].label # "bare" /\ args[i].use = NULL =>
                   \/ args[i].type = sig.written[i].type.type
                   \/ args[i].type = "nil" /\ sig.written[i].type.nilable

\* Every parameter of a function with a frame gets its value from an argument,
\* but for the ones whose label stands without a colon, which opt_arg lets pass.
EveryParameterPassed ==
  ~ConstantCalled => \A f \in Callee :
    LET sig == tables[GLOBAL][f].sig
    IN sig.frame /\ (\A i \in 1..Len(ArgsOf(last)) : ArgsOf(last)[i].label # "bare") =>
         {emitted[i].addr.uid : i \in {j \in 1..Len(emitted) : emitted[j].op = "MOVE"}}
           = 0..(Len(sig.written) - 1)

-----------------------------------------------------------------------------
(* The inductive invariant of the blocks.                                  *)

\* An item with a uid below n, and a signature.
IsItem(x, n) ==
  /\ x = [uid |-> x.uid, init |-> x.init, mutable |-> x.mutable, nilable |-> x.nilable,
          type |-> x.type, sig |-> x.sig]
  /\ x.uid \in 0..(n - 1)
  /\ x.sig.written \in Seq(Parameter)

IsTable(tab, n) ==
  /\ tab = [id \in Names |-> tab[id]]
  /\ \A id \in Names : tab[id] # NULL => IsItem(tab[id], n)

\* The global table and the scopes over it.
IsStack(tabs, n) ==
  /\ Len(tabs) \in Nat \ {0} /\ tabs = [d \in 1..Len(tabs) |-> tabs[d]]
  /\ \A d \in 1..Len(tabs) : IsTable(tabs[d], n)

\* The program is the outermost rule, and a function is only defined in it.
AnyBlock == [kind : {"prog", "func", "while", "if", "else"}, empty : BOOLEAN, returned : BOOLEAN]

IsNesting(bs) ==
  /\ bs \in Seq(AnyBlock) /\ bs # <<>>
  /\ \A i \in 1..Len(bs) : /\ bs[i].kind = "prog" <=> i = 1
                           /\ bs[i].kind = "func" => i = 2

\* The tables, conditions and loops that belong to the blocks.
Scopes(bs) == 1 + 2 * Count(bs, {"func", "if"}) + Count(bs, {"while", "else"})
Conds(bs) == Count(bs, {"if", "else"})
Loops(bs) == Count(bs, {"while"})

\* Balanced, also after an error, which leaves everything as it is.
Counted ==
  /\ Len(tables) = Scopes(blocks) /\ in_cond = Conds(blocks)
  /\ in_loop = Loops(blocks) /\ for_open = in_loop
  /\ in_func_body = (Len(blocks) > 1 /\ blocks[2].kind = "func")
  /\ pc = "done" => Len(blocks) = 1

\* return_found is only set in a function; when no block of its body is open, it
\* tells of a return of the body itself.
ReturnNoted ==
  /\ return_found \in BOOLEAN
  /\ return_found => in_func_body
  /\ return_found /\ Len(blocks) = 2 => blocks[2].returned

ParserInv ==
  /\ unique_id \in Nat /\ IsStack(tables, unique_id)
  /\ IsNesting(blocks) /\ Counted /\ ReturnNoted
  /\ first_stmt \in BOOLEAN /\ (first_stmt => Top.empty)
  /\ defined \subseteq Functions
  /\ pc \in {"declarations", "parse", "done", "failed", "crashed"}
  /\ pc = "declarations" => last.kind = "none"
  /\ steps \in 0..MaxStatements

-----------------------------------------------------------------------------
(* The inductive invariant of the code.                                    *)

\* What an item may hold; set_param_* leave a parameter unset if an earlier one
\* has its name.
KnownType == {"integer", "double", "string", "bool", "nil", "function"}
ListedParameter ==
  [name : Names \union {NULL}, label : {"_", "label", "unset"},
   type : [type : KnownType \union {"undefined"}, nilable : BOOLEAN]]
ItemSignature ==
  [ret : Type, written : Seq(Parameter), params : Seq(ListedParameter),
   variadic : BOOLEAN, frame : BOOLEAN]
Item ==
  [uid : Nat, init : BOOLEAN, mutable : BOOLEAN, nilable : BOOLEAN,
   type : KnownType \union {"undefined"}, sig : ItemSignature]

\* NULL is none of the values it stands beside.
ASSUME NullAssumption == NULL \notin Item \union Expressions \union Calls

\* An item between two statements: its type is known, and its parameters are
\* those of its header.
IsKnown(x) ==
  /\ x \in Item /\ x.type # "undefined"
  /\ x.sig.params = ParamList(x.sig.written) /\ ~(x.sig.frame /\ x.sig.variadic)

\* The scopes hold no variable that may be nil and is not initialized, so that
\* if let pushes the constant it looked at.
KnownItems ==
  \A d \in 1..Len(tables), id \in Names :
    tables[d][id] # NULL =>
      /\ IsKnown(tables[d][id])
      /\ d > 1 /\ tables[d][id].nilable => tables[d][id].init

\* The parameters of the program's functions have names.
NamedParams ==
  \A f \in Functions : tables[GLOBAL][f] # NULL =>
    \A i \in 1..Len(tables[GLOBAL][f].sig.written) : tables[GLOBAL][f].sig.written[i].name \in Names

\* The variables in scope have been declared in the output.
AllDeclared ==
  \A d \in 1..Len(tables), id \in Names :
    tables[d][id] # NULL /\ (d = GLOBAL => ~IsFunction(tables[d][id])) =>
      AddrOf(tables, d, id) \in declared

\* The inductive invariant; the first pass generates nothing.
CodeInv ==
  /\ KnownItems /\ NamedParams /\ AllDeclared
  /\ pc = "declarations" => emitted = <<>>

\* Only the first statement of a body or of the program may share its line
\* with what stands before it.
OneStatementPerLine == [][steps' > steps /\ ~last'.eol => Top.empty]_vars
=============================================================================
