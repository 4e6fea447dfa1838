---------------------------- MODULE ControlFlow ----------------------------
(***************************************************************************)
(* The code generated for blocks, functions and declarations, and a run of *)
(* it.  The parser (prog, stmt, func_stmt of parser.c) tells the code      *)
(* generator (code_generator.c) where a block begins and ends; the labels  *)
(* are numbered by the parser's cond_uid and loop_uid, and what is inside  *)
(* a loop waits in print_buffer, but for DEFVAR.  When the program is      *)
(* complete, the machine executes the output; a condition may have either  *)
(* value.                                                                  *)
(*                                                                         *)
(* A condition is one expression, with or without a ??.  Variables are     *)
(* named by frame and uid, and only visible ones are used: what names mean *)
(* is the matter of Parser.  The functions called are those of the         *)
(* program; what built-in functions are passed is in Parser as well.       *)
(***************************************************************************)
EXTENDS Integers, Sequences, FiniteSets, SequencesExt

CONSTANTS
  Params,         \* from the names of the program's functions to their numbers of parameters
  EndName,        \* EndName[f] is the identifier END_f
  MaxStatements,  \* bound: statements and block heads
  MaxCalls        \* bound: calls open at a time

\* The built-in functions whose code the prolog prints.
Builtins == {"ord", "substring"}

\* A program cannot define a built-in function: its name is already known.
ASSUME ControlFlowAssumption ==
  /\ \A f \in DOMAIN Params : Params[f] \in 0..1
  /\ DOMAIN Params \intersect Builtins = {}
  /\ DOMAIN Params \union Builtins \subseteq DOMAIN EndName
  /\ \A f, g \in DOMAIN EndName : EndName[f] = EndName[g] => f = g
  /\ \A f \in DOMAIN EndName : EndName[f] \notin Builtins
  /\ MaxStatements \in Nat /\ MaxCalls \in Nat

Functions == DOMAIN Params

VARIABLES
  source,        \* the program parsed so far (SourceFlow)
  open,          \* the open blocks: kind, uid of their labels, position of
                 \* their head, and the variables they declare
  globals,       \* the global variables declared so far
  cond_uid, loop_uid, unique_id,
  for_open, print_buffer,
  out,           \* stdout
  phase,         \* "parse", "load", then "run" or "rejected"
  ip, gf, frames, tf, calls, \* the machine; tf is empty or holds one frame
  position       \* the statement executed last

parserVars == <<source, open, globals, cond_uid, loop_uid, unique_id>>
generatorVars == <<for_open, print_buffer, out>>
machineVars == <<ip, gf, frames, tf, calls, position>>
vars == <<parserVars, generatorVars, phase, machineVars>>

-----------------------------------------------------------------------------
(* The code generator.  An instruction is its operation and operand, the   *)
(* statement it executes (0: none) and whether it bypasses the buffer.     *)

InstrAt(op, arg, i) == [op |-> op, arg |-> arg, at |-> i, direct |-> FALSE]
Instr(op, arg) == InstrAt(op, arg, 0)

\* A variable of the program is named by its uid, one of the generator by a number.
Var(frame, name, id) == [frame |-> frame, id |-> <<name, id>>]
Label(name, id) == <<name, id>>

\* Bug: DEFVAR is kept in the buffer like the rest.
BufferedDefvar(var) == Instr("DEFVAR", var)

code_generator_defvar(var) == [op |-> "DEFVAR", arg |-> var, at |-> 0, direct |-> TRUE]

code_generator_if_header(uid) == <<Instr("JUMPIFNEQS", Label("ELSE", uid))>>
code_generator_if_else(uid) ==
  <<Instr("JUMP", Label("IF_END", uid)), Instr("LABEL", Label("ELSE", uid))>>
code_generator_if_end(uid) == <<Instr("LABEL", Label("IF_END", uid))>>

\* Bug: the condition is not evaluated again.
RepeatBody(uid) ==
  <<Instr("JUMP", Label("FOR_BODY", uid)), Instr("LABEL", Label("FOR_END", uid))>>

code_generator_for_label(uid) == <<Instr("LABEL", Label("FOR", uid))>>
code_generator_for_loop_if(uid) ==
  <<Instr("JUMPIFNEQS", Label("FOR_END", uid)), Instr("JUMP", Label("FOR_BODY", uid))>>
code_generator_for_body(uid) == <<Instr("LABEL", Label("FOR_BODY", uid))>>
code_generator_for_loop_end(uid) ==
  <<Instr("JUMP", Label("FOR", uid)), Instr("LABEL", Label("FOR_END", uid))>>

code_generator_createframe == <<Instr("CREATEFRAME", "none")>>
code_generator_pushframe == <<Instr("PUSHFRAME", "none")>>
code_generator_popframe == <<Instr("POPFRAME", "none")>>

\* ??, as an if; its DEFVARs go through the buffer.
code_generator_nil_check(uid) ==
  code_generator_createframe \o code_generator_pushframe
    \o <<Instr("DEFVAR", Var("LF", "op", 2)), Instr("USE", Var("LF", "op", 2)),
         Instr("DEFVAR", Var("LF", "op", 1)), Instr("USE", Var("LF", "op", 1))>>
    \o code_generator_if_header(uid) \o <<Instr("USE", Var("LF", "op", 1))>>
    \o code_generator_if_else(uid) \o <<Instr("USE", Var("LF", "op", 2))>>
    \o code_generator_if_end(uid)
    \o code_generator_popframe

code_generator_var_declare(var) == <<code_generator_defvar(var), Instr("USE", var)>>

\* The argument of a call is passed in the frame made for it.
Slot(frame) == Var(frame, "??", 0)

code_generator_function_call(f, i) ==
  code_generator_createframe
    \o (IF Params[f] = 0 THEN <<>>
        ELSE <<code_generator_defvar(Slot("TF")), Instr("USE", Slot("TF"))>>)
    \o <<InstrAt("CALL", Label("FUNCTION", f), i)>>

code_generator_function_label(f) ==
  <<Instr("JUMP", Label("FUNCTION", EndName[f])), Instr("LABEL", Label("FUNCTION", f))>>
    \o code_generator_pushframe

code_generator_param_map(var) ==
  <<code_generator_defvar(var), Instr("USE", Slot("LF")), Instr("USE", var)>>

code_generator_return(i) == code_generator_popframe \o <<InstrAt("RETURN", "none", i)>>

code_generator_function_end(f, i) ==
  code_generator_return(i) \o <<Instr("LABEL", Label("FUNCTION", EndName[f]))>>

\* code_generator_function_ord, code_generator_substring.  What is between the head
\* and the end has labels that no other code has and jumps to no other label; the
\* calls here do not go to it: one instruction.
code_generator_builtin(f) ==
  code_generator_function_label(f) \o <<Instr("EVAL", "none")>> \o code_generator_function_end(f, 0)

code_generator_prolog ==
  code_generator_createframe \o code_generator_pushframe
    \o code_generator_builtin("ord") \o code_generator_builtin("substring")

\* The instructions that bypass the buffer (direct), or the others.
Part(code, direct) ==
  LET F[n \in 0..Len(code)] ==
        IF n = 0 THEN <<>>
        ELSE IF code[n].direct = direct THEN Append(F[n - 1], code[n]) ELSE F[n - 1]
  IN F[Len(code)]

\* code_generator_buffer_print of each instruction, with loops open
Emit(code, loops) ==
  /\ IF loops = 0 THEN out' = out \o code /\ print_buffer' = print_buffer
     ELSE /\ out' = out \o Part(code, TRUE)
          /\ print_buffer' = print_buffer \o Part(code, FALSE)
  /\ for_open' = loops

\* Bug: the loop is printed, but counts as open.
TransmitOpen ==
  /\ print_buffer' = <<>>
  /\ out' = out \o print_buffer \o code_generator_for_loop_end(open[Len(open)].uid)
  /\ for_open' = for_open

\* code_generator_for_loop_end, with code_generator_buffer_transmit
EmitLoopEnd ==
  LET code == print_buffer \o code_generator_for_loop_end(open[Len(open)].uid)
  IN /\ for_open' = for_open - 1
     /\ IF for_open' = 0 THEN out' = out \o code /\ print_buffer' = <<>>
        ELSE print_buffer' = code /\ out' = out

-----------------------------------------------------------------------------
(* The parser.                                                             *)

Here == Len(source) + 1
Entry(kind, f, head) == [kind |-> kind, f |-> f, head |-> head]
Add(kind, f, head) == source' = Append(source, Entry(kind, f, head))

Block(kind, uid, declared) == [kind |-> kind, uid |-> uid, at |-> Here, declared |-> declared]
Top == open[Len(open)]
Below == SubSeq(open, 1, Len(open) - 1)
TopIs(kind) == open # <<>> /\ Top.kind = kind

\* The innermost scope gets a variable.
Declared(var) == [open EXCEPT ![Len(open)].declared = @ \union {var}]

Heads == {"stmt", "while", "if", "func", "call", "return"}
Written == Len(SelectSeq(source, LAMBDA s : s.kind \in Heads))
Statement == phase = "parse" /\ Written < MaxStatements

Visible == globals \union UNION {open[k].declared : k \in 1..Len(open)}

\* Bug: the number of a ?? is used again.
SameUid(nils) == cond_uid

\* cond_uid behind an expression that holds nils operators ??, 0 or 1.
UidAfter(nils) == cond_uid + nils

expr(nils) ==
  <<InstrAt("EVAL", "none", Here)>>
    \o (IF nils = 0 THEN <<>> ELSE code_generator_nil_check(cond_uid))

Init ==
  /\ source = <<>> /\ open = <<>> /\ globals = {}
  /\ cond_uid = 0 /\ loop_uid = 0 /\ unique_id = 0
  /\ for_open = 0 /\ print_buffer = <<>>
  /\ out = code_generator_prolog
  /\ phase = "parse"
  /\ ip = 1 /\ gf = {} /\ frames = <<>> /\ tf = <<>> /\ calls = <<>>
  /\ position = [at |-> 0, entered |-> FALSE]

Parse == Statement /\ UNCHANGED <<phase, machineVars>>

\* Bug: a global variable is looked for in the local frame.
AlwaysLocal == Var("LF", "var", unique_id)

\* The variable that is being defined.
NewVar == Var(IF open = <<>> THEN "GF" ELSE "LF", "var", unique_id)

define ==
  /\ Parse
  /\ Emit(expr(0) \o code_generator_var_declare(NewVar), for_open)
  /\ unique_id' = unique_id + 1
  /\ IF open = <<>> THEN globals' = globals \union {NewVar} /\ open' = open
     ELSE open' = Declared(NewVar) /\ globals' = globals
  /\ Add("stmt", "none", 0)
  /\ UNCHANGED <<cond_uid, loop_uid>>

\* expr_type: an assignment
assign(var) ==
  /\ Parse
  /\ Emit(expr(0) \o <<Instr("USE", var)>>, for_open)
  /\ Add("stmt", "none", 0)
  /\ UNCHANGED <<open, globals, cond_uid, loop_uid, unique_id>>

while(nils) ==
  /\ Parse
  /\ LET closing_loop_uid == loop_uid
     IN /\ Emit(code_generator_for_label(closing_loop_uid) \o expr(nils)
                  \o code_generator_for_loop_if(closing_loop_uid)
                  \o code_generator_for_body(closing_loop_uid), for_open + 1)
        /\ open' = Append(open, Block("while", closing_loop_uid, {}))
  /\ cond_uid' = UidAfter(nils)
  /\ loop_uid' = loop_uid + 1
  /\ Add("while", "none", 0)
  /\ UNCHANGED <<globals, unique_id>>

\* if, or if let, which declares a constant for the if body
if(nils, let) ==
  LET constant == Var("LF", "var", unique_id)
      closing_uid == UidAfter(nils)
  IN /\ Parse /\ (let => nils = 0)
     /\ Emit(expr(nils)
               \o (IF let THEN code_generator_var_declare(constant) ELSE <<>>)
               \o code_generator_if_header(closing_uid), for_open)
     /\ open' = Append(open, Block("if", closing_uid, IF let THEN {constant} ELSE {}))
     /\ cond_uid' = closing_uid + 1
     /\ unique_id' = IF let THEN unique_id + 1 ELSE unique_id
     /\ Add("if", "none", 0)
     /\ UNCHANGED <<globals, loop_uid>>

CloseUnchanged == UNCHANGED <<globals, cond_uid, loop_uid, unique_id, phase, machineVars>>

else ==
  /\ phase = "parse" /\ TopIs("if")
  /\ Emit(code_generator_if_else(Top.uid), for_open)
  /\ open' = Append(Below, [Top EXCEPT !.kind = "else", !.declared = {}])
  /\ Add("else", "none", Top.at)
  /\ CloseUnchanged

EndIf ==
  /\ phase = "parse" /\ TopIs("else")
  /\ Emit(code_generator_if_end(Top.uid), for_open)
  /\ open' = Below
  /\ Add("endif", "none", Top.at)
  /\ CloseUnchanged

EndWhile ==
  /\ phase = "parse" /\ TopIs("while")
  /\ EmitLoopEnd
  /\ open' = Below
  /\ Add("endwhile", "none", Top.at)
  /\ CloseUnchanged

Defined == {source[i].f : i \in {j \in 1..Len(source) : source[j].kind = "func"}}
Called == {source[i].f : i \in {j \in 1..Len(source) : source[j].kind = "call"}}
Known == Defined \union Builtins
CurrentFunction == source[open[1].at].f
InFunction == open # <<>> /\ open[1].kind = "func"

func(f) ==
  LET param == Var("LF", "var", unique_id)
  IN /\ Parse /\ open = <<>> /\ f \notin Defined
     /\ Emit(code_generator_function_label(f)
               \o (IF Params[f] = 0 THEN <<>> ELSE code_generator_param_map(param)), for_open)
     /\ open' = <<Block("func", 0, IF Params[f] = 0 THEN {} ELSE {param})>>
     /\ unique_id' = unique_id + Params[f]
     /\ Add("func", f, 0)
     /\ UNCHANGED <<globals, cond_uid, loop_uid>>

EndFunc ==
  /\ phase = "parse" /\ TopIs("func")
  /\ Emit(code_generator_function_end(CurrentFunction, Here), for_open)
  /\ open' = <<>>
  /\ Add("endfunc", "none", Top.at)
  /\ CloseUnchanged

call(f) ==
  /\ Parse
  /\ Emit(code_generator_function_call(f, Here), for_open)
  /\ Add("call", f, 0)
  /\ UNCHANGED <<open, globals, cond_uid, loop_uid, unique_id>>

return ==
  /\ Parse /\ InFunction
  /\ Emit(code_generator_return(Here), for_open)
  /\ Add("return", "none", 0)
  /\ UNCHANGED <<open, globals, cond_uid, loop_uid, unique_id>>

\* code_generator_eof; a call of a function that is nowhere defined is an error.
Eof ==
  /\ phase = "parse" /\ open = <<>> /\ Called \subseteq Defined
  /\ Emit(<<InstrAt("LABEL", Label("EOF", 0), Here)>>, for_open)
  /\ Add("eof", "none", 0)
  /\ phase' = "load"
  /\ UNCHANGED <<open, globals, cond_uid, loop_uid, unique_id, machineVars>>

-----------------------------------------------------------------------------
(* The machine.                                                            *)

Current == out[ip]
Running(ops) == phase = "run" /\ ip <= Len(out) /\ Current.op \in ops
Targets(label) == {i \in 1..Len(out) : out[i].op = "LABEL" /\ out[i].arg = label}

\* A label that is defined twice or not at all is an error before the first
\* instruction is executed.
LabelsUnique ==
  \A i, j \in 1..Len(out) :
    out[i].op = "LABEL" /\ out[j].op = "LABEL" /\ out[i].arg = out[j].arg => i = j
LabelsDefined ==
  \A i \in 1..Len(out) :
    out[i].op \in {"JUMP", "JUMPIFNEQS", "CALL"} => Targets(out[i].arg) # {}

Load ==
  /\ phase = "load"
  /\ phase' = IF LabelsUnique /\ LabelsDefined THEN "run" ELSE "rejected"
  /\ UNCHANGED <<parserVars, generatorVars, machineVars>>

\* The frames that exist under a name, at most one; a frame holds identifiers.
Frame(name) ==
  CASE name = "GF" -> {gf}
    [] name = "LF" -> IF frames = <<>> THEN {} ELSE {Last(frames)}
    [] name = "TF" -> {tf[k] : k \in 1..Len(tf)}
IsDeclared(var) == \E frame \in Frame(var.frame) : var.id \in frame
CanDeclare(var) == \E frame \in Frame(var.frame) : var.id \notin frame

Executed == position' = IF Current.at = 0 THEN position
                        ELSE [at |-> Current.at, entered |-> FALSE]

Compute ==
  /\ Running({"EVAL", "LABEL"})
  /\ ip' = ip + 1
  /\ Executed
  /\ UNCHANGED <<gf, frames, tf, calls>>

Jump ==
  /\ Running({"JUMP", "JUMPIFNEQS"})
  /\ \/ ip' \in Targets(Current.arg)
     \/ Current.op = "JUMPIFNEQS" /\ ip' = ip + 1
  /\ UNCHANGED <<gf, frames, tf, calls, position>>

Use ==
  /\ Running({"USE"}) /\ IsDeclared(Current.arg)
  /\ ip' = ip + 1
  /\ UNCHANGED <<gf, frames, tf, calls, position>>

Defvar ==
  LET var == Current.arg
  IN /\ Running({"DEFVAR"}) /\ CanDeclare(var)
     /\ gf' = IF var.frame = "GF" THEN gf \union {var.id} ELSE gf
     /\ frames' = IF var.frame = "LF" THEN [frames EXCEPT ![Len(frames)] = @ \union {var.id}]
                  ELSE frames
     /\ tf' = IF var.frame = "TF" THEN <<tf[1] \union {var.id}>> ELSE tf
     /\ ip' = ip + 1
     /\ UNCHANGED <<calls, position>>

Createframe ==
  /\ Running({"CREATEFRAME"})
  /\ tf' = <<{}>> /\ ip' = ip + 1
  /\ UNCHANGED <<gf, frames, calls, position>>

Pushframe ==
  /\ Running({"PUSHFRAME"}) /\ tf # <<>>
  /\ frames' = frames \o tf /\ tf' = <<>> /\ ip' = ip + 1
  /\ UNCHANGED <<gf, calls, position>>

Popframe ==
  /\ Running({"POPFRAME"}) /\ frames # <<>>
  /\ tf' = <<Last(frames)>> /\ frames' = Front(frames) /\ ip' = ip + 1
  /\ UNCHANGED <<gf, calls, position>>

Call ==
  /\ Running({"CALL"}) /\ Len(calls) < MaxCalls
  /\ ip' \in Targets(Current.arg)
  /\ calls' = Append(calls, ip + 1)
  /\ position' = [at |-> Current.at, entered |-> TRUE]
  /\ UNCHANGED <<gf, frames, tf>>

Return ==
  /\ Running({"RETURN"}) /\ calls # <<>>
  /\ ip' = Last(calls)
  /\ calls' = Front(calls)
  /\ position' = [at |-> out[ip' - 1].at, entered |-> FALSE]
  /\ UNCHANGED <<gf, frames, tf>>

Machine == Compute \/ Jump \/ Use \/ Defvar \/ Createframe \/ Pushframe \/ Popframe
             \/ Call \/ Return

Next ==
  \/ define
  \/ \E nils \in 0..1 : while(nils) \/ \E let \in BOOLEAN : if(nils, let)
  \/ \E var \in Visible : assign(var)
  \/ \E f \in Functions : func(f) \/ call(f)
  \/ else \/ EndIf \/ EndWhile \/ EndFunc \/ return \/ Eof \/ Load
  \/ Machine /\ UNCHANGED <<parserVars, generatorVars, phase>>

Spec == Init /\ [][Next]_vars

-----------------------------------------------------------------------------
(* Properties.                                                             *)

\* The variables have their types, and the machine is within the output.
TypeOK ==
  /\ for_open = Cardinality({k \in 1..Len(open) : open[k].kind = "while"})
  /\ {cond_uid, loop_uid, unique_id} \subseteq Nat
  /\ phase \in {"parse", "load", "run", "rejected"}
  /\ ip \in 1..(Len(out) + 1) /\ Len(tf) <= 1 /\ Len(calls) <= MaxCalls
  /\ position.at \in 0..Len(source)

\* A function f and one named END_f, where f may be built in: the end of the one
\* has the label of the other.
NameClash == \E f \in Known : EndName[f] \in Known

\* The machine accepts the labels of every program without such a clash, and of
\* no other: each label is printed once, and so is that of every jump.  No two
\* ifs, loops or ?? share a number, however they are nested, and nothing that was
\* kept back in the buffer is lost.
LabelsResolve ==
  /\ phase = "rejected" => NameClash
  /\ phase = "run" => ~NameClash
  /\ phase # "parse" => print_buffer = <<>>

\* An argument that is passed inside a loop: its DEFVAR leaves the loop, its
\* frame does not, and the DEFVAR is executed in the frame an earlier call left.
ArgumentInLoop ==
  \E i \in 2..Len(out) : out[i].op = "DEFVAR" /\ out[i].arg = Slot("TF")
                           /\ out[i - 1].op # "CREATEFRAME"

\* A variable is never declared a second time in its frame, whatever is executed
\* repeatedly: loops in loops, functions called in loops, declarations in them.
NoRedeclaration ==
  ~ArgumentInLoop => (Running({"DEFVAR"}) => ~IsDeclared(Current.arg))

\* What an instruction names is declared when it is executed, in the frame that
\* is then current.  In a function that is called before a global variable was
\* declared, the variable is not.
DeclaredWhenUsed ==
  ~ArgumentInLoop =>
    /\ Running({"USE"}) /\ (Current.arg.frame = "GF" => calls = <<>>) => IsDeclared(Current.arg)
    /\ Running({"DEFVAR"}) => Frame(Current.arg.frame) # {}
    /\ Running({"POPFRAME"}) => Len(frames) > 1
    /\ Running({"PUSHFRAME"}) => tf # <<>>

Flow == INSTANCE SourceFlow WITH
  program <- IF phase = "run" THEN source ELSE <<>>,
  returns <- [k \in 1..Len(calls) |-> out[calls[k] - 1].at]

\* The code executes the statements in an order that the program allows.
FollowsSource == Flow!Spec
=============================================================================
