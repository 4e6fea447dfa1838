--------------------------- MODULE CodeGenerator ---------------------------
(***************************************************************************)
(* The part of the code generator that names variables and chooses where   *)
(* an instruction goes (code_generator.c).  While a loop is open every     *)
(* instruction is kept in print_buffer until the outermost loop ends;      *)
(* DEFVAR always goes to stdout at once.                                   *)
(*                                                                         *)
(* An instruction keeps its operation, the variable it names (addr), the   *)
(* one the parser meant (want) and whether it went to the buffer.          *)
(***************************************************************************)
EXTENDS Scope

\* A variable is named by its frame and the uid of its item.
Addr(frame, uid) == [frame |-> frame, uid |-> uid]
LiteralAddr == Addr("literal", 0)

AddrOf(tabs, d, id) == Addr(IF d = GLOBAL THEN "GF" ELSE "LF", tabs[d][id].uid)

\* code_generator_get_var_uid and code_generator_get_var_frame
VarAddr(tabs, id, initialized) ==
  LET local == IF initialized THEN search_scopes_initialized_var(tabs, Len(tabs), id)
               ELSE search_scopes(tabs, Len(tabs), id)
      d == OrGlobal(tabs, local, id)
  IN IF d = NONE THEN Addr("LF", 0) ELSE AddrOf(tabs, d, id)

\* BUFFER_PRINT
Instr(op, addr, want, loops) ==
  [op |-> op, addr |-> addr, want |-> want, buffered |-> loops > 0]

code_generator_defvar(addr, want) ==
  [op |-> "DEFVAR", addr |-> addr, want |-> want, buffered |-> FALSE]

\* code_generator_push of an identifier the parser found in table d
PushVar(tabs, d, id, loops) ==
  Instr("PUSHS", VarAddr(tabs, id, TRUE), AddrOf(tabs, d, id), loops)

PushLiteral(loops) == Instr("PUSHS", LiteralAddr, LiteralAddr, loops)

\* Bug: the value is left on the stack.
LeaveOnStack(tabs, d, id, loops) == <<>>

code_generator_var_assign(tabs, d, id, loops) ==
  << Instr("POPS", VarAddr(tabs, id, TRUE), AddrOf(tabs, d, id), loops) >>

\* Bug: a declaration only assigns.
AssignOnly(tabs, d, id, loops) ==
  << Instr("POPS", VarAddr(tabs, id, FALSE), AddrOf(tabs, d, id), loops) >>

code_generator_var_declare(tabs, d, id, loops) ==
  LET addr == VarAddr(tabs, id, FALSE)
  IN << code_generator_defvar(addr, AddrOf(tabs, d, id)),
        Instr("POPS", addr, AddrOf(tabs, d, id), loops) >>

\* code_generator_param_map: the k-th parameter of a function
code_generator_param_map(tabs, d, id, loops) ==
  LET addr == VarAddr(tabs, id, FALSE)
  IN << code_generator_defvar(addr, AddrOf(tabs, d, id)),
        Instr("MOVE", addr, AddrOf(tabs, d, id), loops) >>

\* Bug: the arguments are numbered from 1.
ArgumentsFromOne(framed, k, addr, want, loops) ==
  IF ~framed THEN << Instr("TAKE", addr, want, loops) >>
  ELSE LET slot == Addr("TF", k + 1)
       IN (IF k = 0 THEN << Instr("CREATEFRAME", LiteralAddr, LiteralAddr, loops) >> ELSE <<>>)
          \o << code_generator_defvar(slot, slot), Instr("MOVE", slot, slot, loops),
                Instr("READ", addr, want, loops) >>

\* The k-th argument (k = 0, 1, ...) of a function that is called with a frame;
\* the built-in functions without one take the value itself.
code_generator_function_call_param_add(framed, k, addr, want, loops) ==
  IF ~framed THEN << Instr("TAKE", addr, want, loops) >>
  ELSE LET slot == Addr("TF", k)
       IN (IF k = 0 THEN << Instr("CREATEFRAME", LiteralAddr, LiteralAddr, loops) >> ELSE <<>>)
          \o << code_generator_defvar(slot, slot), Instr("MOVE", slot, slot, loops),
                Instr("READ", addr, want, loops) >>
=============================================================================
