------------------------------- MODULE Scope -------------------------------
(***************************************************************************)
(* The stack of local symbol tables (scope.c) over the global table.       *)
(*                                                                         *)
(* tabs[1] is the global table, tabs[2], tabs[3], ... the scopes from the  *)
(* outermost to the innermost one.  A table maps a name to its item or to  *)
(* NULL: what Symtable promises as long as its searches end (SymtableAbs). *)
(* A search answers with the index of the table it found the name in, or   *)
(* with 0.                                                                 *)
(***************************************************************************)
EXTENDS Integers, Sequences, FiniteSetsExt

CONSTANTS
  Names,  \* the identifiers of the program
  NULL

GLOBAL == 1
NONE == 0

EmptyTable == [n \in Names |-> NULL]

add_scope(tabs) == Append(tabs, EmptyTable)
pop_scope(tabs) == SubSeq(tabs, 1, Len(tabs) - 1)

Innermost(depths) == IF depths = {} THEN NONE ELSE Max(depths)

\* The scopes up to top are searched; the innermost one is Len(tabs), that of
\* stack->next is below it.
search_scopes(tabs, top, id) ==
  Innermost({d \in 2..top : tabs[d][id] # NULL})

\* Bug: a declaration that is not initialized hides the outer one.
SearchDeclared(tabs, top, id) == Innermost({d \in 2..top : tabs[d][id] # NULL})

search_scopes_initialized_var(tabs, top, id) ==
  Innermost({d \in 2..top : tabs[d][id] # NULL /\ tabs[d][id].init})

\* symtable_search(&p->global_symtab, ...) where the scopes have no such name.
OrGlobal(tabs, d, id) ==
  IF d = NONE /\ tabs[GLOBAL][id] # NULL THEN GLOBAL ELSE d
=============================================================================
