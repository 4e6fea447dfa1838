----------------------------- MODULE DynString -----------------------------
(***************************************************************************)
(* The dynamic string (dyn_string.c): the characters str and the number of *)
(* bytes allocated for them, the terminating '\0' included.  A character   *)
(* is its code; length is Len(str).                                        *)
(*                                                                         *)
(* Whether realloc can fail is decided where an operation is used: it can  *)
(* where the result has another alloc_size.                                *)
(***************************************************************************)
EXTENDS Integers, Sequences

CONSTANT AllocSize  \* DSTR_ALLOC_SIZE

\* With one byte the first character would be written over the '\0'.
ASSUME AllocSizeAssumption == AllocSize \in Nat /\ AllocSize >= 2

DString == [str : Seq(Int), alloc_size : Nat]

dstring_init == [str |-> <<>>, alloc_size |-> AllocSize]

dstring_clear(d) == [d EXCEPT !.str = <<>>]

\* Bug: no room is kept for the terminating '\0'.
AppendTight(d, c) ==
  [str |-> Append(d.str, c),
   alloc_size |-> IF Len(d.str) >= d.alloc_size THEN Len(d.str) + AllocSize
                  ELSE d.alloc_size]

dstring_append(d, c) ==
  [str |-> Append(d.str, c),
   alloc_size |-> IF Len(d.str) + 1 >= d.alloc_size THEN Len(d.str) + AllocSize
                  ELSE d.alloc_size]

dstring_add_const_str(d, s) ==
  LET new_size == Len(d.str) + Len(s) + 1
  IN [str |-> d.str \o s,
      alloc_size |-> IF new_size >= d.alloc_size THEN new_size ELSE d.alloc_size]

\* strcpy of a string without a '\0' of its own.
dstring_copy(src, dst) ==
  [str |-> src.str,
   alloc_size |-> IF Len(src.str) >= dst.alloc_size THEN Len(src.str) + 1
                  ELSE dst.alloc_size]

\* Only called with count <= length.
dstring_retract(d, count) == [d EXCEPT !.str = SubSeq(d.str, 1, Len(d.str) - count)]

\* The characters and the '\0' behind them lie in the allocated memory.
Fits(d) == Len(d.str) + 1 <= d.alloc_size
=============================================================================
