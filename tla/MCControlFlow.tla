--------------------------- MODULE MCControlFlow ---------------------------
(* Instances of ControlFlow. *)
EXTENDS ControlFlow, TLC

\* A function with a parameter, one whose name is END_ and the name of the first,
\* and one whose name is END_ and the name of a built-in function.
ThreeFunctions == "f" :> 1 @@ "END_f" :> 0 @@ "END_ord" :> 0
EndNames ==
  [name \in DOMAIN ThreeFunctions \union Builtins |->
     CASE name = "f" -> "END_f"
       [] name = "END_f" -> "END_END_f"
       [] name = "ord" -> "END_ord"
       [] name = "END_ord" -> "END_END_ord"
       [] name = "substring" -> "END_substring"]
=============================================================================
