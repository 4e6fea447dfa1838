----------------------------- MODULE SourceFlow -----------------------------
(***************************************************************************)
(* What the statements of a program mean, without any code: the order in   *)
(* which they may be executed.                                             *)
(*                                                                         *)
(* A program is the sequence of its statements and of the heads and ends   *)
(* of its blocks; head is the position of the head of the block that an    *)
(* else or an end belongs to, f the function of a func or call.            *)
(***************************************************************************)
EXTENDS Integers, Sequences

VARIABLES
  program,   \* empty until it is complete
  position,  \* the statement executed last; entered: a call that has not returned
  returns    \* the calls that are open

vars == <<program, position, returns>>

Nowhere == [at |-> 0, entered |-> FALSE]

Kind(i) == program[i].kind

\* What is executed: a condition for while and if.
Statements == {"stmt", "while", "if", "call", "return", "endfunc", "eof"}

PartOf(head, kind) == CHOOSE j \in 1..Len(program) : Kind(j) = kind /\ program[j].head = head
Definition(f) == CHOOSE j \in 1..Len(program) : Kind(j) = "func" /\ program[j].f = f

\* The statement that is executed when control comes to position i.
Land ==
  LET L[i \in 1..Len(program)] ==
        CASE Kind(i) \in Statements -> i
          [] Kind(i) = "else" -> L[PartOf(program[i].head, "endif") + 1]
          [] Kind(i) = "endif" -> L[i + 1]
          [] Kind(i) = "endwhile" -> program[i].head
          [] Kind(i) = "func" -> L[PartOf(i, "endfunc") + 1]
  IN L

\* The statements that may be executed next.
Successors ==
  LET i == position.at
  IN CASE i = 0 -> {Land[1]}
       [] i # 0 /\ position.entered -> {Land[Definition(program[i].f) + 1]}
       [] OTHER ->
            CASE Kind(i) = "while" -> {Land[i + 1], Land[PartOf(i, "endwhile") + 1]}
              [] Kind(i) = "if" -> {Land[i + 1], Land[PartOf(i, "else") + 1]}
              [] Kind(i) = "eof" -> {}
              [] OTHER -> {Land[i + 1]}

Init == program = <<>> /\ position = Nowhere /\ returns = <<>>

Load ==
  /\ program = <<>> /\ program' # <<>>
  /\ UNCHANGED <<position, returns>>

Execute(i) ==
  /\ Kind(i) \in {"stmt", "while", "if", "eof"}
  /\ position' = [at |-> i, entered |-> FALSE]
  /\ UNCHANGED <<program, returns>>

Enter(i) ==
  /\ Kind(i) = "call"
  /\ position' = [at |-> i, entered |-> TRUE]
  /\ returns' = Append(returns, i)
  /\ UNCHANGED program

Leave(i) ==
  /\ Kind(i) \in {"return", "endfunc"}
  /\ position' = [at |-> returns[Len(returns)], entered |-> FALSE]
  /\ returns' = SubSeq(returns, 1, Len(returns) - 1)
  /\ UNCHANGED program

Next ==
  \/ Load
  \/ program # <<>> /\ \E i \in Successors : Execute(i) \/ Enter(i) \/ Leave(i)

Spec == Init /\ [][Next]_vars
=============================================================================
