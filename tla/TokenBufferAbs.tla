--------------------------- MODULE TokenBufferAbs ---------------------------
(***************************************************************************)
(* What token_buffer.h promises: the tokens in the order they were read,   *)
(* and a position among them that moves one token at a time and stays      *)
(* within them.                                                            *)
(***************************************************************************)
EXTENDS Integers, Sequences

VARIABLES
  tokens,   \* the tokens that are buffered
  position  \* the one that is current, 0 if there is none

Init == tokens = <<>> /\ position = 0

\* A token is added behind the others; the first one becomes current.
Push ==
  /\ Len(tokens') = Len(tokens) + 1
  /\ SubSeq(tokens', 1, Len(tokens)) = tokens
  /\ position' = IF tokens = <<>> THEN 1 ELSE position

\* The current token changes to a neighbour or back to the first one.
Move ==
  /\ tokens' = tokens
  /\ position' \in {position - 1, position + 1, 1} \intersect 1..Len(tokens)

\* tb_dispose: the first token is freed.
Drop ==
  /\ tokens # <<>>
  /\ tokens' = Tail(tokens)
  /\ position' = IF tokens' = <<>> THEN 0 ELSE 1

Next == Push \/ Move \/ Drop

Spec == Init /\ [][Next]_<<tokens, position>>
=============================================================================
