---------------------------- MODULE TokenBuffer ----------------------------
(***************************************************************************)
(* The doubly linked list of tokens with its runner (token_buffer.c).      *)
(*                                                                         *)
(* nodes is the memory of the list, from the address of a node to its      *)
(* token and its two pointers; the allocator hands out the addresses 1, 2, *)
(* 3, ... and allocated is the last of them.                               *)
(***************************************************************************)
EXTENDS Integers, Sequences

CONSTANT Tokens  \* what a token may be

VARIABLES head, runner, nodes, allocated

tbvars == <<head, runner, nodes, allocated>>

NULL == 0

Node(token, prev) == [token |-> token, next |-> NULL, prev |-> prev]

tb_init == head = NULL /\ runner = NULL /\ nodes = << >> /\ allocated = 0

tb_peek == head # NULL

tb_get_token == nodes[runner].token

\* The end of the list, which tb_push looks for from the runner on.
LastNode == CHOOSE a \in DOMAIN nodes : nodes[a].next = NULL

\* Bug: the new node is linked behind the runner.
PushAtRunner(token) ==
  LET a == allocated + 1
  IN /\ allocated' = a
     /\ IF ~tb_peek
        THEN head' = a /\ runner' = a /\ nodes' = [i \in {a} |-> Node(token, NULL)]
        ELSE /\ nodes' = [i \in DOMAIN nodes \union {a} |->
                            CASE i = a -> Node(token, runner)
                              [] i = runner -> [nodes[i] EXCEPT !.next = a]
                              [] OTHER -> nodes[i]]
             /\ UNCHANGED <<head, runner>>

tb_push(token) ==
  LET a == allocated + 1
  IN /\ allocated' = a
     /\ IF ~tb_peek
        THEN head' = a /\ runner' = a /\ nodes' = [i \in {a} |-> Node(token, NULL)]
        ELSE /\ nodes' = [i \in DOMAIN nodes \union {a} |->
                            CASE i = a -> Node(token, LastNode)
                              [] i = LastNode -> [nodes[i] EXCEPT !.next = a]
                              [] OTHER -> nodes[i]]
             /\ UNCHANGED <<head, runner>>

\* malloc fails: EXIT_FAILURE, and the list is as it was.
tb_push_fails == UNCHANGED tbvars

\* Bug: the last node is never reached.
NextButLast ==
  /\ tb_peek
  /\ runner' = IF nodes[runner].next # NULL /\ nodes[nodes[runner].next].next # NULL
               THEN nodes[runner].next ELSE runner
  /\ UNCHANGED <<head, nodes, allocated>>

tb_next ==
  /\ tb_peek
  /\ runner' = IF nodes[runner].next # NULL THEN nodes[runner].next ELSE runner
  /\ UNCHANGED <<head, nodes, allocated>>

tb_prev ==
  /\ tb_peek
  /\ runner' = IF nodes[runner].prev # NULL THEN nodes[runner].prev ELSE runner
  /\ UNCHANGED <<head, nodes, allocated>>

\* buffer.runner = buffer.head
Rewind == runner' = head /\ UNCHANGED <<head, nodes, allocated>>

\* Bug: the head stays.
PopRunner ==
  /\ tb_peek
  /\ nodes' = [i \in DOMAIN nodes \ {runner} |-> nodes[i]]
  /\ runner' = nodes[runner].next
  /\ UNCHANGED <<head, allocated>>

\* The current node is unlinked and freed.  Only tb_dispose calls it, with the
\* runner on the head.
tb_pop ==
  LET n == nodes[runner]
  IN /\ tb_peek
     /\ nodes' = [i \in DOMAIN nodes \ {runner} |->
                    CASE i = n.prev -> [nodes[i] EXCEPT !.next = n.next]
                      [] i = n.next -> [nodes[i] EXCEPT !.prev = n.prev]
                      [] OTHER -> nodes[i]]
     /\ head' = IF runner = head THEN n.next ELSE head
     /\ runner' = n.next
     /\ UNCHANGED allocated

Init == tb_init

Next ==
  \/ \E token \in Tokens : tb_push(token)
  \/ tb_push_fails
  \/ tb_next \/ tb_prev \/ Rewind
  \/ runner = head /\ tb_pop

Spec == Init /\ [][Next]_tbvars

-----------------------------------------------------------------------------
\* The nodes of the list are the last ones that were allocated, in this order,
\* and each points to its neighbours; the runner is on one of them.
NodeList ==
  /\ allocated \in Nat
  /\ IF head = NULL THEN runner = NULL
     ELSE /\ head \in 1..allocated
          /\ runner \in head..allocated
          /\ nodes \in [head..allocated -> [token : Tokens, next : Nat, prev : Nat]]
          /\ \A i \in head..allocated :
               /\ nodes[i].next = IF i = allocated THEN NULL ELSE i + 1
               /\ nodes[i].prev = IF i = head THEN NULL ELSE i - 1

(* Refinement: the list read from its head.                                *)

Listed == [i \in 1..(IF tb_peek THEN allocated - head + 1 ELSE 0) |-> nodes[head + i - 1].token]
Position == IF tb_peek THEN runner - head + 1 ELSE 0

Sequence == INSTANCE TokenBufferAbs WITH tokens <- Listed, position <- Position

\* The linked list with its runner is the sequence of the tokens that were
\* pushed with a position in it: no sequence of tb_push, tb_next, tb_prev, of
\* going back to the head and of freeing the list loses, repeats or reorders a
\* token or leaves the list.
BufferIsSequence == Sequence!Spec
=============================================================================
