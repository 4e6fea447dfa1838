------------------------- MODULE TokenBuffer_proofs -------------------------
(***************************************************************************)
(* The linked list of TokenBuffer implements the sequence of               *)
(* TokenBufferAbs, for every set of tokens and any number of them.         *)
(***************************************************************************)
EXTENDS TokenBuffer, SequenceTheorems, TLAPS

-----------------------------------------------------------------------------
(* The list is well-formed.                                                *)

\* tb_push finds the end of the list.
LEMMA LastNodeIsLast ==
  ASSUME NodeList, head # NULL
  PROVE  LastNode = allocated
<1>1. /\ DOMAIN nodes = head..allocated /\ allocated \in head..allocated
      /\ nodes[allocated].next = NULL
  BY DEF NodeList, NULL
<1>2. \A i \in head..allocated : nodes[i].next = NULL => i = allocated
  BY DEF NodeList, NULL
<1> QED BY <1>1, <1>2 DEF LastNode

\* What tb_push does to the nodes of a list.
LEMMA PushNodes ==
  ASSUME NodeList, head # NULL, NEW token \in Tokens, tb_push(token)
  PROVE  /\ allocated' = allocated + 1 /\ head' = head /\ runner' = runner
         /\ DOMAIN nodes' = head..(allocated + 1)
         /\ nodes' = [i \in head..(allocated + 1) |->
              IF i = allocated + 1 THEN Node(token, allocated)
              ELSE IF i = allocated THEN [nodes[i] EXCEPT !.next = allocated + 1]
              ELSE nodes[i]]
<1>1. LastNode = allocated
  BY LastNodeIsLast
<1>2. head \in 1..allocated /\ allocated \in Nat /\ DOMAIN nodes = head..allocated
  BY DEF NodeList
<1>3. head..allocated \union {allocated + 1} = head..(allocated + 1)
  BY <1>2
<1>4. /\ allocated' = allocated + 1 /\ UNCHANGED <<head, runner>>
      /\ nodes' = [i \in head..(allocated + 1) |->
                     CASE i = allocated + 1 -> Node(token, allocated)
                       [] i = allocated -> [nodes[i] EXCEPT !.next = allocated + 1]
                       [] OTHER -> nodes[i]]
  BY <1>1, <1>2, <1>3 DEF tb_push, tb_peek
<1>5. nodes' = [i \in head..(allocated + 1) |->
              IF i = allocated + 1 THEN Node(token, allocated)
              ELSE IF i = allocated THEN [nodes[i] EXCEPT !.next = allocated + 1]
              ELSE nodes[i]]
  BY <1>2, <1>4
<1> QED BY <1>4, <1>5

\* What tb_pop does to the nodes when the runner is on the head.
LEMMA PopNodes ==
  ASSUME NodeList, runner = head, tb_pop
  PROVE  /\ head # NULL /\ allocated' = allocated
         /\ head' = (IF head = allocated THEN NULL ELSE head + 1)
         /\ runner' = head'
         /\ nodes' = [i \in (head + 1)..allocated |->
              IF i = head + 1 THEN [nodes[i] EXCEPT !.prev = NULL] ELSE nodes[i]]
<1>1. head # NULL /\ head \in 1..allocated /\ allocated \in Nat /\ DOMAIN nodes = head..allocated
  BY DEF tb_pop, tb_peek, NodeList
<1>2. /\ nodes[head].prev = NULL
      /\ nodes[head].next = IF head = allocated THEN NULL ELSE head + 1
  BY <1>1 DEF NodeList
<1>3. (head..allocated) \ {head} = (head + 1)..allocated
  BY <1>1
<1>4. /\ allocated' = allocated /\ head' = nodes[head].next /\ runner' = nodes[head].next
      /\ nodes' = [i \in (head + 1)..allocated |->
                    CASE i = nodes[head].prev -> [nodes[i] EXCEPT !.next = nodes[head].next]
                      [] i = nodes[head].next -> [nodes[i] EXCEPT !.prev = nodes[head].prev]
                      [] OTHER -> nodes[i]]
  BY <1>1, <1>3 DEF tb_pop
<1>5. nodes' = [i \in (head + 1)..allocated |->
         IF i = head + 1 THEN [nodes[i] EXCEPT !.prev = NULL] ELSE nodes[i]]
  <2>1. \A i \in (head + 1)..allocated : i # NULL /\ head # allocated
    BY <1>1 DEF NULL
  <2> QED BY <1>2, <1>4, <2>1
<1> QED BY <1>1, <1>2, <1>4, <1>5

\* Every operation keeps the list well-formed.
LEMMA NodeListNext == NodeList /\ [Next]_tbvars => NodeList'
<1> SUFFICES ASSUME NodeList, [Next]_tbvars PROVE NodeList'
  OBVIOUS
<1>1. ASSUME NEW token \in Tokens, tb_push(token) PROVE NodeList'
  <2>1. CASE head = NULL
    <3>1. /\ allocated' = allocated + 1 /\ head' = allocated + 1 /\ runner' = allocated + 1
          /\ nodes' = [i \in {allocated + 1} |-> Node(token, NULL)]
      BY <1>1, <2>1 DEF tb_push, tb_peek
    <3>2. allocated \in Nat /\ head'..allocated' = {allocated + 1}
      BY <3>1 DEF NodeList
    <3> QED BY <3>1, <3>2 DEF NodeList, Node, NULL
  <2>2. CASE head # NULL
    <3>1. /\ allocated' = allocated + 1 /\ head' = head /\ runner' = runner
          /\ nodes' = [i \in head..(allocated + 1) |->
              IF i = allocated + 1 THEN Node(token, allocated)
              ELSE IF i = allocated THEN [nodes[i] EXCEPT !.next = allocated + 1]
              ELSE nodes[i]]
      BY <1>1, <2>2, PushNodes
    <3>2. /\ allocated \in Nat /\ head \in 1..allocated /\ runner \in head..allocated
          /\ \A i \in head..allocated :
               /\ nodes[i] \in [token : Tokens, next : Nat, prev : Nat]
               /\ nodes[i].next = IF i = allocated THEN NULL ELSE i + 1
               /\ nodes[i].prev = IF i = head THEN NULL ELSE i - 1
      BY <2>2 DEF NodeList
    <3>3. ASSUME NEW i \in head'..allocated'
          PROVE  /\ nodes'[i] \in [token : Tokens, next : Nat, prev : Nat]
                 /\ nodes'[i].next = IF i = allocated' THEN NULL ELSE i + 1
                 /\ nodes'[i].prev = IF i = head' THEN NULL ELSE i - 1
      <4>1. CASE i = allocated + 1
        BY <3>1, <3>2, <4>1 DEF Node, NULL
      <4>2. CASE i = allocated
        BY <3>1, <3>2, <4>2 DEF NULL
      <4>3. CASE i \in head..(allocated - 1)
        BY <3>1, <3>2, <4>3
      <4>4. i = allocated + 1 \/ i = allocated \/ i \in head..(allocated - 1)
        <5>1. i \in head..(allocated + 1)
          BY <3>1
        <5> QED BY <3>2, <5>1
      <4> QED BY <4>1, <4>2, <4>3, <4>4
    <3>4. head' # NULL /\ head' \in 1..allocated' /\ runner' \in head'..allocated' /\ allocated' \in Nat
      BY <2>2, <3>1, <3>2
    <3> QED BY <3>1, <3>3, <3>4 DEF NodeList
  <2> QED BY <2>1, <2>2
<1>2. ASSUME runner = head, tb_pop PROVE NodeList'
  <2>1. /\ head # NULL /\ allocated' = allocated
        /\ head' = (IF head = allocated THEN NULL ELSE head + 1)
        /\ runner' = head'
        /\ nodes' = [i \in (head + 1)..allocated |->
              IF i = head + 1 THEN [nodes[i] EXCEPT !.prev = NULL] ELSE nodes[i]]
    BY <1>2, PopNodes
  <2>2. /\ allocated \in Nat /\ head \in 1..allocated
        /\ \A i \in head..allocated :
             /\ nodes[i] \in [token : Tokens, next : Nat, prev : Nat]
             /\ nodes[i].next = IF i = allocated THEN NULL ELSE i + 1
             /\ nodes[i].prev = IF i = head THEN NULL ELSE i - 1
    BY <2>1 DEF NodeList
  <2>3. CASE head = allocated
    BY <2>1, <2>2, <2>3 DEF NodeList
  <2>4. CASE head # allocated
    <3>1. ASSUME NEW i \in head'..allocated'
          PROVE  /\ nodes'[i] \in [token : Tokens, next : Nat, prev : Nat]
                 /\ nodes'[i].next = IF i = allocated' THEN NULL ELSE i + 1
                 /\ nodes'[i].prev = IF i = head' THEN NULL ELSE i - 1
      <4>1. CASE i = head + 1
        BY <2>1, <2>2, <2>4, <4>1 DEF NULL
      <4>2. CASE i # head + 1
        BY <2>1, <2>2, <2>4, <4>2
      <4> QED BY <4>1, <4>2
    <3>2. head' # NULL /\ head' \in 1..allocated' /\ runner' \in head'..allocated'
      BY <2>1, <2>2, <2>4 DEF NULL
    <3> QED BY <2>1, <2>2, <2>4, <3>1, <3>2 DEF NodeList
  <2> QED BY <2>3, <2>4
<1>3. ASSUME tb_next \/ tb_prev PROVE NodeList'
  <2>1. head # NULL /\ UNCHANGED <<head, nodes, allocated>>
    BY <1>3 DEF tb_next, tb_prev, tb_peek
  <2>2. /\ allocated \in Nat /\ head \in 1..allocated /\ runner \in head..allocated
        /\ nodes[runner].next = IF runner = allocated THEN NULL ELSE runner + 1
        /\ nodes[runner].prev = IF runner = head THEN NULL ELSE runner - 1
    BY <2>1 DEF NodeList
  <2>3. \/ runner' = IF nodes[runner].next # NULL THEN nodes[runner].next ELSE runner
        \/ runner' = IF nodes[runner].prev # NULL THEN nodes[runner].prev ELSE runner
    BY <1>3 DEF tb_next, tb_prev
  <2>4. runner' \in head..allocated
    BY <2>2, <2>3 DEF NULL
  <2> QED BY <2>1, <2>4 DEF NodeList
<1>4. ASSUME Rewind PROVE NodeList'
  BY <1>4 DEF Rewind, NodeList
<1>5. CASE UNCHANGED tbvars
  BY <1>5 DEF tbvars, NodeList
<1> QED BY <1>1, <1>2, <1>3, <1>4, <1>5 DEF Next, tb_push_fails

\* tb_init makes an empty list.
LEMMA NodeListInit == Init => NodeList
BY DEF Init, tb_init, NodeList

\* No sequence of tb_push, tb_next, tb_prev, Rewind and of freeing the head
\* breaks the chain of the nodes or leaves the runner on a node that was freed.
THEOREM ListWellFormed == Spec => []NodeList
BY NodeListInit, NodeListNext, PTL DEF Spec

-----------------------------------------------------------------------------
(* The list is the sequence of its tokens.                                 *)

Length == IF head = NULL THEN 0 ELSE allocated - head + 1

\* What is listed is a sequence of the tokens in the nodes, from the head on;
\* it is empty when there is no head.
ListsTokens ==
  /\ Length \in Nat /\ Listed \in Seq(Tokens) /\ Len(Listed) = Length
  /\ \A i \in 1..Length : Listed[i] = nodes[head + i - 1].token
  /\ (Listed = <<>>) = (head = NULL)

\* A well-formed list lists its tokens.
LEMMA ListedTokens == NodeList => ListsTokens
<1> SUFFICES ASSUME NodeList PROVE ListsTokens
  OBVIOUS
<1>1. Length \in Nat
  BY DEF NodeList, Length, NULL
<1>2. Listed = [i \in 1..Length |-> nodes[head + i - 1].token]
  BY DEF Listed, Length, tb_peek
<1>3. ASSUME NEW i \in 1..Length PROVE nodes[head + i - 1].token \in Tokens
  <2>1. head # NULL /\ head \in 1..allocated /\ allocated \in Nat /\ i \in 1..(allocated - head + 1)
    BY DEF NodeList, Length
  <2>2. head + i - 1 \in head..allocated
    BY <2>1
  <2>3. nodes[head + i - 1] \in [token : Tokens, next : Nat, prev : Nat]
    BY <2>1, <2>2 DEF NodeList
  <2> QED BY <2>3
<1>4. Listed \in Seq(Tokens) /\ Len(Listed) = Length
  BY <1>1, <1>2, <1>3
<1>5. (Length = 0) = (head = NULL)
  BY DEF NodeList, Length, NULL
<1>6. (Listed = <<>>) = (head = NULL)
  BY <1>4, <1>5
<1>7. \A i \in 1..Length : Listed[i] = nodes[head + i - 1].token
  BY <1>2
<1> QED BY <1>1, <1>4, <1>6, <1>7 DEF ListsTokens

\* tb_push adds the token behind the others.
LEMMA PushImplemented ==
  ASSUME NodeList, NodeList', NEW token \in Tokens, tb_push(token)
  PROVE  Sequence!Push
<1>1. /\ Length \in Nat /\ Listed \in Seq(Tokens) /\ Len(Listed) = Length
      /\ \A i \in 1..Length : Listed[i] = nodes[head + i - 1].token
      /\ (Listed = <<>>) = (head = NULL)
  BY ListedTokens DEF ListsTokens
<1>2. /\ Length' \in Nat /\ Listed' \in Seq(Tokens) /\ Len(Listed') = Length'
      /\ \A i \in 1..Length' : Listed'[i] = nodes'[head' + i - 1].token
      /\ (Listed' = <<>>) = (head' = NULL)
  <2>1. NodeList' => ListsTokens'
    BY ListedTokens, PTL
  <2> QED BY <2>1 DEF ListsTokens
<1>3. /\ Length' = Length + 1
      /\ \A i \in 1..Length : Listed'[i] = Listed[i]
      /\ Position' = IF Listed = <<>> THEN 1 ELSE Position
  <2>1. CASE head = NULL
    <3>1. head' = allocated + 1 /\ allocated' = allocated + 1 /\ runner' = allocated + 1
      BY <2>1 DEF tb_push, tb_peek
    <3>2. allocated \in Nat /\ Listed = <<>> /\ Length = 0
      BY <1>1, <2>1 DEF NodeList, Length
    <3>3. head' # NULL
      BY <3>1, <3>2 DEF NULL
    <3> QED BY <3>1, <3>2, <3>3 DEF Length, Position, tb_peek
  <2>2. CASE head # NULL
    <3>1. /\ allocated' = allocated + 1 /\ head' = head /\ runner' = runner
          /\ nodes' = [i \in head..(allocated + 1) |->
              IF i = allocated + 1 THEN Node(token, allocated)
              ELSE IF i = allocated THEN [nodes[i] EXCEPT !.next = allocated + 1]
              ELSE nodes[i]]
      BY <2>2, PushNodes
    <3>2. /\ allocated \in Nat /\ head \in 1..allocated
          /\ \A i \in head..allocated : nodes[i] \in [token : Tokens, next : Nat, prev : Nat]
          /\ Listed # <<>> /\ Length = allocated - head + 1
      BY <1>1, <2>2 DEF NodeList, Length
    <3>3. Length' = Length + 1
      BY <2>2, <3>1, <3>2 DEF Length
    <3>4. ASSUME NEW i \in 1..Length PROVE Listed'[i] = Listed[i]
      <4>1. head + i - 1 \in head..allocated /\ i \in 1..Length'
        BY <3>2, <3>3
      <4>2. nodes'[head + i - 1].token = nodes[head + i - 1].token
        BY <3>1, <3>2, <4>1
      <4> QED BY <1>1, <1>2, <3>1, <4>1, <4>2
    <3>5. Position' = Position
      BY <3>1 DEF Position, tb_peek
    <3> QED BY <3>2, <3>3, <3>4, <3>5
  <2> QED BY <2>1, <2>2
<1>4. SubSeq(Listed', 1, Len(Listed)) = Listed
  BY <1>1, <1>2, <1>3
<1> QED BY <1>1, <1>2, <1>3, <1>4 DEF Sequence!Push

\* tb_pop at the head drops the first token.
LEMMA PopImplemented ==
  ASSUME NodeList, NodeList', runner = head, tb_pop
  PROVE  Sequence!Drop
<1>1. /\ Length \in Nat /\ Listed \in Seq(Tokens) /\ Len(Listed) = Length
      /\ \A i \in 1..Length : Listed[i] = nodes[head + i - 1].token
      /\ (Listed = <<>>) = (head = NULL)
  BY ListedTokens DEF ListsTokens
<1>2. /\ Length' \in Nat /\ Listed' \in Seq(Tokens) /\ Len(Listed') = Length'
      /\ \A i \in 1..Length' : Listed'[i] = nodes'[head' + i - 1].token
      /\ (Listed' = <<>>) = (head' = NULL)
  <2>1. NodeList' => ListsTokens'
    BY ListedTokens, PTL
  <2> QED BY <2>1 DEF ListsTokens
<1>3. /\ head # NULL /\ allocated' = allocated
      /\ head' = (IF head = allocated THEN NULL ELSE head + 1)
      /\ runner' = head'
      /\ nodes' = [i \in (head + 1)..allocated |->
            IF i = head + 1 THEN [nodes[i] EXCEPT !.prev = NULL] ELSE nodes[i]]
  BY PopNodes
<1>4. /\ allocated \in Nat /\ head \in 1..allocated
      /\ \A i \in head..allocated : nodes[i] \in [token : Tokens, next : Nat, prev : Nat]
      /\ Listed # <<>> /\ Length = allocated - head + 1
  BY <1>1, <1>3 DEF NodeList, Length
<1>5. Length' = Length - 1
  <2>1. CASE head = allocated
    BY <1>3, <1>4, <2>1 DEF Length
  <2>2. CASE head # allocated
    <3>1. head' = head + 1 /\ head' # NULL
      BY <1>3, <1>4, <2>2 DEF NULL
    <3> QED BY <1>3, <1>4, <3>1 DEF Length
  <2> QED BY <2>1, <2>2
<1>6. ASSUME NEW i \in 1..Length' PROVE Listed'[i] = Listed[i + 1]
  <2>1. head' = head + 1 /\ i + 1 \in 1..Length /\ head + i \in (head + 1)..allocated
    BY <1>3, <1>4, <1>5
  <2>2. nodes'[head + i].token = nodes[head + i].token
    BY <1>3, <1>4, <2>1
  <2>3. Listed'[i] = nodes'[head + 1 + i - 1].token /\ Listed[i + 1] = nodes[head + (i + 1) - 1].token
    BY <1>1, <1>2, <2>1
  <2>4. head + 1 + i - 1 = head + i /\ head + (i + 1) - 1 = head + i
    BY <1>4
  <2> QED BY <2>2, <2>3, <2>4
<1>7. Listed' = Tail(Listed)
  <2>1. /\ Tail(Listed) \in Seq(Tokens) /\ Len(Tail(Listed)) = Len(Listed) - 1
        /\ \A i \in 1..Len(Tail(Listed)) : Tail(Listed)[i] = Listed[i + 1]
    BY <1>1, <1>4, HeadTailProperties
  <2>2. Len(Listed') = Len(Tail(Listed)) /\ \A i \in 1..Len(Listed') : Listed'[i] = Tail(Listed)[i]
    BY <1>1, <1>2, <1>5, <1>6, <2>1
  <2> QED BY <1>2, <2>1, <2>2, SeqEqual
<1>8. Position' = IF Listed' = <<>> THEN 0 ELSE 1
  <2>1. head' \in Nat
    BY <1>3, <1>4 DEF NULL
  <2> QED BY <1>2, <1>3, <2>1 DEF Position, tb_peek
<1> QED BY <1>4, <1>7, <1>8 DEF Sequence!Drop

\* Addresses and positions differ by the same number.
LEMMA Shift ==
  ASSUME NEW h \in Int, NEW a \in Int, NEW r \in Int
  PROVE  /\ \A q \in h..a : q - h + 1 \in 1..(a - h + 1)
         /\ \A q \in {r - 1, r + 1, h} : q - h + 1 \in {(r - h + 1) - 1, (r - h + 1) + 1, 1}
OBVIOUS

\* tb_next, tb_prev and the way back to the head move the position.
LEMMA MoveImplemented ==
  ASSUME NodeList, tb_next \/ tb_prev \/ Rewind
  PROVE  Sequence!Move \/ UNCHANGED <<Listed, Position>>
<1>1. UNCHANGED <<head, nodes, allocated>> /\ Listed' = Listed
  BY DEF tb_next, tb_prev, Rewind, Listed, tb_peek
<1>2. CASE head = NULL
  BY <1>1, <1>2 DEF Position, tb_peek
<1>3. CASE head # NULL
  <2>1. /\ allocated \in Nat /\ head \in 1..allocated /\ runner \in head..allocated
        /\ nodes[runner].next = IF runner = allocated THEN NULL ELSE runner + 1
        /\ nodes[runner].prev = IF runner = head THEN NULL ELSE runner - 1
    BY <1>3 DEF NodeList
  <2>2. /\ Len(Listed) = allocated - head + 1
        /\ Position = runner - head + 1 /\ Position' = runner' - head + 1
    BY <1>1, <1>3, ListedTokens DEF ListsTokens, Length, Position, tb_peek
  <2>3. runner' = runner \/ runner' \in {runner - 1, runner + 1, head} \intersect head..allocated
    <3>1. CASE Rewind
      BY <2>1, <3>1 DEF Rewind
    <3>2. CASE tb_next
      BY <2>1, <3>2 DEF tb_next, NULL
    <3>3. CASE tb_prev
      BY <2>1, <3>3 DEF tb_prev, NULL
    <3> QED BY <3>1, <3>2, <3>3
  <2>4. CASE runner' = runner
    BY <1>1, <2>2, <2>4
  <2>5. CASE runner' \in {runner - 1, runner + 1, head} \intersect head..allocated
    <3>1. Position' \in {Position - 1, Position + 1, 1} \intersect 1..Len(Listed)
      <4>1. runner' \in head..allocated /\ runner' \in {runner - 1, runner + 1, head}
        BY <2>5
      <4>2. /\ head \in Int /\ runner \in Int /\ runner' \in Int /\ allocated \in Int
            /\ head <= runner' /\ runner' <= allocated
        BY <2>1, <4>1
      <4>3. Position' \in 1..Len(Listed)
        <5>1. runner' - head + 1 \in 1..(allocated - head + 1)
          BY <4>1, <4>2, Shift
        <5> QED BY <2>2, <5>1
      <4>4. Position' \in {Position - 1, Position + 1, 1}
        <5>1. runner' - head + 1 \in {(runner - head + 1) - 1, (runner - head + 1) + 1, 1}
          BY <4>1, <4>2, Shift
        <5> QED BY <2>2, <5>1
      <4> QED BY <4>3, <4>4
    <3> QED BY <1>1, <3>1 DEF Sequence!Move
  <2> QED BY <2>3, <2>4, <2>5
<1> QED BY <1>2, <1>3

\* The doubly linked list with its runner implements the sequence with a
\* position, for every set of tokens and however many are buffered.
THEOREM ListIsSequence == Spec => BufferIsSequence
<1>1. Init => Sequence!Init
  BY DEF Init, tb_init, Sequence!Init, Listed, Position, tb_peek
<1>2. NodeList /\ NodeList' /\ [Next]_tbvars => [Sequence!Next]_<<Listed, Position>>
  <2> SUFFICES ASSUME NodeList, NodeList', [Next]_tbvars
               PROVE  Sequence!Next \/ UNCHANGED <<Listed, Position>>
    OBVIOUS
  <2>1. ASSUME NEW token \in Tokens, tb_push(token) PROVE Sequence!Next
    BY <2>1, PushImplemented DEF Sequence!Next
  <2>2. ASSUME runner = head, tb_pop PROVE Sequence!Next
    BY <2>2, PopImplemented DEF Sequence!Next
  <2>3. ASSUME tb_next \/ tb_prev \/ Rewind PROVE Sequence!Next \/ UNCHANGED <<Listed, Position>>
    BY <2>3, MoveImplemented DEF Sequence!Next
  <2>4. CASE UNCHANGED tbvars
    BY <2>4 DEF tbvars, Listed, Position, tb_peek
  <2> QED BY <2>1, <2>2, <2>3, <2>4 DEF Next, tb_push_fails
<1>3. Spec => []NodeList
  BY ListWellFormed
<1> QED BY <1>1, <1>2, <1>3, PTL DEF Spec, BufferIsSequence, Sequence!Spec
=============================================================================
