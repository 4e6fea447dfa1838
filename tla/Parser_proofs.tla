--------------------------- MODULE Parser_proofs ---------------------------
(***************************************************************************)
(* What the statement parser keeps of the blocks it is in agrees with      *)
(* them, for every program: any names, signatures, types and depth of      *)
(* nesting.                                                                *)
(***************************************************************************)
EXTENDS Parser, Induction_proofs, SequenceTheorems, FiniteSetTheorems

-----------------------------------------------------------------------------
(* The stack of tables.                                                    *)

\* A stack is a sequence of any set that holds its tables.
LEMMA StackIsSeq ==
  ASSUME NEW tabs, NEW n, IsStack(tabs, n), NEW S, \A d \in 1..Len(tabs) : tabs[d] \in S
  PROVE  tabs \in Seq(S)
<1>1. Len(tabs) \in Nat /\ tabs = [d \in 1..Len(tabs) |-> tabs[d]]
  BY DEF IsStack
<1>2. tabs \in [1..Len(tabs) -> S]
  BY <1>1
<1> QED BY <1>1, <1>2

\* A sequence is the function of its elements.
LEMMA SeqIsFunction ==
  ASSUME NEW S, NEW s \in Seq(S)
  PROVE  s = [i \in 1..Len(s) |-> s[i]]
OBVIOUS

\* A uid that was given out stays below the counter.
LEMMA StackGrows ==
  ASSUME NEW n \in Nat, NEW m \in Nat, n <= m, NEW tabs, IsStack(tabs, n)
  PROVE  IsStack(tabs, m)
<1>1. 0..(n - 1) \subseteq 0..(m - 1)
  OBVIOUS
<1> QED BY <1>1 DEF IsStack, IsTable, IsItem

\* A scope is added: add_scope, and the scope of the parameters.
LEMMA StackPush ==
  ASSUME NEW tabs, NEW n, IsStack(tabs, n), NEW tab, IsTable(tab, n)
  PROVE  /\ IsStack(Append(tabs, tab), n)
         /\ Len(Append(tabs, tab)) = Len(tabs) + 1
         /\ Append(tabs, tab)[GLOBAL] = tabs[GLOBAL]
<1> DEFINE S == {tabs[d] : d \in 1..Len(tabs)} \union {tab}
           app == Append(tabs, tab)
<1>1. tab \in S /\ \A d \in 1..Len(tabs) : tabs[d] \in S
  OBVIOUS
<1> HIDE DEF S
<1>2. /\ app \in Seq(S) /\ Len(app) = Len(tabs) + 1
      /\ \A d \in 1..Len(tabs) : app[d] = tabs[d]
      /\ app[Len(tabs) + 1] = tab
  <2>1. tabs \in Seq(S)
    BY <1>1, StackIsSeq
  <2> QED BY <1>1, <2>1, AppendProperties
<1>3. Len(tabs) \in Nat \ {0} /\ \A d \in 1..Len(tabs) : IsTable(tabs[d], n)
  BY DEF IsStack
<1>6. app[GLOBAL] = tabs[GLOBAL]
  BY <1>2, <1>3 DEF GLOBAL
<1> HIDE DEF app
<1>4. Len(app) \in Nat \ {0} /\ app = [d \in 1..Len(app) |-> app[d]]
  BY <1>2, <1>3, SeqIsFunction
<1>5. ASSUME NEW d \in 1..Len(app) PROVE IsTable(app[d], n)
  <2>1. d \in 1..Len(tabs) \/ d = Len(tabs) + 1
    BY <1>2, <1>3
  <2> QED BY <1>2, <1>3, <2>1
<1>7. IsStack(app, n)
  BY <1>4, <1>5 DEF IsStack
<1> QED BY <1>2, <1>6, <1>7 DEF app

\* pop_scope removes the innermost scope.
LEMMA StackPop ==
  ASSUME NEW tabs, NEW n, IsStack(tabs, n), Len(tabs) > 1
  PROVE  /\ IsStack(pop_scope(tabs), n)
         /\ Len(pop_scope(tabs)) = Len(tabs) - 1
         /\ pop_scope(tabs)[GLOBAL] = tabs[GLOBAL]
<1> DEFINE S == {tabs[d] : d \in 1..Len(tabs)}
           pop == SubSeq(tabs, 1, Len(tabs) - 1)
<1>1. tabs \in Seq(S)
  <2>1. \A d \in 1..Len(tabs) : tabs[d] \in S
    OBVIOUS
  <2> HIDE DEF S
  <2> QED BY <2>1, StackIsSeq
<1>2. Len(tabs) \in Nat \ {0} /\ \A d \in 1..Len(tabs) : IsTable(tabs[d], n) /\ tabs[d] \in S
  BY DEF IsStack
<1> HIDE DEF S
<1>3. /\ pop \in Seq(S) /\ Len(pop) = Len(tabs) - 1
      /\ \A d \in 1..(Len(tabs) - 1) : pop[d] = tabs[d]
  BY <1>1, <1>2, SubSeqProperties
<1>4. Len(pop) \in Nat \ {0} /\ pop = [d \in 1..Len(pop) |-> pop[d]]
  BY <1>2, <1>3
<1>5. \A d \in 1..Len(pop) : IsTable(pop[d], n)
  BY <1>2, <1>3
<1>6. pop[GLOBAL] = tabs[GLOBAL]
  BY <1>2, <1>3 DEF GLOBAL
<1> HIDE DEF pop
<1>7. IsStack(pop, n)
  BY <1>4, <1>5 DEF IsStack
<1> QED BY <1>3, <1>6, <1>7 DEF pop, pop_scope

\* An item is stored in a table.
LEMMA StackPut ==
  ASSUME NEW tabs, NEW n, IsStack(tabs, n), NEW d \in 1..Len(tabs), NEW id \in Names,
         NEW x, IsItem(x, n)
  PROVE  /\ IsStack([tabs EXCEPT ![d][id] = x], n)
         /\ Len([tabs EXCEPT ![d][id] = x]) = Len(tabs)
<1> DEFINE put == [tabs EXCEPT ![d][id] = x]
           tab == [tabs[d] EXCEPT ![id] = x]
           S == {tabs[e] : e \in 1..Len(tabs)} \union {tab}
<1>1. Len(tabs) \in Nat \ {0} /\ \A e \in 1..Len(tabs) : IsTable(tabs[e], n)
  BY DEF IsStack
<1>2. IsTable(tab, n)
  BY <1>1 DEF IsTable
<1>3. tabs \in Seq(S) /\ tab \in S
  <2>1. tab \in S /\ \A e \in 1..Len(tabs) : tabs[e] \in S
    OBVIOUS
  <2> HIDE DEF S, tab
  <2> QED BY <2>1, StackIsSeq
<1>4. put = [tabs EXCEPT ![d] = tab]
  OBVIOUS
<1> HIDE DEF put, tab, S
<1>5. /\ put \in Seq(S) /\ Len(put) = Len(tabs)
      /\ \A e \in 1..Len(tabs) : put[e] = IF e = d THEN tab ELSE tabs[e]
  BY <1>3, <1>4, ExceptSeq
<1>6. Len(put) \in Nat \ {0} /\ put = [e \in 1..Len(put) |-> put[e]]
  BY <1>1, <1>5
<1>7. \A e \in 1..Len(put) : IsTable(put[e], n)
  BY <1>1, <1>2, <1>5
<1>8. IsStack(put, n)
  BY <1>6, <1>7 DEF IsStack
<1> QED BY <1>5, <1>8 DEF put

-----------------------------------------------------------------------------
(* Items.                                                                  *)

\* A new item has the uid of the counter, and what is set in it later leaves it one.
LEMMA NewItemIsItem ==
  ASSUME NEW n \in Nat
  PROVE  IsItem(NewItem(n), n + 1)
<1> DEFINE x == NewItem(n)
<1>1. x.sig.written \in Seq(Parameter)
  <2>1. x.sig = NoSignature
    BY DEF NewItem
  <2>2. NoSignature.written = <<>>
    BY DEF NoSignature
  <2> QED BY <2>1, <2>2, EmptySeq
<1>2. x.uid = n /\ n \in 0..((n + 1) - 1)
  BY DEF NewItem
<1>3. x = [uid |-> x.uid, init |-> x.init, mutable |-> x.mutable, nilable |-> x.nilable,
           type |-> x.type, sig |-> x.sig]
  BY DEF NewItem
<1> HIDE DEF x
<1>4. IsItem(x, n + 1)
  BY <1>1, <1>2, <1>3 DEF IsItem
<1> QED BY <1>4 DEF x

LEMMA ItemFields ==
  ASSUME NEW n, NEW x, IsItem(x, n), NEW a
  PROVE  /\ IsItem([x EXCEPT !.init = a], n) /\ IsItem([x EXCEPT !.mutable = a], n)
         /\ IsItem([x EXCEPT !.nilable = a], n) /\ IsItem([x EXCEPT !.type = a], n)
BY DEF IsItem

\* The item of a function.
LEMMA FunctionIsItem ==
  ASSUME NEW n \in Nat, NEW u \in 0..(n - 1), NEW sig \in Signature
  PROVE  IsItem(FunctionItem(u, sig), n)
<1> DEFINE list == ParamList(sig.params)
           s == [ret |-> sig.ret, written |-> sig.params, params |-> list,
                 variadic |-> sig.variadic, frame |-> sig.frame]
           nil == sig.ret.nilable
           x == [NewItem(u) EXCEPT !.type = "function", !.nilable = nil, !.sig = s]
<1>1. FunctionItem(u, sig) = x
  BY DEF FunctionItem
<1>2. sig.params \in Seq(Parameter)
  BY DEF Signature
<1> HIDE DEF list
<1>3. s.written \in Seq(Parameter)
  BY <1>2
<1> HIDE DEF s, nil
<1> DEFINE y == [[NewItem(u) EXCEPT !.type = "function"] EXCEPT !.nilable = nil]
<1>4. /\ x = [uid |-> x.uid, init |-> x.init, mutable |-> x.mutable, nilable |-> x.nilable,
              type |-> x.type, sig |-> x.sig]
      /\ x.uid = u /\ x.sig = s
  <2>1. IsItem(y, u + 1)
    <3>1. IsItem(NewItem(u), u + 1)
      BY NewItemIsItem
    <3>2. IsItem([NewItem(u) EXCEPT !.type = "function"], u + 1)
      BY <3>1, ItemFields
    <3> QED BY <3>2, ItemFields
  <2>2. y.uid = u
    BY DEF NewItem
  <2>3. x = [y EXCEPT !.sig = s]
    OBVIOUS
  <2> HIDE DEF x, y
  <2> QED BY <2>1, <2>2, <2>3 DEF IsItem
<1> HIDE DEF x
<1>5. IsItem(x, n)
  BY <1>3, <1>4 DEF IsItem
<1> QED BY <1>1, <1>5

\* A search that finds a name finds an item.
LEMMA SearchFinds ==
  ASSUME NEW tabs, NEW n, IsStack(tabs, n), NEW id, NEW d,
         d = OrGlobal(tabs, search_scopes(tabs, Len(tabs), id), id), d # NONE
  PROVE  d \in 1..Len(tabs) /\ tabs[d][id] # NULL
<1> DEFINE S == {k \in 2..Len(tabs) : tabs[k][id] # NULL}
<1>1. Len(tabs) \in Nat \ {0}
  BY DEF IsStack
<1>2. S \in SUBSET (0..Len(tabs))
  BY <1>1
<1>3. CASE S = {}
  <2>1. d = GLOBAL /\ tabs[GLOBAL][id] # NULL
    BY <1>3 DEF OrGlobal, search_scopes, Innermost
  <2> QED BY <1>1, <2>1 DEF GLOBAL
<1>4. CASE S # {}
  <2>1. Max(S) \in S
    BY <1>1, <1>2, <1>4, MaxIsIn
  <2>2. Innermost(S) = Max(S) /\ Max(S) # NONE
    BY <1>1, <1>4, <2>1 DEF Innermost, NONE
  <2>3. d = Max(S)
    BY <2>2 DEF OrGlobal, search_scopes
  <2> QED BY <1>1, <2>1, <2>3
<1> QED BY <1>3, <1>4

-----------------------------------------------------------------------------
(* Blocks.                                                                 *)

Marked(bs) == [bs EXCEPT ![Len(bs)].empty = FALSE]

\* What a block of a kind adds to them.
ScopesOf(kind) == IF kind \in {"func", "if"} THEN 2 ELSE IF kind \in {"while", "else"} THEN 1 ELSE 0
CondsOf(kind) == IF kind \in {"if", "else"} THEN 1 ELSE 0
LoopsOf(kind) == IF kind \in {"while"} THEN 1 ELSE 0

\* A block adds one to the number of its kind.
LEMMA CountAppend ==
  ASSUME NEW bs \in Seq(AnyBlock), NEW b \in AnyBlock, NEW K
  PROVE  /\ Count(bs, K) \in Nat
         /\ Count(Append(bs, b), K) = Count(bs, K) + (IF b.kind \in K THEN 1 ELSE 0)
<1> DEFINE S == {i \in 1..Len(bs) : bs[i].kind \in K}
           app == Append(bs, b)
           T == {i \in 1..Len(app) : app[i].kind \in K}
<1>1. /\ Len(bs) \in Nat /\ Len(app) = Len(bs) + 1
      /\ \A i \in 1..Len(bs) : app[i] = bs[i]
      /\ app[Len(bs) + 1] = b
  BY AppendProperties
<1>2. IsFiniteSet(S) /\ Cardinality(S) \in Nat
  <2>1. S \in SUBSET (1..Len(bs)) /\ IsFiniteSet(1..Len(bs))
    BY <1>1, FS_Interval
  <2> HIDE DEF S
  <2> QED BY <2>1, FS_Subset, FS_CardinalityType
<1> HIDE DEF app
<1>3. T = IF b.kind \in K THEN S \union {Len(bs) + 1} ELSE S
  <2>1. \A i \in 1..Len(app) : i \in 1..Len(bs) \/ i = Len(bs) + 1
    BY <1>1
  <2>2. \A i \in 1..Len(app) : i \in T <=> (i \in S \/ (i = Len(bs) + 1 /\ b.kind \in K))
    BY <1>1, <2>1
  <2>3. S \subseteq 1..Len(app) /\ T \subseteq 1..Len(app) /\ Len(bs) + 1 \in 1..Len(app)
    BY <1>1
  <2> HIDE DEF S, T
  <2> QED BY <2>2, <2>3
<1>4. Len(bs) + 1 \notin S
  BY <1>1
<1> HIDE DEF S, T
<1>5. Cardinality(T) = Cardinality(S) + (IF b.kind \in K THEN 1 ELSE 0)
  <2>1. CASE b.kind \in K
    BY <1>2, <1>3, <1>4, <2>1, FS_AddElement
  <2>2. CASE b.kind \notin K
    BY <1>2, <1>3, <2>2
  <2> QED BY <2>1, <2>2
<1> QED BY <1>2, <1>5 DEF Count, S, T, app

\* What counts is only the kinds of the blocks.
LEMMA CountSame ==
  ASSUME NEW bs, NEW cs, NEW K, Len(bs) = Len(cs),
         \A i \in 1..Len(bs) : bs[i].kind = cs[i].kind
  PROVE  Count(bs, K) = Count(cs, K)
<1>1. {i \in 1..Len(bs) : bs[i].kind \in K} = {i \in 1..Len(cs) : cs[i].kind \in K}
  OBVIOUS
<1> QED BY <1>1 DEF Count

\* A block is opened.
LEMMA Pushed ==
  ASSUME NEW bs, IsNesting(bs), NEW b \in AnyBlock, b.kind # "prog",
         b.kind = "func" => Len(bs) = 1
  PROVE  /\ IsNesting(Append(bs, b)) /\ Len(Append(bs, b)) = Len(bs) + 1
         /\ \A i \in 1..Len(bs) : Append(bs, b)[i] = bs[i]
         /\ Append(bs, b)[Len(bs) + 1] = b
         /\ Scopes(bs) \in Nat \ {0} /\ Scopes(Append(bs, b)) = Scopes(bs) + ScopesOf(b.kind)
         /\ Conds(bs) \in Nat /\ Conds(Append(bs, b)) = Conds(bs) + CondsOf(b.kind)
         /\ Loops(bs) \in Nat /\ Loops(Append(bs, b)) = Loops(bs) + LoopsOf(b.kind)
<1> DEFINE app == Append(bs, b)
<1>1. bs \in Seq(AnyBlock) /\ bs # <<>>
  BY DEF IsNesting
<1>2. /\ app \in Seq(AnyBlock) /\ Len(app) = Len(bs) + 1 /\ Len(bs) \in Nat \ {0}
      /\ \A i \in 1..Len(bs) : app[i] = bs[i]
      /\ app[Len(bs) + 1] = b
  BY <1>1, AppendProperties, EmptySeq
<1>3. \A K : /\ Count(bs, K) \in Nat
             /\ Count(app, K) = Count(bs, K) + (IF b.kind \in K THEN 1 ELSE 0)
  BY <1>1, CountAppend
<1> HIDE DEF app
<1>4. IsNesting(app)
  <2>1. app # <<>>
    BY <1>2
  <2>2. ASSUME NEW i \in 1..Len(app)
        PROVE  /\ app[i].kind = "prog" <=> i = 1
               /\ app[i].kind = "func" => i = 2
    <3>1. i \in 1..Len(bs) \/ (i = Len(bs) + 1 /\ i # 1)
      BY <1>2
    <3> QED BY <1>2, <3>1 DEF IsNesting
  <2> QED BY <1>2, <2>1, <2>2 DEF IsNesting
<1>5. b.kind \in {"prog", "func", "while", "if", "else"}
  BY DEF AnyBlock
<1>6. Scopes(bs) \in Nat \ {0} /\ Scopes(app) = Scopes(bs) + ScopesOf(b.kind)
  BY <1>3, <1>5 DEF Scopes, ScopesOf
<1>7. /\ Conds(bs) \in Nat /\ Conds(app) = Conds(bs) + CondsOf(b.kind)
      /\ Loops(bs) \in Nat /\ Loops(app) = Loops(bs) + LoopsOf(b.kind)
  BY <1>3 DEF Conds, CondsOf, Loops, LoopsOf
<1> QED BY <1>2, <1>4, <1>6, <1>7 DEF app

\* A block is closed.
LEMMA Popped ==
  ASSUME NEW bs, IsNesting(bs), Len(bs) > 1
  PROVE  /\ IsNesting(Front(bs)) /\ Len(Front(bs)) = Len(bs) - 1
         /\ \A i \in 1..(Len(bs) - 1) : Front(bs)[i] = bs[i]
         /\ bs[Len(bs)] \in AnyBlock
         /\ Scopes(Front(bs)) \in Nat \ {0}
         /\ Scopes(bs) = Scopes(Front(bs)) + ScopesOf(bs[Len(bs)].kind)
         /\ Conds(Front(bs)) \in Nat /\ Conds(bs) = Conds(Front(bs)) + CondsOf(bs[Len(bs)].kind)
         /\ Loops(Front(bs)) \in Nat /\ Loops(bs) = Loops(Front(bs)) + LoopsOf(bs[Len(bs)].kind)
<1> DEFINE fr == Front(bs)
           b == bs[Len(bs)]
<1>1. bs \in Seq(AnyBlock) /\ Len(bs) \in Nat /\ \A i \in 1..Len(bs) : bs[i] \in AnyBlock
  BY DEF IsNesting
<1>2. /\ fr \in Seq(AnyBlock) /\ Len(fr) = Len(bs) - 1
      /\ \A i \in 1..(Len(bs) - 1) : fr[i] = bs[i]
  BY <1>1, SubSeqProperties DEF Front
<1>3. b \in AnyBlock /\ b.kind # "prog" /\ (b.kind = "func" => Len(fr) = 1)
  BY <1>1, <1>2 DEF IsNesting
<1> HIDE DEF fr
<1>4. IsNesting(fr)
  <2>1. fr # <<>>
    BY <1>1, <1>2
  <2>2. \A i \in 1..Len(fr) : i \in 1..Len(bs) /\ fr[i] = bs[i]
    BY <1>1, <1>2
  <2> QED BY <1>2, <2>1, <2>2 DEF IsNesting
<1> HIDE DEF b
<1>5. Append(fr, b) = bs
  <2>1. /\ Append(fr, b) \in Seq(AnyBlock) /\ Len(Append(fr, b)) = Len(bs)
        /\ \A i \in 1..Len(fr) : Append(fr, b)[i] = fr[i]
        /\ Append(fr, b)[Len(fr) + 1] = b
    BY <1>1, <1>2, <1>3, AppendProperties
  <2>2. ASSUME NEW i \in 1..Len(Append(fr, b)) PROVE Append(fr, b)[i] = bs[i]
    <3>1. i \in 1..Len(fr) \/ i = Len(bs)
      BY <1>1, <1>2, <2>1
    <3> QED BY <1>1, <1>2, <2>1, <3>1 DEF b
  <2> QED BY <1>1, <2>1, <2>2, SeqEqual
<1>6. /\ Scopes(fr) \in Nat \ {0} /\ Scopes(bs) = Scopes(fr) + ScopesOf(b.kind)
      /\ Conds(fr) \in Nat /\ Conds(bs) = Conds(fr) + CondsOf(b.kind)
      /\ Loops(fr) \in Nat /\ Loops(bs) = Loops(fr) + LoopsOf(b.kind)
  BY <1>3, <1>4, <1>5, Pushed
<1> QED BY <1>2, <1>3, <1>4, <1>6 DEF fr, b

\* What is noted about a block leaves the nesting as it is.
LEMMA Noted ==
  ASSUME NEW bs, IsNesting(bs), NEW cs \in Seq(AnyBlock), Len(cs) = Len(bs),
         \A i \in 1..Len(bs) : cs[i].kind = bs[i].kind
  PROVE  /\ IsNesting(cs)
         /\ Scopes(cs) = Scopes(bs) /\ Conds(cs) = Conds(bs) /\ Loops(cs) = Loops(bs)
<1>1. bs \in Seq(AnyBlock) /\ bs # <<>> /\ cs # <<>>
  BY DEF IsNesting
<1>2. IsNesting(cs)
  BY <1>1 DEF IsNesting
<1>3. \A K : Count(cs, K) = Count(bs, K)
  BY CountSame
<1> QED BY <1>2, <1>3 DEF Scopes, Conds, Loops

\* The marks of a block.
LEMMA BlockFields ==
  ASSUME NEW b \in AnyBlock
  PROVE  /\ [b EXCEPT !.empty = FALSE] \in AnyBlock
         /\ [b EXCEPT !.empty = FALSE].kind = b.kind
         /\ [b EXCEPT !.empty = FALSE].returned = b.returned
         /\ [b EXCEPT !.returned = TRUE] \in AnyBlock
         /\ [b EXCEPT !.returned = TRUE].kind = b.kind
         /\ [b EXCEPT !.returned = TRUE].returned = TRUE
<1> DEFINE K == {"prog", "func", "while", "if", "else"}
<1>1. b \in [kind : K, empty : BOOLEAN, returned : BOOLEAN]
  BY DEF AnyBlock
<1> HIDE DEF K
<1>2. /\ [b EXCEPT !.empty = FALSE] \in [kind : K, empty : BOOLEAN, returned : BOOLEAN]
      /\ [b EXCEPT !.returned = TRUE] \in [kind : K, empty : BOOLEAN, returned : BOOLEAN]
  BY <1>1
<1>3. /\ [b EXCEPT !.empty = FALSE].kind = b.kind
      /\ [b EXCEPT !.returned = TRUE].kind = b.kind
      /\ [b EXCEPT !.returned = TRUE].returned = TRUE
  BY <1>1
<1>4. [b EXCEPT !.empty = FALSE].returned = b.returned
  BY <1>1
<1> QED BY <1>2, <1>3, <1>4 DEF AnyBlock, K

\* Behind a statement the block is no longer empty.
LEMMA MarkedBlocks ==
  ASSUME NEW bs, IsNesting(bs)
  PROVE  /\ IsNesting(Marked(bs)) /\ Len(Marked(bs)) = Len(bs) /\ Len(bs) \in Nat \ {0}
         /\ \A i \in 1..Len(bs) : /\ Marked(bs)[i].kind = bs[i].kind
                                  /\ Marked(bs)[i].returned = bs[i].returned
         /\ Scopes(Marked(bs)) = Scopes(bs) /\ Conds(Marked(bs)) = Conds(bs)
         /\ Loops(Marked(bs)) = Loops(bs)
<1> DEFINE b == [bs[Len(bs)] EXCEPT !.empty = FALSE]
<1>1. bs \in Seq(AnyBlock) /\ Len(bs) \in Nat \ {0} /\ \A i \in 1..Len(bs) : bs[i] \in AnyBlock
  BY DEF IsNesting
<1>2. b \in AnyBlock /\ b.kind = bs[Len(bs)].kind /\ b.returned = bs[Len(bs)].returned
  <2>1. bs[Len(bs)] \in AnyBlock
    BY <1>1
  <2> QED BY <2>1, BlockFields, Zenon
<1>3. Marked(bs) = [bs EXCEPT ![Len(bs)] = b]
  BY DEF Marked
<1> HIDE DEF b
<1>4. /\ Marked(bs) \in Seq(AnyBlock) /\ Len(Marked(bs)) = Len(bs)
      /\ \A i \in 1..Len(bs) : Marked(bs)[i] = IF i = Len(bs) THEN b ELSE bs[i]
  BY <1>1, <1>2, <1>3, ExceptSeq
<1>5. \A i \in 1..Len(bs) : /\ Marked(bs)[i].kind = bs[i].kind
                            /\ Marked(bs)[i].returned = bs[i].returned
  BY <1>2, <1>4
<1> QED BY <1>1, <1>4, <1>5, Noted

\* A return is noted in the block it stands in.
LEMMA ReturnedBlocks ==
  ASSUME NEW bs, IsNesting(bs)
  PROVE  LET cs == [bs EXCEPT ![Len(bs)].returned = TRUE]
         IN /\ IsNesting(cs) /\ Len(cs) = Len(bs) /\ cs[Len(bs)].returned
            /\ \A i \in 1..Len(bs) : cs[i].kind = bs[i].kind
            /\ Scopes(cs) = Scopes(bs) /\ Conds(cs) = Conds(bs) /\ Loops(cs) = Loops(bs)
<1> DEFINE b == [bs[Len(bs)] EXCEPT !.returned = TRUE]
           cs == [bs EXCEPT ![Len(bs)].returned = TRUE]
<1>1. bs \in Seq(AnyBlock) /\ Len(bs) \in Nat \ {0} /\ \A i \in 1..Len(bs) : bs[i] \in AnyBlock
  BY DEF IsNesting
<1>2. b \in AnyBlock /\ b.kind = bs[Len(bs)].kind /\ b.returned
  <2>1. bs[Len(bs)] \in AnyBlock
    BY <1>1
  <2> QED BY <2>1, BlockFields, Zenon
<1>3. cs = [bs EXCEPT ![Len(bs)] = b]
  OBVIOUS
<1> HIDE DEF b, cs
<1>4. /\ cs \in Seq(AnyBlock) /\ Len(cs) = Len(bs)
      /\ \A i \in 1..Len(bs) : cs[i] = IF i = Len(bs) THEN b ELSE bs[i]
  BY <1>1, <1>2, <1>3, ExceptSeq
<1>5. \A i \in 1..Len(bs) : cs[i].kind = bs[i].kind
  BY <1>2, <1>4
<1>6. cs[Len(bs)].returned
  BY <1>1, <1>2, <1>4
<1>7. /\ IsNesting(cs) /\ Len(cs) = Len(bs) /\ cs[Len(bs)].returned
      /\ \A i \in 1..Len(bs) : cs[i].kind = bs[i].kind
      /\ Scopes(cs) = Scopes(bs) /\ Conds(cs) = Conds(bs) /\ Loops(cs) = Loops(bs)
  BY <1>4, <1>5, <1>6, Noted
<1> QED BY <1>7 DEF cs

\* At most one function is open.
LEMMA OneFunction ==
  ASSUME NEW bs, IsNesting(bs)
  PROVE  (Count(bs, {"func"}) = 1) = (Len(bs) > 1 /\ bs[2].kind = "func")
<1> DEFINE S == {i \in 1..Len(bs) : bs[i].kind \in {"func"}}
<1>1. Len(bs) \in Nat
  BY DEF IsNesting
<1>2. CASE Len(bs) > 1 /\ bs[2].kind = "func"
  <2>1. S = {2}
    BY <1>1, <1>2 DEF IsNesting
  <2> QED BY <1>2, <2>1, FS_Singleton DEF Count
<1>3. CASE ~(Len(bs) > 1 /\ bs[2].kind = "func")
  <2>1. S = {}
    BY <1>1, <1>3 DEF IsNesting
  <2>2. Cardinality(S) = 0
    BY <2>1, FS_EmptySet
  <2>3. Count(bs, {"func"}) = 0
    BY <2>2 DEF Count
  <2> QED BY <1>3, <2>3
<1> QED BY <1>2, <1>3

-----------------------------------------------------------------------------
(* The invariant holds initially.                                          *)

\* add_builtins gives every built-in function a uid of its own below the counter.
LEMMA BuiltinUid ==
  ASSUME NEW D, IsFiniteSet(D)
  PROVE  /\ Len(SetToSeq(D)) \in Nat
         /\ \A id \in D : \E i \in 0..(Len(SetToSeq(D)) - 1) : SetToSeq(D)[i + 1] = id
<1> DEFINE n == Cardinality(D)
           names == SetToSeq(D)
<1>1. n \in Nat /\ IsFiniteSet(1..n) /\ Cardinality(1..n) = n
  BY FS_CardinalityType, FS_Interval
<1>2. PICK b \in Bijection(1..n, D) : TRUE
  BY FS_CardinalityType DEF ExistsBijection
<1>3. b \in [1..n -> D] /\ IsInjective(b)
  BY <1>2 DEF Bijection, Injection, IsInjective
<1>4. names \in [1..n -> D] /\ IsInjective(names)
  BY <1>3 DEF SetToSeq
<1> HIDE DEF names, n
<1>5. names \in Injection(1..n, D)
  BY <1>4 DEF Injection, IsInjective
<1>6. names \in Surjection(1..n, D)
  BY <1>1, <1>5, FS_Injection DEF n
<1>7. Len(names) = n
  BY <1>1, <1>4
<1>8. ASSUME NEW id \in D PROVE \E i \in 0..(n - 1) : names[i + 1] = id
  <2>1. PICK k \in 1..n : names[k] = id
    BY <1>6 DEF Surjection
  <2>2. k - 1 \in 0..(n - 1) /\ (k - 1) + 1 = k
    BY <1>1
  <2> QED BY <2>1, <2>2
<1> QED BY <1>1, <1>7, <1>8 DEF names

\* parser_init and add_builtins establish the invariant.
LEMMA ParserInvInit == Init => ParserInv
<1> SUFFICES ASSUME Init PROVE ParserInv
  OBVIOUS
<1> DEFINE names == SetToSeq(DOMAIN Builtins)
           uid(id) == CHOOSE i \in 0..(Len(names) - 1) : names[i + 1] = id
           tab == [id \in Names |-> IF id \in DOMAIN Builtins
                                    THEN FunctionItem(uid(id), Builtins[id]) ELSE NULL]
           b == [kind |-> "prog", empty |-> TRUE, returned |-> FALSE]
<1>1. /\ IsFiniteSet(DOMAIN Builtins) /\ \A f \in DOMAIN Builtins : Builtins[f] \in Signature
      /\ MaxStatements \in Nat
  BY ParserAssumption
<1>2. unique_id = Len(names) /\ unique_id \in Nat
  BY <1>1, BuiltinUid DEF Init
<1>3. \A id \in DOMAIN Builtins : uid(id) \in 0..(unique_id - 1)
  <2>1. \A id \in DOMAIN Builtins : \E i \in 0..(Len(names) - 1) : names[i + 1] = id
    BY <1>1, BuiltinUid
  <2> QED BY <1>2, <2>1
<1>4. tables = <<tab>>
  BY DEF Init
<1> HIDE DEF uid, names
<1>5. IsTable(tab, unique_id)
  <2>1. ASSUME NEW id \in Names, tab[id] # NULL PROVE IsItem(tab[id], unique_id)
    <3>1. id \in DOMAIN Builtins /\ tab[id] = FunctionItem(uid(id), Builtins[id])
      BY <2>1
    <3>2. IsItem(FunctionItem(uid(id), Builtins[id]), unique_id)
      BY <1>1, <1>2, <1>3, <3>1, FunctionIsItem
    <3> QED BY <3>1, <3>2
  <2>2. tab = [id \in Names |-> tab[id]]
    OBVIOUS
  <2> HIDE DEF tab
  <2> QED BY <2>1, <2>2 DEF IsTable
<1> HIDE DEF tab
<1>6. IsStack(tables, unique_id) /\ Len(tables) = 1
  BY <1>4, <1>5 DEF IsStack
<1>7. blocks = <<b>> /\ b \in AnyBlock
  BY DEF Init, AnyBlock
<1>8. Len(blocks) = 1 /\ blocks[1] = b /\ blocks \in Seq(AnyBlock) /\ blocks # <<>>
  BY <1>7
<1>9. IsNesting(blocks)
  BY <1>8 DEF IsNesting
<1>10. \A K : "prog" \notin K => Count(blocks, K) = 0
  <2> SUFFICES ASSUME NEW K, "prog" \notin K PROVE Count(blocks, K) = 0
    OBVIOUS
  <2>1. {i \in 1..Len(blocks) : blocks[i].kind \in K} = {}
    BY <1>8
  <2> QED BY <2>1, FS_EmptySet DEF Count
<1>11. Counted
  <2>1. /\ Count(blocks, {"func", "if"}) = 0 /\ Count(blocks, {"while", "else"}) = 0
        /\ Count(blocks, {"if", "else"}) = 0 /\ Count(blocks, {"while"}) = 0
    BY <1>10
  <2>2. Scopes(blocks) = 1 /\ Conds(blocks) = 0 /\ Loops(blocks) = 0
    BY <2>1 DEF Scopes, Conds, Loops
  <2>3. in_cond = 0 /\ in_loop = 0 /\ for_open = 0 /\ in_func_body = FALSE /\ pc # "done"
    BY DEF Init
  <2>4. ~(Len(blocks) > 1 /\ blocks[2].kind = "func")
    BY <1>8
  <2>5. in_func_body = (Len(blocks) > 1 /\ blocks[2].kind = "func")
    BY <2>3, <2>4, Zenon
  <2> QED BY <1>6, <2>2, <2>3, <2>5 DEF Counted
<1>12. ReturnNoted
  BY DEF ReturnNoted, Init
<1>13. Top.empty
  BY <1>8 DEF Top
<1>14. /\ first_stmt \in BOOLEAN /\ defined \subseteq Functions /\ steps \in 0..MaxStatements
       /\ pc = "declarations" /\ last.kind = "none"
  BY <1>1 DEF Init
<1> QED BY <1>2, <1>6, <1>9, <1>11, <1>12, <1>13, <1>14 DEF ParserInv

-----------------------------------------------------------------------------
(* What the steps do to the blocks.                                        *)

\* A rule returns an error, the second pass begins, or the program ends.
LEMMA PhaseInv ==
  ASSUME ParserInv,
         UNCHANGED <<tables, unique_id, blocks, flags, first_stmt, defined, last, steps>>,
         pc' \in {pc, "parse", "failed", "crashed"} \/ (pc' = "done" /\ Len(blocks) = 1)
  PROVE  ParserInv'
<1>1. Counted' /\ ReturnNoted' /\ IsNesting(blocks')
  BY DEF ParserInv, Counted, ReturnNoted, flags
<1>2. IsStack(tables', unique_id') /\ unique_id' \in Nat
  BY DEF ParserInv
<1>3. /\ first_stmt' \in BOOLEAN /\ (first_stmt' => Top'.empty)
      /\ defined' \subseteq Functions /\ steps' \in 0..MaxStatements
  BY DEF ParserInv, Top
<1>4. /\ pc' \in {"declarations", "parse", "done", "failed", "crashed"}
      /\ pc' = "declarations" => last'.kind = "none"
  BY DEF ParserInv
<1> QED BY <1>1, <1>2, <1>3, <1>4 DEF ParserInv

\* A statement that opens no block.
LEMMA StatementInv ==
  ASSUME ParserInv, Parsing, unique_id' \in Nat, IsStack(tables', unique_id'),
         Len(tables') = Len(tables), NextStatement(blocks), steps' = steps + 1,
         UNCHANGED <<flags, defined, pc>>
  PROVE  ParserInv'
<1>1. IsNesting(blocks) /\ Counted /\ ReturnNoted /\ pc = "parse" /\ steps < MaxStatements
  BY DEF ParserInv, Parsing
<1>2. /\ IsNesting(blocks') /\ Len(blocks') = Len(blocks) /\ Len(blocks) \in Nat \ {0}
      /\ \A i \in 1..Len(blocks) : /\ blocks'[i].kind = blocks[i].kind
                                   /\ blocks'[i].returned = blocks[i].returned
      /\ Scopes(blocks') = Scopes(blocks) /\ Conds(blocks') = Conds(blocks)
      /\ Loops(blocks') = Loops(blocks)
  BY <1>1, MarkedBlocks DEF NextStatement, Marked
<1>3. Counted'
  <2>1. Len(blocks) > 1 => blocks'[2].kind = blocks[2].kind
    BY <1>2
  <2> QED BY <1>1, <1>2, <2>1 DEF Counted, flags
<1>4. ReturnNoted'
  <2>1. Len(blocks) = 2 => blocks'[2].returned = blocks[2].returned
    BY <1>2
  <2> QED BY <1>1, <1>2, <2>1 DEF ReturnNoted, flags
<1>5. first_stmt' = FALSE
  BY DEF NextStatement
<1>6. steps' \in 0..MaxStatements
  BY <1>1, ParserAssumption DEF ParserInv
<1>7. defined' \subseteq Functions /\ pc' = "parse"
  BY <1>1 DEF ParserInv
<1> QED BY <1>2, <1>3, <1>4, <1>5, <1>6, <1>7 DEF ParserInv

\* The head of a block.
LEMMA OpenInv ==
  ASSUME ParserInv, Parsing, unique_id' \in Nat, IsStack(tables', unique_id'),
         NEW kind \in {"func", "while", "if"}, kind = "func" => Len(blocks) = 1,
         OpenBody(Block(kind)),
         Len(tables') = Len(tables) + ScopesOf(kind), in_cond' = in_cond + CondsOf(kind),
         in_loop' = in_loop + LoopsOf(kind), for_open' = for_open + LoopsOf(kind),
         in_func_body' = IF kind = "func" THEN TRUE ELSE in_func_body,
         steps' = steps + 1, defined' \subseteq Functions, UNCHANGED <<return_found, pc>>
  PROVE  ParserInv'
<1> DEFINE b == Block(kind)
<1>1. IsNesting(blocks) /\ Counted /\ ReturnNoted /\ pc = "parse" /\ steps < MaxStatements
  BY DEF ParserInv, Parsing
<1>2. b \in AnyBlock /\ b.kind = kind /\ b.empty
  BY DEF AnyBlock, Block
<1> HIDE DEF b
<1>3. /\ IsNesting(blocks') /\ Len(blocks') = Len(blocks) + 1
      /\ \A i \in 1..Len(blocks) : blocks'[i] = blocks[i]
      /\ blocks'[Len(blocks) + 1] = b
      /\ Scopes(blocks) \in Nat \ {0} /\ Scopes(blocks') = Scopes(blocks) + ScopesOf(kind)
      /\ Conds(blocks) \in Nat /\ Conds(blocks') = Conds(blocks) + CondsOf(kind)
      /\ Loops(blocks) \in Nat /\ Loops(blocks') = Loops(blocks) + LoopsOf(kind)
  <2>1. blocks' = Append(blocks, b)
    BY DEF OpenBody, b
  <2> QED BY <1>1, <1>2, <2>1, Pushed
<1>4. PICK n \in Nat \ {0} : n = Len(blocks)
  BY <1>1 DEF IsNesting
<1>5. in_func_body' = (Len(blocks') > 1 /\ blocks'[2].kind = "func")
  <2>1. in_func_body = (Len(blocks) > 1 /\ blocks[2].kind = "func")
    BY <1>1 DEF Counted
  <2>2. CASE n = 1
    <3>1. blocks'[2] = b /\ Len(blocks') > 1
      BY <1>3, <1>4, <2>2
    <3>2. in_func_body = FALSE
      <4>1. ~(Len(blocks) > 1)
        BY <1>4, <2>2
      <4> QED BY <2>1, <4>1, Zenon
    <3>3. in_func_body' = (kind = "func")
      BY <3>2
    <3> QED BY <1>2, <3>1, <3>3
  <2>3. CASE n > 1
    <3>1. 2 \in 1..n /\ n + 1 > 1 /\ n # 1
      BY <1>4, <2>3
    <3>2. blocks'[2] = blocks[2] /\ Len(blocks') > 1 /\ Len(blocks) > 1 /\ kind # "func"
      BY <1>3, <1>4, <2>3, <3>1
    <3> QED BY <2>1, <3>2
  <2>4. n = 1 \/ n > 1
    BY <1>4
  <2> QED BY <2>2, <2>3, <2>4
<1>6. Counted'
  BY <1>1, <1>3, <1>5 DEF Counted
<1>7. ReturnNoted'
  <2>1. Len(blocks') = 2 => ~in_func_body
    <3>1. in_func_body = (Len(blocks) > 1 /\ blocks[2].kind = "func")
      BY <1>1 DEF Counted
    <3>2. n + 1 = 2 => ~(n > 1)
      BY <1>4
    <3> QED BY <1>3, <1>4, <3>1, <3>2
  <2>2. in_func_body => in_func_body'
    OBVIOUS
  <2> QED BY <1>1, <2>1, <2>2 DEF ReturnNoted
<1>8. first_stmt' \in BOOLEAN /\ Top'.empty
  BY <1>2, <1>3, <1>4 DEF OpenBody, Top
<1>9. steps' \in 0..MaxStatements
  BY <1>1, ParserAssumption DEF ParserInv
<1> QED BY <1>1, <1>3, <1>6, <1>7, <1>8, <1>9 DEF ParserInv

\* What is known when the innermost block is not the program.
LEMMA InBlock ==
  ASSUME ParserInv, Top.kind # "prog"
  PROVE  /\ Len(blocks) \in Nat /\ Len(blocks) > 1
         /\ IsNesting(Front(blocks)) /\ Len(Front(blocks)) = Len(blocks) - 1
         /\ \A i \in 1..(Len(blocks) - 1) : Front(blocks)[i] = blocks[i]
         /\ Scopes(Front(blocks)) \in Nat \ {0}
         /\ Len(tables) = Scopes(Front(blocks)) + ScopesOf(Top.kind)
         /\ Conds(Front(blocks)) \in Nat /\ in_cond = Conds(Front(blocks)) + CondsOf(Top.kind)
         /\ Loops(Front(blocks)) \in Nat /\ in_loop = Loops(Front(blocks)) + LoopsOf(Top.kind)
         /\ for_open = in_loop
         /\ in_func_body = (blocks[2].kind = "func")
<1>1. IsNesting(blocks) /\ Counted
  BY DEF ParserInv
<1>2. PICK n \in Nat \ {0} : n = Len(blocks)
  BY <1>1 DEF IsNesting
<1>3. Len(blocks) > 1
  <2>1. n # 1
    BY <1>1, <1>2 DEF IsNesting, Top
  <2>2. n > 1
    BY <1>2, <2>1
  <2> QED BY <1>2, <2>2
<1>4. in_func_body = (blocks[2].kind = "func")
  BY <1>1, <1>3 DEF Counted
<1> QED BY <1>1, <1>2, <1>3, <1>4, Popped DEF Counted, Top

\* A } forgets the return, in a function; elsewhere there was none.
LEMMA ReturnForgotten ==
  ASSUME ParserInv, CloseBody
  PROVE  return_found' = FALSE
<1>1. return_found \in BOOLEAN /\ (return_found => in_func_body)
  BY DEF ParserInv, ReturnNoted
<1>2. return_found' = IF in_func_body THEN FALSE ELSE return_found
  BY DEF CloseBody
<1> QED BY <1>1, <1>2

\* The end of a block.
LEMMA CloseInv ==
  ASSUME ParserInv, pc = "parse", Top.kind # "prog", CloseBody, NextStatement(Front(blocks)),
         IsStack(tables', unique_id'), Len(tables') = Len(tables) - ScopesOf(Top.kind),
         in_cond' = in_cond - CondsOf(Top.kind), in_loop' = in_loop - LoopsOf(Top.kind),
         for_open' = for_open - LoopsOf(Top.kind),
         in_func_body' = IF Top.kind = "func" THEN FALSE ELSE in_func_body,
         UNCHANGED <<unique_id, defined, steps, pc>>
  PROVE  ParserInv'
<1> DEFINE fr == Front(blocks)
<1>1. /\ Len(blocks) \in Nat /\ Len(blocks) > 1
      /\ IsNesting(fr) /\ Len(fr) = Len(blocks) - 1
      /\ \A i \in 1..(Len(blocks) - 1) : fr[i] = blocks[i]
      /\ Scopes(fr) \in Nat \ {0} /\ Len(tables) = Scopes(fr) + ScopesOf(Top.kind)
      /\ Conds(fr) \in Nat /\ in_cond = Conds(fr) + CondsOf(Top.kind)
      /\ Loops(fr) \in Nat /\ in_loop = Loops(fr) + LoopsOf(Top.kind)
      /\ for_open = in_loop
      /\ in_func_body = (blocks[2].kind = "func")
  BY InBlock
<1>2. blocks' = Marked(fr) /\ first_stmt' = FALSE
  BY DEF NextStatement, Marked
<1> HIDE DEF fr
<1>3. /\ IsNesting(blocks') /\ Len(blocks') = Len(fr)
      /\ \A i \in 1..Len(fr) : blocks'[i].kind = fr[i].kind
      /\ Scopes(blocks') = Scopes(fr) /\ Conds(blocks') = Conds(fr) /\ Loops(blocks') = Loops(fr)
  BY <1>1, <1>2, MarkedBlocks
<1>4. /\ ScopesOf(Top.kind) \in Nat /\ CondsOf(Top.kind) \in Nat /\ LoopsOf(Top.kind) \in Nat
  BY DEF ScopesOf, CondsOf, LoopsOf
<1>5. in_func_body' = (Len(blocks') > 1 /\ blocks'[2].kind = "func")
  <2>1. CASE Top.kind = "func"
    <3>1. Len(blocks) = 2
      <4>1. IsNesting(blocks) /\ blocks[Len(blocks)].kind = "func" /\ Len(blocks) \in Nat \ {0}
        BY <2>1 DEF ParserInv, IsNesting, Top
      <4> QED BY <1>1, <4>1 DEF IsNesting
    <3>2. ~(Len(blocks') > 1)
      BY <1>1, <1>3, <3>1
    <3> QED BY <2>1, <3>2
  <2>2. CASE Top.kind # "func" /\ Len(blocks) = 2
    <3>1. blocks[2].kind # "func"
      BY <2>2 DEF Top
    <3> QED BY <1>1, <1>3, <2>2, <3>1
  <2>3. CASE Top.kind # "func" /\ Len(blocks) # 2
    <3>1. PICK n \in Nat : n = Len(blocks)
      BY <1>1
    <3>2. n > 2
      BY <1>1, <2>3, <3>1
    <3>3. 2 \in 1..(n - 1) /\ n - 1 > 1
      BY <3>1, <3>2
    <3>4. Len(blocks') > 1 /\ blocks'[2].kind = blocks[2].kind
      BY <1>1, <1>3, <3>1, <3>3
    <3> QED BY <1>1, <2>3, <3>4
  <2> QED BY <2>1, <2>2, <2>3
<1>6. Counted'
  <2>1. /\ Len(tables') = Scopes(blocks') /\ in_cond' = Conds(blocks')
        /\ in_loop' = Loops(blocks') /\ for_open' = in_loop'
    BY <1>1, <1>3, <1>4
  <2> QED BY <1>5, <2>1 DEF Counted
<1>7. ReturnNoted'
  BY ReturnForgotten DEF ReturnNoted
<1> QED BY <1>2, <1>3, <1>6, <1>7 DEF ParserInv

-----------------------------------------------------------------------------
(* One lemma per statement.                                                *)

\* An error leaves everything as it is.
LEMMA FailInv == ASSUME ParserInv, NEW e, Fail(e) PROVE ParserInv'
<1>1. /\ UNCHANGED <<tables, unique_id, blocks, flags, first_stmt, defined, last, steps>>
      /\ pc' \in {"failed", "crashed"}
  BY DEF Fail
<1> QED BY <1>1, PhaseInv

\* A new item is stored.
LEMMA StoreNew ==
  ASSUME ParserInv, NEW d \in 1..Len(tables), NEW id \in Names, NEW x, IsItem(x, unique_id + 1)
  PROVE  /\ unique_id + 1 \in Nat
         /\ IsStack([tables EXCEPT ![d][id] = x], unique_id + 1)
         /\ Len([tables EXCEPT ![d][id] = x]) = Len(tables)
<1>1. unique_id \in Nat /\ IsStack(tables, unique_id)
  BY DEF ParserInv
<1>2. unique_id + 1 \in Nat /\ unique_id <= unique_id + 1
  BY <1>1
<1>3. IsStack(tables, unique_id + 1)
  BY <1>1, <1>2, StackGrows
<1> QED BY <1>2, <1>3, StackPut

\* var and let.
LEMMA DefineInv ==
  ASSUME ParserInv, NEW mutable, NEW id \in Names, NEW ann, NEW rhs, NEW eol,
         define(mutable, id, ann, rhs, eol)
  PROVE  ParserInv'
<1> DEFINE local == in_cond > 0 \/ in_loop > 0 \/ in_func_body
           d == IF local THEN Len(tables) ELSE GLOBAL
           fresh == NewItem(unique_id)
           typed == IF ann = NULL THEN fresh
                    ELSE [fresh EXCEPT !.type = ann.type, !.nilable = ann.nilable,
                                       !.init = ann.nilable]
           tabs == [tables EXCEPT ![d][id] = typed]
           t == RhsType(tabs, rhs)
           item == CASE rhs = NULL -> typed
                     [] rhs # NULL /\ ann # NULL -> [typed EXCEPT !.init = TRUE]
                     [] OTHER -> [typed EXCEPT !.init = TRUE, !.type = t.type, !.nilable = t.nilable]
           x == [item EXCEPT !.mutable = mutable]
<1>1. /\ Parsing
      /\ \/ \E e : Fail(e)
         \/ /\ tables' = [tables EXCEPT ![d][id] = x] /\ unique_id' = unique_id + 1
            /\ NextStatement(blocks) /\ steps' = steps + 1 /\ UNCHANGED <<flags, defined, pc>>
  BY DEF define, InStatement
<1>2. d \in 1..Len(tables)
  BY DEF ParserInv, IsStack, GLOBAL
<1> HIDE DEF t, d
<1>3. IsItem(typed, unique_id + 1)
  <2>1. IsItem(fresh, unique_id + 1)
    BY NewItemIsItem DEF ParserInv
  <2> HIDE DEF fresh
  <2>2. IsItem([fresh EXCEPT !.type = ann.type], unique_id + 1)
    BY <2>1, ItemFields
  <2>3. IsItem([[fresh EXCEPT !.type = ann.type] EXCEPT !.nilable = ann.nilable], unique_id + 1)
    BY <2>2, ItemFields
  <2>4. IsItem([[[fresh EXCEPT !.type = ann.type] EXCEPT !.nilable = ann.nilable]
                  EXCEPT !.init = ann.nilable], unique_id + 1)
    BY <2>3, ItemFields
  <2> QED BY <2>1, <2>4
<1> HIDE DEF typed
<1>4. IsItem(item, unique_id + 1)
  <2>1. IsItem([typed EXCEPT !.init = TRUE], unique_id + 1)
    BY <1>3, ItemFields
  <2>2. IsItem([[typed EXCEPT !.init = TRUE] EXCEPT !.type = t.type], unique_id + 1)
    BY <2>1, ItemFields
  <2>3. IsItem([[[typed EXCEPT !.init = TRUE] EXCEPT !.type = t.type] EXCEPT !.nilable = t.nilable],
               unique_id + 1)
    BY <2>2, ItemFields
  <2> QED BY <1>3, <2>1, <2>3
<1> HIDE DEF item
<1>5. IsItem(x, unique_id + 1)
  BY <1>4, ItemFields
<1> HIDE DEF x
<1>6. ASSUME tables' = [tables EXCEPT ![d][id] = x], unique_id' = unique_id + 1,
             NextStatement(blocks), steps' = steps + 1, UNCHANGED <<flags, defined, pc>>
      PROVE  ParserInv'
  <2>1. unique_id' \in Nat /\ IsStack(tables', unique_id') /\ Len(tables') = Len(tables)
    BY <1>2, <1>5, <1>6, StoreNew
  <2> QED BY <1>1, <1>6, <2>1, StatementInv
<1> QED BY <1>1, <1>6, FailInv

\* An assignment.
LEMMA AssignInv ==
  ASSUME ParserInv, NEW id \in Names, NEW rhs, NEW eol, assign(id, rhs, eol)
  PROVE  ParserInv'
<1> DEFINE d == OrGlobal(tables, search_scopes(tables, Len(tables), id), id)
           x == [tables[d][id] EXCEPT !.init = TRUE]
<1>1. /\ Parsing
      /\ \/ \E e : Fail(e)
         \/ /\ d # NONE /\ tables' = [tables EXCEPT ![d][id].init = TRUE]
            /\ NextStatement(blocks) /\ steps' = steps + 1
            /\ UNCHANGED <<unique_id, flags, defined, pc>>
  BY DEF assign, InStatement
<1>2. unique_id \in Nat /\ IsStack(tables, unique_id)
  BY DEF ParserInv
<1>3. d # NONE => d \in 1..Len(tables) /\ tables[d][id] # NULL
  BY <1>2, SearchFinds
<1> HIDE DEF d
<1>4. ASSUME d # NONE, tables' = [tables EXCEPT ![d][id].init = TRUE],
             NextStatement(blocks), steps' = steps + 1, UNCHANGED <<unique_id, flags, defined, pc>>
      PROVE  ParserInv'
  <2>1. IsItem(tables[d][id], unique_id)
    BY <1>2, <1>3, <1>4 DEF IsStack, IsTable
  <2>2. IsItem(x, unique_id)
    BY <2>1, ItemFields
  <2>3. tables' = [tables EXCEPT ![d][id] = x]
    BY <1>4
  <2> HIDE DEF x
  <2>4. IsStack(tables', unique_id') /\ Len(tables') = Len(tables)
    <3>1. /\ IsStack([tables EXCEPT ![d][id] = x], unique_id)
          /\ Len([tables EXCEPT ![d][id] = x]) = Len(tables)
      <4>1. d \in 1..Len(tables)
        BY <1>3, <1>4
      <4> QED BY <1>2, <2>2, <4>1, StackPut
    <3> QED BY <1>4, <2>3, <3>1
  <2> QED BY <1>1, <1>2, <1>4, <2>4, StatementInv
<1> QED BY <1>1, <1>4, FailInv

\* A call.
LEMMA CallInv ==
  ASSUME ParserInv, NEW f, NEW args, NEW eol, call(f, args, eol)
  PROVE  ParserInv'
<1>1. /\ Parsing
      /\ \/ \E e : Fail(e)
         \/ /\ NextStatement(blocks) /\ steps' = steps + 1
            /\ UNCHANGED <<tables, unique_id, flags, defined, pc>>
  BY DEF call, InStatement
<1>2. unique_id \in Nat /\ IsStack(tables, unique_id)
  BY DEF ParserInv
<1> QED BY <1>1, <1>2, FailInv, StatementInv

\* A return notes itself in its block.
LEMMA ReturnInv ==
  ASSUME ParserInv, NEW value, NEW eol, return(value, eol)
  PROVE  ParserInv'
<1> DEFINE bs == [blocks EXCEPT ![Len(blocks)].returned = TRUE]
<1>1. /\ Parsing /\ in_func_body
      /\ \/ \E e : Fail(e)
         \/ /\ return_found' = TRUE /\ NextStatement(bs) /\ steps' = steps + 1
            /\ UNCHANGED <<tables, unique_id, in_cond, in_loop, in_func_body, for_open, defined, pc>>
  BY DEF return, InStatement
<1>2. ASSUME return_found' = TRUE, NextStatement(bs), steps' = steps + 1,
             UNCHANGED <<tables, unique_id, in_cond, in_loop, in_func_body, for_open, defined, pc>>
      PROVE  ParserInv'
  <2>1. IsNesting(blocks) /\ Counted /\ pc = "parse" /\ steps < MaxStatements
    BY <1>1 DEF ParserInv, Parsing
  <2>2. /\ IsNesting(bs) /\ Len(bs) = Len(blocks) /\ bs[Len(blocks)].returned
        /\ \A i \in 1..Len(blocks) : bs[i].kind = blocks[i].kind
        /\ Scopes(bs) = Scopes(blocks) /\ Conds(bs) = Conds(blocks) /\ Loops(bs) = Loops(blocks)
    BY <2>1, ReturnedBlocks
  <2> HIDE DEF bs
  <2>3. blocks' = Marked(bs) /\ first_stmt' = FALSE
    BY <1>2 DEF NextStatement, Marked
  <2>4. /\ IsNesting(blocks') /\ Len(blocks') = Len(blocks) /\ Len(blocks) \in Nat \ {0}
        /\ \A i \in 1..Len(blocks) : /\ blocks'[i].kind = blocks[i].kind
                                     /\ blocks'[i].returned = bs[i].returned
        /\ Scopes(blocks') = Scopes(blocks) /\ Conds(blocks') = Conds(blocks)
        /\ Loops(blocks') = Loops(blocks)
    BY <2>2, <2>3, MarkedBlocks
  <2>5. Counted'
    <3>1. Len(blocks) > 1 => blocks'[2].kind = blocks[2].kind
      BY <2>4
    <3> QED BY <1>2, <2>1, <2>4, <3>1 DEF Counted
  <2>6. ReturnNoted'
    <3>1. Len(blocks) = 2 => blocks'[2].returned
      BY <2>2, <2>4
    <3> QED BY <1>1, <1>2, <2>4, <3>1 DEF ReturnNoted
  <2>7. steps' \in 0..MaxStatements
    BY <1>2, <2>1, ParserAssumption DEF ParserInv
  <2> QED BY <1>2, <2>1, <2>3, <2>4, <2>5, <2>6, <2>7 DEF ParserInv
<1> QED BY <1>1, <1>2, FailInv

\* The counters are natural numbers.
LEMMA CountersType ==
  ASSUME ParserInv
  PROVE  in_cond \in Nat /\ in_loop \in Nat /\ for_open \in Nat
<1>1. blocks \in Seq(AnyBlock) /\ blocks[1] \in AnyBlock
  BY DEF ParserInv, IsNesting
<1>2. \A K : Count(blocks, K) \in Nat
  BY <1>1, CountAppend
<1> QED BY <1>2 DEF ParserInv, Counted, Conds, Loops

\* add_scope pushes an empty table.
LEMMA AddScope ==
  ASSUME NEW tabs, NEW n, IsStack(tabs, n)
  PROVE  IsStack(add_scope(tabs), n) /\ Len(add_scope(tabs)) = Len(tabs) + 1
           /\ add_scope(tabs)[GLOBAL] = tabs[GLOBAL]
<1>1. IsTable(EmptyTable, n)
  BY DEF IsTable, EmptyTable
<1> QED BY <1>1, StackPush DEF add_scope

\* The head of a while.
LEMMA WhileInv ==
  ASSUME ParserInv, NEW cond, NEW eol, while(cond, eol)
  PROVE  ParserInv'
<1>1. /\ Parsing
      /\ \/ \E e : Fail(e)
         \/ /\ in_loop' = in_loop + 1 /\ for_open' = for_open + 1 /\ tables' = add_scope(tables)
            /\ OpenBody(Block("while")) /\ steps' = steps + 1
            /\ UNCHANGED <<unique_id, in_cond, in_func_body, return_found, defined, pc>>
  BY DEF while, InStatement
<1>2. /\ unique_id \in Nat /\ IsStack(tables, unique_id) /\ defined \subseteq Functions
      /\ in_cond \in Nat
  BY CountersType DEF ParserInv
<1>3. IsStack(add_scope(tables), unique_id) /\ Len(add_scope(tables)) = Len(tables) + 1
  BY <1>2, AddScope
<1>4. ScopesOf("while") = 1 /\ CondsOf("while") = 0 /\ LoopsOf("while") = 1
  BY DEF ScopesOf, CondsOf, LoopsOf
<1>5. ASSUME in_loop' = in_loop + 1, for_open' = for_open + 1, tables' = add_scope(tables),
             OpenBody(Block("while")), steps' = steps + 1,
             UNCHANGED <<unique_id, in_cond, in_func_body, return_found, defined, pc>>
      PROVE  ParserInv'
  <2>1. /\ unique_id' \in Nat /\ IsStack(tables', unique_id') /\ defined' \subseteq Functions
        /\ Len(tables') = Len(tables) + ScopesOf("while")
        /\ in_cond' = in_cond + CondsOf("while")
        /\ in_loop' = in_loop + LoopsOf("while") /\ for_open' = for_open + LoopsOf("while")
        /\ in_func_body' = IF "while" = "func" THEN TRUE ELSE in_func_body
    BY <1>2, <1>3, <1>4, <1>5
  <2> QED BY <1>1, <1>5, <2>1, OpenInv
<1> QED BY <1>1, <1>5, FailInv

\* if with an expression as its condition.
LEMMA IfExprInv ==
  ASSUME ParserInv, NEW cond, NEW eol, IfExpr(cond, eol)
  PROVE  ParserInv'
<1>1. /\ Parsing
      /\ \/ \E e : Fail(e)
         \/ /\ in_cond' = in_cond + 1 /\ tables' = add_scope(add_scope(tables))
            /\ OpenBody(Block("if")) /\ steps' = steps + 1
            /\ UNCHANGED <<unique_id, in_loop, in_func_body, return_found, for_open, defined, pc>>
  BY DEF IfExpr, InStatement
<1>2. /\ unique_id \in Nat /\ IsStack(tables, unique_id) /\ defined \subseteq Functions
      /\ in_loop \in Nat /\ for_open \in Nat /\ Len(tables) \in Nat
  BY CountersType DEF ParserInv, IsStack
<1>3. IsStack(add_scope(tables), unique_id) /\ Len(add_scope(tables)) = Len(tables) + 1
  BY <1>2, AddScope
<1>4. /\ IsStack(add_scope(add_scope(tables)), unique_id)
      /\ Len(add_scope(add_scope(tables))) = Len(tables) + 2
  BY <1>2, <1>3, AddScope
<1>5. ScopesOf("if") = 2 /\ CondsOf("if") = 1 /\ LoopsOf("if") = 0
  BY DEF ScopesOf, CondsOf, LoopsOf
<1>6. ASSUME in_cond' = in_cond + 1, tables' = add_scope(add_scope(tables)),
             OpenBody(Block("if")), steps' = steps + 1,
             UNCHANGED <<unique_id, in_loop, in_func_body, return_found, for_open, defined, pc>>
      PROVE  ParserInv'
  <2>1. /\ unique_id' \in Nat /\ IsStack(tables', unique_id') /\ defined' \subseteq Functions
        /\ Len(tables') = Len(tables) + ScopesOf("if")
        /\ in_cond' = in_cond + CondsOf("if")
        /\ in_loop' = in_loop + LoopsOf("if") /\ for_open' = for_open + LoopsOf("if")
        /\ in_func_body' = IF "if" = "func" THEN TRUE ELSE in_func_body
    BY <1>2, <1>4, <1>5, <1>6
  <2> QED BY <1>1, <1>6, <2>1, OpenInv
<1> QED BY <1>1, <1>6, FailInv

\* The constant of if let.
LEMMA LetIsItem ==
  ASSUME NEW n \in Nat, NEW item
  PROVE  IsItem(LetItem(n, item), n + 1)
<1> DEFINE s == [NoSignature EXCEPT !.frame = item.sig.frame]
           x == [NewItem(n) EXCEPT !.type = item.type, !.init = TRUE]
<1>1. s.written \in Seq(Parameter)
  <2>1. s.written = <<>>
    BY DEF NoSignature
  <2> QED BY <2>1, EmptySeq
<1>2. IsItem(x, n + 1)
  <2>1. IsItem([NewItem(n) EXCEPT !.type = item.type], n + 1)
    BY NewItemIsItem, ItemFields
  <2> QED BY <2>1, ItemFields
<1>3. LetItem(n, item) = [x EXCEPT !.sig = s]
  BY DEF LetItem
<1> HIDE DEF s, x
<1>4. IsItem([x EXCEPT !.sig = s], n + 1)
  BY <1>1, <1>2 DEF IsItem
<1> QED BY <1>3, <1>4

\* if let.
LEMMA IfLetInv ==
  ASSUME ParserInv, NEW id \in Names, NEW eol, IfLet(id, eol)
  PROVE  ParserInv'
<1> DEFINE d == OrGlobal(tables, search_scopes(tables, Len(tables), id), id)
           cond == add_scope(tables)
           x == LetItem(unique_id, tables[d][id])
           tabs == [cond EXCEPT ![Len(cond)][id] = x]
<1>1. /\ Parsing
      /\ \/ \E e : Fail(e)
         \/ /\ in_cond' = in_cond + 1 /\ tables' = add_scope(tabs) /\ unique_id' = unique_id + 1
            /\ OpenBody(Block("if")) /\ steps' = steps + 1
            /\ UNCHANGED <<in_loop, in_func_body, return_found, for_open, defined, pc>>
  BY DEF IfLet, InStatement
<1>2. /\ unique_id \in Nat /\ IsStack(tables, unique_id) /\ defined \subseteq Functions
      /\ in_loop \in Nat /\ for_open \in Nat /\ Len(tables) \in Nat
  BY CountersType DEF ParserInv, IsStack
<1>3. unique_id + 1 \in Nat /\ unique_id <= unique_id + 1
  BY <1>2
<1>4. IsStack(tables, unique_id + 1)
  BY <1>2, <1>3, StackGrows
<1>5. IsStack(cond, unique_id + 1) /\ Len(cond) = Len(tables) + 1
  BY <1>4, AddScope
<1>6. IsItem(x, unique_id + 1)
  BY <1>2, LetIsItem
<1> HIDE DEF x, cond
<1>7. IsStack(tabs, unique_id + 1) /\ Len(tabs) = Len(tables) + 1
  <2>1. PICK top \in 1..Len(cond) : top = Len(cond)
    BY <1>2, <1>5
  <2>2. /\ IsStack([cond EXCEPT ![top][id] = x], unique_id + 1)
        /\ Len([cond EXCEPT ![top][id] = x]) = Len(cond)
    <3>1. IsStack(cond, unique_id + 1)
      BY <1>5
    <3> QED BY <1>6, <3>1, StackPut
  <2>3. tabs = [cond EXCEPT ![top][id] = x]
    BY <2>1
  <2> HIDE DEF tabs
  <2> QED BY <1>5, <2>2, <2>3
<1> HIDE DEF tabs
<1>8. IsStack(add_scope(tabs), unique_id + 1) /\ Len(add_scope(tabs)) = Len(tables) + 2
  BY <1>2, <1>7, AddScope
<1>9. ScopesOf("if") = 2 /\ CondsOf("if") = 1 /\ LoopsOf("if") = 0
  BY DEF ScopesOf, CondsOf, LoopsOf
<1>10. ASSUME in_cond' = in_cond + 1, tables' = add_scope(tabs), unique_id' = unique_id + 1,
              OpenBody(Block("if")), steps' = steps + 1,
              UNCHANGED <<in_loop, in_func_body, return_found, for_open, defined, pc>>
       PROVE  ParserInv'
  <2>1. /\ unique_id' \in Nat /\ IsStack(tables', unique_id') /\ defined' \subseteq Functions
        /\ Len(tables') = Len(tables) + ScopesOf("if")
        /\ in_cond' = in_cond + CondsOf("if")
        /\ in_loop' = in_loop + LoopsOf("if") /\ for_open' = for_open + LoopsOf("if")
        /\ in_func_body' = IF "if" = "func" THEN TRUE ELSE in_func_body
    BY <1>2, <1>3, <1>8, <1>9, <1>10
  <2> QED BY <1>1, <1>10, <2>1, OpenInv
<1> QED BY <1>1, <1>10, FailInv

\* The names of a list of parameters are finitely many.
LEMMA NamesFinite ==
  ASSUME NEW params \in Seq(Parameter)
  PROVE  IsFiniteSet(ParamNames(params)) /\ Cardinality(ParamNames(params)) \in Nat
<1> DEFINE n == Len(params)
           nm == [i \in 1..n |-> params[i].name]
           T == ParamNames(params)
<1>1. n \in Nat /\ IsFiniteSet(1..n)
  BY FS_Interval
<1>2. T = {params[i].name : i \in 1..n}
  BY DEF ParamNames
<1> HIDE DEF n, T
<1>3. nm \in Surjection(1..n, T)
  BY <1>2 DEF Surjection
<1> HIDE DEF nm
<1>4. IsFiniteSet(T)
  BY <1>1, <1>3, FS_Surjection
<1> QED BY <1>4, FS_CardinalityType DEF T

\* A parameter's uid counts the names before its first place: it is one of the
\* numbers by which the counter is advanced.
LEMMA ParamUid ==
  ASSUME NEW params \in Seq(Parameter), NEW m \in 1..Len(params),
         \A i \in 1..(m - 1) : params[i].name # params[m].name
  PROVE  /\ Cardinality(ParamNames(SubSeq(params, 1, m - 1))) \in Nat
         /\ Cardinality(ParamNames(SubSeq(params, 1, m - 1))) + 1 <= Cardinality(ParamNames(params))
<1> DEFINE pre == SubSeq(params, 1, m - 1)
           P == ParamNames(pre)
           A == ParamNames(params)
           id == params[m].name
<1>1. Len(params) \in Nat /\ m \in Nat /\ \A i \in 1..(m - 1) : i \in 1..Len(params) /\ params[i] \in Parameter
  OBVIOUS
<1>2. /\ pre \in Seq(Parameter) /\ Len(pre) = m - 1
      /\ \A i \in 1..(m - 1) : pre[i] = params[i]
  BY <1>1, SubSeqProperties
<1> HIDE DEF pre
<1>3. P = {params[i].name : i \in 1..(m - 1)} /\ A = {params[i].name : i \in 1..Len(params)}
  BY <1>2 DEF ParamNames
<1>4. IsFiniteSet(P) /\ Cardinality(P) \in Nat /\ IsFiniteSet(A) /\ Cardinality(A) \in Nat
  BY <1>2, NamesFinite
<1> HIDE DEF P, A
<1>5. id \notin P /\ P \union {id} \in SUBSET A
  BY <1>1, <1>3
<1>6. Cardinality(P \union {id}) = Cardinality(P) + 1
  BY <1>4, <1>5, FS_AddElement
<1>7. Cardinality(P \union {id}) <= Cardinality(A)
  BY <1>4, <1>5, FS_Subset
<1> QED BY <1>4, <1>6, <1>7 DEF P, A, pre

\* The scope of the parameters holds items with uids of their own.
LEMMA ParamTable ==
  ASSUME unique_id \in Nat, NEW params \in Seq(Parameter)
  PROVE  IsTable(ParamScope(params), unique_id + Cardinality(ParamNames(params)))
<1> DEFINE n == unique_id + Cardinality(ParamNames(params))
           Places(id) == {i \in 1..Len(params) : params[i].name = id}
           Uid(id) == unique_id + Cardinality(ParamNames(SubSeq(params, 1, Min(Places(id)) - 1)))
           ParamItem(id) == [NewItem(Uid(id)) EXCEPT
                               !.init = TRUE, !.type = params[Max(Places(id))].type.type]
           tab == ParamScope(params)
<1>1. tab = [id \in Names |-> IF Places(id) = {} THEN NULL ELSE ParamItem(id)]
  BY DEF ParamScope
<1>2. n \in Nat /\ Len(params) \in Nat
  BY NamesFinite
<1>3. ASSUME NEW id \in Names, Places(id) # {} PROVE IsItem(ParamItem(id), n)
  <2> DEFINE m == Min(Places(id))
             u == Uid(id)
             type == params[Max(Places(id))].type.type
  <2>1. Places(id) \in SUBSET Nat
    BY <1>2
  <2>2. m \in Places(id) /\ \A k \in Places(id) : m <= k
    BY <1>3, <2>1, MinIsLeast
  <2> HIDE DEF m, type
  <2>3. m \in 1..Len(params) /\ params[m].name = id
    BY <2>2
  <2>4. \A i \in 1..(m - 1) : params[i].name # params[m].name
    <3> SUFFICES ASSUME NEW i \in 1..(m - 1), params[i].name = id PROVE FALSE
      BY <2>3
    <3>1. i \in Places(id)
      BY <1>2, <2>3
    <3>2. m <= i
      BY <2>2, <3>1
    <3> QED BY <1>2, <2>3, <3>2
  <2>5. u \in Nat /\ u + 1 <= n
    <3>1. /\ Cardinality(ParamNames(SubSeq(params, 1, m - 1))) \in Nat
          /\ Cardinality(ParamNames(SubSeq(params, 1, m - 1))) + 1 <= Cardinality(ParamNames(params))
      BY <2>3, <2>4, ParamUid
    <3>2. u = unique_id + Cardinality(ParamNames(SubSeq(params, 1, m - 1)))
      BY DEF m
    <3>3. Cardinality(ParamNames(params)) \in Nat
      BY NamesFinite
    <3> HIDE DEF u
    <3> QED BY <3>1, <3>2, <3>3
  <2> HIDE DEF u, n
  <2>6. IsItem(NewItem(u), u + 1)
    BY <2>5, NewItemIsItem
  <2>7. IsItem(NewItem(u), n)
    <3>1. 0..((u + 1) - 1) \subseteq 0..(n - 1)
      BY <1>2, <2>5
    <3> QED BY <2>6, <3>1 DEF IsItem
  <2>8. IsItem([NewItem(u) EXCEPT !.init = TRUE], n)
    BY <2>7, ItemFields
  <2>9. IsItem([[NewItem(u) EXCEPT !.init = TRUE] EXCEPT !.type = type], n)
    BY <2>8, ItemFields
  <2> QED BY <2>9 DEF u, type
<1> HIDE DEF Places, ParamItem, n
<1>4. tab = [id \in Names |-> tab[id]] /\ \A id \in Names : tab[id] # NULL => IsItem(tab[id], n)
  BY <1>1, <1>3
<1> HIDE DEF tab
<1>5. IsTable(tab, n)
  BY <1>4 DEF IsTable
<1> QED BY <1>5 DEF tab, n

\* The header of a function definition, in the second pass.
LEMMA FuncInv ==
  ASSUME ParserInv, NEW f \in Functions, NEW eol, func(f, eol)
  PROVE  ParserInv'
<1> DEFINE params == tables[GLOBAL][f].sig.written
           n == unique_id + Cardinality(ParamNames(params))
           tabs == Append(tables, ParamScope(params))
<1>1. /\ Parsing /\ Top.kind = "prog" /\ IsFunction(tables[GLOBAL][f])
      /\ tables' = add_scope(tabs) /\ unique_id' = n
      /\ in_func_body' = TRUE /\ OpenBody(Block("func")) /\ defined' = defined \union {f}
      /\ steps' = steps + 1 /\ UNCHANGED <<in_cond, in_loop, return_found, for_open, pc>>
  BY DEF func, InStatement
<1>2. /\ unique_id \in Nat /\ IsStack(tables, unique_id) /\ defined \subseteq Functions
      /\ in_cond \in Nat /\ in_loop \in Nat /\ for_open \in Nat /\ Len(tables) \in Nat \ {0}
  BY CountersType DEF ParserInv, IsStack
<1>3. params \in Seq(Parameter)
  <2>1. f \in Names /\ tables[GLOBAL][f] # NULL /\ GLOBAL \in 1..Len(tables)
    BY <1>1, <1>2, ParserAssumption DEF IsFunction, GLOBAL
  <2> QED BY <1>2, <2>1 DEF IsStack, IsTable, IsItem
<1> HIDE DEF params
<1>4. n \in Nat /\ unique_id <= n
  BY <1>2, <1>3, NamesFinite
<1>5. IsTable(ParamScope(params), n)
  BY <1>2, <1>3, ParamTable
<1> HIDE DEF n
<1>6. IsStack(tables, n)
  BY <1>2, <1>4, StackGrows
<1>7. IsStack(tabs, n) /\ Len(tabs) = Len(tables) + 1
  BY <1>5, <1>6, StackPush
<1> HIDE DEF tabs
<1>8. IsStack(add_scope(tabs), n) /\ Len(add_scope(tabs)) = Len(tables) + 2
  BY <1>2, <1>7, AddScope
<1>9. ScopesOf("func") = 2 /\ CondsOf("func") = 0 /\ LoopsOf("func") = 0
  BY DEF ScopesOf, CondsOf, LoopsOf
<1>10. Len(blocks) = 1
  <2>1. PICK k \in 1..Len(blocks) : k = Len(blocks)
    BY DEF ParserInv, IsNesting
  <2>2. blocks[k].kind = "prog"
    BY <1>1, <2>1 DEF Top
  <2> QED BY <2>1, <2>2 DEF ParserInv, IsNesting
<1>11. /\ unique_id' \in Nat /\ IsStack(tables', unique_id') /\ defined' \subseteq Functions
       /\ Len(tables') = Len(tables) + ScopesOf("func")
       /\ in_cond' = in_cond + CondsOf("func")
       /\ in_loop' = in_loop + LoopsOf("func") /\ for_open' = for_open + LoopsOf("func")
       /\ in_func_body' = IF "func" = "func" THEN TRUE ELSE in_func_body
  BY <1>1, <1>2, <1>4, <1>8, <1>9
<1> QED BY <1>1, <1>10, <1>11, OpenInv

\* The } of an if body and the else: one block for another.
LEMMA ElseInv == ASSUME ParserInv, Else PROVE ParserInv'
<1> DEFINE fr == Front(blocks)
           b == Block("else")
           p1 == pop_scope(tables)
           p2 == pop_scope(p1)
<1>1. /\ pc = "parse" /\ Top.kind = "if" /\ CloseBody
      /\ tables' = add_scope(p2) /\ blocks' = Append(fr, b) /\ first_stmt' = TRUE
      /\ UNCHANGED <<unique_id, in_cond, in_loop, in_func_body, for_open, defined, steps, pc>>
  BY DEF Else
<1>2. Top.kind # "prog" /\ ScopesOf(Top.kind) = 2 /\ CondsOf(Top.kind) = 1 /\ LoopsOf(Top.kind) = 0
  BY <1>1 DEF ScopesOf, CondsOf, LoopsOf
<1>3. /\ Len(blocks) \in Nat /\ Len(blocks) > 1
      /\ IsNesting(fr) /\ Len(fr) = Len(blocks) - 1
      /\ \A i \in 1..(Len(blocks) - 1) : fr[i] = blocks[i]
      /\ Scopes(fr) \in Nat \ {0} /\ Len(tables) = Scopes(fr) + 2
      /\ Conds(fr) \in Nat /\ in_cond = Conds(fr) + 1
      /\ Loops(fr) \in Nat /\ in_loop = Loops(fr) + 0
      /\ for_open = in_loop
      /\ in_func_body = (blocks[2].kind = "func")
  BY <1>2, InBlock
<1> HIDE DEF fr
<1>4. b \in AnyBlock /\ b.kind = "else" /\ b.empty
  BY DEF AnyBlock, Block
<1>5. ScopesOf("else") = 1 /\ CondsOf("else") = 1 /\ LoopsOf("else") = 0
  BY DEF ScopesOf, CondsOf, LoopsOf
<1> HIDE DEF b
<1>6. /\ IsNesting(blocks') /\ Len(blocks') = Len(fr) + 1
      /\ \A i \in 1..Len(fr) : blocks'[i] = fr[i]
      /\ blocks'[Len(fr) + 1] = b
      /\ Scopes(blocks') = Scopes(fr) + 1
      /\ Conds(blocks') = Conds(fr) + 1 /\ Loops(blocks') = Loops(fr) + 0
  BY <1>1, <1>3, <1>4, <1>5, Pushed
<1>7. IsStack(tables', unique_id') /\ Len(tables') = Len(tables) - 1
  <2>1. IsStack(tables, unique_id) /\ Len(tables) > 1 /\ Len(tables) - 1 > 1
    BY <1>3 DEF ParserInv
  <2>2. IsStack(p1, unique_id) /\ Len(p1) = Len(tables) - 1
    BY <2>1, StackPop
  <2> HIDE DEF p1
  <2>3. IsStack(p2, unique_id) /\ Len(p2) = Len(p1) - 1
    BY <2>1, <2>2, StackPop
  <2> HIDE DEF p2
  <2>4. IsStack(add_scope(p2), unique_id) /\ Len(add_scope(p2)) = Len(p2) + 1
    BY <2>3, AddScope
  <2> QED BY <1>1, <1>3, <2>2, <2>3, <2>4
<1>8. in_func_body' = (Len(blocks') > 1 /\ blocks'[2].kind = "func")
  <2>1. PICK n \in Nat : n = Len(blocks)
    BY <1>3
  <2>2. n > 1
    BY <1>3, <2>1
  <2>3. Len(blocks') = n /\ Len(fr) = n - 1
    BY <1>3, <1>6, <2>1, <2>2
  <2>4. CASE n = 2
    <3>1. Len(fr) + 1 = 2
      BY <2>3, <2>4
    <3>2. blocks'[2].kind = "else" /\ blocks[2].kind = "if"
      BY <1>1, <1>4, <1>6, <2>1, <2>4, <3>1 DEF Top
    <3> QED BY <1>1, <1>3, <3>2
  <2>5. CASE n > 2
    <3>1. 2 \in 1..(n - 1)
      BY <2>1, <2>5
    <3>2. blocks'[2] = blocks[2]
      BY <1>3, <1>6, <2>1, <2>3, <3>1
    <3> QED BY <1>1, <1>3, <2>2, <2>3, <3>2
  <2>6. n = 2 \/ n > 2
    BY <2>1, <2>2
  <2> QED BY <2>4, <2>5, <2>6
<1>9. Counted'
  <2>1. /\ Len(tables') = Scopes(blocks') /\ in_cond' = Conds(blocks')
        /\ in_loop' = Loops(blocks') /\ for_open' = in_loop'
    BY <1>1, <1>3, <1>6, <1>7
  <2> QED BY <1>1, <1>8, <2>1 DEF Counted
<1>10. ReturnNoted'
  BY <1>1, ReturnForgotten DEF ReturnNoted
<1>11. first_stmt' \in BOOLEAN /\ Top'.empty
  <2>1. Top' = b
    BY <1>3, <1>6 DEF Top
  <2> QED BY <1>1, <1>4, <2>1
<1> QED BY <1>1, <1>6, <1>7, <1>9, <1>10, <1>11 DEF ParserInv

\* The } of an else body or of a while body.
LEMMA EndBlockInv == ASSUME ParserInv, EndIf \/ EndWhile PROVE ParserInv'
<1>1. /\ pc = "parse" /\ Top.kind \in {"else", "while"} /\ CloseBody
      /\ NextStatement(Front(blocks)) /\ tables' = pop_scope(tables)
      /\ UNCHANGED <<unique_id, in_func_body, defined, steps, pc>>
  BY DEF EndIf, EndWhile
<1>2. in_cond \in Nat /\ in_loop \in Nat /\ for_open \in Nat
  BY CountersType
<1>3. /\ in_cond' = in_cond - CondsOf(Top.kind) /\ in_loop' = in_loop - LoopsOf(Top.kind)
      /\ for_open' = for_open - LoopsOf(Top.kind)
  BY <1>2 DEF EndIf, EndWhile, CondsOf, LoopsOf
<1>4. Top.kind # "prog" /\ ScopesOf(Top.kind) = 1 /\ Top.kind # "func"
  BY <1>1 DEF ScopesOf
<1>5. Len(tables) > 1 /\ IsStack(tables, unique_id)
  BY <1>4, InBlock DEF ParserInv
<1>6. IsStack(tables', unique_id') /\ Len(tables') = Len(tables) - ScopesOf(Top.kind)
  BY <1>1, <1>4, <1>5, StackPop
<1> QED BY <1>1, <1>3, <1>4, <1>6, CloseInv

\* The } of a function body.
LEMMA EndFuncInv == ASSUME ParserInv, EndFunc PROVE ParserInv'
<1>1. /\ pc = "parse" /\ Top.kind = "func"
      /\ \/ \E e : Fail(e)
         \/ /\ CloseBody /\ NextStatement(Front(blocks)) /\ tables' = pop_scope(pop_scope(tables))
            /\ in_func_body' = FALSE
            /\ UNCHANGED <<unique_id, in_cond, in_loop, for_open, defined, steps, pc>>
  BY DEF EndFunc
<1>2. in_cond \in Nat /\ in_loop \in Nat /\ for_open \in Nat
  BY CountersType
<1>3. Top.kind # "prog" /\ ScopesOf(Top.kind) = 2 /\ CondsOf(Top.kind) = 0 /\ LoopsOf(Top.kind) = 0
  BY <1>1 DEF ScopesOf, CondsOf, LoopsOf
<1>4. IsStack(tables, unique_id) /\ Len(tables) \in Nat /\ Len(tables) > 1 /\ Len(tables) - 1 > 1
  BY <1>3, InBlock DEF ParserInv
<1>5. IsStack(pop_scope(tables), unique_id) /\ Len(pop_scope(tables)) = Len(tables) - 1
  BY <1>4, StackPop
<1>6. /\ IsStack(pop_scope(pop_scope(tables)), unique_id)
      /\ Len(pop_scope(pop_scope(tables))) = Len(tables) - 2
  BY <1>4, <1>5, StackPop
<1>7. ASSUME CloseBody, NextStatement(Front(blocks)), tables' = pop_scope(pop_scope(tables)),
             in_func_body' = FALSE,
             UNCHANGED <<unique_id, in_cond, in_loop, for_open, defined, steps, pc>>
      PROVE  ParserInv'
  <2>1. /\ IsStack(tables', unique_id') /\ Len(tables') = Len(tables) - ScopesOf(Top.kind)
        /\ in_cond' = in_cond - CondsOf(Top.kind) /\ in_loop' = in_loop - LoopsOf(Top.kind)
        /\ for_open' = for_open - LoopsOf(Top.kind)
    BY <1>2, <1>3, <1>6, <1>7
  <2>2. in_func_body' = IF Top.kind = "func" THEN FALSE ELSE in_func_body
    BY <1>1, <1>7
  <2> QED BY <1>1, <1>3, <1>7, <2>1, <2>2, CloseInv
<1> QED BY <1>1, <1>7, FailInv

\* A function header, in the first pass.
LEMMA HeaderInv ==
  ASSUME ParserInv, NEW f \in Functions, NEW sig \in Signatures, func_header(f, sig)
  PROVE  ParserInv'
<1> DEFINE x == FunctionItem(unique_id, sig)
<1>1. /\ pc = "declarations" /\ tables' = [tables EXCEPT ![GLOBAL][f] = x]
      /\ unique_id' = unique_id + 1
      /\ UNCHANGED <<blocks, flags, first_stmt, defined, last, steps, pc>>
  BY DEF func_header
<1>2. /\ unique_id \in Nat /\ GLOBAL \in 1..Len(tables) /\ f \in Names /\ sig \in Signature
      /\ unique_id \in 0..((unique_id + 1) - 1) /\ unique_id + 1 \in Nat
  BY ParserAssumption DEF ParserInv, IsStack, GLOBAL
<1>3. IsItem(x, unique_id + 1)
  BY <1>2, FunctionIsItem
<1> HIDE DEF x
<1>4. unique_id' \in Nat /\ IsStack(tables', unique_id') /\ Len(tables') = Len(tables)
  <2>1. /\ IsStack([tables EXCEPT ![GLOBAL][f] = x], unique_id + 1)
        /\ Len([tables EXCEPT ![GLOBAL][f] = x]) = Len(tables)
    BY <1>2, <1>3, StoreNew
  <2> QED BY <1>1, <1>2, <2>1
<1>5. Counted'
  BY <1>1, <1>4 DEF ParserInv, Counted, flags
<1>6. ReturnNoted'
  BY <1>1 DEF ParserInv, ReturnNoted, flags
<1>7. /\ first_stmt' \in BOOLEAN /\ (first_stmt' => Top'.empty) /\ IsNesting(blocks')
      /\ defined' \subseteq Functions /\ steps' \in 0..MaxStatements
      /\ pc' = "declarations" /\ last'.kind = "none"
  BY <1>1 DEF ParserInv, Top
<1> QED BY <1>4, <1>5, <1>6, <1>7 DEF ParserInv

\* The end of the program: no block is open.
LEMMA EofInv == ASSUME ParserInv, Eof PROVE ParserInv'
<1>1. /\ Top.kind = "prog" /\ pc' = "done"
      /\ UNCHANGED <<tables, unique_id, blocks, flags, first_stmt, defined, last, steps>>
  BY DEF Eof
<1>2. PICK k \in 1..Len(blocks) : k = Len(blocks)
  BY DEF ParserInv, IsNesting
<1>3. blocks[k].kind = "prog"
  BY <1>1, <1>2 DEF Top
<1>4. Len(blocks) = 1
  BY <1>2, <1>3 DEF ParserInv, IsNesting
<1> QED BY <1>1, <1>4, PhaseInv

\* Every step of the parser keeps the invariant.
LEMMA ParserInvNext == ParserInv /\ [Next]_vars => ParserInv'
<1> SUFFICES ASSUME ParserInv, [Next]_vars PROVE ParserInv'
  OBVIOUS
<1>1. CASE UNCHANGED vars
  <2>1. /\ UNCHANGED <<tables, unique_id, blocks, flags, first_stmt, defined, last, steps>>
        /\ pc' = pc
    BY <1>1 DEF vars
  <2> QED BY <2>1, PhaseInv
<1>2. ASSUME NEW f \in Functions, Redeclaration(f) PROVE ParserInv'
  <2>1. /\ UNCHANGED <<tables, unique_id, blocks, flags, first_stmt, defined, last, steps>>
        /\ pc' = "failed"
    BY <1>2 DEF Redeclaration
  <2> QED BY <2>1, PhaseInv
<1>3. ASSUME SecondPass PROVE ParserInv'
  <2>1. /\ UNCHANGED <<tables, unique_id, blocks, flags, first_stmt, defined, last, steps>>
        /\ pc' = "parse"
    BY <1>3 DEF SecondPass
  <2> QED BY <2>1, PhaseInv
<1>4. ASSUME SameLine \/ Unexpected PROVE ParserInv'
  BY <1>4, FailInv DEF SameLine, Unexpected
<1>5. ASSUME NEW eol \in BOOLEAN, NEW mutable \in BOOLEAN, NEW id \in Names,
             NEW ann \in Types \union {NULL}, NEW rhs \in Expressions \union Calls \union {NULL},
             define(mutable, id, ann, rhs, eol)
      PROVE  ParserInv'
  BY <1>5, DefineInv
<1>6. ASSUME NEW eol \in BOOLEAN, NEW id \in Names, NEW rhs \in Expressions \union Calls,
             assign(id, rhs, eol)
      PROVE  ParserInv'
  BY <1>6, AssignInv
<1>7. ASSUME NEW eol \in BOOLEAN, NEW f \in Names, NEW args \in Arguments, call(f, args, eol)
      PROVE  ParserInv'
  BY <1>7, CallInv
<1>8. ASSUME NEW eol \in BOOLEAN, NEW cond \in Expressions, while(cond, eol) \/ IfExpr(cond, eol)
      PROVE  ParserInv'
  BY <1>8, WhileInv, IfExprInv
<1>9. ASSUME NEW eol \in BOOLEAN, NEW id \in Names, IfLet(id, eol) PROVE ParserInv'
  BY <1>9, IfLetInv
<1>10. ASSUME NEW eol \in BOOLEAN, NEW f \in Functions, func(f, eol) PROVE ParserInv'
  BY <1>10, FuncInv
<1>11. ASSUME NEW eol \in BOOLEAN, NEW value \in Expressions \union {NULL}, return(value, eol)
       PROVE  ParserInv'
  BY <1>11, ReturnInv
<1>12. ASSUME NEW f \in Functions, NEW sig \in Signatures, func_header(f, sig) PROVE ParserInv'
  BY <1>12, HeaderInv
<1>13. ASSUME Else \/ EndIf \/ EndWhile \/ EndFunc \/ Eof PROVE ParserInv'
  BY <1>13, ElseInv, EndBlockInv, EndFuncInv, EofInv
<1> QED BY <1>1, <1>2, <1>3, <1>4, <1>5, <1>6, <1>7, <1>8, <1>9, <1>10, <1>11, <1>12, <1>13
        DEF Next

-----------------------------------------------------------------------------
(* Theorems.                                                               *)

\* The invariant holds in every state.
LEMMA ParserInvariant == Spec => []ParserInv
BY ParserInvInit, ParserInvNext, PTL DEF Spec

\* The variables of the parser have their types: no counter goes below zero, the
\* global table is never popped, and every item's uid is below the counter.
THEOREM ParserTypes == Spec => []TypeOK
<1>1. ParserInv => TypeOK
  <2> SUFFICES ASSUME ParserInv PROVE TypeOK
    OBVIOUS
  <2>1. Len(tables) >= 1 /\ Len(blocks) >= 1
    BY DEF ParserInv, IsStack, IsNesting
  <2>2. \A d \in 1..Len(tables), id \in Names :
          tables[d][id] # NULL => tables[d][id].uid \in 0..(unique_id - 1)
    BY DEF ParserInv, IsStack, IsTable, IsItem
  <2>3. in_cond \in Nat /\ in_loop \in Nat /\ for_open \in Nat
    BY CountersType
  <2>4. {in_func_body, first_stmt, return_found} \subseteq BOOLEAN
    BY DEF ParserInv, Counted, ReturnNoted
  <2> QED BY <2>1, <2>2, <2>3, <2>4 DEF ParserInv, TypeOK
<1> QED BY <1>1, ParserInvariant, PTL

\* Scopes and counters agree with the blocks that are open, however they are
\* nested: what prog, stmt, func_stmt and the rules of bodies open they close.
THEOREM ParserIsBalanced == Spec => []Balanced
<1>1. ParserInv => Balanced
  <2> SUFFICES ASSUME ParserInv PROVE Balanced
    OBVIOUS
  <2>1. IsNesting(blocks) /\ Counted
    BY DEF ParserInv
  <2>2. /\ Len(tables) = 1 + 2 * NumberOf({"func", "if"}) + NumberOf({"while", "else"})
        /\ in_cond = NumberOf({"if", "else"})
        /\ in_loop = NumberOf({"while"}) /\ for_open = in_loop
    BY <2>1 DEF Counted, NumberOf, Scopes, Conds, Loops
  <2>3. in_func_body = (NumberOf({"func"}) = 1)
    BY <2>1, OneFunction DEF Counted, NumberOf
  <2>4. ASSUME pc = "done" PROVE for_open = 0
    <3>1. {i \in 1..Len(blocks) : blocks[i].kind \in {"while"}} = {}
      BY <2>1, <2>4 DEF Counted, IsNesting
    <3> QED BY <2>1, <3>1, FS_EmptySet DEF Counted, Loops, Count
  <2> QED BY <2>2, <2>3, <2>4 DEF Balanced
<1> QED BY <1>1, ParserInvariant, PTL

\* What a step does to the last statement: nothing, a statement that may begin
\* where it stands, the end of a block, or the accepted end of a function.
Silent == last' = last /\ steps' = steps /\ (tables' = tables \/ last.kind = "none")
Begun == last'.kind # "endfunc" /\ (first_stmt \/ last'.eol)
Closed == last'.kind # "endfunc" /\ steps' = steps
FunctionClosed ==
  /\ pc = "parse" /\ Top.kind = "func" /\ steps' = steps
  /\ ~(in_cond = 0 /\ in_loop = 0 /\ ReturnType.type # "nil" /\ ~return_found)
  /\ tables' = pop_scope(pop_scope(tables))
  /\ last' = [kind |-> "endfunc", f |-> last_func_id, returned |-> Top.returned]

\* An error is silent.
LEMMA FailIsSilent == ASSUME NEW e, Fail(e) PROVE Silent
BY DEF Fail, Silent

\* Every step is one of the four.
LEMMA StepKind ==
  ASSUME ParserInv, [Next]_vars
  PROVE  Silent \/ Begun \/ Closed \/ FunctionClosed
<1> DEFINE Goal == Silent \/ Begun \/ Closed \/ FunctionClosed
<1>1. ASSUME UNCHANGED vars PROVE Goal
  BY <1>1 DEF vars, Silent
<1>2. ASSUME NEW f \in Functions, Redeclaration(f) PROVE Goal
  BY <1>2 DEF Redeclaration, Silent
<1>3. ASSUME SecondPass \/ Eof PROVE Goal
  BY <1>3 DEF SecondPass, Eof, Silent
<1>4. ASSUME SameLine \/ Unexpected PROVE Goal
  BY <1>4, FailIsSilent DEF SameLine, Unexpected
<1>5. ASSUME NEW eol \in BOOLEAN, NEW mutable \in BOOLEAN, NEW id \in Names,
             NEW ann \in Types \union {NULL}, NEW rhs \in Expressions \union Calls \union {NULL},
             define(mutable, id, ann, rhs, eol)
      PROVE  Goal
  <2>1. \/ \E e : Fail(e)
        \/ /\ first_stmt \/ eol
           /\ last' = [kind |-> "define", ann |-> ann, id |-> id, rhs |-> rhs, eol |-> eol]
    BY <1>5 DEF define, InStatement
  <2> QED BY <2>1, FailIsSilent DEF Begun
<1>6. ASSUME NEW eol \in BOOLEAN, NEW id \in Names, NEW rhs \in Expressions \union Calls,
             assign(id, rhs, eol)
      PROVE  Goal
  <2>1. \/ \E e : Fail(e)
        \/ /\ first_stmt \/ eol
           /\ last' = [kind |-> "assign", id |-> id, rhs |-> rhs, eol |-> eol]
    BY <1>6 DEF assign, InStatement
  <2> QED BY <2>1, FailIsSilent DEF Begun
<1>7. ASSUME NEW eol \in BOOLEAN, NEW f \in Names, NEW args \in Arguments, call(f, args, eol)
      PROVE  Goal
  <2>1. \/ \E e : Fail(e)
        \/ /\ first_stmt \/ eol
           /\ last' = [kind |-> "call", f |-> f, args |-> args, eol |-> eol]
    BY <1>7 DEF call, InStatement
  <2> QED BY <2>1, FailIsSilent DEF Begun
<1>8. ASSUME NEW eol \in BOOLEAN, NEW cond \in Expressions, while(cond, eol) \/ IfExpr(cond, eol)
      PROVE  Goal
  <2>1. \/ \E e : Fail(e)
        \/ /\ first_stmt \/ eol
           /\ last' = [kind |-> "while", eol |-> eol] \/ last' = [kind |-> "if", eol |-> eol]
    BY <1>8 DEF while, IfExpr, InStatement
  <2> QED BY <2>1, FailIsSilent DEF Begun
<1>9. ASSUME NEW eol \in BOOLEAN, NEW id \in Names, IfLet(id, eol) PROVE Goal
  <2>1. \/ \E e : Fail(e)
        \/ (first_stmt \/ eol) /\ last' = [kind |-> "iflet", eol |-> eol]
    BY <1>9 DEF IfLet, InStatement
  <2> QED BY <2>1, FailIsSilent DEF Begun
<1>10. ASSUME NEW eol \in BOOLEAN, NEW f \in Functions, func(f, eol) PROVE Goal
  <2>1. /\ first_stmt \/ eol
        /\ \E ps : last' = [kind |-> "func", params |-> ps, eol |-> eol]
    BY <1>10 DEF func, InStatement
  <2> QED BY <2>1 DEF Begun
<1>11. ASSUME NEW eol \in BOOLEAN, NEW value \in Expressions \union {NULL}, return(value, eol)
       PROVE  Goal
  <2>1. \/ \E e : Fail(e)
        \/ (first_stmt \/ eol) /\ last' = [kind |-> "return", eol |-> eol]
    BY <1>11 DEF return, InStatement
  <2> QED BY <2>1, FailIsSilent DEF Begun
<1>12. ASSUME NEW f \in Functions, NEW sig \in Signatures, func_header(f, sig) PROVE Goal
  BY <1>12 DEF func_header, ParserInv, Silent
<1>13. ASSUME Else \/ EndIf \/ EndWhile PROVE Goal
  BY <1>13 DEF Else, EndIf, EndWhile, Closed
<1>14. ASSUME EndFunc PROVE Goal
  <2>1. (\E e : Fail(e)) \/ FunctionClosed
    BY <1>14 DEF EndFunc, FunctionClosed
  <2> QED BY <2>1, FailIsSilent
<1> HIDE DEF Goal
<1>15. Goal
  BY <1>1, <1>2, <1>3, <1>4, <1>5, <1>6, <1>7, <1>8, <1>9, <1>10, <1>11, <1>12, <1>13, <1>14
     DEF Next
<1> QED BY <1>15 DEF Goal

\* A function that returns a value has a return in its body itself when its } is
\* accepted: func_body checks return_found, which the } of every inner body
\* resets, so that it cannot tell of a return in a block.
THEOREM ReturnsAreChecked == Spec => []ReturnsChecked
<1>1. Init => ReturnsChecked
  BY DEF Init, ReturnsChecked
<1>2. ParserInv /\ ReturnsChecked /\ [Next]_vars => ReturnsChecked'
  <2> SUFFICES ASSUME ParserInv, ReturnsChecked, [Next]_vars PROVE ReturnsChecked'
    OBVIOUS
  <2>1. CASE Silent
    BY <2>1 DEF Silent, ReturnsChecked
  <2>2. CASE Begun \/ Closed
    BY <2>2 DEF Begun, Closed, ReturnsChecked
  <2>3. CASE FunctionClosed
    <3>1. Top.kind # "prog" /\ ScopesOf(Top.kind) = 2 /\ CondsOf(Top.kind) = 0 /\ LoopsOf(Top.kind) = 0
      BY <2>3 DEF FunctionClosed, ScopesOf, CondsOf, LoopsOf
    <3>2. IsStack(tables, unique_id) /\ Len(tables) \in Nat /\ Len(tables) > 1 /\ Len(tables) - 1 > 1
      BY <3>1, InBlock DEF ParserInv
    <3>3. /\ IsStack(pop_scope(tables), unique_id) /\ Len(pop_scope(tables)) = Len(tables) - 1
          /\ pop_scope(tables)[GLOBAL] = tables[GLOBAL]
      BY <3>2, StackPop
    <3>4. tables'[GLOBAL] = tables[GLOBAL]
      <4>1. pop_scope(pop_scope(tables))[GLOBAL] = pop_scope(tables)[GLOBAL]
        BY <3>2, <3>3, StackPop
      <4> QED BY <2>3, <3>3, <4>1 DEF FunctionClosed
    <3>5. Len(blocks) = 2
      <4>1. PICK n \in Nat : n = Len(blocks) /\ n > 1
        BY <3>1, InBlock
      <4>2. n \in 1..Len(blocks) /\ blocks[n].kind = "func"
        BY <2>3, <4>1 DEF Top, FunctionClosed
      <4>3. n = 2
        BY <4>2 DEF ParserInv, IsNesting
      <4> QED BY <4>1, <4>3
    <3>6. in_cond = 0 /\ in_loop = 0
      <4> DEFINE fr == Front(blocks)
      <4>1. /\ Len(fr) = 1 /\ IsNesting(fr)
            /\ Conds(fr) \in Nat /\ in_cond = Conds(fr) + 0
            /\ Loops(fr) \in Nat /\ in_loop = Loops(fr) + 0
        BY <3>1, <3>5, InBlock
      <4> HIDE DEF fr
      <4>2. /\ {i \in 1..Len(fr) : fr[i].kind \in {"if", "else"}} = {}
            /\ {i \in 1..Len(fr) : fr[i].kind \in {"while"}} = {}
        BY <4>1 DEF IsNesting
      <4>3. Conds(fr) = 0 /\ Loops(fr) = 0
        BY <4>2, FS_EmptySet DEF Conds, Loops, Count
      <4> QED BY <4>1, <4>3
    <3>7. ReturnType.type # "nil" => return_found
      BY <2>3, <3>6 DEF FunctionClosed
    <3>8. return_found => Top.returned
      BY <3>5 DEF ParserInv, ReturnNoted, Top
    <3>9. last'.f = last_func_id /\ last'.returned = Top.returned
      BY <2>3 DEF FunctionClosed
    <3> QED BY <3>4, <3>7, <3>8, <3>9 DEF ReturnsChecked, ReturnType
  <2> QED BY <2>1, <2>2, <2>3, StepKind
<1> QED BY <1>1, <1>2, ParserInvariant, PTL DEF Spec

\* CHECK_NEWLINE: a statement that does not begin a line is the first of its
\* body or of the program.
THEOREM OneLineEach == Spec => OneStatementPerLine
<1>1. ParserInv /\ [Next]_vars => [steps' > steps /\ ~last'.eol => Top.empty]_vars
  <2> SUFFICES ASSUME ParserInv, [Next]_vars, steps' > steps, ~last'.eol PROVE Top.empty
    OBVIOUS
  <2>1. ~(steps' = steps)
    BY DEF ParserInv
  <2>2. Begun
    BY <2>1, StepKind DEF Silent, Closed, FunctionClosed
  <2>3. first_stmt
    BY <2>2 DEF Begun
  <2> QED BY <2>3 DEF ParserInv
<1> QED BY <1>1, ParserInvariant, PTL DEF Spec, OneStatementPerLine
=============================================================================
