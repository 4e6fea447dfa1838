------------------------- MODULE ControlFlow_proofs -------------------------
(***************************************************************************)
(* Proofs about ControlFlow, for every set of functions and every bound on *)
(* the size of a program and on the depth of its calls: the labels of the  *)
(* output are those the blocks call for, each once.                        *)
(***************************************************************************)
EXTENDS ControlFlow, Induction_proofs, SequenceTheorems, FiniteSetTheorems

-----------------------------------------------------------------------------
(* Code.                                                                   *)

GotoOps == {"JUMP", "JUMPIFNEQS", "CALL"}
Ops == GotoOps \union {"EVAL", "USE", "DEFVAR", "LABEL", "RETURN",
                       "CREATEFRAME", "PUSHFRAME", "POPFRAME"}
LabelNames == {"ELSE", "IF_END", "FOR", "FOR_BODY", "FOR_END", "FUNCTION", "EOF"}
LabelSet == LabelNames \X (Nat \union DOMAIN EndName \union {EndName[f] : f \in DOMAIN EndName})
Variables == [frame : {"GF", "LF", "TF"}, id : {"var", "op", "??"} \X Nat]

\* The functions of the program and those built in.
Names == Functions \union Builtins

\* Instructions of a program of n statements; only DEFVAR bypasses the buffer.
Arguments == LabelSet \union Variables \union {"none"}
Instrs(n) ==
  {x \in [op : Ops, arg : Arguments, at : 0..n, direct : BOOLEAN] : x.direct => x.op = "DEFVAR"}

\* What the instructions with an operation of O name.
Named(s, O) == {s[i].arg : i \in {j \in 1..Len(s) : s[j].op \in O}}
Labels(s) == Named(s, {"LABEL"})
Gotos(s) == Named(s, GotoOps)
Once(s) ==
  \A i, j \in 1..Len(s) :
    s[i].op = "LABEL" /\ s[j].op = "LABEL" /\ s[i].arg = s[j].arg => i = j

\* Code c of a program of n statements with the labels L, each once, and jumps to J.
Piece(c, n, L, J) ==
  c \in Seq(Instrs(n)) /\ Labels(c) = L /\ Gotos(c) = J /\ Once(c)

LabelOf(x) == IF x.op = "LABEL" THEN {x.arg} ELSE {}
GotoOf(x) == IF x.op \in GotoOps THEN {x.arg} ELSE {}

LEMMA NamedBy ==
  ASSUME NEW s, NEW O, NEW l
  PROVE  l \in Named(s, O) <=> \E i \in 1..Len(s) : s[i].op \in O /\ s[i].arg = l
BY DEF Named

\* What two pieces of code name is what each of them names.
LEMMA ConcatNamed ==
  ASSUME NEW S, NEW s \in Seq(S), NEW t \in Seq(S), NEW O
  PROVE  Named(s \o t, O) = Named(s, O) \union Named(t, O)
<1>1. /\ s \o t \in Seq(S) /\ Len(s \o t) = Len(s) + Len(t)
      /\ \A i \in 1..(Len(s) + Len(t)) :
           (s \o t)[i] = IF i <= Len(s) THEN s[i] ELSE t[i - Len(s)]
  BY ConcatProperties
<1>2. Len(s) \in Nat /\ Len(t) \in Nat
  BY LenProperties
<1> DEFINE w == s \o t
<1>3. \A i \in 1..Len(s) : i \in 1..Len(w) /\ w[i] = s[i]
  BY <1>1, <1>2
<1>4. \A i \in 1..Len(t) : i + Len(s) \in 1..Len(w) /\ w[i + Len(s)] = t[i]
  BY <1>1, <1>2
<1>5. \A i \in 1..Len(w) : \/ i \in 1..Len(s) /\ w[i] = s[i]
                           \/ i - Len(s) \in 1..Len(t) /\ w[i] = t[i - Len(s)]
  BY <1>1, <1>2
<1> HIDE DEF w
<1>6. ASSUME NEW l \in Named(w, O) PROVE l \in Named(s, O) \union Named(t, O)
  <2>1. PICK i \in 1..Len(w) : w[i].op \in O /\ w[i].arg = l
    BY <1>6, NamedBy
  <2>2. CASE i \in 1..Len(s) /\ w[i] = s[i]
    <3>1. s[i].op \in O /\ s[i].arg = l
      BY <2>1, <2>2
    <3>2. l \in Named(s, O)
      BY <2>2, <3>1, NamedBy
    <3> QED BY <3>2
  <2>3. CASE i - Len(s) \in 1..Len(t) /\ w[i] = t[i - Len(s)]
    <3>1. PICK j \in 1..Len(t) : w[i] = t[j]
      BY <2>3
    <3>2. t[j].op \in O /\ t[j].arg = l
      BY <2>1, <3>1
    <3>3. l \in Named(t, O)
      BY <3>2, NamedBy
    <3> QED BY <3>3
  <2> QED BY <1>5, <2>2, <2>3
<1>7. ASSUME NEW l \in Named(s, O) PROVE l \in Named(w, O)
  <2>1. PICK i \in 1..Len(s) : s[i].op \in O /\ s[i].arg = l
    BY <1>7, NamedBy
  <2> QED BY <1>3, <2>1, NamedBy
<1>8. ASSUME NEW l \in Named(t, O) PROVE l \in Named(w, O)
  <2>1. PICK i \in 1..Len(t) : t[i].op \in O /\ t[i].arg = l
    BY <1>8, NamedBy
  <2> QED BY <1>4, <2>1, NamedBy
<1> QED BY <1>6, <1>7, <1>8 DEF w

LEMMA ConcatLabels ==
  ASSUME NEW n, NEW s \in Seq(Instrs(n)), NEW t \in Seq(Instrs(n))
  PROVE  /\ s \o t \in Seq(Instrs(n))
         /\ Labels(s \o t) = Labels(s) \union Labels(t)
         /\ Gotos(s \o t) = Gotos(s) \union Gotos(t)
BY ConcatProperties, ConcatNamed DEF Labels, Gotos

\* Two pieces of code with different labels have each of them once.
LEMMA ConcatOnce ==
  ASSUME NEW n, NEW s \in Seq(Instrs(n)), NEW t \in Seq(Instrs(n)),
         Once(s), Once(t), Labels(s) \intersect Labels(t) = {}
  PROVE  Once(s \o t)
<1>1. /\ Len(s \o t) = Len(s) + Len(t)
      /\ \A i \in 1..(Len(s) + Len(t)) :
           (s \o t)[i] = IF i <= Len(s) THEN s[i] ELSE t[i - Len(s)]
  BY ConcatProperties
<1>2. Len(s) \in Nat /\ Len(t) \in Nat
  BY LenProperties
<1> DEFINE w == s \o t
<1>3. \A i \in 1..Len(w) : \/ i \in 1..Len(s) /\ w[i] = s[i]
                           \/ i - Len(s) \in 1..Len(t) /\ w[i] = t[i - Len(s)]
  BY <1>1, <1>2
<1>4. Len(w) \in Nat
  BY <1>1, <1>2
<1> HIDE DEF w
<1>5. ASSUME NEW i \in 1..Len(w), NEW j \in 1..Len(w),
             w[i].op = "LABEL", w[j].op = "LABEL", w[i].arg = w[j].arg
      PROVE  i = j
  <2>1. CASE i \in 1..Len(s) /\ w[i] = s[i] /\ j \in 1..Len(s) /\ w[j] = s[j]
    BY <1>5, <2>1 DEF Once
  <2>2. CASE /\ i - Len(s) \in 1..Len(t) /\ w[i] = t[i - Len(s)]
             /\ j - Len(s) \in 1..Len(t) /\ w[j] = t[j - Len(s)]
    <3>1. i - Len(s) = j - Len(s)
      BY <1>5, <2>2 DEF Once
    <3> QED BY <3>1, <1>2
  <2>3. ASSUME NEW a \in 1..Len(s), NEW b \in 1..Len(t), s[a].op = "LABEL", t[b].op = "LABEL",
               s[a].arg = t[b].arg
        PROVE  FALSE
    <3>1. s[a].arg \in Labels(s) /\ t[b].arg \in Labels(t)
      BY <2>3 DEF Labels, Named
    <3> QED BY <2>3, <3>1
  <2> QED BY <1>3, <1>5, <2>1, <2>2, <2>3
<1> QED BY <1>5 DEF Once, w

LEMMA PieceConcat ==
  ASSUME NEW c, NEW d, NEW n, NEW L, NEW M, NEW J, NEW K,
         Piece(c, n, L, J), Piece(d, n, M, K), L \intersect M = {}
  PROVE  Piece(c \o d, n, L \union M, J \union K)
BY ConcatLabels, ConcatOnce DEF Piece

\* A single instruction, and two of them.
LEMMA PieceOne ==
  ASSUME NEW n, NEW x \in Instrs(n)
  PROVE  Piece(<<x>>, n, LabelOf(x), GotoOf(x))
<1>1. <<x>> \in Seq(Instrs(n)) /\ Len(<<x>>) = 1 /\ <<x>>[1] = x
  OBVIOUS
<1> DEFINE s == <<x>>
<1> HIDE DEF s
<1>2. Labels(s) = LabelOf(x)
  BY <1>1 DEF Labels, Named, LabelOf, s
<1>3. Gotos(s) = GotoOf(x)
  BY <1>1 DEF Gotos, Named, GotoOf, s
<1>4. Once(s)
  BY <1>1 DEF Once, s
<1> QED BY <1>1, <1>2, <1>3, <1>4 DEF Piece, s

LEMMA TwoIsConcat ==
  ASSUME NEW S, NEW x \in S, NEW y \in S
  PROVE  <<x, y>> = <<x>> \o <<y>>
<1>1. <<x, y>> \in Seq(S) /\ Len(<<x, y>>) = 2 /\ <<x>> \in Seq(S) /\ <<y>> \in Seq(S)
  OBVIOUS
<1>2. /\ <<x>> \o <<y>> \in Seq(S) /\ Len(<<x>> \o <<y>>) = 2
      /\ (<<x>> \o <<y>>)[1] = x /\ (<<x>> \o <<y>>)[2] = y
  OBVIOUS
<1> DEFINE u == <<x, y>>
           v == <<x>> \o <<y>>
<1>3. u \in Seq(S) /\ v \in Seq(S) /\ Len(u) = Len(v)
  BY <1>1, <1>2
<1>4. \A i \in 1..Len(u) : u[i] = v[i]
  BY <1>1, <1>2
<1> HIDE DEF u, v
<1>5. u = v
  BY <1>3, <1>4, SeqEqual, Zenon
<1> QED BY <1>5 DEF u, v

LEMMA PieceEmpty ==
  ASSUME NEW n
  PROVE  Piece(<<>>, n, {}, {})
BY DEF Piece, Labels, Gotos, Named, Once

-----------------------------------------------------------------------------
(* The part of a code that bypasses the buffer, and the rest.              *)

\* Picking one instruction.
Pick1(q, x, d) == IF x.direct = d THEN Append(q, x) ELSE q

LEMMA Pick1Type ==
  ASSUME NEW S, NEW q \in Seq(S), NEW x \in S, NEW d
  PROVE  Pick1(q, x, d) \in Seq(S)
<1>1. Append(q, x) \in Seq(S)
  OBVIOUS
<1> QED BY <1>1 DEF Pick1

LEMMA Pick1Concat ==
  ASSUME NEW S, NEW p \in Seq(S), NEW q \in Seq(S), NEW x \in S, NEW d
  PROVE  Pick1(p \o q, x, d) = p \o Pick1(q, x, d)
<1>1. Append(q, x) \in Seq(S)
  OBVIOUS
<1>2. <<x>> \in Seq(S) /\ Append(q, x) = q \o <<x>> /\ p \o q \in Seq(S)
  BY AppendIsConcat
<1>3. Append(p \o q, x) = (p \o q) \o <<x>>
  BY <1>2, AppendIsConcat
<1>4. (p \o q) \o <<x>> = p \o (q \o <<x>>)
  BY <1>2, ConcatAssociative
<1> QED BY <1>1, <1>2, <1>3, <1>4 DEF Pick1

\* The states of the loop that picks the instructions with direct = d.
Picks(F, code, S, d) ==
  /\ F \in [0..Len(code) -> Seq(S)] /\ F[0] = <<>>
  /\ \A i \in 1..Len(code) :
       F[i] = Pick1(F[i - 1], code[i], d)

LEMMA PartLoop ==
  ASSUME NEW S, NEW code \in Seq(S), NEW d
  PROVE  \E F : Picks(F, code, S, d) /\ Part(code, d) = F[Len(code)]
<1> DEFINE m == Len(code)
           X == Seq(S)
           step == [i \in 1..m |-> [q \in X |-> Pick1(q, code[i], d)]]
           acc == CHOOSE g : g = [i \in 0..m |->
                    IF i = 0 THEN <<>> ELSE Pick1(g[i - 1], code[i], d)]
<1>1. m \in Nat /\ \A i \in 1..m : code[i] \in S
  OBVIOUS
<1>2. <<>> \in X
  OBVIOUS
<1>3. Part(code, d) = acc[m]
  BY DEF Part, Pick1
<1>4. step \in [1..m -> [X -> X]]
  BY <1>1, Pick1Type
<1> HIDE DEF m, step, X
<1>5. PICK f \in [0..m -> X] : f[0] = <<>> /\ \A i \in 1..m : f[i] = step[i][f[i - 1]]
  <2>1. \E f : IsLoop(f, m, X, <<>>, step)
    BY <1>1, <1>2, <1>4, LoopExists
  <2> QED BY <2>1 DEF IsLoop
<1>6. \A i \in 1..m : f[i] = Pick1(f[i - 1], code[i], d)
  <2>1. \A i \in 1..m : f[i - 1] \in X
    BY <1>1, <1>5
  <2> QED BY <1>5, <2>1 DEF step
<1>7. f = [i \in 0..m |-> IF i = 0 THEN <<>> ELSE Pick1(f[i - 1], code[i], d)]
  BY <1>1, <1>5, <1>6
<1>8. acc = [i \in 0..m |-> IF i = 0 THEN <<>> ELSE Pick1(acc[i - 1], code[i], d)]
  BY <1>7
<1> HIDE DEF acc
<1>9. acc[0] = <<>> /\ \A i \in 1..m :
        acc[i] = Pick1(acc[i - 1], code[i], d)
  BY <1>1, <1>8
<1>10. \A i \in 0..m : acc[i] \in X
  <2> DEFINE T == {i \in 0..m : acc[i] \in X}
  <2>1. 0 \in T
    BY <1>1, <1>2, <1>9
  <2>2. ASSUME NEW i \in 1..m, i - 1 \in T PROVE i \in T
    <3>1. acc[i - 1] \in X /\ i \in 0..m
      BY <1>1, <2>2
    <3>2. acc[i] \in X
      BY <1>1, <1>9, <3>1, Pick1Type DEF X
    <3> QED BY <3>1, <3>2
  <2> HIDE DEF T
  <2>3. \A i \in 0..m : i \in T
    BY <1>1, <2>1, <2>2, UpTo
  <2> QED BY <2>3 DEF T
<1>11. acc \in [0..m -> X]
  BY <1>8, <1>10
<1>12. Picks(acc, code, S, d)
  BY <1>9, <1>11 DEF Picks, m, X
<1> QED BY <1>3, <1>12 DEF m

\* Picking from two pieces of code is picking from each of them.
PicksBoth(s, t, d) == Part(s \o t, d) = Part(s, d) \o Part(t, d)

LEMMA PartConcat ==
  ASSUME NEW S, NEW s \in Seq(S), NEW t \in Seq(S), NEW d
  PROVE  PicksBoth(s, t, d)
<1> DEFINE w == s \o t
           m == Len(s)
           n == Len(t)
<1>1. /\ w \in Seq(S) /\ Len(w) = m + n /\ m \in Nat /\ n \in Nat
      /\ \A i \in 1..(m + n) : w[i] = IF i <= m THEN s[i] ELSE t[i - m]
      /\ \A i \in 1..m : s[i] \in S
      /\ \A i \in 1..n : t[i] \in S
  BY ConcatProperties, LenProperties
<1> HIDE DEF w
<1>2. PICK F : Picks(F, w, S, d) /\ Part(w, d) = F[Len(w)]
  BY <1>1, PartLoop
<1>3. PICK H : Picks(H, s, S, d) /\ Part(s, d) = H[m]
  BY PartLoop
<1>4. PICK G : Picks(G, t, S, d) /\ Part(t, d) = G[n]
  BY PartLoop
<1> HIDE DEF m, n
<1>5. \A i \in 0..m : H[i] \in Seq(S)
  BY <1>1, <1>3 DEF Picks, m
<1>6. \A i \in 0..n : G[i] \in Seq(S)
  BY <1>1, <1>4 DEF Picks, n
<1>7. \A i \in 0..m : F[i] = H[i]
  <2> DEFINE T == {i \in 0..m : F[i] = H[i]}
  <2>1. 0 \in T
    BY <1>1, <1>2, <1>3 DEF Picks
  <2>2. ASSUME NEW i \in 1..m, i - 1 \in T PROVE i \in T
    <3>1. i \in 1..(m + n) /\ w[i] = s[i] /\ i \in 0..m /\ F[i - 1] = H[i - 1]
      BY <1>1, <2>2
    <3>2. F[i] = Pick1(F[i - 1], w[i], d)
      BY <1>1, <1>2, <3>1 DEF Picks
    <3>3. H[i] = Pick1(H[i - 1], s[i], d)
      BY <1>3 DEF Picks, m
    <3> QED BY <3>1, <3>2, <3>3
  <2> HIDE DEF T
  <2>3. \A i \in 0..m : i \in T
    BY <1>1, <2>1, <2>2, UpTo
  <2> QED BY <2>3 DEF T
<1>8. \A i \in 0..n : F[m + i] = H[m] \o G[i]
  <2> DEFINE T == {i \in 0..n : F[m + i] = H[m] \o G[i]}
  <2>0. m \in 0..m /\ H[m] \in Seq(S)
    BY <1>1, <1>5
  <2>1. 0 \in T
    <3>1. G[0] = <<>> /\ F[m] = H[m] /\ m + 0 = m
      BY <1>1, <1>4, <1>7, <2>0 DEF Picks
    <3>2. H[m] \o <<>> = H[m]
      BY <2>0, ConcatEmptySeq
    <3>3. F[m + 0] = H[m] \o G[0] /\ 0 \in 0..n
      BY <1>1, <3>1, <3>2
    <3> QED BY <3>3
  <2>2. ASSUME NEW i \in 1..n, i - 1 \in T PROVE i \in T
    <3>1. /\ m + i \in 1..(m + n) /\ w[m + i] = t[i] /\ i \in 0..n /\ m + i - 1 = m + (i - 1)
          /\ t[i] \in S /\ i - 1 \in 0..n
      BY <1>1
    <3>2. F[m + i] = Pick1(F[m + i - 1], w[m + i], d)
      BY <1>1, <1>2, <3>1 DEF Picks
    <3>3. G[i] = Pick1(G[i - 1], t[i], d)
      BY <1>4 DEF Picks, n
    <3>4. F[m + i - 1] = H[m] \o G[i - 1] /\ G[i - 1] \in Seq(S)
      BY <1>6, <2>2, <3>1
    <3>5. Pick1(H[m] \o G[i - 1], t[i], d) = H[m] \o Pick1(G[i - 1], t[i], d)
      <4> DEFINE hm == H[m]
                 gi == G[i - 1]
                 ti == t[i]
      <4>1. hm \in Seq(S) /\ gi \in Seq(S) /\ ti \in S
        BY <2>0, <3>1, <3>4
      <4> HIDE DEF hm, gi, ti
      <4>2. Pick1(hm \o gi, ti, d) = hm \o Pick1(gi, ti, d)
        BY <4>1, Pick1Concat
      <4> QED BY <4>2 DEF hm, gi, ti
    <3> QED BY <3>1, <3>2, <3>3, <3>4, <3>5
  <2> HIDE DEF T
  <2>3. \A i \in 0..n : i \in T
    BY <1>1, <2>1, <2>2, UpTo
  <2> QED BY <2>3 DEF T
<1>9. m \in 0..m /\ n \in 0..n
  BY <1>1
<1>10. F[m + n] = H[m] \o G[n] /\ H[m] \in Seq(S)
  BY <1>5, <1>8, <1>9
<1> QED BY <1>1, <1>2, <1>3, <1>4, <1>10 DEF w, PicksBoth

LEMMA PartOne ==
  ASSUME NEW x, NEW d
  PROVE  Part(<<x>>, d) = IF x.direct = d THEN <<x>> ELSE <<>>
<1> DEFINE s == <<x>>
<1>1. s \in Seq({x}) /\ Len(s) = 1 /\ s[1] = x
  OBVIOUS
<1> HIDE DEF s
<1>2. PICK F : Picks(F, s, {x}, d) /\ Part(s, d) = F[Len(s)]
  BY <1>1, PartLoop
<1>3. F[1] = Pick1(<<>>, x, d)
  BY <1>1, <1>2 DEF Picks
<1>4. Append(<<>>, x) = <<x>>
  OBVIOUS
<1> QED BY <1>1, <1>2, <1>3, <1>4 DEF s, Pick1

LEMMA PartEmpty ==
  ASSUME NEW d
  PROVE  Part(<<>>, d) = <<>>
<1> DEFINE s == <<>>
<1>1. s \in Seq({}) /\ Len(s) = 0
  OBVIOUS
<1> HIDE DEF s
<1>2. PICK F : Picks(F, s, {}, d) /\ Part(s, d) = F[Len(s)]
  BY <1>1, PartLoop
<1>3. F[0] = <<>>
  BY <1>2 DEF Picks
<1> QED BY <1>1, <1>2, <1>3 DEF s

\* Code with the labels L and jumps to J, all of them in the part that may wait.
Chunk(c, n, L, J) ==
  Piece(c, n, L, J) /\ Piece(Part(c, TRUE), n, {}, {}) /\ Piece(Part(c, FALSE), n, L, J)

LEMMA ChunkConcat ==
  ASSUME NEW c, NEW d, NEW n, NEW L, NEW M, NEW J, NEW K,
         Chunk(c, n, L, J), Chunk(d, n, M, K), L \intersect M = {}
  PROVE  Chunk(c \o d, n, L \union M, J \union K)
<1>1. c \in Seq(Instrs(n)) /\ d \in Seq(Instrs(n))
  BY DEF Chunk, Piece
<1>2. ASSUME NEW b PROVE Part(c \o d, b) = Part(c, b) \o Part(d, b)
  <2>1. PicksBoth(c, d, b)
    BY <1>1, PartConcat
  <2> QED BY <2>1 DEF PicksBoth
<1>3. Piece(c \o d, n, L \union M, J \union K)
  BY PieceConcat DEF Chunk
<1>4. Piece(Part(c, FALSE) \o Part(d, FALSE), n, L \union M, J \union K)
  BY PieceConcat DEF Chunk
<1>5. Piece(Part(c, TRUE) \o Part(d, TRUE), n, {} \union {}, {} \union {})
  BY PieceConcat DEF Chunk
<1> QED BY <1>2, <1>3, <1>4, <1>5 DEF Chunk

LEMMA ChunkOne ==
  ASSUME NEW n, NEW x \in Instrs(n)
  PROVE  Chunk(<<x>>, n, LabelOf(x), GotoOf(x))
<1>1. Piece(<<x>>, n, LabelOf(x), GotoOf(x)) /\ Piece(<<>>, n, {}, {})
  BY PieceOne, PieceEmpty
<1>2. x.direct \in BOOLEAN /\ (x.direct => x.op = "DEFVAR")
  BY DEF Instrs
<1>3. CASE x.direct = TRUE
  <2>1. LabelOf(x) = {} /\ GotoOf(x) = {}
    BY <1>2, <1>3 DEF LabelOf, GotoOf, GotoOps
  <2>2. Part(<<x>>, TRUE) = <<x>> /\ Part(<<x>>, FALSE) = <<>>
    BY <1>3, PartOne
  <2> QED BY <1>1, <2>1, <2>2 DEF Chunk
<1>4. CASE x.direct = FALSE
  <2>1. Part(<<x>>, TRUE) = <<>> /\ Part(<<x>>, FALSE) = <<x>>
    BY <1>4, PartOne
  <2> QED BY <1>1, <2>1 DEF Chunk
<1> QED BY <1>2, <1>3, <1>4

LEMMA ChunkTwo ==
  ASSUME NEW n, NEW x \in Instrs(n), NEW y \in Instrs(n), LabelOf(x) \intersect LabelOf(y) = {}
  PROVE  Chunk(<<x, y>>, n, LabelOf(x) \union LabelOf(y), GotoOf(x) \union GotoOf(y))
<1>1. <<x, y>> = <<x>> \o <<y>>
  BY TwoIsConcat
<1>2. Chunk(<<x>>, n, LabelOf(x), GotoOf(x)) /\ Chunk(<<y>>, n, LabelOf(y), GotoOf(y))
  BY ChunkOne
<1>3. Chunk(<<x>> \o <<y>>, n, LabelOf(x) \union LabelOf(y), GotoOf(x) \union GotoOf(y))
  BY <1>2, ChunkConcat
<1> QED BY <1>1, <1>3

LEMMA ChunkEmpty ==
  ASSUME NEW n
  PROVE  Chunk(<<>>, n, {}, {})
BY PieceEmpty, PartEmpty DEF Chunk

-----------------------------------------------------------------------------
(* The code of each function of the generator.                             *)

\* An instruction that is neither a label nor a jump.
IsPlain(x, n) == x \in Instrs(n) /\ LabelOf(x) = {} /\ GotoOf(x) = {}

LEMMA PlainOne ==
  ASSUME NEW n, NEW x, IsPlain(x, n)
  PROVE  Chunk(<<x>>, n, {}, {})
BY ChunkOne DEF IsPlain

LEMMA PlainTwo ==
  ASSUME NEW n, NEW x, NEW y, IsPlain(x, n), IsPlain(y, n)
  PROVE  Chunk(<<x, y>>, n, {}, {})
<1>1. LabelOf(x) \union LabelOf(y) = {} /\ GotoOf(x) \union GotoOf(y) = {}
  BY DEF IsPlain
<1>2. Chunk(<<x, y>>, n, LabelOf(x) \union LabelOf(y), GotoOf(x) \union GotoOf(y))
  BY ChunkTwo DEF IsPlain
<1> QED BY <1>1, <1>2

LEMMA PlainConcat ==
  ASSUME NEW c, NEW d, NEW n, NEW L, NEW J, Chunk(c, n, {}, {}), Chunk(d, n, L, J)
  PROVE  Chunk(c \o d, n, L, J) /\ Chunk(d \o c, n, L, J)
<1>1. {} \union L = L /\ {} \union J = J /\ L \union {} = L /\ J \union {} = J
  OBVIOUS
<1>2. Chunk(c \o d, n, {} \union L, {} \union J) /\ Chunk(d \o c, n, L \union {}, J \union {})
  BY ChunkConcat
<1> QED BY <1>1, <1>2

IsInstr(x, n, op, arg) == x \in Instrs(n) /\ x.op = op /\ x.arg = arg /\ x.direct = FALSE

LEMMA NewInstr ==
  ASSUME NEW n, NEW op, NEW arg, NEW i, op \in Ops, arg \in Arguments, i \in 0..n
  PROVE  IsInstr(InstrAt(op, arg, i), n, op, arg)
BY DEF InstrAt, Instrs, IsInstr

\* Instructions on frames and variables are plain.
LEMMA PlainAt ==
  ASSUME NEW n \in Nat, NEW i \in 0..n, NEW op \in Ops \ (GotoOps \union {"LABEL"}), NEW arg \in Arguments
  PROVE  IsPlain(InstrAt(op, arg, i), n)
<1>1. IsInstr(InstrAt(op, arg, i), n, op, arg)
  BY NewInstr
<1> QED BY <1>1 DEF IsInstr, IsPlain, LabelOf, GotoOf

LEMMA PlainInstr ==
  ASSUME NEW n \in Nat, NEW op \in Ops \ (GotoOps \union {"LABEL"}), NEW arg \in Arguments
  PROVE  IsPlain(Instr(op, arg), n)
BY PlainAt DEF Instr

LEMMA PlainDefvar ==
  ASSUME NEW n \in Nat, NEW var \in Variables
  PROVE  /\ IsPlain(code_generator_defvar(var), n)
         /\ code_generator_defvar(var).direct = TRUE
<1> DEFINE x == code_generator_defvar(var)
<1>1. "DEFVAR" \in Ops /\ var \in Arguments
  BY DEF Ops, Arguments
<1>2. /\ x \in [op : Ops, arg : Arguments, at : 0..n, direct : BOOLEAN]
      /\ x.op = "DEFVAR" /\ x.direct = TRUE
  BY <1>1 DEF code_generator_defvar
<1> HIDE DEF x
<1>3. x \in Instrs(n)
  BY <1>2 DEF Instrs
<1>4. LabelOf(x) = {} /\ GotoOf(x) = {}
  BY <1>2 DEF LabelOf, GotoOf, GotoOps
<1> QED BY <1>2, <1>3, <1>4 DEF IsPlain, x

\* Labels and jumps.
LEMMA LabelInstr ==
  ASSUME NEW n \in Nat, NEW i \in 0..n, NEW l \in LabelSet
  PROVE  /\ InstrAt("LABEL", l, i) \in Instrs(n)
         /\ LabelOf(InstrAt("LABEL", l, i)) = {l} /\ GotoOf(InstrAt("LABEL", l, i)) = {}
<1>1. "LABEL" \in Ops /\ l \in Arguments /\ "LABEL" \notin GotoOps
  BY DEF Ops, Arguments, GotoOps
<1>2. IsInstr(InstrAt("LABEL", l, i), n, "LABEL", l)
  BY <1>1, NewInstr
<1> QED BY <1>1, <1>2 DEF IsInstr, LabelOf, GotoOf

LEMMA GotoInstr ==
  ASSUME NEW n \in Nat, NEW i \in 0..n, NEW l \in LabelSet, NEW op \in GotoOps
  PROVE  /\ InstrAt(op, l, i) \in Instrs(n)
         /\ LabelOf(InstrAt(op, l, i)) = {} /\ GotoOf(InstrAt(op, l, i)) = {l}
<1>1. op \in Ops /\ l \in Arguments /\ op # "LABEL"
  BY DEF Ops, Arguments, GotoOps
<1>2. IsInstr(InstrAt(op, l, i), n, op, l)
  BY <1>1, NewInstr
<1> QED BY <1>1, <1>2 DEF IsInstr, LabelOf, GotoOf

LEMMA LabelsAre ==
  /\ \A name \in LabelNames, uid \in Nat : Label(name, uid) \in LabelSet
  /\ \A f \in Names : Label("FUNCTION", f) \in LabelSet /\ Label("FUNCTION", EndName[f]) \in LabelSet
  /\ Functions \subseteq Names /\ Builtins \subseteq Names /\ Names \subseteq DOMAIN EndName
<1>1. Functions \subseteq Names /\ Builtins \subseteq Names /\ Names \subseteq DOMAIN EndName
  BY ControlFlowAssumption DEF Functions, Names
<1> QED BY <1>1 DEF Label, LabelSet, LabelNames

LEMMA VarsAre ==
  /\ \A frame \in {"GF", "LF", "TF"}, name \in {"var", "op", "??"}, id \in Nat :
       Var(frame, name, id) \in Variables
  /\ \A frame \in {"LF", "TF"} : Slot(frame) \in Variables
BY DEF Var, Slot, Variables

LEMMA OneLabel ==
  ASSUME NEW n \in Nat, NEW i \in 0..n, NEW l \in LabelSet
  PROVE  Chunk(<<InstrAt("LABEL", l, i)>>, n, {l}, {})
<1> DEFINE x == InstrAt("LABEL", l, i)
<1>1. x \in Instrs(n) /\ LabelOf(x) = {l} /\ GotoOf(x) = {}
  BY LabelInstr
<1> HIDE DEF x
<1>2. Chunk(<<x>>, n, LabelOf(x), GotoOf(x))
  BY <1>1, ChunkOne
<1> QED BY <1>1, <1>2 DEF x

LEMMA OneGoto ==
  ASSUME NEW n \in Nat, NEW i \in 0..n, NEW l \in LabelSet, NEW op \in GotoOps
  PROVE  Chunk(<<InstrAt(op, l, i)>>, n, {}, {l})
<1> DEFINE x == InstrAt(op, l, i)
<1>1. x \in Instrs(n) /\ LabelOf(x) = {} /\ GotoOf(x) = {l}
  BY GotoInstr
<1> HIDE DEF x
<1>2. Chunk(<<x>>, n, LabelOf(x), GotoOf(x))
  BY <1>1, ChunkOne
<1> QED BY <1>1, <1>2 DEF x

\* A jump with a label behind it, as most functions of the generator print them.
LEMMA JumpAndLabel ==
  ASSUME NEW n \in Nat, NEW l \in LabelSet, NEW m \in LabelSet
  PROVE  /\ Chunk(<<Instr("JUMP", l), Instr("LABEL", m)>>, n, {m}, {l})
         /\ Chunk(<<Instr("JUMPIFNEQS", l), Instr("JUMP", m)>>, n, {}, {l, m})
<1> DEFINE j == Instr("JUMP", l)
           q == Instr("JUMPIFNEQS", l)
           k == Instr("JUMP", m)
           x == Instr("LABEL", m)
<1>1. 0 \in 0..n /\ "JUMP" \in GotoOps /\ "JUMPIFNEQS" \in GotoOps
  BY DEF GotoOps
<1>2. /\ Chunk(<<j>>, n, {}, {l}) /\ Chunk(<<q>>, n, {}, {l})
      /\ Chunk(<<k>>, n, {}, {m}) /\ Chunk(<<x>>, n, {m}, {})
  BY <1>1, OneLabel, OneGoto DEF Instr
<1>3. j \in Instrs(n) /\ q \in Instrs(n) /\ k \in Instrs(n) /\ x \in Instrs(n)
  BY <1>1, LabelInstr, GotoInstr DEF Instr
<1> HIDE DEF j, q, k, x
<1>4. <<j, x>> = <<j>> \o <<x>> /\ <<q, k>> = <<q>> \o <<k>>
  BY <1>3, TwoIsConcat
<1>5. Chunk(<<j>> \o <<x>>, n, {} \union {m}, {l} \union {})
  BY <1>2, ChunkConcat
<1>6. Chunk(<<q>> \o <<k>>, n, {} \union {}, {l} \union {m})
  BY <1>2, ChunkConcat
<1>7. {} \union {m} = {m} /\ {l} \union {} = {l} /\ {l} \union {m} = {l, m} /\ {} \union {} = {}
  OBVIOUS
<1>8. Chunk(<<j, x>>, n, {m}, {l}) /\ Chunk(<<q, k>>, n, {}, {l, m})
  BY <1>4, <1>5, <1>6, <1>7
<1> QED BY <1>8 DEF j, q, k, x

LEMMA ThreeIsConcat ==
  ASSUME NEW S, NEW x \in S, NEW y \in S, NEW z \in S
  PROVE  <<x, y, z>> = <<x>> \o <<y, z>>
<1> DEFINE u == <<x, y, z>>
           v == <<x>> \o <<y, z>>
<1>1. u \in Seq(S) /\ Len(u) = 3 /\ u[1] = x /\ u[2] = y /\ u[3] = z
  OBVIOUS
<1>2. v \in Seq(S) /\ Len(v) = 3 /\ v[1] = x /\ v[2] = y /\ v[3] = z
  OBVIOUS
<1> HIDE DEF u, v
<1>3. \A i \in 1..Len(u) : u[i] = v[i]
  BY <1>1, <1>2
<1>4. u = v
  BY <1>1, <1>2, <1>3, SeqEqual
<1> QED BY <1>4 DEF u, v

LEMMA FourIsConcat ==
  ASSUME NEW x, NEW y, NEW z, NEW q
  PROVE  <<x, y, z, q>> = <<x, y>> \o <<z, q>>
<1>0. PICK S : x \in S /\ y \in S /\ z \in S /\ q \in S
  <2>1. x \in {x, y, z, q} /\ y \in {x, y, z, q} /\ z \in {x, y, z, q} /\ q \in {x, y, z, q}
    OBVIOUS
  <2> QED BY <2>1, Zenon
<1> DEFINE u == <<x, y, z, q>>
           v == <<x, y>> \o <<z, q>>
<1>1. u \in Seq(S) /\ Len(u) = 4 /\ u[1] = x /\ u[2] = y /\ u[3] = z /\ u[4] = q
  BY <1>0
<1>2. v \in Seq(S) /\ Len(v) = 4 /\ v[1] = x /\ v[2] = y /\ v[3] = z /\ v[4] = q
  BY <1>0
<1> HIDE DEF u, v
<1>3. \A i \in 1..Len(u) : u[i] = v[i]
  BY <1>1, <1>2
<1>4. u = v
  BY <1>1, <1>2, <1>3, SeqEqual
<1> QED BY <1>4 DEF u, v

\* What the branches of an if and of a loop print.
LEMMA BranchCode ==
  ASSUME NEW n \in Nat, NEW uid \in Nat
  PROVE  /\ Chunk(code_generator_if_header(uid), n, {}, {Label("ELSE", uid)})
         /\ Chunk(code_generator_if_else(uid), n, {Label("ELSE", uid)}, {Label("IF_END", uid)})
         /\ Chunk(code_generator_if_end(uid), n, {Label("IF_END", uid)}, {})
         /\ Chunk(code_generator_for_label(uid), n, {Label("FOR", uid)}, {})
         /\ Chunk(code_generator_for_loop_if(uid), n, {}, {Label("FOR_END", uid), Label("FOR_BODY", uid)})
         /\ Chunk(code_generator_for_body(uid), n, {Label("FOR_BODY", uid)}, {})
         /\ Chunk(code_generator_for_loop_end(uid), n, {Label("FOR_END", uid)}, {Label("FOR", uid)})
<1>1. /\ Label("ELSE", uid) \in LabelSet /\ Label("IF_END", uid) \in LabelSet
      /\ Label("FOR", uid) \in LabelSet /\ Label("FOR_BODY", uid) \in LabelSet
      /\ Label("FOR_END", uid) \in LabelSet
  BY LabelsAre DEF LabelNames
<1>2. 0 \in 0..n /\ "JUMPIFNEQS" \in GotoOps
  BY DEF GotoOps
<1>3. Chunk(code_generator_if_header(uid), n, {}, {Label("ELSE", uid)})
  BY <1>1, <1>2, OneGoto DEF code_generator_if_header, Instr
<1>4. Chunk(code_generator_if_else(uid), n, {Label("ELSE", uid)}, {Label("IF_END", uid)})
  BY <1>1, JumpAndLabel DEF code_generator_if_else
<1>5. Chunk(code_generator_if_end(uid), n, {Label("IF_END", uid)}, {})
  BY <1>1, <1>2, OneLabel DEF code_generator_if_end, Instr
<1>6. Chunk(code_generator_for_label(uid), n, {Label("FOR", uid)}, {})
  BY <1>1, <1>2, OneLabel DEF code_generator_for_label, Instr
<1>7. Chunk(code_generator_for_loop_if(uid), n, {}, {Label("FOR_END", uid), Label("FOR_BODY", uid)})
  BY <1>1, JumpAndLabel DEF code_generator_for_loop_if
<1>8. Chunk(code_generator_for_body(uid), n, {Label("FOR_BODY", uid)}, {})
  BY <1>1, <1>2, OneLabel DEF code_generator_for_body, Instr
<1>9. Chunk(code_generator_for_loop_end(uid), n, {Label("FOR_END", uid)}, {Label("FOR", uid)})
  BY <1>1, JumpAndLabel DEF code_generator_for_loop_end
<1> QED BY <1>3, <1>4, <1>5, <1>6, <1>7, <1>8, <1>9

\* What the operations on frames print.
LEMMA FrameCode ==
  ASSUME NEW n \in Nat
  PROVE  /\ Chunk(code_generator_createframe, n, {}, {})
         /\ Chunk(code_generator_pushframe, n, {}, {})
         /\ Chunk(code_generator_popframe, n, {}, {})
         /\ Chunk(code_generator_createframe \o code_generator_pushframe, n, {}, {})
<1>1. /\ {"CREATEFRAME", "PUSHFRAME", "POPFRAME"} \subseteq Ops \ (GotoOps \union {"LABEL"})
      /\ "none" \in Arguments
  BY DEF Ops, GotoOps, Arguments
<1>2. /\ IsPlain(Instr("CREATEFRAME", "none"), n) /\ IsPlain(Instr("PUSHFRAME", "none"), n)
      /\ IsPlain(Instr("POPFRAME", "none"), n)
  BY <1>1, PlainInstr
<1>3. /\ Chunk(code_generator_createframe, n, {}, {}) /\ Chunk(code_generator_pushframe, n, {}, {})
      /\ Chunk(code_generator_popframe, n, {}, {})
  BY <1>2, PlainOne DEF code_generator_createframe, code_generator_pushframe, code_generator_popframe
<1> QED BY <1>3, PlainConcat

\* A use and a declaration of a variable.
LEMMA VariableCode ==
  ASSUME NEW n \in Nat, NEW var \in Variables
  PROVE  /\ IsPlain(Instr("USE", var), n) /\ IsPlain(Instr("DEFVAR", var), n)
         /\ Chunk(<<Instr("USE", var)>>, n, {}, {})
         /\ Chunk(code_generator_var_declare(var), n, {}, {})
<1>1. {"USE", "DEFVAR"} \subseteq Ops \ (GotoOps \union {"LABEL"}) /\ var \in Arguments
  BY DEF Ops, GotoOps, Arguments
<1>2. /\ IsPlain(Instr("USE", var), n) /\ IsPlain(Instr("DEFVAR", var), n)
      /\ IsPlain(code_generator_defvar(var), n)
  BY <1>1, PlainInstr, PlainDefvar
<1> QED BY <1>2, PlainOne, PlainTwo DEF code_generator_var_declare

\* What ?? prints: an if of its own.
LEMMA NilCheckCode ==
  ASSUME NEW n \in Nat, NEW uid \in Nat
  PROVE  Chunk(code_generator_nil_check(uid), n,
               {Label("ELSE", uid), Label("IF_END", uid)}, {Label("ELSE", uid), Label("IF_END", uid)})
<1> DEFINE le == Label("ELSE", uid)
           li == Label("IF_END", uid)
           c1 == code_generator_createframe \o code_generator_pushframe
           d2 == Instr("DEFVAR", Var("LF", "op", 2))
           u2 == Instr("USE", Var("LF", "op", 2))
           d1 == Instr("DEFVAR", Var("LF", "op", 1))
           u1 == Instr("USE", Var("LF", "op", 1))
           c2 == <<d2, u2, d1, u1>>
           c3 == code_generator_if_header(uid)
           c4 == code_generator_if_else(uid)
           c5 == code_generator_if_end(uid)
           c6 == code_generator_popframe
<1>1. Var("LF", "op", 1) \in Variables /\ Var("LF", "op", 2) \in Variables
  BY VarsAre
<1>2. /\ IsPlain(d1, n) /\ IsPlain(d2, n) /\ IsPlain(u1, n) /\ IsPlain(u2, n)
  BY <1>1, VariableCode
<1>3. Chunk(<<u1>>, n, {}, {}) /\ Chunk(<<u2>>, n, {}, {})
  BY <1>2, PlainOne
<1> HIDE DEF d1, d2, u1, u2
<1>4. Chunk(c2, n, {}, {})
  <2>1. c2 = <<d2, u2>> \o <<d1, u1>>
    BY FourIsConcat
  <2>2. Chunk(<<d2, u2>>, n, {}, {}) /\ Chunk(<<d1, u1>>, n, {}, {})
    BY <1>2, PlainTwo
  <2> HIDE DEF c2
  <2>3. Chunk(<<d2, u2>> \o <<d1, u1>>, n, {}, {})
    BY <2>2, PlainConcat
  <2> QED BY <2>1, <2>3
<1>5. /\ Chunk(c1, n, {}, {}) /\ Chunk(c3, n, {}, {le}) /\ Chunk(c4, n, {le}, {li})
      /\ Chunk(c5, n, {li}, {}) /\ Chunk(c6, n, {}, {})
  BY FrameCode, BranchCode
<1>6. le # li
  BY DEF Label
<1>7. code_generator_nil_check(uid) = c1 \o c2 \o c3 \o <<u1>> \o c4 \o <<u2>> \o c5 \o c6
  BY DEF code_generator_nil_check, d1, d2, u1, u2
<1> HIDE DEF le, li, c1, c2, c3, c4, c5, c6
<1>8. Chunk(c1 \o c2, n, {}, {})
  BY <1>4, <1>5, PlainConcat
<1>9. Chunk(c1 \o c2 \o c3, n, {}, {le})
  BY <1>5, <1>8, PlainConcat
<1>10. Chunk(c1 \o c2 \o c3 \o <<u1>>, n, {}, {le})
  BY <1>3, <1>9, PlainConcat
<1>11. Chunk(c1 \o c2 \o c3 \o <<u1>> \o c4, n, {le}, {le, li})
  <2>1. Chunk(c1 \o c2 \o c3 \o <<u1>> \o c4, n, {} \union {le}, {le} \union {li})
    BY <1>5, <1>10, ChunkConcat
  <2>2. {} \union {le} = {le} /\ {le} \union {li} = {le, li}
    OBVIOUS
  <2> QED BY <2>1, <2>2
<1>12. Chunk(c1 \o c2 \o c3 \o <<u1>> \o c4 \o <<u2>>, n, {le}, {le, li})
  BY <1>3, <1>11, PlainConcat
<1>13. Chunk(c1 \o c2 \o c3 \o <<u1>> \o c4 \o <<u2>> \o c5, n, {le, li}, {le, li})
  <2>1. {le} \intersect {li} = {}
    BY <1>6
  <2>2. Chunk(c1 \o c2 \o c3 \o <<u1>> \o c4 \o <<u2>> \o c5, n, {le} \union {li}, {le, li} \union {})
    BY <1>5, <1>12, <2>1, ChunkConcat
  <2>3. {le} \union {li} = {le, li} /\ {le, li} \union {} = {le, li}
    OBVIOUS
  <2> QED BY <2>2, <2>3
<1>14. Chunk(c1 \o c2 \o c3 \o <<u1>> \o c4 \o <<u2>> \o c5 \o c6, n, {le, li}, {le, li})
  BY <1>5, <1>13, PlainConcat
<1> QED BY <1>7, <1>14 DEF le, li

\* What functions and calls print.
LEMMA FunctionCode ==
  ASSUME NEW n \in Nat, NEW i \in 0..n, NEW f \in Names
  PROVE  /\ Chunk(code_generator_function_call(f, i), n, {}, {Label("FUNCTION", f)})
         /\ Chunk(code_generator_function_label(f), n,
                  {Label("FUNCTION", f)}, {Label("FUNCTION", EndName[f])})
         /\ Chunk(code_generator_return(i), n, {}, {})
         /\ Chunk(code_generator_function_end(f, i), n, {Label("FUNCTION", EndName[f])}, {})
<1>1. Label("FUNCTION", f) \in LabelSet /\ Label("FUNCTION", EndName[f]) \in LabelSet
  BY LabelsAre
<1>2. Slot("TF") \in Variables
  BY VarsAre
<1>3. /\ {"RETURN"} \subseteq Ops \ (GotoOps \union {"LABEL"}) /\ "none" \in Arguments
      /\ "CALL" \in GotoOps /\ 0 \in 0..n
  BY DEF Ops, GotoOps, Arguments
<1>4. Chunk(code_generator_function_call(f, i), n, {}, {Label("FUNCTION", f)})
  <2> DEFINE a == IF Params[f] = 0 THEN <<>>
                  ELSE <<code_generator_defvar(Slot("TF")), Instr("USE", Slot("TF"))>>
             c == <<InstrAt("CALL", Label("FUNCTION", f), i)>>
  <2>1. Chunk(a, n, {}, {})
    BY <1>2, ChunkEmpty, VariableCode DEF code_generator_var_declare
  <2>2. Chunk(c, n, {}, {Label("FUNCTION", f)})
    BY <1>1, <1>3, OneGoto
  <2>3. code_generator_function_call(f, i) = code_generator_createframe \o a \o c
    BY DEF code_generator_function_call
  <2> HIDE DEF a, c
  <2>4. Chunk(code_generator_createframe \o a, n, {}, {})
    BY <2>1, FrameCode, PlainConcat
  <2>5. Chunk(code_generator_createframe \o a \o c, n, {}, {Label("FUNCTION", f)})
    BY <2>2, <2>4, PlainConcat
  <2> QED BY <2>3, <2>5
<1>5. Chunk(code_generator_function_label(f), n,
            {Label("FUNCTION", f)}, {Label("FUNCTION", EndName[f])})
  <2> DEFINE c == <<Instr("JUMP", Label("FUNCTION", EndName[f])), Instr("LABEL", Label("FUNCTION", f))>>
  <2>1. Chunk(c, n, {Label("FUNCTION", f)}, {Label("FUNCTION", EndName[f])})
    BY <1>1, JumpAndLabel
  <2>2. code_generator_function_label(f) = c \o code_generator_pushframe
    BY DEF code_generator_function_label
  <2> HIDE DEF c
  <2>3. Chunk(c \o code_generator_pushframe, n, {Label("FUNCTION", f)}, {Label("FUNCTION", EndName[f])})
    BY <2>1, FrameCode, PlainConcat
  <2> QED BY <2>2, <2>3
<1>6. Chunk(code_generator_return(i), n, {}, {})
  <2>1. Chunk(<<InstrAt("RETURN", "none", i)>>, n, {}, {})
    BY <1>3, PlainAt, PlainOne
  <2> QED BY <2>1, FrameCode, PlainConcat DEF code_generator_return
<1>7. Chunk(code_generator_function_end(f, i), n, {Label("FUNCTION", EndName[f])}, {})
  <2>1. Chunk(<<Instr("LABEL", Label("FUNCTION", EndName[f]))>>, n, {Label("FUNCTION", EndName[f])}, {})
    BY <1>1, <1>3, OneLabel DEF Instr
  <2> QED BY <1>6, <2>1, PlainConcat DEF code_generator_function_end
<1> QED BY <1>4, <1>5, <1>6, <1>7

LEMMA ParamCode ==
  ASSUME NEW n \in Nat, NEW var \in Variables
  PROVE  Chunk(code_generator_param_map(var), n, {}, {})
<1> DEFINE x == code_generator_defvar(var)
           y == Instr("USE", Slot("LF"))
           z == Instr("USE", var)
<1>1. IsPlain(x, n) /\ IsPlain(y, n) /\ IsPlain(z, n)
  BY VarsAre, VariableCode, PlainDefvar
<1>2. code_generator_param_map(var) = <<x, y, z>>
  BY DEF code_generator_param_map
<1> HIDE DEF x, y, z
<1>3. <<x, y, z>> = <<x>> \o <<y, z>>
  BY <1>1, ThreeIsConcat DEF IsPlain
<1>4. Chunk(<<x>>, n, {}, {}) /\ Chunk(<<y, z>>, n, {}, {})
  BY <1>1, PlainOne, PlainTwo
<1>5. Chunk(<<x>> \o <<y, z>>, n, {}, {})
  BY <1>4, PlainConcat
<1> QED BY <1>2, <1>3, <1>5

-----------------------------------------------------------------------------
(* The invariant.                                                          *)

Kinds == {"stmt", "while", "if", "func", "call", "return", "else", "endif", "endwhile", "endfunc", "eof"}
Entries == [kind : Kinds, f : Functions \union {"none"}, head : Nat]
CondKinds == {"if", "else"}
Blocks == [kind : {"if", "else", "while", "func"}, uid : Nat, at : Nat, declared : SUBSET Variables]

\* Functions are defined and called by their names.
SourceOK ==
  /\ source \in Seq(Entries)
  /\ \A i \in 1..Len(source) : source[i].kind \in {"func", "call"} => source[i].f \in Functions

\* A function is not nested, and no two open blocks share a number.
OpenOK ==
  /\ open \in Seq(Blocks)
  /\ \A k \in 1..Len(open) :
       /\ open[k].at \in 1..Len(source)
       /\ open[k].kind = "func" => k = 1 /\ source[open[k].at].kind = "func"
       /\ open[k].kind \in CondKinds => open[k].uid < cond_uid
       /\ open[k].kind = "while" => open[k].uid < loop_uid
  /\ \A k, m \in 1..Len(open) : k # m =>
       /\ open[k].kind \in CondKinds /\ open[m].kind \in CondKinds => open[k].uid # open[m].uid
       /\ open[k].kind = "while" /\ open[m].kind = "while" => open[k].uid # open[m].uid

Loops(bs) == {k \in 1..Len(bs) : bs[k].kind = "while"}

\* The buffer is empty outside of loops.
CountOK ==
  /\ for_open = Cardinality(Loops(open))
  /\ for_open = 0 => print_buffer = <<>>

CodeOK == out \in Seq(Instrs(Len(source))) /\ print_buffer \in Seq(Instrs(Len(source)))

AllLabels == Labels(out) \union Labels(print_buffer)
AllGotos == Gotos(out) \union Gotos(print_buffer)
Distinct == Once(out) /\ Once(print_buffer) /\ Labels(out) \intersect Labels(print_buffer) = {}

IsOpen(kinds, uid) == \E k \in 1..Len(open) : open[k].kind \in kinds /\ open[k].uid = uid
IsOpenFunction(f) == InFunction /\ CurrentFunction = f

\* The labels that are printed: those of the blocks, as far as these got.
CondLabels ==
  \A u \in Nat :
    /\ Label("ELSE", u) \in AllLabels <=> u < cond_uid /\ ~IsOpen({"if"}, u)
    /\ Label("IF_END", u) \in AllLabels <=> u < cond_uid /\ ~IsOpen(CondKinds, u)
LoopLabels ==
  \A u \in Nat :
    /\ Label("FOR", u) \in AllLabels <=> u < loop_uid
    /\ Label("FOR_BODY", u) \in AllLabels <=> u < loop_uid
    /\ Label("FOR_END", u) \in AllLabels <=> u < loop_uid /\ ~IsOpen({"while"}, u)
FunctionLabels ==
  \A x \in DOMAIN EndName \union {EndName[f] : f \in DOMAIN EndName} :
    Label("FUNCTION", x) \in AllLabels
      <=> x \in Known \/ \E f \in Known : ~IsOpenFunction(f) /\ x = EndName[f]
EofLabel == Label("EOF", 0) \in AllLabels <=> phase # "parse"

\* Jumps only go to these labels.
IsTarget(l) ==
  \/ \E u \in Nat : u < cond_uid /\ l \in {Label("ELSE", u), Label("IF_END", u)}
  \/ \E u \in Nat : u < loop_uid /\ l \in {Label("FOR", u), Label("FOR_BODY", u), Label("FOR_END", u)}
  \/ \E f \in Known : l = Label("FUNCTION", EndName[f])
  \/ \E f \in Called : l = Label("FUNCTION", f)
GotosOK == \A l \in AllGotos : IsTarget(l)

\* What a label is printed behind tells the two labels of functions apart.
Behind(l, op) == \E i \in 2..Len(out) : out[i].op = "LABEL" /\ out[i].arg = l /\ out[i - 1].op = op
FunctionsOK ==
  \A f \in Known :
    /\ Behind(Label("FUNCTION", f), "JUMP")
    /\ ~IsOpenFunction(f) => Behind(Label("FUNCTION", EndName[f]), "RETURN")

PhaseOK ==
  /\ phase \in {"parse", "load", "run", "rejected"}
  /\ phase # "parse" => open = <<>> /\ Called \subseteq Defined
  /\ phase = "rejected" => NameClash
  /\ phase = "run" => LabelsUnique /\ LabelsDefined

MachineOK ==
  /\ ip \in 1..(Len(out) + 1) /\ Len(tf) <= 1 /\ Len(calls) <= MaxCalls
  /\ calls \in Seq(2..(Len(out) + 1))
  /\ position \in [at : 0..Len(source), entered : BOOLEAN]
  /\ phase = "parse" => ip = 1 /\ calls = <<>>

LabelInv ==
  /\ SourceOK /\ OpenOK /\ CountOK /\ CodeOK
  /\ cond_uid \in Nat /\ loop_uid \in Nat /\ unique_id \in Nat /\ globals \subseteq Variables
  /\ CondLabels /\ LoopLabels /\ FunctionLabels /\ EofLabel /\ GotosOK
  /\ ~NameClash => Distinct
  /\ FunctionsOK /\ PhaseOK /\ MachineOK

-----------------------------------------------------------------------------
(* Printing.                                                               *)

\* What printing code with the labels L and jumps to J does to the output.
Emitted(n, L, J) ==
  /\ out' \in Seq(Instrs(n)) /\ print_buffer' \in Seq(Instrs(n))
  /\ AllLabels' = AllLabels \union L
  /\ AllGotos' = AllGotos \union J
  /\ Distinct /\ L \intersect AllLabels = {} => Distinct'
  /\ Len(out) \in Nat /\ Len(out') \in Nat /\ Len(out') >= Len(out)
  /\ \A i \in 1..Len(out) : out'[i] = out[i]

LEMMA ExtendBoth ==
  ASSUME NEW n, out \in Seq(Instrs(n)), print_buffer \in Seq(Instrs(n)),
         NEW a, NEW b, NEW L, NEW M, NEW J, NEW K,
         Piece(a, n, L, J), Piece(b, n, M, K), L \intersect M = {},
         out' = out \o a, print_buffer' = print_buffer \o b
  PROVE  Emitted(n, L \union M, J \union K)
<1>1. a \in Seq(Instrs(n)) /\ b \in Seq(Instrs(n)) /\ Once(a) /\ Once(b)
  BY DEF Piece
<1>2. /\ out' \in Seq(Instrs(n)) /\ print_buffer' \in Seq(Instrs(n))
      /\ Labels(out') = Labels(out) \union L /\ Labels(print_buffer') = Labels(print_buffer) \union M
      /\ Gotos(out') = Gotos(out) \union J /\ Gotos(print_buffer') = Gotos(print_buffer) \union K
  BY <1>1, ConcatLabels DEF Piece
<1>3. AllLabels' = AllLabels \union (L \union M) /\ AllGotos' = AllGotos \union (J \union K)
  BY <1>2 DEF AllLabels, AllGotos
<1>4. ASSUME Distinct, (L \union M) \intersect AllLabels = {} PROVE Distinct'
  <2>1. Once(out) /\ Once(print_buffer) /\ Labels(out) \intersect Labels(print_buffer) = {}
    BY <1>4 DEF Distinct
  <2>2. Labels(out) \intersect Labels(a) = {} /\ Labels(print_buffer) \intersect Labels(b) = {}
    BY <1>4 DEF AllLabels, Piece
  <2>3. Once(out \o a) /\ Once(print_buffer \o b)
    BY <1>1, <2>1, <2>2, ConcatOnce
  <2>4. Labels(out') \intersect Labels(print_buffer') = {}
    BY <1>2, <1>4, <2>1 DEF AllLabels
  <2> QED BY <2>3, <2>4 DEF Distinct
<1>5. /\ Len(out) \in Nat /\ Len(out') \in Nat /\ Len(out') >= Len(out)
      /\ \A i \in 1..Len(out) : out'[i] = out[i]
  <2>1. /\ Len(out \o a) = Len(out) + Len(a)
        /\ \A i \in 1..(Len(out) + Len(a)) : (out \o a)[i] = IF i <= Len(out) THEN out[i] ELSE a[i - Len(out)]
    BY <1>1, ConcatProperties
  <2>2. Len(out) \in Nat /\ Len(a) \in Nat
    BY <1>1, LenProperties
  <2> QED BY <2>1, <2>2
<1> QED BY <1>2, <1>3, <1>4, <1>5 DEF Emitted

LEMMA EmitCode ==
  ASSUME NEW n, out \in Seq(Instrs(n)), print_buffer \in Seq(Instrs(n)),
         NEW code, NEW loops, NEW L, NEW J, Chunk(code, n, L, J), Emit(code, loops)
  PROVE  /\ Emitted(n, L, J) /\ for_open' = loops
         /\ loops = 0 => out' = out \o code /\ print_buffer' = print_buffer
<1>1. for_open' = loops /\ (loops = 0 => out' = out \o code /\ print_buffer' = print_buffer)
  BY DEF Emit
<1>2. CASE loops = 0
  <2>1. Piece(code, n, L, J) /\ Piece(<<>>, n, {}, {})
    BY PieceEmpty DEF Chunk
  <2>2. print_buffer' = print_buffer \o <<>>
    BY <1>1, <1>2, ConcatEmptySeq
  <2>3. Emitted(n, L \union {}, J \union {})
    BY <1>1, <1>2, <2>1, <2>2, ExtendBoth
  <2>4. L \union {} = L /\ J \union {} = J
    OBVIOUS
  <2> QED BY <1>1, <2>3, <2>4
<1>3. CASE loops # 0
  <2>1. Piece(Part(code, TRUE), n, {}, {}) /\ Piece(Part(code, FALSE), n, L, J)
    BY DEF Chunk
  <2>2. out' = out \o Part(code, TRUE) /\ print_buffer' = print_buffer \o Part(code, FALSE)
    BY <1>3 DEF Emit
  <2>3. Emitted(n, {} \union L, {} \union J)
    BY <2>1, <2>2, ExtendBoth
  <2>4. {} \union L = L /\ {} \union J = J
    OBVIOUS
  <2> QED BY <1>1, <1>3, <2>3, <2>4
<1> QED BY <1>2, <1>3

LEMMA EmitEnd ==
  ASSUME NEW n \in Nat, out \in Seq(Instrs(n)), print_buffer \in Seq(Instrs(n)),
         NEW uid \in Nat, Top.uid = uid, for_open \in Nat, EmitLoopEnd
  PROVE  /\ Emitted(n, {Label("FOR_END", uid)}, {Label("FOR", uid)})
         /\ for_open' = for_open - 1
         /\ for_open' = 0 => print_buffer' = <<>>
<1> DEFINE code == code_generator_for_loop_end(uid)
           L == {Label("FOR_END", uid)}
           J == {Label("FOR", uid)}
<1>1. Piece(code, n, L, J)
  BY BranchCode DEF Chunk
<1>2. /\ for_open' = for_open - 1
      /\ for_open' = 0 => out' = out \o (print_buffer \o code) /\ print_buffer' = <<>>
      /\ for_open' # 0 => out' = out /\ print_buffer' = print_buffer \o code
  BY DEF EmitLoopEnd, Top
<1> HIDE DEF code, L, J
<1>3. CASE for_open' # 0
  <2>1. Piece(<<>>, n, {}, {}) /\ out' = out \o <<>> /\ print_buffer' = print_buffer \o code
    BY <1>2, <1>3, PieceEmpty, ConcatEmptySeq
  <2>2. Emitted(n, {} \union L, {} \union J)
    BY <1>1, <2>1, ExtendBoth
  <2>3. {} \union L = L /\ {} \union J = J
    OBVIOUS
  <2> QED BY <1>2, <1>3, <2>2, <2>3 DEF L, J
<1>4. CASE for_open' = 0
  <2>1. out' = out \o (print_buffer \o code) /\ print_buffer' = <<>>
    BY <1>2, <1>4
  <2>2. code \in Seq(Instrs(n)) /\ Once(code)
    BY <1>1 DEF Piece
  <2> DEFINE w == print_buffer \o code
  <2>3. /\ w \in Seq(Instrs(n))
        /\ Labels(w) = Labels(print_buffer) \union L /\ Gotos(w) = Gotos(print_buffer) \union J
    BY <1>1, <2>2, ConcatLabels DEF Piece
  <2> HIDE DEF w
  <2>4. /\ out' \in Seq(Instrs(n)) /\ print_buffer' \in Seq(Instrs(n))
        /\ Labels(out') = Labels(out) \union Labels(w) /\ Gotos(out') = Gotos(out) \union Gotos(w)
    <3>1. out' = out \o w
      BY <2>1 DEF w
    <3> QED BY <2>1, <2>3, <3>1, ConcatLabels
  <2>5. Labels(print_buffer') = {} /\ Gotos(print_buffer') = {} /\ Once(print_buffer')
    BY <2>1, PieceEmpty DEF Piece
  <2>6. AllLabels' = AllLabels \union L /\ AllGotos' = AllGotos \union J
    BY <2>3, <2>4, <2>5 DEF AllLabels, AllGotos
  <2>7. ASSUME Distinct, L \intersect AllLabels = {} PROVE Distinct'
    <3>1. Once(out) /\ Once(print_buffer) /\ Labels(out) \intersect Labels(print_buffer) = {}
      BY <2>7 DEF Distinct
    <3>2. Labels(print_buffer) \intersect Labels(code) = {}
      BY <1>1, <2>7 DEF AllLabels, Piece
    <3>3. Once(w)
      BY <2>2, <3>1, <3>2, ConcatOnce DEF w
    <3>4. Labels(out) \intersect Labels(w) = {}
      BY <2>3, <2>7, <3>1 DEF AllLabels
    <3>5. Once(out \o w)
      BY <2>3, <3>1, <3>3, <3>4, ConcatOnce
    <3> QED BY <2>1, <2>5, <3>5 DEF Distinct, w
  <2>8. /\ Len(out) \in Nat /\ Len(out') \in Nat /\ Len(out') >= Len(out)
        /\ \A i \in 1..Len(out) : out'[i] = out[i]
    <3>1. /\ Len(out \o w) = Len(out) + Len(w)
          /\ \A i \in 1..(Len(out) + Len(w)) : (out \o w)[i] = IF i <= Len(out) THEN out[i] ELSE w[i - Len(out)]
      BY <2>3, ConcatProperties
    <3>2. Len(out) \in Nat /\ Len(w) \in Nat /\ out' = out \o w
      BY <2>1, <2>3, LenProperties DEF w
    <3> QED BY <3>1, <3>2
  <2>9. Emitted(n, L, J)
    BY <2>4, <2>6, <2>7, <2>8 DEF Emitted
  <2> QED BY <1>2, <2>1, <2>9 DEF L, J
<1> QED BY <1>3, <1>4

-----------------------------------------------------------------------------
(* The program and its blocks.                                             *)

\* t is s with e at its end.
Appended(t, s, e) ==
  /\ Len(s) \in Nat /\ Len(t) = Len(s) + 1 /\ t[Len(t)] = e
  /\ \A i \in 1..Len(s) : t[i] = s[i] /\ i \in 1..Len(t) /\ i # Len(t)
  /\ \A i \in 1..Len(t) : i \in 1..Len(s) \/ i = Len(t)
  /\ Len(t) \in 1..Len(t)

LEMMA AppendFacts ==
  ASSUME NEW S, NEW s \in Seq(S), NEW e \in S
  PROVE  Append(s, e) \in Seq(S) /\ Appended(Append(s, e), s, e)
<1> DEFINE t == Append(s, e)
<1>1. /\ t \in Seq(S) /\ Len(t) = Len(s) + 1 /\ t[Len(s) + 1] = e
      /\ \A i \in 1..Len(s) : t[i] = s[i]
  BY AppendProperties
<1>2. Len(s) \in Nat
  BY LenProperties
<1> HIDE DEF t
<1>3. Appended(t, s, e)
  BY <1>1, <1>2 DEF Appended
<1> QED BY <1>1, <1>3 DEF t

LEMMA BlockFields ==
  ASSUME NEW b \in Blocks
  PROVE  b.kind \in {"if", "else", "while", "func"} /\ b.uid \in Nat /\ b.at \in Nat
           /\ b.declared \in SUBSET Variables
BY DEF Blocks

\* The program grows by an entry.
Grown(kind, f) ==
  /\ SourceOK' /\ Len(source) \in Nat /\ Len(source') = Len(source) + 1 /\ Here = Len(source')
  /\ \A i \in 1..Len(source) : source'[i] = source[i]
  /\ source'[Len(source')].kind = kind /\ source'[Len(source')].f = f
  /\ Defined' = Defined \union (IF kind = "func" THEN {f} ELSE {})
  /\ Called' = Called \union (IF kind = "call" THEN {f} ELSE {})

LEMMA InDefined ==
  ASSUME NEW x
  PROVE  /\ x \in Defined <=> \E i \in 1..Len(source) : source[i].kind = "func" /\ source[i].f = x
         /\ x \in Called <=> \E i \in 1..Len(source) : source[i].kind = "call" /\ source[i].f = x
BY DEF Defined, Called

LEMMA InDefinedNext ==
  ASSUME NEW x
  PROVE  /\ x \in Defined' <=> \E i \in 1..Len(source') : source'[i].kind = "func" /\ source'[i].f = x
         /\ x \in Called' <=> \E i \in 1..Len(source') : source'[i].kind = "call" /\ source'[i].f = x
BY DEF Defined, Called

LEMMA SourceGrows ==
  ASSUME SourceOK, NEW kind \in Kinds, NEW f \in Functions \union {"none"}, NEW head \in Nat,
         kind \in {"func", "call"} => f \in Functions, Add(kind, f, head)
  PROVE  Grown(kind, f)
<1> DEFINE e == Entry(kind, f, head)
<1>1. e \in Entries /\ e.kind = kind /\ e.f = f
  BY DEF Entry, Entries
<1>2. source \in Seq(Entries) /\ Len(source) \in Nat
  BY LenProperties DEF SourceOK
<1>3. source' = Append(source, e)
  BY DEF Add
<1> HIDE DEF e
<1>4. source' \in Seq(Entries) /\ Appended(source', source, e)
  BY <1>1, <1>2, <1>3, AppendFacts
<1>7. SourceOK'
  BY <1>1, <1>4 DEF SourceOK, Appended
<1>8. ASSUME NEW x
      PROVE  /\ x \in Defined' <=> x \in Defined \union (IF kind = "func" THEN {f} ELSE {})
             /\ x \in Called' <=> x \in Called \union (IF kind = "call" THEN {f} ELSE {})
  <2>1. x \in Defined' <=> x \in Defined \/ (kind = "func" /\ f = x)
    <3>1. x \in Defined <=> \E i \in 1..Len(source) : source[i].kind = "func" /\ source[i].f = x
      BY InDefined
    <3>2. x \in Defined' <=> \E i \in 1..Len(source') : source'[i].kind = "func" /\ source'[i].f = x
      BY InDefinedNext
    <3> QED BY <1>1, <1>4, <3>1, <3>2 DEF Appended
  <2>2. x \in Called' <=> x \in Called \/ (kind = "call" /\ f = x)
    <3>1. x \in Called <=> \E i \in 1..Len(source) : source[i].kind = "call" /\ source[i].f = x
      BY InDefined
    <3>2. x \in Called' <=> \E i \in 1..Len(source') : source'[i].kind = "call" /\ source'[i].f = x
      BY InDefinedNext
    <3> QED BY <1>1, <1>4, <3>1, <3>2 DEF Appended
  <2> QED BY <2>1, <2>2
<1>9. /\ Defined' = Defined \union (IF kind = "func" THEN {f} ELSE {})
      /\ Called' = Called \union (IF kind = "call" THEN {f} ELSE {})
  BY <1>8
<1> QED BY <1>1, <1>4, <1>7, <1>9 DEF Grown, Here, Appended

\* Defined functions are functions.
LEMMA DefinedAre ==
  ASSUME SourceOK
  PROVE  Defined \subseteq Functions /\ Called \subseteq Functions /\ Known \subseteq Names
BY InDefined DEF SourceOK, Known, Names

\* A function that is not defined yet is not built in either.
LEMMA NotKnown ==
  ASSUME NEW f \in Functions, f \notin Defined
  PROVE  f \notin Known /\ f \in Names
BY ControlFlowAssumption DEF Functions, Known, Names

LEMMA SameFunctions ==
  ASSUME source' = source
  PROVE  /\ Defined' = Defined /\ Called' = Called /\ Known' = Known
         /\ NameClash' <=> NameClash
<1>1. Defined' = Defined /\ Called' = Called
  BY DEF Defined, Called
<1>2. Known' = Known
  BY <1>1 DEF Known
<1> QED BY <1>1, <1>2 DEF NameClash

\* Instructions of a program are instructions of a longer one.
LEMMA InstrsGrow ==
  ASSUME NEW n \in Nat, NEW m \in Nat, n <= m, NEW s \in Seq(Instrs(n))
  PROVE  s \in Seq(Instrs(m))
<1>1. Instrs(n) \subseteq Instrs(m)
  <2>1. 0..n \subseteq 0..m
    OBVIOUS
  <2> QED BY <2>1 DEF Instrs
<1> QED BY <1>1, SeqMonotonic

\* The numbers of the parser only grow.
UidsGrow == cond_uid \in Nat /\ loop_uid \in Nat /\ cond_uid' \in Nat /\ loop_uid' \in Nat
              /\ cond_uid <= cond_uid' /\ loop_uid <= loop_uid'

\* The open blocks stay, but for what they declare.
BlocksKept ==
  /\ OpenOK' /\ Loops(open') = Loops(open)
  /\ \A K, u : IsOpen(K, u)' <=> IsOpen(K, u)
  /\ \A f : IsOpenFunction(f)' <=> IsOpenFunction(f)

LEMMA KeepBlocks ==
  ASSUME SourceOK, OpenOK, UidsGrow, NEW kind, NEW f, Grown(kind, f),
         open' \in Seq(Blocks), Len(open') = Len(open),
         \A k \in 1..Len(open) : open'[k].kind = open[k].kind /\ open'[k].uid = open[k].uid
                                   /\ open'[k].at = open[k].at
  PROVE  BlocksKept
<1>1. Len(open) \in Nat /\ \A k \in 1..Len(open) : open[k] \in Blocks
  BY DEF OpenOK
<1>2. \A k \in 1..Len(open) : /\ open[k].at \in 1..Len(source) /\ open[k].at \in 1..Len(source')
                              /\ source'[open[k].at] = source[open[k].at]
  BY DEF OpenOK, Grown
<1>3. OpenOK'
  <2>1. ASSUME NEW k \in 1..Len(open)
        PROVE  /\ open'[k].at \in 1..Len(source')
               /\ open'[k].kind = "func" => k = 1 /\ source'[open'[k].at].kind = "func"
               /\ open'[k].kind \in CondKinds => open'[k].uid < cond_uid'
               /\ open'[k].kind = "while" => open'[k].uid < loop_uid'
    <3>1. open[k].uid \in Nat
      BY <1>1, BlockFields
    <3>2. /\ open[k].kind = "func" => k = 1 /\ source[open[k].at].kind = "func"
          /\ open[k].kind \in CondKinds => open[k].uid < cond_uid
          /\ open[k].kind = "while" => open[k].uid < loop_uid
      BY DEF OpenOK
    <3>3. open'[k].kind = open[k].kind /\ open'[k].uid = open[k].uid /\ open'[k].at = open[k].at
      OBVIOUS
    <3> HIDE DEF OpenOK
    <3>4. /\ open[k].uid < cond_uid => open[k].uid < cond_uid'
          /\ open[k].uid < loop_uid => open[k].uid < loop_uid'
      BY <3>1 DEF UidsGrow
    <3>5. /\ open'[k].kind \in CondKinds => open'[k].uid < cond_uid'
          /\ open'[k].kind = "while" => open'[k].uid < loop_uid'
      BY <3>2, <3>3, <3>4
    <3>6. /\ open'[k].at \in 1..Len(source')
          /\ open'[k].kind = "func" => k = 1 /\ source'[open'[k].at].kind = "func"
      BY <1>2, <3>2, <3>3
    <3> QED BY <3>5, <3>6
  <2> QED BY <2>1 DEF OpenOK
<1>4. Loops(open') = Loops(open)
  BY DEF Loops
<1>5. ASSUME NEW K, NEW u PROVE IsOpen(K, u)' <=> IsOpen(K, u)
  BY DEF IsOpen
<1>6. ASSUME NEW g PROVE IsOpenFunction(g)' <=> IsOpenFunction(g)
  <2>1. (open = <<>> <=> Len(open) = 0) /\ (open' = <<>> <=> Len(open') = 0)
    BY EmptySeq DEF OpenOK
  <2>2. open # <<>> => 1 \in 1..Len(open)
    BY <1>1, <2>1
  <2> QED BY <1>2, <2>1, <2>2 DEF IsOpenFunction, InFunction, CurrentFunction
<1> QED BY <1>3, <1>4, <1>5, <1>6 DEF BlocksKept

\* A block is opened inside the others.
BlockPushed(b) ==
  /\ OpenOK'
  /\ Loops(open') = Loops(open) \union (IF b.kind = "while" THEN {Len(open) + 1} ELSE {})
  /\ \A K, u : IsOpen(K, u)' <=> IsOpen(K, u) \/ (b.kind \in K /\ b.uid = u)
  /\ \A f : IsOpenFunction(f)' <=> IsOpenFunction(f)

LEMMA PushBlock ==
  ASSUME SourceOK, OpenOK, UidsGrow, NEW kind, NEW f, Grown(kind, f),
         NEW b \in Blocks, open' = Append(open, b), b.at = Len(source'),
         \/ b.kind = "if" /\ cond_uid <= b.uid /\ b.uid < cond_uid'
         \/ b.kind = "while" /\ loop_uid <= b.uid /\ b.uid < loop_uid'
  PROVE  BlockPushed(b)
<1>1. /\ open \in Seq(Blocks) /\ Len(open) \in Nat /\ b.uid \in Nat
      /\ \A k \in 1..Len(open) : open[k] \in Blocks /\ open[k].uid \in Nat
  <2>1. open \in Seq(Blocks)
    BY DEF OpenOK
  <2>2. Len(open) \in Nat /\ \A k \in 1..Len(open) : open[k] \in Blocks
    BY <2>1
  <2> QED BY <2>1, <2>2, BlockFields
<1>2. /\ open' \in Seq(Blocks) /\ Len(open') = Len(open) + 1 /\ open'[Len(open) + 1] = b
      /\ \A k \in 1..Len(open) : open'[k] = open[k]
  BY <1>1, AppendProperties
<1>3. /\ \A k \in 1..Len(open') : k \in 1..Len(open) \/ k = Len(open')
      /\ \A k \in 1..Len(open) : k \in 1..Len(open') /\ k # Len(open')
      /\ Len(open') \in 1..Len(open')
  BY <1>1, <1>2
<1>4. \A k \in 1..Len(open) : /\ open[k].at \in 1..Len(source) /\ open[k].at \in 1..Len(source')
                              /\ source'[open[k].at] = source[open[k].at]
  BY DEF OpenOK, Grown
<1>5. OpenOK'
  <2>1. ASSUME NEW k \in 1..Len(open')
        PROVE  /\ open'[k].at \in 1..Len(source')
               /\ open'[k].kind = "func" => k = 1 /\ source'[open'[k].at].kind = "func"
               /\ open'[k].kind \in CondKinds => open'[k].uid < cond_uid'
               /\ open'[k].kind = "while" => open'[k].uid < loop_uid'
    <3>1. CASE k \in 1..Len(open)
      <4>1. /\ open[k].kind = "func" => k = 1 /\ source[open[k].at].kind = "func"
            /\ open[k].kind \in CondKinds => open[k].uid < cond_uid
            /\ open[k].kind = "while" => open[k].uid < loop_uid
        BY <3>1 DEF OpenOK
      <4>2. open'[k] = open[k] /\ open[k].uid \in Nat
        BY <1>1, <1>2, <3>1
      <4>3. /\ open[k].uid < cond_uid => open[k].uid < cond_uid'
            /\ open[k].uid < loop_uid => open[k].uid < loop_uid'
        BY <4>2 DEF UidsGrow
      <4>4. open'[k].kind \in CondKinds => open'[k].uid < cond_uid'
        BY <4>1, <4>2, <4>3
      <4>5. open'[k].kind = "while" => open'[k].uid < loop_uid'
        BY <4>1, <4>2, <4>3
      <4> QED BY <1>4, <3>1, <4>1, <4>2, <4>4, <4>5
    <3>2. CASE k = Len(open')
      <4>1. open'[k] = b /\ Len(source') \in 1..Len(source')
        BY <1>2, <3>2 DEF Grown
      <4> QED BY <4>1 DEF CondKinds
    <3> QED BY <1>3, <3>1, <3>2
  <2>2. ASSUME NEW k \in 1..Len(open), open[k].kind \in CondKinds, b.kind \in CondKinds
        PROVE  open[k].uid # b.uid
    <3>1. open[k].uid < cond_uid /\ cond_uid <= b.uid
      BY <2>2 DEF OpenOK, CondKinds
    <3> QED BY <1>1, <3>1 DEF UidsGrow
  <2>3. ASSUME NEW k \in 1..Len(open), open[k].kind = "while", b.kind = "while"
        PROVE  open[k].uid # b.uid
    <3>1. open[k].uid < loop_uid /\ loop_uid <= b.uid
      BY <2>3 DEF OpenOK
    <3> QED BY <1>1, <3>1 DEF UidsGrow
  <2>4. ASSUME NEW k \in 1..Len(open'), NEW m \in 1..Len(open'), k # m
        PROVE  /\ open'[k].kind \in CondKinds /\ open'[m].kind \in CondKinds => open'[k].uid # open'[m].uid
               /\ open'[k].kind = "while" /\ open'[m].kind = "while" => open'[k].uid # open'[m].uid
    <3>1. CASE k \in 1..Len(open) /\ m \in 1..Len(open)
      BY <1>2, <2>4, <3>1 DEF OpenOK
    <3>2. CASE k = Len(open')
      BY <1>2, <1>3, <2>2, <2>3, <2>4, <3>2
    <3>3. CASE m = Len(open')
      BY <1>2, <1>3, <2>2, <2>3, <2>4, <3>3
    <3> QED BY <1>3, <3>1, <3>2, <3>3
  <2> QED BY <1>2, <2>1, <2>4 DEF OpenOK
<1>6. Loops(open') = Loops(open) \union (IF b.kind = "while" THEN {Len(open) + 1} ELSE {})
  BY <1>2, <1>3 DEF Loops
<1>7. ASSUME NEW K, NEW u PROVE IsOpen(K, u)' <=> IsOpen(K, u) \/ (b.kind \in K /\ b.uid = u)
  BY <1>2, <1>3 DEF IsOpen
<1>8. ASSUME NEW g PROVE IsOpenFunction(g)' <=> IsOpenFunction(g)
  <2>1. (open = <<>> <=> Len(open) = 0) /\ open' # <<>>
    BY <1>1, <1>2, EmptySeq
  <2>2. CASE open = <<>>
    BY <1>2, <2>1, <2>2 DEF IsOpenFunction, InFunction
  <2>3. CASE open # <<>>
    <3>1. 1 \in 1..Len(open)
      BY <1>1, <2>1, <2>3
    <3> QED BY <1>2, <1>4, <2>1, <2>3, <3>1 DEF IsOpenFunction, InFunction, CurrentFunction
  <2> QED BY <2>2, <2>3
<1> QED BY <1>5, <1>6, <1>7, <1>8 DEF BlockPushed

LEMMA TopFacts ==
  ASSUME OpenOK, open # <<>>
  PROVE  /\ open \in Seq(Blocks) /\ Len(open) \in Nat /\ Len(open) \in 1..Len(open) /\ Top \in Blocks
         /\ Top = open[Len(open)] /\ Top.uid \in Nat /\ Top.at \in Nat
         /\ Below \in Seq(Blocks) /\ Appended(open, Below, Top)
<1>1. open \in Seq(Blocks) /\ Len(open) \in Nat /\ Len(open) # 0 /\ Len(open) \in 1..Len(open)
  BY EmptySeq DEF OpenOK
<1>2. \A k \in 1..Len(open) : open[k] \in Blocks
  BY <1>1
<1>3. Top \in Blocks /\ Top.uid \in Nat /\ Top.at \in Nat
  BY <1>1, <1>2, BlockFields DEF Top
<1>4. /\ Below \in Seq(Blocks) /\ Len(Below) = Len(open) - 1
      /\ \A i \in 1..(Len(open) - 1) : Below[i] = open[i]
  <2>1. \A i \in 1..(Len(open) - 1) : open[i] \in Blocks
    BY <1>1, <1>2
  <2>2. Len(open) - 1 \in Int /\ 1 \in Int /\ Len(open) - 1 - 1 + 1 = Len(open) - 1
    BY <1>1
  <2>3. /\ SubSeq(open, 1, Len(open) - 1) \in Seq(Blocks)
        /\ Len(SubSeq(open, 1, Len(open) - 1)) = IF 1 <= Len(open) - 1 THEN Len(open) - 1 - 1 + 1 ELSE 0
        /\ \A i \in 1..(Len(open) - 1 - 1 + 1) : SubSeq(open, 1, Len(open) - 1)[i] = open[1 + i - 1]
    BY <2>1, <2>2, SubSeqProperties
  <2> QED BY <1>1, <2>2, <2>3 DEF Below
<1>5. Appended(open, Below, Top)
  BY <1>1, <1>4 DEF Appended, Top
<1> QED BY <1>1, <1>3, <1>4, <1>5 DEF Top

\* The innermost block, which is no function, is closed.
BlockPopped ==
  /\ OpenOK' /\ Len(open) \notin Loops(open')
  /\ Loops(open) = Loops(open') \union (IF Top.kind = "while" THEN {Len(open)} ELSE {})
  /\ \A K, u : IsOpen(K, u) <=> IsOpen(K, u)' \/ (Top.kind \in K /\ Top.uid = u)
  /\ \A u : u = Top.uid =>
       /\ Top.kind \in CondKinds => ~IsOpen(CondKinds, u)' /\ ~IsOpen({"if"}, u)'
       /\ Top.kind = "while" => ~IsOpen({"while"}, u)'
  /\ \A f : IsOpenFunction(f)' <=> IsOpenFunction(f)

LEMMA NotOpenNext ==
  ASSUME NEW K, NEW u, \A k \in 1..Len(open') : open'[k].kind \in K => open'[k].uid # u
  PROVE  ~IsOpen(K, u)'
BY DEF IsOpen

LEMMA PopBlock ==
  ASSUME SourceOK, OpenOK, UidsGrow, NEW kind, NEW f, Grown(kind, f),
         open # <<>>, Top.kind # "func", open' = Below
  PROVE  BlockPopped
<1>1. /\ open' \in Seq(Blocks) /\ Appended(open, open', Top) /\ open \in Seq(Blocks)
      /\ Len(open) \in Nat /\ Len(open') \in Nat
  BY TopFacts DEF Appended
<1>2. \A k \in 1..Len(open) : /\ open[k].at \in 1..Len(source) /\ open[k].at \in 1..Len(source')
                              /\ source'[open[k].at] = source[open[k].at]
  BY DEF OpenOK, Grown
<1>3. \A k \in 1..Len(open) : open[k].uid \in Nat
  BY <1>1, BlockFields
<1>4. ASSUME NEW k \in 1..Len(open')
      PROVE  /\ open'[k] = open[k] /\ k \in 1..Len(open) /\ k # Len(open)
             /\ open'[k].at \in 1..Len(source')
             /\ open'[k].kind = "func" => k = 1 /\ source'[open'[k].at].kind = "func"
             /\ open'[k].kind \in CondKinds => open'[k].uid < cond_uid'
             /\ open'[k].kind = "while" => open'[k].uid < loop_uid'
  <2>1. open'[k] = open[k] /\ k \in 1..Len(open) /\ k # Len(open)
    BY <1>1 DEF Appended
  <2>2. /\ open[k].kind = "func" => k = 1 /\ source[open[k].at].kind = "func"
        /\ open[k].kind \in CondKinds => open[k].uid < cond_uid
        /\ open[k].kind = "while" => open[k].uid < loop_uid
    BY <2>1 DEF OpenOK
  <2>3. open[k].uid \in Nat
    BY <1>3, <2>1
  <2>4. /\ open[k].uid < cond_uid => open[k].uid < cond_uid'
        /\ open[k].uid < loop_uid => open[k].uid < loop_uid'
    BY <2>3 DEF UidsGrow
  <2>5. open'[k].kind \in CondKinds => open'[k].uid < cond_uid'
    BY <2>1, <2>2, <2>4
  <2>6. open'[k].kind = "while" => open'[k].uid < loop_uid'
    BY <2>1, <2>2, <2>4
  <2> QED BY <1>2, <2>1, <2>2, <2>5, <2>6
<1>5. OpenOK'
  <2>1. ASSUME NEW k \in 1..Len(open'), NEW m \in 1..Len(open'), k # m
        PROVE  /\ open'[k].kind \in CondKinds /\ open'[m].kind \in CondKinds => open'[k].uid # open'[m].uid
               /\ open'[k].kind = "while" /\ open'[m].kind = "while" => open'[k].uid # open'[m].uid
    <3>1. open'[k] = open[k] /\ open'[m] = open[m] /\ k \in 1..Len(open) /\ m \in 1..Len(open)
      BY <1>4
    <3> QED BY <2>1, <3>1 DEF OpenOK
  <2> QED BY <1>1, <1>4, <2>1 DEF OpenOK
<1>6. Len(open) \notin Loops(open')
  BY <1>4 DEF Loops
<1>7. Loops(open) = Loops(open') \union (IF Top.kind = "while" THEN {Len(open)} ELSE {})
  BY <1>1 DEF Loops, Appended
<1>8. ASSUME NEW K, NEW u PROVE IsOpen(K, u) <=> IsOpen(K, u)' \/ (Top.kind \in K /\ Top.uid = u)
  BY <1>1 DEF IsOpen, Appended
<1>9. Len(open) \in 1..Len(open) /\ open[Len(open)] = Top
  BY <1>1 DEF Appended
<1>10. ASSUME Top.kind \in CondKinds, NEW u, u = Top.uid
       PROVE  ~IsOpen(CondKinds, u)' /\ ~IsOpen({"if"}, u)'
  <2>1. \A k \in 1..Len(open') : open'[k].kind \in CondKinds => open'[k].uid # Top.uid
    BY <1>4, <1>9, <1>10 DEF OpenOK
  <2>2. \A k \in 1..Len(open') : open'[k].kind \in {"if"} => open'[k].uid # Top.uid
    BY <2>1 DEF CondKinds
  <2> QED BY <1>10, <2>1, <2>2, NotOpenNext
<1>11. ASSUME Top.kind = "while", NEW u, u = Top.uid PROVE ~IsOpen({"while"}, u)'
  <2>1. \A k \in 1..Len(open') : open'[k].kind \in {"while"} => open'[k].uid # Top.uid
    BY <1>4, <1>9, <1>11 DEF OpenOK
  <2> QED BY <1>11, <2>1, NotOpenNext
<1>12. ASSUME NEW g PROVE IsOpenFunction(g)' <=> IsOpenFunction(g)
  <2>1. open' = <<>> <=> Len(open') = 0
    BY <1>1, EmptySeq
  <2>2. CASE open' = <<>>
    <3>1. Len(open) = 1
      BY <1>1, <2>1, <2>2 DEF Appended
    <3> QED BY <1>9, <2>2, <3>1 DEF IsOpenFunction, InFunction
  <2>3. CASE open' # <<>>
    <3>1. 1 \in 1..Len(open')
      BY <1>1, <2>1, <2>3
    <3>2. open'[1] = open[1] /\ source'[open[1].at] = source[open[1].at]
      BY <1>2, <1>4, <3>1
    <3> QED BY <2>3, <3>2 DEF IsOpenFunction, InFunction, CurrentFunction
  <2> QED BY <2>2, <2>3
<1> QED BY <1>5, <1>6, <1>7, <1>8, <1>10, <1>11, <1>12 DEF BlockPopped

\* The innermost block goes from the if body to the else body.
BlockTurned ==
  /\ OpenOK' /\ Loops(open') = Loops(open)
  /\ \A u : IsOpen({"if"}, u)' <=> IsOpen({"if"}, u) /\ u # Top.uid
  /\ \A u : IsOpen(CondKinds, u)' <=> IsOpen(CondKinds, u)
  /\ \A u : IsOpen({"while"}, u)' <=> IsOpen({"while"}, u)
  /\ \A f : IsOpenFunction(f)' <=> IsOpenFunction(f)

LEMMA TurnBlock ==
  ASSUME SourceOK, OpenOK, UidsGrow, NEW kind, NEW f, Grown(kind, f),
         TopIs("if"), open' = Append(Below, [Top EXCEPT !.kind = "else", !.declared = {}])
  PROVE  BlockTurned
<1> DEFINE b == [Top EXCEPT !.kind = "else", !.declared = {}]
<1>1. /\ open \in Seq(Blocks) /\ Len(open) \in Nat /\ Top \in Blocks /\ Top.kind = "if"
      /\ Below \in Seq(Blocks) /\ Appended(open, Below, Top)
  BY TopFacts DEF TopIs
<1>2. b \in Blocks /\ b.kind = "else" /\ b.uid = Top.uid /\ b.at = Top.at
  BY <1>1 DEF Blocks
<1>3. open' = Append(Below, b)
  OBVIOUS
<1> HIDE DEF b
<1>4. open' \in Seq(Blocks) /\ Appended(open', Below, b)
  BY <1>1, <1>2, <1>3, AppendFacts
<1>5. /\ Len(open') = Len(open) /\ Len(open) \in 1..Len(open)
      /\ open[Len(open)] = Top /\ open'[Len(open)] = b
  BY <1>1, <1>4 DEF Appended
<1>6. \A k \in 1..Len(open) : k # Len(open) => open'[k] = open[k]
  BY <1>1, <1>4, <1>5 DEF Appended
<1>7. \A k \in 1..Len(open) : open'[k].uid = open[k].uid /\ open'[k].at = open[k].at
  BY <1>2, <1>5, <1>6
<1>8. \A k \in 1..Len(open) :
        /\ open'[k].kind \in CondKinds <=> open[k].kind \in CondKinds
        /\ open'[k].kind = "func" <=> open[k].kind = "func"
        /\ open'[k].kind = "while" <=> open[k].kind = "while"
        /\ open'[k].kind = "if" <=> open[k].kind = "if" /\ k # Len(open)
  BY <1>1, <1>2, <1>5, <1>6 DEF CondKinds
<1>9. \A k \in 1..Len(open) : /\ open[k].at \in 1..Len(source) /\ open[k].at \in 1..Len(source')
                              /\ source'[open[k].at] = source[open[k].at]
  BY DEF OpenOK, Grown
<1>10. \A k \in 1..Len(open) : open[k].uid \in Nat
  BY <1>1, BlockFields
<1>11. OpenOK'
  <2>1. ASSUME NEW k \in 1..Len(open')
        PROVE  /\ open'[k].at \in 1..Len(source')
               /\ open'[k].kind = "func" => k = 1 /\ source'[open'[k].at].kind = "func"
               /\ open'[k].kind \in CondKinds => open'[k].uid < cond_uid'
               /\ open'[k].kind = "while" => open'[k].uid < loop_uid'
    <3>1. k \in 1..Len(open) /\ open[k].uid \in Nat
      BY <1>5, <1>10
    <3>2. /\ open[k].kind = "func" => k = 1 /\ source[open[k].at].kind = "func"
          /\ open[k].kind \in CondKinds => open[k].uid < cond_uid
          /\ open[k].kind = "while" => open[k].uid < loop_uid
      BY <3>1 DEF OpenOK
    <3>3. /\ open'[k].uid = open[k].uid /\ open'[k].at = open[k].at
          /\ open[k].at \in 1..Len(source') /\ source'[open[k].at] = source[open[k].at]
      BY <1>7, <1>9, <3>1
    <3>4. /\ open'[k].kind \in CondKinds <=> open[k].kind \in CondKinds
          /\ open'[k].kind = "func" <=> open[k].kind = "func"
          /\ open'[k].kind = "while" <=> open[k].kind = "while"
      BY <1>8, <3>1
    <3>5. open'[k].kind = "func" => k = 1 /\ source'[open'[k].at].kind = "func"
      BY <3>2, <3>3, <3>4
    <3>6. open'[k].kind \in CondKinds => open'[k].uid < cond_uid'
      BY <3>1, <3>2, <3>3, <3>4 DEF UidsGrow
    <3>7. open'[k].kind = "while" => open'[k].uid < loop_uid'
      BY <3>1, <3>2, <3>3, <3>4 DEF UidsGrow
    <3> QED BY <3>3, <3>5, <3>6, <3>7
  <2>2. ASSUME NEW k \in 1..Len(open'), NEW m \in 1..Len(open'), k # m
        PROVE  /\ open'[k].kind \in CondKinds /\ open'[m].kind \in CondKinds => open'[k].uid # open'[m].uid
               /\ open'[k].kind = "while" /\ open'[m].kind = "while" => open'[k].uid # open'[m].uid
    <3>1. k \in 1..Len(open) /\ m \in 1..Len(open)
      BY <1>5
    <3>2. /\ open[k].kind \in CondKinds /\ open[m].kind \in CondKinds => open[k].uid # open[m].uid
          /\ open[k].kind = "while" /\ open[m].kind = "while" => open[k].uid # open[m].uid
      BY <2>2, <3>1 DEF OpenOK
    <3> QED BY <1>7, <1>8, <3>1, <3>2
  <2> QED BY <1>4, <2>1, <2>2 DEF OpenOK
<1>12. Loops(open') = Loops(open)
  BY <1>5, <1>8 DEF Loops
<1>13. \A k \in 1..Len(open) : open[k].kind = "if" /\ k # Len(open) => open[k].uid # Top.uid
  <2>1. Top.kind \in CondKinds /\ "if" \in CondKinds
    BY <1>1 DEF CondKinds
  <2> QED BY <1>5, <2>1 DEF OpenOK
<1>14. ASSUME NEW u
       PROVE  /\ IsOpen({"if"}, u)' <=> IsOpen({"if"}, u) /\ u # Top.uid
              /\ IsOpen(CondKinds, u)' <=> IsOpen(CondKinds, u)
              /\ IsOpen({"while"}, u)' <=> IsOpen({"while"}, u)
  <2>1. IsOpen({"if"}, u)' <=> IsOpen({"if"}, u) /\ u # Top.uid
    BY <1>5, <1>7, <1>8, <1>13 DEF IsOpen
  <2>2. IsOpen(CondKinds, u)' <=> IsOpen(CondKinds, u)
    BY <1>5, <1>7, <1>8 DEF IsOpen
  <2>3. IsOpen({"while"}, u)' <=> IsOpen({"while"}, u)
    BY <1>5, <1>7, <1>8 DEF IsOpen
  <2> QED BY <2>1, <2>2, <2>3
<1>15. ASSUME NEW g PROVE IsOpenFunction(g)' <=> IsOpenFunction(g)
  <2>1. 1 \in 1..Len(open) /\ open # <<>> /\ open' # <<>>
    BY <1>1, <1>4, <1>5, EmptySeq
  <2>2. open'[1].at = open[1].at /\ (open'[1].kind = "func" <=> open[1].kind = "func")
        /\ source'[open[1].at] = source[open[1].at]
    BY <1>7, <1>8, <1>9, <2>1
  <2> QED BY <2>1, <2>2 DEF IsOpenFunction, InFunction, CurrentFunction
<1> QED BY <1>11, <1>12, <1>14, <1>15 DEF BlockTurned

-----------------------------------------------------------------------------
(* What a step of the parser keeps.                                        *)

LEMMA LabelEq ==
  ASSUME NEW a, NEW u, NEW b, NEW v
  PROVE  Label(a, u) = Label(b, v) <=> a = b /\ u = v
BY DEF Label

\* A step of the parser that prints code with the labels L and jumps to J.
ParseStep(kind, f, L, J) ==
  /\ Grown(kind, f) /\ UidsGrow /\ Emitted(Len(source'), L, J)
  /\ unique_id' \in Nat /\ globals' \subseteq Variables
  /\ phase = "parse" /\ UNCHANGED machineVars

\* What the properties exclude does not become undone.
Lasting == (NameClash => NameClash') /\ (ArgumentInLoop => ArgumentInLoop')

\* The part of the invariant that is not about blocks.
Apart(p) ==
  /\ SourceOK' /\ CodeOK'
  /\ cond_uid' \in Nat /\ loop_uid' \in Nat /\ unique_id' \in Nat /\ globals' \subseteq Variables
  /\ MachineOK' /\ (p = "parse" => PhaseOK')
  /\ NameClash => NameClash'
  /\ ArgumentInLoop => ArgumentInLoop'

LEMMA GrownDefined ==
  ASSUME NEW kind, NEW f, Grown(kind, f)
  PROVE  /\ Known \subseteq Known' /\ Called \subseteq Called'
         /\ kind # "func" => Known' = Known
         /\ kind = "func" => Known' = Known \union {f}
         /\ kind # "func" => Defined' = Defined
         /\ kind = "func" => Defined' = Defined \union {f}
         /\ Defined \subseteq Defined'
         /\ kind = "call" => Called' = Called \union {f}
         /\ Len(source') \in Nat /\ Len(source) \in Nat /\ Len(source) <= Len(source')
         /\ Here = Len(source') /\ Here \in 0..Len(source') /\ Here \in Nat
BY DEF Grown, Known

LEMMA StepApart ==
  ASSUME LabelInv, NEW kind, NEW f, NEW L, NEW J, ParseStep(kind, f, L, J),
         phase' \in {"parse", "load"}
  PROVE  Apart(phase')
<1>1. /\ Grown(kind, f) /\ UidsGrow /\ Emitted(Len(source'), L, J)
      /\ unique_id' \in Nat /\ globals' \subseteq Variables
      /\ phase = "parse" /\ UNCHANGED machineVars
  BY DEF ParseStep
<1>2. SourceOK'
  BY <1>1 DEF Grown
<1>3. CodeOK'
  BY <1>1 DEF Emitted, CodeOK
<1>4. cond_uid' \in Nat /\ loop_uid' \in Nat
  BY <1>1 DEF UidsGrow
<1>5. MachineOK'
  <2>1. /\ ip' = ip /\ tf' = tf /\ calls' = calls /\ position' = position
    BY <1>1 DEF machineVars
  <2>2. MachineOK /\ calls = <<>> /\ ip = 1
    BY <1>1 DEF LabelInv, MachineOK
  <2>3. Len(out') \in Nat
    BY <1>1 DEF Emitted
  <2>4. <<>> \in Seq(2..(Len(out') + 1)) /\ 1 \in 1..(Len(out') + 1)
    BY <2>3
  <2>5. Len(tf) <= 1 /\ Len(calls) <= MaxCalls /\ position \in [at : 0..Len(source), entered : BOOLEAN]
    BY <2>2 DEF MachineOK
  <2>6. position \in [at : 0..Len(source'), entered : BOOLEAN]
    <3>1. 0..Len(source) \subseteq 0..Len(source')
      BY <1>1, GrownDefined
    <3> QED BY <2>5, <3>1
  <2> QED BY <2>1, <2>2, <2>4, <2>5, <2>6 DEF MachineOK
<1>6. phase' = "parse" => PhaseOK'
  BY DEF PhaseOK
<1>7. NameClash => NameClash'
  <2>1. Known \subseteq Known'
    BY <1>1, GrownDefined
  <2>2. ASSUME NEW g \in Known, EndName[g] \in Known PROVE NameClash'
    <3>1. g \in Known' /\ EndName[g] \in Known'
      BY <2>1, <2>2
    <3> QED BY <3>1 DEF NameClash
  <2> QED BY <2>2 DEF NameClash
<1>8. ASSUME ArgumentInLoop PROVE ArgumentInLoop'
  <2>1. PICK i \in 2..Len(out) : out[i].op = "DEFVAR" /\ out[i].arg = Slot("TF")
                                  /\ out[i - 1].op # "CREATEFRAME"
    BY <1>8 DEF ArgumentInLoop
  <2>2. i \in 2..Len(out') /\ i \in 1..Len(out) /\ i - 1 \in 1..Len(out)
    BY <1>1 DEF Emitted
  <2>3. out'[i] = out[i] /\ out'[i - 1] = out[i - 1]
    BY <1>1, <2>2 DEF Emitted
  <2> QED BY <2>1, <2>2, <2>3 DEF ArgumentInLoop
<1> QED BY <1>1, <1>2, <1>3, <1>4, <1>5, <1>6, <1>7, <1>8 DEF Apart

\* Printing for the program as it is with the step.
LEMMA CodeGrows ==
  ASSUME LabelInv, NEW kind, NEW f, Grown(kind, f)
  PROVE  /\ out \in Seq(Instrs(Len(source'))) /\ print_buffer \in Seq(Instrs(Len(source')))
         /\ Len(source') \in Nat
<1>1. out \in Seq(Instrs(Len(source))) /\ print_buffer \in Seq(Instrs(Len(source)))
  BY DEF LabelInv, CodeOK
<1>2. Len(source') \in Nat /\ Len(source) \in Nat /\ Len(source) <= Len(source')
  BY GrownDefined
<1> QED BY <1>1, <1>2, InstrsGrow

LEMMA Printing ==
  ASSUME LabelInv, NEW kind, NEW f, Grown(kind, f), NEW code, NEW loops, NEW L, NEW J,
         Chunk(code, Len(source'), L, J), Emit(code, loops)
  PROVE  /\ Emitted(Len(source'), L, J) /\ for_open' = loops
         /\ loops = 0 => out' = out \o code /\ print_buffer' = print_buffer
<1>1. out \in Seq(Instrs(Len(source'))) /\ print_buffer \in Seq(Instrs(Len(source')))
  BY CodeGrows
<1> QED BY <1>1, EmitCode

LEMMA ParseMeans ==
  ASSUME Parse
  PROVE  phase = "parse" /\ phase' = "parse" /\ UNCHANGED machineVars
BY DEF Parse, Statement

\* The labels of ifs, if the step prints none of them.
LEMMA CondsKept ==
  ASSUME CondLabels, NEW L, AllLabels' = AllLabels \union L, cond_uid' = cond_uid,
         \A u \in Nat : Label("ELSE", u) \notin L /\ Label("IF_END", u) \notin L,
         \A u \in Nat : (IsOpen({"if"}, u)' <=> IsOpen({"if"}, u))
                          /\ (IsOpen(CondKinds, u)' <=> IsOpen(CondKinds, u))
  PROVE  CondLabels'
BY DEF CondLabels

LEMMA LoopsKept ==
  ASSUME LoopLabels, NEW L, AllLabels' = AllLabels \union L, loop_uid' = loop_uid,
         \A u \in Nat : Label("FOR", u) \notin L /\ Label("FOR_BODY", u) \notin L
                          /\ Label("FOR_END", u) \notin L,
         \A u \in Nat : IsOpen({"while"}, u)' <=> IsOpen({"while"}, u)
  PROVE  LoopLabels'
BY DEF LoopLabels

LEMMA FunctionsKept ==
  ASSUME FunctionLabels, FunctionsOK, NEW L, NEW J, NEW n, Emitted(n, L, J), Known' = Known,
         \A x : Label("FUNCTION", x) \notin L,
         \A f : IsOpenFunction(f)' <=> IsOpenFunction(f)
  PROVE  FunctionLabels' /\ FunctionsOK'
<1>1. FunctionLabels'
  <2>1. AllLabels' = AllLabels \union L
    BY DEF Emitted
  <2> QED BY <2>1 DEF FunctionLabels
<1>2. ASSUME NEW l, NEW op, Behind(l, op) PROVE Behind(l, op)'
  <2>1. PICK i \in 2..Len(out) : out[i].op = "LABEL" /\ out[i].arg = l /\ out[i - 1].op = op
    BY <1>2 DEF Behind
  <2>2. /\ i \in 2..Len(out') /\ i \in 1..Len(out) /\ i - 1 \in 1..Len(out)
    BY <2>1 DEF Emitted
  <2>3. out'[i] = out[i] /\ out'[i - 1] = out[i - 1]
    BY <2>2 DEF Emitted
  <2> QED BY <2>1, <2>2, <2>3 DEF Behind
<1>3. FunctionsOK'
  BY <1>2 DEF FunctionsOK
<1> QED BY <1>1, <1>3

LEMMA TargetsKept ==
  ASSUME NEW l, IsTarget(l), UidsGrow, Known \subseteq Known', Called \subseteq Called'
  PROVE  IsTarget(l)'
<1>1. ASSUME NEW u \in Nat PROVE (u < cond_uid => u < cond_uid') /\ (u < loop_uid => u < loop_uid')
  BY DEF UidsGrow
<1> QED BY <1>1 DEF IsTarget

LEMMA GotosKept ==
  ASSUME GotosOK, NEW kind, NEW f, Grown(kind, f), UidsGrow, NEW n, NEW L, NEW J, Emitted(n, L, J),
         \A l \in J : IsTarget(l)'
  PROVE  GotosOK'
<1>1. AllGotos' = AllGotos \union J /\ Known \subseteq Known' /\ Called \subseteq Called'
  BY GrownDefined DEF Emitted
<1>2. ASSUME NEW l \in AllGotos PROVE IsTarget(l)'
  BY <1>1, TargetsKept DEF GotosOK
<1> QED BY <1>1, <1>2 DEF GotosOK

LEMMA CountKept ==
  ASSUME CountOK, Loops(open') = Loops(open), for_open' = for_open,
         for_open = 0 => print_buffer' = print_buffer
  PROVE  CountOK'
BY DEF CountOK, Loops

LEMMA LoopsFinite ==
  ASSUME OpenOK
  PROVE  IsFiniteSet(Loops(open)) /\ Cardinality(Loops(open)) \in Nat
<1>1. Len(open) \in Nat
  BY DEF OpenOK
<1>2. IsFiniteSet(1..Len(open)) /\ Loops(open) \subseteq 1..Len(open)
  BY <1>1, FS_Interval DEF Loops
<1>3. IsFiniteSet(Loops(open))
  BY <1>2, FS_Subset
<1> QED BY <1>3, FS_CardinalityType

LEMMA EofKept ==
  ASSUME EofLabel, NEW n, NEW L, NEW J, Emitted(n, L, J), Label("EOF", 0) \notin L,
         phase = "parse", phase' = "parse"
  PROVE  EofLabel'
BY DEF EofLabel, Emitted

LEMMA DistinctKept ==
  ASSUME ~NameClash => Distinct, NameClash => NameClash', NEW n, NEW L, NEW J, Emitted(n, L, J),
         ~NameClash' => L \intersect AllLabels = {}
  PROVE  ~NameClash' => Distinct'
BY DEF Emitted

\* The invariant, from its parts.
LEMMA FromParts ==
  ASSUME NEW p, p = phase', Apart(p), p = "parse", OpenOK', CountOK', CondLabels', LoopLabels', FunctionLabels',
         EofLabel', GotosOK', ~NameClash' => Distinct', FunctionsOK'
  PROVE  LabelInv' /\ Lasting
BY DEF LabelInv, Apart, Lasting

\* A statement that prints no label.
LEMMA QuietStep ==
  ASSUME LabelInv, NEW kind, NEW f, NEW L, NEW J, L = {}, ParseStep(kind, f, L, J), kind # "func",
         phase' = "parse", BlocksKept, cond_uid' = cond_uid, loop_uid' = loop_uid,
         for_open' = for_open, for_open = 0 => print_buffer' = print_buffer,
         \A l \in J : IsTarget(l)'
  PROVE  LabelInv' /\ Lasting
<1>1. /\ Grown(kind, f) /\ UidsGrow /\ Emitted(Len(source'), L, J) /\ phase = "parse"
      /\ AllLabels' = AllLabels \union L
  BY DEF ParseStep, Emitted
<1>2. /\ CountOK /\ CondLabels /\ LoopLabels /\ FunctionLabels /\ EofLabel /\ GotosOK
      /\ ~NameClash => Distinct
      /\ FunctionsOK
  BY DEF LabelInv
<1>3. Apart(phase') /\ (NameClash => NameClash')
  BY StepApart DEF Apart
<1>4. /\ OpenOK' /\ Loops(open') = Loops(open)
      /\ \A K, u : IsOpen(K, u)' <=> IsOpen(K, u)
      /\ \A g : IsOpenFunction(g)' <=> IsOpenFunction(g)
  BY DEF BlocksKept
<1>5. CondLabels' /\ LoopLabels'
  <2>1. \A x : x \notin L
    OBVIOUS
  <2>2. CondLabels'
    BY <1>1, <1>2, <1>4, <2>1, CondsKept
  <2>3. LoopLabels'
    BY <1>1, <1>2, <1>4, <2>1, LoopsKept
  <2> QED BY <2>2, <2>3
<1>6. Known' = Known
  BY <1>1, GrownDefined
<1>7. FunctionLabels' /\ FunctionsOK'
  BY <1>1, <1>2, <1>4, <1>6, FunctionsKept
<1>8. EofLabel' /\ GotosOK' /\ (~NameClash' => Distinct') /\ CountOK'
  BY <1>1, <1>2, <1>3, <1>4, EofKept, GotosKept, DistinctKept, CountKept
<1> QED BY <1>3, <1>4, <1>5, <1>7, <1>8, FromParts

LEMMA PlainStep ==
  ASSUME LabelInv, NEW kind, NEW f, ParseStep(kind, f, {}, {}), kind # "func",
         phase' = "parse", BlocksKept, cond_uid' = cond_uid, loop_uid' = loop_uid,
         for_open' = for_open, for_open = 0 => print_buffer' = print_buffer
  PROVE  LabelInv' /\ Lasting
<1> DEFINE N == {}
<1>1. ParseStep(kind, f, N, N) /\ N = {} /\ \A l \in N : IsTarget(l)'
  OBVIOUS
<1> HIDE DEF N
<1> QED BY <1>1, QuietStep

\* The code of an expression and of its operators ??.
NilLabels(nils) == IF nils = 0 THEN {} ELSE {Label("ELSE", cond_uid), Label("IF_END", cond_uid)}

LEMMA ExprCode ==
  ASSUME NEW n \in Nat, Here \in 0..n, cond_uid \in Nat, NEW nils
  PROVE  Chunk(expr(nils), n, NilLabels(nils), NilLabels(nils))
<1> DEFINE a == <<InstrAt("EVAL", "none", Here)>>
           c == IF nils = 0 THEN <<>> ELSE code_generator_nil_check(cond_uid)
<1>1. "EVAL" \in Ops \ (GotoOps \union {"LABEL"}) /\ "none" \in Arguments
  BY DEF Ops, GotoOps, Arguments
<1>2. Chunk(a, n, {}, {})
  BY <1>1, PlainAt, PlainOne
<1>3. Chunk(c, n, NilLabels(nils), NilLabels(nils))
  BY NilCheckCode, ChunkEmpty DEF NilLabels
<1>4. expr(nils) = a \o c
  BY DEF expr
<1> HIDE DEF a, c
<1>5. Chunk(a \o c, n, NilLabels(nils), NilLabels(nils))
  BY <1>2, <1>3, PlainConcat
<1> QED BY <1>4, <1>5

\* Nothing about the numbers or the blocks changes.
LEMMA SameBlocks ==
  ASSUME LabelInv, NEW kind, NEW f, Grown(kind, f), open' = open,
         cond_uid' = cond_uid, loop_uid' = loop_uid
  PROVE  BlocksKept /\ UidsGrow
<1>1. UidsGrow /\ SourceOK /\ OpenOK /\ open' \in Seq(Blocks)
  BY DEF LabelInv, UidsGrow, OpenOK
<1> QED BY <1>1, KeepBlocks

\* Variables that are visible are variables.
LEMMA VisibleAre ==
  ASSUME LabelInv
  PROVE  Visible \subseteq Variables
<1>1. globals \subseteq Variables /\ \A k \in 1..Len(open) : open[k].declared \in SUBSET Variables
  <2>1. open \in Seq(Blocks) /\ globals \subseteq Variables
    BY DEF LabelInv, OpenOK
  <2>2. \A k \in 1..Len(open) : open[k] \in Blocks
    BY <2>1
  <2> QED BY <2>1, <2>2, BlockFields
<1> QED BY <1>1 DEF Visible

LEMMA AssignStep ==
  ASSUME LabelInv, NEW var \in Visible, assign(var)
  PROVE  LabelInv' /\ Lasting
<1> DEFINE code == expr(0) \o <<Instr("USE", var)>>
<1>1. /\ Parse /\ Emit(code, for_open) /\ Add("stmt", "none", 0)
      /\ UNCHANGED <<open, globals, cond_uid, loop_uid, unique_id>>
  BY DEF assign
<1>2. phase = "parse" /\ phase' = "parse" /\ UNCHANGED machineVars
  BY <1>1, ParseMeans
<1>3. SourceOK /\ cond_uid \in Nat /\ unique_id \in Nat /\ globals \subseteq Variables
  BY DEF LabelInv
<1>4. Grown("stmt", "none")
  BY <1>1, <1>3, SourceGrows DEF Kinds
<1>5. Len(source') \in Nat /\ Here \in 0..Len(source')
  BY <1>4, GrownDefined
<1>6. Chunk(code, Len(source'), {}, {})
  <2>1. Chunk(expr(0), Len(source'), {}, {})
    BY <1>3, <1>5, ExprCode DEF NilLabels
  <2>2. Chunk(<<Instr("USE", var)>>, Len(source'), {}, {})
    BY <1>5, VisibleAre, VariableCode
  <2> QED BY <2>1, <2>2, PlainConcat
<1> HIDE DEF code
<1>7. /\ Emitted(Len(source'), {}, {}) /\ for_open' = for_open
      /\ for_open = 0 => print_buffer' = print_buffer
  BY <1>1, <1>4, <1>6, Printing
<1>8. BlocksKept /\ UidsGrow
  BY <1>1, <1>4, SameBlocks
<1>9. ParseStep("stmt", "none", {}, {})
  BY <1>1, <1>2, <1>3, <1>4, <1>7, <1>8 DEF ParseStep
<1> QED BY <1>1, <1>2, <1>7, <1>8, <1>9, PlainStep

LEMMA CallStep ==
  ASSUME LabelInv, NEW f \in Functions, call(f)
  PROVE  LabelInv' /\ Lasting
<1> DEFINE code == code_generator_function_call(f, Here)
           J == {Label("FUNCTION", f)}
<1>1. /\ Parse /\ Emit(code, for_open) /\ Add("call", f, 0)
      /\ UNCHANGED <<open, globals, cond_uid, loop_uid, unique_id>>
  BY DEF call
<1>2. phase = "parse" /\ phase' = "parse" /\ UNCHANGED machineVars
  BY <1>1, ParseMeans
<1>3. SourceOK /\ cond_uid \in Nat /\ unique_id \in Nat /\ globals \subseteq Variables
  BY DEF LabelInv
<1>4. Grown("call", f)
  BY <1>1, <1>3, SourceGrows DEF Kinds
<1>5. Len(source') \in Nat /\ Here \in 0..Len(source') /\ Called' = Called \union {f}
  BY <1>4, GrownDefined
<1>6. Chunk(code, Len(source'), {}, J)
  BY <1>5, LabelsAre, FunctionCode
<1>7. \A l \in J : IsTarget(l)'
  BY <1>5 DEF IsTarget
<1> HIDE DEF code, J
<1>8. /\ Emitted(Len(source'), {}, J) /\ for_open' = for_open
      /\ for_open = 0 => print_buffer' = print_buffer
  BY <1>1, <1>4, <1>6, Printing
<1>9. BlocksKept /\ UidsGrow
  BY <1>1, <1>4, SameBlocks
<1>10. ParseStep("call", f, {}, J)
  BY <1>1, <1>2, <1>3, <1>4, <1>8, <1>9 DEF ParseStep
<1> QED BY <1>1, <1>2, <1>7, <1>8, <1>9, <1>10, QuietStep

LEMMA ReturnStep ==
  ASSUME LabelInv, return
  PROVE  LabelInv' /\ Lasting
<1> DEFINE code == code_generator_return(Here)
<1>1. /\ Parse /\ InFunction /\ Emit(code, for_open) /\ Add("return", "none", 0)
      /\ UNCHANGED <<open, globals, cond_uid, loop_uid, unique_id>>
  BY DEF return
<1>2. phase = "parse" /\ phase' = "parse" /\ UNCHANGED machineVars
  BY <1>1, ParseMeans
<1>3. SourceOK /\ cond_uid \in Nat /\ unique_id \in Nat /\ globals \subseteq Variables
  BY DEF LabelInv
<1>4. Grown("return", "none")
  BY <1>1, <1>3, SourceGrows DEF Kinds
<1>5. Len(source') \in Nat /\ Here \in 0..Len(source')
  BY <1>4, GrownDefined
<1>6. Chunk(code, Len(source'), {}, {})
  <2>1. PICK g : g \in Functions
    <3>1. open[1].at \in 1..Len(source) /\ source[open[1].at].kind = "func"
      <4>1. open # <<>> /\ open[1].kind = "func" /\ OpenOK
        BY <1>1 DEF InFunction, LabelInv
      <4>2. 1 \in 1..Len(open)
        BY <4>1, EmptySeq DEF OpenOK
      <4> QED BY <4>1, <4>2 DEF OpenOK
    <3> QED BY <1>3, <3>1 DEF SourceOK
  <2> QED BY <1>5, <2>1, LabelsAre, FunctionCode
<1> HIDE DEF code
<1>7. /\ Emitted(Len(source'), {}, {}) /\ for_open' = for_open
      /\ for_open = 0 => print_buffer' = print_buffer
  BY <1>1, <1>4, <1>6, Printing
<1>8. BlocksKept /\ UidsGrow
  BY <1>1, <1>4, SameBlocks
<1>9. ParseStep("return", "none", {}, {})
  BY <1>1, <1>2, <1>3, <1>4, <1>7, <1>8 DEF ParseStep
<1> QED BY <1>1, <1>2, <1>7, <1>8, <1>9, PlainStep

\* The variable that is being defined is one.
LEMMA NewVarIs ==
  ASSUME unique_id \in Nat
  PROVE  NewVar \in Variables /\ Var("LF", "var", unique_id) \in Variables
BY VarsAre DEF NewVar

LEMMA DefineStep ==
  ASSUME LabelInv
  PROVE  define => LabelInv' /\ Lasting
<1> DEFINE code == expr(0) \o code_generator_var_declare(NewVar)
           numbers == unique_id' = unique_id + 1 /\ cond_uid' = cond_uid /\ loop_uid' = loop_uid
           blocks == /\ open = <<>> => globals' = globals \union {NewVar} /\ open' = open
                     /\ open # <<>> => open' = Declared(NewVar) /\ globals' = globals
<1>0. define => Parse /\ Emit(code, for_open) /\ Add("stmt", "none", 0) /\ numbers /\ blocks
  BY DEF define
<1> HIDE DEF numbers, blocks
<1> SUFFICES ASSUME Parse, Emit(code, for_open), Add("stmt", "none", 0), numbers, blocks
             PROVE  LabelInv' /\ Lasting
  BY <1>0, Zenon
<1>1. unique_id' = unique_id + 1 /\ cond_uid' = cond_uid /\ loop_uid' = loop_uid
  BY DEF numbers
<1>2. phase = "parse" /\ phase' = "parse" /\ UNCHANGED machineVars
  BY <1>1, ParseMeans
<1>3. SourceOK /\ OpenOK /\ cond_uid \in Nat /\ loop_uid \in Nat /\ unique_id \in Nat
        /\ globals \subseteq Variables
  BY DEF LabelInv
<1>4. Grown("stmt", "none")
  BY <1>1, <1>3, SourceGrows DEF Kinds
<1>5. Len(source') \in Nat /\ Here \in 0..Len(source') /\ NewVar \in Variables
  BY <1>3, <1>4, GrownDefined, NewVarIs
<1>6. Chunk(code, Len(source'), {}, {})
  <2>1. Chunk(expr(0), Len(source'), {}, {})
    BY <1>3, <1>5, ExprCode DEF NilLabels
  <2>2. Chunk(code_generator_var_declare(NewVar), Len(source'), {}, {})
    BY <1>5, VariableCode
  <2> QED BY <2>1, <2>2, PlainConcat
<1> HIDE DEF code
<1>7. /\ Emitted(Len(source'), {}, {}) /\ for_open' = for_open
      /\ for_open = 0 => print_buffer' = print_buffer
  BY <1>1, <1>4, <1>6, Printing
<1>8. UidsGrow
  BY <1>1, <1>3 DEF UidsGrow
<1>9. BlocksKept
  <2>1. CASE open = <<>>
    BY <1>1, <1>4, <2>1, SameBlocks DEF blocks
  <2>2. CASE open # <<>>
    <3> DEFINE m == Len(open)
               b == [open[m] EXCEPT !.declared = @ \union {NewVar}]
    <3>1. open \in Seq(Blocks) /\ m \in 1..Len(open) /\ open[m] \in Blocks /\ m \in Nat
      BY <1>3, <2>2, TopFacts
    <3>2. b \in Blocks /\ b.kind = open[m].kind /\ b.uid = open[m].uid /\ b.at = open[m].at
      BY <1>5, <3>1 DEF Blocks
    <3>3. open' = [open EXCEPT ![m] = b]
      BY <2>2 DEF Declared, blocks
    <3> HIDE DEF m, b
    <3>4. /\ open' \in Seq(Blocks) /\ Len(open') = Len(open)
          /\ open'[m] = b /\ \A k \in 1..Len(open) : k # m => open'[k] = open[k]
      <4>1. /\ [open EXCEPT ![m] = b] \in Seq(Blocks) /\ Len([open EXCEPT ![m] = b]) = Len(open)
            /\ \A k \in 1..Len(open) : [open EXCEPT ![m] = b][k] = IF k = m THEN b ELSE open[k]
        BY <3>1, <3>2, ExceptSeq
      <4> QED BY <3>1, <3>3, <4>1
    <3>5. \A k \in 1..Len(open) : open'[k].kind = open[k].kind /\ open'[k].uid = open[k].uid
                                   /\ open'[k].at = open[k].at
      BY <3>2, <3>4
    <3> QED BY <1>3, <1>4, <1>8, <3>4, <3>5, KeepBlocks
  <2> QED BY <2>1, <2>2
<1>10. unique_id' \in Nat /\ globals' \subseteq Variables
  <2>1. globals' \subseteq globals \union {NewVar}
    BY DEF blocks
  <2> QED BY <1>1, <1>3, <1>5, <2>1
<1>11. ParseStep("stmt", "none", {}, {})
  BY <1>2, <1>4, <1>7, <1>8, <1>10 DEF ParseStep
<1> QED BY <1>1, <1>2, <1>7, <1>9, <1>11, PlainStep

-----------------------------------------------------------------------------
(* The steps that open and close blocks.                                   *)

LEMMA OpenBelow ==
  ASSUME OpenOK, NEW u
  PROVE  /\ IsOpen({"if"}, u) => IsOpen(CondKinds, u)
         /\ IsOpen(CondKinds, u) => u \in Nat /\ u < cond_uid
         /\ IsOpen({"while"}, u) => u \in Nat /\ u < loop_uid
<1>1. open \in Seq(Blocks)
  BY DEF OpenOK
<1>2. \A k \in 1..Len(open) : open[k].uid \in Nat
  BY <1>1, BlockFields
<1>3. /\ \A k \in 1..Len(open) : open[k].kind \in CondKinds => open[k].uid < cond_uid
      /\ \A k \in 1..Len(open) : open[k].kind = "while" => open[k].uid < loop_uid
  BY DEF OpenOK
<1> QED BY <1>2, <1>3 DEF IsOpen, CondKinds

\* An expression has nils operators ??, and then an if may be opened.
LEMMA CondsGrow ==
  ASSUME CondLabels, OpenOK, cond_uid \in Nat, NEW nils \in 0..1, NEW extra \in 0..1,
         cond_uid' = cond_uid + nils + extra,
         \A u \in Nat :
           /\ Label("ELSE", u) \in AllLabels' <=> Label("ELSE", u) \in AllLabels \/ (nils = 1 /\ u = cond_uid)
           /\ Label("IF_END", u) \in AllLabels' <=> Label("IF_END", u) \in AllLabels \/ (nils = 1 /\ u = cond_uid)
           /\ IsOpen({"if"}, u)' <=> IsOpen({"if"}, u) \/ (extra = 1 /\ u = cond_uid + nils)
           /\ IsOpen(CondKinds, u)' <=> IsOpen(CondKinds, u) \/ (extra = 1 /\ u = cond_uid + nils)
  PROVE  CondLabels'
<1>1. ASSUME NEW u \in Nat
      PROVE  /\ Label("ELSE", u) \in AllLabels' <=> u < cond_uid' /\ ~IsOpen({"if"}, u)'
             /\ Label("IF_END", u) \in AllLabels' <=> u < cond_uid' /\ ~IsOpen(CondKinds, u)'
  <2>1. /\ Label("ELSE", u) \in AllLabels <=> u < cond_uid /\ ~IsOpen({"if"}, u)
        /\ Label("IF_END", u) \in AllLabels <=> u < cond_uid /\ ~IsOpen(CondKinds, u)
    BY DEF CondLabels
  <2>2. /\ IsOpen({"if"}, u) => u < cond_uid
        /\ IsOpen(CondKinds, u) => u < cond_uid
    BY OpenBelow
  <2> QED BY <2>1, <2>2
<1> QED BY <1>1 DEF CondLabels

LEMMA LoopsGrow ==
  ASSUME LoopLabels, OpenOK, loop_uid \in Nat, loop_uid' = loop_uid + 1,
         \A u \in Nat :
           /\ Label("FOR", u) \in AllLabels' <=> Label("FOR", u) \in AllLabels \/ u = loop_uid
           /\ Label("FOR_BODY", u) \in AllLabels' <=> Label("FOR_BODY", u) \in AllLabels \/ u = loop_uid
           /\ Label("FOR_END", u) \in AllLabels' <=> Label("FOR_END", u) \in AllLabels
           /\ IsOpen({"while"}, u)' <=> IsOpen({"while"}, u) \/ u = loop_uid
  PROVE  LoopLabels'
<1>1. ASSUME NEW u \in Nat
      PROVE  /\ Label("FOR", u) \in AllLabels' <=> u < loop_uid'
             /\ Label("FOR_BODY", u) \in AllLabels' <=> u < loop_uid'
             /\ Label("FOR_END", u) \in AllLabels' <=> u < loop_uid' /\ ~IsOpen({"while"}, u)'
  <2>1. /\ Label("FOR", u) \in AllLabels <=> u < loop_uid
        /\ Label("FOR_BODY", u) \in AllLabels <=> u < loop_uid
        /\ Label("FOR_END", u) \in AllLabels <=> u < loop_uid /\ ~IsOpen({"while"}, u)
    BY DEF LoopLabels
  <2>2. IsOpen({"while"}, u) => u < loop_uid
    BY OpenBelow
  <2> QED BY <2>1, <2>2
<1> QED BY <1>1 DEF LoopLabels

\* The labels with the numbers that are next are not printed yet.
LEMMA NewLabels ==
  ASSUME LabelInv
  PROVE  /\ Label("ELSE", cond_uid) \notin AllLabels /\ Label("IF_END", cond_uid) \notin AllLabels
         /\ Label("FOR", loop_uid) \notin AllLabels /\ Label("FOR_BODY", loop_uid) \notin AllLabels
<1>1. cond_uid \in Nat /\ loop_uid \in Nat /\ ~(cond_uid < cond_uid) /\ ~(loop_uid < loop_uid)
  BY DEF LabelInv
<1> QED BY <1>1 DEF LabelInv, CondLabels, LoopLabels

LEMMA InNilLabels ==
  ASSUME NEW nils \in 0..1, NEW u, NEW name
  PROVE  /\ Label("ELSE", u) \in NilLabels(nils) <=> nils = 1 /\ u = cond_uid
         /\ Label("IF_END", u) \in NilLabels(nils) <=> nils = 1 /\ u = cond_uid
         /\ name \notin {"ELSE", "IF_END"} => Label(name, u) \notin NilLabels(nils)
<1>1. CASE nils = 0
  BY <1>1 DEF NilLabels
<1>2. CASE nils = 1
  BY <1>2, LabelEq DEF NilLabels
<1> QED BY <1>1, <1>2

WhileLabels(nils) == {Label("FOR", loop_uid)} \union NilLabels(nils) \union {Label("FOR_BODY", loop_uid)}
WhileGotos(nils) == NilLabels(nils) \union {Label("FOR_END", loop_uid), Label("FOR_BODY", loop_uid)}

LEMMA WhileCode ==
  ASSUME NEW n \in Nat, Here \in 0..n, cond_uid \in Nat, loop_uid \in Nat, NEW nils \in 0..1
  PROVE  Chunk(code_generator_for_label(loop_uid) \o expr(nils) \o code_generator_for_loop_if(loop_uid)
                 \o code_generator_for_body(loop_uid),
               n, WhileLabels(nils), WhileGotos(nils))
<1> DEFINE a == code_generator_for_label(loop_uid)
           b == expr(nils)
           c == code_generator_for_loop_if(loop_uid)
           d == code_generator_for_body(loop_uid)
           lf == Label("FOR", loop_uid)
           lb == Label("FOR_BODY", loop_uid)
           le == Label("FOR_END", loop_uid)
           N == NilLabels(nils)
<1>1. /\ Chunk(a, n, {lf}, {}) /\ Chunk(c, n, {}, {le, lb}) /\ Chunk(d, n, {lb}, {})
  BY BranchCode
<1>2. Chunk(b, n, N, N)
  BY ExprCode
<1>3. lf \notin N /\ lb \notin N /\ lf # lb
  BY InNilLabels, LabelEq
<1> HIDE DEF a, b, c, d, lf, lb, le, N
<1>4. {lf} \intersect N = {} /\ ({lf} \union N) \intersect {lb} = {}
  BY <1>3
<1>5. Chunk(a \o b, n, {lf} \union N, {} \union N)
  BY <1>1, <1>2, <1>4, ChunkConcat
<1>6. Chunk(a \o b \o c, n, ({lf} \union N) \union {}, ({} \union N) \union {le, lb})
  BY <1>1, <1>5, ChunkConcat
<1>7. ({lf} \union N) \union {} = {lf} \union N /\ ({} \union N) \union {le, lb} = N \union {le, lb}
  OBVIOUS
<1>8. Chunk(a \o b \o c, n, {lf} \union N, N \union {le, lb})
  BY <1>6, <1>7
<1>9. Chunk(a \o b \o c \o d, n, {lf} \union N \union {lb}, N \union {le, lb} \union {})
  BY <1>1, <1>4, <1>8, ChunkConcat
<1>10. N \union {le, lb} \union {} = N \union {le, lb}
  OBVIOUS
<1>11. Chunk(a \o b \o c \o d, n, {lf} \union N \union {lb}, N \union {le, lb})
  BY <1>9, <1>10
<1> QED BY <1>11 DEF a, b, c, d, lf, lb, le, N, WhileLabels, WhileGotos

LEMMA WhileStep ==
  ASSUME LabelInv, NEW nils \in 0..1, while(nils)
  PROVE  LabelInv' /\ Lasting
<1> DEFINE code == code_generator_for_label(loop_uid) \o expr(nils)
                     \o code_generator_for_loop_if(loop_uid) \o code_generator_for_body(loop_uid)
           L == WhileLabels(nils)
           J == WhileGotos(nils)
           b == Block("while", loop_uid, {})
<1>1. /\ Parse /\ Emit(code, for_open + 1) /\ Add("while", "none", 0)
      /\ open' = Append(open, b)
      /\ cond_uid' = cond_uid + nils /\ loop_uid' = loop_uid + 1
      /\ globals' = globals /\ unique_id' = unique_id
  BY DEF while, UidAfter
<1>2. phase = "parse" /\ phase' = "parse" /\ UNCHANGED machineVars
  BY <1>1, ParseMeans
<1>3. SourceOK /\ OpenOK /\ cond_uid \in Nat /\ loop_uid \in Nat /\ unique_id \in Nat
        /\ globals \subseteq Variables
  BY DEF LabelInv
<1>4. Grown("while", "none")
  BY <1>1, <1>3, SourceGrows DEF Kinds
<1>5. Len(source') \in Nat /\ Here \in 0..Len(source') /\ Here = Len(source') /\ Here \in Nat
        /\ Known' = Known
  BY <1>4, GrownDefined
<1>6. Chunk(code, Len(source'), L, J)
  BY <1>3, <1>5, WhileCode
<1>7. b \in Blocks /\ b.kind = "while" /\ b.uid = loop_uid /\ b.at = Len(source')
  BY <1>3, <1>5 DEF Block, Blocks
<1>8. UidsGrow
  BY <1>1, <1>3 DEF UidsGrow
<1> HIDE DEF code, b, L, J
<1>9. Emitted(Len(source'), L, J) /\ for_open' = for_open + 1
  BY <1>1, <1>4, <1>6, Printing
<1>10. AllLabels' = AllLabels \union L
  BY <1>9 DEF Emitted
<1>11. ParseStep("while", "none", L, J)
  BY <1>1, <1>2, <1>3, <1>4, <1>8, <1>9 DEF ParseStep
<1>12. Apart(phase') /\ (NameClash => NameClash')
  BY <1>2, <1>11, StepApart DEF Apart
<1>13. BlockPushed(b)
  <2>1. loop_uid <= b.uid /\ b.uid < loop_uid'
    BY <1>1, <1>3, <1>7
  <2> QED BY <1>1, <1>3, <1>4, <1>7, <1>8, <2>1, PushBlock
<1>14. /\ OpenOK' /\ Loops(open') = Loops(open) \union {Len(open) + 1}
       /\ \A K, u : IsOpen(K, u)' <=> IsOpen(K, u) \/ ("while" \in K /\ loop_uid = u)
       /\ \A g : IsOpenFunction(g)' <=> IsOpenFunction(g)
  BY <1>7, <1>13 DEF BlockPushed
<1>15. ASSUME NEW name, NEW u
       PROVE  Label(name, u) \in L <=> \/ u = loop_uid /\ name \in {"FOR", "FOR_BODY"}
                                       \/ nils = 1 /\ u = cond_uid /\ name \in {"ELSE", "IF_END"}
  <2>1. Label(name, u) \in L <=> \/ Label(name, u) = Label("FOR", loop_uid)
                                 \/ Label(name, u) \in NilLabels(nils)
                                 \/ Label(name, u) = Label("FOR_BODY", loop_uid)
    BY DEF L, WhileLabels
  <2>2. Label(name, u) \in NilLabels(nils) <=> nils = 1 /\ u = cond_uid /\ name \in {"ELSE", "IF_END"}
    BY InNilLabels
  <2> QED BY <2>1, <2>2, LabelEq
<1>16. CondLabels'
  <2>1. CondLabels
    BY DEF LabelInv
  <2>2. ASSUME NEW u \in Nat
        PROVE  /\ Label("ELSE", u) \in AllLabels' <=> Label("ELSE", u) \in AllLabels \/ (nils = 1 /\ u = cond_uid)
               /\ Label("IF_END", u) \in AllLabels' <=> Label("IF_END", u) \in AllLabels \/ (nils = 1 /\ u = cond_uid)
    BY <1>10, <1>15
  <2>3. ASSUME NEW u \in Nat
        PROVE  /\ IsOpen({"if"}, u)' <=> IsOpen({"if"}, u)
               /\ IsOpen(CondKinds, u)' <=> IsOpen(CondKinds, u)
    <3>1. "while" \notin {"if"} /\ "while" \notin CondKinds
      BY DEF CondKinds
    <3> QED BY <1>14, <3>1
  <2>4. cond_uid' = cond_uid + nils + 0 /\ 0 \in 0..1
    BY <1>1, <1>3
  <2> QED BY <1>3, <2>1, <2>2, <2>3, <2>4, CondsGrow
<1>17. LoopLabels'
  <2>1. LoopLabels
    BY DEF LabelInv
  <2>2. ASSUME NEW u \in Nat
        PROVE  /\ Label("FOR", u) \in AllLabels' <=> Label("FOR", u) \in AllLabels \/ u = loop_uid
               /\ Label("FOR_BODY", u) \in AllLabels' <=> Label("FOR_BODY", u) \in AllLabels \/ u = loop_uid
               /\ Label("FOR_END", u) \in AllLabels' <=> Label("FOR_END", u) \in AllLabels
    BY <1>10, <1>15
  <2>3. ASSUME NEW u \in Nat PROVE IsOpen({"while"}, u)' <=> IsOpen({"while"}, u) \/ u = loop_uid
    BY <1>14
  <2> QED BY <1>1, <1>3, <2>1, <2>2, <2>3, LoopsGrow
<1>18. FunctionLabels' /\ FunctionsOK'
  <2>1. FunctionLabels /\ FunctionsOK /\ \A x : Label("FUNCTION", x) \notin L
    BY <1>15 DEF LabelInv
  <2> QED BY <1>5, <1>9, <1>14, <2>1, FunctionsKept
<1>19. EofLabel'
  <2>1. EofLabel /\ Label("EOF", 0) \notin L
    BY <1>15 DEF LabelInv
  <2> QED BY <1>2, <1>9, <2>1, EofKept
<1>20. GotosOK'
  <2>1. ASSUME NEW l \in J PROVE IsTarget(l)'
    <3>1. loop_uid < loop_uid' /\ (nils = 1 => cond_uid < cond_uid')
      BY <1>1, <1>3
    <3>2. \/ nils = 1 /\ l \in {Label("ELSE", cond_uid), Label("IF_END", cond_uid)}
          \/ l \in {Label("FOR_END", loop_uid), Label("FOR_BODY", loop_uid)}
      BY DEF J, WhileGotos, NilLabels
    <3> QED BY <1>3, <3>1, <3>2 DEF IsTarget
  <2>2. GotosOK
    BY DEF LabelInv
  <2> QED BY <1>4, <1>8, <1>9, <2>1, <2>2, GotosKept
<1>21. ~NameClash' => Distinct'
  <2>1. L \intersect AllLabels = {}
    BY NewLabels DEF L, WhileLabels, NilLabels
  <2>2. ~NameClash => Distinct
    BY DEF LabelInv
  <2> QED BY <1>9, <1>12, <2>1, <2>2, DistinctKept
<1>22. CountOK'
  <2>1. for_open = Cardinality(Loops(open)) /\ IsFiniteSet(Loops(open)) /\ for_open \in Nat
    BY <1>3, LoopsFinite DEF LabelInv, CountOK
  <2>2. Len(open) + 1 \notin Loops(open)
    <3>1. Len(open) \in Nat
      BY <1>3 DEF OpenOK
    <3> QED BY <3>1 DEF Loops
  <2>3. Cardinality(Loops(open)  \union {Len(open) + 1}) = for_open + 1
    BY <2>1, <2>2, FS_AddElement
  <2>4. for_open' = Cardinality(Loops(open')) /\ for_open' # 0
    BY <1>9, <1>14, <2>1, <2>3
  <2> QED BY <2>4 DEF CountOK, Loops
<1> QED BY <1>2, <1>12, <1>14, <1>16, <1>17, <1>18, <1>19, <1>20, <1>21, <1>22, FromParts

LEMMA IfCode ==
  ASSUME NEW n \in Nat, Here \in 0..n, cond_uid \in Nat, NEW nils \in 0..1, NEW let \in BOOLEAN,
         NEW var \in Variables, NEW uid \in Nat
  PROVE  Chunk(expr(nils) \o (IF let THEN code_generator_var_declare(var) ELSE <<>>)
                 \o code_generator_if_header(uid),
               n, NilLabels(nils), NilLabels(nils) \union {Label("ELSE", uid)})
<1> DEFINE a == expr(nils)
           b == IF let THEN code_generator_var_declare(var) ELSE <<>>
           c == code_generator_if_header(uid)
           N == NilLabels(nils)
           J == {Label("ELSE", uid)}
<1>1. Chunk(a, n, N, N)
  BY ExprCode
<1>2. Chunk(b, n, {}, {})
  BY VariableCode, ChunkEmpty
<1>3. Chunk(c, n, {}, J)
  BY BranchCode
<1> HIDE DEF a, b, c, N, J
<1>4. Chunk(a \o b, n, N, N)
  BY <1>1, <1>2, PlainConcat
<1>5. Chunk(a \o b \o c, n, N \union {}, N \union J)
  BY <1>3, <1>4, ChunkConcat
<1>6. N \union {} = N
  OBVIOUS
<1>7. Chunk(a \o b \o c, n, N, N \union J)
  BY <1>5, <1>6
<1> QED BY <1>7 DEF a, b, c, N, J

LEMMA IfStep ==
  ASSUME LabelInv, NEW nils \in 0..1, NEW let \in BOOLEAN
  PROVE  if(nils, let) => LabelInv' /\ Lasting
<1> DEFINE constant == Var("LF", "var", unique_id)
           closing == cond_uid + nils
           code == expr(nils) \o (IF let THEN code_generator_var_declare(constant) ELSE <<>>)
                     \o code_generator_if_header(closing)
           L == NilLabels(nils)
           J == NilLabels(nils) \union {Label("ELSE", closing)}
           D == IF let THEN {constant} ELSE {}
           b == Block("if", closing, D)
           parts == /\ Parse /\ Emit(code, for_open) /\ Add("if", "none", 0)
                    /\ open' = Append(open, b)
                    /\ cond_uid' = cond_uid + nils + 1 /\ loop_uid' = loop_uid
                    /\ globals' = globals /\ unique_id' = IF let THEN unique_id + 1 ELSE unique_id
<1>0. if(nils, let) => parts
  BY DEF if, UidAfter
<1> SUFFICES ASSUME parts PROVE LabelInv' /\ Lasting
  BY <1>0, Zenon
<1>1. /\ Parse /\ Emit(code, for_open) /\ Add("if", "none", 0)
      /\ open' = Append(open, b)
      /\ cond_uid' = cond_uid + nils + 1 /\ loop_uid' = loop_uid
      /\ globals' = globals /\ unique_id' = IF let THEN unique_id + 1 ELSE unique_id
  OBVIOUS
<1>2. phase = "parse" /\ phase' = "parse" /\ UNCHANGED machineVars
  BY <1>1, ParseMeans
<1>3. SourceOK /\ OpenOK /\ cond_uid \in Nat /\ loop_uid \in Nat /\ unique_id \in Nat
        /\ globals \subseteq Variables /\ closing \in Nat
  BY DEF LabelInv
<1>4. Grown("if", "none")
  BY <1>1, <1>3, SourceGrows DEF Kinds
<1>5. Len(source') \in Nat /\ Here \in 0..Len(source') /\ Here = Len(source') /\ Here \in Nat
        /\ Known' = Known
  BY <1>4, GrownDefined
<1>a. constant \in Variables
  BY <1>3, NewVarIs
<1>6. Chunk(code, Len(source'), L, J)
  BY <1>3, <1>5, <1>a, IfCode
<1>7. b \in Blocks /\ b.kind = "if" /\ b.uid = closing /\ b.at = Len(source')
  <2>1. D \in SUBSET Variables
    BY <1>a
  <2> HIDE DEF D, constant
  <2> QED BY <1>3, <1>5, <2>1 DEF Block, Blocks
<1>8. UidsGrow /\ unique_id' \in Nat
  BY <1>1, <1>3 DEF UidsGrow
<1> HIDE DEF parts, code, b, L, J, D, constant
<1>9. Emitted(Len(source'), L, J) /\ for_open' = for_open /\ (for_open = 0 => print_buffer' = print_buffer)
  BY <1>1, <1>4, <1>6, Printing
<1>10. AllLabels' = AllLabels \union L
  BY <1>9 DEF Emitted
<1>11. ParseStep("if", "none", L, J)
  BY <1>1, <1>2, <1>3, <1>4, <1>8, <1>9 DEF ParseStep
<1>12. Apart(phase') /\ (NameClash => NameClash')
  BY <1>2, <1>11, StepApart DEF Apart
<1>13. BlockPushed(b)
  <2>1. cond_uid <= b.uid /\ b.uid < cond_uid'
    BY <1>1, <1>3, <1>7
  <2> QED BY <1>1, <1>3, <1>4, <1>7, <1>8, <2>1, PushBlock
<1>14. /\ OpenOK' /\ Loops(open') = Loops(open)
       /\ \A K, u : IsOpen(K, u)' <=> IsOpen(K, u) \/ ("if" \in K /\ closing = u)
       /\ \A g : IsOpenFunction(g)' <=> IsOpenFunction(g)
  BY <1>7, <1>13 DEF BlockPushed
<1>15. ASSUME NEW name, NEW u
       PROVE  Label(name, u) \in L <=> nils = 1 /\ u = cond_uid /\ name \in {"ELSE", "IF_END"}
  BY InNilLabels DEF L
<1>16. CondLabels'
  <2>1. CondLabels
    BY DEF LabelInv
  <2>2. ASSUME NEW u \in Nat
        PROVE  /\ Label("ELSE", u) \in AllLabels' <=> Label("ELSE", u) \in AllLabels \/ (nils = 1 /\ u = cond_uid)
               /\ Label("IF_END", u) \in AllLabels' <=> Label("IF_END", u) \in AllLabels \/ (nils = 1 /\ u = cond_uid)
    BY <1>10, <1>15
  <2>3. ASSUME NEW u \in Nat
        PROVE  /\ IsOpen({"if"}, u)' <=> IsOpen({"if"}, u) \/ u = cond_uid + nils
               /\ IsOpen(CondKinds, u)' <=> IsOpen(CondKinds, u) \/ u = cond_uid + nils
    <3>1. "if" \in {"if"} /\ "if" \in CondKinds
      BY DEF CondKinds
    <3> QED BY <1>14, <3>1
  <2>4. cond_uid' = cond_uid + nils + 1 /\ 1 \in 0..1
    BY <1>1, <1>3
  <2> QED BY <1>3, <2>1, <2>2, <2>3, <2>4, CondsGrow
<1>17. LoopLabels'
  <2>1. LoopLabels /\ \A u \in Nat : /\ Label("FOR", u) \notin L /\ Label("FOR_BODY", u) \notin L
                                     /\ Label("FOR_END", u) \notin L
    BY <1>15 DEF LabelInv
  <2>2. ASSUME NEW u \in Nat PROVE IsOpen({"while"}, u)' <=> IsOpen({"while"}, u)
    BY <1>14
  <2> QED BY <1>1, <1>10, <2>1, <2>2, LoopsKept
<1>18. FunctionLabels' /\ FunctionsOK'
  <2>1. FunctionLabels /\ FunctionsOK /\ \A x : Label("FUNCTION", x) \notin L
    BY <1>15 DEF LabelInv
  <2> QED BY <1>5, <1>9, <1>14, <2>1, FunctionsKept
<1>19. EofLabel'
  <2>1. EofLabel /\ Label("EOF", 0) \notin L
    BY <1>15 DEF LabelInv
  <2> QED BY <1>2, <1>9, <2>1, EofKept
<1>20. GotosOK'
  <2>1. ASSUME NEW l \in J PROVE IsTarget(l)'
    <3>1. closing < cond_uid' /\ cond_uid < cond_uid'
      BY <1>1, <1>3
    <3>2. \/ l \in {Label("ELSE", cond_uid), Label("IF_END", cond_uid)}
          \/ l = Label("ELSE", closing)
      BY DEF J, NilLabels
    <3> HIDE DEF closing
    <3> QED BY <1>3, <3>1, <3>2 DEF IsTarget
  <2>2. GotosOK
    BY DEF LabelInv
  <2> QED BY <1>4, <1>8, <1>9, <2>1, <2>2, GotosKept
<1>21. ~NameClash' => Distinct'
  <2>1. L \intersect AllLabels = {}
    BY NewLabels DEF L, NilLabels
  <2>2. ~NameClash => Distinct
    BY DEF LabelInv
  <2> QED BY <1>9, <1>12, <2>1, <2>2, DistinctKept
<1>22. CountOK'
  BY <1>9, <1>14, CountKept DEF LabelInv
<1> QED BY <1>2, <1>12, <1>14, <1>16, <1>17, <1>18, <1>19, <1>20, <1>21, <1>22, FromParts

\* What closing a block leaves alone.
LEMMA CloseMeans ==
  ASSUME LabelInv, CloseUnchanged, NEW kind, NEW head \in Nat, kind \in Kinds \ {"func", "call"},
         Add(kind, "none", head)
  PROVE  /\ UidsGrow /\ Grown(kind, "none") /\ phase' = phase /\ UNCHANGED machineVars
         /\ globals' = globals /\ globals \subseteq Variables
         /\ unique_id' = unique_id /\ unique_id \in Nat
         /\ cond_uid' = cond_uid /\ cond_uid \in Nat /\ loop_uid' = loop_uid /\ loop_uid \in Nat
         /\ Known' = Known /\ Len(source') \in Nat /\ SourceOK /\ OpenOK
         /\ Here \in 0..Len(source')
<1>1. SourceOK /\ OpenOK /\ cond_uid \in Nat /\ loop_uid \in Nat /\ unique_id \in Nat
        /\ globals \subseteq Variables
  BY DEF LabelInv
<1>2. /\ globals' = globals /\ unique_id' = unique_id /\ cond_uid' = cond_uid /\ loop_uid' = loop_uid
      /\ phase' = phase /\ UNCHANGED machineVars
  BY DEF CloseUnchanged
<1>3. Grown(kind, "none")
  BY <1>1, SourceGrows
<1>4. Known' = Known /\ Len(source') \in Nat /\ Here \in 0..Len(source')
  BY <1>3, GrownDefined
<1>5. UidsGrow
  BY <1>1, <1>2 DEF UidsGrow
<1> QED BY <1>1, <1>2, <1>3, <1>4, <1>5

LEMMA ElseStep ==
  ASSUME LabelInv
  PROVE  else => LabelInv' /\ Lasting
<1> DEFINE code == code_generator_if_else(Top.uid)
           uid == Top.uid
           L == {Label("ELSE", uid)}
           J == {Label("IF_END", uid)}
           parts == /\ phase = "parse" /\ TopIs("if") /\ Emit(code, for_open)
                    /\ open' = Append(Below, [Top EXCEPT !.kind = "else", !.declared = {}])
                    /\ Add("else", "none", Top.at) /\ CloseUnchanged
<1>0. else => parts
  BY DEF else
<1> SUFFICES ASSUME parts PROVE LabelInv' /\ Lasting
  BY <1>0, Zenon
<1>1. /\ phase = "parse" /\ TopIs("if") /\ Emit(code, for_open)
      /\ Add("else", "none", Top.at) /\ CloseUnchanged
  OBVIOUS
<1>2. open # <<>> /\ Top.kind = "if" /\ OpenOK
  BY <1>1 DEF TopIs, LabelInv
<1>3. uid \in Nat /\ Top.at \in Nat /\ Len(open) \in 1..Len(open) /\ Top = open[Len(open)]
  BY <1>2, TopFacts
<1>4. /\ UidsGrow /\ Grown("else", "none") /\ phase' = phase /\ UNCHANGED machineVars
      /\ globals' = globals /\ globals \subseteq Variables
      /\ unique_id' = unique_id /\ unique_id \in Nat
      /\ cond_uid' = cond_uid /\ cond_uid \in Nat /\ loop_uid' = loop_uid /\ loop_uid \in Nat
      /\ Known' = Known /\ Len(source') \in Nat /\ SourceOK
  BY <1>1, <1>3, CloseMeans DEF Kinds
<1>5. BlockTurned
  BY <1>1, <1>2, <1>4, TurnBlock
<1>6. /\ OpenOK' /\ Loops(open') = Loops(open)
      /\ \A u : IsOpen({"if"}, u)' <=> IsOpen({"if"}, u) /\ u # uid
      /\ \A u : IsOpen(CondKinds, u)' <=> IsOpen(CondKinds, u)
      /\ \A u : IsOpen({"while"}, u)' <=> IsOpen({"while"}, u)
      /\ \A f : IsOpenFunction(f)' <=> IsOpenFunction(f)
  BY <1>5 DEF BlockTurned
<1>7. IsOpen({"if"}, uid) /\ uid < cond_uid
  BY <1>2, <1>3, OpenBelow DEF IsOpen
<1>8. Chunk(code, Len(source'), L, J)
  BY <1>3, <1>4, BranchCode
<1> HIDE DEF parts, code, uid, L, J
<1>9. Emitted(Len(source'), L, J) /\ for_open' = for_open /\ (for_open = 0 => print_buffer' = print_buffer)
  BY <1>1, <1>4, <1>8, Printing
<1>10. AllLabels' = AllLabels \union L
  BY <1>9 DEF Emitted
<1>11. ParseStep("else", "none", L, J) /\ phase' = "parse"
  BY <1>1, <1>4, <1>9 DEF ParseStep
<1>12. Apart(phase') /\ (NameClash => NameClash')
  BY <1>11, StepApart DEF Apart
<1>13. ASSUME NEW name, NEW u PROVE Label(name, u) \in L <=> name = "ELSE" /\ u = uid
  BY LabelEq DEF L
<1>14. CondLabels'
  <2>1. ASSUME NEW u \in Nat
        PROVE  /\ Label("ELSE", u) \in AllLabels' <=> u < cond_uid /\ ~IsOpen({"if"}, u)'
               /\ Label("IF_END", u) \in AllLabels' <=> u < cond_uid /\ ~IsOpen(CondKinds, u)'
    <3>1. /\ Label("ELSE", u) \in AllLabels <=> u < cond_uid /\ ~IsOpen({"if"}, u)
          /\ Label("IF_END", u) \in AllLabels <=> u < cond_uid /\ ~IsOpen(CondKinds, u)
      BY DEF LabelInv, CondLabels
    <3>2. /\ Label("ELSE", u) \in AllLabels' <=> Label("ELSE", u) \in AllLabels \/ u = uid
          /\ Label("IF_END", u) \in AllLabels' <=> Label("IF_END", u) \in AllLabels
      BY <1>10, <1>13
    <3>3. /\ IsOpen({"if"}, u)' <=> IsOpen({"if"}, u) /\ u # uid
          /\ IsOpen(CondKinds, u)' <=> IsOpen(CondKinds, u)
      BY <1>6
    <3> QED BY <1>7, <3>1, <3>2, <3>3
  <2> QED BY <1>4, <2>1 DEF CondLabels
<1>15. LoopLabels'
  <2>1. LoopLabels /\ \A u \in Nat : /\ Label("FOR", u) \notin L /\ Label("FOR_BODY", u) \notin L
                                     /\ Label("FOR_END", u) \notin L
    BY <1>13 DEF LabelInv
  <2> QED BY <1>4, <1>6, <1>10, <2>1, LoopsKept
<1>16. FunctionLabels' /\ FunctionsOK'
  <2>1. FunctionLabels /\ FunctionsOK /\ \A x : Label("FUNCTION", x) \notin L
    BY <1>13 DEF LabelInv
  <2> QED BY <1>4, <1>6, <1>9, <2>1, FunctionsKept
<1>17. EofLabel'
  <2>1. EofLabel /\ Label("EOF", 0) \notin L
    BY <1>13 DEF LabelInv
  <2> QED BY <1>1, <1>9, <1>11, <2>1, EofKept
<1>18. GotosOK'
  <2>1. ASSUME NEW l \in J PROVE IsTarget(l)'
    BY <1>3, <1>4, <1>7 DEF J, IsTarget, uid
  <2> QED BY <1>4, <1>9, <2>1, GotosKept DEF LabelInv
<1>19. ~NameClash' => Distinct'
  <2>1. Label("ELSE", uid) \notin AllLabels
    BY <1>3, <1>7 DEF LabelInv, CondLabels, uid
  <2>2. L \intersect AllLabels = {} /\ (~NameClash => Distinct)
    BY <2>1 DEF L, LabelInv
  <2> QED BY <1>9, <1>12, <2>2, DistinctKept
<1>20. CountOK'
  BY <1>6, <1>9, CountKept DEF LabelInv
<1> QED BY <1>6, <1>11, <1>12, <1>14, <1>15, <1>16, <1>17, <1>18, <1>19, <1>20, FromParts

LEMMA EndIfStep ==
  ASSUME LabelInv, EndIf
  PROVE  LabelInv' /\ Lasting
<1> DEFINE uid == Top.uid
           code == code_generator_if_end(Top.uid)
           L == {Label("IF_END", uid)}
           J == {}
<1>1. /\ phase = "parse" /\ TopIs("else") /\ Emit(code, for_open)
      /\ open' = Below /\ Add("endif", "none", Top.at) /\ CloseUnchanged
  BY DEF EndIf
<1>2. open # <<>> /\ Top.kind = "else" /\ OpenOK
  BY <1>1 DEF TopIs, LabelInv
<1>3. uid \in Nat /\ Top.at \in Nat /\ Len(open) \in 1..Len(open) /\ Top = open[Len(open)]
  BY <1>2, TopFacts
<1>4. /\ UidsGrow /\ Grown("endif", "none") /\ phase' = phase /\ UNCHANGED machineVars
      /\ globals' = globals /\ globals \subseteq Variables
      /\ unique_id' = unique_id /\ unique_id \in Nat
      /\ cond_uid' = cond_uid /\ cond_uid \in Nat /\ loop_uid' = loop_uid /\ loop_uid \in Nat
      /\ Known' = Known /\ Len(source') \in Nat /\ SourceOK
  BY <1>1, <1>3, CloseMeans DEF Kinds
<1>5. BlockPopped
  BY <1>1, <1>2, <1>4, PopBlock
<1>6. /\ OpenOK' /\ Loops(open') = Loops(open)
      /\ \A u : IsOpen({"if"}, u)' <=> IsOpen({"if"}, u)
      /\ \A u : IsOpen(CondKinds, u) <=> IsOpen(CondKinds, u)' \/ u = uid
      /\ \A u : u = uid => ~IsOpen(CondKinds, u)'
      /\ \A u : IsOpen({"while"}, u)' <=> IsOpen({"while"}, u)
      /\ \A f : IsOpenFunction(f)' <=> IsOpenFunction(f)
  <2>1. "else" \notin {"if"} /\ "else" \notin {"while"} /\ "else" \in CondKinds /\ "else" # "while"
    BY DEF CondKinds
  <2> QED BY <1>2, <1>5, <2>1 DEF BlockPopped
<1>7. IsOpen(CondKinds, uid) /\ uid < cond_uid
  <2>1. IsOpen(CondKinds, uid)
    BY <1>6
  <2> QED BY <1>2, <2>1, OpenBelow
<1>8. Chunk(code, Len(source'), L, J)
  BY <1>3, <1>4, BranchCode
<1> HIDE DEF code, L, J
<1>9. Emitted(Len(source'), L, J) /\ for_open' = for_open /\ (for_open = 0 => print_buffer' = print_buffer)
  BY <1>1, <1>4, <1>8, Printing
<1>10. AllLabels' = AllLabels \union L
  BY <1>9 DEF Emitted
<1>11. ParseStep("endif", "none", L, J) /\ phase' = "parse"
  BY <1>1, <1>4, <1>9 DEF ParseStep
<1>12. Apart(phase') /\ (NameClash => NameClash')
  BY <1>11, StepApart DEF Apart
<1>13. ASSUME NEW name, NEW u PROVE Label(name, u) \in L <=> name = "IF_END" /\ u = uid
  BY LabelEq DEF L
<1>14. CondLabels'
  <2>1. ASSUME NEW u \in Nat
        PROVE  /\ Label("ELSE", u) \in AllLabels' <=> u < cond_uid /\ ~IsOpen({"if"}, u)'
               /\ Label("IF_END", u) \in AllLabels' <=> u < cond_uid /\ ~IsOpen(CondKinds, u)'
    <3>1. /\ Label("ELSE", u) \in AllLabels <=> u < cond_uid /\ ~IsOpen({"if"}, u)
          /\ Label("IF_END", u) \in AllLabels <=> u < cond_uid /\ ~IsOpen(CondKinds, u)
      BY DEF LabelInv, CondLabels
    <3>2. /\ Label("ELSE", u) \in AllLabels' <=> Label("ELSE", u) \in AllLabels
          /\ Label("IF_END", u) \in AllLabels' <=> Label("IF_END", u) \in AllLabels \/ u = uid
      BY <1>10, <1>13
    <3>3. /\ IsOpen({"if"}, u)' <=> IsOpen({"if"}, u)
          /\ IsOpen(CondKinds, u) <=> IsOpen(CondKinds, u)' \/ u = uid
          /\ u = uid => ~IsOpen(CondKinds, u)'
      BY <1>6
    <3> HIDE DEF uid
    <3> QED BY <1>7, <3>1, <3>2, <3>3
  <2> QED BY <1>4, <2>1 DEF CondLabels
<1> HIDE DEF uid
<1>15. LoopLabels'
  <2>1. LoopLabels /\ \A u \in Nat : /\ Label("FOR", u) \notin L /\ Label("FOR_BODY", u) \notin L
                                     /\ Label("FOR_END", u) \notin L
    BY <1>13 DEF LabelInv
  <2> QED BY <1>4, <1>6, <1>10, <2>1, LoopsKept
<1>16. FunctionLabels' /\ FunctionsOK'
  <2>1. FunctionLabels /\ FunctionsOK /\ \A x : Label("FUNCTION", x) \notin L
    BY <1>13 DEF LabelInv
  <2> QED BY <1>4, <1>6, <1>9, <2>1, FunctionsKept
<1>17. EofLabel'
  <2>1. EofLabel /\ Label("EOF", 0) \notin L
    BY <1>13 DEF LabelInv
  <2> QED BY <1>1, <1>9, <1>11, <2>1, EofKept
<1>18. GotosOK'
  <2>1. \A l \in J : IsTarget(l)'
    BY DEF J
  <2> QED BY <1>4, <1>9, <2>1, GotosKept DEF LabelInv
<1>19. ~NameClash' => Distinct'
  <2>1. Label("IF_END", uid) \notin AllLabels
    BY <1>3, <1>7 DEF LabelInv, CondLabels, uid
  <2>2. L \intersect AllLabels = {} /\ (~NameClash => Distinct)
    BY <2>1 DEF L, LabelInv
  <2> QED BY <1>9, <1>12, <2>2, DistinctKept
<1>20. CountOK'
  BY <1>6, <1>9, CountKept DEF LabelInv
<1> QED BY <1>6, <1>11, <1>12, <1>14, <1>15, <1>16, <1>17, <1>18, <1>19, <1>20, FromParts

LEMMA EndWhileStep ==
  ASSUME LabelInv, EndWhile
  PROVE  LabelInv' /\ Lasting
<1> DEFINE uid == Top.uid
           L == {Label("FOR_END", uid)}
           J == {Label("FOR", uid)}
<1>1. /\ phase = "parse" /\ TopIs("while") /\ EmitLoopEnd
      /\ open' = Below /\ Add("endwhile", "none", Top.at) /\ CloseUnchanged
  BY DEF EndWhile
<1>2. open # <<>> /\ Top.kind = "while" /\ OpenOK
  BY <1>1 DEF TopIs, LabelInv
<1>3. uid \in Nat /\ Top.at \in Nat /\ Len(open) \in 1..Len(open) /\ Top = open[Len(open)]
  BY <1>2, TopFacts
<1>4. /\ UidsGrow /\ Grown("endwhile", "none") /\ phase' = phase /\ UNCHANGED machineVars
      /\ globals' = globals /\ globals \subseteq Variables
      /\ unique_id' = unique_id /\ unique_id \in Nat
      /\ cond_uid' = cond_uid /\ cond_uid \in Nat /\ loop_uid' = loop_uid /\ loop_uid \in Nat
      /\ Known' = Known /\ Len(source') \in Nat /\ SourceOK
  BY <1>1, <1>3, CloseMeans DEF Kinds
<1>5. BlockPopped
  BY <1>1, <1>2, <1>4, PopBlock
<1>6. /\ OpenOK' /\ Loops(open) = Loops(open') \union {Len(open)} /\ Len(open) \notin Loops(open')
      /\ \A u : IsOpen({"if"}, u)' <=> IsOpen({"if"}, u)
      /\ \A u : IsOpen(CondKinds, u)' <=> IsOpen(CondKinds, u)
      /\ \A u : IsOpen({"while"}, u) <=> IsOpen({"while"}, u)' \/ u = uid
      /\ \A u : u = uid => ~IsOpen({"while"}, u)'
      /\ \A f : IsOpenFunction(f)' <=> IsOpenFunction(f)
  <2>1. "while" \notin {"if"} /\ "while" \notin CondKinds
    BY DEF CondKinds
  <2> QED BY <1>2, <1>5, <2>1 DEF BlockPopped
<1>7. IsOpen({"while"}, uid) /\ uid < loop_uid
  <2>1. IsOpen({"while"}, uid)
    BY <1>6
  <2> QED BY <1>2, <2>1, OpenBelow
<1>8. for_open = Cardinality(Loops(open)) /\ IsFiniteSet(Loops(open)) /\ for_open \in Nat
  BY <1>2, LoopsFinite DEF LabelInv, CountOK
<1>9. /\ Emitted(Len(source'), L, J) /\ for_open' = for_open - 1
      /\ for_open' = 0 => print_buffer' = <<>>
  <2>1. out \in Seq(Instrs(Len(source'))) /\ print_buffer \in Seq(Instrs(Len(source')))
    BY <1>4, CodeGrows
  <2> QED BY <1>1, <1>3, <1>4, <1>8, <2>1, EmitEnd
<1> HIDE DEF L, J
<1>10. AllLabels' = AllLabels \union L
  BY <1>9 DEF Emitted
<1>11. ParseStep("endwhile", "none", L, J) /\ phase' = "parse"
  BY <1>1, <1>4, <1>9 DEF ParseStep
<1>12. Apart(phase') /\ (NameClash => NameClash')
  BY <1>11, StepApart DEF Apart
<1>13. ASSUME NEW name, NEW u PROVE Label(name, u) \in L <=> name = "FOR_END" /\ u = uid
  BY LabelEq DEF L
<1>14. LoopLabels'
  <2>1. ASSUME NEW u \in Nat
        PROVE  /\ Label("FOR", u) \in AllLabels' <=> u < loop_uid
               /\ Label("FOR_BODY", u) \in AllLabels' <=> u < loop_uid
               /\ Label("FOR_END", u) \in AllLabels' <=> u < loop_uid /\ ~IsOpen({"while"}, u)'
    <3>1. /\ Label("FOR", u) \in AllLabels <=> u < loop_uid
          /\ Label("FOR_BODY", u) \in AllLabels <=> u < loop_uid
          /\ Label("FOR_END", u) \in AllLabels <=> u < loop_uid /\ ~IsOpen({"while"}, u)
      BY DEF LabelInv, LoopLabels
    <3>2. /\ Label("FOR", u) \in AllLabels' <=> Label("FOR", u) \in AllLabels
          /\ Label("FOR_BODY", u) \in AllLabels' <=> Label("FOR_BODY", u) \in AllLabels
          /\ Label("FOR_END", u) \in AllLabels' <=> Label("FOR_END", u) \in AllLabels \/ u = uid
      BY <1>10, <1>13
    <3>3. /\ IsOpen({"while"}, u) <=> IsOpen({"while"}, u)' \/ u = uid
          /\ u = uid => ~IsOpen({"while"}, u)'
      BY <1>6
    <3> HIDE DEF uid
    <3> QED BY <1>7, <3>1, <3>2, <3>3
  <2> QED BY <1>4, <2>1 DEF LoopLabels
<1> HIDE DEF uid
<1>15. CondLabels'
  <2>1. CondLabels /\ \A u \in Nat : Label("ELSE", u) \notin L /\ Label("IF_END", u) \notin L
    BY <1>13 DEF LabelInv
  <2> QED BY <1>4, <1>6, <1>10, <2>1, CondsKept
<1>16. FunctionLabels' /\ FunctionsOK'
  <2>1. FunctionLabels /\ FunctionsOK /\ \A x : Label("FUNCTION", x) \notin L
    BY <1>13 DEF LabelInv
  <2> QED BY <1>4, <1>6, <1>9, <2>1, FunctionsKept
<1>17. EofLabel'
  <2>1. EofLabel /\ Label("EOF", 0) \notin L
    BY <1>13 DEF LabelInv
  <2> QED BY <1>1, <1>9, <1>11, <2>1, EofKept
<1>18. GotosOK'
  <2>1. ASSUME NEW l \in J PROVE IsTarget(l)'
    BY <1>3, <1>4, <1>7 DEF J, IsTarget, uid
  <2> QED BY <1>4, <1>9, <2>1, GotosKept DEF LabelInv
<1>19. ~NameClash' => Distinct'
  <2>1. Label("FOR_END", uid) \notin AllLabels
    BY <1>3, <1>7 DEF LabelInv, LoopLabels, uid
  <2>2. L \intersect AllLabels = {} /\ (~NameClash => Distinct)
    BY <2>1 DEF L, LabelInv
  <2> QED BY <1>9, <1>12, <2>2, DistinctKept
<1>20. CountOK'
  <2>1. IsFiniteSet(Loops(open'))
    <3>1. Loops(open') \subseteq Loops(open)
      BY <1>6
    <3> QED BY <1>8, <3>1, FS_Subset
  <2>2. Cardinality(Loops(open') \union {Len(open)}) = Cardinality(Loops(open')) + 1
    BY <1>6, <2>1, FS_AddElement
  <2>3. Cardinality(Loops(open')) \in Nat
    BY <2>1, FS_CardinalityType
  <2>4. for_open' = Cardinality(Loops(open'))
    BY <1>6, <1>8, <1>9, <2>2, <2>3
  <2> QED BY <1>9, <2>4 DEF CountOK, Loops
<1> QED BY <1>6, <1>11, <1>12, <1>14, <1>15, <1>16, <1>17, <1>18, <1>19, <1>20, FromParts

\* Outside of blocks nothing waits in the buffer.
LEMMA NoLoops ==
  ASSUME LabelInv, Loops(open) = {}
  PROVE  for_open = 0 /\ print_buffer = <<>>
<1>1. for_open = 0
  BY FS_EmptySet DEF LabelInv, CountOK
<1> QED BY <1>1 DEF LabelInv, CountOK

\* A label that is printed behind an instruction op, with code a before and b behind.
LEMMA PrintedBehind ==
  ASSUME NEW S, out \in Seq(S), NEW a \in Seq(S), NEW x \in S, NEW y \in S, NEW b \in Seq(S),
         out' = out \o (a \o <<x, y>> \o b), y.op = "LABEL",
         NEW l, NEW op, y.arg = l, x.op = op
  PROVE  Behind(l, op)'
<1> DEFINE m == Len(out) + Len(a)
<1>1. Len(out) \in Nat /\ Len(a) \in Nat /\ Len(b) \in Nat
  BY LenProperties
<1>2. /\ a \o <<x, y>> \in Seq(S) /\ Len(a \o <<x, y>>) = Len(a) + 2
      /\ (a \o <<x, y>>)[Len(a) + 1] = x /\ (a \o <<x, y>>)[Len(a) + 2] = y
  <2>1. <<x, y>> \in Seq(S) /\ Len(<<x, y>>) = 2 /\ <<x, y>>[1] = x /\ <<x, y>>[2] = y
    OBVIOUS
  <2> DEFINE d == <<x, y>>
  <2> HIDE DEF d
  <2>2. /\ a \o d \in Seq(S) /\ Len(a \o d) = Len(a) + Len(d)
        /\ \A i \in 1..(Len(a) + Len(d)) : (a \o d)[i] = IF i <= Len(a) THEN a[i] ELSE d[i - Len(a)]
    BY <2>1, ConcatProperties DEF d
  <2>3. Len(d) = 2 /\ d[1] = x /\ d[2] = y
    BY <2>1 DEF d
  <2>4. (a \o d)[Len(a) + 1] = d[Len(a) + 1 - Len(a)] /\ (a \o d)[Len(a) + 2] = d[Len(a) + 2 - Len(a)]
    BY <1>1, <2>2, <2>3
  <2>5. Len(a) + 1 - Len(a) = 1 /\ Len(a) + 2 - Len(a) = 2
    BY <1>1
  <2> QED BY <2>2, <2>3, <2>4, <2>5 DEF d
<1> DEFINE c == a \o <<x, y>>
           w == c \o b
<1> HIDE DEF c
<1>3. c \in Seq(S) /\ Len(c) = Len(a) + 2 /\ c[Len(a) + 1] = x /\ c[Len(a) + 2] = y
  BY <1>2 DEF c
<1>4. /\ w \in Seq(S) /\ Len(w) = Len(c) + Len(b)
      /\ \A i \in 1..(Len(c) + Len(b)) : w[i] = IF i <= Len(c) THEN c[i] ELSE b[i - Len(c)]
  BY <1>3, ConcatProperties
<1> HIDE DEF w
<1>5. w[Len(a) + 1] = x /\ w[Len(a) + 2] = y /\ Len(w) \in Nat /\ Len(w) >= Len(a) + 2
  BY <1>1, <1>3, <1>4
<1>6. out' = out \o w
  BY DEF w, c
<1>7. /\ Len(out') = Len(out) + Len(w)
      /\ \A i \in 1..(Len(out) + Len(w)) : out'[i] = IF i <= Len(out) THEN out[i] ELSE w[i - Len(out)]
  <2>1. /\ Len(out \o w) = Len(out) + Len(w)
        /\ \A i \in 1..(Len(out) + Len(w)) : (out \o w)[i] = IF i <= Len(out) THEN out[i] ELSE w[i - Len(out)]
    <3>1. w \in Seq(S)
      BY <1>4
    <3> QED BY <3>1, ConcatProperties, Zenon
  <2> QED BY <1>6, <2>1
<1>8. m + 1 \in 1..Len(out') /\ m + 2 \in 2..Len(out')
  BY <1>1, <1>5, <1>7
<1>9. out'[m + 1] = w[m + 1 - Len(out)] /\ out'[m + 2] = w[m + 2 - Len(out)]
  <2>1. /\ m + 1 \in 1..(Len(out) + Len(w)) /\ m + 2 \in 1..(Len(out) + Len(w))
        /\ ~ (m + 1 <= Len(out)) /\ ~ (m + 2 <= Len(out))
    BY <1>1, <1>5
  <2>2. \A i \in 1..(Len(out) + Len(w)) : ~ (i <= Len(out)) => out'[i] = w[i - Len(out)]
    BY <1>7
  <2>3. out'[m + 1] = w[m + 1 - Len(out)]
    BY <2>1, <2>2
  <2>4. out'[m + 2] = w[m + 2 - Len(out)]
    BY <2>1, <2>2
  <2> QED BY <2>3, <2>4
<1>10. m + 1 - Len(out) = Len(a) + 1 /\ m + 2 - Len(out) = Len(a) + 2 /\ m + 2 - 1 = m + 1
  BY <1>1
<1>11. out'[m + 2] = y /\ out'[m + 2 - 1] = x
  BY <1>5, <1>9, <1>10
<1> DEFINE k == m + 2
<1>12. k \in 2..Len(out') /\ out'[k].op = "LABEL" /\ out'[k].arg = l /\ out'[k - 1].op = op
  BY <1>8, <1>11
<1> HIDE DEF k
<1> QED BY <1>12 DEF Behind

LEMMA BehindKept ==
  ASSUME NEW n, NEW L, NEW J, Emitted(n, L, J), NEW l, NEW op, Behind(l, op)
  PROVE  Behind(l, op)'
<1>1. PICK i \in 2..Len(out) : out[i].op = "LABEL" /\ out[i].arg = l /\ out[i - 1].op = op
  BY DEF Behind
<1>2. /\ i \in 2..Len(out') /\ i \in 1..Len(out) /\ i - 1 \in 1..Len(out)
  BY <1>1 DEF Emitted
<1>3. out'[i] = out[i] /\ out'[i - 1] = out[i - 1]
  BY <1>2 DEF Emitted
<1> QED BY <1>1, <1>2, <1>3 DEF Behind

\* No block of the kinds that have numbers is open.
NoneOpen == \A u : ~IsOpen({"if"}, u) /\ ~IsOpen(CondKinds, u) /\ ~IsOpen({"while"}, u)

LEMMA NoneOpenNow ==
  ASSUME open = <<>> \/ (Len(open) = 1 /\ open[1].kind = "func")
  PROVE  NoneOpen /\ Loops(open) = {}
BY DEF NoneOpen, IsOpen, CondKinds, Loops

LEMMA NoneOpenNext ==
  ASSUME open' = <<>> \/ (Len(open') = 1 /\ open'[1].kind = "func")
  PROVE  NoneOpen' /\ Loops(open') = {}
BY DEF NoneOpen, IsOpen, CondKinds, Loops

FunctionName(x) == x \in DOMAIN EndName \union {EndName[f] : f \in DOMAIN EndName}

LEMMA FuncStep ==
  ASSUME LabelInv, NEW f \in Functions, func(f)
  PROVE  LabelInv' /\ Lasting
<1> DEFINE param == Var("LF", "var", unique_id)
           rest == IF Params[f] = 0 THEN <<>> ELSE code_generator_param_map(param)
           code == code_generator_function_label(f) \o rest
           D == IF Params[f] = 0 THEN {} ELSE {param}
           b == Block("func", 0, D)
           L == {Label("FUNCTION", f)}
           J == {Label("FUNCTION", EndName[f])}
<1>1. /\ Parse /\ open = <<>> /\ f \notin Defined /\ Emit(code, for_open) /\ Add("func", f, 0)
      /\ open' = <<b>> /\ unique_id' = unique_id + Params[f]
      /\ globals' = globals /\ cond_uid' = cond_uid /\ loop_uid' = loop_uid
  BY DEF func
<1>2. phase = "parse" /\ phase' = "parse" /\ UNCHANGED machineVars
  BY <1>1, ParseMeans
<1>3. SourceOK /\ OpenOK /\ cond_uid \in Nat /\ loop_uid \in Nat /\ unique_id \in Nat
        /\ globals \subseteq Variables
  BY DEF LabelInv
<1>4. Grown("func", f)
  BY <1>1, <1>3, SourceGrows DEF Kinds
<1>5. Len(source') \in Nat /\ Here \in 0..Len(source') /\ Here = Len(source') /\ Here \in Nat
        /\ Known' = Known \union {f} /\ f \notin Known
  BY <1>1, <1>4, GrownDefined, NotKnown
<1>6. param \in Variables /\ Params[f] \in 0..1
  BY <1>3, NewVarIs, ControlFlowAssumption DEF Functions
<1>7. Chunk(rest, Len(source'), {}, {})
  BY <1>5, <1>6, ParamCode, ChunkEmpty
<1>8. Chunk(code, Len(source'), L, J)
  <2> HIDE DEF rest
  <2>1. Chunk(code_generator_function_label(f), Len(source'), L, J)
    BY <1>5, LabelsAre, FunctionCode
  <2> HIDE DEF L, J
  <2> QED BY <1>7, <2>1, PlainConcat
<1>9. b \in Blocks /\ b.kind = "func" /\ b.at = Len(source')
  <2>1. D \in SUBSET Variables
    BY <1>6
  <2> HIDE DEF D, param
  <2> QED BY <1>5, <2>1 DEF Block, Blocks
<1>10. UidsGrow /\ unique_id' \in Nat
  BY <1>1, <1>3, <1>6 DEF UidsGrow
<1>11. NoneOpen /\ Loops(open) = {} /\ for_open = 0 /\ print_buffer = <<>>
  BY <1>1, NoneOpenNow, NoLoops
<1> HIDE DEF param, rest, code, D, b, L, J
<1>12. /\ Emitted(Len(source'), L, J) /\ for_open' = 0
       /\ out' = out \o code /\ print_buffer' = <<>>
  BY <1>1, <1>4, <1>8, <1>11, Printing
<1>13. AllLabels' = AllLabels \union L
  BY <1>12 DEF Emitted
<1>14. ParseStep("func", f, L, J)
  BY <1>1, <1>2, <1>3, <1>4, <1>10, <1>12 DEF ParseStep
<1>15. Apart(phase') /\ (NameClash => NameClash')
  BY <1>2, <1>14, StepApart DEF Apart
<1>16. /\ open' \in Seq(Blocks) /\ Len(open') = 1 /\ open'[1] = b /\ open' # <<>>
  BY <1>1, <1>9
<1>17. NoneOpen' /\ Loops(open') = {}
  BY <1>9, <1>16, NoneOpenNext
<1>18. source'[Len(source')].kind = "func" /\ source'[Len(source')].f = f /\ Len(source') \in 1..Len(source')
  BY <1>4 DEF Grown
<1>19. OpenOK'
  <2>1. ASSUME NEW k \in 1..Len(open')
        PROVE  /\ open'[k].at \in 1..Len(source')
               /\ open'[k].kind = "func" => k = 1 /\ source'[open'[k].at].kind = "func"
               /\ open'[k].kind \in CondKinds => open'[k].uid < cond_uid'
               /\ open'[k].kind = "while" => open'[k].uid < loop_uid'
    <3>1. k = 1
      BY <1>16
    <3> QED BY <1>9, <1>16, <1>18, <3>1 DEF CondKinds
  <2>2. \A k, m \in 1..Len(open') : k = m
    BY <1>16
  <2> QED BY <1>16, <2>1, <2>2 DEF OpenOK
<1>20. \A g : ~IsOpenFunction(g)
  BY <1>1 DEF IsOpenFunction, InFunction
<1>21. ASSUME NEW g PROVE IsOpenFunction(g)' <=> g = f
  BY <1>9, <1>16, <1>18 DEF IsOpenFunction, InFunction, CurrentFunction
<1>22. ASSUME NEW name, NEW u PROVE Label(name, u) \in L <=> name = "FUNCTION" /\ u = f
  BY LabelEq DEF L
<1>23. CondLabels'
  <2>1. CondLabels /\ \A u \in Nat : Label("ELSE", u) \notin L /\ Label("IF_END", u) \notin L
    BY <1>22 DEF LabelInv
  <2>2. \A u \in Nat : (IsOpen({"if"}, u)' <=> IsOpen({"if"}, u))
                         /\ (IsOpen(CondKinds, u)' <=> IsOpen(CondKinds, u))
    BY <1>11, <1>17 DEF NoneOpen
  <2> QED BY <1>1, <1>13, <2>1, <2>2, CondsKept
<1>24. LoopLabels'
  <2>1. LoopLabels /\ \A u \in Nat : /\ Label("FOR", u) \notin L /\ Label("FOR_BODY", u) \notin L
                                     /\ Label("FOR_END", u) \notin L
    BY <1>22 DEF LabelInv
  <2>2. \A u \in Nat : IsOpen({"while"}, u)' <=> IsOpen({"while"}, u)
    BY <1>11, <1>17 DEF NoneOpen
  <2> QED BY <1>1, <1>13, <2>1, <2>2, LoopsKept
<1>25. FunctionLabels'
  <2>1. ASSUME NEW x \in DOMAIN EndName \union {EndName[g] : g \in DOMAIN EndName}
        PROVE  Label("FUNCTION", x) \in AllLabels'
                 <=> x \in Known' \/ \E g \in Known' : ~IsOpenFunction(g)' /\ x = EndName[g]
    <3>1. Label("FUNCTION", x) \in AllLabels <=> x \in Known \/ \E g \in Known : x = EndName[g]
      BY <1>20 DEF LabelInv, FunctionLabels
    <3>2. Label("FUNCTION", x) \in AllLabels' <=> Label("FUNCTION", x) \in AllLabels \/ x = f
      BY <1>13, <1>22
    <3>3. (\E g \in Known' : ~IsOpenFunction(g)' /\ x = EndName[g]) <=> \E g \in Known : x = EndName[g]
      BY <1>1, <1>5, <1>21
    <3> QED BY <1>5, <3>1, <3>2, <3>3
  <2> QED BY <2>1 DEF FunctionLabels
<1>26. FunctionsOK'
  <2>1. ASSUME NEW g \in Known
        PROVE  /\ Behind(Label("FUNCTION", g), "JUMP")'
               /\ Behind(Label("FUNCTION", EndName[g]), "RETURN")'
    <3>1. Behind(Label("FUNCTION", g), "JUMP") /\ Behind(Label("FUNCTION", EndName[g]), "RETURN")
      BY <1>20 DEF LabelInv, FunctionsOK
    <3> QED BY <1>12, <3>1, BehindKept
  <2>2. Behind(Label("FUNCTION", f), "JUMP")'
    <3> DEFINE x == Instr("JUMP", Label("FUNCTION", EndName[f]))
               y == Instr("LABEL", Label("FUNCTION", f))
               S == Instrs(Len(source'))
               p == code_generator_pushframe
    <3>1. x \in S /\ y \in S /\ x.op = "JUMP" /\ y.op = "LABEL" /\ y.arg = Label("FUNCTION", f)
      <4>1. /\ Label("FUNCTION", f) \in LabelSet /\ Label("FUNCTION", EndName[f]) \in LabelSet
            /\ 0 \in 0..Len(source') /\ "JUMP" \in GotoOps
        BY <1>5, LabelsAre DEF GotoOps
      <4>2. x \in S /\ y \in S
        BY <1>5, <4>1, LabelInstr, GotoInstr DEF Instr
      <4> QED BY <4>2 DEF Instr, InstrAt
    <3>2. p \in Seq(S) /\ rest \in Seq(S) /\ p \o rest \in Seq(S) /\ out \in Seq(S)
      <4>1. p \in Seq(S) /\ rest \in Seq(S) /\ out \in Seq(S)
        BY <1>4, <1>5, <1>7, FrameCode, CodeGrows DEF Chunk, Piece
      <4> HIDE DEF p, S
      <4> QED BY <4>1, ConcatProperties
    <3>3. code = (<<x, y>> \o p) \o rest
      BY DEF code, code_generator_function_label
    <3> HIDE DEF x, y, S, p
    <3>4. <<x, y>> \in Seq(S) /\ <<>> \in Seq(S) /\ <<>> \o <<x, y>> = <<x, y>>
      BY <3>1, ConcatEmptySeq
    <3>5. (<<x, y>> \o p) \o rest = <<x, y>> \o (p \o rest)
      BY <3>2, <3>4, ConcatAssociative
    <3>6. out' = out \o ((<<>> \o <<x, y>>) \o (p \o rest))
      BY <1>12, <3>3, <3>4, <3>5
    <3> QED BY <3>1, <3>2, <3>4, <3>6, PrintedBehind
  <2>3. ASSUME NEW g \in Known'
        PROVE  /\ Behind(Label("FUNCTION", g), "JUMP")'
               /\ ~IsOpenFunction(g)' => Behind(Label("FUNCTION", EndName[g]), "RETURN")'
    <3>1. g \in Known \/ g = f
      BY <1>5
    <3> QED BY <1>21, <2>1, <2>2, <3>1
  <2> QED BY <2>3 DEF FunctionsOK
<1>27. EofLabel'
  <2>1. EofLabel /\ Label("EOF", 0) \notin L
    BY <1>22 DEF LabelInv
  <2> QED BY <1>2, <1>12, <2>1, EofKept
<1>28. GotosOK'
  <2>1. ASSUME NEW l \in J PROVE IsTarget(l)'
    BY <1>5 DEF J, IsTarget
  <2> QED BY <1>4, <1>10, <1>12, <2>1, GotosKept DEF LabelInv
<1>29. ~NameClash' => Distinct'
  <2>1. ASSUME ~NameClash' PROVE L \intersect AllLabels = {}
    <3>1. f \in DOMAIN EndName
      BY ControlFlowAssumption DEF Functions
    <3>2. Label("FUNCTION", f) \in AllLabels <=> f \in Known \/ \E g \in Known : f = EndName[g]
      BY <1>20, <3>1 DEF LabelInv, FunctionLabels
    <3>3. ASSUME NEW g \in Known PROVE f # EndName[g]
      <4>1. g \in Known' /\ f \in Known'
        BY <1>5
      <4> QED BY <2>1, <4>1 DEF NameClash
    <3> QED BY <1>5, <3>2, <3>3 DEF L
  <2> QED BY <1>12, <1>15, <2>1, DistinctKept DEF LabelInv
<1>30. CountOK'
  <2>1. Cardinality(Loops(open')) = 0
    BY <1>17, FS_EmptySet
  <2> QED BY <1>12, <2>1 DEF CountOK, Loops
<1> QED BY <1>2, <1>15, <1>19, <1>23, <1>24, <1>25, <1>26, <1>27, <1>28, <1>29, <1>30, FromParts

LEMMA EndFuncStep ==
  ASSUME LabelInv, EndFunc
  PROVE  LabelInv' /\ Lasting
<1>0. PICK f : f = CurrentFunction
  OBVIOUS
<1> DEFINE code == code_generator_function_end(f, Here)
           L == {Label("FUNCTION", EndName[f])}
           J == {}
<1>1. /\ phase = "parse" /\ TopIs("func") /\ Emit(code, for_open)
      /\ open' = <<>> /\ Add("endfunc", "none", Top.at) /\ CloseUnchanged
  BY <1>0 DEF EndFunc
<1>2. open # <<>> /\ Top.kind = "func" /\ OpenOK
  BY <1>1 DEF TopIs, LabelInv
<1>3. Top.at \in Nat /\ Len(open) \in 1..Len(open) /\ Top = open[Len(open)]
  BY <1>2, TopFacts
<1>4. /\ UidsGrow /\ Grown("endfunc", "none") /\ phase' = phase /\ UNCHANGED machineVars
      /\ globals' = globals /\ globals \subseteq Variables
      /\ unique_id' = unique_id /\ unique_id \in Nat
      /\ cond_uid' = cond_uid /\ cond_uid \in Nat /\ loop_uid' = loop_uid /\ loop_uid \in Nat
      /\ Known' = Known /\ Len(source') \in Nat /\ SourceOK /\ Here \in 0..Len(source')
  BY <1>1, <1>3, CloseMeans DEF Kinds
<1>5. Len(open) = 1 /\ open[1].kind = "func" /\ open[1].at \in 1..Len(source)
        /\ source[open[1].at].kind = "func"
  BY <1>2, <1>3 DEF OpenOK
<1>6. f \in Known /\ f \in Names
  BY <1>0, <1>4, <1>5, InDefined, LabelsAre DEF CurrentFunction, SourceOK, Known
<1>7. NoneOpen /\ Loops(open) = {} /\ for_open = 0 /\ NoneOpen' /\ Loops(open') = {} /\ print_buffer = <<>>
  BY <1>1, <1>5, NoneOpenNow, NoneOpenNext, NoLoops
<1>8. Chunk(code, Len(source'), L, J)
  BY <1>4, <1>6, FunctionCode
<1> HIDE DEF code, L, J
<1>9. /\ Emitted(Len(source'), L, J) /\ for_open' = 0
      /\ out' = out \o code /\ print_buffer' = <<>>
  BY <1>1, <1>4, <1>7, <1>8, Printing
<1>10. AllLabels' = AllLabels \union L
  BY <1>9 DEF Emitted
<1>11. ParseStep("endfunc", "none", L, J) /\ phase' = "parse"
  BY <1>1, <1>4, <1>9 DEF ParseStep
<1>12. Apart(phase') /\ (NameClash => NameClash')
  BY <1>11, StepApart DEF Apart
<1>13. OpenOK'
  BY <1>1 DEF OpenOK
<1>14. ASSUME NEW g PROVE (IsOpenFunction(g) <=> g = f) /\ ~IsOpenFunction(g)'
  BY <1>0, <1>1, <1>2, <1>5 DEF IsOpenFunction, InFunction
<1>15. ASSUME NEW name, NEW u PROVE Label(name, u) \in L <=> name = "FUNCTION" /\ u = EndName[f]
  BY LabelEq DEF L
<1>16. CondLabels'
  <2>1. CondLabels /\ \A u \in Nat : Label("ELSE", u) \notin L /\ Label("IF_END", u) \notin L
    BY <1>15 DEF LabelInv
  <2>2. \A u \in Nat : (IsOpen({"if"}, u)' <=> IsOpen({"if"}, u))
                         /\ (IsOpen(CondKinds, u)' <=> IsOpen(CondKinds, u))
    BY <1>7 DEF NoneOpen
  <2> QED BY <1>4, <1>10, <2>1, <2>2, CondsKept
<1>17. LoopLabels'
  <2>1. LoopLabels /\ \A u \in Nat : /\ Label("FOR", u) \notin L /\ Label("FOR_BODY", u) \notin L
                                     /\ Label("FOR_END", u) \notin L
    BY <1>15 DEF LabelInv
  <2>2. \A u \in Nat : IsOpen({"while"}, u)' <=> IsOpen({"while"}, u)
    BY <1>7 DEF NoneOpen
  <2> QED BY <1>4, <1>10, <2>1, <2>2, LoopsKept
<1>18. FunctionLabels'
  <2>1. ASSUME NEW x \in DOMAIN EndName \union {EndName[g] : g \in DOMAIN EndName}
        PROVE  Label("FUNCTION", x) \in AllLabels'
                 <=> x \in Known' \/ \E g \in Known' : ~IsOpenFunction(g)' /\ x = EndName[g]
    <3>1. Label("FUNCTION", x) \in AllLabels
            <=> x \in Known \/ \E g \in Known : ~IsOpenFunction(g) /\ x = EndName[g]
      BY DEF LabelInv, FunctionLabels
    <3>2. Label("FUNCTION", x) \in AllLabels' <=> Label("FUNCTION", x) \in AllLabels \/ x = EndName[f]
      BY <1>10, <1>15
    <3> QED BY <1>4, <1>6, <1>14, <3>1, <3>2
  <2> QED BY <2>1 DEF FunctionLabels
<1>19. FunctionsOK'
  <2>1. ASSUME NEW g \in Known
        PROVE  /\ Behind(Label("FUNCTION", g), "JUMP")'
               /\ g # f => Behind(Label("FUNCTION", EndName[g]), "RETURN")'
    <3>1. /\ Behind(Label("FUNCTION", g), "JUMP")
          /\ g # f => Behind(Label("FUNCTION", EndName[g]), "RETURN")
      BY <1>14 DEF LabelInv, FunctionsOK
    <3> QED BY <1>9, <3>1, BehindKept
  <2>2. Behind(Label("FUNCTION", EndName[f]), "RETURN")'
    <3> DEFINE x == InstrAt("RETURN", "none", Here)
               y == Instr("LABEL", Label("FUNCTION", EndName[f]))
               S == Instrs(Len(source'))
               p == code_generator_popframe
    <3>1. x \in S /\ x.op = "RETURN"
      <4>1. "RETURN" \in Ops \ (GotoOps \union {"LABEL"}) /\ "none" \in Arguments
        BY DEF Ops, GotoOps, Arguments
      <4>2. IsPlain(x, Len(source'))
        BY <1>4, <4>1, PlainAt
      <4>3. x.op = "RETURN"
        BY DEF InstrAt
      <4> QED BY <4>2, <4>3 DEF IsPlain
    <3>2. y \in S /\ y.op = "LABEL" /\ y.arg = Label("FUNCTION", EndName[f])
      <4>1. Label("FUNCTION", EndName[f]) \in LabelSet /\ 0 \in 0..Len(source')
        BY <1>4, <1>6, LabelsAre
      <4>2. y \in S
        BY <1>4, <4>1, LabelInstr DEF Instr
      <4> QED BY <4>2 DEF Instr, InstrAt
    <3>3. p \in Seq(S) /\ out \in Seq(S)
      BY <1>4, FrameCode, CodeGrows DEF Chunk, Piece
    <3>4. code = (p \o <<x>>) \o <<y>>
      BY DEF code, code_generator_function_end, code_generator_return
    <3> HIDE DEF x, y, S, p
    <3>5. <<x>> \in Seq(S) /\ <<y>> \in Seq(S) /\ <<>> \in Seq(S) /\ <<x, y>> \in Seq(S)
      BY <3>1, <3>2
    <3>6. (p \o <<x>>) \o <<y>> = p \o (<<x>> \o <<y>>)
      BY <3>3, <3>5, ConcatAssociative
    <3>7. <<x>> \o <<y>> = <<x, y>>
      BY <3>1, <3>2, TwoIsConcat
    <3>8. p \o <<x, y>> \in Seq(S) /\ (p \o <<x, y>>) \o <<>> = p \o <<x, y>>
      BY <3>3, <3>5, ConcatProperties, ConcatEmptySeq
    <3>9. out' = out \o ((p \o <<x, y>>) \o <<>>)
      BY <1>9, <3>4, <3>6, <3>7, <3>8
    <3> QED BY <3>1, <3>2, <3>3, <3>5, <3>9, PrintedBehind
  <2>3. ASSUME NEW g \in Known'
        PROVE  /\ Behind(Label("FUNCTION", g), "JUMP")'
               /\ Behind(Label("FUNCTION", EndName[g]), "RETURN")'
    BY <1>4, <2>1, <2>2
  <2> QED BY <2>3 DEF FunctionsOK
<1>20. EofLabel'
  <2>1. EofLabel /\ Label("EOF", 0) \notin L
    BY <1>15 DEF LabelInv
  <2> QED BY <1>1, <1>9, <1>11, <2>1, EofKept
<1>21. GotosOK'
  <2>1. \A l \in J : IsTarget(l)'
    BY DEF J
  <2> QED BY <1>4, <1>9, <2>1, GotosKept DEF LabelInv
<1>22. ~NameClash' => Distinct'
  <2>1. ASSUME ~NameClash' PROVE L \intersect AllLabels = {}
    <3>1. Known \subseteq DOMAIN EndName
      BY <1>4, DefinedAre, LabelsAre
    <3>2. Label("FUNCTION", EndName[f]) \in AllLabels
            <=> EndName[f] \in Known \/ \E g \in Known : ~IsOpenFunction(g) /\ EndName[f] = EndName[g]
      BY <1>6, <3>1 DEF LabelInv, FunctionLabels
    <3>3. EndName[f] \notin Known
      BY <1>4, <1>6, <2>1 DEF NameClash
    <3>4. ASSUME NEW g \in Known, EndName[f] = EndName[g] PROVE IsOpenFunction(g)
      BY <1>6, <1>14, <3>1, <3>4, ControlFlowAssumption
    <3> QED BY <3>2, <3>3, <3>4 DEF L
  <2> QED BY <1>9, <1>12, <2>1, DistinctKept DEF LabelInv
<1>23. CountOK'
  <2>1. Cardinality(Loops(open')) = 0
    BY <1>7, FS_EmptySet
  <2> QED BY <1>9, <2>1 DEF CountOK, Loops
<1> QED BY <1>11, <1>12, <1>13, <1>16, <1>17, <1>18, <1>19, <1>20, <1>21, <1>22, <1>23, FromParts

LEMMA EofStep ==
  ASSUME LabelInv, Eof
  PROVE  LabelInv' /\ Lasting
<1> DEFINE code == <<InstrAt("LABEL", Label("EOF", 0), Here)>>
           L == {Label("EOF", 0)}
           J == {}
<1>1. /\ phase = "parse" /\ open = <<>> /\ Called \subseteq Defined /\ Emit(code, for_open)
      /\ Add("eof", "none", 0) /\ phase' = "load" /\ open' = open
      /\ globals' = globals /\ unique_id' = unique_id /\ cond_uid' = cond_uid /\ loop_uid' = loop_uid
      /\ UNCHANGED machineVars
  BY DEF Eof
<1>2. SourceOK /\ OpenOK /\ cond_uid \in Nat /\ loop_uid \in Nat /\ unique_id \in Nat
        /\ globals \subseteq Variables
  BY DEF LabelInv
<1>3. Grown("eof", "none") /\ UidsGrow
  BY <1>1, <1>2, SourceGrows DEF Kinds, UidsGrow
<1>4. Len(source') \in Nat /\ Here \in 0..Len(source') /\ Known' = Known /\ Called' = Called
      /\ Defined' = Defined
  BY <1>3, GrownDefined DEF Grown
<1>5. BlocksKept
  BY <1>1, <1>3, SameBlocks
<1>6. /\ OpenOK' /\ Loops(open') = Loops(open)
      /\ \A K, u : IsOpen(K, u)' <=> IsOpen(K, u)
      /\ \A g : IsOpenFunction(g)' <=> IsOpenFunction(g)
  BY <1>5 DEF BlocksKept
<1>7. Chunk(code, Len(source'), L, J)
  BY <1>4, LabelsAre, OneLabel DEF LabelNames
<1> HIDE DEF code, L, J
<1>8. Emitted(Len(source'), L, J) /\ for_open' = for_open /\ (for_open = 0 => print_buffer' = print_buffer)
  BY <1>1, <1>3, <1>7, Printing
<1>9. AllLabels' = AllLabels \union L
  BY <1>8 DEF Emitted
<1>10. ParseStep("eof", "none", L, J)
  BY <1>1, <1>2, <1>3, <1>8 DEF ParseStep
<1>11. Apart(phase') /\ (NameClash => NameClash')
  BY <1>1, <1>10, StepApart DEF Apart
<1>12. ASSUME NEW name, NEW u PROVE Label(name, u) \in L <=> name = "EOF" /\ u = 0
  BY LabelEq DEF L
<1>13. CondLabels'
  <2>1. CondLabels /\ \A u \in Nat : Label("ELSE", u) \notin L /\ Label("IF_END", u) \notin L
    BY <1>12 DEF LabelInv
  <2> QED BY <1>1, <1>6, <1>9, <2>1, CondsKept
<1>14. LoopLabels'
  <2>1. LoopLabels /\ \A u \in Nat : /\ Label("FOR", u) \notin L /\ Label("FOR_BODY", u) \notin L
                                     /\ Label("FOR_END", u) \notin L
    BY <1>12 DEF LabelInv
  <2> QED BY <1>1, <1>6, <1>9, <2>1, LoopsKept
<1>15. FunctionLabels' /\ FunctionsOK'
  <2>1. FunctionLabels /\ FunctionsOK /\ \A x : Label("FUNCTION", x) \notin L
    BY <1>12 DEF LabelInv
  <2> QED BY <1>4, <1>6, <1>8, <2>1, FunctionsKept
<1>16. EofLabel'
  BY <1>1, <1>9 DEF EofLabel, L
<1>17. GotosOK'
  <2>1. \A l \in J : IsTarget(l)'
    BY DEF J
  <2> QED BY <1>3, <1>8, <2>1, GotosKept DEF LabelInv
<1>18. ~NameClash' => Distinct'
  <2>1. L \intersect AllLabels = {}
    BY <1>1 DEF LabelInv, EofLabel, L
  <2> QED BY <1>8, <1>11, <2>1, DistinctKept DEF LabelInv
<1>19. CountOK'
  BY <1>6, <1>8, CountKept DEF LabelInv
<1>20. PhaseOK'
  BY <1>1, <1>4 DEF PhaseOK
<1> QED BY <1>6, <1>11, <1>13, <1>14, <1>15, <1>16, <1>17, <1>18, <1>19, <1>20 DEF LabelInv, Apart, Lasting

-----------------------------------------------------------------------------
(* The machine.                                                            *)

\* A complete program without a clash of names passes the machine's check of labels.
LEMMA LabelsAccepted ==
  ASSUME LabelInv, phase = "load", ~NameClash
  PROVE  LabelsUnique /\ LabelsDefined
<1>1. open = <<>> /\ Called \subseteq Defined /\ SourceOK
  BY DEF LabelInv, PhaseOK
<1>2. NoneOpen /\ print_buffer = <<>>
  BY <1>1, NoneOpenNow, NoLoops
<1>3. Once(out)
  BY DEF LabelInv, Distinct
<1>4. LabelsUnique
  BY <1>3 DEF LabelsUnique, Once
<1>5. AllLabels = Labels(out) /\ AllGotos = Gotos(out)
  BY <1>2, PieceEmpty DEF AllLabels, AllGotos, Piece
<1>6. ASSUME NEW l \in AllGotos PROVE l \in AllLabels
  <2>1. IsTarget(l)
    BY DEF LabelInv, GotosOK
  <2>2. ASSUME NEW u \in Nat, u < cond_uid, l \in {Label("ELSE", u), Label("IF_END", u)}
        PROVE  l \in AllLabels
    BY <1>2, <2>2 DEF LabelInv, CondLabels, NoneOpen
  <2>3. ASSUME NEW u \in Nat, u < loop_uid, l \in {Label("FOR", u), Label("FOR_BODY", u), Label("FOR_END", u)}
        PROVE  l \in AllLabels
    BY <1>2, <2>3 DEF LabelInv, LoopLabels, NoneOpen
  <2>4. ASSUME NEW f \in Known PROVE /\ Label("FUNCTION", f) \in AllLabels
                                       /\ Label("FUNCTION", EndName[f]) \in AllLabels
    <3>1. f \in DOMAIN EndName
      BY <1>1, DefinedAre, LabelsAre
    <3>2. ~IsOpenFunction(f)
      BY <1>1 DEF IsOpenFunction, InFunction
    <3> QED BY <3>1, <3>2 DEF LabelInv, FunctionLabels
  <2>5. Called \subseteq Known
    BY <1>1 DEF Known
  <2> QED BY <2>1, <2>2, <2>3, <2>4, <2>5 DEF IsTarget
<1>7. ASSUME NEW i \in 1..Len(out), out[i].op \in {"JUMP", "JUMPIFNEQS", "CALL"}
      PROVE  Targets(out[i].arg) # {}
  <2>1. out[i].arg \in Gotos(out)
    BY <1>7, NamedBy DEF Gotos, GotoOps
  <2>2. out[i].arg \in Labels(out)
    BY <1>5, <1>6, <2>1
  <2>3. PICK j \in 1..Len(out) : out[j].op \in {"LABEL"} /\ out[j].arg = out[i].arg
    BY <2>2, NamedBy DEF Labels
  <2> QED BY <2>3 DEF Targets
<1>8. LabelsDefined
  BY <1>7 DEF LabelsDefined
<1> QED BY <1>4, <1>8

\* Nothing changes but the phase and the machine.
LEMMA ProgramKept ==
  ASSUME LabelInv, UNCHANGED <<parserVars, generatorVars>>, phase # "parse", phase' # "parse",
         PhaseOK', MachineOK'
  PROVE  LabelInv'
<1>1. /\ source' = source /\ open' = open /\ globals' = globals /\ cond_uid' = cond_uid
      /\ loop_uid' = loop_uid /\ unique_id' = unique_id /\ for_open' = for_open
      /\ print_buffer' = print_buffer /\ out' = out
  BY DEF parserVars, generatorVars
<1>2. /\ Known' = Known /\ Called' = Called /\ AllLabels' = AllLabels /\ AllGotos' = AllGotos
      /\ (NameClash' <=> NameClash) /\ (Distinct' <=> Distinct)
  BY <1>1, SameFunctions DEF AllLabels, AllGotos, Distinct
<1>3. SourceOK' /\ OpenOK' /\ CountOK' /\ CodeOK'
  BY <1>1 DEF LabelInv, SourceOK, OpenOK, CountOK, Loops, CodeOK
<1>4. /\ \A K, u : IsOpen(K, u)' <=> IsOpen(K, u)
      /\ \A f : IsOpenFunction(f)' <=> IsOpenFunction(f)
      /\ \A l, op : Behind(l, op)' <=> Behind(l, op)
      /\ \A l : IsTarget(l)' <=> IsTarget(l)
  BY <1>1, <1>2 DEF IsOpen, IsOpenFunction, InFunction, CurrentFunction, Behind, IsTarget
<1>5. CondLabels' /\ LoopLabels' /\ FunctionLabels' /\ EofLabel' /\ GotosOK' /\ FunctionsOK'
  <2>1. CondLabels'
    BY <1>1, <1>2, <1>4 DEF LabelInv, CondLabels
  <2>2. LoopLabels'
    BY <1>1, <1>2, <1>4 DEF LabelInv, LoopLabels
  <2>3. FunctionLabels' /\ FunctionsOK'
    BY <1>1, <1>2, <1>4 DEF LabelInv, FunctionLabels, FunctionsOK
  <2>4. EofLabel' /\ GotosOK'
    BY <1>1, <1>2, <1>4 DEF LabelInv, EofLabel, GotosOK
  <2> QED BY <2>1, <2>2, <2>3, <2>4
<1> QED BY <1>1, <1>2, <1>3, <1>5 DEF LabelInv

LEMMA LoadStep ==
  ASSUME LabelInv, Load
  PROVE  LabelInv'
<1>1. /\ phase = "load" /\ phase' = IF LabelsUnique /\ LabelsDefined THEN "run" ELSE "rejected"
      /\ UNCHANGED <<parserVars, generatorVars>> /\ UNCHANGED machineVars
  BY DEF Load
<1>2. /\ open' = open /\ out' = out /\ source' = source
      /\ ip' = ip /\ tf' = tf /\ calls' = calls /\ position' = position
  BY <1>1 DEF parserVars, generatorVars, machineVars
<1>3. MachineOK'
  BY <1>1, <1>2 DEF LabelInv, MachineOK
<1>4. PhaseOK'
  <2>1. Defined' = Defined /\ Called' = Called /\ (NameClash' <=> NameClash)
        /\ (LabelsUnique' <=> LabelsUnique) /\ (LabelsDefined' <=> LabelsDefined)
    BY <1>2, SameFunctions DEF LabelsUnique, LabelsDefined, Targets
  <2>2. phase' = "rejected" => NameClash
    BY <1>1, LabelsAccepted
  <2> QED BY <1>1, <1>2, <2>1, <2>2 DEF LabelInv, PhaseOK
<1> QED BY <1>1, <1>3, <1>4, ProgramKept

LEMMA MachineStep ==
  ASSUME LabelInv, Machine, UNCHANGED <<parserVars, generatorVars, phase>>
  PROVE  LabelInv'
<1>1. /\ open' = open /\ out' = out /\ source' = source /\ phase' = phase
      /\ UNCHANGED <<parserVars, generatorVars>>
  BY DEF parserVars, generatorVars
<1>2. phase = "run" /\ ip \in 1..Len(out) /\ ip + 1 \in 2..(Len(out) + 1) /\ ip + 1 \in 1..(Len(out) + 1)
  <2>1. phase = "run" /\ ip <= Len(out)
    BY DEF Machine, Compute, Jump, Use, Defvar, Createframe, Pushframe, Popframe, Call, Return, Running
  <2>2. ip \in 1..(Len(out) + 1) /\ Len(out) \in Nat
    BY DEF LabelInv, MachineOK, CodeOK
  <2> QED BY <2>1, <2>2
<1>3. out \in Seq(Instrs(Len(source))) /\ Len(source) \in Nat
  BY DEF LabelInv, CodeOK, SourceOK
<1>4. \A i \in 1..Len(out) : out[i].at \in 0..Len(source)
  BY <1>3 DEF Instrs
<1>5. /\ Len(tf) <= 1 /\ Len(calls) <= MaxCalls /\ calls \in Seq(2..(Len(out) + 1))
      /\ position \in [at : 0..Len(source), entered : BOOLEAN] /\ MaxCalls \in Nat /\ Len(out) \in Nat
  BY <1>3, ControlFlowAssumption DEF LabelInv, MachineOK
<1>6. \A l : Targets(l) \subseteq 1..(Len(out) + 1)
  BY <1>5 DEF Targets
<1>7. ASSUME NEW a \in 0..Len(source), NEW e \in BOOLEAN
      PROVE  [at |-> a, entered |-> e] \in [at : 0..Len(source), entered : BOOLEAN]
  OBVIOUS
<1>8. /\ ip' \in 1..(Len(out) + 1) /\ Len(tf') <= 1 /\ Len(calls') <= MaxCalls
      /\ calls' \in Seq(2..(Len(out) + 1))
      /\ position' \in [at : 0..Len(source), entered : BOOLEAN]
  <2>1. CASE Compute
    <3>1. ip' = ip + 1 /\ tf' = tf /\ calls' = calls
          /\ position' = IF Current.at = 0 THEN position ELSE [at |-> Current.at, entered |-> FALSE]
      BY <2>1 DEF Compute, Executed
    <3>2. Current.at \in 0..Len(source)
      BY <1>2, <1>4 DEF Current
    <3>3. position' \in [at : 0..Len(source), entered : BOOLEAN]
      BY <1>5, <1>7, <3>1, <3>2
    <3> QED BY <1>2, <1>5, <3>1, <3>3
  <2>2. CASE Jump
    BY <1>2, <1>5, <1>6, <2>2 DEF Jump
  <2>3. CASE Use
    BY <1>2, <1>5, <2>3 DEF Use
  <2>4. CASE Defvar
    <3>1. ip' = ip + 1 /\ calls' = calls /\ position' = position
          /\ tf' = IF Current.arg.frame = "TF" THEN <<tf[1] \union {Current.arg.id}>> ELSE tf
      BY <2>4 DEF Defvar
    <3> QED BY <1>2, <1>5, <3>1
  <2>5. CASE Createframe
    BY <1>2, <1>5, <2>5 DEF Createframe
  <2>6. CASE Pushframe
    BY <1>2, <1>5, <2>6 DEF Pushframe
  <2>7. CASE Popframe
    BY <1>2, <1>5, <2>7 DEF Popframe
  <2>8. CASE Call
    <3>1. /\ Len(calls) < MaxCalls /\ ip' \in Targets(Current.arg) /\ calls' = Append(calls, ip + 1)
          /\ position' = [at |-> Current.at, entered |-> TRUE] /\ tf' = tf
      BY <2>8 DEF Call
    <3>2. Current.at \in 0..Len(source)
      BY <1>2, <1>4 DEF Current
    <3>3. position' \in [at : 0..Len(source), entered : BOOLEAN]
      BY <1>7, <3>1, <3>2
    <3>4. calls' \in Seq(2..(Len(out) + 1)) /\ Len(calls') = Len(calls) + 1 /\ Len(calls) \in Nat
      BY <1>2, <1>5, <3>1, AppendProperties
    <3> QED BY <1>5, <1>6, <3>1, <3>3, <3>4
  <2>9. CASE Return
    <3>1. /\ calls # <<>> /\ ip' = Last(calls) /\ calls' = Front(calls)
          /\ position' = [at |-> out[ip' - 1].at, entered |-> FALSE] /\ tf' = tf
      BY <2>9 DEF Return
    <3>2. Len(calls) \in Nat /\ Len(calls) # 0 /\ \A k \in 1..Len(calls) : calls[k] \in 2..(Len(out) + 1)
      BY <1>5, <3>1, EmptySeq
    <3>3. ip' \in 2..(Len(out) + 1) /\ ip' \in 1..(Len(out) + 1) /\ ip' - 1 \in 1..Len(out)
      <4>1. Len(calls) \in 1..Len(calls)
        BY <3>2
      <4> QED BY <1>5, <3>1, <3>2, <4>1 DEF Last
    <3>4. calls' \in Seq(2..(Len(out) + 1)) /\ Len(calls') <= Len(calls)
      <4>1. /\ Len(calls) - 1 \in Int /\ Len(calls) - 1 - 1 + 1 = Len(calls) - 1
            /\ \A i \in 1..(Len(calls) - 1) : calls[i] \in 2..(Len(out) + 1)
        BY <3>2
      <4>2. /\ SubSeq(calls, 1, Len(calls) - 1) \in Seq(2..(Len(out) + 1))
            /\ Len(SubSeq(calls, 1, Len(calls) - 1)) =
                 IF 1 <= Len(calls) - 1 THEN Len(calls) - 1 - 1 + 1 ELSE 0
        BY <4>1, SubSeqProperties
      <4> QED BY <3>1, <3>2, <4>1, <4>2 DEF Front
    <3>5. position' \in [at : 0..Len(source), entered : BOOLEAN]
      BY <1>4, <1>7, <3>1, <3>3
    <3> QED BY <1>5, <3>1, <3>2, <3>3, <3>4, <3>5
  <2> QED BY <2>1, <2>2, <2>3, <2>4, <2>5, <2>6, <2>7, <2>8, <2>9 DEF Machine
<1>9. MachineOK'
  BY <1>1, <1>2, <1>8 DEF MachineOK
<1>10. PhaseOK'
  <2>1. Defined' = Defined /\ Called' = Called /\ (LabelsUnique' <=> LabelsUnique)
        /\ (LabelsDefined' <=> LabelsDefined)
    BY <1>1, SameFunctions DEF LabelsUnique, LabelsDefined, Targets
  <2> QED BY <1>1, <1>2, <2>1 DEF LabelInv, PhaseOK
<1> QED BY <1>1, <1>2, <1>9, <1>10, ProgramKept

-----------------------------------------------------------------------------
(* The theorems.                                                           *)

\* Code in which a label is printed behind an instruction op.
BehindIn(c, l, op) == \E i \in 2..Len(c) : c[i].op = "LABEL" /\ c[i].arg = l /\ c[i - 1].op = op

LEMMA BehindConcat ==
  ASSUME NEW S, NEW c \in Seq(S), NEW d \in Seq(S), NEW l, NEW op
  PROVE  BehindIn(c, l, op) \/ BehindIn(d, l, op) => BehindIn(c \o d, l, op)
<1> DEFINE w == c \o d
<1>1. /\ Len(c) \in Nat /\ Len(d) \in Nat /\ Len(w) = Len(c) + Len(d)
      /\ \A i \in 1..(Len(c) + Len(d)) : w[i] = IF i <= Len(c) THEN c[i] ELSE d[i - Len(c)]
  BY LenProperties, ConcatProperties
<1> HIDE DEF w
<1>2. ASSUME BehindIn(c, l, op) PROVE BehindIn(w, l, op)
  <2>1. PICK i \in 2..Len(c) : c[i].op = "LABEL" /\ c[i].arg = l /\ c[i - 1].op = op
    BY <1>2 DEF BehindIn
  <2>2. i \in 2..Len(w) /\ w[i] = c[i] /\ w[i - 1] = c[i - 1]
    BY <1>1
  <2> QED BY <2>1, <2>2 DEF BehindIn
<1>3. ASSUME BehindIn(d, l, op) PROVE BehindIn(w, l, op)
  <2>1. PICK i \in 2..Len(d) : d[i].op = "LABEL" /\ d[i].arg = l /\ d[i - 1].op = op
    BY <1>3 DEF BehindIn
  <2>2. PICK j : j = i + Len(c)
    OBVIOUS
  <2>3. /\ j \in 2..Len(w) /\ j \in 1..(Len(c) + Len(d)) /\ ~(j <= Len(c)) /\ j - Len(c) = i
        /\ j - 1 \in 1..(Len(c) + Len(d)) /\ ~(j - 1 <= Len(c)) /\ (j - 1) - Len(c) = i - 1
    BY <1>1, <2>2
  <2>4. w[j] = d[i] /\ w[j - 1] = d[i - 1]
    BY <1>1, <2>3
  <2> QED BY <2>1, <2>3, <2>4 DEF BehindIn
<1> QED BY <1>2, <1>3 DEF w

\* The head of a function, its end, and all the code of a built-in one.
LEMMA BuiltinCode ==
  ASSUME NEW f \in Builtins
  PROVE  LET c == code_generator_builtin(f)
         IN /\ Chunk(c, 0, {Label("FUNCTION", f), Label("FUNCTION", EndName[f])},
                     {Label("FUNCTION", EndName[f])})
            /\ BehindIn(c, Label("FUNCTION", f), "JUMP")
            /\ BehindIn(c, Label("FUNCTION", EndName[f]), "RETURN")
<1> DEFINE l == Label("FUNCTION", f)
           q == Label("FUNCTION", EndName[f])
           head == code_generator_function_label(f)
           body == <<Instr("EVAL", "none")>>
           end == code_generator_function_end(f, 0)
           S == Instrs(0)
<1>1. f \in Names /\ l \in LabelSet /\ q \in LabelSet /\ l # q
  BY LabelsAre, LabelEq, ControlFlowAssumption
<1>2. Chunk(head, 0, {l}, {q}) /\ Chunk(end, 0, {q}, {})
  BY <1>1, FunctionCode
<1>3. Chunk(body, 0, {}, {})
  <2>1. "EVAL" \in Ops \ (GotoOps \union {"LABEL"}) /\ "none" \in Arguments
    BY DEF Ops, GotoOps, Arguments
  <2> QED BY <2>1, PlainInstr, PlainOne
<1>4. BehindIn(head, l, "JUMP")
  <2> DEFINE x == Instr("JUMP", q)
             y == Instr("LABEL", l)
  <2>1. x \in S /\ y \in S /\ x.op = "JUMP" /\ y.op = "LABEL" /\ y.arg = l
    <3>1. 0 \in 0..0 /\ "JUMP" \in GotoOps
      BY DEF GotoOps
    <3>2. x \in S /\ y \in S
      BY <1>1, <3>1, LabelInstr, GotoInstr DEF Instr
    <3> QED BY <3>2 DEF Instr, InstrAt
  <2>2. head = <<x, y>> \o code_generator_pushframe
    BY DEF code_generator_function_label
  <2>3. code_generator_pushframe \in Seq(S)
    BY FrameCode DEF Chunk, Piece
  <2> HIDE DEF x, y, S
  <2>4. <<x, y>> \in Seq(S) /\ BehindIn(<<x, y>>, l, "JUMP")
    BY <2>1 DEF BehindIn
  <2> QED BY <2>2, <2>3, <2>4, BehindConcat
<1>5. BehindIn(end, q, "RETURN")
  <2> DEFINE x == InstrAt("RETURN", "none", 0)
             y == Instr("LABEL", q)
             p == code_generator_popframe
  <2>1. x \in S /\ y \in S /\ x.op = "RETURN" /\ y.op = "LABEL" /\ y.arg = q
    <3>1. "RETURN" \in Ops \ (GotoOps \union {"LABEL"}) /\ "none" \in Arguments /\ 0 \in 0..0
      BY DEF Ops, GotoOps, Arguments
    <3>2. x \in S /\ y \in S
      BY <1>1, <3>1, PlainAt, LabelInstr DEF Instr, IsPlain
    <3> QED BY <3>2 DEF Instr, InstrAt
  <2>2. end = (p \o <<x>>) \o <<y>>
    BY DEF code_generator_function_end, code_generator_return
  <2>3. p \in Seq(S)
    BY FrameCode DEF Chunk, Piece
  <2> HIDE DEF x, y, S, p
  <2>4. /\ <<x>> \in Seq(S) /\ <<y>> \in Seq(S) /\ <<x, y>> \in Seq(S)
        /\ BehindIn(<<x, y>>, q, "RETURN") /\ <<x>> \o <<y>> = <<x, y>>
    BY <2>1, TwoIsConcat DEF BehindIn
  <2>5. (p \o <<x>>) \o <<y>> = p \o (<<x>> \o <<y>>)
    BY <2>3, <2>4, ConcatAssociative
  <2>6. end = p \o <<x, y>>
    BY <2>2, <2>4, <2>5
  <2> QED BY <2>3, <2>4, <2>6, BehindConcat
<1> DEFINE c == (head \o body) \o end
<1>6. code_generator_builtin(f) = c
  BY DEF code_generator_builtin
<1>7. head \in Seq(S) /\ body \in Seq(S) /\ end \in Seq(S) /\ head \o body \in Seq(S)
  <2>1. head \in Seq(S) /\ body \in Seq(S) /\ end \in Seq(S)
    BY <1>2, <1>3 DEF Chunk, Piece
  <2> HIDE DEF head, body, end, S
  <2> QED BY <2>1, ConcatProperties
<1> HIDE DEF l, q, head, body, end, S
<1>8. BehindIn(c, l, "JUMP") /\ BehindIn(c, q, "RETURN")
  BY <1>4, <1>5, <1>7, BehindConcat
<1>9. Chunk(head \o body, 0, {l}, {q})
  BY <1>2, <1>3, PlainConcat
<1>10. {l} \intersect {q} = {} /\ {l} \union {q} = {l, q} /\ {q} \union {} = {q}
  BY <1>1
<1>11. Chunk(c, 0, {l, q}, {q})
  <2>1. Chunk(c, 0, {l} \union {q}, {q} \union {})
    BY <1>2, <1>9, <1>10, ChunkConcat
  <2> QED BY <1>10, <2>1
<1> QED BY <1>6, <1>8, <1>11 DEF l, q

\* The prolog: the labels of the built-in functions, each once.
LEMMA PrologCode ==
  /\ Piece(code_generator_prolog, 0,
           {Label("FUNCTION", f) : f \in Builtins \union {EndName[g] : g \in Builtins}},
           {Label("FUNCTION", EndName[g]) : g \in Builtins})
  /\ \A f \in Builtins : /\ BehindIn(code_generator_prolog, Label("FUNCTION", f), "JUMP")
                         /\ BehindIn(code_generator_prolog, Label("FUNCTION", EndName[f]), "RETURN")
<1> DEFINE start == code_generator_createframe \o code_generator_pushframe
           c == code_generator_builtin("ord")
           d == code_generator_builtin("substring")
           Ls(f) == {Label("FUNCTION", f), Label("FUNCTION", EndName[f])}
           Js(f) == {Label("FUNCTION", EndName[f])}
           S == Instrs(0)
<1>1. "ord" \in Builtins /\ "substring" \in Builtins /\ Builtins = {"ord", "substring"}
  BY DEF Builtins
<1>2. /\ Chunk(c, 0, Ls("ord"), Js("ord")) /\ Chunk(d, 0, Ls("substring"), Js("substring"))
      /\ BehindIn(c, Label("FUNCTION", "ord"), "JUMP")
      /\ BehindIn(c, Label("FUNCTION", EndName["ord"]), "RETURN")
      /\ BehindIn(d, Label("FUNCTION", "substring"), "JUMP")
      /\ BehindIn(d, Label("FUNCTION", EndName["substring"]), "RETURN")
  BY <1>1, BuiltinCode
<1>3. Chunk(start, 0, {}, {}) /\ code_generator_prolog = (start \o c) \o d
  BY FrameCode DEF code_generator_prolog
<1>4. start \in Seq(S) /\ c \in Seq(S) /\ d \in Seq(S) /\ start \o c \in Seq(S)
  <2>1. start \in Seq(S) /\ c \in Seq(S) /\ d \in Seq(S)
    BY <1>2, <1>3 DEF Chunk, Piece
  <2> HIDE DEF start, c, d, S
  <2> QED BY <2>1, ConcatProperties
<1>5. Ls("ord") \intersect Ls("substring") = {}
  <2>1. /\ EndName["ord"] \notin Builtins /\ EndName["substring"] \notin Builtins
        /\ EndName["ord"] # EndName["substring"] /\ "ord" # "substring"
    BY <1>1, ControlFlowAssumption
  <2> QED BY <1>1, <2>1, LabelEq
<1>6. /\ Ls("ord") \union Ls("substring")
           = {Label("FUNCTION", f) : f \in Builtins \union {EndName[g] : g \in Builtins}}
      /\ Js("ord") \union Js("substring") = {Label("FUNCTION", EndName[g]) : g \in Builtins}
  BY <1>1
<1> HIDE DEF start, c, d, Ls, Js, S
<1>7. Chunk(start \o c, 0, Ls("ord"), Js("ord"))
  BY <1>2, <1>3, PlainConcat
<1>8. Chunk((start \o c) \o d, 0, Ls("ord") \union Ls("substring"), Js("ord") \union Js("substring"))
  BY <1>2, <1>5, <1>7, ChunkConcat
<1>9. ASSUME NEW f \in Builtins
      PROVE  /\ BehindIn((start \o c) \o d, Label("FUNCTION", f), "JUMP")
             /\ BehindIn((start \o c) \o d, Label("FUNCTION", EndName[f]), "RETURN")
  <2>1. CASE f = "ord"
    BY <1>2, <1>4, <2>1, BehindConcat
  <2>2. CASE f = "substring"
    BY <1>2, <1>4, <2>2, BehindConcat
  <2> QED BY <1>1, <2>1, <2>2
<1> QED BY <1>3, <1>6, <1>8, <1>9 DEF Chunk

LEMMA LabelInvInit ==
  ASSUME Init
  PROVE  LabelInv
<1>1. /\ source = <<>> /\ open = <<>> /\ globals = {} /\ cond_uid = 0 /\ loop_uid = 0 /\ unique_id = 0
      /\ for_open = 0 /\ print_buffer = <<>> /\ phase = "parse"
      /\ out = code_generator_prolog
      /\ ip = 1 /\ tf = <<>> /\ calls = <<>> /\ position = [at |-> 0, entered |-> FALSE]
  BY DEF Init
<1>2. Len(source) = 0 /\ Len(open) = 0 /\ Len(tf) = 0 /\ Len(calls) = 0
  BY <1>1
<1> DEFINE L == {Label("FUNCTION", f) : f \in Builtins \union {EndName[g] : g \in Builtins}}
           J == {Label("FUNCTION", EndName[g]) : g \in Builtins}
<1>3. Piece(out, 0, L, J) /\ Piece(print_buffer, 0, {}, {})
  BY <1>1, PrologCode, PieceEmpty
<1>4. /\ out \in Seq(Instrs(0)) /\ print_buffer \in Seq(Instrs(0)) /\ Len(out) \in Nat
      /\ AllLabels = L /\ AllGotos = J /\ Distinct
  BY <1>3 DEF Piece, AllLabels, AllGotos, Distinct
<1>5. SourceOK /\ OpenOK /\ CodeOK
  BY <1>1, <1>2, <1>4 DEF SourceOK, OpenOK, CodeOK
<1>6. CountOK
  BY <1>1, NoneOpenNow, FS_EmptySet DEF CountOK
<1>7. Known = Builtins
  <2>1. Defined = {}
    BY <1>2, InDefined
  <2> QED BY <2>1 DEF Known
<1>8. CondLabels /\ LoopLabels
  <2>1. \A u \in Nat : ~(u < 0)
    OBVIOUS
  <2>2. \A l \in L : \E f : l = Label("FUNCTION", f)
    OBVIOUS
  <2>3. \A name \in {"ELSE", "IF_END", "FOR", "FOR_BODY", "FOR_END"} :
          \A u : Label(name, u) \notin L
    BY <2>2, LabelEq
  <2> QED BY <1>1, <1>4, <2>1, <2>3 DEF CondLabels, LoopLabels
<1>9. FunctionLabels /\ FunctionsOK /\ EofLabel /\ GotosOK
  <2>1. \A f : ~IsOpenFunction(f)
    BY <1>1 DEF IsOpenFunction, InFunction
  <2>2. FunctionLabels
    <3>1. ASSUME NEW x PROVE Label("FUNCTION", x) \in L <=> x \in Builtins \/ \E f \in Builtins : x = EndName[f]
      BY LabelEq
    <3> QED BY <1>4, <1>7, <2>1, <3>1 DEF FunctionLabels
  <2>3. FunctionsOK
    BY <1>1, <1>7, PrologCode DEF FunctionsOK, Behind, BehindIn
  <2>4. EofLabel
    BY <1>1, <1>4, LabelEq DEF EofLabel
  <2>5. GotosOK
    BY <1>4, <1>7 DEF GotosOK, IsTarget
  <2> QED BY <2>2, <2>3, <2>4, <2>5
<1>10. PhaseOK
  BY <1>1 DEF PhaseOK
<1>11. MachineOK
  <2>1. MaxCalls \in Nat
    BY ControlFlowAssumption
  <2>2. position \in [at : 0..Len(source), entered : BOOLEAN]
    BY <1>1, <1>2
  <2>3. calls \in Seq(2..(Len(out) + 1)) /\ ip \in 1..(Len(out) + 1)
    BY <1>1, <1>4
  <2> QED BY <1>1, <1>2, <2>1, <2>2, <2>3 DEF MachineOK
<1> QED BY <1>1, <1>4, <1>5, <1>6, <1>8, <1>9, <1>10, <1>11 DEF LabelInv

LEMMA SameOutput ==
  ASSUME out' = out, source' = source
  PROVE  Lasting
BY SameFunctions DEF Lasting, ArgumentInLoop

LEMMA LabelInvNext ==
  ASSUME LabelInv, [Next]_vars
  PROVE  LabelInv' /\ Lasting
<1>1. CASE define
  BY <1>1, DefineStep
<1>2. ASSUME NEW nils \in 0..1, while(nils) PROVE LabelInv' /\ Lasting
  BY <1>2, WhileStep
<1>3. ASSUME NEW nils \in 0..1, NEW let \in BOOLEAN, if(nils, let) PROVE LabelInv' /\ Lasting
  BY <1>3, IfStep
<1>4. ASSUME NEW var \in Visible, assign(var) PROVE LabelInv' /\ Lasting
  BY <1>4, AssignStep
<1>5. ASSUME NEW f \in Functions, func(f) \/ call(f) PROVE LabelInv' /\ Lasting
  BY <1>5, FuncStep, CallStep
<1>6. CASE else \/ EndIf \/ EndWhile \/ EndFunc
  BY <1>6, ElseStep, EndIfStep, EndWhileStep, EndFuncStep
<1>7. CASE return \/ Eof
  BY <1>7, ReturnStep, EofStep
<1>8. CASE Load \/ (Machine /\ UNCHANGED <<parserVars, generatorVars, phase>>)
  <2>1. out' = out /\ source' = source
    BY <1>8 DEF Load, parserVars, generatorVars
  <2>2. Lasting
    BY <2>1, SameOutput
  <2> QED BY <1>8, <2>2, LoadStep, MachineStep
<1>9. CASE UNCHANGED vars
  <2>1. /\ source' = source /\ open' = open /\ globals' = globals /\ cond_uid' = cond_uid
        /\ loop_uid' = loop_uid /\ unique_id' = unique_id /\ for_open' = for_open
        /\ print_buffer' = print_buffer /\ out' = out /\ phase' = phase
        /\ ip' = ip /\ gf' = gf /\ frames' = frames /\ tf' = tf /\ calls' = calls /\ position' = position
    BY <1>9 DEF vars, parserVars, generatorVars, machineVars
  <2>2. /\ Defined' = Defined /\ Known' = Known /\ Called' = Called /\ AllLabels' = AllLabels /\ AllGotos' = AllGotos
        /\ (NameClash' <=> NameClash) /\ (Distinct' <=> Distinct)
    BY <2>1, SameFunctions DEF AllLabels, AllGotos, Distinct
  <2>3. SourceOK' /\ OpenOK' /\ CountOK' /\ CodeOK' /\ MachineOK'
    BY <2>1 DEF LabelInv, SourceOK, OpenOK, CountOK, Loops, CodeOK, MachineOK
  <2>4. /\ \A K, u : IsOpen(K, u)' <=> IsOpen(K, u)
        /\ \A f : IsOpenFunction(f)' <=> IsOpenFunction(f)
        /\ \A l, op : Behind(l, op)' <=> Behind(l, op)
        /\ \A l : IsTarget(l)' <=> IsTarget(l)
        /\ (LabelsUnique' <=> LabelsUnique) /\ (LabelsDefined' <=> LabelsDefined)
    BY <2>1, <2>2 DEF IsOpen, IsOpenFunction, InFunction, CurrentFunction, Behind, IsTarget,
                      LabelsUnique, LabelsDefined, Targets
  <2>5. CondLabels' /\ LoopLabels'
    BY <2>1, <2>2, <2>4 DEF LabelInv, CondLabels, LoopLabels
  <2>6. FunctionLabels' /\ FunctionsOK'
    BY <2>1, <2>2, <2>4 DEF LabelInv, FunctionLabels, FunctionsOK
  <2>7. EofLabel' /\ GotosOK' /\ PhaseOK'
    BY <2>1, <2>2, <2>4 DEF LabelInv, EofLabel, GotosOK, PhaseOK
  <2>8. Lasting
    BY <2>1, SameOutput
  <2> QED BY <2>1, <2>2, <2>3, <2>5, <2>6, <2>7, <2>8 DEF LabelInv
<1> QED BY <1>1, <1>2, <1>3, <1>4, <1>5, <1>6, <1>7, <1>8, <1>9 DEF Next

LEMMA LabelInvAlways == Spec => []LabelInv
<1>1. Init => LabelInv
  BY LabelInvInit
<1>2. LabelInv /\ [Next]_vars => LabelInv'
  BY LabelInvNext
<1> QED BY <1>1, <1>2, PTL DEF Spec

\* The loop counter of the generator is the number of loops that are open, and the
\* machine stays within the output, for every program and every run of it.
THEOREM MachineStaysInCode == Spec => []TypeOK
<1>1. LabelInv => TypeOK
  <2> SUFFICES ASSUME LabelInv PROVE TypeOK
    OBVIOUS
  <2>1. for_open = Cardinality({k \in 1..Len(open) : open[k].kind = "while"})
    BY DEF LabelInv, CountOK, Loops
  <2>2. {cond_uid, loop_uid, unique_id} \subseteq Nat /\ phase \in {"parse", "load", "run", "rejected"}
    BY DEF LabelInv, PhaseOK
  <2>3. ip \in 1..(Len(out) + 1) /\ Len(tf) <= 1 /\ Len(calls) <= MaxCalls /\ position.at \in 0..Len(source)
    BY DEF LabelInv, MachineOK
  <2> QED BY <2>1, <2>2, <2>3 DEF TypeOK
<1> QED BY <1>1, LabelInvAlways, PTL

LEMMA LabelsResolved ==
  ASSUME LabelInv
  PROVE  LabelsResolve
<1>1. phase = "rejected" => NameClash
  BY DEF LabelInv, PhaseOK
<1>2. ASSUME phase = "run", NEW f \in Known, EndName[f] \in Known PROVE FALSE
  <2>1. open = <<>> /\ LabelsUnique
    BY <1>2 DEF LabelInv, PhaseOK
  <2>2. ~IsOpenFunction(f)
    BY <2>1 DEF IsOpenFunction, InFunction
  <2>3. Behind(Label("FUNCTION", EndName[f]), "JUMP") /\ Behind(Label("FUNCTION", EndName[f]), "RETURN")
    BY <1>2, <2>2 DEF LabelInv, FunctionsOK
  <2>4. PICK i \in 2..Len(out) : out[i].op = "LABEL" /\ out[i].arg = Label("FUNCTION", EndName[f])
                                   /\ out[i - 1].op = "JUMP"
    BY <2>3 DEF Behind
  <2>5. PICK j \in 2..Len(out) : out[j].op = "LABEL" /\ out[j].arg = Label("FUNCTION", EndName[f])
                                   /\ out[j - 1].op = "RETURN"
    BY <2>3 DEF Behind
  <2>6. i \in 1..Len(out) /\ j \in 1..Len(out)
    OBVIOUS
  <2>7. i = j
    BY <2>1, <2>4, <2>5, <2>6 DEF LabelsUnique
  <2> QED BY <2>4, <2>5, <2>7
<1>3. phase # "parse" => print_buffer = <<>>
  BY NoneOpenNow, NoLoops DEF LabelInv, PhaseOK
<1> QED BY <1>1, <1>2, <1>3 DEF LabelsResolve, NameClash

\* The output of every program passes the machine's check of labels, unless it
\* defines both a function f and one named END_f, or one named END_f for a built-in
\* function f of the prolog, and then it never does.
THEOREM LabelsAlwaysResolve == Spec => []LabelsResolve
<1>1. LabelInv => LabelsResolve
  BY LabelsResolved
<1> QED BY <1>1, LabelInvAlways, PTL
=============================================================================
