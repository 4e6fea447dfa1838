----------------------- MODULE ControlFlowRun_proofs -----------------------
(***************************************************************************)
(* Proofs about the run of the output: every variable is declared once in  *)
(* its frame before it is used, and the frames that instructions need      *)
(* exist.  As a verifier of bytecode does, the proof gives each position   *)
(* of the output facts that hold whenever the machine is there, such that  *)
(* each instruction leads from the facts before it to those behind it.     *)
(***************************************************************************)
EXTENDS ControlFlow_proofs

-----------------------------------------------------------------------------
(* Facts about the machine at a position.                                  *)

\* Where a position is in the code that handles frames: behind the start of the
\* program, at the entry of a function with or without a parameter, in a body,
\* in a body with its argument still to be read, with a new frame that is empty
\* or holds the argument, in a ?? with none, one or both of its operands, or
\* between POPFRAME and RETURN.
Shapes == {"boot", "enter0", "enter1", "body", "arg", "frame", "slot",
           "op0", "op2", "op12", "leave"}

\* fn: a function is being executed; must: variables that are declared; bound:
\* no variable with this or a greater uid is.
Facts == [shape : Shapes, fn : BOOLEAN, must : SUBSET Variables, bound : Nat]

At(a, s) == [shape |-> s, fn |-> a.fn, must |-> a.must, bound |-> a.bound]
Flat(a) == {At(a, s) : s \in Shapes}

Weaker(a, b) == a.fn = b.fn /\ b.must \subseteq a.must /\ a.bound <= b.bound
Same(a, b) == a.shape = b.shape /\ Weaker(a, b)
Move(a, b, s, t) == a.shape = s /\ b.shape = t /\ Weaker(a, b)

IsVar(v) == v \in [frame : {"GF", "LF"}, id : {"var"} \X Nat]
Op(k) == Var("LF", "op", k)

\* A global variable that a function uses need not be declared.
CheckUse(v, a, b) ==
  \/ /\ IsVar(v) /\ a.shape \in {"body", "arg"} /\ Same(a, b)
     /\ v \in a.must \/ (a.fn /\ v.frame = "GF")
  \/ v = Op(2) /\ a.shape \in {"op2", "op12"} /\ Same(a, b)
  \/ v = Op(1) /\ a.shape = "op12" /\ Same(a, b)
  \/ v = Slot("TF") /\ a.shape = "slot" /\ Same(a, b)
  \/ v = Slot("LF") /\ Move(a, b, "arg", "body")
CheckDefvar(v, a, b) ==
  \/ /\ IsVar(v) /\ a.shape \in {"body", "arg"} /\ b.shape = a.shape /\ b.fn = a.fn
     /\ a.fn => v.frame = "LF"
     /\ a.bound <= v.id[2] /\ v.id[2] < b.bound /\ b.must \subseteq a.must \union {v}
  \/ v = Op(2) /\ Move(a, b, "op0", "op2")
  \/ v = Op(1) /\ Move(a, b, "op2", "op12")
  \/ v = Slot("TF") /\ Move(a, b, "frame", "slot")

\* Instruction x leads from facts a to facts b; lab has the facts at the labels.
Check(x, a, b, lab) ==
  /\ x.op = "EVAL" => Same(a, b)
  /\ x.op = "LABEL" => x.arg \in DOMAIN lab /\ Same(lab[x.arg], a) /\ Same(a, b)
  /\ x.op \in {"JUMP", "JUMPIFNEQS"} => x.arg \in DOMAIN lab /\ Same(a, lab[x.arg])
  /\ x.op = "JUMPIFNEQS" => Same(a, b)
  /\ x.op = "USE" => CheckUse(x.arg, a, b)
  /\ x.op = "DEFVAR" => CheckDefvar(x.arg, a, b)
  /\ x.op = "CREATEFRAME" => Move(a, b, "boot", "enter0") \/ Move(a, b, "body", "frame")
  /\ x.op = "PUSHFRAME" => \/ Move(a, b, "enter0", "body") \/ Move(a, b, "enter1", "arg")
                           \/ Move(a, b, "frame", "op0")
  /\ x.op = "POPFRAME" => Move(a, b, "op12", "body") \/ (a.fn /\ Move(a, b, "body", "leave"))
  /\ x.op = "CALL" => \E f \in Functions :
                        /\ x.arg = Label("FUNCTION", f)
                        /\ Move(a, b, IF Params[f] = 0 THEN "frame" ELSE "slot", "body")
  /\ x.op = "RETURN" => a.shape = "leave" /\ a.fn

\* Code c leads from a to b, with facts of the set K between.
IsFlow(T, c, a, b, lab, K) ==
  /\ T \in [1..(Len(c) + 1) -> K] /\ T[1] = a /\ T[Len(c) + 1] = b
  /\ \A i \in 1..Len(c) : Check(c[i], T[i], T[i + 1], lab)
Flows(c, a, b, lab, K) == \E T : IsFlow(T, c, a, b, lab, K)

LEMMA FlowsConcat ==
  ASSUME NEW S, NEW c \in Seq(S), NEW d \in Seq(S), NEW a, NEW b, NEW e, NEW lab, NEW K,
         Flows(c, a, b, lab, K), Flows(d, b, e, lab, K)
  PROVE  Flows(c \o d, a, e, lab, K)
<1>1. PICK F : IsFlow(F, c, a, b, lab, K)
  BY DEF Flows
<1>2. PICK G : IsFlow(G, d, b, e, lab, K)
  BY DEF Flows
<1> DEFINE w == c \o d
           T == [i \in 1..(Len(w) + 1) |-> IF i <= Len(c) + 1 THEN F[i] ELSE G[i - Len(c)]]
<1>3. /\ Len(w) = Len(c) + Len(d) /\ Len(c) \in Nat /\ Len(d) \in Nat
      /\ \A i \in 1..(Len(c) + Len(d)) : w[i] = IF i <= Len(c) THEN c[i] ELSE d[i - Len(c)]
  BY ConcatProperties, LenProperties
<1> HIDE DEF w
<1>4. \A i \in 1..(Len(c) + 1) : i \in 1..(Len(w) + 1) /\ T[i] = F[i] /\ F[i] \in K
  BY <1>1, <1>3 DEF IsFlow
<1>5. \A i \in 1..(Len(d) + 1) : i + Len(c) \in 1..(Len(w) + 1) /\ T[i + Len(c)] = G[i] /\ G[i] \in K
  <2> SUFFICES ASSUME NEW i \in 1..(Len(d) + 1)
               PROVE  i + Len(c) \in 1..(Len(w) + 1) /\ T[i + Len(c)] = G[i] /\ G[i] \in K
    OBVIOUS
  <2>1. i + Len(c) \in 1..(Len(w) + 1) /\ G[i] \in K
    BY <1>2, <1>3 DEF IsFlow
  <2>2. CASE i = 1
    BY <1>1, <1>2, <1>3, <2>1, <2>2 DEF IsFlow
  <2>3. CASE i # 1
    BY <1>3, <2>1, <2>3
  <2> QED BY <2>1, <2>2, <2>3
<1>6. \A j \in 1..(Len(w) + 1) : j \in 1..(Len(c) + 1) \/ j - Len(c) \in 1..(Len(d) + 1)
  BY <1>3
<1>7. T \in [1..(Len(w) + 1) -> K]
  <2>1. \A j \in 1..(Len(w) + 1) : T[j] \in K
    <3> SUFFICES ASSUME NEW j \in 1..(Len(w) + 1) PROVE T[j] \in K
      OBVIOUS
    <3>1. CASE j \in 1..(Len(c) + 1)
      BY <1>4, <3>1
    <3>2. CASE j - Len(c) \in 1..(Len(d) + 1)
      <4>1. (j - Len(c)) + Len(c) = j
        BY <1>3
      <4> QED BY <1>5, <3>2, <4>1
    <3> QED BY <1>6, <3>1, <3>2
  <2> QED BY <2>1
<1>8. T[1] = a /\ T[Len(w) + 1] = e
  <2>1. 1 \in 1..(Len(c) + 1) /\ Len(d) + 1 \in 1..(Len(d) + 1) /\ (Len(d) + 1) + Len(c) = Len(w) + 1
    BY <1>3
  <2> QED BY <1>1, <1>2, <1>4, <1>5, <2>1 DEF IsFlow
<1>9. ASSUME NEW i \in 1..Len(w) PROVE Check(w[i], T[i], T[i + 1], lab)
  <2> HIDE DEF T
  <2>1. CASE i <= Len(c)
    <3>1. i \in 1..Len(c) /\ i \in 1..(Len(c) + 1) /\ i + 1 \in 1..(Len(c) + 1) /\ w[i] = c[i]
      BY <1>3, <2>1
    <3> QED BY <1>1, <1>4, <3>1 DEF IsFlow
  <2>2. CASE ~(i <= Len(c))
    <3> DEFINE j == i - Len(c)
    <3>1. j \in 1..Len(d) /\ j \in 1..(Len(d) + 1) /\ j + 1 \in 1..(Len(d) + 1) /\ w[i] = d[j]
          /\ j + Len(c) = i /\ (j + 1) + Len(c) = i + 1
      BY <1>3, <2>2
    <3> HIDE DEF j
    <3>2. T[i] = G[j] /\ T[i + 1] = G[j + 1]
      BY <1>5, <3>1
    <3> QED BY <1>2, <3>1, <3>2 DEF IsFlow
  <2> QED BY <2>1, <2>2
<1> HIDE DEF T
<1>10. IsFlow(T, w, a, e, lab, K)
  BY <1>7, <1>8, <1>9 DEF IsFlow
<1> QED BY <1>10 DEF Flows, w

LEMMA FlowsEmpty ==
  ASSUME NEW K, NEW a \in K, NEW lab
  PROVE  Flows(<<>>, a, a, lab, K)
<1> DEFINE T == [i \in 1..1 |-> a]
<1>1. Len(<<>>) = 0 /\ 0 + 1 = 1
  OBVIOUS
<1>2. T \in [1..1 -> K] /\ T[1] = a
  OBVIOUS
<1> HIDE DEF T
<1>3. IsFlow(T, <<>>, a, a, lab, K)
  BY <1>1, <1>2 DEF IsFlow
<1> QED BY <1>3 DEF Flows

LEMMA FlowsOne ==
  ASSUME NEW K, NEW a \in K, NEW b \in K, NEW lab, NEW x, Check(x, a, b, lab)
  PROVE  Flows(<<x>>, a, b, lab, K)
<1> DEFINE T == [i \in 1..2 |-> IF i = 1 THEN a ELSE b]
           c == <<x>>
<1>1. Len(c) = 1 /\ c[1] = x /\ 1 + 1 = 2
  OBVIOUS
<1>2. T \in [1..2 -> K] /\ T[1] = a /\ T[2] = b
  OBVIOUS
<1> HIDE DEF T, c
<1>3. \A i \in 1..1 : i = 1
  OBVIOUS
<1>4. IsFlow(T, c, a, b, lab, K)
  BY <1>1, <1>2, <1>3 DEF IsFlow
<1> QED BY <1>4 DEF Flows, c

LEMMA FlowsTwo ==
  ASSUME NEW K, NEW a \in K, NEW b \in K, NEW e \in K, NEW lab, NEW x, NEW y,
         Check(x, a, b, lab), Check(y, b, e, lab)
  PROVE  Flows(<<x, y>>, a, e, lab, K)
<1>1. Flows(<<x>>, a, b, lab, K) /\ Flows(<<y>>, b, e, lab, K)
  BY FlowsOne
<1>2. <<x>> \in Seq({x, y}) /\ <<y>> \in Seq({x, y}) /\ x \in {x, y} /\ y \in {x, y}
  OBVIOUS
<1>3. <<x, y>> = <<x>> \o <<y>>
  BY <1>2, TwoIsConcat
<1>4. Flows(<<x>> \o <<y>>, a, e, lab, K)
  BY <1>1, <1>2, FlowsConcat
<1> QED BY <1>3, <1>4

\* A flow stays one when more labels are known, and with more facts to choose from.
MoreLabels(lab, more) == DOMAIN lab \subseteq DOMAIN more /\ \A l \in DOMAIN lab : more[l] = lab[l]

LEMMA FlowsWiden ==
  ASSUME NEW c, NEW a, NEW b, NEW lab, NEW more, NEW K, NEW M, Flows(c, a, b, lab, K),
         MoreLabels(lab, more), K \subseteq M
  PROVE  Flows(c, a, b, more, M)
<1>1. PICK T : IsFlow(T, c, a, b, lab, K)
  BY DEF Flows
<1>2. \A i \in 1..Len(c) : Check(c[i], T[i], T[i + 1], more)
  <2> SUFFICES ASSUME NEW i \in 1..Len(c) PROVE Check(c[i], T[i], T[i + 1], more)
    OBVIOUS
  <2>1. Check(c[i], T[i], T[i + 1], lab)
    BY <1>1 DEF IsFlow
  <2>2. /\ c[i].op = "LABEL" => c[i].arg \in DOMAIN more /\ Same(more[c[i].arg], T[i]) /\ Same(T[i], T[i + 1])
        /\ c[i].op \in {"JUMP", "JUMPIFNEQS"} => c[i].arg \in DOMAIN more /\ Same(T[i], more[c[i].arg])
    BY <2>1, Zenon DEF Check, MoreLabels
  <2> QED BY <2>1, <2>2, Zenon DEF Check
<1>3. T \in [1..(Len(c) + 1) -> M]
  BY <1>1 DEF IsFlow
<1>4. IsFlow(T, c, a, b, more, M)
  BY <1>1, <1>2, <1>3 DEF IsFlow
<1> QED BY <1>4 DEF Flows

LEMMA FactFields ==
  ASSUME NEW a \in Facts
  PROVE  /\ a.shape \in Shapes /\ a.fn \in BOOLEAN /\ a.must \subseteq Variables /\ a.bound \in Nat
         /\ \A s \in Shapes : /\ At(a, s) \in Facts /\ At(a, s) \in Flat(a)
                              /\ At(a, s).shape = s /\ At(a, s).fn = a.fn
                              /\ At(a, s).must = a.must /\ At(a, s).bound = a.bound
         /\ a \in Flat(a) /\ At(a, a.shape) = a
<1>1. a.shape \in Shapes /\ a.fn \in BOOLEAN /\ a.must \subseteq Variables /\ a.bound \in Nat
  BY DEF Facts
<1>2. ASSUME NEW s \in Shapes
      PROVE  /\ At(a, s) \in Facts /\ At(a, s) \in Flat(a)
             /\ At(a, s).shape = s /\ At(a, s).fn = a.fn
             /\ At(a, s).must = a.must /\ At(a, s).bound = a.bound
  BY <1>1 DEF At, Facts, Flat
<1>3. At(a, a.shape) = a
  BY DEF At, Facts
<1>4. a \in Flat(a)
  BY <1>1, <1>3 DEF Flat
<1> QED BY <1>1, <1>2, <1>3, <1>4

LEMMA FlatFields ==
  ASSUME NEW a \in Facts, NEW b \in Flat(a)
  PROVE  /\ b.shape \in Shapes /\ b.fn = a.fn /\ b.must = a.must /\ b.bound = a.bound /\ b \in Facts
         /\ b = At(a, b.shape)
<1>1. PICK s \in Shapes : b = At(a, s)
  BY DEF Flat
<1> QED BY <1>1, FactFields

\* The order of facts.
LEMMA WeakerTrans ==
  ASSUME NEW a \in Facts, NEW b \in Facts, NEW e \in Facts
  PROVE  /\ Weaker(a, a) /\ Same(a, a)
         /\ Weaker(a, b) /\ Weaker(b, e) => Weaker(a, e)
         /\ Same(a, b) /\ Same(b, e) => Same(a, e)
<1>1. a.bound \in Nat /\ b.bound \in Nat /\ e.bound \in Nat
  BY FactFields
<1>2. a.bound <= a.bound /\ (a.bound <= b.bound /\ b.bound <= e.bound => a.bound <= e.bound)
  BY <1>1
<1>3. Weaker(a, a)
  BY <1>2, Zenon DEF Weaker
<1>4. Weaker(a, b) /\ Weaker(b, e) => Weaker(a, e)
  BY <1>2, Zenon DEF Weaker
<1> QED BY <1>3, <1>4, Zenon DEF Same

\* What is known at the end of code may be weakened.
LEMMA CheckWeaken ==
  ASSUME NEW a \in Facts, NEW b \in Facts, NEW e \in Facts, NEW x, NEW lab,
         Check(x, a, b, lab), Same(b, e)
  PROVE  Check(x, a, e, lab)
<1>1. Same(a, b) => Same(a, e)
  BY WeakerTrans
<1>2. \A s, t : Move(a, b, s, t) => Move(a, e, s, t)
  <2>1. Weaker(a, b) => Weaker(a, e)
    BY WeakerTrans DEF Same
  <2> QED BY <2>1, Zenon DEF Move, Same
<1>3. x.op = "USE" => CheckUse(x.arg, a, e)
  <2> SUFFICES ASSUME x.op = "USE" PROVE CheckUse(x.arg, a, e)
    OBVIOUS
  <2>1. CheckUse(x.arg, a, b)
    BY Zenon DEF Check
  <2> QED BY <1>1, <1>2, <2>1, Zenon DEF CheckUse
<1>4. x.op = "DEFVAR" => CheckDefvar(x.arg, a, e)
  <2> SUFFICES ASSUME x.op = "DEFVAR" PROVE CheckDefvar(x.arg, a, e)
    OBVIOUS
  <2>1. CheckDefvar(x.arg, a, b)
    BY Zenon DEF Check
  <2> DEFINE v == x.arg
  <2>2. CASE /\ IsVar(v) /\ a.shape \in {"body", "arg"} /\ b.shape = a.shape /\ b.fn = a.fn
             /\ a.fn => v.frame = "LF"
             /\ a.bound <= v.id[2] /\ v.id[2] < b.bound /\ b.must \subseteq a.must \union {v}
    <3>1. v.id[2] \in Nat /\ a.bound \in Nat /\ b.bound \in Nat /\ e.bound \in Nat
      BY <2>2, FactFields DEF IsVar
    <3>2. b.shape = e.shape /\ b.fn = e.fn /\ e.must \subseteq b.must /\ b.bound <= e.bound
      BY DEF Same, Weaker
    <3> HIDE DEF v
    <3>3. v.id[2] < e.bound /\ e.must \subseteq a.must \union {v}
      BY <2>2, <3>1, <3>2
    <3>4. CheckDefvar(v, a, e)
      BY <2>2, <3>2, <3>3, Zenon DEF CheckDefvar
    <3> QED BY <3>4 DEF v
  <2> QED BY <1>2, <2>1, <2>2, Zenon DEF CheckDefvar
<1>5. /\ x.op = "EVAL" => Same(a, e)
      /\ x.op = "LABEL" => x.arg \in DOMAIN lab /\ Same(lab[x.arg], a) /\ Same(a, e)
      /\ x.op \in {"JUMP", "JUMPIFNEQS"} => x.arg \in DOMAIN lab /\ Same(a, lab[x.arg])
      /\ x.op = "JUMPIFNEQS" => Same(a, e)
      /\ x.op = "RETURN" => a.shape = "leave" /\ a.fn
  BY <1>1, Zenon DEF Check
<1>6. /\ x.op = "CREATEFRAME" => Move(a, e, "boot", "enter0") \/ Move(a, e, "body", "frame")
      /\ x.op = "PUSHFRAME" => \/ Move(a, e, "enter0", "body") \/ Move(a, e, "enter1", "arg")
                               \/ Move(a, e, "frame", "op0")
      /\ x.op = "POPFRAME" => Move(a, e, "op12", "body") \/ (a.fn /\ Move(a, e, "body", "leave"))
  BY <1>2, Zenon DEF Check
<1>7. x.op = "CALL" => \E f \in Functions :
                         /\ x.arg = Label("FUNCTION", f)
                         /\ Move(a, e, IF Params[f] = 0 THEN "frame" ELSE "slot", "body")
  BY <1>2, Zenon DEF Check
<1> QED BY <1>3, <1>4, <1>5, <1>6, <1>7, Zenon DEF Check

LEMMA FlowsWeaken ==
  ASSUME NEW S, NEW c \in Seq(S), c # <<>>, NEW a, NEW b, NEW e \in Facts, NEW lab, Same(b, e),
         Flows(c, a, b, lab, Facts)
  PROVE  Flows(c, a, e, lab, Facts)
<1>1. PICK T : IsFlow(T, c, a, b, lab, Facts)
  BY DEF Flows
<1>2. Len(c) \in Nat /\ Len(c) > 0
  BY LenProperties, EmptySeq
<1> DEFINE n == Len(c)
           F == [i \in 1..(n + 1) |-> IF i = n + 1 THEN e ELSE T[i]]
<1>3. T \in [1..(n + 1) -> Facts] /\ n \in Nat /\ n > 0 /\ T[1] = a /\ T[n + 1] = b
  BY <1>1, <1>2 DEF IsFlow
<1>4. F \in [1..(n + 1) -> Facts] /\ F[1] = a /\ F[n + 1] = e /\ \A i \in 1..n : F[i] = T[i]
  <2> HIDE DEF n
  <2> QED BY <1>3
<1>5. ASSUME NEW i \in 1..Len(c) PROVE Check(c[i], F[i], F[i + 1], lab)
  <2>1. Check(c[i], T[i], T[i + 1], lab)
    BY <1>1 DEF IsFlow
  <2>2. F[i] = T[i] /\ T[i] \in Facts /\ T[i + 1] \in Facts
    BY <1>3, <1>4
  <2>3. CASE i = n
    <3>1. T[i + 1] = b /\ F[i + 1] = e
      BY <1>3, <1>4, <2>3
    <3> HIDE DEF F
    <3> QED BY <2>1, <2>2, <3>1, CheckWeaken
  <2>4. CASE i # n
    <3>1. i + 1 \in 1..n
      BY <1>2, <2>4
    <3>2. F[i + 1] = T[i + 1]
      BY <1>4, <3>1
    <3> HIDE DEF F
    <3> QED BY <2>1, <2>2, <3>2
  <2> QED BY <2>3, <2>4
<1> HIDE DEF F
<1>6. IsFlow(F, c, a, e, lab, Facts)
  BY <1>4, <1>5 DEF IsFlow
<1> QED BY <1>6 DEF Flows

-----------------------------------------------------------------------------
(* In a loop nothing is declared, so all facts are the same but for the    *)
(* shape, and they may be raised: a DEFVAR that leaves the loop is executed *)
(* before all of the loop.  fl has the shapes at the labels in the loop.   *)

FlatLab(fl, a) == [l \in DOMAIN fl |-> At(a, fl[l])]
IsShapes(fl) == \A l \in DOMAIN fl : fl[l] \in Shapes

LEMMA FlatMoves ==
  ASSUME NEW a \in Facts, NEW s \in Shapes, NEW t \in Shapes
  PROVE  /\ Weaker(At(a, s), At(a, t))
         /\ Same(At(a, s), At(a, t)) <=> s = t
         /\ \A p, q : Move(At(a, s), At(a, t), p, q) <=> s = p /\ t = q
<1>1. /\ At(a, s) \in Facts /\ At(a, t) \in Facts /\ At(a, s).shape = s /\ At(a, t).shape = t
      /\ At(a, s).fn = At(a, t).fn /\ At(a, s).must = At(a, t).must
      /\ At(a, s).bound = At(a, t).bound /\ At(a, t).bound \in Nat
  BY FactFields
<1>2. Weaker(At(a, s), At(a, t))
  BY <1>1 DEF Weaker
<1> QED BY <1>1, <1>2, Zenon DEF Same, Move

LEMMA CheckRaise ==
  ASSUME NEW a \in Facts, NEW b \in Facts, a.fn = b.fn, a.must \subseteq b.must,
         NEW s \in Shapes, NEW t \in Shapes, NEW fl, IsShapes(fl), NEW x,
         Check(x, At(a, s), At(a, t), FlatLab(fl, a))
  PROVE  Check(x, At(b, s), At(b, t), FlatLab(fl, b))
<1> DEFINE as == At(a, s)
           at == At(a, t)
           bs == At(b, s)
           bt == At(b, t)
           fa == FlatLab(fl, a)
           fb == FlatLab(fl, b)
<1>1. /\ as.shape = s /\ at.shape = t /\ bs.shape = s /\ bt.shape = t
      /\ as.fn = a.fn /\ at.fn = a.fn /\ bs.fn = a.fn /\ bt.fn = a.fn
      /\ as.must = a.must /\ at.must = a.must /\ bs.must = b.must /\ bt.must = b.must
      /\ as.bound = a.bound /\ at.bound = a.bound /\ a.bound \in Nat
  BY FactFields
<1>2. /\ Same(as, at) => Same(bs, bt)
      /\ \A p, q : Move(as, at, p, q) => Move(bs, bt, p, q)
  BY FlatMoves
<1>3. \A l \in DOMAIN fl : /\ l \in DOMAIN fa /\ fa[l] = At(a, fl[l]) /\ l \in DOMAIN fb /\ fb[l] = At(b, fl[l])
                           /\ Same(fa[l], as) => Same(fb[l], bs)
                           /\ Same(as, fa[l]) => Same(bs, fb[l])
  BY FlatMoves DEF FlatLab, IsShapes
<1>4. \A l : l \in DOMAIN fa => l \in DOMAIN fl
  BY DEF FlatLab
<1>5. Check(x, as, at, fa)
  OBVIOUS
<1> HIDE DEF as, at, bs, bt, fa, fb
<1>6. x.op = "USE" => CheckUse(x.arg, bs, bt)
  <2> SUFFICES ASSUME x.op = "USE" PROVE CheckUse(x.arg, bs, bt)
    OBVIOUS
  <2>1. CheckUse(x.arg, as, at)
    BY <1>5, Zenon DEF Check
  <2>2. x.arg \in as.must => x.arg \in bs.must
    BY <1>1
  <2> QED BY <1>1, <1>2, <2>1, <2>2, Zenon DEF CheckUse
<1>7. x.op = "DEFVAR" => CheckDefvar(x.arg, bs, bt)
  <2> SUFFICES ASSUME x.op = "DEFVAR" PROVE CheckDefvar(x.arg, bs, bt)
    OBVIOUS
  <2>1. CheckDefvar(x.arg, as, at)
    BY <1>5, Zenon DEF Check
  <2>2. ~(IsVar(x.arg) /\ as.bound <= x.arg.id[2] /\ x.arg.id[2] < at.bound)
    BY <1>1 DEF IsVar
  <2> QED BY <1>2, <2>1, <2>2, Zenon DEF CheckDefvar
<1>8. /\ x.op = "EVAL" => Same(bs, bt)
      /\ x.op = "LABEL" => x.arg \in DOMAIN fb /\ Same(fb[x.arg], bs) /\ Same(bs, bt)
      /\ x.op \in {"JUMP", "JUMPIFNEQS"} => x.arg \in DOMAIN fb /\ Same(bs, fb[x.arg])
      /\ x.op = "JUMPIFNEQS" => Same(bs, bt)
      /\ x.op = "RETURN" => bs.shape = "leave" /\ bs.fn
  BY <1>1, <1>2, <1>3, <1>4, <1>5, Zenon DEF Check
<1>9. /\ x.op = "CREATEFRAME" => Move(bs, bt, "boot", "enter0") \/ Move(bs, bt, "body", "frame")
      /\ x.op = "PUSHFRAME" => \/ Move(bs, bt, "enter0", "body") \/ Move(bs, bt, "enter1", "arg")
                               \/ Move(bs, bt, "frame", "op0")
      /\ x.op = "POPFRAME" => Move(bs, bt, "op12", "body") \/ (bs.fn /\ Move(bs, bt, "body", "leave"))
  <2>1. as.fn = bs.fn
    BY <1>1
  <2> QED BY <1>2, <1>5, <2>1, Zenon DEF Check
<1>10. x.op = "CALL" => \E f \in Functions :
                         /\ x.arg = Label("FUNCTION", f)
                         /\ Move(bs, bt, IF Params[f] = 0 THEN "frame" ELSE "slot", "body")
  BY <1>2, <1>5, Zenon DEF Check
<1>11. Check(x, bs, bt, fb)
  BY <1>6, <1>7, <1>8, <1>9, <1>10, Zenon DEF Check
<1> QED BY <1>11 DEF bs, bt, fb

LEMMA FlowsRaise ==
  ASSUME NEW a \in Facts, NEW b \in Facts, a.fn = b.fn, a.shape = b.shape, a.must \subseteq b.must,
         NEW S, NEW c \in Seq(S), NEW fl, IsShapes(fl), Flows(c, a, a, FlatLab(fl, a), Flat(a))
  PROVE  Flows(c, b, b, FlatLab(fl, b), Flat(b))
<1>1. PICK T : IsFlow(T, c, a, a, FlatLab(fl, a), Flat(a))
  BY DEF Flows
<1> DEFINE n == Len(c)
           F == [i \in 1..(n + 1) |-> At(b, T[i].shape)]
<1>2. n \in Nat /\ T \in [1..(n + 1) -> Flat(a)] /\ T[1] = a /\ T[n + 1] = a
  BY <1>1, LenProperties DEF IsFlow
<1>3. \A i \in 1..(n + 1) : T[i].shape \in Shapes /\ T[i] = At(a, T[i].shape)
  BY <1>2, FlatFields
<1>4. At(b, a.shape) = b
  BY FactFields
<1>5. F \in [1..(n + 1) -> Flat(b)]
  BY <1>3, FactFields
<1> HIDE DEF n
<1>6. F[1] = b /\ F[n + 1] = b
  BY <1>2, <1>4
<1>7. ASSUME NEW i \in 1..n PROVE Check(c[i], F[i], F[i + 1], FlatLab(fl, b))
  <2>1. i \in 1..(n + 1) /\ i + 1 \in 1..(n + 1)
    BY <1>2
  <2>2. Check(c[i], T[i], T[i + 1], FlatLab(fl, a))
    BY <1>1 DEF IsFlow, n
  <2>3. F[i] = At(b, T[i].shape) /\ F[i + 1] = At(b, T[i + 1].shape)
    BY <2>1
  <2> HIDE DEF F
  <2>4. Check(c[i], At(a, T[i].shape), At(a, T[i + 1].shape), FlatLab(fl, a))
    BY <1>3, <2>1, <2>2
  <2> DEFINE s == T[i].shape
             t == T[i + 1].shape
             x == c[i]
  <2>5. s \in Shapes /\ t \in Shapes
    BY <1>3, <2>1
  <2> HIDE DEF s, t, x
  <2>6. Check(x, At(a, s), At(a, t), FlatLab(fl, a))
    BY <2>4 DEF s, t, x
  <2>7. Check(x, At(b, s), At(b, t), FlatLab(fl, b))
    BY <2>5, <2>6, CheckRaise
  <2> QED BY <2>3, <2>7 DEF s, t, x
<1> HIDE DEF F
<1>8. IsFlow(F, c, b, b, FlatLab(fl, b), Flat(b))
  BY <1>5, <1>6, <1>7 DEF IsFlow, n
<1> QED BY <1>8 DEF Flows

-----------------------------------------------------------------------------
(* The code of the generator.                                              *)

Codes == [op : Ops, arg : Arguments, at : Nat, direct : BOOLEAN]
Leads(c, a, b, lab, K) == c \in Seq(Codes) /\ Flows(c, a, b, lab, K)

LEMMA LeadsConcat ==
  ASSUME NEW c, NEW d, NEW a, NEW b, NEW e, NEW lab, NEW K,
         Leads(c, a, b, lab, K), Leads(d, b, e, lab, K)
  PROVE  Leads(c \o d, a, e, lab, K)
<1>1. c \in Seq(Codes) /\ d \in Seq(Codes)
  BY DEF Leads
<1>2. c \o d \in Seq(Codes)
  BY <1>1, ConcatProperties
<1>3. Flows(c \o d, a, e, lab, K)
  BY <1>1, FlowsConcat DEF Leads
<1> QED BY <1>2, <1>3 DEF Leads

LEMMA LeadsOne ==
  ASSUME NEW K, NEW a \in K, NEW b \in K, NEW lab, NEW x \in Codes, Check(x, a, b, lab)
  PROVE  Leads(<<x>>, a, b, lab, K)
<1>1. <<x>> \in Seq(Codes)
  OBVIOUS
<1> QED BY <1>1, FlowsOne DEF Leads

LEMMA LeadsTwo ==
  ASSUME NEW K, NEW a \in K, NEW b \in K, NEW e \in K, NEW lab, NEW x \in Codes, NEW y \in Codes,
         Check(x, a, b, lab), Check(y, b, e, lab)
  PROVE  Leads(<<x, y>>, a, e, lab, K)
<1>1. <<x, y>> \in Seq(Codes)
  OBVIOUS
<1> QED BY <1>1, FlowsTwo DEF Leads

LEMMA LeadsFour ==
  ASSUME NEW K, NEW a1 \in K, NEW a2 \in K, NEW a3 \in K, NEW a4 \in K, NEW a5 \in K, NEW lab,
         NEW x \in Codes, NEW y \in Codes, NEW z \in Codes, NEW q \in Codes,
         Check(x, a1, a2, lab), Check(y, a2, a3, lab), Check(z, a3, a4, lab), Check(q, a4, a5, lab)
  PROVE  Leads(<<x, y, z, q>>, a1, a5, lab, K)
<1>1. Leads(<<x, y>>, a1, a3, lab, K) /\ Leads(<<z, q>>, a3, a5, lab, K)
  BY LeadsTwo
<1>2. Leads(<<x, y>> \o <<z, q>>, a1, a5, lab, K)
  BY <1>1, LeadsConcat
<1> DEFINE u == <<x, y, z, q>>
           v == <<x, y>> \o <<z, q>>
<1>3. u \in Seq(Codes) /\ Len(u) = 4 /\ u[1] = x /\ u[2] = y /\ u[3] = z /\ u[4] = q
  OBVIOUS
<1>4. v \in Seq(Codes) /\ Len(v) = 4 /\ v[1] = x /\ v[2] = y /\ v[3] = z /\ v[4] = q
  OBVIOUS
<1> HIDE DEF u, v
<1>5. \A i \in 1..Len(u) : u[i] = v[i]
  BY <1>3, <1>4
<1>6. u = v
  BY <1>3, <1>4, <1>5, SeqEqual
<1>7. Leads(v, a1, a5, lab, K)
  BY <1>2 DEF v
<1>8. Leads(u, a1, a5, lab, K)
  BY <1>6, <1>7
<1> QED BY <1>8 DEF u

LEMMA LeadsEmpty ==
  ASSUME NEW K, NEW a \in K, NEW lab
  PROVE  Leads(<<>>, a, a, lab, K)
<1>1. <<>> \in Seq(Codes)
  OBVIOUS
<1> QED BY <1>1, FlowsEmpty DEF Leads

\* Only the rule of its operation matters to an instruction.
LEMMA CheckBy ==
  ASSUME NEW x, NEW a, NEW b, NEW lab
  PROVE  /\ x.op = "EVAL" /\ Same(a, b) => Check(x, a, b, lab)
         /\ x.op = "LABEL" /\ x.arg \in DOMAIN lab /\ Same(lab[x.arg], a) /\ Same(a, b) => Check(x, a, b, lab)
         /\ x.op = "JUMP" /\ x.arg \in DOMAIN lab /\ Same(a, lab[x.arg]) => Check(x, a, b, lab)
         /\ x.op = "JUMPIFNEQS" /\ x.arg \in DOMAIN lab /\ Same(a, lab[x.arg]) /\ Same(a, b)
              => Check(x, a, b, lab)
         /\ x.op = "USE" /\ CheckUse(x.arg, a, b) => Check(x, a, b, lab)
         /\ x.op = "DEFVAR" /\ CheckDefvar(x.arg, a, b) => Check(x, a, b, lab)
         /\ x.op = "CREATEFRAME" /\ (Move(a, b, "boot", "enter0") \/ Move(a, b, "body", "frame"))
              => Check(x, a, b, lab)
         /\ x.op = "PUSHFRAME" /\ (\/ Move(a, b, "enter0", "body") \/ Move(a, b, "enter1", "arg")
                                   \/ Move(a, b, "frame", "op0")) => Check(x, a, b, lab)
         /\ x.op = "POPFRAME" /\ (Move(a, b, "op12", "body") \/ (a.fn /\ Move(a, b, "body", "leave")))
              => Check(x, a, b, lab)
         /\ x.op = "RETURN" /\ a.shape = "leave" /\ a.fn => Check(x, a, b, lab)
         /\ \A f \in Functions :
              x.op = "CALL" /\ x.arg = Label("FUNCTION", f)
                /\ Move(a, b, IF Params[f] = 0 THEN "frame" ELSE "slot", "body") => Check(x, a, b, lab)
BY DEF Check

LEMMA CodesAre ==
  ASSUME NEW op \in Ops, NEW arg \in Arguments
  PROVE  /\ \A i \in Nat : InstrAt(op, arg, i) \in Codes /\ InstrAt(op, arg, i).op = op
                             /\ InstrAt(op, arg, i).arg = arg
         /\ Instr(op, arg) \in Codes /\ Instr(op, arg).op = op /\ Instr(op, arg).arg = arg
BY DEF InstrAt, Instr, Codes

LEMMA ArgumentsAre ==
  /\ \A name \in LabelNames, uid \in Nat : Label(name, uid) \in Arguments
  /\ \A f \in Names : Label("FUNCTION", f) \in Arguments /\ Label("FUNCTION", EndName[f]) \in Arguments
  /\ \A frame \in {"LF", "TF"} : Slot(frame) \in Arguments
  /\ "none" \in Arguments /\ Op(1) \in Arguments /\ Op(2) \in Arguments
  /\ Variables \subseteq Arguments
BY LabelsAre, VarsAre DEF Arguments, Op

\* The code of ?? leaves the facts as they were.
LEMMA NilLeads ==
  ASSUME NEW a \in Facts, a.shape = "body", NEW K, Flat(a) \subseteq K, NEW uid \in Nat, NEW lab,
         \A name \in {"ELSE", "IF_END"} :
           Label(name, uid) \in DOMAIN lab /\ lab[Label(name, uid)] = At(a, "op12")
  PROVE  Leads(code_generator_nil_check(uid), a, a, lab, K)
<1> DEFINE fr == At(a, "frame")
           o0 == At(a, "op0")
           o2 == At(a, "op2")
           o12 == At(a, "op12")
           le == Label("ELSE", uid)
           li == Label("IF_END", uid)
           d2 == Instr("DEFVAR", Var("LF", "op", 2))
           u2 == Instr("USE", Var("LF", "op", 2))
           d1 == Instr("DEFVAR", Var("LF", "op", 1))
           u1 == Instr("USE", Var("LF", "op", 1))
           cf == Instr("CREATEFRAME", "none")
           pf == Instr("PUSHFRAME", "none")
           of == Instr("POPFRAME", "none")
           jn == Instr("JUMPIFNEQS", le)
           jp == Instr("JUMP", li)
           we == Instr("LABEL", le)
           wi == Instr("LABEL", li)
<1>1. "body" \in Shapes /\ "frame" \in Shapes /\ "op0" \in Shapes /\ "op2" \in Shapes /\ "op12" \in Shapes
  BY DEF Shapes
<1>2. a = At(a, "body")
  BY FactFields
<1>3. a \in K /\ fr \in K /\ o0 \in K /\ o2 \in K /\ o12 \in K
  BY <1>1, FactFields
<1>4. /\ Move(a, fr, "body", "frame") /\ Move(fr, o0, "frame", "op0") /\ Move(o0, o2, "op0", "op2")
      /\ Move(o2, o12, "op2", "op12") /\ Move(o12, a, "op12", "body")
      /\ Same(o2, o2) /\ Same(o12, o12) /\ o12.shape = "op12" /\ o2.shape = "op2"
  <2>1. \A s, t \in Shapes : /\ Move(At(a, s), At(a, t), s, t) /\ Same(At(a, s), At(a, s))
                              /\ At(a, s).shape = s
    BY FlatMoves, FactFields
  <2> QED BY <1>1, <1>2, <2>1
<1>5. /\ d2 \in Codes /\ d2.op = "DEFVAR" /\ d2.arg = Op(2) /\ d1 \in Codes /\ d1.op = "DEFVAR" /\ d1.arg = Op(1)
      /\ u2 \in Codes /\ u2.op = "USE" /\ u2.arg = Op(2) /\ u1 \in Codes /\ u1.op = "USE" /\ u1.arg = Op(1)
  <2>1. /\ "DEFVAR" \in Ops /\ "USE" \in Ops /\ Op(1) \in Arguments /\ Op(2) \in Arguments
        /\ Op(1) = Var("LF", "op", 1) /\ Op(2) = Var("LF", "op", 2)
    BY ArgumentsAre DEF Ops, Op
  <2> QED BY <2>1, CodesAre
<1>6. /\ cf \in Codes /\ cf.op = "CREATEFRAME" /\ pf \in Codes /\ pf.op = "PUSHFRAME"
      /\ of \in Codes /\ of.op = "POPFRAME"
  BY ArgumentsAre, CodesAre DEF Ops
<1>7. /\ jn \in Codes /\ jn.op = "JUMPIFNEQS" /\ jn.arg = le /\ jp \in Codes /\ jp.op = "JUMP" /\ jp.arg = li
      /\ we \in Codes /\ we.op = "LABEL" /\ we.arg = le /\ wi \in Codes /\ wi.op = "LABEL" /\ wi.arg = li
  BY ArgumentsAre, CodesAre DEF Ops, GotoOps, LabelNames
<1>8. le \in DOMAIN lab /\ lab[le] = o12 /\ li \in DOMAIN lab /\ lab[li] = o12
  OBVIOUS
<1>9. /\ code_generator_createframe = <<cf>> /\ code_generator_pushframe = <<pf>>
      /\ code_generator_popframe = <<of>> /\ code_generator_if_header(uid) = <<jn>>
      /\ code_generator_if_else(uid) = <<jp, we>> /\ code_generator_if_end(uid) = <<wi>>
      /\ code_generator_nil_check(uid) =
           code_generator_createframe \o code_generator_pushframe \o <<d2, u2, d1, u1>>
             \o code_generator_if_header(uid) \o <<u1>> \o code_generator_if_else(uid) \o <<u2>>
             \o code_generator_if_end(uid) \o code_generator_popframe
  BY DEF code_generator_createframe, code_generator_pushframe, code_generator_popframe,
         code_generator_if_header, code_generator_if_else, code_generator_if_end, code_generator_nil_check
<1> HIDE DEF fr, o0, o2, o12, le, li, d2, u2, d1, u1, cf, pf, of, jn, jp, we, wi
<1>10. /\ Check(cf, a, fr, lab) /\ Check(pf, fr, o0, lab) /\ Check(of, o12, a, lab)
       /\ Check(jn, o12, o12, lab) /\ Check(jp, o12, o12, lab)
       /\ Check(we, o12, o12, lab) /\ Check(wi, o12, o12, lab)
  BY <1>4, <1>6, <1>7, <1>8, CheckBy
<1>12. /\ CheckDefvar(Op(2), o0, o2) /\ CheckDefvar(Op(1), o2, o12)
       /\ CheckUse(Op(2), o2, o2) /\ CheckUse(Op(2), o12, o12) /\ CheckUse(Op(1), o12, o12)
  BY <1>4, Zenon DEF CheckUse, CheckDefvar
<1>13. /\ Check(d2, o0, o2, lab) /\ Check(d1, o2, o12, lab)
       /\ Check(u2, o2, o2, lab) /\ Check(u2, o12, o12, lab) /\ Check(u1, o12, o12, lab)
  BY <1>5, <1>12, CheckBy
<1>14. /\ Leads(<<cf>>, a, fr, lab, K) /\ Leads(<<pf>>, fr, o0, lab, K)
       /\ Leads(<<jn>>, o12, o12, lab, K) /\ Leads(<<u1>>, o12, o12, lab, K)
       /\ Leads(<<jp, we>>, o12, o12, lab, K) /\ Leads(<<u2>>, o12, o12, lab, K)
       /\ Leads(<<wi>>, o12, o12, lab, K) /\ Leads(<<of>>, o12, a, lab, K)
  BY <1>3, <1>5, <1>6, <1>7, <1>10, <1>13, LeadsOne, LeadsTwo
<1>15. Leads(<<d2, u2, d1, u1>>, o0, o12, lab, K)
  BY <1>3, <1>5, <1>13, LeadsFour
<1> QED
  <2>1. Leads(<<cf>> \o <<pf>>, a, o0, lab, K)
    BY <1>14, LeadsConcat
  <2>2. Leads(<<cf>> \o <<pf>> \o <<d2, u2, d1, u1>>, a, o12, lab, K)
    BY <1>15, <2>1, LeadsConcat
  <2>3. Leads(<<cf>> \o <<pf>> \o <<d2, u2, d1, u1>> \o <<jn>>, a, o12, lab, K)
    BY <1>14, <2>2, LeadsConcat
  <2>4. Leads(<<cf>> \o <<pf>> \o <<d2, u2, d1, u1>> \o <<jn>> \o <<u1>>, a, o12, lab, K)
    BY <1>14, <2>3, LeadsConcat
  <2>5. Leads(<<cf>> \o <<pf>> \o <<d2, u2, d1, u1>> \o <<jn>> \o <<u1>> \o <<jp, we>>, a, o12, lab, K)
    BY <1>14, <2>4, LeadsConcat
  <2>6. Leads(<<cf>> \o <<pf>> \o <<d2, u2, d1, u1>> \o <<jn>> \o <<u1>> \o <<jp, we>> \o <<u2>>,
              a, o12, lab, K)
    BY <1>14, <2>5, LeadsConcat
  <2>7. Leads(<<cf>> \o <<pf>> \o <<d2, u2, d1, u1>> \o <<jn>> \o <<u1>> \o <<jp, we>> \o <<u2>> \o <<wi>>,
              a, o12, lab, K)
    BY <1>14, <2>6, LeadsConcat
  <2>8. Leads(<<cf>> \o <<pf>> \o <<d2, u2, d1, u1>> \o <<jn>> \o <<u1>> \o <<jp, we>> \o <<u2>> \o <<wi>>
                \o <<of>>, a, a, lab, K)
    BY <1>14, <2>7, LeadsConcat
  <2> QED BY <1>9, <2>8, Zenon

LEMMA ExprLeads ==
  ASSUME NEW a \in Facts, a.shape = "body", NEW K, Flat(a) \subseteq K, NEW lab, NEW nils \in 0..1,
         Here \in Nat, cond_uid \in Nat,
         nils = 1 => \A name \in {"ELSE", "IF_END"} :
           Label(name, cond_uid) \in DOMAIN lab /\ lab[Label(name, cond_uid)] = At(a, "op12")
  PROVE  Leads(expr(nils), a, a, lab, K)
<1> DEFINE x == InstrAt("EVAL", "none", Here)
           c == IF nils = 0 THEN <<>> ELSE code_generator_nil_check(cond_uid)
<1>1. x \in Codes /\ x.op = "EVAL"
  <2>1. "EVAL" \in Ops /\ "none" \in Arguments
    BY ArgumentsAre DEF Ops
  <2> QED BY <2>1, CodesAre
<1>2. a \in K /\ Same(a, a)
  BY FactFields, WeakerTrans
<1> HIDE DEF x
<1>3. Leads(<<x>>, a, a, lab, K)
  BY <1>1, <1>2, CheckBy, LeadsOne
<1>4. Leads(c, a, a, lab, K)
  <2>1. CASE nils = 0
    BY <1>2, <2>1, LeadsEmpty
  <2>2. CASE nils = 1
    BY <2>2, NilLeads
  <2> QED BY <2>1, <2>2
<1> HIDE DEF c
<1>5. Leads(<<x>> \o c, a, a, lab, K)
  BY <1>3, <1>4, LeadsConcat
<1> QED BY <1>5 DEF expr, x, c

LEMMA LeadsLabel ==
  ASSUME NEW K, NEW a \in K, NEW l \in LabelSet, NEW lab, NEW i \in Nat,
         l \in DOMAIN lab, Same(lab[l], a), Same(a, a)
  PROVE  Leads(<<InstrAt("LABEL", l, i)>>, a, a, lab, K) /\ Leads(<<Instr("LABEL", l)>>, a, a, lab, K)
<1> DEFINE x == InstrAt("LABEL", l, i)
           y == Instr("LABEL", l)
<1>1. x \in Codes /\ x.op = "LABEL" /\ x.arg = l /\ y \in Codes /\ y.op = "LABEL" /\ y.arg = l
  BY CodesAre DEF Ops, Arguments
<1> HIDE DEF x, y
<1>2. Leads(<<x>>, a, a, lab, K) /\ Leads(<<y>>, a, a, lab, K)
  BY <1>1, CheckBy, LeadsOne
<1> QED BY <1>2 DEF x, y

LEMMA LeadsBranch ==
  ASSUME NEW K, NEW a \in K, NEW l \in LabelSet, NEW lab,
         l \in DOMAIN lab, Same(a, lab[l]), Same(a, a)
  PROVE  Leads(<<Instr("JUMPIFNEQS", l)>>, a, a, lab, K)
<1> DEFINE x == Instr("JUMPIFNEQS", l)
<1>1. x \in Codes /\ x.op = "JUMPIFNEQS" /\ x.arg = l
  BY CodesAre DEF Ops, GotoOps, Arguments
<1> HIDE DEF x
<1>2. Leads(<<x>>, a, a, lab, K)
  BY <1>1, CheckBy, LeadsOne
<1> QED BY <1>2 DEF x

\* Behind a jump, what is known at the label that follows it.
LEMMA LeadsJump ==
  ASSUME NEW K, NEW a \in K, NEW b \in K, NEW l \in LabelSet, NEW m \in LabelSet, NEW lab,
         l \in DOMAIN lab, m \in DOMAIN lab, Same(a, lab[l]), Same(lab[m], b), Same(b, b)
  PROVE  Leads(<<Instr("JUMP", l), Instr("LABEL", m)>>, a, b, lab, K)
<1> DEFINE x == Instr("JUMP", l)
           y == Instr("LABEL", m)
<1>1. x \in Codes /\ x.op = "JUMP" /\ x.arg = l /\ y \in Codes /\ y.op = "LABEL" /\ y.arg = m
  BY CodesAre DEF Ops, GotoOps, Arguments
<1> HIDE DEF x, y
<1>2. Check(x, a, b, lab) /\ Check(y, b, b, lab)
  BY <1>1, CheckBy
<1>3. Leads(<<x, y>>, a, b, lab, K)
  BY <1>1, <1>2, LeadsTwo
<1> QED BY <1>3 DEF x, y

LEMMA WhileLeads ==
  ASSUME NEW a \in Facts, a.shape = "body", NEW K, Flat(a) \subseteq K, NEW lab, NEW nils \in 0..1,
         Here \in Nat, cond_uid \in Nat, NEW u \in Nat,
         nils = 1 => \A name \in {"ELSE", "IF_END"} :
           Label(name, cond_uid) \in DOMAIN lab /\ lab[Label(name, cond_uid)] = At(a, "op12"),
         \A name \in {"FOR", "FOR_BODY", "FOR_END"} :
           Label(name, u) \in DOMAIN lab /\ lab[Label(name, u)] = a
  PROVE  Leads(code_generator_for_label(u) \o expr(nils) \o code_generator_for_loop_if(u)
                 \o code_generator_for_body(u), a, a, lab, K)
<1> DEFINE l1 == Label("FOR", u)
           l2 == Label("FOR_BODY", u)
           l3 == Label("FOR_END", u)
           y == Instr("JUMPIFNEQS", l3)
           z == Instr("JUMP", l2)
<1>1. a \in K /\ Same(a, a)
  BY FactFields, WeakerTrans
<1>2. /\ l1 \in LabelSet /\ l1 \in DOMAIN lab /\ lab[l1] = a
      /\ l2 \in LabelSet /\ l2 \in DOMAIN lab /\ lab[l2] = a
      /\ l3 \in LabelSet /\ l3 \in DOMAIN lab /\ lab[l3] = a
  BY LabelsAre DEF LabelNames
<1>3. Leads(expr(nils), a, a, lab, K)
  BY ExprLeads
<1>4. y \in Codes /\ y.op = "JUMPIFNEQS" /\ y.arg = l3 /\ z \in Codes /\ z.op = "JUMP" /\ z.arg = l2
  BY <1>2, CodesAre DEF Ops, GotoOps, Arguments
<1>5. /\ code_generator_for_label(u) = <<Instr("LABEL", l1)>> /\ code_generator_for_loop_if(u) = <<y, z>>
      /\ code_generator_for_body(u) = <<Instr("LABEL", l2)>>
  BY DEF code_generator_for_label, code_generator_for_loop_if, code_generator_for_body
<1> HIDE DEF l1, l2, l3, y, z
<1>6. Check(y, a, a, lab) /\ Check(z, a, a, lab)
  BY <1>1, <1>2, <1>4, CheckBy
<1>7. Leads(<<y, z>>, a, a, lab, K)
  BY <1>1, <1>4, <1>6, LeadsTwo
<1>8. Leads(<<Instr("LABEL", l1)>>, a, a, lab, K) /\ Leads(<<Instr("LABEL", l2)>>, a, a, lab, K)
  BY <1>1, <1>2, LeadsLabel, 0 \in Nat
<1>9. Leads(<<Instr("LABEL", l1)>> \o expr(nils), a, a, lab, K)
  BY <1>3, <1>8, LeadsConcat
<1>10. Leads(<<Instr("LABEL", l1)>> \o expr(nils) \o <<y, z>>, a, a, lab, K)
  BY <1>7, <1>9, LeadsConcat
<1>11. Leads(<<Instr("LABEL", l1)>> \o expr(nils) \o <<y, z>> \o <<Instr("LABEL", l2)>>, a, a, lab, K)
  BY <1>8, <1>10, LeadsConcat
<1> QED BY <1>5, <1>11, Zenon

LEMMA LoopEndLeads ==
  ASSUME NEW K, NEW a \in Facts, a \in K, NEW lab, NEW u \in Nat,
         \A name \in {"FOR", "FOR_END"} : Label(name, u) \in DOMAIN lab /\ lab[Label(name, u)] = a
  PROVE  Leads(code_generator_for_loop_end(u), a, a, lab, K)
<1> DEFINE l1 == Label("FOR", u)
           l3 == Label("FOR_END", u)
<1>1. Same(a, a)
  BY WeakerTrans
<1>2. /\ l1 \in LabelSet /\ l1 \in DOMAIN lab /\ lab[l1] = a
      /\ l3 \in LabelSet /\ l3 \in DOMAIN lab /\ lab[l3] = a
  BY LabelsAre DEF LabelNames
<1>3. code_generator_for_loop_end(u) = <<Instr("JUMP", l1), Instr("LABEL", l3)>>
  BY DEF code_generator_for_loop_end
<1> HIDE DEF l1, l3
<1>4. Leads(<<Instr("JUMP", l1), Instr("LABEL", l3)>>, a, a, lab, K)
  BY <1>1, <1>2, LeadsJump
<1> QED BY <1>3, <1>4

LEMMA IfLeads ==
  ASSUME NEW K, NEW a \in Facts, a \in K, NEW lab, NEW u \in Nat
  PROVE  /\ Label("ELSE", u) \in DOMAIN lab /\ Same(a, lab[Label("ELSE", u)])
              => Leads(code_generator_if_header(u), a, a, lab, K)
         /\ Label("IF_END", u) \in DOMAIN lab /\ Same(lab[Label("IF_END", u)], a)
              => Leads(code_generator_if_end(u), a, a, lab, K)
         /\ \A b \in K \intersect Facts :
              Label("ELSE", u) \in DOMAIN lab /\ Same(lab[Label("ELSE", u)], b)
                /\ Label("IF_END", u) \in DOMAIN lab /\ Same(a, lab[Label("IF_END", u)])
                => Leads(code_generator_if_else(u), a, b, lab, K)
<1> DEFINE le == Label("ELSE", u)
           li == Label("IF_END", u)
<1>1. Same(a, a) /\ \A b \in Facts : Same(b, b)
  BY WeakerTrans
<1>2. le \in LabelSet /\ li \in LabelSet
  BY LabelsAre DEF LabelNames
<1>3. /\ code_generator_if_header(u) = <<Instr("JUMPIFNEQS", le)>>
      /\ code_generator_if_end(u) = <<Instr("LABEL", li)>>
      /\ code_generator_if_else(u) = <<Instr("JUMP", li), Instr("LABEL", le)>>
  BY DEF code_generator_if_header, code_generator_if_end, code_generator_if_else
<1> HIDE DEF le, li
<1>4. le \in DOMAIN lab /\ Same(a, lab[le]) => Leads(code_generator_if_header(u), a, a, lab, K)
  BY <1>1, <1>2, <1>3, LeadsBranch
<1>5. li \in DOMAIN lab /\ Same(lab[li], a) => Leads(code_generator_if_end(u), a, a, lab, K)
  BY <1>1, <1>2, <1>3, LeadsLabel, 0 \in Nat
<1>6. ASSUME NEW b \in K \intersect Facts, le \in DOMAIN lab, Same(lab[le], b),
             li \in DOMAIN lab, Same(a, lab[li])
      PROVE  Leads(code_generator_if_else(u), a, b, lab, K)
  BY <1>1, <1>2, <1>3, <1>6, LeadsJump
<1> QED BY <1>4, <1>5, <1>6 DEF le, li

LEMMA VarFields ==
  ASSUME NEW v, IsVar(v)
  PROVE  v \in Variables /\ v.id[2] \in Nat /\ v.frame \in {"GF", "LF"} /\ v.id[1] = "var"
           /\ v.id = <<"var", v.id[2]>>
BY DEF IsVar, Variables

LEMMA UseLeads ==
  ASSUME NEW K, NEW a \in Facts, a \in K, a.shape = "body", NEW lab, NEW v, IsVar(v),
         v \in a.must \/ (a.fn /\ v.frame = "GF")
  PROVE  Leads(<<Instr("USE", v)>>, a, a, lab, K)
<1> DEFINE x == Instr("USE", v)
<1>1. v \in Arguments
  BY VarFields, ArgumentsAre
<1>2. x \in Codes /\ x.op = "USE" /\ x.arg = v
  BY <1>1, CodesAre DEF Ops
<1>3. Same(a, a)
  BY WeakerTrans
<1> HIDE DEF x
<1>4. CheckUse(v, a, a)
  BY <1>3 DEF CheckUse
<1>5. Leads(<<x>>, a, a, lab, K)
  BY <1>2, <1>4, CheckBy, LeadsOne
<1> QED BY <1>5 DEF x

\* The facts behind the declaration of v.
With(a, v) == [shape |-> a.shape, fn |-> a.fn, must |-> a.must \union {v}, bound |-> v.id[2] + 1]

LEMMA WithFields ==
  ASSUME NEW a \in Facts, NEW v, IsVar(v)
  PROVE  /\ With(a, v) \in Facts /\ With(a, v).shape = a.shape /\ With(a, v).fn = a.fn
         /\ With(a, v).must = a.must \union {v} /\ With(a, v).bound = v.id[2] + 1
         /\ v \in With(a, v).must
BY FactFields, VarFields DEF With, Facts

LEMMA DefvarCode ==
  ASSUME NEW v \in Variables
  PROVE  /\ code_generator_defvar(v) \in Codes /\ code_generator_defvar(v).op = "DEFVAR"
         /\ code_generator_defvar(v).arg = v /\ code_generator_defvar(v).direct = TRUE
<1>1. v \in Arguments /\ "DEFVAR" \in Ops
  BY ArgumentsAre DEF Ops
<1> QED BY <1>1 DEF code_generator_defvar, Codes

LEMMA DefvarLeads ==
  ASSUME NEW K, NEW a \in Facts, a \in K, a.shape \in {"body", "arg"}, NEW lab, NEW v, IsVar(v),
         a.fn => v.frame = "LF", a.bound <= v.id[2], With(a, v) \in K
  PROVE  Leads(<<code_generator_defvar(v)>>, a, With(a, v), lab, K)
<1> DEFINE x == code_generator_defvar(v)
           b == With(a, v)
<1>1. x \in Codes /\ x.op = "DEFVAR" /\ x.arg = v
  BY DefvarCode, VarFields
<1>2. b \in Facts /\ b.shape = a.shape /\ b.fn = a.fn /\ b.must = a.must \union {v} /\ b.bound = v.id[2] + 1
  BY WithFields
<1>3. v.id[2] < b.bound
  BY <1>2, VarFields
<1> HIDE DEF x, b
<1>4. CheckDefvar(v, a, b)
  BY <1>2, <1>3 DEF CheckDefvar
<1>5. Check(x, a, b, lab)
  BY <1>1, <1>4, CheckBy
<1>6. b \in K
  BY DEF b
<1>7. Leads(<<x>>, a, b, lab, K)
  BY <1>1, <1>5, <1>6, LeadsOne
<1> QED BY <1>7 DEF x, b

\* A function is entered with a new frame, which holds its argument.
EntryOf(f) == [shape |-> IF Params[f] = 0 THEN "enter0" ELSE "enter1", fn |-> TRUE, must |-> {}, bound |-> 0]
Body(fn, must, bound) == [shape |-> "body", fn |-> fn, must |-> must, bound |-> bound]
Boot == [shape |-> "boot", fn |-> FALSE, must |-> {}, bound |-> 0]

LEMMA ParamsAre ==
  ASSUME NEW f \in Functions
  PROVE  Params[f] \in {0, 1} /\ EntryOf(f) \in Facts
BY ControlFlowAssumption DEF Functions, EntryOf, Facts, Shapes

LEMMA EntryIs ==
  ASSUME NEW f
  PROVE  EntryOf(f).fn = TRUE /\ EntryOf(f).must = {} /\ EntryOf(f).bound = 0
BY DEF EntryOf

LEMMA BodyFields ==
  ASSUME NEW fn \in BOOLEAN, NEW m \in SUBSET Variables, NEW n \in Nat
  PROVE  /\ Body(fn, m, n) \in Facts /\ Body(fn, m, n).shape = "body" /\ Body(fn, m, n).fn = fn
         /\ Body(fn, m, n).must = m /\ Body(fn, m, n).bound = n
BY DEF Body, Facts, Shapes

\* The call of a function without a parameter, also in a loop, and of one with a
\* parameter.
LEMMA CallLeads ==
  ASSUME NEW a \in Facts, a.shape = "body", NEW K, Flat(a) \subseteq K, NEW lab, NEW i \in Nat,
         NEW f \in Functions
  PROVE  Leads(code_generator_function_call(f, i), a, a, lab, K)
<1> DEFINE cf == Instr("CREATEFRAME", "none")
           dv == code_generator_defvar(Slot("TF"))
           us == Instr("USE", Slot("TF"))
           cl == InstrAt("CALL", Label("FUNCTION", f), i)
           fr == At(a, "frame")
           sl == At(a, "slot")
<1>1. "body" \in Shapes /\ "frame" \in Shapes /\ "slot" \in Shapes
  BY DEF Shapes
<1>2. a = At(a, "body")
  BY FactFields
<1>3. a \in K /\ fr \in K /\ sl \in K /\ sl.shape = "slot"
  BY <1>1, FactFields
<1>4. /\ Move(a, fr, "body", "frame") /\ Move(fr, sl, "frame", "slot") /\ Same(sl, sl)
      /\ Move(fr, a, "frame", "body") /\ Move(sl, a, "slot", "body")
  <2>1. \A s, t \in Shapes : Move(At(a, s), At(a, t), s, t) /\ Same(At(a, s), At(a, s))
    BY FlatMoves
  <2> QED BY <1>1, <1>2, <2>1
<1>5. Slot("TF") \in Variables /\ Slot("TF") \in Arguments /\ "none" \in Arguments
      /\ Label("FUNCTION", f) \in Arguments
  BY VarsAre, ArgumentsAre, LabelsAre
<1>6. /\ cf \in Codes /\ cf.op = "CREATEFRAME" /\ us \in Codes /\ us.op = "USE" /\ us.arg = Slot("TF")
      /\ cl \in Codes /\ cl.op = "CALL" /\ cl.arg = Label("FUNCTION", f)
  BY <1>5, CodesAre DEF Ops, GotoOps
<1>7. dv \in Codes /\ dv.op = "DEFVAR" /\ dv.arg = Slot("TF")
  BY <1>5, DefvarCode
<1>8. code_generator_function_call(f, i) = <<cf>> \o (IF Params[f] = 0 THEN <<>> ELSE <<dv, us>>) \o <<cl>>
  BY DEF code_generator_function_call, code_generator_createframe
<1> HIDE DEF cf, dv, us, cl, fr, sl
<1>9. CheckDefvar(Slot("TF"), fr, sl) /\ CheckUse(Slot("TF"), sl, sl)
  BY <1>3, <1>4, Zenon DEF CheckUse, CheckDefvar
<1>10. Check(cf, a, fr, lab) /\ Check(dv, fr, sl, lab) /\ Check(us, sl, sl, lab)
  BY <1>4, <1>6, <1>7, <1>9, CheckBy
<1>11. Leads(<<cf>>, a, fr, lab, K)
  BY <1>3, <1>6, <1>10, LeadsOne
<1>12. CASE Params[f] = 0
  <2>1. Check(cl, fr, a, lab)
    BY <1>4, <1>6, <1>12, CheckBy
  <2>2. Leads(<<>>, fr, fr, lab, K) /\ Leads(<<cl>>, fr, a, lab, K)
    BY <1>3, <1>6, <2>1, LeadsEmpty, LeadsOne
  <2>3. Leads(<<cf>> \o <<>>, a, fr, lab, K)
    BY <1>11, <2>2, LeadsConcat
  <2>4. Leads(<<cf>> \o <<>> \o <<cl>>, a, a, lab, K)
    BY <2>2, <2>3, LeadsConcat
  <2> QED BY <1>8, <1>12, <2>4
<1>13. CASE Params[f] = 1
  <2>1. Check(cl, sl, a, lab)
    BY <1>4, <1>6, <1>13, CheckBy
  <2>2. Leads(<<dv, us>>, fr, sl, lab, K) /\ Leads(<<cl>>, sl, a, lab, K)
    BY <1>3, <1>6, <1>7, <1>10, <2>1, LeadsTwo, LeadsOne
  <2>3. Leads(<<cf>> \o <<dv, us>>, a, sl, lab, K)
    BY <1>11, <2>2, LeadsConcat
  <2>4. Leads(<<cf>> \o <<dv, us>> \o <<cl>>, a, a, lab, K)
    BY <2>2, <2>3, LeadsConcat
  <2> QED BY <1>8, <1>13, <2>4
<1> QED BY <1>12, <1>13, ParamsAre

LEMMA ReturnLeads ==
  ASSUME NEW a \in Facts, a.shape = "body", a.fn, NEW K, Flat(a) \subseteq K, NEW b \in K,
         NEW lab, NEW i \in Nat
  PROVE  Leads(code_generator_return(i), a, b, lab, K)
<1> DEFINE pf == Instr("POPFRAME", "none")
           rt == InstrAt("RETURN", "none", i)
           lv == At(a, "leave")
<1>1. "body" \in Shapes /\ "leave" \in Shapes
  BY DEF Shapes
<1>2. a = At(a, "body")
  BY FactFields
<1>3. a \in K /\ lv \in K /\ lv.shape = "leave" /\ lv.fn
  BY <1>1, FactFields
<1>4. Move(a, lv, "body", "leave")
  <2>1. \A s, t \in Shapes : Move(At(a, s), At(a, t), s, t)
    BY FlatMoves
  <2> QED BY <1>1, <1>2, <2>1
<1>5. "POPFRAME" \in Ops /\ "RETURN" \in Ops /\ "none" \in Arguments
  BY ArgumentsAre DEF Ops
<1>6. pf \in Codes /\ pf.op = "POPFRAME" /\ rt \in Codes /\ rt.op = "RETURN"
  BY <1>5, CodesAre
<1>7. code_generator_return(i) = <<pf>> \o <<rt>>
  BY DEF code_generator_return, code_generator_popframe
<1> HIDE DEF pf, rt, lv
<1>8. Check(pf, a, lv, lab) /\ Check(rt, lv, b, lab)
  BY <1>3, <1>4, <1>6, CheckBy
<1>9. Leads(<<pf>>, a, lv, lab, K) /\ Leads(<<rt>>, lv, b, lab, K)
  BY <1>3, <1>6, <1>8, LeadsOne
<1>10. Leads(<<pf>> \o <<rt>>, a, b, lab, K)
  BY <1>9, LeadsConcat
<1> QED BY <1>7, <1>10

LEMMA FunctionEndLeads ==
  ASSUME NEW a \in Facts, a.shape = "body", a.fn, NEW b \in Facts, NEW lab, NEW i \in Nat,
         NEW f \in Names, Label("FUNCTION", EndName[f]) \in DOMAIN lab,
         Same(lab[Label("FUNCTION", EndName[f])], b)
  PROVE  Leads(code_generator_function_end(f, i), a, b, lab, Facts)
<1> DEFINE l == Label("FUNCTION", EndName[f])
<1>1. Flat(a) \subseteq Facts
  BY FlatFields
<1>2. Leads(code_generator_return(i), a, b, lab, Facts)
  BY <1>1, ReturnLeads
<1>3. l \in LabelSet /\ Same(b, b)
  BY LabelsAre, WeakerTrans
<1>4. l \in DOMAIN lab /\ Same(lab[l], b)
  OBVIOUS
<1>5. code_generator_function_end(f, i) = code_generator_return(i) \o <<Instr("LABEL", l)>>
  BY DEF code_generator_function_end
<1> HIDE DEF l
<1>6. Leads(<<Instr("LABEL", l)>>, b, b, lab, Facts)
  BY <1>3, <1>4, LeadsLabel, 0 \in Nat
<1>7. Leads(code_generator_return(i) \o <<Instr("LABEL", l)>>, a, b, lab, Facts)
  BY <1>2, <1>6, LeadsConcat
<1> QED BY <1>5, <1>7

LEMMA FunctionLabelLeads ==
  ASSUME NEW a \in Facts, NEW lab, NEW f \in Names, NEW b \in Facts, NEW en \in Facts,
         en.fn = TRUE, en.must = {}, en.bound = 0, b.fn = TRUE, b.must = {},
         \/ en.shape = "enter0" /\ b.shape = "body"
         \/ en.shape = "enter1" /\ b.shape = "arg",
         Label("FUNCTION", f) \in DOMAIN lab, lab[Label("FUNCTION", f)] = en,
         Label("FUNCTION", EndName[f]) \in DOMAIN lab, Same(a, lab[Label("FUNCTION", EndName[f])])
  PROVE  Leads(code_generator_function_label(f), a, b, lab, Facts)
<1> DEFINE l == Label("FUNCTION", EndName[f])
           m == Label("FUNCTION", f)
           pf == Instr("PUSHFRAME", "none")
<1>1. l \in LabelSet /\ m \in LabelSet
  BY LabelsAre
<1>2. b.bound \in Nat
  BY FactFields
<1>3. Same(en, en)
  BY WeakerTrans
<1>4. Move(en, b, en.shape, b.shape)
  <2>1. en.bound <= b.bound /\ b.must \subseteq en.must
    BY <1>2
  <2> QED BY <2>1, Zenon DEF Move, Weaker
<1>5. "PUSHFRAME" \in Ops /\ "none" \in Arguments
  BY ArgumentsAre DEF Ops
<1>6. pf \in Codes /\ pf.op = "PUSHFRAME"
  BY <1>5, CodesAre
<1>7. l \in DOMAIN lab /\ Same(a, lab[l]) /\ m \in DOMAIN lab /\ lab[m] = en
  OBVIOUS
<1>8. code_generator_function_label(f) = <<Instr("JUMP", l), Instr("LABEL", m)>> \o <<pf>>
  BY DEF code_generator_function_label, code_generator_pushframe
<1> HIDE DEF l, m, pf
<1>9. Leads(<<Instr("JUMP", l), Instr("LABEL", m)>>, a, en, lab, Facts)
  BY <1>1, <1>3, <1>7, LeadsJump
<1>10. Check(pf, en, b, lab)
  <2>1. Move(en, b, "enter0", "body") \/ Move(en, b, "enter1", "arg")
    BY <1>4
  <2> QED BY <1>6, <2>1, CheckBy
<1>11. Leads(<<pf>>, en, b, lab, Facts)
  BY <1>6, <1>10, LeadsOne
<1>12. Leads(<<Instr("JUMP", l), Instr("LABEL", m)>> \o <<pf>>, a, b, lab, Facts)
  BY <1>9, <1>11, LeadsConcat
<1> QED BY <1>8, <1>12

LEMMA ParamLeads ==
  ASSUME NEW v, IsVar(v), v.frame = "LF", NEW a \in Facts, a.shape = "arg", a.bound <= v.id[2],
         a.must = {}, a.fn = TRUE, NEW lab
  PROVE  Leads(code_generator_param_map(v), a, Body(TRUE, {v}, v.id[2] + 1), lab, Facts)
<1> DEFINE d == code_generator_defvar(v)
           us == Instr("USE", Slot("LF"))
           uv == Instr("USE", v)
           b == With(a, v)
           e == Body(TRUE, {v}, v.id[2] + 1)
<1>1. v \in Variables /\ v.id[2] \in Nat /\ v.id[2] + 1 \in Nat /\ v \in Arguments
  BY VarFields, ArgumentsAre
<1>2. b \in Facts /\ b.shape = "arg" /\ b.fn = TRUE /\ b.must = {v} /\ b.bound = v.id[2] + 1
  BY WithFields
<1>3. e \in Facts /\ e.shape = "body" /\ e.fn = TRUE /\ e.must = {v} /\ e.bound = v.id[2] + 1
  BY <1>1 DEF Body, Facts, Shapes
<1>4. Move(b, e, "arg", "body")
  <2> HIDE DEF b, e
  <2>1. b.bound <= e.bound /\ e.must \subseteq b.must
    BY <1>1, <1>2, <1>3
  <2>2. b.fn = e.fn
    BY <1>2, <1>3, Zenon
  <2> QED BY <1>2, <1>3, <2>1, <2>2, Zenon DEF Move, Weaker
<1>5. Leads(<<d>>, a, b, lab, Facts)
  BY <1>2, DefvarLeads
<1>6. Leads(<<uv>>, e, e, lab, Facts)
  BY <1>3, UseLeads
<1>7. "USE" \in Ops /\ Slot("LF") \in Arguments
  BY ArgumentsAre DEF Ops
<1>8. us \in Codes /\ us.op = "USE" /\ us.arg = Slot("LF") /\ d \in Codes /\ uv \in Codes
  <2>1. d \in Codes
    BY <1>1, DefvarCode
  <2>2. us \in Codes /\ us.op = "USE" /\ us.arg = Slot("LF")
    BY <1>7, CodesAre
  <2>3. uv \in Codes
    BY <1>1, <1>7, CodesAre
  <2> QED BY <2>1, <2>2, <2>3
<1>9. code_generator_param_map(v) = <<d, us, uv>>
  BY DEF code_generator_param_map
<1> HIDE DEF d, us, uv, b, e
<1>10. CheckUse(Slot("LF"), b, e)
  BY <1>4 DEF CheckUse
<1>11. Leads(<<us>>, b, e, lab, Facts)
  BY <1>2, <1>3, <1>8, <1>10, CheckBy, LeadsOne
<1>12. Leads(<<us>> \o <<uv>>, b, e, lab, Facts)
  BY <1>6, <1>11, LeadsConcat
<1>13. Leads(<<d>> \o (<<us>> \o <<uv>>), a, e, lab, Facts)
  BY <1>5, <1>12, LeadsConcat
<1>14. <<us, uv>> = <<us>> \o <<uv>>
  BY <1>8, TwoIsConcat
<1>15. <<d, us, uv>> = <<d>> \o <<us, uv>>
  BY <1>8, ThreeIsConcat
<1> QED BY <1>9, <1>13, <1>14, <1>15 DEF e

LEMMA DeclareLeads ==
  ASSUME NEW K, NEW a \in Facts, a \in K, a.shape = "body", NEW lab, NEW v, IsVar(v),
         a.fn => v.frame = "LF", a.bound <= v.id[2], With(a, v) \in K
  PROVE  Leads(code_generator_var_declare(v), a, With(a, v), lab, K)
<1> DEFINE d == code_generator_defvar(v)
           u == Instr("USE", v)
           b == With(a, v)
<1>1. Leads(<<d>>, a, b, lab, K)
  BY DefvarLeads
<1>2. b \in Facts /\ b.shape = "body" /\ v \in b.must
  BY WithFields
<1>3. Leads(<<u>>, b, b, lab, K)
  BY <1>2, UseLeads
<1>4. d \in Codes /\ u \in Codes
  <2>1. "USE" \in Ops /\ v \in Arguments /\ v \in Variables
    BY VarFields, ArgumentsAre DEF Ops
  <2> QED BY <2>1, CodesAre, DefvarCode
<1>5. code_generator_var_declare(v) = <<d, u>>
  BY DEF code_generator_var_declare
<1> HIDE DEF d, u
<1>6. <<d, u>> = <<d>> \o <<u>>
  BY <1>4, TwoIsConcat
<1>7. Leads(<<d>> \o <<u>>, a, b, lab, K)
  BY <1>1, <1>3, LeadsConcat
<1> QED BY <1>5, <1>6, <1>7

LEMMA StartLeads ==
  ASSUME NEW lab
  PROVE  /\ Leads(code_generator_createframe \o code_generator_pushframe, Boot, Body(FALSE, {}, 0), lab, Facts)
         /\ Boot \in Facts /\ Body(FALSE, {}, 0) \in Facts
<1> DEFINE cf == Instr("CREATEFRAME", "none")
           pf == Instr("PUSHFRAME", "none")
           a == At(Boot, "enter0")
           b == Body(FALSE, {}, 0)
<1>1. Boot \in Facts /\ Boot.shape = "boot" /\ Boot.fn = FALSE /\ Boot.must = {} /\ Boot.bound = 0
  BY DEF Boot, Facts, Shapes
<1>2. b \in Facts /\ b.shape = "body" /\ b.fn = FALSE /\ b.must = {} /\ b.bound = 0
  BY DEF Body, Facts, Shapes
<1>3. a \in Facts /\ a.shape = "enter0" /\ a.fn = FALSE /\ a.must = {} /\ a.bound = 0
  BY DEF At, Boot, Facts, Shapes
<1>4. "CREATEFRAME" \in Ops /\ "PUSHFRAME" \in Ops /\ "none" \in Arguments
  BY ArgumentsAre DEF Ops
<1>5. cf \in Codes /\ cf.op = "CREATEFRAME" /\ pf \in Codes /\ pf.op = "PUSHFRAME"
  BY <1>4, CodesAre
<1>6. code_generator_createframe = <<cf>> /\ code_generator_pushframe = <<pf>>
  BY DEF code_generator_createframe, code_generator_pushframe
<1> HIDE DEF cf, pf, a, b
<1>7. Move(Boot, a, "boot", "enter0") /\ Move(a, b, "enter0", "body")
  <2>1. Boot.fn = a.fn /\ a.fn = b.fn
    BY <1>1, <1>2, <1>3, Zenon
  <2>2. a.must \subseteq Boot.must /\ b.must \subseteq a.must /\ Boot.bound <= a.bound /\ a.bound <= b.bound
    BY <1>1, <1>2, <1>3
  <2> QED BY <1>1, <1>2, <1>3, <2>1, <2>2, Zenon DEF Move, Weaker
<1>8. Leads(<<cf>>, Boot, a, lab, Facts) /\ Leads(<<pf>>, a, b, lab, Facts)
  BY <1>1, <1>2, <1>3, <1>5, <1>7, CheckBy, LeadsOne
<1>9. Leads(<<cf>> \o <<pf>>, Boot, b, lab, Facts)
  BY <1>8, LeadsConcat
<1> QED BY <1>1, <1>2, <1>6, <1>9 DEF b

\* A built-in function, which is entered with its frame, and is jumped over.
Entry0 == [shape |-> "enter0", fn |-> TRUE, must |-> {}, bound |-> 0]
Start == Body(FALSE, {}, 0)

LEMMA BuiltinLeads ==
  ASSUME NEW lab, NEW f \in Builtins,
         Label("FUNCTION", f) \in DOMAIN lab, lab[Label("FUNCTION", f)] = Entry0,
         Label("FUNCTION", EndName[f]) \in DOMAIN lab, lab[Label("FUNCTION", EndName[f])] = Start
  PROVE  Leads(code_generator_builtin(f), Start, Start, lab, Facts)
<1> DEFINE b == Body(TRUE, {}, 0)
           ev == Instr("EVAL", "none")
           head == code_generator_function_label(f)
           end == code_generator_function_end(f, 0)
<1>1. Start \in Facts /\ Start.shape = "body" /\ Start.fn = FALSE /\ Start.must = {} /\ Start.bound = 0
  BY DEF Start, Body, Facts, Shapes
<1>2. b \in Facts /\ b.shape = "body" /\ b.fn = TRUE /\ b.must = {} /\ b.bound = 0
  BY DEF Body, Facts, Shapes
<1>3. /\ Entry0 \in Facts /\ Entry0.shape = "enter0" /\ Entry0.fn = TRUE /\ Entry0.must = {}
      /\ Entry0.bound = 0
  BY DEF Entry0, Facts, Shapes
<1>4. ev \in Codes /\ ev.op = "EVAL"
  <2>1. "EVAL" \in Ops /\ "none" \in Arguments
    BY ArgumentsAre DEF Ops
  <2> QED BY <2>1, CodesAre
<1>5. f \in Names /\ 0 \in Nat
  BY LabelsAre
<1>6. code_generator_builtin(f) = head \o <<ev>> \o end
  BY DEF code_generator_builtin
<1> HIDE DEF b, ev, head, end
<1>7. Same(Start, Start) /\ Same(b, b)
  BY <1>1, <1>2, WeakerTrans
<1>8. Leads(head, Start, b, lab, Facts)
  BY <1>1, <1>2, <1>3, <1>5, <1>7, FunctionLabelLeads DEF head
<1>9. Leads(<<ev>>, b, b, lab, Facts)
  BY <1>2, <1>4, <1>7, CheckBy, LeadsOne
<1>10. Leads(end, b, Start, lab, Facts)
  BY <1>1, <1>2, <1>5, <1>7, FunctionEndLeads DEF end
<1>11. Leads(head \o <<ev>>, Start, b, lab, Facts)
  BY <1>8, <1>9, LeadsConcat
<1>12. Leads(head \o <<ev>> \o end, Start, Start, lab, Facts)
  BY <1>10, <1>11, LeadsConcat
<1> QED BY <1>6, <1>12

LEMMA PrologLeads ==
  ASSUME NEW lab,
         \A f \in Builtins :
           /\ Label("FUNCTION", f) \in DOMAIN lab /\ lab[Label("FUNCTION", f)] = Entry0
           /\ Label("FUNCTION", EndName[f]) \in DOMAIN lab /\ lab[Label("FUNCTION", EndName[f])] = Start
  PROVE  Leads(code_generator_prolog, Boot, Start, lab, Facts)
<1> DEFINE boot == code_generator_createframe \o code_generator_pushframe
           c == code_generator_builtin("ord")
           d == code_generator_builtin("substring")
<1>1. "ord" \in Builtins /\ "substring" \in Builtins
  BY DEF Builtins
<1>2. Leads(c, Start, Start, lab, Facts) /\ Leads(d, Start, Start, lab, Facts)
  BY <1>1, BuiltinLeads
<1>3. Leads(boot, Boot, Start, lab, Facts)
  BY StartLeads DEF Start
<1>4. code_generator_prolog = boot \o c \o d
  BY DEF code_generator_prolog
<1> HIDE DEF boot, c, d
<1>5. Leads(boot \o c, Boot, Start, lab, Facts)
  BY <1>2, <1>3, LeadsConcat
<1>6. Leads(boot \o c \o d, Boot, Start, lab, Facts)
  BY <1>2, <1>5, LeadsConcat
<1> QED BY <1>4, <1>6

-----------------------------------------------------------------------------
(* Printing.                                                               *)

LEMMA LeadsMore ==
  ASSUME NEW c, NEW a, NEW b, NEW lab, NEW more, NEW K, NEW M, Leads(c, a, b, lab, K),
         MoreLabels(lab, more), K \subseteq M
  PROVE  Leads(c, a, b, more, M)
BY FlowsWiden DEF Leads

\* The labels of f and those of g.
Join(f, g) == [l \in DOMAIN f \union DOMAIN g |-> IF l \in DOMAIN f THEN f[l] ELSE g[l]]

LEMMA JoinFacts ==
  ASSUME NEW f, NEW g
  PROVE  /\ DOMAIN Join(f, g) = DOMAIN f \union DOMAIN g
         /\ MoreLabels(f, Join(f, g))
         /\ \A l \in DOMAIN g : l \notin DOMAIN f => Join(f, g)[l] = g[l]
         /\ (\A l \in DOMAIN g : l \notin DOMAIN f) => MoreLabels(g, Join(f, g))
BY DEF Join, MoreLabels

LEMMA MoreFlat ==
  ASSUME NEW fl, NEW more, MoreLabels(fl, more), NEW a
  PROVE  MoreLabels(FlatLab(fl, a), FlatLab(more, a))
BY DEF MoreLabels, FlatLab

\* Output and buffer lead to e.
CodeLeads(lab, fl, e) ==
  /\ Leads(out, Boot, e, lab, Facts)
  /\ Leads(print_buffer, e, e, FlatLab(fl, e), Flat(e))

\* Code that is printed outside of loops.
LEMMA EmitStraight ==
  ASSUME NEW lab, NEW fl, NEW e, NEW more, NEW fm, NEW b \in Facts, CodeLeads(lab, fl, e), MoreLabels(lab, more),
         NEW code, Leads(code, e, b, more, Facts), Emit(code, 0), print_buffer = <<>>
  PROVE  CodeLeads(more, fm, b)'
<1>1. out' = out \o code /\ print_buffer' = <<>>
  BY DEF Emit
<1>2. Leads(out, Boot, e, more, Facts)
  BY LeadsMore DEF CodeLeads
<1>3. Leads(out \o code, Boot, b, more, Facts)
  BY <1>2, LeadsConcat
<1>4. Leads(<<>>, b, b, FlatLab(fm, b), Flat(b))
  BY FactFields, LeadsEmpty
<1> QED BY <1>1, <1>3, <1>4 DEF CodeLeads

\* Code of which d leaves the loop and w waits in it.
Halves(c, d, w) == c \in Seq(Codes) /\ Part(c, TRUE) = d /\ Part(c, FALSE) = w

\* Code that is printed in a loop: d leaves the loop and leads to b, c stays in it.
LEMMA EmitInLoop ==
  ASSUME NEW lab, NEW fl, NEW e \in Facts, NEW fm, NEW b \in Facts, CodeLeads(lab, fl, e),
         MoreLabels(fl, fm), IsShapes(fl), e.fn = b.fn, e.shape = b.shape, e.must \subseteq b.must,
         NEW code, NEW loops, Emit(code, loops), loops # 0, NEW c, NEW d, Halves(code, d, c),
         Leads(d, e, b, lab, Facts), Leads(c, b, b, FlatLab(fm, b), Flat(b))
  PROVE  CodeLeads(lab, fm, b)'
<1>1. out' = out \o d /\ print_buffer' = print_buffer \o c
  BY DEF Emit, Halves
<1>2. Leads(out \o d, Boot, b, lab, Facts)
  BY LeadsConcat DEF CodeLeads
<1>3. print_buffer \in Seq(Codes) /\ Flows(print_buffer, e, e, FlatLab(fl, e), Flat(e))
  BY DEF CodeLeads, Leads
<1>4. Flows(print_buffer, b, b, FlatLab(fl, b), Flat(b))
  BY <1>3, FlowsRaise
<1>5. Leads(print_buffer, b, b, FlatLab(fm, b), Flat(b))
  BY <1>3, <1>4, MoreFlat, LeadsMore DEF Leads
<1>6. Leads(print_buffer \o c, b, b, FlatLab(fm, b), Flat(b))
  BY <1>5, LeadsConcat
<1> QED BY <1>1, <1>2, <1>6 DEF CodeLeads

\* Code that all of stays in the loop.
Waits(c) == Halves(c, <<>>, c)

LEMMA WaitsConcat ==
  ASSUME NEW c, NEW d, Waits(c), Waits(d)
  PROVE  Waits(c \o d)
<1>1. c \in Seq(Codes) /\ d \in Seq(Codes) /\ c \o d \in Seq(Codes)
  BY ConcatProperties DEF Waits, Halves
<1>2. PicksBoth(c, d, TRUE) /\ PicksBoth(c, d, FALSE)
  BY <1>1, PartConcat
<1>3. Part(c \o d, TRUE) = <<>> \o <<>> /\ Part(c \o d, FALSE) = c \o d
  BY <1>2 DEF PicksBoth, Waits, Halves
<1>4. <<>> \o <<>> = <<>>
  OBVIOUS
<1> QED BY <1>1, <1>3, <1>4 DEF Waits, Halves

LEMMA WaitsEmpty == Waits(<<>>)
<1>1. <<>> \in Seq(Codes)
  OBVIOUS
<1> QED BY <1>1, PartEmpty DEF Waits, Halves

LEMMA WaitsOne ==
  ASSUME NEW op \in Ops, NEW arg \in Arguments
  PROVE  Waits(<<Instr(op, arg)>>) /\ \A i \in Nat : Waits(<<InstrAt(op, arg, i)>>)
<1>1. ASSUME NEW x \in Codes, x.direct = FALSE PROVE Waits(<<x>>)
  <2>1. Part(<<x>>, TRUE) = <<>> /\ Part(<<x>>, FALSE) = <<x>>
    BY <1>1, PartOne
  <2>2. <<x>> \in Seq(Codes)
    OBVIOUS
  <2> QED BY <2>1, <2>2 DEF Waits, Halves
<1>2. ASSUME NEW i \in Nat PROVE InstrAt(op, arg, i) \in Codes /\ InstrAt(op, arg, i).direct = FALSE
  BY CodesAre DEF InstrAt
<1>3. Instr(op, arg) = InstrAt(op, arg, 0) /\ 0 \in Nat
  BY DEF Instr
<1> QED BY <1>1, <1>2, <1>3

LEMMA WaitsTwo ==
  ASSUME NEW op \in Ops, NEW arg \in Arguments, NEW p \in Ops, NEW q \in Arguments
  PROVE  Waits(<<Instr(op, arg), Instr(p, q)>>)
<1>1. Waits(<<Instr(op, arg)>>) /\ Waits(<<Instr(p, q)>>)
  BY WaitsOne
<1>2. Instr(op, arg) \in Codes /\ Instr(p, q) \in Codes
  BY CodesAre
<1>3. <<Instr(op, arg), Instr(p, q)>> = <<Instr(op, arg)>> \o <<Instr(p, q)>>
  BY <1>2, TwoIsConcat
<1> QED BY <1>1, <1>3, WaitsConcat

LEMMA OpsAre ==
  /\ "EVAL" \in Ops /\ "USE" \in Ops /\ "DEFVAR" \in Ops /\ "LABEL" \in Ops /\ "RETURN" \in Ops
  /\ "CREATEFRAME" \in Ops /\ "PUSHFRAME" \in Ops /\ "POPFRAME" \in Ops
  /\ "JUMP" \in Ops /\ "JUMPIFNEQS" \in Ops /\ "CALL" \in Ops
BY DEF Ops, GotoOps

LEMMA BranchWaits ==
  ASSUME NEW u \in Nat
  PROVE  /\ Waits(code_generator_if_header(u)) /\ Waits(code_generator_if_else(u))
         /\ Waits(code_generator_if_end(u)) /\ Waits(code_generator_for_label(u))
         /\ Waits(code_generator_for_loop_if(u)) /\ Waits(code_generator_for_body(u))
         /\ Waits(code_generator_for_loop_end(u))
<1>1. \A name \in {"ELSE", "IF_END", "FOR", "FOR_BODY", "FOR_END"} : Label(name, u) \in Arguments
  BY ArgumentsAre DEF LabelNames
<1>2. /\ Waits(code_generator_if_header(u)) /\ Waits(code_generator_if_else(u))
      /\ Waits(code_generator_if_end(u))
  BY <1>1, OpsAre, WaitsOne, WaitsTwo
  DEF code_generator_if_header, code_generator_if_else, code_generator_if_end
<1>3. /\ Waits(code_generator_for_label(u))
      /\ Waits(code_generator_for_loop_if(u)) /\ Waits(code_generator_for_body(u))
      /\ Waits(code_generator_for_loop_end(u))
  BY <1>1, OpsAre, WaitsOne, WaitsTwo
  DEF code_generator_for_label, code_generator_for_loop_if, code_generator_for_body, code_generator_for_loop_end
<1> QED BY <1>2, <1>3

LEMMA FrameWaits ==
  /\ Waits(code_generator_createframe) /\ Waits(code_generator_pushframe) /\ Waits(code_generator_popframe)
  /\ \A i \in Nat : Waits(code_generator_return(i))
<1>1. /\ Waits(code_generator_createframe) /\ Waits(code_generator_pushframe)
      /\ Waits(code_generator_popframe) /\ \A i \in Nat : Waits(<<InstrAt("RETURN", "none", i)>>)
  BY ArgumentsAre, OpsAre, WaitsOne
  DEF code_generator_createframe, code_generator_pushframe, code_generator_popframe
<1> QED BY <1>1, WaitsConcat DEF code_generator_return

LEMMA NilWaits ==
  ASSUME NEW uid \in Nat
  PROVE  Waits(code_generator_nil_check(uid))
<1> DEFINE d2 == Instr("DEFVAR", Op(2))
           u2 == Instr("USE", Op(2))
           d1 == Instr("DEFVAR", Op(1))
           u1 == Instr("USE", Op(1))
           mid == <<d2, u2, d1, u1>>
           two == <<d2, u2>> \o <<d1, u1>>
<1>1. d2 \in Codes /\ u2 \in Codes /\ d1 \in Codes /\ u1 \in Codes
  BY ArgumentsAre, OpsAre, CodesAre
<1>2. Waits(<<d2, u2>>) /\ Waits(<<d1, u1>>) /\ Waits(<<u1>>) /\ Waits(<<u2>>)
  BY ArgumentsAre, OpsAre, WaitsOne, WaitsTwo
<1>3. code_generator_nil_check(uid) =
           code_generator_createframe \o code_generator_pushframe \o mid
             \o code_generator_if_header(uid) \o <<u1>> \o code_generator_if_else(uid) \o <<u2>>
             \o code_generator_if_end(uid) \o code_generator_popframe
  BY DEF code_generator_nil_check, Op
<1> HIDE DEF d2, u2, d1, u1
<1>4. mid = two
  <2>1. mid \in Seq(Codes) /\ Len(mid) = 4 /\ mid[1] = d2 /\ mid[2] = u2 /\ mid[3] = d1 /\ mid[4] = u1
    BY <1>1
  <2>2. two \in Seq(Codes) /\ Len(two) = 4 /\ two[1] = d2 /\ two[2] = u2 /\ two[3] = d1 /\ two[4] = u1
    BY <1>1
  <2> HIDE DEF mid, two
  <2>3. \A i \in 1..Len(mid) : mid[i] = two[i]
    BY <2>1, <2>2
  <2> QED BY <2>1, <2>2, <2>3, SeqEqual
<1>5. Waits(two)
  BY <1>2, WaitsConcat
<1> HIDE DEF mid, two
<1>6. /\ Waits(code_generator_createframe) /\ Waits(code_generator_pushframe) /\ Waits(mid)
      /\ Waits(code_generator_if_header(uid)) /\ Waits(code_generator_if_else(uid))
      /\ Waits(code_generator_if_end(uid)) /\ Waits(code_generator_popframe)
  BY <1>4, <1>5, FrameWaits, BranchWaits
<1>7. Waits(code_generator_createframe \o code_generator_pushframe \o mid)
  BY <1>6, WaitsConcat
<1>8. Waits(code_generator_createframe \o code_generator_pushframe \o mid
             \o code_generator_if_header(uid) \o <<u1>>)
  BY <1>2, <1>6, <1>7, WaitsConcat
<1>9. Waits(code_generator_createframe \o code_generator_pushframe \o mid
             \o code_generator_if_header(uid) \o <<u1>> \o code_generator_if_else(uid) \o <<u2>>)
  BY <1>2, <1>6, <1>8, WaitsConcat
<1>10. Waits(code_generator_createframe \o code_generator_pushframe \o mid
             \o code_generator_if_header(uid) \o <<u1>> \o code_generator_if_else(uid) \o <<u2>>
             \o code_generator_if_end(uid) \o code_generator_popframe)
  BY <1>6, <1>9, WaitsConcat
<1> QED BY <1>3, <1>10, Zenon

LEMMA ExprWaits ==
  ASSUME NEW nils, Here \in Nat, cond_uid \in Nat
  PROVE  Waits(expr(nils))
<1>1. Waits(<<InstrAt("EVAL", "none", Here)>>)
  BY ArgumentsAre, OpsAre, WaitsOne
<1>2. Waits(IF nils = 0 THEN <<>> ELSE code_generator_nil_check(cond_uid))
  BY NilWaits, WaitsEmpty
<1> QED BY <1>1, <1>2, WaitsConcat DEF expr

LEMMA HalvesConcat ==
  ASSUME NEW x, NEW y, NEW a, NEW b, NEW p, NEW q, Halves(x, a, b), Halves(y, p, q)
  PROVE  Halves(x \o y, a \o p, b \o q)
<1>1. x \in Seq(Codes) /\ y \in Seq(Codes) /\ x \o y \in Seq(Codes)
  BY ConcatProperties DEF Halves
<1>2. PicksBoth(x, y, TRUE) /\ PicksBoth(x, y, FALSE)
  BY <1>1, PartConcat
<1> QED BY <1>1, <1>2, Zenon DEF PicksBoth, Halves

\* A declaration: its DEFVAR leaves the loop.
LEMMA DeclareHalves ==
  ASSUME NEW v \in Variables, NEW b, NEW c, Waits(b), Waits(c)
  PROVE  /\ Halves(b \o code_generator_var_declare(v) \o c, <<code_generator_defvar(v)>>,
                   b \o <<Instr("USE", v)>> \o c)
         /\ Halves(b \o code_generator_var_declare(v), <<code_generator_defvar(v)>>,
                   b \o <<Instr("USE", v)>>)
<1> DEFINE d == code_generator_defvar(v)
           u == Instr("USE", v)
<1>1. d \in Codes /\ u \in Codes /\ d.direct = TRUE /\ u.direct = FALSE
  BY ArgumentsAre, OpsAre, DefvarCode, CodesAre DEF Instr, InstrAt
<1>2. code_generator_var_declare(v) = <<d, u>>
  BY DEF code_generator_var_declare
<1> HIDE DEF d, u
<1>3. <<d, u>> = <<d>> \o <<u>> /\ <<d>> \in Seq(Codes) /\ <<u>> \in Seq(Codes)
  BY <1>1, TwoIsConcat
<1>4. Part(<<d>>, TRUE) = <<d>> /\ Part(<<d>>, FALSE) = <<>>
      /\ Part(<<u>>, TRUE) = <<>> /\ Part(<<u>>, FALSE) = <<u>>
  BY <1>1, PartOne
<1>5. b \in Seq(Codes) /\ c \in Seq(Codes)
      /\ Part(b, TRUE) = <<>> /\ Part(b, FALSE) = b /\ Part(c, TRUE) = <<>> /\ Part(c, FALSE) = c
  BY DEF Waits, Halves
<1> DEFINE D == <<d>>
           U == <<u>>
           DU == <<d, u>>
<1>6. DU = D \o U /\ D \in Seq(Codes) /\ U \in Seq(Codes)
      /\ Halves(D, D, <<>>) /\ Halves(U, <<>>, U) /\ Halves(b, <<>>, b) /\ Halves(c, <<>>, c)
  BY <1>3, <1>4, <1>5 DEF Halves
<1>7. code_generator_var_declare(v) = DU
  BY <1>2
<1> HIDE DEF D, U, DU
<1>8. D \o <<>> = D /\ <<>> \o U = U /\ <<>> \o D = D
  BY <1>6, ConcatEmptySeq
<1>9. Halves(DU, D \o <<>>, <<>> \o U)
  BY <1>6, HalvesConcat
<1>10. Halves(b \o DU, <<>> \o D, b \o U)
  BY <1>6, <1>8, <1>9, HalvesConcat
<1>11. Halves(b \o DU \o c, D \o <<>>, b \o U \o c)
  BY <1>6, <1>8, <1>10, HalvesConcat
<1>12. Halves(b \o DU, D, b \o U) /\ Halves(b \o DU \o c, D, b \o U \o c)
  BY <1>8, <1>10, <1>11
<1> QED BY <1>7, <1>12 DEF d, u, D, U

-----------------------------------------------------------------------------
(* The invariant of the parser: the facts at the end of what was printed,  *)
(* and at the labels that open blocks will print.                          *)

CondNames == {"ELSE", "IF_END"}
LoopNames == {"FOR", "FOR_BODY", "FOR_END"}

\* The labels that were given out.
GivenOut(l) ==
  \/ \E name \in CondNames, u \in Nat : u < cond_uid /\ l = Label(name, u)
  \/ \E name \in LoopNames, u \in Nat : u < loop_uid /\ l = Label(name, u)
  \/ \E f \in Known : l \in {Label("FUNCTION", f), Label("FUNCTION", EndName[f])}

\* The variables of the k outermost blocks, which are declared when their code is
\* executed; in a function, global variables may not be.
Sure(k) == (IF InFunction THEN {} ELSE globals) \union UNION {open[j].declared : j \in 1..k}

\* Block k is a loop or in one.
InLoop(k) == \E j \in 1..k : open[j].kind = "while"

Typed(lab, fl) ==
  /\ \A l \in DOMAIN lab : lab[l] \in Facts /\ GivenOut(l)
  /\ \A l \in DOMAIN fl : fl[l] \in Shapes /\ GivenOut(l) /\ l \notin DOMAIN lab
  /\ \A f \in Defined : Label("FUNCTION", f) \in DOMAIN lab /\ lab[Label("FUNCTION", f)] = EntryOf(f)

EndOK(e) ==
  /\ e \in Facts /\ e.shape = "body" /\ e.fn = InFunction /\ e.bound = unique_id
  /\ Sure(Len(open)) \subseteq e.must

\* Paths may join at label l: at least what is sure is known there.
Joins(lab, l, fn, must) ==
  /\ l \in DOMAIN lab /\ lab[l].shape = "body" /\ lab[l].fn = fn
  /\ must \subseteq lab[l].must /\ lab[l].bound <= unique_id
JoinsInLoop(fl, l) == l \in DOMAIN fl /\ fl[l] = "body"

\* The labels that block k has still to print.
Pending(k, lab, fl) ==
  LET u == open[k].uid
  IN /\ open[k].kind = "func" => Joins(lab, Label("FUNCTION", EndName[CurrentFunction]), FALSE, globals)
     /\ open[k].kind = "if" =>
          /\ Label("IF_END", u) \notin DOMAIN lab \union DOMAIN fl
          /\ IF InLoop(k) THEN JoinsInLoop(fl, Label("ELSE", u))
             ELSE Joins(lab, Label("ELSE", u), InFunction, Sure(k - 1))
     /\ open[k].kind = "else" =>
          IF InLoop(k) THEN JoinsInLoop(fl, Label("IF_END", u))
          ELSE /\ Joins(lab, Label("IF_END", u), InFunction, Sure(k - 1))
               /\ lab[Label("IF_END", u)].must = Sure(k - 1)
     /\ open[k].kind = "while" => \A name \in {"FOR", "FOR_END"} : JoinsInLoop(fl, Label(name, u))

Annotated(lab, fl, e) ==
  /\ Typed(lab, fl) /\ EndOK(e) /\ CodeLeads(lab, fl, e)
  /\ \A k \in 1..Len(open) : Pending(k, lab, fl)

\* Global variables are in the global frame, the others are not.
VarsOK ==
  /\ \A v \in globals : IsVar(v) /\ v.frame = "GF"
  /\ \A k \in 1..Len(open) : \A v \in open[k].declared : IsVar(v)

-----------------------------------------------------------------------------
(* What a step leaves as it was.                                           *)

\* The m outermost blocks stay; the last of them may declare a variable.
BlocksStay(m) ==
  /\ m \in Nat /\ m <= Len(open) /\ m <= Len(open') /\ Len(open) \in Nat /\ Len(open') \in Nat
  /\ \A j \in 1..m : open'[j].kind = open[j].kind /\ open'[j].uid = open[j].uid /\ open'[j].at = open[j].at
  /\ \A j \in 1..(m - 1) : open'[j].declared = open[j].declared
  /\ m > 0 => globals' = globals
  /\ unique_id \in Nat /\ unique_id' \in Nat /\ unique_id <= unique_id'

LEMMA InFunctionIs ==
  /\ open \in Seq(Blocks) => (InFunction <=> Len(open) > 0 /\ open[1].kind = "func")
  /\ open' \in Seq(Blocks) => (InFunction' <=> Len(open') > 0 /\ open'[1].kind = "func")
<1>1. \A s \in Seq(Blocks) : s # <<>> <=> Len(s) > 0
  BY EmptySeq, LenProperties
<1> QED BY <1>1 DEF InFunction

LEMMA BlocksStayMeans ==
  ASSUME OpenOK, OpenOK', NEW kind, NEW f, Grown(kind, f), NEW m, BlocksStay(m), NEW k \in 1..m
  PROVE  /\ InFunction' = InFunction
         /\ InFunction' <=> InFunction
         /\ Sure(k - 1)' = Sure(k - 1)
         /\ InLoop(k)' <=> InLoop(k)
         /\ open[k].kind = "func" => CurrentFunction' = CurrentFunction
         /\ globals' = globals /\ k \in 1..Len(open) /\ k \in 1..Len(open')
<1>1. /\ m \in Nat /\ m <= Len(open) /\ m <= Len(open') /\ Len(open) \in Nat /\ Len(open') \in Nat
      /\ \A j \in 1..m : open'[j].kind = open[j].kind /\ open'[j].uid = open[j].uid /\ open'[j].at = open[j].at
      /\ \A j \in 1..(m - 1) : open'[j].declared = open[j].declared
      /\ k \in 1..Len(open) /\ k \in 1..Len(open') /\ 1 \in 1..m /\ m > 0
      /\ \A j \in 1..k : j \in 1..m
      /\ \A j \in 1..(k - 1) : j \in 1..(m - 1)
      /\ Len(open) > 0 /\ Len(open') > 0
  BY DEF BlocksStay
<1>2. globals' = globals
  BY <1>1 DEF BlocksStay
<1>3. InFunction' <=> InFunction
  BY <1>1, InFunctionIs DEF OpenOK
<1>4. \A j \in 1..(k - 1) : open'[j].declared = open[j].declared
  BY <1>1
<1>5. Sure(k - 1)' = Sure(k - 1)
  <2>1. {open'[j].declared : j \in 1..(k - 1)} = {open[j].declared : j \in 1..(k - 1)}
    BY <1>4
  <2> QED BY <1>2, <1>3, <2>1 DEF Sure
<1>6. InLoop(k)' <=> InLoop(k)
  BY <1>1 DEF InLoop
<1>7. ASSUME open[k].kind = "func" PROVE CurrentFunction' = CurrentFunction
  <2>1. k = 1 /\ open[1].at \in 1..Len(source)
    BY <1>1, <1>7 DEF OpenOK
  <2>2. open'[1].at = open[1].at /\ source'[open[1].at] = source[open[1].at]
    BY <1>1, <2>1 DEF Grown
  <2> QED BY <2>2 DEF CurrentFunction
<1>8. InFunction' = InFunction
  BY <1>3 DEF InFunction
<1> QED BY <1>1, <1>2, <1>3, <1>5, <1>6, <1>7, <1>8

LEMMA JoinsKept ==
  ASSUME NEW lab, NEW more, MoreLabels(lab, more), NEW l, NEW fn, NEW must, Joins(lab, l, fn, must),
         lab[l].bound \in Nat, unique_id \in Nat, unique_id' \in Nat, unique_id <= unique_id'
  PROVE  Joins(more, l, fn, must)' /\ more[l] = lab[l]
<1>1. l \in DOMAIN more /\ more[l] = lab[l]
  BY DEF MoreLabels, Joins
<1>2. lab[l].bound <= unique_id'
  BY DEF Joins
<1> QED BY <1>1, <1>2 DEF Joins

LEMMA PendingKept ==
  ASSUME OpenOK, OpenOK', NEW kind, NEW f, Grown(kind, f), NEW m, BlocksStay(m), NEW k \in 1..m,
         NEW lab, NEW fl, NEW lab2, NEW fl2, Typed(lab, fl), Pending(k, lab, fl),
         MoreLabels(lab, lab2), InLoop(k) => MoreLabels(fl, fl2),
         open[k].kind = "if" => Label("IF_END", open[k].uid) \notin DOMAIN lab2 \union DOMAIN fl2
  PROVE  Pending(k, lab2, fl2)'
<1>1. /\ InFunction' = InFunction
      /\ Sure(k - 1)' = Sure(k - 1)
      /\ InLoop(k)' <=> InLoop(k)
      /\ open[k].kind = "func" => CurrentFunction' = CurrentFunction
      /\ globals' = globals
  BY BlocksStayMeans
<1>2. open'[k].kind = open[k].kind /\ open'[k].uid = open[k].uid
      /\ unique_id \in Nat /\ unique_id' \in Nat /\ unique_id <= unique_id'
  BY DEF BlocksStay
<1>3. PICK u : u = open[k].uid
  OBVIOUS
<1>4. PICK fn : fn = InFunction
  OBVIOUS
<1>5. PICK s : s = Sure(k - 1)
  OBVIOUS
<1>6. PICK g : g = globals
  OBVIOUS
<1>7. PICK q : q = Label("FUNCTION", EndName[CurrentFunction])
  OBVIOUS
<1>8. /\ open[k].kind = "func" => Joins(lab, q, FALSE, g)
      /\ open[k].kind = "if" =>
          IF InLoop(k) THEN JoinsInLoop(fl, Label("ELSE", u)) ELSE Joins(lab, Label("ELSE", u), fn, s)
      /\ open[k].kind = "else" =>
          IF InLoop(k) THEN JoinsInLoop(fl, Label("IF_END", u))
          ELSE Joins(lab, Label("IF_END", u), fn, s) /\ lab[Label("IF_END", u)].must = s
      /\ open[k].kind = "while" => \A name \in {"FOR", "FOR_END"} : JoinsInLoop(fl, Label(name, u))
  BY <1>3, <1>4, <1>5, <1>6, <1>7 DEF Pending
<1>9. ASSUME NEW l, NEW b, NEW must, Joins(lab, l, b, must)
      PROVE  Joins(lab2, l, b, must)' /\ lab2[l] = lab[l]
  <2>1. lab[l].bound \in Nat
    BY <1>9, FactFields DEF Joins, Typed
  <2> QED BY <1>2, <1>9, <2>1, JoinsKept
<1>10. ASSUME NEW l, InLoop(k), JoinsInLoop(fl, l) PROVE JoinsInLoop(fl2, l)
  BY <1>10 DEF JoinsInLoop, MoreLabels
<1>11. open[k].kind = "while" => InLoop(k)
  BY DEF InLoop
<1>12. open[k].kind = "func" => Joins(lab2, q, FALSE, g)'
  BY <1>8, <1>9
<1>13. open[k].kind = "if" =>
          IF InLoop(k) THEN JoinsInLoop(fl2, Label("ELSE", u)) ELSE Joins(lab2, Label("ELSE", u), fn, s)'
  BY <1>8, <1>9, <1>10
<1>14. open[k].kind = "else" =>
          IF InLoop(k) THEN JoinsInLoop(fl2, Label("IF_END", u))
          ELSE Joins(lab2, Label("IF_END", u), fn, s)' /\ lab2[Label("IF_END", u)].must = s
  BY <1>8, <1>9, <1>10
<1>15. open[k].kind = "while" => \A name \in {"FOR", "FOR_END"} : JoinsInLoop(fl2, Label(name, u))
  BY <1>8, <1>10, <1>11
<1>16. open'[k].uid = u /\ fn = InFunction' /\ s = Sure(k - 1)' /\ g = globals'
       /\ (open[k].kind = "func" => q = Label("FUNCTION", EndName[CurrentFunction])')
  BY <1>1, <1>2, <1>3, <1>4, <1>5, <1>6, <1>7, Zenon
<1>17. open[k].kind = "if" => Label("IF_END", u) \notin DOMAIN lab2 \union DOMAIN fl2
  BY <1>3
<1> QED BY <1>1, <1>2, <1>12, <1>13, <1>14, <1>15, <1>16, <1>17 DEF Pending, Joins, JoinsInLoop

LEMMA GivenOutIs ==
  ASSUME NEW u
  PROVE  /\ \A name \in CondNames : GivenOut(Label(name, u)) <=> u \in Nat /\ u < cond_uid
         /\ \A name \in LoopNames : GivenOut(Label(name, u)) <=> u \in Nat /\ u < loop_uid
         /\ GivenOut(Label("FUNCTION", u)) <=> \E f \in Known : u = f \/ u = EndName[f]
         /\ ~GivenOut(Label("EOF", u))
BY LabelEq DEF GivenOut, CondNames, LoopNames

LEMMA GivenOutNext ==
  ASSUME NEW u
  PROVE  /\ \A name \in CondNames : GivenOut(Label(name, u))' <=> u \in Nat /\ u < cond_uid'
         /\ \A name \in LoopNames : GivenOut(Label(name, u))' <=> u \in Nat /\ u < loop_uid'
         /\ GivenOut(Label("FUNCTION", u))' <=> \E f \in Known' : u = f \/ u = EndName[f]
BY LabelEq DEF GivenOut, CondNames, LoopNames

LEMMA GivenOutKept ==
  ASSUME NEW l, GivenOut(l), UidsGrow, Known \subseteq Known'
  PROVE  GivenOut(l)'
<1>1. ASSUME NEW u \in Nat PROVE (u < cond_uid => u < cond_uid') /\ (u < loop_uid => u < loop_uid')
  BY DEF UidsGrow
<1> QED BY <1>1 DEF GivenOut

LEMMA TypedKept ==
  ASSUME NEW lab, NEW fl, NEW lab2, NEW fl2, Typed(lab, fl), UidsGrow, Known \subseteq Known',
         MoreLabels(lab, lab2),
         \A l \in DOMAIN lab2 : l \in DOMAIN lab \/ (lab2[l] \in Facts /\ GivenOut(l)'),
         \A l \in DOMAIN fl2 : /\ l \notin DOMAIN lab2
                               /\ \/ l \in DOMAIN fl /\ fl2[l] = fl[l]
                                  \/ fl2[l] \in Shapes /\ GivenOut(l)',
         \A f \in Defined' : f \in Defined \/ (/\ Label("FUNCTION", f) \in DOMAIN lab2
                                               /\ lab2[Label("FUNCTION", f)] = EntryOf(f))
  PROVE  Typed(lab2, fl2)'
<1>1. \A l \in DOMAIN lab2 : lab2[l] \in Facts /\ GivenOut(l)'
  BY GivenOutKept DEF Typed, MoreLabels
<1>2. \A l \in DOMAIN fl2 : fl2[l] \in Shapes /\ GivenOut(l)' /\ l \notin DOMAIN lab2
  BY GivenOutKept DEF Typed
<1>3. \A f \in Defined' : Label("FUNCTION", f) \in DOMAIN lab2 /\ lab2[Label("FUNCTION", f)] = EntryOf(f)
  BY DEF Typed, MoreLabels
<1> QED BY <1>1, <1>2, <1>3 DEF Typed

LEMMA AnnotatedNext ==
  ASSUME OpenOK, OpenOK', NEW kind, NEW f, Grown(kind, f), NEW m, BlocksStay(m),
         NEW lab, NEW fl, NEW e, NEW lab2, NEW fl2, NEW b, Annotated(lab, fl, e),
         MoreLabels(lab, lab2), \A k \in 1..m : InLoop(k) => MoreLabels(fl, fl2),
         \A k \in 1..m : open[k].kind = "if" => Label("IF_END", open[k].uid) \notin DOMAIN lab2 \union DOMAIN fl2,
         Typed(lab2, fl2)', EndOK(b)', CodeLeads(lab2, fl2, b)',
         \A k \in (m + 1)..Len(open') : Pending(k, lab2, fl2)'
  PROVE  Annotated(lab2, fl2, b)'
<1>1. Typed(lab, fl) /\ \A k \in 1..m : Pending(k, lab, fl)
  BY DEF Annotated, BlocksStay
<1>2. ASSUME NEW k \in 1..m PROVE Pending(k, lab2, fl2)'
  BY <1>1, PendingKept
<1>3. \A k \in 1..Len(open') : k \in 1..m \/ k \in (m + 1)..Len(open')
  BY DEF BlocksStay
<1>4. ASSUME NEW k \in 1..Len(open') PROVE Pending(k, lab2, fl2)'
  BY <1>2, <1>3
<1> QED BY <1>4 DEF Annotated

-----------------------------------------------------------------------------
(* The steps that leave the blocks as they are.                            *)

\* Outside of loops nothing is in the buffer; in a loop some block is one.
LEMMA LoopsOpen ==
  ASSUME LabelInv
  PROVE  /\ for_open \in Nat /\ Len(open) \in Nat
         /\ for_open = 0 => print_buffer = <<>>
         /\ for_open = 0 <=> \A k \in 1..Len(open) : open[k].kind # "while"
         /\ for_open = 0 => \A k \in 1..Len(open) : ~InLoop(k)
         /\ for_open # 0 => InLoop(Len(open)) /\ Len(open) \in 1..Len(open)
<1>1. OpenOK /\ CountOK
  BY DEF LabelInv
<1>2. Len(open) \in Nat
  BY <1>1 DEF OpenOK
<1>3. IsFiniteSet(Loops(open)) /\ Cardinality(Loops(open)) \in Nat
  BY <1>1, LoopsFinite
<1>4. Cardinality(Loops(open)) = 0 <=> Loops(open) = {}
  BY <1>3, FS_EmptySet
<1>5. for_open = 0 <=> \A k \in 1..Len(open) : open[k].kind # "while"
  BY <1>1, <1>4 DEF CountOK, Loops
<1>6. for_open = 0 => \A k \in 1..Len(open) : ~InLoop(k)
  BY <1>2, <1>5 DEF InLoop
<1>7. for_open # 0 => InLoop(Len(open)) /\ Len(open) \in 1..Len(open)
  BY <1>2, <1>5 DEF InLoop
<1> QED BY <1>1, <1>2, <1>3, <1>5, <1>6, <1>7 DEF CountOK

LEMMA SameStays ==
  ASSUME LabelInv, open' = open, globals' = globals, unique_id' = unique_id
  PROVE  BlocksStay(Len(open)) /\ \A e : EndOK(e) => EndOK(e)'
<1>1. Len(open) \in Nat /\ unique_id \in Nat
  BY DEF LabelInv, OpenOK
<1>2. BlocksStay(Len(open))
  BY <1>1 DEF BlocksStay
<1>3. ASSUME NEW e, EndOK(e) PROVE EndOK(e)'
  BY <1>3 DEF EndOK, Sure, InFunction
<1> QED BY <1>2, <1>3

\* A statement whose code leaves the facts as they are.
LEMMA SameStep ==
  ASSUME LabelInv, LabelInv', NEW kind, NEW f, Grown(kind, f), kind # "func", open' = open,
         globals' = globals, unique_id' = unique_id, cond_uid' = cond_uid, loop_uid' = loop_uid,
         NEW lab, NEW fl, NEW e, Annotated(lab, fl, e), NEW code, Emit(code, for_open),
         \A L, K : Flat(e) \subseteq K => Leads(code, e, e, L, K), for_open # 0 => Waits(code)
  PROVE  Annotated(lab, fl, e)'
<1>1. /\ Typed(lab, fl) /\ EndOK(e) /\ CodeLeads(lab, fl, e) /\ e \in Facts
      /\ \A k \in 1..Len(open) : Pending(k, lab, fl)
  BY DEF Annotated, EndOK
<1>2. BlocksStay(Len(open)) /\ EndOK(e)' /\ Len(open) \in Nat
  BY <1>1, SameStays DEF BlocksStay
<1>3. OpenOK /\ OpenOK'
  BY DEF LabelInv
<1>4. UidsGrow /\ Defined' = Defined /\ Known' = Known
  BY GrownDefined DEF LabelInv, UidsGrow
<1>5. MoreLabels(lab, lab) /\ MoreLabels(fl, fl)
  BY DEF MoreLabels
<1>6. Typed(lab, fl)'
  BY <1>1, <1>4, <1>5, TypedKept DEF Typed
<1>7. CodeLeads(lab, fl, e)'
  <2>1. Flat(e) \subseteq Facts /\ e \in Flat(e)
    BY <1>1, FlatFields, FactFields
  <2>2. Leads(code, e, e, lab, Facts) /\ Leads(code, e, e, FlatLab(fl, e), Flat(e))
    BY <2>1
  <2>3. CASE for_open = 0
    BY <1>1, <1>5, <2>2, <2>3, EmitStraight, LoopsOpen
  <2>4. CASE for_open # 0
    <3>1. Leads(<<>>, e, e, lab, Facts)
      BY <1>1, LeadsEmpty
    <3>2. Halves(code, <<>>, code) /\ IsShapes(fl)
      BY <1>1, <2>4 DEF Waits, Typed, IsShapes
    <3> QED BY <1>1, <1>5, <2>2, <2>4, <3>1, <3>2, EmitInLoop
  <2> QED BY <2>3, <2>4
<1>8. \A k \in 1..Len(open) : open[k].kind = "if" => Label("IF_END", open[k].uid) \notin DOMAIN lab \union DOMAIN fl
  BY <1>1 DEF Pending
<1>9. \A k \in (Len(open) + 1)..Len(open') : Pending(k, lab, fl)'
  BY <1>2
<1>10. PICK m : m = Len(open)
  OBVIOUS
<1> QED BY <1>2, <1>3, <1>5, <1>6, <1>7, <1>8, <1>9, <1>10, AnnotatedNext

\* What is visible is declared, but for global variables in functions.
LEMMA VisibleSure ==
  ASSUME LabelInv, VarsOK, NEW e, EndOK(e), NEW v \in Visible
  PROVE  IsVar(v) /\ (v \in e.must \/ (e.fn /\ v.frame = "GF"))
<1>1. CASE v \in globals
  <2>1. IsVar(v) /\ v.frame = "GF"
    BY <1>1 DEF VarsOK
  <2>2. CASE InFunction
    <3>1. e.fn
      BY <2>2, Zenon DEF EndOK
    <3> QED BY <2>1, <3>1
  <2>3. CASE ~InFunction
    BY <1>1, <2>1, <2>3 DEF EndOK, Sure
  <2> QED BY <2>2, <2>3
<1>2. CASE v \notin globals
  <2>1. PICK k \in 1..Len(open) : v \in open[k].declared
    BY <1>2 DEF Visible
  <2>2. v \in Sure(Len(open))
    BY <2>1 DEF Sure
  <2> QED BY <2>1, <2>2 DEF EndOK, VarsOK
<1> QED BY <1>1, <1>2

LEMMA AssignAnnotated ==
  ASSUME LabelInv, LabelInv', VarsOK, NEW var \in Visible, assign(var),
         NEW lab, NEW fl, NEW e, Annotated(lab, fl, e)
  PROVE  Annotated(lab, fl, e)'
<1> DEFINE code == expr(0) \o <<Instr("USE", var)>>
<1>1. /\ Parse /\ Emit(code, for_open) /\ Add("stmt", "none", 0)
      /\ open' = open /\ globals' = globals /\ cond_uid' = cond_uid /\ loop_uid' = loop_uid
      /\ unique_id' = unique_id
  BY DEF assign
<1>2. SourceOK /\ cond_uid \in Nat
  BY DEF LabelInv
<1>3. Grown("stmt", "none")
  BY <1>1, <1>2, SourceGrows DEF Kinds
<1>4. Here \in Nat
  BY <1>3, GrownDefined
<1>5. EndOK(e) /\ e \in Facts /\ e.shape = "body"
  BY DEF Annotated, EndOK
<1>6. IsVar(var) /\ (var \in e.must \/ (e.fn /\ var.frame = "GF"))
  BY <1>5, VisibleSure
<1>7. ASSUME NEW L, NEW K, Flat(e) \subseteq K PROVE Leads(code, e, e, L, K)
  <2>1. Leads(expr(0), e, e, L, K)
    BY <1>2, <1>4, <1>5, <1>7, ExprLeads, 0 \in 0..1
  <2>2. e \in K
    BY <1>5, <1>7, FactFields
  <2>3. Leads(<<Instr("USE", var)>>, e, e, L, K)
    BY <1>5, <1>6, <2>2, UseLeads
  <2> QED BY <2>1, <2>3, LeadsConcat
<1>8. Waits(code)
  <2>1. Waits(expr(0))
    BY <1>2, <1>4, ExprWaits
  <2>2. Waits(<<Instr("USE", var)>>)
    BY <1>6, VarFields, ArgumentsAre, OpsAre, WaitsOne
  <2> QED BY <2>1, <2>2, WaitsConcat
<1> HIDE DEF code
<1> QED BY <1>1, <1>3, <1>7, <1>8, SameStep

LEMMA ReturnAnnotated ==
  ASSUME LabelInv, LabelInv', return, NEW lab, NEW fl, NEW e, Annotated(lab, fl, e)
  PROVE  Annotated(lab, fl, e)'
<1> DEFINE code == code_generator_return(Here)
<1>1. /\ InFunction /\ Emit(code, for_open) /\ Add("return", "none", 0)
      /\ open' = open /\ globals' = globals /\ cond_uid' = cond_uid /\ loop_uid' = loop_uid
      /\ unique_id' = unique_id
  BY DEF return
<1>2. SourceOK
  BY DEF LabelInv
<1>3. Grown("return", "none")
  BY <1>1, <1>2, SourceGrows DEF Kinds
<1>4. Here \in Nat
  BY <1>3, GrownDefined
<1>5. e \in Facts /\ e.shape = "body"
  BY DEF Annotated, EndOK
<1>6. e.fn
  BY <1>1, Zenon DEF Annotated, EndOK
<1>7. ASSUME NEW L, NEW K, Flat(e) \subseteq K PROVE Leads(code, e, e, L, K)
  <2>1. e \in K
    BY <1>5, <1>7, FactFields
  <2> QED BY <1>4, <1>5, <1>6, <1>7, <2>1, ReturnLeads
<1>8. Waits(code)
  BY <1>4, FrameWaits
<1> HIDE DEF code
<1> QED BY <1>1, <1>3, <1>7, <1>8, SameStep

\* The last instruction printed is not CREATEFRAME.
LEMMA LastPrinted ==
  ASSUME NEW c, NEW e, e.shape = "body", NEW lab, Leads(c, Boot, e, lab, Facts)
  PROVE  c \in Seq(Codes) /\ Len(c) \in Nat /\ Len(c) > 0 /\ c[Len(c)].op # "CREATEFRAME"
<1>1. PICK T : IsFlow(T, c, Boot, e, lab, Facts)
  BY DEF Leads, Flows
<1>2. c \in Seq(Codes) /\ Len(c) \in Nat
  BY LenProperties DEF Leads
<1>3. T[1] = Boot /\ T[Len(c) + 1] = e /\ Boot.shape = "boot"
  BY <1>1 DEF IsFlow, Boot
<1>4. Len(c) # 0
  BY <1>2, <1>3
<1>5. Len(c) \in 1..Len(c)
  BY <1>2, <1>4
<1>6. Check(c[Len(c)], T[Len(c)], e, lab)
  BY <1>1, <1>3, <1>5 DEF IsFlow
<1>7. c[Len(c)].op # "CREATEFRAME"
  BY <1>6 DEF Check, Move
<1> QED BY <1>2, <1>4, <1>7

\* A call in a loop passes no argument, or its DEFVAR is misplaced.
LEMMA CallAnnotated ==
  ASSUME LabelInv, LabelInv', NEW f \in Functions, call(f), ~ArgumentInLoop',
         NEW lab, NEW fl, NEW e, Annotated(lab, fl, e)
  PROVE  Annotated(lab, fl, e)'
<1> DEFINE code == code_generator_function_call(f, Here)
<1>1. /\ Emit(code, for_open) /\ Add("call", f, 0)
      /\ open' = open /\ globals' = globals /\ cond_uid' = cond_uid /\ loop_uid' = loop_uid
      /\ unique_id' = unique_id
  BY DEF call
<1>2. SourceOK
  BY DEF LabelInv
<1>3. Grown("call", f)
  BY <1>1, <1>2, SourceGrows DEF Kinds
<1>4. Here \in Nat
  BY <1>3, GrownDefined
<1>5. e \in Facts /\ e.shape = "body" /\ Leads(out, Boot, e, lab, Facts)
  BY DEF Annotated, EndOK, CodeLeads
<1>6. ASSUME NEW L, NEW K, Flat(e) \subseteq K PROVE Leads(code, e, e, L, K)
  BY <1>4, <1>5, <1>6, CallLeads
<1> DEFINE cf == Instr("CREATEFRAME", "none")
           cl == InstrAt("CALL", Label("FUNCTION", f), Here)
           d == code_generator_defvar(Slot("TF"))
           u == Instr("USE", Slot("TF"))
<1>7. Waits(<<cf>>) /\ Waits(<<cl>>) /\ Waits(<<u>>)
  BY <1>4, ArgumentsAre, LabelsAre, OpsAre, WaitsOne
<1>8. code = <<cf>> \o (IF Params[f] = 0 THEN <<>> ELSE <<d, u>>) \o <<cl>>
  BY DEF code_generator_function_call, code_generator_createframe
<1>9. ASSUME for_open # 0 PROVE Waits(code)
  <2>1. CASE Params[f] = 0
    <3>1. code = <<cf>> \o <<>> \o <<cl>>
      BY <1>8, <2>1
    <3> HIDE DEF code, cf, cl
    <3>2. Waits(<<cf>> \o <<>> \o <<cl>>)
      BY <1>7, WaitsEmpty, WaitsConcat
    <3> QED BY <3>1, <3>2
  <2>2. CASE Params[f] = 1
    <3>1. Slot("TF") \in Variables
      BY VarsAre
    <3>2. code_generator_var_declare(Slot("TF")) = <<d, u>>
      BY DEF code_generator_var_declare
    <3>3. code = <<cf>> \o code_generator_var_declare(Slot("TF")) \o <<cl>>
      <4> HIDE DEF code, cf, cl, d, u
      <4>1. Params[f] # 0
        BY <2>2
      <4>2. code = <<cf>> \o <<d, u>> \o <<cl>>
        BY <1>8, <4>1, Zenon
      <4> QED BY <3>2, <4>2
    <3>4. d \in Codes /\ d.op = "DEFVAR" /\ d.arg = Slot("TF")
      BY <3>1, DefvarCode
    <3>5. Halves(code, <<d>>, <<cf>> \o <<u>> \o <<cl>>)
      <4> HIDE DEF code, cf, cl
      <4> QED BY <1>7, <3>1, <3>3, DeclareHalves
    <3> HIDE DEF code, cf, cl, d, u
    <3>6. out' = out \o <<d>>
      BY <1>1, <1>9, <3>5 DEF Emit, Halves
    <3>7. out \in Seq(Codes) /\ Len(out) \in Nat /\ Len(out) > 0 /\ out[Len(out)].op # "CREATEFRAME"
      BY <1>5, LastPrinted
    <3>8. Len(out') = Len(out) + 1 /\ out'[Len(out) + 1] = d /\ out'[Len(out)] = out[Len(out)]
      BY <3>4, <3>6, <3>7
    <3>9. PICK i : i = Len(out) + 1
      OBVIOUS
    <3>10. i \in 2..Len(out') /\ i - 1 = Len(out) /\ out'[i] = d /\ out'[i - 1] = out[Len(out)]
      BY <3>7, <3>8, <3>9
    <3>11. ArgumentInLoop'
      BY <3>4, <3>7, <3>10 DEF ArgumentInLoop
    <3> QED BY <3>11
  <2> QED BY <2>1, <2>2, ParamsAre
<1> HIDE DEF code, cf, cl, d, u
<1> QED BY <1>1, <1>3, <1>6, <1>9, SameStep

\* A declaration, in a block or outside of all.
LEMMA DeclaredBlocks ==
  ASSUME LabelInv, NEW v, v \in Variables, unique_id' = unique_id + 1,
         open = <<>> => globals' = globals \union {v} /\ open' = open,
         open # <<>> => open' = Declared(v) /\ globals' = globals
  PROVE  /\ BlocksStay(Len(open)) /\ Len(open') = Len(open)
         /\ InFunction' = InFunction
         /\ globals' \subseteq globals \union {v} /\ (open # <<>> => globals' = globals)
         /\ \A k \in 1..Len(open) : open'[k].declared \subseteq open[k].declared \union {v}
         /\ Sure(Len(open))' \subseteq Sure(Len(open)) \union {v}
<1>1. OpenOK /\ open \in Seq(Blocks) /\ Len(open) \in Nat /\ unique_id \in Nat /\ unique_id' \in Nat
        /\ unique_id <= unique_id'
  BY DEF LabelInv, OpenOK
<1>2. /\ Len(open') = Len(open)
      /\ \A k \in 1..Len(open) : /\ open'[k].kind = open[k].kind /\ open'[k].uid = open[k].uid
                                 /\ open'[k].at = open[k].at
                                 /\ open'[k].declared \subseteq open[k].declared \union {v}
                                 /\ k # Len(open) => open'[k].declared = open[k].declared
      /\ open = <<>> <=> open' = <<>>
  <2>1. CASE open = <<>>
    BY <1>1, <2>1
  <2>2. CASE open # <<>>
    <3> DEFINE m == Len(open)
               b == [open[m] EXCEPT !.declared = @ \union {v}]
    <3>1. m \in 1..Len(open) /\ open[m] \in Blocks /\ m \in Nat /\ m > 0
      BY <1>1, <2>2, TopFacts
    <3>2. b \in Blocks /\ b.kind = open[m].kind /\ b.uid = open[m].uid /\ b.at = open[m].at
          /\ b.declared = open[m].declared \union {v}
      BY <3>1 DEF Blocks
    <3>3. open' = [open EXCEPT ![m] = b]
      BY <2>2 DEF Declared
    <3> HIDE DEF m, b
    <3>4. /\ Len(open') = Len(open) /\ open' \in Seq(Blocks)
          /\ open'[m] = b /\ \A k \in 1..Len(open) : k # m => open'[k] = open[k]
      <4>1. /\ [open EXCEPT ![m] = b] \in Seq(Blocks) /\ Len([open EXCEPT ![m] = b]) = Len(open)
            /\ \A k \in 1..Len(open) : [open EXCEPT ![m] = b][k] = IF k = m THEN b ELSE open[k]
        BY <1>1, <3>1, <3>2, ExceptSeq
      <4> QED BY <3>1, <3>3, <4>1
    <3>5. open' # <<>>
      BY <3>1, <3>4, EmptySeq DEF m
    <3> QED BY <2>2, <3>2, <3>4, <3>5 DEF m
  <2> QED BY <2>1, <2>2
<1>3. (open # <<>> => globals' = globals) /\ (Len(open) > 0 => globals' = globals)
      /\ globals' \subseteq globals \union {v}
  <2>1. Len(open) > 0 => open # <<>>
    BY <1>1, EmptySeq
  <2> QED BY <2>1
<1>4. BlocksStay(Len(open))
  <2>1. \A j \in 1..(Len(open) - 1) : open'[j].declared = open[j].declared
    BY <1>1, <1>2
  <2> QED BY <1>1, <1>2, <1>3, <2>1 DEF BlocksStay
<1>5. InFunction' = InFunction
  <2>1. open # <<>> => 1 \in 1..Len(open)
    BY <1>1, EmptySeq
  <2> QED BY <1>2, <2>1 DEF InFunction
<1>6. Sure(Len(open))' \subseteq Sure(Len(open)) \union {v}
  <2>1. InFunction' <=> InFunction
    BY <1>5
  <2> QED BY <1>2, <1>3, <2>1 DEF Sure
<1> QED BY <1>2, <1>3, <1>4, <1>5, <1>6

LEMMA NewVarFields ==
  ASSUME unique_id \in Nat, NEW fr \in {"GF", "LF"}
  PROVE  /\ IsVar(Var(fr, "var", unique_id)) /\ Var(fr, "var", unique_id) \in Variables
         /\ Var(fr, "var", unique_id).frame = fr /\ Var(fr, "var", unique_id).id[2] = unique_id
BY DEF Var, IsVar, Variables

LEMMA DefineAnnotated ==
  ASSUME LabelInv, LabelInv', NEW lab, NEW fl, NEW e, Annotated(lab, fl, e)
  PROVE  define => \E b : Annotated(lab, fl, b)'
<1> DEFINE code == expr(0) \o code_generator_var_declare(NewVar)
           numbers == unique_id' = unique_id + 1 /\ cond_uid' = cond_uid /\ loop_uid' = loop_uid
           blocks == /\ open = <<>> => globals' = globals \union {NewVar} /\ open' = open
                     /\ open # <<>> => open' = Declared(NewVar) /\ globals' = globals
<1>0. define => Emit(code, for_open) /\ Add("stmt", "none", 0) /\ numbers /\ blocks
  BY DEF define
<1> HIDE DEF numbers, blocks
<1> SUFFICES ASSUME Emit(code, for_open), Add("stmt", "none", 0), numbers, blocks
             PROVE  \E b : Annotated(lab, fl, b)'
  BY <1>0, Zenon
<1>1. unique_id' = unique_id + 1 /\ cond_uid' = cond_uid /\ loop_uid' = loop_uid
  BY DEF numbers
<1>2. SourceOK /\ cond_uid \in Nat /\ unique_id \in Nat /\ OpenOK /\ OpenOK'
  BY DEF LabelInv
<1>3. Grown("stmt", "none")
  BY <1>1, <1>2, SourceGrows DEF Kinds
<1>4. Here \in Nat /\ Defined' = Defined /\ Known' = Known
  BY <1>3, GrownDefined
<1>5. /\ Typed(lab, fl) /\ EndOK(e) /\ CodeLeads(lab, fl, e) /\ e \in Facts /\ e.shape = "body"
      /\ e.bound = unique_id /\ Sure(Len(open)) \subseteq e.must
      /\ \A k \in 1..Len(open) : Pending(k, lab, fl)
  BY DEF Annotated, EndOK
<1>6. PICK v : v = NewVar
  OBVIOUS
<1>7. IsVar(v) /\ v \in Variables /\ v.id[2] = unique_id /\ (open # <<>> => v.frame = "LF")
  BY <1>2, <1>6, NewVarFields DEF NewVar
<1>8. e.fn => v.frame = "LF"
  <2>1. ASSUME e.fn PROVE v.frame = "LF"
    <3>1. InFunction
      BY <1>5, <2>1, Zenon DEF EndOK
    <3> QED BY <1>7, <3>1 DEF InFunction
  <2> QED BY <2>1
<1>9. PICK b : b = With(e, v)
  OBVIOUS
<1>10. b \in Facts /\ b.shape = "body" /\ b.fn = e.fn /\ b.must = e.must \union {v} /\ b.bound = unique_id + 1
  BY <1>5, <1>7, <1>9, WithFields
<1>11. /\ BlocksStay(Len(open)) /\ Len(open') = Len(open) /\ InFunction' = InFunction
       /\ Sure(Len(open))' \subseteq Sure(Len(open)) \union {v}
  BY <1>1, <1>6, <1>7, DeclaredBlocks DEF blocks
<1>12. EndOK(b)'
  <2>1. b.fn = InFunction'
    BY <1>5, <1>10, <1>11, Zenon DEF EndOK
  <2>2. Sure(Len(open))' \subseteq b.must /\ b.bound = unique_id'
    BY <1>1, <1>5, <1>10, <1>11
  <2> QED BY <1>10, <2>1, <2>2, Zenon DEF EndOK
<1>13. MoreLabels(lab, lab) /\ MoreLabels(fl, fl) /\ UidsGrow
  BY <1>1 DEF MoreLabels, LabelInv, UidsGrow
<1>14. Typed(lab, fl)'
  BY <1>4, <1>5, <1>13, TypedKept DEF Typed
<1>15. ASSUME NEW L PROVE Leads(expr(0), e, e, L, Facts)
  <2>1. Flat(e) \subseteq Facts
    BY <1>5, FlatFields
  <2> QED BY <1>2, <1>4, <1>5, <2>1, ExprLeads, 0 \in 0..1
<1>16. e.bound <= v.id[2] /\ With(e, v) \in Facts
  BY <1>2, <1>5, <1>7, <1>9, <1>10
<1>17. CodeLeads(lab, fl, b)'
  <2>1. CASE for_open = 0
    <3>1. Leads(code_generator_var_declare(v), e, b, lab, Facts)
      BY <1>5, <1>7, <1>8, <1>9, <1>16, DeclareLeads
    <3>2. Leads(code, e, b, lab, Facts)
      BY <1>6, <1>15, <3>1, LeadsConcat
    <3> HIDE DEF code
    <3> QED BY <1>5, <1>10, <1>13, <2>1, <3>2, EmitStraight, LoopsOpen
  <2>2. CASE for_open # 0
    <3>1. Leads(<<code_generator_defvar(v)>>, e, b, lab, Facts)
      BY <1>5, <1>7, <1>8, <1>9, <1>16, DefvarLeads
    <3>2. Flat(b) \subseteq Flat(b) /\ b \in Flat(b)
      BY <1>10, FactFields
    <3>3. Leads(expr(0), b, b, FlatLab(fl, b), Flat(b))
      BY <1>2, <1>4, <1>10, <3>2, ExprLeads, 0 \in 0..1
    <3>4. Leads(<<Instr("USE", v)>>, b, b, FlatLab(fl, b), Flat(b))
      BY <1>7, <1>10, <3>2, UseLeads
    <3>5. Leads(expr(0) \o <<Instr("USE", v)>>, b, b, FlatLab(fl, b), Flat(b))
      BY <3>3, <3>4, LeadsConcat
    <3>6. Halves(code, <<code_generator_defvar(v)>>, expr(0) \o <<Instr("USE", v)>>)
      <4>1. Waits(expr(0)) /\ Waits(<<>>)
        BY <1>2, <1>4, ExprWaits, WaitsEmpty
      <4> QED BY <1>6, <1>7, <4>1, DeclareHalves
    <3>7. IsShapes(fl) /\ e.must \subseteq b.must
      BY <1>5, <1>10 DEF Typed, IsShapes
    <3> HIDE DEF code
    <3> QED BY <1>5, <1>10, <1>13, <2>2, <3>1, <3>5, <3>6, <3>7, EmitInLoop
  <2> QED BY <2>1, <2>2
<1>18. \A k \in 1..Len(open) : open[k].kind = "if" => Label("IF_END", open[k].uid) \notin DOMAIN lab \union DOMAIN fl
  BY <1>5 DEF Pending
<1>19. \A k \in (Len(open) + 1)..Len(open') : Pending(k, lab, fl)'
  BY <1>11 DEF BlocksStay
<1>20. PICK m : m = Len(open)
  OBVIOUS
<1>21. Annotated(lab, fl, b)'
  BY <1>2, <1>3, <1>11, <1>12, <1>13, <1>14, <1>17, <1>18, <1>19, <1>20, AnnotatedNext
<1> QED BY <1>21

-----------------------------------------------------------------------------
(* The steps that open and close blocks.                                   *)

LEMMA PushedBlocks ==
  ASSUME LabelInv, NEW b \in Blocks, open' = Append(open, b), b.kind # "func", globals' = globals,
         unique_id' \in Nat, unique_id <= unique_id', NEW n, n = Len(open)
  PROVE  /\ BlocksStay(n) /\ n \in Nat /\ Len(open') = n + 1 /\ open'[n + 1] = b
         /\ InFunction' = InFunction
         /\ Sure(Len(open))' = Sure(Len(open)) \union b.declared
         /\ Sure(n)' = Sure(Len(open))
         /\ InLoop(n + 1)' <=> b.kind = "while" \/ for_open # 0
<1>1. OpenOK /\ open \in Seq(Blocks) /\ n \in Nat /\ unique_id \in Nat
  BY DEF LabelInv, OpenOK
<1>2. open' \in Seq(Blocks) /\ Appended(open', open, b)
  BY <1>1, AppendFacts
<1>3. /\ Len(open') = n + 1 /\ open'[n + 1] = b /\ \A i \in 1..n : open'[i] = open[i]
      /\ \A i \in 1..(n + 1) : i \in 1..n \/ i = n + 1
      /\ \A i \in 1..n : i \in 1..(n + 1)
      /\ n + 1 \in 1..(n + 1)
  BY <1>1, <1>2 DEF Appended
<1>4. BlocksStay(n)
  BY <1>1, <1>3 DEF BlocksStay
<1>5. InFunction' <=> InFunction
  <2>1. CASE n = 0
    BY <1>1, <1>2, <1>3, <2>1, InFunctionIs
  <2>2. CASE n # 0
    <3>1. 1 \in 1..n /\ Len(open') > 0 /\ Len(open) > 0
      BY <1>1, <1>3, <2>2
    <3> QED BY <1>1, <1>2, <1>3, <3>1, InFunctionIs
  <2> QED BY <2>1, <2>2
<1>6. InFunction' = InFunction
  BY <1>5 DEF InFunction
<1>7. \A x : (\E j \in 1..(n + 1) : x \in open'[j].declared) <=> (\E j \in 1..n : x \in open[j].declared) \/ x \in b.declared
  BY <1>3
<1>8. Sure(Len(open))' = Sure(Len(open)) \union b.declared
  <2>1. \A x : x \in Sure(Len(open))' <=> (~InFunction' /\ x \in globals') \/ \E j \in 1..(n + 1) : x \in open'[j].declared
    BY <1>3 DEF Sure
  <2>2. \A x : x \in Sure(Len(open)) <=> (~InFunction /\ x \in globals) \/ \E j \in 1..n : x \in open[j].declared
    BY DEF Sure
  <2> QED BY <1>5, <1>7, <2>1, <2>2
<1>9. Sure(n)' = Sure(Len(open))
  <2>1. {open'[j].declared : j \in 1..n} = {open[j].declared : j \in 1..n}
    BY <1>3
  <2> QED BY <1>5, <2>1 DEF Sure
<1>10. InLoop(n + 1)' <=> b.kind = "while" \/ for_open # 0
  <2>1. InLoop(n + 1)' <=> b.kind = "while" \/ \E j \in 1..n : open[j].kind = "while"
    BY <1>3 DEF InLoop
  <2>2. for_open # 0 <=> \E j \in 1..n : open[j].kind = "while"
    BY LoopsOpen
  <2> QED BY <2>1, <2>2
<1> QED BY <1>1, <1>3, <1>4, <1>6, <1>8, <1>9, <1>10

\* The labels in N have x, those in M have y.
Marks(N, M, x, y) == [l \in N \union M |-> IF l \in N THEN x ELSE y]


LEMMA NilLabelsAre ==
  ASSUME NEW nils \in 0..1, cond_uid \in Nat
  PROVE  /\ \A name \in CondNames : nils = 1 => Label(name, cond_uid) \in NilLabels(nils)
         /\ \A l \in NilLabels(nils) : \E name \in CondNames : nils = 1 /\ l = Label(name, cond_uid)
BY DEF NilLabels, CondNames

LEMMA WhileAnnotated ==
  ASSUME LabelInv, LabelInv', NEW lab, NEW fl, NEW e, Annotated(lab, fl, e), NEW nils \in 0..1, while(nils)
  PROVE  \E more : Annotated(lab, more, e)'
<1> DEFINE code == code_generator_for_label(loop_uid) \o expr(nils) \o code_generator_for_loop_if(loop_uid)
                     \o code_generator_for_body(loop_uid)
           blk == Block("while", loop_uid, {})
<1>1. /\ Emit(code, for_open + 1) /\ Add("while", "none", 0) /\ open' = Append(open, blk)
      /\ cond_uid' = cond_uid + nils /\ loop_uid' = loop_uid + 1 /\ globals' = globals
      /\ unique_id' = unique_id
  BY DEF while, UidAfter
<1>2. SourceOK /\ cond_uid \in Nat /\ loop_uid \in Nat /\ unique_id \in Nat /\ OpenOK /\ OpenOK'
        /\ for_open \in Nat
  BY LoopsOpen DEF LabelInv
<1>3. Grown("while", "none")
  BY <1>1, <1>2, SourceGrows DEF Kinds
<1>4. Here \in Nat /\ Defined' = Defined /\ Known' = Known
  BY <1>3, GrownDefined
<1>5. /\ Typed(lab, fl) /\ EndOK(e) /\ CodeLeads(lab, fl, e) /\ e \in Facts /\ e.shape = "body"
      /\ e.bound = unique_id /\ Sure(Len(open)) \subseteq e.must
      /\ \A k \in 1..Len(open) : Pending(k, lab, fl)
  BY DEF Annotated, EndOK
<1>6. blk \in Blocks /\ blk.kind = "while" /\ blk.uid = loop_uid /\ blk.declared = {}
  BY <1>2, <1>4 DEF Block, Blocks
<1>7. PICK n : n = Len(open)
  OBVIOUS
<1>8. PICK w : w = loop_uid
  OBVIOUS
<1>9. PICK c : c = cond_uid
  OBVIOUS
<1> HIDE DEF blk
<1>10. /\ BlocksStay(n) /\ n \in Nat /\ Len(open') = n + 1 /\ open'[n + 1] = blk
       /\ InFunction' = InFunction
       /\ Sure(Len(open))' = Sure(Len(open)) \union blk.declared
  <2>1. unique_id' \in Nat /\ unique_id <= unique_id'
    BY <1>1, <1>2
  <2>2. blk.kind # "func"
    BY <1>6
  <2> HIDE DEF code
  <2> QED BY <1>1, <1>6, <1>7, <2>1, <2>2, PushedBlocks, Zenon
<1>11. PICK N : N = NilLabels(nils)
  OBVIOUS
<1>12. PICK M : M = {Label("FOR", w), Label("FOR_BODY", w), Label("FOR_END", w)}
  OBVIOUS
<1>13. /\ \A l \in N : \E name \in CondNames : nils = 1 /\ l = Label(name, c)
       /\ \A name \in CondNames : nils = 1 => Label(name, c) \in N
       /\ \A l \in M : \E name \in LoopNames : l = Label(name, w)
       /\ \A name \in LoopNames : Label(name, w) \in M
  BY <1>2, <1>9, <1>11, <1>12, NilLabelsAre DEF LoopNames
<1>14. \A l \in M : l \notin N
  BY <1>13, LabelEq DEF CondNames, LoopNames
<1>15. PICK g : g = Marks(N, M, "op12", "body")
  OBVIOUS
<1>16. DOMAIN g = N \union M /\ (\A l \in N : g[l] = "op12") /\ (\A l \in M : g[l] = "body")
  BY <1>14, <1>15 DEF Marks
<1>17. ASSUME NEW l \in DOMAIN g PROVE l \notin DOMAIN lab /\ l \notin DOMAIN fl /\ GivenOut(l)'
  <2>1. CASE l \in N
    <3>1. PICK name \in CondNames : nils = 1 /\ l = Label(name, c)
      BY <1>13, <2>1
    <3>2. ~GivenOut(l)
      BY <1>2, <1>9, <3>1, GivenOutIs
    <3>3. c < cond_uid'
      BY <1>1, <1>2, <1>9, <3>1
    <3>4. GivenOut(l)'
      BY <1>2, <1>9, <3>1, <3>3, GivenOutNext
    <3> QED BY <1>5, <3>2, <3>4 DEF Typed
  <2>2. CASE l \in M
    <3>1. PICK name \in LoopNames : l = Label(name, w)
      BY <1>13, <2>2
    <3>2. ~GivenOut(l)
      BY <1>2, <1>8, <3>1, GivenOutIs
    <3>3. w < loop_uid'
      BY <1>1, <1>2, <1>8, <3>1
    <3>4. GivenOut(l)'
      BY <1>2, <1>8, <3>1, <3>3, GivenOutNext
    <3> QED BY <1>5, <3>2, <3>4 DEF Typed
  <2> QED BY <1>16, <2>1, <2>2
<1>18. PICK fm : fm = Join(fl, g)
  OBVIOUS
<1>19. /\ DOMAIN fm = DOMAIN fl \union DOMAIN g /\ MoreLabels(fl, fm) /\ MoreLabels(g, fm)
  BY <1>17, <1>18, JoinFacts
<1>20. /\ \A name \in CondNames : nils = 1 => Label(name, c) \in DOMAIN fm /\ fm[Label(name, c)] = "op12"
       /\ \A name \in LoopNames : Label(name, w) \in DOMAIN fm /\ fm[Label(name, w)] = "body"
  BY <1>13, <1>16, <1>19 DEF MoreLabels
<1>21. UidsGrow
  BY <1>1, <1>2 DEF UidsGrow
<1>22. MoreLabels(lab, lab)
  BY DEF MoreLabels
<1>23. Typed(lab, fm)'
  <2>1. \A l \in DOMAIN g : g[l] \in Shapes
    BY <1>16 DEF Shapes
  <2>2. \A l \in DOMAIN fm : /\ l \notin DOMAIN lab
                             /\ \/ l \in DOMAIN fl /\ fm[l] = fl[l]
                                \/ fm[l] \in Shapes /\ GivenOut(l)'
    BY <1>5, <1>17, <1>19, <2>1 DEF MoreLabels, Typed
  <2> QED BY <1>4, <1>5, <1>21, <1>22, <2>2, TypedKept
<1>24. EndOK(e)'
  <2>1. e.fn = InFunction'
    BY <1>5, <1>10, Zenon DEF EndOK
  <2>2. Sure(Len(open))' \subseteq e.must /\ e.bound = unique_id'
    BY <1>1, <1>5, <1>6, <1>10
  <2> QED BY <1>5, <2>1, <2>2, Zenon DEF EndOK
<1>25. CodeLeads(lab, fm, e)'
  <2> DEFINE L == FlatLab(fm, e)
  <2>1. /\ \A name \in {"ELSE", "IF_END"} : nils = 1 => Label(name, c) \in DOMAIN L /\ L[Label(name, c)] = At(e, "op12")
        /\ \A name \in {"FOR", "FOR_BODY", "FOR_END"} : Label(name, w) \in DOMAIN L /\ L[Label(name, w)] = e
    <3>1. At(e, "body") = e
      BY <1>5, FactFields
    <3> QED BY <1>20, <3>1 DEF FlatLab, CondNames, LoopNames
  <2> HIDE DEF L
  <2>2. Leads(code, e, e, L, Flat(e))
    BY <1>2, <1>4, <1>5, <1>8, <1>9, <2>1, WhileLeads
  <2>3. Leads(<<>>, e, e, lab, Facts)
    BY <1>5, LeadsEmpty
  <2>4. Waits(code)
    <3>1. Waits(code_generator_for_label(loop_uid)) /\ Waits(expr(nils))
          /\ Waits(code_generator_for_loop_if(loop_uid)) /\ Waits(code_generator_for_body(loop_uid))
      BY <1>2, <1>4, BranchWaits, ExprWaits
    <3>2. Waits(code_generator_for_label(loop_uid) \o expr(nils) \o code_generator_for_loop_if(loop_uid))
      BY <3>1, WaitsConcat
    <3> QED BY <3>1, <3>2, WaitsConcat
  <2> HIDE DEF code
  <2>5. Halves(code, <<>>, code) /\ IsShapes(fl) /\ for_open + 1 # 0
    BY <1>2, <1>5, <2>4 DEF Waits, IsShapes, Typed
  <2>6. PICK loops : loops = for_open + 1
    OBVIOUS
  <2>7. Leads(code, e, e, FlatLab(fm, e), Flat(e))
    BY <2>2 DEF L
  <2> QED BY <1>1, <1>5, <1>19, <2>3, <2>5, <2>6, <2>7, EmitInLoop
<1>26. ASSUME NEW k \in 1..n, open[k].kind = "if"
       PROVE  Label("IF_END", open[k].uid) \notin DOMAIN lab \union DOMAIN fm
  <2>1. Label("IF_END", open[k].uid) \notin DOMAIN lab \union DOMAIN fl
    BY <1>5, <1>7, <1>26 DEF Pending
  <2>2. open[k].uid < cond_uid /\ open[k].uid \in Nat
    <3>1. k \in 1..Len(open) /\ open[k].kind \in CondKinds
      BY <1>7, <1>26 DEF CondKinds
    <3>2. open[k] \in Blocks /\ open[k].uid < cond_uid
      BY <1>2, <3>1 DEF OpenOK
    <3> QED BY <3>2, BlockFields
  <2>3. Label("IF_END", open[k].uid) \notin DOMAIN g
    BY <1>2, <1>9, <1>13, <1>16, <2>2, LabelEq DEF LoopNames
  <2> QED BY <1>19, <2>1, <2>3
<1>27. ASSUME NEW k \in (n + 1)..Len(open') PROVE Pending(k, lab, fm)'
  <2>1. k = n + 1
    BY <1>10
  <2>2. open'[k].kind = "while" /\ open'[k].uid = w
    BY <1>6, <1>8, <1>10, <2>1
  <2>3. \A name \in {"FOR", "FOR_END"} : JoinsInLoop(fm, Label(name, w))
    BY <1>20 DEF JoinsInLoop, LoopNames
  <2> QED BY <2>2, <2>3 DEF Pending, JoinsInLoop
<1>28. Annotated(lab, fm, e)'
  BY <1>2, <1>3, <1>10, <1>19, <1>22, <1>23, <1>24, <1>25, <1>26, <1>27, AnnotatedNext
<1> QED BY <1>28

\* The labels of a new if, M, and of a ?? in its condition, N, are new.
NewIf(lab, fl, nils, u, N, M) ==
  /\ \A l \in N \union M : l \notin DOMAIN lab /\ l \notin DOMAIN fl /\ GivenOut(l)'
  /\ \A l \in M : l \notin N
  /\ \A name \in CondNames : nils = 1 => Label(name, cond_uid) \in N
  /\ Label("IF_END", u) \notin DOMAIN lab \union DOMAIN fl
  /\ Label("IF_END", u) \notin N \union M
  /\ \A k \in 1..Len(open) : open[k].kind = "if" => Label("IF_END", open[k].uid) \notin N \union M

LEMMA IfMarks ==
  ASSUME LabelInv, NEW lab, NEW fl, Typed(lab, fl), NEW nils \in 0..1,
         NEW u, u = cond_uid + nils, cond_uid' = u + 1, NEW N, N = NilLabels(nils), NEW M, M = {Label("ELSE", u)}
  PROVE  NewIf(lab, fl, nils, u, N, M)
<1>1. /\ cond_uid \in Nat /\ OpenOK /\ u \in Nat /\ cond_uid' \in Nat /\ u < cond_uid' /\ ~(u < cond_uid)
      /\ cond_uid < cond_uid' /\ ~(cond_uid < cond_uid) /\ (nils = 1 => cond_uid # u)
  BY DEF LabelInv
<1>2. PICK c : c = cond_uid
  OBVIOUS
<1>3. /\ \A l \in N : \E name \in CondNames : nils = 1 /\ l = Label(name, c)
      /\ \A name \in CondNames : nils = 1 => Label(name, c) \in N
  BY <1>1, <1>2, NilLabelsAre
<1>4. ASSUME NEW l \in N \union M PROVE \E name \in CondNames : l = Label(name, c) \/ l = Label(name, u)
  BY <1>3 DEF CondNames
<1>5. ASSUME NEW l \in N \union M PROVE ~GivenOut(l) /\ GivenOut(l)'
  <2>1. PICK name \in CondNames : l = Label(name, c) \/ l = Label(name, u)
    BY <1>4
  <2>2. ~GivenOut(Label(name, c)) /\ ~GivenOut(Label(name, u))
    BY <1>1, <1>2, GivenOutIs
  <2>3. GivenOut(Label(name, c))' /\ GivenOut(Label(name, u))'
    BY <1>1, <1>2, GivenOutNext
  <2> QED BY <2>1, <2>2, <2>3
<1>6. ~GivenOut(Label("IF_END", u))
  BY <1>1, GivenOutIs DEF CondNames
<1>7. Label("IF_END", u) \notin N \union M
  BY <1>1, <1>2, <1>3, LabelEq
<1>8. \A l \in M : l \notin N
  BY <1>1, <1>2, <1>3, LabelEq
<1>9. ASSUME NEW k \in 1..Len(open), open[k].kind = "if"
      PROVE  Label("IF_END", open[k].uid) \notin N \union M
  <2>1. open[k].uid < cond_uid
    BY <1>1, <1>9 DEF OpenOK, CondKinds
  <2>2. open[k].uid # c /\ open[k].uid # u
    BY <1>1, <1>2, <2>1
  <2> QED BY <1>3, <2>2, LabelEq
<1>10. \A l \in N \union M : l \notin DOMAIN lab /\ l \notin DOMAIN fl /\ GivenOut(l)'
  BY <1>5 DEF Typed
<1>11. Label("IF_END", u) \notin DOMAIN lab \union DOMAIN fl
  BY <1>6 DEF Typed
<1>12. \A name \in CondNames : nils = 1 => Label(name, cond_uid) \in N
  BY <1>2, <1>3
<1> QED BY <1>7, <1>8, <1>9, <1>10, <1>11, <1>12, Zenon DEF NewIf

\* The constant of an if let, if there is one, is declared in front of the jump.
LetCode(let, v) == IF let THEN code_generator_var_declare(v) ELSE <<>>
LetUse(let, v) == IF let THEN <<Instr("USE", v)>> ELSE <<>>
LetDefvar(let, v) == IF let THEN <<code_generator_defvar(v)>> ELSE <<>>
LetWith(let, e, v) == IF let THEN With(e, v) ELSE e

LEMMA LetFields ==
  ASSUME NEW let \in BOOLEAN, NEW e \in Facts, e.shape = "body", NEW v, IsVar(v), v.frame = "LF",
         e.bound = v.id[2]
  PROVE  /\ LetWith(let, e, v) \in Facts /\ LetWith(let, e, v).shape = "body" /\ LetWith(let, e, v).fn = e.fn
         /\ e.must \subseteq LetWith(let, e, v).must
         /\ let => v \in LetWith(let, e, v).must
         /\ LetWith(let, e, v).bound = IF let THEN v.id[2] + 1 ELSE v.id[2]
BY WithFields DEF LetWith

LEMMA LetLeads ==
  ASSUME NEW let \in BOOLEAN, NEW e \in Facts, e.shape = "body", NEW v, IsVar(v), v.frame = "LF",
         e.bound = v.id[2], NEW b, b = LetWith(let, e, v), NEW lab
  PROVE  /\ Leads(LetCode(let, v), e, b, lab, Facts)
         /\ Leads(LetDefvar(let, v), e, b, lab, Facts)
         /\ Leads(LetUse(let, v), b, b, lab, Flat(b))
<1>1. b \in Facts /\ b.shape = "body" /\ (let => v \in b.must)
  BY LetFields
<1>2. b \in Flat(b) /\ e.bound <= v.id[2]
  BY <1>1, FactFields, VarFields
<1>3. CASE let
  <2>1. b = With(e, v)
    BY <1>3 DEF LetWith
  <2>2. Leads(code_generator_var_declare(v), e, b, lab, Facts) /\ Leads(<<code_generator_defvar(v)>>, e, b, lab, Facts)
    BY <1>1, <1>2, <2>1, DeclareLeads, DefvarLeads
  <2>3. Leads(<<Instr("USE", v)>>, b, b, lab, Flat(b))
    BY <1>1, <1>2, <1>3, UseLeads
  <2> QED BY <1>3, <2>2, <2>3 DEF LetCode, LetUse, LetDefvar
<1>4. CASE ~let
  <2>1. b = e
    BY <1>4 DEF LetWith
  <2>2. Leads(<<>>, e, b, lab, Facts) /\ Leads(<<>>, b, b, lab, Flat(b))
    BY <1>2, <2>1, LeadsEmpty
  <2> QED BY <1>4, <2>2 DEF LetCode, LetUse, LetDefvar
<1> QED BY <1>3, <1>4

LEMMA LetHalves ==
  ASSUME NEW let \in BOOLEAN, NEW v \in Variables, NEW b, NEW c, Waits(b), Waits(c)
  PROVE  Halves(b \o LetCode(let, v) \o c, LetDefvar(let, v), b \o LetUse(let, v) \o c)
<1>1. CASE let
  BY <1>1, DeclareHalves DEF LetCode, LetUse, LetDefvar
<1>2. CASE ~let
  <2>1. Waits(b \o <<>> \o c)
    BY WaitsEmpty, WaitsConcat
  <2> QED BY <1>2, <2>1 DEF LetCode, LetUse, LetDefvar, Waits
<1> QED BY <1>1, <1>2

LEMMA IfAnnotated ==
  ASSUME LabelInv, LabelInv', NEW lab, NEW fl, NEW e, Annotated(lab, fl, e), NEW nils \in 0..1,
         NEW let \in BOOLEAN, if(nils, let)
  PROVE  \E more, fm, b : Annotated(more, fm, b)'
<1>1. PICK v : v = Var("LF", "var", unique_id)
  OBVIOUS
<1>2. PICK u : u = cond_uid + nils
  OBVIOUS
<1>3. PICK c : c = cond_uid
  OBVIOUS
<1>4. PICK blk : blk = Block("if", u, IF let THEN {v} ELSE {})
  OBVIOUS
<1>5. PICK ex : ex = expr(nils)
  OBVIOUS
<1>6. PICK hd : hd = code_generator_if_header(u)
  OBVIOUS
<1>7. /\ Emit(ex \o LetCode(let, v) \o hd, for_open) /\ Add("if", "none", 0) /\ open' = Append(open, blk)
      /\ cond_uid' = u + 1 /\ loop_uid' = loop_uid /\ globals' = globals
      /\ unique_id' = (IF let THEN unique_id + 1 ELSE unique_id) /\ (let => nils = 0)
  BY <1>1, <1>2, <1>4, <1>5, <1>6 DEF if, UidAfter, LetCode
<1>8. SourceOK /\ cond_uid \in Nat /\ loop_uid \in Nat /\ unique_id \in Nat /\ OpenOK /\ OpenOK'
        /\ u \in Nat
  BY <1>2 DEF LabelInv
<1>9. Grown("if", "none")
  BY <1>7, <1>8, SourceGrows DEF Kinds
<1>10. Here \in Nat /\ Defined' = Defined /\ Known' = Known
  BY <1>9, GrownDefined
<1>11. /\ Typed(lab, fl) /\ EndOK(e) /\ CodeLeads(lab, fl, e) /\ e \in Facts /\ e.shape = "body"
       /\ e.bound = unique_id /\ Sure(Len(open)) \subseteq e.must
       /\ \A k \in 1..Len(open) : Pending(k, lab, fl)
  BY DEF Annotated, EndOK
<1>12. IsVar(v) /\ v \in Variables /\ v.frame = "LF" /\ v.id[2] = unique_id
  BY <1>1, <1>8, NewVarFields
<1>13. blk \in Blocks /\ blk.kind = "if" /\ blk.uid = u /\ blk.declared = IF let THEN {v} ELSE {}
  BY <1>4, <1>8, <1>10, <1>12 DEF Block, Blocks
<1>14. PICK n : n = Len(open)
  OBVIOUS
<1>15. /\ BlocksStay(n) /\ n \in Nat /\ Len(open') = n + 1 /\ open'[n + 1] = blk
       /\ InFunction' = InFunction
       /\ Sure(Len(open))' = Sure(Len(open)) \union blk.declared
       /\ Sure(n)' = Sure(Len(open))
       /\ InLoop(n + 1)' <=> for_open # 0
  <2>1. unique_id' \in Nat /\ unique_id <= unique_id'
    BY <1>7, <1>8
  <2>2. blk.kind # "func" /\ blk.kind # "while"
    BY <1>13
  <2>3. open' = Append(open, blk) /\ globals' = globals
    BY <1>7
  <2> QED BY <1>13, <1>14, <2>1, <2>2, <2>3, PushedBlocks, Zenon
<1>16. PICK b : b = LetWith(let, e, v)
  OBVIOUS
<1>17. /\ b \in Facts /\ b.shape = "body" /\ b.fn = e.fn /\ e.must \subseteq b.must
       /\ (let => v \in b.must) /\ b.bound = unique_id'
  <2>1. e.bound = v.id[2]
    BY <1>11, <1>12
  <2>2. /\ b \in Facts /\ b.shape = "body" /\ b.fn = e.fn /\ e.must \subseteq b.must
        /\ (let => v \in b.must) /\ b.bound = (IF let THEN v.id[2] + 1 ELSE v.id[2])
    BY <1>11, <1>12, <1>16, <2>1, LetFields
  <2> QED BY <1>7, <1>12, <2>2
<1>18. b.fn = InFunction'
  BY <1>11, <1>15, <1>17, Zenon DEF EndOK
<1>19. EndOK(b)'
  <2>1. Sure(Len(open))' \subseteq b.must
    BY <1>11, <1>13, <1>15, <1>17
  <2> QED BY <1>17, <1>18, <2>1, Zenon DEF EndOK
<1>20. PICK N : N = NilLabels(nils)
  OBVIOUS
<1>21. PICK M : M = {Label("ELSE", u)}
  OBVIOUS
<1>22. /\ \A l \in N \union M : l \notin DOMAIN lab /\ l \notin DOMAIN fl /\ GivenOut(l)'
       /\ \A l \in M : l \notin N
       /\ \A name \in CondNames : nils = 1 => Label(name, cond_uid) \in N
       /\ Label("IF_END", u) \notin DOMAIN lab \union DOMAIN fl
       /\ Label("IF_END", u) \notin N \union M
       /\ \A k \in 1..Len(open) : open[k].kind = "if" => Label("IF_END", open[k].uid) \notin N \union M
  <2>1. cond_uid' = u + 1 /\ Typed(lab, fl)
    BY <1>7, <1>11
  <2>2. NewIf(lab, fl, nils, u, N, M)
    BY <1>2, <1>20, <1>21, <2>1, IfMarks
  <2> QED BY <2>2, Zenon DEF NewIf
<1>23. UidsGrow
  BY <1>2, <1>7, <1>8 DEF UidsGrow
<1>24. \A k \in 1..n : open[k].kind = "if" => Label("IF_END", open[k].uid) \notin DOMAIN lab \union DOMAIN fl \union N \union M
  BY <1>11, <1>14, <1>22 DEF Pending
<1>25. e.bound = v.id[2] /\ Flat(e) \subseteq Facts
  BY <1>11, <1>12, FlatFields
<1>26. nils = 1 => e = b
  BY <1>7, <1>16 DEF LetWith
<1>27. \A k \in (n + 1)..Len(open') : k = n + 1 /\ open'[k].kind = "if" /\ open'[k].uid = u
  BY <1>13, <1>15
<1>28. PICK s : s = Sure(Len(open))
  OBVIOUS
<1>29. CASE for_open = 0
  <2>1. PICK g : g = Marks(N, M, At(e, "op12"), b)
    OBVIOUS
  <2>2. DOMAIN g = N \union M /\ (\A l \in N : g[l] = At(e, "op12")) /\ (\A l \in M : g[l] = b)
    BY <1>22, <2>1 DEF Marks
  <2>3. PICK more : more = Join(lab, g)
    OBVIOUS
  <2>4. DOMAIN more = DOMAIN lab \union DOMAIN g /\ MoreLabels(lab, more) /\ MoreLabels(g, more)
    BY <1>22, <2>2, <2>3, JoinFacts
  <2>5. /\ \A name \in CondNames : nils = 1 => Label(name, c) \in DOMAIN more /\ more[Label(name, c)] = At(e, "op12")
        /\ Label("ELSE", u) \in DOMAIN more /\ more[Label("ELSE", u)] = b
    BY <1>3, <1>21, <1>22, <2>2, <2>4 DEF MoreLabels
  <2>6. Typed(more, fl)'
    <3>1. \A l \in DOMAIN g : g[l] \in Facts
      BY <1>11, <1>17, <2>2, FactFields DEF Shapes
    <3>2. \A l \in DOMAIN more : l \in DOMAIN lab \/ (more[l] \in Facts /\ GivenOut(l)')
      BY <1>22, <2>2, <2>4, <3>1 DEF MoreLabels
    <3>3. \A l \in DOMAIN fl : /\ l \notin DOMAIN more
                               /\ \/ l \in DOMAIN fl /\ fl[l] = fl[l]
                                  \/ fl[l] \in Shapes /\ GivenOut(l)'
      BY <1>11, <1>22, <2>2, <2>4 DEF Typed
    <3> QED BY <1>10, <1>11, <1>23, <2>4, <3>2, <3>3, TypedKept
  <2>7. CodeLeads(more, fl, b)'
    <3>1. Leads(ex, e, e, more, Facts)
      BY <1>3, <1>5, <1>8, <1>10, <1>11, <1>25, <2>5, ExprLeads DEF CondNames
    <3>2. Leads(LetCode(let, v), e, b, more, Facts)
      BY <1>11, <1>12, <1>16, <1>25, LetLeads
    <3>3. Leads(hd, b, b, more, Facts)
      BY <1>6, <1>8, <1>17, <2>5, IfLeads, WeakerTrans
    <3>4. Leads(ex \o LetCode(let, v), e, b, more, Facts)
      BY <3>1, <3>2, LeadsConcat
    <3>5. Leads(ex \o LetCode(let, v) \o hd, e, b, more, Facts)
      BY <3>3, <3>4, LeadsConcat
    <3> QED BY <1>7, <1>11, <1>17, <1>29, <2>4, <3>5, EmitStraight, LoopsOpen
  <2>8. ASSUME NEW k \in (n + 1)..Len(open') PROVE Pending(k, more, fl)'
    <3>1. Label("IF_END", u) \notin DOMAIN more \union DOMAIN fl
      BY <1>22, <2>2, <2>4
    <3>2. ~InLoop(k)' /\ Sure(k - 1)' = s /\ s \subseteq b.must
      <4>1. k = n + 1 /\ k - 1 = n
        BY <1>15, <1>27
      <4> QED BY <1>11, <1>15, <1>17, <1>28, <1>29, <4>1
    <3>3. b.bound <= unique_id'
      BY <1>17, FactFields
    <3>4. Joins(more, Label("ELSE", u), InFunction, Sure(k - 1))'
      <4>1. PICK fn : fn = InFunction'
        OBVIOUS
      <4>2. Joins(more, Label("ELSE", u), fn, s)'
        BY <1>17, <1>18, <2>5, <3>2, <3>3, <4>1, Zenon DEF Joins
      <4> QED BY <3>2, <4>1, <4>2 DEF Joins
    <3> QED BY <1>27, <3>1, <3>2, <3>4 DEF Pending
  <2>9. \A k \in 1..n : open[k].kind = "if" => Label("IF_END", open[k].uid) \notin DOMAIN more \union DOMAIN fl
    BY <1>24, <2>2, <2>4
  <2>10. MoreLabels(fl, fl)
    BY DEF MoreLabels
  <2>11. Annotated(more, fl, b)'
    BY <1>8, <1>9, <1>15, <1>19, <2>4, <2>6, <2>7, <2>8, <2>9, <2>10, AnnotatedNext
  <2> QED BY <2>11
<1>30. CASE for_open # 0
  <2>1. PICK g : g = Marks(N, M, "op12", "body")
    OBVIOUS
  <2>2. DOMAIN g = N \union M /\ (\A l \in N : g[l] = "op12") /\ (\A l \in M : g[l] = "body")
    BY <1>22, <2>1 DEF Marks
  <2>3. PICK fm : fm = Join(fl, g)
    OBVIOUS
  <2>4. DOMAIN fm = DOMAIN fl \union DOMAIN g /\ MoreLabels(fl, fm) /\ MoreLabels(g, fm)
    BY <1>22, <2>2, <2>3, JoinFacts
  <2>5. /\ \A name \in CondNames : nils = 1 => Label(name, c) \in DOMAIN fm /\ fm[Label(name, c)] = "op12"
        /\ Label("ELSE", u) \in DOMAIN fm /\ fm[Label("ELSE", u)] = "body"
    BY <1>3, <1>21, <1>22, <2>2, <2>4 DEF MoreLabels
  <2>6. MoreLabels(lab, lab)
    BY DEF MoreLabels
  <2>7. Typed(lab, fm)'
    <3>1. \A l \in DOMAIN g : g[l] \in Shapes
      BY <2>2 DEF Shapes
    <3>2. \A l \in DOMAIN fm : /\ l \notin DOMAIN lab
                               /\ \/ l \in DOMAIN fl /\ fm[l] = fl[l]
                                  \/ fm[l] \in Shapes /\ GivenOut(l)'
      BY <1>11, <1>22, <2>2, <2>4, <3>1 DEF MoreLabels, Typed
    <3> QED BY <1>10, <1>11, <1>23, <2>6, <3>2, TypedKept
  <2>8. CodeLeads(lab, fm, b)'
    <3>1. PICK L : L = FlatLab(fm, b)
      OBVIOUS
    <3>2. /\ \A name \in CondNames : nils = 1 => Label(name, c) \in DOMAIN L /\ L[Label(name, c)] = At(b, "op12")
          /\ Label("ELSE", u) \in DOMAIN L /\ L[Label("ELSE", u)] = b
      <4>1. At(b, "body") = b
        BY <1>17, FactFields
      <4> QED BY <2>5, <3>1, <4>1 DEF FlatLab
    <3>3. b \in Flat(b) /\ Flat(b) \subseteq Flat(b)
      BY <1>17, FactFields
    <3>4. Leads(ex, b, b, L, Flat(b))
      BY <1>3, <1>5, <1>8, <1>10, <1>17, <3>2, <3>3, ExprLeads DEF CondNames
    <3>5. Leads(LetUse(let, v), b, b, L, Flat(b)) /\ Leads(LetDefvar(let, v), e, b, lab, Facts)
      BY <1>11, <1>12, <1>16, <1>25, LetLeads
    <3>6. Leads(hd, b, b, L, Flat(b))
      BY <1>6, <1>8, <1>17, <3>2, <3>3, IfLeads, WeakerTrans
    <3>7. Leads(ex \o LetUse(let, v), b, b, L, Flat(b))
      BY <3>4, <3>5, LeadsConcat
    <3>8. Leads(ex \o LetUse(let, v) \o hd, b, b, FlatLab(fm, b), Flat(b))
      BY <3>1, <3>6, <3>7, LeadsConcat
    <3>9. Halves(ex \o LetCode(let, v) \o hd, LetDefvar(let, v), ex \o LetUse(let, v) \o hd)
      <4>1. Waits(ex) /\ Waits(hd)
        BY <1>5, <1>6, <1>8, <1>10, ExprWaits, BranchWaits
      <4> QED BY <1>12, <4>1, LetHalves
    <3>10. IsShapes(fl)
      BY <1>11 DEF Typed, IsShapes
    <3> QED BY <1>7, <1>11, <1>17, <1>30, <2>4, <3>5, <3>8, <3>9, <3>10, EmitInLoop
  <2>9. ASSUME NEW k \in (n + 1)..Len(open') PROVE Pending(k, lab, fm)'
    <3>1. Label("IF_END", u) \notin DOMAIN lab \union DOMAIN fm
      BY <1>22, <2>2, <2>4
    <3>2. InLoop(k)'
      <4>1. k = n + 1
        BY <1>27
      <4> QED BY <1>15, <1>30, <4>1
    <3>3. JoinsInLoop(fm, Label("ELSE", u))
      BY <2>5 DEF JoinsInLoop
    <3> QED BY <1>27, <3>1, <3>2, <3>3 DEF Pending, JoinsInLoop
  <2>10. \A k \in 1..n : open[k].kind = "if" => Label("IF_END", open[k].uid) \notin DOMAIN lab \union DOMAIN fm
    BY <1>24, <2>2, <2>4
  <2>11. Annotated(lab, fm, b)'
    BY <1>8, <1>9, <1>15, <1>19, <2>4, <2>6, <2>7, <2>8, <2>9, <2>10, AnnotatedNext
  <2> QED BY <2>11
<1> QED BY <1>29, <1>30

\* One label more.
Added(f, l, y, more) == MoreLabels(f, more) /\ DOMAIN more = DOMAIN f \union {l} /\ more[l] = y

LEMMA AddOne ==
  ASSUME NEW f, NEW l, l \notin DOMAIN f, NEW y
  PROVE  \E more : Added(f, l, y, more)
<1>1. PICK g : g = [k \in {l} |-> y]
  OBVIOUS
<1>2. DOMAIN g = {l} /\ g[l] = y
  BY <1>1
<1>3. PICK more : more = Join(f, g)
  OBVIOUS
<1>4. DOMAIN more = DOMAIN f \union DOMAIN g /\ MoreLabels(f, more) /\ more[l] = g[l]
  <2>1. DOMAIN more = DOMAIN f \union DOMAIN g /\ MoreLabels(f, more)
    BY <1>3, JoinFacts
  <2>2. more[l] = g[l]
    BY <1>2, <1>3 DEF Join
  <2> QED BY <2>1, <2>2
<1>5. Added(f, l, y, more)
  BY <1>2, <1>4 DEF Added
<1> QED BY <1>5

LEMMA AddedTyped ==
  ASSUME NEW lab, NEW fl, Typed(lab, fl), UidsGrow, Defined' = Defined /\ Known' = Known, NEW l, GivenOut(l)',
         l \notin DOMAIN lab \union DOMAIN fl, NEW y, NEW more
  PROVE  /\ y \in Facts /\ Added(lab, l, y, more) => Typed(more, fl)'
         /\ y \in Shapes /\ Added(fl, l, y, more) => Typed(lab, more)'
<1>1. ASSUME y \in Facts, Added(lab, l, y, more) PROVE Typed(more, fl)'
  <2>1. MoreLabels(lab, more) /\ \A k \in DOMAIN more : k \in DOMAIN lab \/ (more[k] \in Facts /\ GivenOut(k)')
    BY <1>1 DEF Added
  <2>2. \A k \in DOMAIN fl : /\ k \notin DOMAIN more
                             /\ \/ k \in DOMAIN fl /\ fl[k] = fl[k]
                                \/ fl[k] \in Shapes /\ GivenOut(k)'
    BY <1>1 DEF Added, Typed
  <2> QED BY <2>1, <2>2, TypedKept
<1>2. ASSUME y \in Shapes, Added(fl, l, y, more) PROVE Typed(lab, more)'
  <2>1. MoreLabels(lab, lab)
    BY DEF MoreLabels
  <2>2. \A k \in DOMAIN more : /\ k \notin DOMAIN lab
                               /\ \/ k \in DOMAIN fl /\ more[k] = fl[k]
                                  \/ more[k] \in Shapes /\ GivenOut(k)'
    BY <1>2 DEF Added, Typed, MoreLabels
  <2> QED BY <2>1, <2>2, TypedKept
<1> QED BY <1>1, <1>2

LEMMA SureTyped ==
  ASSUME LabelInv
  PROVE  \A k \in 0..Len(open) : Sure(k) \subseteq Variables
<1> SUFFICES ASSUME NEW k \in 0..Len(open) PROVE Sure(k) \subseteq Variables
  OBVIOUS
<1>1. globals \subseteq Variables /\ open \in Seq(Blocks) /\ Len(open) \in Nat
  BY DEF LabelInv, OpenOK
<1>2. ASSUME NEW j \in 1..k PROVE open[j].declared \subseteq Variables
  <2>1. j \in 1..Len(open)
    BY <1>1
  <2>2. open[j] \in Blocks
    BY <1>1, <2>1
  <2> QED BY <2>2, BlockFields
<1> QED BY <1>1, <1>2 DEF Sure

\* The innermost block is closed, or replaced by one that declares nothing.
LEMMA ClosedBlocks ==
  ASSUME LabelInv, LabelInv', open # <<>>, Top.kind # "func", NEW n, n = Len(open) - 1,
         globals' = globals, unique_id' = unique_id, Len(open') \in {n, n + 1},
         \A k \in 1..n : open'[k] = open[k],
         Len(open') = n + 1 => open'[n + 1].declared = {} /\ open'[n + 1].kind # "func"
  PROVE  /\ BlocksStay(n) /\ n \in Nat /\ n + 1 = Len(open) /\ n \in 0..Len(open)
         /\ InFunction' = InFunction
         /\ Sure(Len(open))' = Sure(n)
         /\ Sure(n)' = Sure(n)
         /\ Sure(n) \subseteq Sure(Len(open)) /\ Sure(n) \subseteq Variables
<1>1. open \in Seq(Blocks) /\ open' \in Seq(Blocks) /\ unique_id \in Nat
  BY DEF LabelInv, OpenOK
<1>2. n \in Nat /\ n + 1 = Len(open) /\ Len(open) \in Nat /\ Len(open') \in Nat /\ n \in 0..Len(open)
      /\ \A k \in 1..n : k \in 1..Len(open)
  BY <1>1, TopFacts DEF LabelInv
<1>3. BlocksStay(n)
  <2>1. n <= Len(open) /\ n <= Len(open') /\ unique_id <= unique_id'
    BY <1>1, <1>2
  <2>2. \A j \in 1..(n - 1) : j \in 1..n
    BY <1>2
  <2> QED BY <1>1, <1>2, <2>1, <2>2 DEF BlocksStay
<1>4. InFunction' <=> InFunction
  <2>1. CASE n = 0
    <3>1. open[1].kind # "func"
      BY <1>2, <2>1 DEF Top
    <3> QED BY <1>1, <1>2, <2>1, <3>1, InFunctionIs
  <2>2. CASE n # 0
    <3>1. 1 \in 1..n /\ Len(open') > 0 /\ Len(open) > 0
      BY <1>2, <2>2
    <3> QED BY <1>1, <3>1, InFunctionIs
  <2> QED BY <2>1, <2>2
<1>5. InFunction' = InFunction
  BY <1>4 DEF InFunction
<1>6. \A x : x \in Sure(n) <=> (~InFunction /\ x \in globals) \/ \E j \in 1..n : x \in open[j].declared
  BY DEF Sure
<1>7. \A x : (\E j \in 1..Len(open') : x \in open'[j].declared) <=> \E j \in 1..n : x \in open[j].declared
  <2>1. CASE Len(open') = n
    BY <2>1
  <2>2. CASE Len(open') = n + 1
    <3>1. \A j \in 1..(n + 1) : j \in 1..n \/ j = n + 1
      BY <1>2
    <3>2. \A j \in 1..n : j \in 1..(n + 1)
      BY <1>2
    <3> QED BY <2>2, <3>1, <3>2
  <2> QED BY <2>1, <2>2
<1>8. Sure(Len(open))' = Sure(n)
  <2>1. \A x : x \in Sure(Len(open))' <=> (~InFunction' /\ x \in globals') \/ \E j \in 1..Len(open') : x \in open'[j].declared
    BY DEF Sure
  <2> QED BY <1>4, <1>6, <1>7, <2>1
<1>9. Sure(n)' = Sure(n)
  <2>1. {open'[j].declared : j \in 1..n} = {open[j].declared : j \in 1..n}
    OBVIOUS
  <2> QED BY <1>4, <2>1 DEF Sure
<1>10. Sure(n) \subseteq Sure(Len(open))
  BY <1>2 DEF Sure
<1>11. Sure(n) \subseteq Variables
  BY <1>2, SureTyped
<1> QED BY <1>2, <1>3, <1>5, <1>8, <1>9, <1>10, <1>11

LEMMA PendingMeans ==
  ASSUME NEW k, NEW lab, NEW fl, Pending(k, lab, fl), NEW u, open[k].uid = u, NEW s, Sure(k - 1) = s,
         NEW fn, InFunction = fn
  PROVE  /\ open[k].kind = "if" =>
              /\ Label("IF_END", u) \notin DOMAIN lab \union DOMAIN fl
              /\ InLoop(k) => JoinsInLoop(fl, Label("ELSE", u))
              /\ ~InLoop(k) => Joins(lab, Label("ELSE", u), fn, s)
         /\ open[k].kind = "else" =>
              /\ InLoop(k) => JoinsInLoop(fl, Label("IF_END", u))
              /\ ~InLoop(k) => Joins(lab, Label("IF_END", u), fn, s) /\ lab[Label("IF_END", u)].must = s
         /\ open[k].kind = "while" => \A name \in {"FOR", "FOR_END"} : JoinsInLoop(fl, Label(name, u))
<1>1. /\ open[k].kind = "if" =>
           /\ Label("IF_END", open[k].uid) \notin DOMAIN lab \union DOMAIN fl
           /\ IF InLoop(k) THEN JoinsInLoop(fl, Label("ELSE", open[k].uid))
              ELSE Joins(lab, Label("ELSE", open[k].uid), InFunction, Sure(k - 1))
      /\ open[k].kind = "else" =>
           IF InLoop(k) THEN JoinsInLoop(fl, Label("IF_END", open[k].uid))
           ELSE /\ Joins(lab, Label("IF_END", open[k].uid), InFunction, Sure(k - 1))
                /\ lab[Label("IF_END", open[k].uid)].must = Sure(k - 1)
      /\ open[k].kind = "while" => \A name \in {"FOR", "FOR_END"} : JoinsInLoop(fl, Label(name, open[k].uid))
  BY DEF Pending
<1> QED BY <1>1, Zenon

LEMMA ElseAnnotated ==
  ASSUME LabelInv, LabelInv', NEW lab, NEW fl, NEW e, Annotated(lab, fl, e), else
  PROVE  \E more, fm, b : Annotated(more, fm, b)'
<1>1. PICK u : u = Top.uid
  OBVIOUS
<1>2. PICK code : code = code_generator_if_else(u)
  OBVIOUS
<1>3. PICK blk : blk = [Top EXCEPT !.kind = "else", !.declared = {}]
  OBVIOUS
<1>4. PICK at : at = Top.at
  OBVIOUS
<1>5. /\ open # <<>> /\ Top.kind = "if" /\ Emit(code, for_open) /\ Add("else", "none", at)
      /\ open' = Append(Below, blk)
      /\ cond_uid' = cond_uid /\ loop_uid' = loop_uid /\ globals' = globals /\ unique_id' = unique_id
  BY <1>1, <1>2, <1>3, <1>4 DEF else, CloseUnchanged, TopIs
<1>6. SourceOK /\ cond_uid \in Nat /\ loop_uid \in Nat /\ unique_id \in Nat /\ OpenOK /\ OpenOK'
  BY DEF LabelInv
<1>7. /\ Len(open) \in 1..Len(open) /\ Top \in Blocks /\ Top = open[Len(open)] /\ u \in Nat /\ at \in Nat
      /\ Below \in Seq(Blocks) /\ Appended(open, Below, Top)
  BY <1>1, <1>4, <1>5, <1>6, TopFacts
<1>8. Grown("else", "none")
  BY <1>5, <1>6, <1>7, SourceGrows DEF Kinds
<1>9. Defined' = Defined /\ Known' = Known
  BY <1>8, GrownDefined
<1>10. /\ Typed(lab, fl) /\ EndOK(e) /\ CodeLeads(lab, fl, e) /\ e \in Facts /\ e.shape = "body"
       /\ e.bound = unique_id /\ Sure(Len(open)) \subseteq e.must
       /\ \A k \in 1..Len(open) : Pending(k, lab, fl)
  BY DEF Annotated, EndOK
<1>11. blk \in Blocks /\ blk.kind = "else" /\ blk.uid = u /\ blk.declared = {}
  BY <1>1, <1>3, <1>7 DEF Blocks
<1>12. PICK n : n = Len(open) - 1
  OBVIOUS
<1>13. Appended(open', Below, blk) /\ n = Len(Below) /\ Len(open') = n + 1 /\ open'[n + 1] = blk
       /\ (\A k \in 1..n : open'[k] = open[k])
  <2>1. Appended(open', Below, blk)
    BY <1>5, <1>7, <1>11, AppendFacts
  <2>2. n = Len(Below)
    BY <1>7, <1>12 DEF Appended
  <2> QED BY <1>7, <2>1, <2>2 DEF Appended
<1>14. /\ BlocksStay(n) /\ n \in Nat /\ n + 1 = Len(open) /\ n \in 0..Len(open)
       /\ InFunction' = InFunction
       /\ Sure(Len(open))' = Sure(n)
       /\ Sure(n)' = Sure(n)
       /\ Sure(n) \subseteq Sure(Len(open)) /\ Sure(n) \subseteq Variables
  <2>1. /\ Top.kind # "func" /\ globals' = globals /\ unique_id' = unique_id /\ Len(open') \in {n, n + 1}
        /\ Len(open') = n + 1 => open'[n + 1].declared = {} /\ open'[n + 1].kind # "func"
    BY <1>5, <1>11, <1>13
  <2> QED BY <1>5, <1>12, <1>13, <2>1, ClosedBlocks
<1>15. /\ open[n + 1].kind = "if" /\ open[n + 1].uid = u /\ n + 1 \in 1..Len(open) /\ n + 1 \in 1..Len(open')
       /\ open'[n + 1].kind = "else" /\ open'[n + 1].uid = u
  BY <1>1, <1>5, <1>7, <1>11, <1>13, <1>14
<1>16. InLoop(n + 1)' <=> InLoop(n + 1)
  <2>1. \A j \in 1..(n + 1) : j \in 1..n \/ j = n + 1
    BY <1>14
  <2> QED BY <1>13, <1>15, <2>1 DEF InLoop
<1>17. for_open # 0 <=> InLoop(n + 1)
  BY <1>14, <1>15, LoopsOpen
<1>18. PICK s : s = Sure(n)
  OBVIOUS
<1>19. PICK l : l = Label("IF_END", u)
  OBVIOUS
<1>20. PICK q : q = Label("ELSE", u)
  OBVIOUS
<1>21. Pending(n + 1, lab, fl) /\ (n + 1) - 1 = n
  BY <1>10, <1>14, <1>15
<1>22. l \notin DOMAIN lab \union DOMAIN fl
       /\ (InLoop(n + 1) => JoinsInLoop(fl, q)) /\ (~InLoop(n + 1) => Joins(lab, q, InFunction, s))
  <2>1. PICK m : m = n + 1 /\ m - 1 = n
    BY <1>21, Zenon
  <2>2. Sure(m - 1) = s /\ open[m].uid = u /\ open[m].kind = "if" /\ Pending(m, lab, fl)
    BY <1>15, <1>18, <1>21, <2>1, Zenon
  <2>3. l \notin DOMAIN lab \union DOMAIN fl
        /\ (InLoop(m) => JoinsInLoop(fl, q)) /\ (~InLoop(m) => Joins(lab, q, InFunction, s))
    BY <1>19, <1>20, <2>2, PendingMeans
  <2> QED BY <2>1, <2>3
<1>23. UidsGrow /\ GivenOut(l)'
  <2>1. u < cond_uid'
    BY <1>5, <1>6, <1>15 DEF OpenOK, CondKinds
  <2>2. GivenOut(l)'
    BY <1>7, <1>19, <2>1, GivenOutNext DEF CondNames
  <2> QED BY <1>5, <1>6, <2>2 DEF UidsGrow
<1>24. ASSUME NEW k \in 1..n, open[k].kind = "if"
       PROVE  Label("IF_END", open[k].uid) \notin DOMAIN lab \union DOMAIN fl \union {l}
  <2>1. Label("IF_END", open[k].uid) \notin DOMAIN lab \union DOMAIN fl
    <3>1. Pending(k, lab, fl)
      BY <1>10, <1>14
    <3> QED BY <1>24, <3>1, PendingMeans
  <2>2. k \in 1..Len(open) /\ k # n + 1
    BY <1>14
  <2>3. open[k].uid # u
    BY <1>6, <1>15, <1>24, <2>2 DEF OpenOK, CondKinds
  <2> QED BY <1>19, <2>1, <2>3, LabelEq
<1>25. \A k \in (n + 1)..Len(open') : k = n + 1
  BY <1>13, <1>14
<1>26. PICK fn : fn = InFunction
  OBVIOUS
<1>27. fn \in BOOLEAN /\ e.fn = fn /\ fn = InFunction'
  <2>1. e.fn = fn
    BY <1>10, <1>26, Zenon DEF EndOK
  <2> QED BY <1>10, <1>14, <1>26, <2>1, FactFields
<1>28. CASE for_open = 0
  <2>1. ~InLoop(n + 1) /\ ~InLoop(n + 1)' /\ Joins(lab, q, fn, s)
    BY <1>16, <1>17, <1>22, <1>26, <1>28
  <2>2. PICK y : y = Body(fn, s, unique_id)
    OBVIOUS
  <2>3. y \in Facts /\ y.shape = "body" /\ y.fn = fn /\ y.must = s /\ y.bound = unique_id
    BY <1>6, <1>14, <1>18, <1>27, <2>2, BodyFields
  <2>4. q \in DOMAIN lab /\ lab[q] \in Facts /\ lab[q].shape = "body" /\ lab[q].fn = fn /\ s \subseteq lab[q].must
        /\ lab[q].bound <= unique_id
    BY <1>10, <2>1 DEF Joins, Typed
  <2>5. PICK b : b = Body(fn, lab[q].must, unique_id)
    OBVIOUS
  <2>6. b \in Facts /\ b.shape = "body" /\ b.fn = fn /\ b.must = lab[q].must /\ b.bound = unique_id
    <3>1. lab[q].must \in SUBSET Variables
      BY <2>4, FactFields
    <3> QED BY <1>6, <1>27, <2>5, <3>1, BodyFields
  <2>7. PICK more : Added(lab, l, y, more)
    BY <1>22, AddOne
  <2>8. Typed(more, fl)'
    BY <1>9, <1>10, <1>22, <1>23, <2>3, <2>7, AddedTyped
  <2>9. MoreLabels(lab, more) /\ l \in DOMAIN more /\ more[l] = y /\ q \in DOMAIN more /\ more[q] = lab[q]
        /\ DOMAIN more = DOMAIN lab \union {l}
    BY <2>4, <2>7 DEF Added, MoreLabels
  <2>10. Same(lab[q], b) /\ Same(e, y)
    <3>1. lab[q].fn = b.fn /\ e.fn = y.fn
      BY <1>27, <2>3, <2>4, <2>6, Zenon
    <3>2. y.must \subseteq e.must /\ e.bound <= y.bound
      BY <1>6, <1>10, <1>14, <1>18, <2>3
    <3>3. b.must \subseteq lab[q].must /\ lab[q].bound <= b.bound
      BY <2>4, <2>6
    <3> QED BY <1>10, <2>3, <2>4, <2>6, <3>1, <3>2, <3>3, Zenon DEF Same, Weaker
  <2>11. Leads(code, e, b, more, Facts)
    <3>1. Same(more[q], b) /\ Same(e, more[l])
      BY <2>9, <2>10
    <3> QED BY <1>2, <1>7, <1>10, <1>19, <1>20, <2>6, <2>9, <3>1, IfLeads
  <2>12. CodeLeads(more, fl, b)'
    BY <1>5, <1>10, <1>28, <2>6, <2>9, <2>11, EmitStraight, LoopsOpen
  <2>13. EndOK(b)'
    <3>1. b.fn = InFunction'
      BY <1>27, <2>6, Zenon
    <3>2. Sure(Len(open))' \subseteq b.must /\ b.bound = unique_id'
      BY <1>5, <1>14, <1>18, <2>4, <2>6
    <3> QED BY <2>6, <3>1, <3>2, Zenon DEF EndOK
  <2>14. ASSUME NEW k \in (n + 1)..Len(open') PROVE Pending(k, more, fl)'
    <3>1. k = n + 1 /\ k - 1 = n
      BY <1>14, <1>25
    <3>2. y.bound <= unique_id'
      BY <1>5, <1>6, <2>3
    <3>3. Joins(more, l, fn, s)'
      BY <2>3, <2>9, <3>2 DEF Joins
    <3>4. Joins(more, Label("IF_END", u), InFunction, Sure(k - 1))'
      BY <1>14, <1>18, <1>19, <1>27, <3>1, <3>3 DEF Joins
    <3>5. more[Label("IF_END", u)].must = Sure(k - 1)'
      BY <1>14, <1>18, <1>19, <2>3, <2>9, <3>1
    <3> QED BY <1>15, <2>1, <3>1, <3>4, <3>5 DEF Pending
  <2>15. \A k \in 1..n : open[k].kind = "if" => Label("IF_END", open[k].uid) \notin DOMAIN more \union DOMAIN fl
    BY <1>24, <2>9
  <2>16. MoreLabels(fl, fl)
    BY DEF MoreLabels
  <2>17. Annotated(more, fl, b)'
    BY <1>6, <1>8, <1>14, <2>8, <2>9, <2>12, <2>13, <2>14, <2>15, <2>16, AnnotatedNext
  <2> QED BY <2>17
<1>29. CASE for_open # 0
  <2>1. InLoop(n + 1) /\ InLoop(n + 1)' /\ JoinsInLoop(fl, q)
    BY <1>16, <1>17, <1>22, <1>29
  <2>2. PICK fm : Added(fl, l, "body", fm)
    BY <1>22, AddOne
  <2>3. Typed(lab, fm)'
    BY <1>9, <1>10, <1>22, <1>23, <2>2, AddedTyped DEF Shapes
  <2>4. MoreLabels(fl, fm) /\ l \in DOMAIN fm /\ fm[l] = "body" /\ q \in DOMAIN fm /\ fm[q] = "body"
        /\ DOMAIN fm = DOMAIN fl \union {l}
    BY <2>1, <2>2 DEF Added, MoreLabels, JoinsInLoop
  <2>5. PICK L : L = FlatLab(fm, e)
    OBVIOUS
  <2>6. l \in DOMAIN L /\ L[l] = e /\ q \in DOMAIN L /\ L[q] = e
    <3>1. At(e, "body") = e
      BY <1>10, FactFields
    <3> QED BY <2>4, <2>5, <3>1 DEF FlatLab
  <2>7. e \in Flat(e) /\ Same(e, e)
    BY <1>10, FactFields, WeakerTrans
  <2>8. Leads(code, e, e, FlatLab(fm, e), Flat(e))
    BY <1>2, <1>7, <1>10, <1>19, <1>20, <2>5, <2>6, <2>7, IfLeads
  <2>9. Leads(<<>>, e, e, lab, Facts)
    BY <1>10, LeadsEmpty
  <2>10. Halves(code, <<>>, code) /\ IsShapes(fl)
    <3>1. Waits(code)
      BY <1>2, <1>7, BranchWaits
    <3> QED BY <1>10, <3>1 DEF Waits, IsShapes, Typed
  <2>11. CodeLeads(lab, fm, e)'
    BY <1>5, <1>10, <1>29, <2>4, <2>8, <2>9, <2>10, EmitInLoop
  <2>12. EndOK(e)'
    <3>1. e.fn = InFunction'
      BY <1>27, Zenon
    <3>2. Sure(Len(open))' \subseteq e.must /\ e.bound = unique_id'
      BY <1>5, <1>10, <1>14
    <3> QED BY <1>10, <3>1, <3>2, Zenon DEF EndOK
  <2>13. ASSUME NEW k \in (n + 1)..Len(open') PROVE Pending(k, lab, fm)'
    <3>1. k = n + 1
      BY <1>25
    <3>2. JoinsInLoop(fm, Label("IF_END", u))
      BY <1>19, <2>4 DEF JoinsInLoop
    <3> QED BY <1>15, <2>1, <3>1, <3>2 DEF Pending, JoinsInLoop
  <2>14. \A k \in 1..n : open[k].kind = "if" => Label("IF_END", open[k].uid) \notin DOMAIN lab \union DOMAIN fm
    BY <1>24, <2>4
  <2>15. MoreLabels(lab, lab)
    BY DEF MoreLabels
  <2>16. Annotated(lab, fm, e)'
    BY <1>6, <1>8, <1>14, <2>3, <2>4, <2>11, <2>12, <2>13, <2>14, <2>15, AnnotatedNext
  <2> QED BY <2>16
<1> QED BY <1>28, <1>29

\* The innermost block is closed.
PoppedTo(n) ==
  /\ BlocksStay(n) /\ n \in Nat /\ n + 1 = Len(open) /\ n + 1 \in 1..Len(open) /\ (n + 1) - 1 = n
  /\ Len(open') = n /\ (\A k \in 1..n : open'[k] = open[k])
  /\ Top \in Blocks /\ Top = open[n + 1]
  /\ InFunction' = InFunction
  /\ Sure(Len(open))' = Sure(n)
  /\ Sure(n) \subseteq Sure(Len(open)) /\ Sure(n) \subseteq Variables

LEMMA PopFacts ==
  ASSUME LabelInv, LabelInv', open # <<>>, Top.kind # "func", open' = Below,
         globals' = globals, unique_id' = unique_id
  PROVE  \E n : PoppedTo(n)
<1>1. PICK n : n = Len(open) - 1
  OBVIOUS
<1>2. /\ Len(open) \in 1..Len(open) /\ Top \in Blocks /\ Top = open[Len(open)]
      /\ Below \in Seq(Blocks) /\ Appended(open, Below, Top)
  BY TopFacts DEF LabelInv
<1>3. n \in Nat /\ n + 1 = Len(open) /\ n = Len(Below) /\ (n + 1) - 1 = n
  BY <1>1, <1>2 DEF Appended
<1>4. Len(open') = n /\ \A k \in 1..n : open'[k] = open[k]
  BY <1>2, <1>3 DEF Appended
<1>5. Len(open') \in {n, n + 1} /\ (Len(open') = n + 1 => open'[n + 1].declared = {} /\ open'[n + 1].kind # "func")
  BY <1>3, <1>4
<1>6. /\ BlocksStay(n) /\ InFunction' = InFunction
      /\ Sure(Len(open))' = Sure(n)
      /\ Sure(n) \subseteq Sure(Len(open)) /\ Sure(n) \subseteq Variables
  BY <1>1, <1>4, <1>5, ClosedBlocks
<1>7. PoppedTo(n)
  BY <1>2, <1>3, <1>4, <1>6 DEF PoppedTo
<1> QED BY <1>7

LEMMA EndIfAnnotated ==
  ASSUME LabelInv, LabelInv', NEW lab, NEW fl, NEW e, Annotated(lab, fl, e), EndIf
  PROVE  \E b : Annotated(lab, fl, b)'
<1>1. PICK u : u = Top.uid
  OBVIOUS
<1>2. PICK code : code = code_generator_if_end(u)
  OBVIOUS
<1>3. PICK at : at = Top.at
  OBVIOUS
<1>4. /\ open # <<>> /\ Top.kind = "else" /\ Emit(code, for_open) /\ Add("endif", "none", at)
      /\ open' = Below
      /\ cond_uid' = cond_uid /\ loop_uid' = loop_uid /\ globals' = globals /\ unique_id' = unique_id
  BY <1>1, <1>2, <1>3 DEF EndIf, CloseUnchanged, TopIs
<1>5. SourceOK /\ cond_uid \in Nat /\ loop_uid \in Nat /\ unique_id \in Nat /\ OpenOK /\ OpenOK'
  BY DEF LabelInv
<1>6. u \in Nat /\ at \in Nat
  BY <1>1, <1>3, <1>4, <1>5, TopFacts
<1>7. Grown("endif", "none")
  BY <1>4, <1>5, <1>6, SourceGrows DEF Kinds
<1>8. Defined' = Defined /\ Known' = Known
  BY <1>7, GrownDefined
<1>9. /\ Typed(lab, fl) /\ EndOK(e) /\ CodeLeads(lab, fl, e) /\ e \in Facts /\ e.shape = "body"
      /\ e.bound = unique_id /\ Sure(Len(open)) \subseteq e.must
      /\ \A k \in 1..Len(open) : Pending(k, lab, fl)
  BY DEF Annotated, EndOK
<1>10. PICK n : PoppedTo(n)
  <2>1. Top.kind # "func"
    BY <1>4
  <2> QED BY <1>4, <2>1, PopFacts
<1>11. /\ BlocksStay(n) /\ n \in Nat /\ n + 1 = Len(open) /\ n + 1 \in 1..Len(open) /\ (n + 1) - 1 = n
       /\ Len(open') = n /\ Top = open[n + 1] /\ InFunction' = InFunction /\ Sure(Len(open))' = Sure(n)
       /\ Sure(n) \subseteq Sure(Len(open)) /\ Sure(n) \subseteq Variables
  BY <1>10 DEF PoppedTo
<1>12. PICK s : s = Sure(n)
  OBVIOUS
<1>13. PICK l : l = Label("IF_END", u)
  OBVIOUS
<1>14. PICK fn : fn = InFunction
  OBVIOUS
<1>15. fn \in BOOLEAN /\ e.fn = fn /\ fn = InFunction'
  <2>1. e.fn = fn
    BY <1>9, <1>14, Zenon DEF EndOK
  <2> QED BY <1>9, <1>11, <1>14, <2>1, FactFields
<1>16. /\ for_open # 0 => JoinsInLoop(fl, l)
       /\ for_open = 0 => Joins(lab, l, fn, s) /\ lab[l].must = s
  <2>1. PICK m : m = n + 1 /\ m - 1 = n
    BY <1>11, Zenon
  <2>2. Sure(m - 1) = s /\ open[m].uid = u /\ open[m].kind = "else" /\ Pending(m, lab, fl)
    BY <1>1, <1>4, <1>9, <1>11, <1>12, <2>1, Zenon
  <2>3. (InLoop(m) => JoinsInLoop(fl, l)) /\ (~InLoop(m) => Joins(lab, l, fn, s) /\ lab[l].must = s)
    BY <1>13, <1>14, <2>2, PendingMeans
  <2>4. for_open # 0 <=> InLoop(m)
    BY <1>11, <2>1, LoopsOpen
  <2> QED BY <2>3, <2>4
<1>17. UidsGrow
  BY <1>4, <1>5 DEF UidsGrow
<1>18. MoreLabels(lab, lab) /\ MoreLabels(fl, fl)
  BY DEF MoreLabels
<1>19. Typed(lab, fl)'
  BY <1>8, <1>9, <1>17, <1>18, TypedKept DEF Typed
<1>20. ASSUME NEW k \in 1..n, open[k].kind = "if" PROVE Label("IF_END", open[k].uid) \notin DOMAIN lab \union DOMAIN fl
  <2>1. Pending(k, lab, fl)
    BY <1>9, <1>11
  <2> QED BY <1>20, <2>1, PendingMeans
<1>21. \A k \in (n + 1)..Len(open') : Pending(k, lab, fl)'
  BY <1>11
<1>22. ASSUME NEW b, EndOK(b)', CodeLeads(lab, fl, b)' PROVE Annotated(lab, fl, b)'
  BY <1>5, <1>7, <1>11, <1>18, <1>19, <1>20, <1>21, <1>22, AnnotatedNext
<1>23. CASE for_open = 0
  <2>1. PICK b : b = Body(fn, s, unique_id)
    OBVIOUS
  <2>2. b \in Facts /\ b.shape = "body" /\ b.fn = fn /\ b.must = s /\ b.bound = unique_id
    BY <1>5, <1>11, <1>12, <1>15, <2>1, BodyFields
  <2>3. l \in DOMAIN lab /\ lab[l].shape = "body" /\ lab[l].fn = fn /\ lab[l].must = s /\ lab[l].bound <= unique_id
    BY <1>16, <1>23 DEF Joins
  <2>4. Same(e, b) /\ Same(lab[l], b)
    <3>1. e.fn = b.fn /\ lab[l].fn = b.fn
      BY <1>15, <2>2, <2>3, Zenon
    <3>2. b.must \subseteq e.must /\ e.bound <= b.bound /\ b.must \subseteq lab[l].must /\ lab[l].bound <= b.bound
      BY <1>5, <1>9, <1>11, <1>12, <2>2, <2>3
    <3> QED BY <1>9, <2>2, <2>3, <3>1, <3>2, Zenon DEF Same, Weaker
  <2>5. Leads(out, Boot, b, lab, Facts)
    <3>1. Leads(out, Boot, e, lab, Facts)
      BY <1>9 DEF CodeLeads
    <3>2. out \in Seq(Codes) /\ Len(out) > 0
      BY <1>9, <3>1, LastPrinted
    <3>3. out # <<>> /\ Flows(out, Boot, e, lab, Facts)
      BY <3>1, <3>2 DEF Leads
    <3> QED BY <2>2, <2>4, <3>2, <3>3, FlowsWeaken DEF Leads
  <2>6. CodeLeads(lab, fl, b)
    <3>1. print_buffer = <<>> /\ b \in Flat(b)
      BY <1>23, <2>2, LoopsOpen, FactFields
    <3>2. Leads(<<>>, b, b, FlatLab(fl, b), Flat(b))
      BY <3>1, LeadsEmpty
    <3> QED BY <2>5, <3>1, <3>2 DEF CodeLeads
  <2>7. Leads(code, b, b, lab, Facts)
    BY <1>2, <1>6, <1>13, <2>2, <2>3, <2>4, IfLeads
  <2>8. CodeLeads(lab, fl, b)'
    BY <1>4, <1>18, <1>23, <2>2, <2>6, <2>7, EmitStraight, LoopsOpen
  <2>9. EndOK(b)'
    <3>1. b.fn = InFunction'
      BY <1>15, <2>2, Zenon
    <3>2. Sure(Len(open))' \subseteq b.must /\ b.bound = unique_id'
      BY <1>4, <1>11, <1>12, <2>2
    <3> QED BY <2>2, <3>1, <3>2, Zenon DEF EndOK
  <2> QED BY <1>22, <2>8, <2>9
<1>24. CASE for_open # 0
  <2>1. PICK L : L = FlatLab(fl, e)
    OBVIOUS
  <2>2. l \in DOMAIN L /\ L[l] = e
    <3>1. At(e, "body") = e
      BY <1>9, FactFields
    <3> QED BY <1>16, <1>24, <2>1, <3>1 DEF FlatLab, JoinsInLoop
  <2>3. e \in Flat(e) /\ Same(e, e)
    BY <1>9, FactFields, WeakerTrans
  <2>4. Leads(code, e, e, FlatLab(fl, e), Flat(e))
    BY <1>2, <1>6, <1>9, <1>13, <2>1, <2>2, <2>3, IfLeads
  <2>5. Leads(<<>>, e, e, lab, Facts)
    BY <1>9, LeadsEmpty
  <2>6. Halves(code, <<>>, code) /\ IsShapes(fl)
    <3>1. Waits(code)
      BY <1>2, <1>6, BranchWaits
    <3> QED BY <1>9, <3>1 DEF Waits, IsShapes, Typed
  <2>7. CodeLeads(lab, fl, e)'
    BY <1>4, <1>9, <1>18, <1>24, <2>4, <2>5, <2>6, EmitInLoop
  <2>8. EndOK(e)'
    <3>1. e.fn = InFunction'
      BY <1>15, Zenon
    <3>2. Sure(Len(open))' \subseteq e.must /\ e.bound = unique_id'
      BY <1>4, <1>9, <1>11
    <3> QED BY <1>9, <3>1, <3>2, Zenon DEF EndOK
  <2> QED BY <1>22, <2>7, <2>8
<1> QED BY <1>23, <1>24

LEMMA EndWhileAnnotated ==
  ASSUME LabelInv, LabelInv', NEW lab, NEW fl, NEW e, Annotated(lab, fl, e), EndWhile
  PROVE  \E more, fm : Annotated(more, fm, e)'
<1>1. PICK u : u = Top.uid
  OBVIOUS
<1>2. PICK c : c = code_generator_for_loop_end(u)
  OBVIOUS
<1>3. PICK at : at = Top.at
  OBVIOUS
<1>4. /\ open # <<>> /\ Top.kind = "while" /\ EmitLoopEnd /\ Add("endwhile", "none", at)
      /\ open' = Below
      /\ cond_uid' = cond_uid /\ loop_uid' = loop_uid /\ globals' = globals /\ unique_id' = unique_id
  BY <1>3 DEF EndWhile, CloseUnchanged, TopIs
<1>5. /\ for_open' = for_open - 1
      /\ for_open' = 0 => out' = out \o (print_buffer \o c) /\ print_buffer' = <<>>
      /\ for_open' # 0 => print_buffer' = print_buffer \o c /\ out' = out
  <2>1. PICK d : d = print_buffer \o c
    OBVIOUS
  <2>2. /\ for_open' = for_open - 1
        /\ IF for_open' = 0 THEN out' = out \o d /\ print_buffer' = <<>>
           ELSE print_buffer' = d /\ out' = out
    BY <1>1, <1>2, <1>4, <2>1 DEF EmitLoopEnd, Top
  <2> QED BY <2>1, <2>2
<1>6. SourceOK /\ cond_uid \in Nat /\ loop_uid \in Nat /\ unique_id \in Nat /\ OpenOK /\ OpenOK'
  BY DEF LabelInv
<1>7. u \in Nat /\ at \in Nat
  BY <1>1, <1>3, <1>4, <1>6, TopFacts
<1>8. Grown("endwhile", "none")
  BY <1>4, <1>6, <1>7, SourceGrows DEF Kinds
<1>9. Defined' = Defined /\ Known' = Known
  BY <1>8, GrownDefined
<1>10. /\ Typed(lab, fl) /\ EndOK(e) /\ CodeLeads(lab, fl, e) /\ e \in Facts /\ e.shape = "body"
       /\ e.bound = unique_id /\ Sure(Len(open)) \subseteq e.must
       /\ \A k \in 1..Len(open) : Pending(k, lab, fl)
  BY DEF Annotated, EndOK
<1>11. PICK n : PoppedTo(n)
  <2>1. Top.kind # "func"
    BY <1>4
  <2> QED BY <1>4, <2>1, PopFacts
<1>12. /\ BlocksStay(n) /\ n \in Nat /\ n + 1 = Len(open) /\ n + 1 \in 1..Len(open) /\ (n + 1) - 1 = n
       /\ Len(open') = n /\ Top = open[n + 1] /\ InFunction' = InFunction /\ Sure(Len(open))' = Sure(n)
       /\ Sure(n) \subseteq Sure(Len(open)) /\ (\A k \in 1..n : open'[k] = open[k])
  BY <1>11 DEF PoppedTo
<1>13. \A name \in {"FOR", "FOR_END"} : JoinsInLoop(fl, Label(name, u))
  <2>1. PICK m : m = n + 1
    OBVIOUS
  <2>2. open[m].uid = u /\ open[m].kind = "while" /\ Pending(m, lab, fl)
    BY <1>1, <1>4, <1>10, <1>12, <2>1, Zenon
  <2> QED BY <2>2, PendingMeans
<1>14. UidsGrow
  BY <1>4, <1>6 DEF UidsGrow
<1>15. EndOK(e)'
  <2>1. e.fn = InFunction'
    BY <1>10, <1>12, Zenon DEF EndOK
  <2>2. Sure(Len(open))' \subseteq e.must /\ e.bound = unique_id'
    BY <1>4, <1>10, <1>12
  <2> QED BY <1>10, <2>1, <2>2, Zenon DEF EndOK
<1>16. ASSUME NEW k \in 1..n, open[k].kind = "if" PROVE Label("IF_END", open[k].uid) \notin DOMAIN lab \union DOMAIN fl
  <2>1. Pending(k, lab, fl)
    BY <1>10, <1>12
  <2> QED BY <1>16, <2>1, PendingMeans
<1>17. PICK L : L = FlatLab(fl, e)
  OBVIOUS
<1>18. /\ DOMAIN L = DOMAIN fl /\ \A l \in DOMAIN fl : L[l] = At(e, fl[l]) /\ L[l] \in Facts
       /\ \A name \in {"FOR", "FOR_END"} : Label(name, u) \in DOMAIN L /\ L[Label(name, u)] = e
  <2>1. At(e, "body") = e
    BY <1>10, FactFields
  <2>2. DOMAIN L = DOMAIN fl /\ \A l \in DOMAIN fl : L[l] = At(e, fl[l])
    BY <1>17 DEF FlatLab
  <2>3. ASSUME NEW l \in DOMAIN fl PROVE At(e, fl[l]) \in Facts
    BY <1>10, FactFields DEF Typed
  <2> QED BY <1>13, <2>1, <2>2, <2>3 DEF JoinsInLoop
<1>19. Leads(out, Boot, e, lab, Facts) /\ Leads(print_buffer, e, e, L, Flat(e)) /\ Flat(e) \subseteq Facts
       /\ e \in Flat(e)
  BY <1>10, <1>17, FlatFields, FactFields DEF CodeLeads
<1>20. MoreLabels(lab, lab) /\ MoreLabels(fl, fl) /\ MoreLabels(L, L)
  BY DEF MoreLabels
<1>21. CASE for_open' = 0
  <2>1. \A l \in DOMAIN L : l \notin DOMAIN lab
    BY <1>10, <1>18 DEF Typed
  <2>2. PICK more : more = Join(lab, L)
    OBVIOUS
  <2>3. DOMAIN more = DOMAIN lab \union DOMAIN L /\ MoreLabels(lab, more) /\ MoreLabels(L, more)
    BY <2>1, <2>2, JoinFacts
  <2>4. PICK fm : fm = [l \in {} |-> l]
    OBVIOUS
  <2>5. DOMAIN fm = {}
    BY <2>4
  <2>6. Leads(print_buffer, e, e, more, Facts)
    BY <1>19, <2>3, LeadsMore
  <2>7. Leads(c, e, e, more, Facts)
    <3>1. \A name \in {"FOR", "FOR_END"} : Label(name, u) \in DOMAIN more /\ more[Label(name, u)] = e
      BY <1>18, <2>3 DEF MoreLabels
    <3> QED BY <1>2, <1>7, <1>10, <3>1, LoopEndLeads
  <2>8. Leads(out, Boot, e, more, Facts)
    BY <1>19, <2>3, LeadsMore
  <2>9. Leads(print_buffer \o c, e, e, more, Facts)
    BY <2>6, <2>7, LeadsConcat
  <2>10. Leads(out \o (print_buffer \o c), Boot, e, more, Facts)
    BY <2>8, <2>9, LeadsConcat
  <2>11. Leads(<<>>, e, e, FlatLab(fm, e), Flat(e))
    BY <1>19, LeadsEmpty
  <2>12. CodeLeads(more, fm, e)'
    BY <1>5, <1>21, <2>10, <2>11 DEF CodeLeads
  <2>13. Typed(more, fm)'
    <3>1. \A l \in DOMAIN more : l \in DOMAIN lab \/ (more[l] \in Facts /\ GivenOut(l)')
      <4>1. \A l \in DOMAIN L : GivenOut(l)'
        BY <1>9, <1>10, <1>14, <1>18, GivenOutKept DEF Typed
      <4> QED BY <1>18, <2>3, <4>1 DEF MoreLabels
    <3>2. \A l \in DOMAIN fm : /\ l \notin DOMAIN more
                               /\ \/ l \in DOMAIN fl /\ fm[l] = fl[l]
                                  \/ fm[l] \in Shapes /\ GivenOut(l)'
      BY <2>5
    <3> QED BY <1>9, <1>10, <1>14, <2>3, <3>1, <3>2, TypedKept
  <2>14. \A k \in 1..n : ~InLoop(k)
    <3>1. OpenOK' /\ for_open' = Cardinality(Loops(open'))
      BY DEF LabelInv, CountOK
    <3>2. IsFiniteSet(Loops(open'))
      <4>1. Loops(open') \subseteq 1..n /\ IsFiniteSet(1..n)
        BY <1>12, FS_Interval DEF Loops
      <4> QED BY <4>1, FS_Subset
    <3>3. Loops(open') = {}
      BY <1>21, <3>1, <3>2, FS_EmptySet
    <3>4. \A j \in 1..n : open[j].kind # "while"
      BY <1>12, <3>3 DEF Loops
    <3>5. \A k \in 1..n : \A j \in 1..k : j \in 1..n
      BY <1>12
    <3> QED BY <3>4, <3>5 DEF InLoop
  <2>15. \A k \in 1..n : open[k].kind = "if" => Label("IF_END", open[k].uid) \notin DOMAIN more \union DOMAIN fm
    BY <1>16, <1>18, <2>3, <2>5
  <2>16. \A k \in (n + 1)..Len(open') : Pending(k, more, fm)'
    BY <1>12
  <2>17. Annotated(more, fm, e)'
    BY <1>6, <1>8, <1>12, <1>15, <2>3, <2>12, <2>13, <2>14, <2>15, <2>16, AnnotatedNext
  <2> QED BY <2>17
<1>22. CASE for_open' # 0
  <2>1. Leads(c, e, e, L, Flat(e))
    BY <1>2, <1>7, <1>10, <1>18, <1>19, LoopEndLeads
  <2>2. Leads(print_buffer \o c, e, e, FlatLab(fl, e), Flat(e))
    BY <1>17, <1>19, <2>1, LeadsConcat
  <2>3. CodeLeads(lab, fl, e)'
    BY <1>5, <1>19, <1>22, <2>2 DEF CodeLeads
  <2>4. Typed(lab, fl)'
    BY <1>9, <1>10, <1>14, <1>20, TypedKept DEF Typed
  <2>5. \A k \in (n + 1)..Len(open') : Pending(k, lab, fl)'
    BY <1>12
  <2>6. Annotated(lab, fl, e)'
    BY <1>6, <1>8, <1>12, <1>15, <1>16, <1>20, <2>3, <2>4, <2>5, AnnotatedNext
  <2> QED BY <2>6
<1> QED BY <1>21, <1>22

\* Without a clash of names, the labels of a new function are new.
LEMMA FunctionNew ==
  ASSUME SourceOK, NEW f \in Functions, f \notin Defined, Known' = Known \union {f}, ~NameClash'
  PROVE  /\ ~GivenOut(Label("FUNCTION", f)) /\ ~GivenOut(Label("FUNCTION", EndName[f]))
         /\ GivenOut(Label("FUNCTION", f))' /\ GivenOut(Label("FUNCTION", EndName[f]))'
         /\ Label("FUNCTION", f) # Label("FUNCTION", EndName[f])
<1>1. Known \subseteq Names /\ f \in Names /\ f \notin Known
  BY DefinedAre, NotKnown
<1>2. \A g \in Names : EndName[f] = EndName[g] => f = g
  BY <1>1, LabelsAre, ControlFlowAssumption
<1>3. \A g \in Known' : EndName[g] \notin Known'
  BY DEF NameClash
<1>4. ~GivenOut(Label("FUNCTION", f)) /\ ~GivenOut(Label("FUNCTION", EndName[f]))
  BY <1>1, <1>2, <1>3, GivenOutIs
<1>5. GivenOut(Label("FUNCTION", f))' /\ GivenOut(Label("FUNCTION", EndName[f]))'
  BY GivenOutNext
<1>6. f # EndName[f]
  BY <1>3
<1> QED BY <1>4, <1>5, <1>6, LabelEq

LEMMA FuncAnnotated ==
  ASSUME LabelInv, LabelInv', NEW lab, NEW fl, NEW e, Annotated(lab, fl, e), NEW f \in Functions, func(f), ~NameClash'
  PROVE  \E more, b : Annotated(more, fl, b)'
<1>1. PICK v : v = Var("LF", "var", unique_id)
  OBVIOUS
<1>2. PICK blk : blk = Block("func", 0, IF Params[f] = 0 THEN {} ELSE {v})
  OBVIOUS
<1>3. PICK head : head = code_generator_function_label(f)
  OBVIOUS
<1>4. PICK param : param = IF Params[f] = 0 THEN <<>> ELSE code_generator_param_map(v)
  OBVIOUS
<1>5. /\ open = <<>> /\ f \notin Defined /\ Emit(head \o param, for_open) /\ open' = <<blk>>
      /\ unique_id' = unique_id + Params[f] /\ Add("func", f, 0)
      /\ globals' = globals /\ cond_uid' = cond_uid /\ loop_uid' = loop_uid
  BY <1>1, <1>2, <1>3, <1>4 DEF func
<1>6. SourceOK /\ cond_uid \in Nat /\ loop_uid \in Nat /\ unique_id \in Nat /\ OpenOK /\ OpenOK'
  BY DEF LabelInv
<1>7. Grown("func", f)
  BY <1>5, <1>6, SourceGrows, 0 \in Nat DEF Kinds
<1>8. Defined' = Defined \union {f} /\ Known' = Known \union {f} /\ Here \in Nat /\ Here = Len(source')
  BY <1>7, GrownDefined
<1>9. /\ Typed(lab, fl) /\ EndOK(e) /\ CodeLeads(lab, fl, e) /\ e \in Facts /\ e.shape = "body"
      /\ e.bound = unique_id /\ Sure(Len(open)) \subseteq e.must
  BY DEF Annotated, EndOK
<1>10. Params[f] \in {0, 1} /\ EntryOf(f) \in Facts
  BY ParamsAre
<1>11. Len(open) = 0 /\ InFunction = FALSE /\ for_open = 0 /\ print_buffer = <<>>
  <2>1. Len(open) = 0
    BY <1>5
  <2>2. for_open = 0 /\ print_buffer = <<>>
    BY <2>1, LoopsOpen
  <2>3. InFunction = FALSE
    BY <1>5 DEF InFunction
  <2> QED BY <2>1, <2>2, <2>3
<1>12. globals \subseteq e.must
  BY <1>9, <1>11 DEF Sure
<1>13. e.fn = FALSE
  BY <1>9, <1>11, Zenon DEF EndOK
<1>14. IsVar(v) /\ v \in Variables /\ v.frame = "LF" /\ v.id[2] = unique_id
  BY <1>1, <1>6, NewVarFields
<1>15. blk \in Blocks /\ blk.kind = "func" /\ blk.at = Here /\ blk.declared = IF Params[f] = 0 THEN {} ELSE {v}
  BY <1>2, <1>8, <1>14 DEF Block, Blocks
<1>16. Len(open') = 1 /\ open'[1] = blk
  BY <1>5
<1>17. InFunction' = TRUE
  BY <1>5, <1>15, <1>16 DEF InFunction
<1>18. CurrentFunction' = f
  BY <1>7, <1>8, <1>15, <1>16 DEF CurrentFunction, Grown
<1>19. Sure(Len(open))' = blk.declared
  BY <1>16, <1>17 DEF Sure
<1>20. PICK l : l = Label("FUNCTION", f)
  OBVIOUS
<1>21. PICK q : q = Label("FUNCTION", EndName[f])
  OBVIOUS
<1>22. ~GivenOut(l) /\ ~GivenOut(q) /\ GivenOut(l)' /\ GivenOut(q)' /\ l # q
  BY <1>5, <1>6, <1>8, <1>20, <1>21, FunctionNew
<1>23. l \notin DOMAIN lab \union DOMAIN fl /\ q \notin DOMAIN lab \union DOMAIN fl
  BY <1>9, <1>22 DEF Typed
<1>24. PICK g : Added(lab, l, EntryOf(f), g)
  BY <1>23, AddOne
<1>25. PICK more : Added(g, q, e, more)
  <2>1. q \notin DOMAIN g
    BY <1>22, <1>23, <1>24 DEF Added
  <2> QED BY <2>1, AddOne
<1>26. /\ MoreLabels(lab, more) /\ DOMAIN more = DOMAIN lab \union {l, q} /\ more[l] = EntryOf(f) /\ more[q] = e
  BY <1>24, <1>25 DEF Added, MoreLabels
<1>27. Typed(more, fl)'
  <2>1. UidsGrow /\ Known \subseteq Known'
    BY <1>5, <1>6, <1>8 DEF UidsGrow
  <2>2. \A k \in DOMAIN more : k \in DOMAIN lab \/ (more[k] \in Facts /\ GivenOut(k)')
    BY <1>9, <1>10, <1>22, <1>26
  <2>3. \A k \in DOMAIN fl : /\ k \notin DOMAIN more
                             /\ \/ k \in DOMAIN fl /\ fl[k] = fl[k]
                                \/ fl[k] \in Shapes /\ GivenOut(k)'
    BY <1>9, <1>23, <1>26 DEF Typed
  <2>4. \A h \in Defined' : h \in Defined \/ (/\ Label("FUNCTION", h) \in DOMAIN more
                                              /\ more[Label("FUNCTION", h)] = EntryOf(h))
    BY <1>8, <1>20, <1>26
  <2> QED BY <1>9, <1>26, <2>1, <2>2, <2>3, <2>4, TypedKept
<1>28. PICK b : b = Body(TRUE, blk.declared, unique_id')
  OBVIOUS
<1>29. b \in Facts /\ b.shape = "body" /\ b.fn = TRUE /\ b.must = blk.declared /\ b.bound = unique_id'
  <2>1. blk.declared \in SUBSET Variables /\ unique_id' \in Nat
    BY <1>14, <1>15, LabelInv' DEF LabelInv
  <2>2. PICK d, n : d = blk.declared /\ n = unique_id'
    OBVIOUS
  <2>3. d \in SUBSET Variables /\ n \in Nat /\ b = Body(TRUE, d, n)
    BY <1>28, <2>1, <2>2
  <2>4. b \in Facts /\ b.shape = "body" /\ b.fn = TRUE /\ b.must = d /\ b.bound = n
    <3>1. /\ Body(TRUE, d, n) \in Facts /\ Body(TRUE, d, n).shape = "body" /\ Body(TRUE, d, n).fn = TRUE
          /\ Body(TRUE, d, n).must = d /\ Body(TRUE, d, n).bound = n
      BY <2>3 DEF Body, Facts, Shapes
    <3> QED BY <2>3, <3>1
  <2> QED BY <2>2, <2>4
<1>30. Same(e, more[q])
  BY <1>9, <1>26, WeakerTrans
<1>31. Leads(head \o param, e, b, more, Facts)
  <2>1. CASE Params[f] = 0
    <3>1. b.must = {} /\ b.shape = "body" /\ EntryOf(f).shape = "enter0"
      BY <1>15, <1>29, <2>1 DEF EntryOf
    <3>2. Leads(head, e, b, more, Facts)
      BY <1>3, <1>9, <1>10, <1>20, <1>21, <1>26, <1>29, <1>30, <3>1, EntryIs, LabelsAre, FunctionLabelLeads
    <3>3. Leads(<<>>, b, b, more, Facts) /\ param = <<>>
      BY <1>4, <1>29, <2>1, LeadsEmpty
    <3>4. Leads(param, b, b, more, Facts)
      BY <3>3
    <3> QED BY <3>2, <3>4, LeadsConcat
  <2>2. CASE Params[f] = 1
    <3>1. PICK a : a = [shape |-> "arg", fn |-> TRUE, must |-> {}, bound |-> unique_id]
      OBVIOUS
    <3>2. a \in Facts /\ a.shape = "arg" /\ a.fn = TRUE /\ a.must = {} /\ a.bound = unique_id
      BY <1>6, <3>1 DEF Facts, Shapes
    <3>3. EntryOf(f).shape = "enter1"
      BY <2>2 DEF EntryOf
    <3>4. Leads(head, e, a, more, Facts)
      BY <1>3, <1>9, <1>10, <1>20, <1>21, <1>26, <1>30, <3>2, <3>3, EntryIs, LabelsAre, FunctionLabelLeads
    <3>5. a.bound <= v.id[2]
      BY <1>6, <1>14, <3>2
    <3>6. Leads(code_generator_param_map(v), a, Body(TRUE, {v}, v.id[2] + 1), more, Facts)
      BY <1>14, <3>2, <3>5, ParamLeads
    <3>7. b = Body(TRUE, {v}, v.id[2] + 1)
      BY <1>5, <1>14, <1>15, <1>28, <2>2
    <3>8. Leads(param, a, b, more, Facts)
      <4>1. param = code_generator_param_map(v)
        BY <1>4, <2>2
      <4> QED BY <3>6, <3>7, <4>1
    <3> QED BY <3>4, <3>8, LeadsConcat
  <2> QED BY <1>10, <2>1, <2>2
<1>32. CodeLeads(more, fl, b)'
  BY <1>5, <1>9, <1>11, <1>26, <1>29, <1>31, EmitStraight
<1>33. EndOK(b)'
  <2>1. b.fn = InFunction'
    BY <1>17, <1>29, Zenon
  <2>2. Sure(Len(open))' \subseteq b.must
    BY <1>19, <1>29
  <2> QED BY <1>29, <2>1, <2>2, Zenon DEF EndOK
<1>34. unique_id' \in Nat /\ unique_id <= unique_id'
  BY <1>5, <1>6, <1>10
<1>35. BlocksStay(0)
  BY <1>6, <1>11, <1>16, <1>34 DEF BlocksStay
<1>36. ASSUME NEW k \in (0 + 1)..Len(open') PROVE Pending(k, more, fl)'
  <2>1. k = 1 /\ open'[k].kind = "func"
    BY <1>15, <1>16
  <2>2. Joins(more, q, FALSE, globals)'
    BY <1>5, <1>9, <1>12, <1>13, <1>26, <1>34 DEF Joins
  <2>3. Joins(more, Label("FUNCTION", EndName[CurrentFunction]), FALSE, globals)'
    BY <1>18, <1>21, <2>2 DEF Joins
  <2> QED BY <2>1, <2>3 DEF Pending
<1>37. Annotated(more, fl, b)'
  BY <1>6, <1>7, <1>26, <1>27, <1>32, <1>33, <1>35, <1>36, AnnotatedNext
<1> QED BY <1>37

LEMMA EndFuncAnnotated ==
  ASSUME LabelInv, LabelInv', NEW lab, NEW fl, NEW e, Annotated(lab, fl, e), EndFunc
  PROVE  \E b : Annotated(lab, fl, b)'
<1>1. PICK f : f = CurrentFunction
  OBVIOUS
<1>2. PICK at : at = Top.at
  OBVIOUS
<1>3. PICK code : code = code_generator_function_end(f, Here)
  OBVIOUS
<1>4. /\ open # <<>> /\ Top.kind = "func" /\ Emit(code, for_open) /\ open' = <<>> /\ Add("endfunc", "none", at)
      /\ cond_uid' = cond_uid /\ loop_uid' = loop_uid /\ globals' = globals /\ unique_id' = unique_id
  BY <1>1, <1>2, <1>3 DEF EndFunc, CloseUnchanged, TopIs
<1>5. SourceOK /\ cond_uid \in Nat /\ loop_uid \in Nat /\ unique_id \in Nat /\ OpenOK /\ OpenOK'
  BY DEF LabelInv
<1>6. at \in Nat /\ Len(open) \in 1..Len(open) /\ Top = open[Len(open)]
  BY <1>2, <1>4, <1>5, TopFacts
<1>7. Grown("endfunc", "none")
  BY <1>4, <1>5, <1>6, SourceGrows DEF Kinds
<1>8. Defined' = Defined /\ Known' = Known /\ Here \in Nat
  BY <1>7, GrownDefined
<1>9. /\ Typed(lab, fl) /\ EndOK(e) /\ CodeLeads(lab, fl, e) /\ e \in Facts /\ e.shape = "body"
      /\ e.bound = unique_id /\ \A k \in 1..Len(open) : Pending(k, lab, fl)
  BY DEF Annotated, EndOK
<1>10. Len(open) = 1 /\ open[1].kind = "func" /\ open[1].at \in 1..Len(source)
         /\ source[open[1].at].kind = "func"
  BY <1>4, <1>5, <1>6 DEF OpenOK
<1>11. f \in Functions
  BY <1>1, <1>5, <1>10 DEF CurrentFunction, SourceOK
<1>12. for_open = 0 /\ print_buffer = <<>>
  <2>1. \A k \in 1..Len(open) : open[k].kind # "while"
    BY <1>10
  <2> QED BY <2>1, LoopsOpen
<1>13. e.fn
  <2>1. InFunction
    BY <1>4, <1>10 DEF InFunction
  <2> QED BY <1>9, <2>1, Zenon DEF EndOK
<1>14. PICK q : q = Label("FUNCTION", EndName[f])
  OBVIOUS
<1>15. Joins(lab, q, FALSE, globals)
  <2>1. Pending(1, lab, fl)
    BY <1>9, <1>10
  <2> QED BY <1>1, <1>10, <1>14, <2>1 DEF Pending
<1>16. /\ q \in DOMAIN lab /\ lab[q] \in Facts /\ lab[q].shape = "body" /\ lab[q].fn = FALSE
       /\ globals \subseteq lab[q].must /\ lab[q].bound <= unique_id
  BY <1>9, <1>15 DEF Joins, Typed
<1>17. PICK b : b = Body(FALSE, lab[q].must, unique_id)
  OBVIOUS
<1>18. b \in Facts /\ b.shape = "body" /\ b.fn = FALSE /\ b.must = lab[q].must /\ b.bound = unique_id
  <2>1. lab[q].must \in SUBSET Variables
    BY <1>16, FactFields
  <2>2. PICK fn \in BOOLEAN : fn = FALSE
    OBVIOUS
  <2>3. b = Body(fn, lab[q].must, unique_id)
    BY <1>17, <2>2
  <2> QED BY <1>5, <2>1, <2>2, <2>3, BodyFields
<1>19. Same(lab[q], b)
  <2>1. lab[q].fn = b.fn
    BY <1>16, <1>18, Zenon
  <2>2. b.must \subseteq lab[q].must /\ lab[q].bound <= b.bound
    BY <1>16, <1>18
  <2> QED BY <1>16, <1>18, <2>1, <2>2, Zenon DEF Same, Weaker
<1>20. Leads(code, e, b, lab, Facts)
  BY <1>3, <1>8, <1>9, <1>11, <1>13, <1>14, <1>16, <1>18, <1>19, LabelsAre, FunctionEndLeads
<1>21. MoreLabels(lab, lab) /\ MoreLabels(fl, fl)
  BY DEF MoreLabels
<1>22. CodeLeads(lab, fl, b)'
  BY <1>4, <1>9, <1>12, <1>18, <1>20, <1>21, EmitStraight
<1>23. UidsGrow
  BY <1>4, <1>5 DEF UidsGrow
<1>24. Typed(lab, fl)'
  BY <1>8, <1>9, <1>21, <1>23, TypedKept DEF Typed
<1>25. Len(open') = 0 /\ InFunction' = FALSE
  <2>1. InFunction' = FALSE
    BY <1>4 DEF InFunction
  <2> QED BY <1>4, <2>1
<1>26. EndOK(b)'
  <2>1. b.fn = InFunction'
    BY <1>18, <1>25, Zenon
  <2>2. Sure(Len(open))' \subseteq b.must /\ b.bound = unique_id'
    BY <1>4, <1>16, <1>18, <1>25 DEF Sure
  <2> QED BY <1>18, <2>1, <2>2, Zenon DEF EndOK
<1>27. BlocksStay(0)
  BY <1>4, <1>5, <1>10, <1>25 DEF BlocksStay
<1>28. \A k \in (0 + 1)..Len(open') : Pending(k, lab, fl)'
  BY <1>25
<1>29. Annotated(lab, fl, b)'
  BY <1>5, <1>7, <1>21, <1>22, <1>24, <1>26, <1>27, <1>28, AnnotatedNext
<1> QED BY <1>29

\* The whole output leads to e, and a function is entered as EntryOf says.
Loaded(lab, e) ==
  /\ Leads(out, Boot, e, lab, Facts)
  /\ \A l \in DOMAIN lab : lab[l] \in Facts
  /\ \A f \in Defined : Label("FUNCTION", f) \in DOMAIN lab /\ lab[Label("FUNCTION", f)] = EntryOf(f)

LEMMA EofLoaded ==
  ASSUME LabelInv, NEW lab, NEW fl, NEW e, Annotated(lab, fl, e), Eof
  PROVE  \E more : Loaded(more, e)'
<1>1. PICK code : code = <<InstrAt("LABEL", Label("EOF", 0), Here)>>
  OBVIOUS
<1>2. open = <<>> /\ Emit(code, for_open) /\ Add("eof", "none", 0)
  BY <1>1 DEF Eof
<1>3. SourceOK
  BY DEF LabelInv
<1>4. Grown("eof", "none")
  BY <1>2, <1>3, SourceGrows DEF Kinds
<1>5. Defined' = Defined /\ Known' = Known /\ Here \in Nat
  BY <1>4, GrownDefined
<1>6. Typed(lab, fl) /\ CodeLeads(lab, fl, e) /\ e \in Facts
  BY DEF Annotated, EndOK
<1>7. PICK l : l = Label("EOF", 0)
  OBVIOUS
<1>8. l \notin DOMAIN lab /\ l \in LabelSet
  BY <1>6, <1>7, GivenOutIs, LabelsAre DEF Typed, LabelNames
<1>9. PICK more : Added(lab, l, e, more)
  BY <1>8, AddOne
<1>10. MoreLabels(lab, more) /\ DOMAIN more = DOMAIN lab \union {l} /\ more[l] = e
  BY <1>9 DEF Added
<1>11. Same(e, e)
  BY <1>6, WeakerTrans
<1>12. Leads(code, e, e, more, Facts)
  BY <1>1, <1>5, <1>6, <1>7, <1>8, <1>10, <1>11, LeadsLabel
<1>13. for_open = 0 /\ print_buffer = <<>>
  <2>1. Len(open) = 0
    BY <1>2
  <2> QED BY <2>1, LoopsOpen
<1>14. CodeLeads(more, fl, e)'
  BY <1>2, <1>6, <1>10, <1>12, <1>13, EmitStraight
<1>15. Leads(out', Boot, e, more, Facts)
  BY <1>14 DEF CodeLeads
<1>16. \A k \in DOMAIN more : more[k] \in Facts
  BY <1>6, <1>10 DEF Typed, MoreLabels
<1>17. \A f \in Defined : Label("FUNCTION", f) \in DOMAIN more /\ more[Label("FUNCTION", f)] = EntryOf(f)
  BY <1>6, <1>10 DEF Typed, MoreLabels
<1>18. Loaded(more, e)'
  BY <1>5, <1>15, <1>16, <1>17 DEF Loaded
<1> QED BY <1>18

-----------------------------------------------------------------------------
(* The variables and the calls of the program.                             *)

LEMMA VarsKept ==
  ASSUME VarsOK,
         \A v \in globals' : v \in globals \/ (IsVar(v) /\ v.frame = "GF"),
         \A k \in 1..Len(open') : \A v \in open'[k].declared :
           IsVar(v) \/ \E j \in 1..Len(open) : v \in open[j].declared
  PROVE  VarsOK'
BY DEF VarsOK

LEMMA VarsStep ==
  ASSUME LabelInv, LabelInv', VarsOK, Next
  PROVE  VarsOK'
<1>1. OpenOK /\ open \in Seq(Blocks) /\ Len(open) \in Nat /\ unique_id \in Nat
  BY DEF LabelInv, OpenOK
<1>2. ASSUME open' = open, globals' = globals PROVE VarsOK'
  BY <1>2 DEF VarsOK
<1>3. ASSUME NEW fr \in {"GF", "LF"}
      PROVE  /\ IsVar(Var(fr, "var", unique_id)) /\ Var(fr, "var", unique_id) \in Variables
             /\ Var(fr, "var", unique_id).frame = fr
  BY <1>1, NewVarFields
<1>4. ASSUME globals' = globals, NEW b \in Blocks, open' = Append(open, b), \A v \in b.declared : IsVar(v)
      PROVE  VarsOK'
  <2>1. Appended(open', open, b)
    BY <1>1, <1>4, AppendFacts
  <2>2. \A k \in 1..Len(open') : open'[k] = b \/ (k \in 1..Len(open) /\ open'[k] = open[k])
    BY <2>1 DEF Appended
  <2> QED BY <1>4, <2>2, VarsKept
<1>5. ASSUME globals' = globals, open # <<>>, open' = Below PROVE VarsOK'
  <2>1. Appended(open, Below, Top)
    BY <1>1, <1>5, TopFacts
  <2>2. \A k \in 1..Len(open') : k \in 1..Len(open) /\ open'[k] = open[k]
    BY <1>5, <2>1 DEF Appended
  <2> QED BY <1>5, <2>2, VarsKept
<1>6. CASE define
  <2>1. PICK v : v = NewVar
    OBVIOUS
  <2>2. IsVar(v) /\ v \in Variables /\ (open = <<>> => v.frame = "GF")
    BY <1>3, <2>1 DEF NewVar
  <2>3. /\ unique_id' = unique_id + 1
        /\ open = <<>> => globals' = globals \union {v} /\ open' = open
        /\ open # <<>> => open' = Declared(v) /\ globals' = globals
    BY <1>6, <2>1 DEF define
  <2>4. /\ Len(open') = Len(open)
        /\ globals' \subseteq globals \union {v} /\ (open # <<>> => globals' = globals)
        /\ \A k \in 1..Len(open) : open'[k].declared \subseteq open[k].declared \union {v}
    BY <2>2, <2>3, DeclaredBlocks
  <2>5. \A x \in globals' : x \in globals \/ (IsVar(x) /\ x.frame = "GF")
    BY <2>2, <2>4
  <2> QED BY <2>2, <2>4, <2>5, VarsKept
<1>7. ASSUME NEW nils \in 0..1, while(nils) PROVE VarsOK'
  <2>1. PICK b : b = Block("while", loop_uid, {})
    OBVIOUS
  <2>2. open' = Append(open, b) /\ globals' = globals /\ Add("while", "none", 0)
    BY <1>7, <2>1 DEF while
  <2>3. SourceOK /\ loop_uid \in Nat
    BY DEF LabelInv
  <2>4. Grown("while", "none")
    BY <2>2, <2>3, SourceGrows, 0 \in Nat DEF Kinds
  <2>5. Here \in Nat
    BY <2>4, GrownDefined
  <2>6. b \in Blocks /\ b.declared = {}
    BY <2>1, <2>3, <2>5 DEF Block, Blocks
  <2> QED BY <1>4, <2>2, <2>6
<1>8. ASSUME NEW nils \in 0..1, NEW let \in BOOLEAN, if(nils, let) PROVE VarsOK'
  <2>1. PICK u : u = UidAfter(nils)
    OBVIOUS
  <2>2. PICK v : v = Var("LF", "var", unique_id)
    OBVIOUS
  <2>3. PICK b : b = Block("if", u, IF let THEN {v} ELSE {})
    OBVIOUS
  <2>4. open' = Append(open, b) /\ globals' = globals /\ Add("if", "none", 0)
    BY <1>8, <2>1, <2>2, <2>3 DEF if
  <2>5. SourceOK /\ cond_uid \in Nat /\ u \in Nat
    BY <2>1 DEF LabelInv, UidAfter
  <2>6. Grown("if", "none")
    BY <2>4, <2>5, SourceGrows, 0 \in Nat DEF Kinds
  <2>7. Here \in Nat
    BY <2>6, GrownDefined
  <2>8. IsVar(v) /\ v \in Variables
    BY <1>3, <2>2
  <2>9. b \in Blocks /\ b.declared = IF let THEN {v} ELSE {}
    BY <2>3, <2>5, <2>7, <2>8 DEF Block, Blocks
  <2>10. \A x \in b.declared : IsVar(x)
    BY <2>8, <2>9
  <2> QED BY <1>4, <2>4, <2>9, <2>10
<1>9. CASE else
  <2>1. PICK b : b = [Top EXCEPT !.kind = "else", !.declared = {}]
    OBVIOUS
  <2>2. open # <<>> /\ open' = Append(Below, b) /\ globals' = globals
    BY <1>9, <2>1 DEF else, TopIs, CloseUnchanged
  <2>3. Top \in Blocks /\ Below \in Seq(Blocks) /\ Appended(open, Below, Top)
    BY <1>1, <2>2, TopFacts
  <2>4. b \in Blocks /\ b.declared = {}
    BY <2>1, <2>3 DEF Blocks
  <2>5. Appended(open', Below, b)
    BY <2>2, <2>3, <2>4, AppendFacts
  <2>6. \A k \in 1..Len(open') : open'[k] = b \/ (k \in 1..Len(open) /\ open'[k] = open[k])
    BY <2>3, <2>5 DEF Appended
  <2> QED BY <2>2, <2>4, <2>6, VarsKept
<1>10. CASE EndIf \/ EndWhile
  BY <1>5, <1>10 DEF EndIf, EndWhile, TopIs, CloseUnchanged
<1>11. CASE EndFunc
  <2>1. open' = <<>> /\ globals' = globals
    BY <1>11 DEF EndFunc, CloseUnchanged
  <2>2. Len(open') = 0
    BY <2>1
  <2> QED BY <2>1, <2>2, VarsKept
<1>12. ASSUME NEW f \in Functions, func(f) PROVE VarsOK'
  <2>1. PICK v : v = Var("LF", "var", unique_id)
    OBVIOUS
  <2>2. PICK b : b = Block("func", 0, IF Params[f] = 0 THEN {} ELSE {v})
    OBVIOUS
  <2>3. open' = <<b>> /\ globals' = globals
    BY <1>12, <2>1, <2>2 DEF func
  <2>4. IsVar(v) /\ b.declared \subseteq {v}
    BY <1>3, <2>1, <2>2 DEF Block
  <2>5. Len(open') = 1 /\ open'[1] = b
    BY <2>3
  <2>6. \A k \in 1..Len(open') : open'[k] = b
    BY <2>5
  <2> QED BY <2>3, <2>4, <2>6, VarsKept
<1>13. CASE \/ \E var \in Visible : assign(var)
            \/ \E f \in Functions : call(f)
            \/ return \/ Eof \/ Load
            \/ Machine /\ UNCHANGED <<parserVars, generatorVars, phase>>
  BY <1>2, <1>13 DEF assign, call, return, Eof, Load, parserVars
<1> QED BY <1>6, <1>7, <1>8, <1>9, <1>10, <1>11, <1>12, <1>13 DEF Next

\* Instructions that call functions of F only.
Calling(F) == {x \in Codes : x.op = "CALL" => \E f \in F : x.arg = Label("FUNCTION", f)}

\* Only functions the program calls are called by the output; other than jumps,
\* calls never go to the label that ends a function.
CallsKnown == out \in Seq(Calling(Called)) /\ print_buffer \in Seq(Calling(Called))

LEMMA CallingGrows ==
  ASSUME NEW F, NEW G, F \subseteq G, NEW c \in Seq(Calling(F))
  PROVE  c \in Seq(Calling(G))
<1>1. Calling(F) \subseteq Calling(G)
  BY DEF Calling
<1> QED BY <1>1

LEMMA CallingOne ==
  ASSUME NEW F, NEW x \in Codes, x.op # "CALL"
  PROVE  x \in Calling(F)
BY DEF Calling

LEMMA CallingInstr ==
  ASSUME NEW F, NEW op \in Ops, op # "CALL", NEW arg \in Arguments
  PROVE  /\ Instr(op, arg) \in Calling(F) /\ <<Instr(op, arg)>> \in Seq(Calling(F))
         /\ \A i \in Nat : InstrAt(op, arg, i) \in Calling(F) /\ <<InstrAt(op, arg, i)>> \in Seq(Calling(F))
<1>1. \A i \in Nat : InstrAt(op, arg, i) \in Calling(F)
  BY CodesAre, CallingOne
<1>2. Instr(op, arg) \in Calling(F)
  BY CodesAre, CallingOne
<1> QED BY <1>1, <1>2

LEMMA CallingPart ==
  ASSUME NEW S, NEW c \in Seq(S), NEW d
  PROVE  Part(c, d) \in Seq(S)
<1>1. PICK F : Picks(F, c, S, d) /\ Part(c, d) = F[Len(c)]
  BY PartLoop
<1>2. Len(c) \in 0..Len(c)
  BY LenProperties
<1> QED BY <1>1, <1>2 DEF Picks

LEMMA CallingConcat ==
  ASSUME NEW S, NEW c \in Seq(S), NEW d \in Seq(S)
  PROVE  c \o d \in Seq(S)
BY ConcatProperties

LEMMA EmitCalls ==
  ASSUME CallsKnown, Called \subseteq Called', NEW c \in Seq(Calling(Called')), NEW loops, Emit(c, loops)
  PROVE  CallsKnown'
<1>1. PICK S : S = Calling(Called')
  OBVIOUS
<1>2. out \in Seq(S) /\ print_buffer \in Seq(S) /\ c \in Seq(S)
  BY <1>1, CallingGrows DEF CallsKnown
<1>3. Part(c, TRUE) \in Seq(S) /\ Part(c, FALSE) \in Seq(S)
  BY <1>2, CallingPart
<1>4. /\ out \o c \in Seq(S) /\ out \o Part(c, TRUE) \in Seq(S)
      /\ print_buffer \o Part(c, FALSE) \in Seq(S)
  BY <1>2, <1>3, CallingConcat
<1>5. \/ out' = out \o c /\ print_buffer' = print_buffer
      \/ out' = out \o Part(c, TRUE) /\ print_buffer' = print_buffer \o Part(c, FALSE)
  BY DEF Emit
<1>6. out' \in Seq(S) /\ print_buffer' \in Seq(S)
  BY <1>2, <1>4, <1>5
<1> QED BY <1>1, <1>6 DEF CallsKnown

LEMMA BranchCalls ==
  ASSUME NEW F, NEW u \in Nat
  PROVE  /\ code_generator_if_header(u) \in Seq(Calling(F)) /\ code_generator_if_else(u) \in Seq(Calling(F))
         /\ code_generator_if_end(u) \in Seq(Calling(F)) /\ code_generator_for_label(u) \in Seq(Calling(F))
         /\ code_generator_for_loop_if(u) \in Seq(Calling(F)) /\ code_generator_for_body(u) \in Seq(Calling(F))
         /\ code_generator_for_loop_end(u) \in Seq(Calling(F))
<1>1. ASSUME NEW op \in {"JUMP", "JUMPIFNEQS", "LABEL"}, NEW name \in LabelNames
      PROVE  Instr(op, Label(name, u)) \in Calling(F)
  BY OpsAre, ArgumentsAre, CallingInstr
<1>2. PICK S : S = Calling(F)
  OBVIOUS
<1>3. \A op \in {"JUMP", "JUMPIFNEQS", "LABEL"}, name \in {"ELSE", "IF_END", "FOR", "FOR_BODY", "FOR_END"} :
        Instr(op, Label(name, u)) \in S
  BY <1>1, <1>2 DEF LabelNames
<1>4. /\ code_generator_if_header(u) \in Seq(S) /\ code_generator_if_else(u) \in Seq(S)
      /\ code_generator_if_end(u) \in Seq(S)
  BY <1>3 DEF code_generator_if_header, code_generator_if_else, code_generator_if_end
<1>5. /\ code_generator_for_label(u) \in Seq(S) /\ code_generator_for_loop_if(u) \in Seq(S)
      /\ code_generator_for_body(u) \in Seq(S) /\ code_generator_for_loop_end(u) \in Seq(S)
  BY <1>3 DEF code_generator_for_label, code_generator_for_loop_if, code_generator_for_body,
              code_generator_for_loop_end
<1> QED BY <1>2, <1>4, <1>5

LEMMA FrameCalls ==
  ASSUME NEW F
  PROVE  /\ code_generator_createframe \in Seq(Calling(F)) /\ code_generator_pushframe \in Seq(Calling(F))
         /\ code_generator_popframe \in Seq(Calling(F))
<1>1. "none" \in Arguments
  BY ArgumentsAre
<1> QED BY <1>1, OpsAre, CallingInstr
     DEF code_generator_createframe, code_generator_pushframe, code_generator_popframe

LEMMA DeclareCalls ==
  ASSUME NEW F, NEW v \in Variables
  PROVE  /\ <<Instr("USE", v)>> \in Seq(Calling(F)) /\ code_generator_defvar(v) \in Calling(F)
         /\ code_generator_var_declare(v) \in Seq(Calling(F)) /\ code_generator_param_map(v) \in Seq(Calling(F))
<1>1. v \in Arguments /\ Slot("LF") \in Arguments
  BY ArgumentsAre
<1>2. Instr("USE", v) \in Calling(F) /\ Instr("USE", Slot("LF")) \in Calling(F)
  BY <1>1, OpsAre, CallingInstr
<1>3. code_generator_defvar(v) \in Calling(F)
  BY DefvarCode, CallingOne
<1> QED BY <1>2, <1>3 DEF code_generator_var_declare, code_generator_param_map

LEMMA ExprCalls ==
  ASSUME NEW F, NEW nils \in 0..1, cond_uid \in Nat, Here \in Nat
  PROVE  expr(nils) \in Seq(Calling(F))
<1>1. PICK S : S = Calling(F)
  OBVIOUS
<1>2. <<InstrAt("EVAL", "none", Here)>> \in Seq(S)
  BY <1>1, ArgumentsAre, OpsAre, CallingInstr
<1>3. code_generator_nil_check(cond_uid) \in Seq(S)
  <2>1. PICK a : a = Instr("DEFVAR", Var("LF", "op", 2))
    OBVIOUS
  <2>2. PICK b : b = Instr("USE", Var("LF", "op", 2))
    OBVIOUS
  <2>3. PICK c : c = Instr("DEFVAR", Var("LF", "op", 1))
    OBVIOUS
  <2>4. PICK d : d = Instr("USE", Var("LF", "op", 1))
    OBVIOUS
  <2>5. a \in S /\ b \in S /\ c \in S /\ d \in S
    BY <1>1, <2>1, <2>2, <2>3, <2>4, ArgumentsAre, OpsAre, CallingInstr DEF Op
  <2>6. <<a, b, c, d>> \in Seq(S) /\ <<d>> \in Seq(S) /\ <<b>> \in Seq(S)
    BY <2>5
  <2>7. /\ code_generator_createframe \in Seq(S) /\ code_generator_pushframe \in Seq(S)
        /\ code_generator_popframe \in Seq(S)
    BY <1>1, FrameCalls
  <2>8. /\ code_generator_if_header(cond_uid) \in Seq(S) /\ code_generator_if_else(cond_uid) \in Seq(S)
        /\ code_generator_if_end(cond_uid) \in Seq(S)
    BY <1>1, BranchCalls
  <2>9. code_generator_createframe \o code_generator_pushframe \o <<a, b, c, d>>
          \o code_generator_if_header(cond_uid) \o <<d>> \o code_generator_if_else(cond_uid) \o <<b>>
          \o code_generator_if_end(cond_uid) \o code_generator_popframe \in Seq(S)
    BY <2>6, <2>7, <2>8, CallingConcat
  <2> QED BY <2>1, <2>2, <2>3, <2>4, <2>9 DEF code_generator_nil_check
<1>4. CASE nils = 0
  <2>1. expr(nils) = <<InstrAt("EVAL", "none", Here)>> \o <<>>
    BY <1>4 DEF expr
  <2>2. <<>> \in Seq(S)
    OBVIOUS
  <2> QED BY <1>1, <1>2, <2>1, <2>2, CallingConcat
<1>5. CASE nils # 0
  <2>1. expr(nils) = <<InstrAt("EVAL", "none", Here)>> \o code_generator_nil_check(cond_uid)
    BY <1>5 DEF expr
  <2> QED BY <1>1, <1>2, <1>3, <2>1, CallingConcat
<1> QED BY <1>4, <1>5

LEMMA FunctionCalls ==
  ASSUME NEW F, NEW f \in Names, NEW i \in Nat
  PROVE  /\ code_generator_function_label(f) \in Seq(Calling(F)) /\ code_generator_return(i) \in Seq(Calling(F))
         /\ code_generator_function_end(f, i) \in Seq(Calling(F))
         /\ f \in F => code_generator_function_call(f, i) \in Seq(Calling(F))
<1>1. PICK S : S = Calling(F)
  OBVIOUS
<1>2. /\ code_generator_createframe \in Seq(S) /\ code_generator_pushframe \in Seq(S)
      /\ code_generator_popframe \in Seq(S)
  BY <1>1, FrameCalls
<1>3. PICK a : a = Instr("JUMP", Label("FUNCTION", EndName[f]))
  OBVIOUS
<1>4. PICK b : b = Instr("LABEL", Label("FUNCTION", f))
  OBVIOUS
<1>5. PICK c : c = InstrAt("RETURN", "none", i)
  OBVIOUS
<1>6. PICK d : d = Instr("LABEL", Label("FUNCTION", EndName[f]))
  OBVIOUS
<1>7. a \in S /\ b \in S /\ c \in S /\ d \in S
  BY <1>1, <1>3, <1>4, <1>5, <1>6, ArgumentsAre, OpsAre, CallingInstr
<1>8. <<a, b>> \in Seq(S) /\ <<c>> \in Seq(S) /\ <<d>> \in Seq(S)
  BY <1>7
<1>9. code_generator_function_label(f) \in Seq(S)
  BY <1>2, <1>3, <1>4, <1>8, CallingConcat DEF code_generator_function_label
<1>10. code_generator_return(i) \in Seq(S)
  BY <1>2, <1>5, <1>8, CallingConcat DEF code_generator_return
<1>11. code_generator_function_end(f, i) \in Seq(S)
  BY <1>6, <1>8, <1>10, CallingConcat DEF code_generator_function_end
<1>12. ASSUME f \in F PROVE code_generator_function_call(f, i) \in Seq(S)
  <2>1. PICK x : x = InstrAt("CALL", Label("FUNCTION", f), i)
    OBVIOUS
  <2>2. x \in Codes /\ x.arg = Label("FUNCTION", f)
    BY <2>1, ArgumentsAre, OpsAre, CodesAre
  <2>3. x \in S
    BY <1>1, <1>12, <2>2 DEF Calling
  <2>4. PICK y : y = IF Params[f] = 0 THEN <<>>
                     ELSE <<code_generator_defvar(Slot("TF")), Instr("USE", Slot("TF"))>>
    OBVIOUS
  <2>5. y \in Seq(S)
    <3>1. Slot("TF") \in Variables /\ Slot("TF") \in Arguments
      BY VarsAre, ArgumentsAre
    <3>2. code_generator_defvar(Slot("TF")) \in S /\ Instr("USE", Slot("TF")) \in S
      BY <1>1, <3>1, DeclareCalls, OpsAre, CallingInstr
    <3>3. <<code_generator_defvar(Slot("TF")), Instr("USE", Slot("TF"))>> \in Seq(S) /\ <<>> \in Seq(S)
      BY <3>2
    <3> QED BY <2>4, <3>3
  <2>6. <<x>> \in Seq(S)
    BY <2>3
  <2>7. code_generator_createframe \o y \o <<x>> \in Seq(S)
    BY <1>2, <2>5, <2>6, CallingConcat
  <2> QED BY <2>1, <2>4, <2>7 DEF code_generator_function_call
<1> QED BY <1>1, <1>9, <1>10, <1>11, <1>12

LEMMA PrologCalls ==
  ASSUME NEW F
  PROVE  code_generator_prolog \in Seq(Calling(F))
<1>1. PICK S : S = Calling(F)
  OBVIOUS
<1>2. PICK x : x = Instr("EVAL", "none")
  OBVIOUS
<1>3. <<x>> \in Seq(S)
  BY <1>1, <1>2, ArgumentsAre, OpsAre, CallingInstr
<1>4. ASSUME NEW f \in Builtins PROVE code_generator_builtin(f) \in Seq(S)
  <2>1. code_generator_function_label(f) \in Seq(S) /\ code_generator_function_end(f, 0) \in Seq(S)
    BY <1>1, LabelsAre, FunctionCalls, 0 \in Nat
  <2> QED BY <1>2, <1>3, <2>1, CallingConcat DEF code_generator_builtin
<1>5. code_generator_builtin("ord") \in Seq(S) /\ code_generator_builtin("substring") \in Seq(S)
  BY <1>4 DEF Builtins
<1>6. code_generator_createframe \in Seq(S) /\ code_generator_pushframe \in Seq(S)
  BY <1>1, FrameCalls
<1>7. code_generator_prolog \in Seq(S)
  BY <1>5, <1>6, CallingConcat DEF code_generator_prolog
<1> QED BY <1>1, <1>7

\* A step that adds a statement to the program and prints code without calls.
LEMMA QuietCalls ==
  ASSUME SourceOK, CallsKnown, NEW kind \in Kinds \ {"func", "call"}, NEW head \in Nat, Add(kind, "none", head),
         NEW c, \A F : c \in Seq(Calling(F)), NEW loops, Emit(c, loops)
  PROVE  CallsKnown'
<1>1. Grown(kind, "none")
  BY SourceGrows
<1>2. Called \subseteq Called'
  BY <1>1 DEF Grown
<1> QED BY <1>2, EmitCalls

LEMMA CallsStep ==
  ASSUME LabelInv, CallsKnown, Next
  PROVE  CallsKnown'
<1>1. /\ SourceOK /\ cond_uid \in Nat /\ loop_uid \in Nat /\ unique_id \in Nat /\ OpenOK
      /\ open \in Seq(Blocks) /\ Len(source) \in Nat /\ Here \in Nat
  <2>1. /\ SourceOK /\ cond_uid \in Nat /\ loop_uid \in Nat /\ unique_id \in Nat /\ OpenOK
        /\ Len(source) \in Nat
    BY LenProperties DEF LabelInv, SourceOK
  <2>2. open \in Seq(Blocks) /\ Here \in Nat
    BY <2>1 DEF OpenOK, Here
  <2> QED BY <2>1, <2>2
<1>2. ASSUME NEW fr \in {"GF", "LF"} PROVE Var(fr, "var", unique_id) \in Variables
  BY <1>1, NewVarFields
<1>3. 0 \in Nat /\ {"stmt", "while", "if", "else", "endif", "endwhile", "endfunc", "return", "eof"}
                     \subseteq Kinds \ {"func", "call"}
  BY DEF Kinds
<1>4. CASE define
  <2>1. PICK c : c = expr(0) \o code_generator_var_declare(NewVar)
    OBVIOUS
  <2>2. Emit(c, for_open) /\ Add("stmt", "none", 0)
    BY <1>4, <2>1 DEF define
  <2>3. NewVar \in Variables
    BY <1>2 DEF NewVar
  <2>4. ASSUME NEW F PROVE c \in Seq(Calling(F))
    <3>1. expr(0) \in Seq(Calling(F)) /\ code_generator_var_declare(NewVar) \in Seq(Calling(F))
      BY <1>1, <2>3, ExprCalls, DeclareCalls
    <3> QED BY <2>1, <3>1, CallingConcat
  <2> QED BY <1>1, <1>3, <2>2, <2>4, QuietCalls
<1>5. ASSUME NEW nils \in 0..1, while(nils) PROVE CallsKnown'
  <2>1. PICK c : c = code_generator_for_label(loop_uid) \o expr(nils)
                       \o code_generator_for_loop_if(loop_uid) \o code_generator_for_body(loop_uid)
    OBVIOUS
  <2>2. Emit(c, for_open + 1) /\ Add("while", "none", 0)
    BY <1>5, <2>1 DEF while
  <2>3. ASSUME NEW F PROVE c \in Seq(Calling(F))
    <3>1. /\ expr(nils) \in Seq(Calling(F)) /\ code_generator_for_label(loop_uid) \in Seq(Calling(F))
          /\ code_generator_for_loop_if(loop_uid) \in Seq(Calling(F))
          /\ code_generator_for_body(loop_uid) \in Seq(Calling(F))
      BY <1>1, ExprCalls, BranchCalls
    <3> QED BY <2>1, <3>1, CallingConcat
  <2> QED BY <1>1, <1>3, <2>2, <2>3, QuietCalls
<1>6. ASSUME NEW nils \in 0..1, NEW let \in BOOLEAN, if(nils, let) PROVE CallsKnown'
  <2>1. PICK v : v = Var("LF", "var", unique_id)
    OBVIOUS
  <2>2. PICK u : u = UidAfter(nils)
    OBVIOUS
  <2>3. PICK d : d = IF let THEN code_generator_var_declare(v) ELSE <<>>
    OBVIOUS
  <2>4. PICK c : c = expr(nils) \o d \o code_generator_if_header(u)
    OBVIOUS
  <2>5. Emit(c, for_open) /\ Add("if", "none", 0)
    BY <1>6, <2>1, <2>2, <2>3, <2>4 DEF if
  <2>6. u \in Nat /\ v \in Variables
    BY <1>1, <1>2, <2>1, <2>2 DEF UidAfter
  <2>7. ASSUME NEW F PROVE c \in Seq(Calling(F))
    <3>1. expr(nils) \in Seq(Calling(F)) /\ code_generator_if_header(u) \in Seq(Calling(F))
      BY <1>1, <2>6, ExprCalls, BranchCalls
    <3>2. code_generator_var_declare(v) \in Seq(Calling(F))
      BY <2>6, DeclareCalls
    <3>3. d \in Seq(Calling(F))
      BY <2>3, <3>2
    <3> QED BY <2>4, <3>1, <3>3, CallingConcat
  <2> QED BY <1>1, <1>3, <2>5, <2>7, QuietCalls
<1>7. ASSUME NEW var \in Visible, assign(var) PROVE CallsKnown'
  <2>1. PICK c : c = expr(0) \o <<Instr("USE", var)>>
    OBVIOUS
  <2>2. Emit(c, for_open) /\ Add("stmt", "none", 0)
    BY <1>7, <2>1 DEF assign
  <2>3. var \in Variables
    BY VisibleAre
  <2>4. ASSUME NEW F PROVE c \in Seq(Calling(F))
    <3>1. expr(0) \in Seq(Calling(F)) /\ <<Instr("USE", var)>> \in Seq(Calling(F))
      BY <1>1, <2>3, ExprCalls, DeclareCalls
    <3> QED BY <2>1, <3>1, CallingConcat
  <2> QED BY <1>1, <1>3, <2>2, <2>4, QuietCalls
<1>8. ASSUME open # <<>> PROVE Top.uid \in Nat /\ Top.at \in Nat
  BY <1>1, <1>8, TopFacts, BlockFields
<1>9. CASE else
  <2>1. PICK c : c = code_generator_if_else(Top.uid)
    OBVIOUS
  <2>2. open # <<>> /\ Emit(c, for_open) /\ Add("else", "none", Top.at)
    BY <1>9, <2>1 DEF else, TopIs
  <2>3. \A F : c \in Seq(Calling(F))
    BY <1>8, <2>1, <2>2, BranchCalls
  <2> QED BY <1>1, <1>3, <1>8, <2>2, <2>3, QuietCalls
<1>10. CASE EndIf
  <2>1. PICK c : c = code_generator_if_end(Top.uid)
    OBVIOUS
  <2>2. open # <<>> /\ Emit(c, for_open) /\ Add("endif", "none", Top.at)
    BY <1>10, <2>1 DEF EndIf, TopIs
  <2>3. \A F : c \in Seq(Calling(F))
    BY <1>8, <2>1, <2>2, BranchCalls
  <2> QED BY <1>1, <1>3, <1>8, <2>2, <2>3, QuietCalls
<1>11. CASE EndWhile
  <2>1. open # <<>> /\ EmitLoopEnd /\ Add("endwhile", "none", Top.at)
    BY <1>11 DEF EndWhile, TopIs
  <2>2. Grown("endwhile", "none")
    BY <1>1, <1>3, <1>8, <2>1, SourceGrows
  <2>3. Called \subseteq Called'
    BY <2>2 DEF Grown
  <2>4. PICK S : S = Calling(Called')
    OBVIOUS
  <2>5. out \in Seq(S) /\ print_buffer \in Seq(S) /\ <<>> \in Seq(S)
    BY <2>3, <2>4, CallingGrows DEF CallsKnown
  <2>6. code_generator_for_loop_end(Top.uid) \in Seq(S)
    BY <1>8, <2>1, <2>4, BranchCalls
  <2>7. PICK c : c = print_buffer \o code_generator_for_loop_end(Top.uid)
    OBVIOUS
  <2>8. c \in Seq(S)
    BY <2>5, <2>6, <2>7, CallingConcat
  <2>9. out \o c \in Seq(S)
    BY <2>5, <2>8, CallingConcat
  <2>10. \/ out' = out \o c /\ print_buffer' = <<>>
         \/ print_buffer' = c /\ out' = out
    BY <2>1, <2>7 DEF EmitLoopEnd, Top
  <2>11. out' \in Seq(S) /\ print_buffer' \in Seq(S)
    BY <2>5, <2>8, <2>9, <2>10
  <2> QED BY <2>4, <2>11 DEF CallsKnown
<1>12. CASE EndFunc
  <2>1. PICK c : c = code_generator_function_end(CurrentFunction, Here)
    OBVIOUS
  <2>2. open # <<>> /\ Top.kind = "func" /\ Emit(c, for_open) /\ Add("endfunc", "none", Top.at)
    BY <1>12, <2>1 DEF EndFunc, TopIs
  <2>3. CurrentFunction \in Functions
    <3>1. Len(open) \in 1..Len(open) /\ Top = open[Len(open)]
      BY <1>1, <2>2, TopFacts
    <3>2. Len(open) = 1 /\ open[1].at \in 1..Len(source) /\ source[open[1].at].kind = "func"
      BY <1>1, <2>2, <3>1 DEF OpenOK
    <3> QED BY <1>1, <3>2 DEF CurrentFunction, SourceOK
  <2>4. \A F : c \in Seq(Calling(F))
    BY <1>1, <2>1, <2>3, LabelsAre, FunctionCalls
  <2> QED BY <1>1, <1>3, <1>8, <2>2, <2>4, QuietCalls
<1>13. CASE return
  <2>1. PICK c : c = code_generator_return(Here)
    OBVIOUS
  <2>2. open # <<>> /\ open[1].kind = "func" /\ Emit(c, for_open) /\ Add("return", "none", 0)
    BY <1>13, <2>1 DEF return, InFunction
  <2>3. \A F : c \in Seq(Calling(F))
    <3>1. Len(open) \in Nat /\ Len(open) # 0
      BY <1>1, <2>2, EmptySeq
    <3>2. 1 \in 1..Len(open)
      BY <3>1
    <3>3. source[open[1].at].f \in Functions
      BY <1>1, <2>2, <3>2 DEF OpenOK, SourceOK
    <3> QED BY <1>1, <2>1, <3>3, LabelsAre, FunctionCalls
  <2> QED BY <1>1, <1>3, <2>2, <2>3, QuietCalls
<1>14. CASE Eof
  <2>1. PICK c : c = <<InstrAt("LABEL", Label("EOF", 0), Here)>>
    OBVIOUS
  <2>2. Emit(c, for_open) /\ Add("eof", "none", 0)
    BY <1>14, <2>1 DEF Eof
  <2>3. Label("EOF", 0) \in Arguments
    BY <1>3, ArgumentsAre DEF LabelNames
  <2>4. \A F : c \in Seq(Calling(F))
    BY <1>1, <2>1, <2>3, OpsAre, CallingInstr
  <2> QED BY <1>1, <1>3, <2>2, <2>4, QuietCalls
<1>15. ASSUME NEW f \in Functions, func(f) PROVE CallsKnown'
  <2>1. PICK v : v = Var("LF", "var", unique_id)
    OBVIOUS
  <2>2. PICK d : d = IF Params[f] = 0 THEN <<>> ELSE code_generator_param_map(v)
    OBVIOUS
  <2>3. PICK c : c = code_generator_function_label(f) \o d
    OBVIOUS
  <2>4. Emit(c, for_open) /\ Add("func", f, 0)
    BY <1>15, <2>1, <2>2, <2>3 DEF func
  <2>5. Grown("func", f)
    BY <1>1, <1>3, <2>4, SourceGrows DEF Kinds
  <2>6. Called \subseteq Called'
    BY <2>5 DEF Grown
  <2>7. c \in Seq(Calling(Called'))
    <3>1. /\ code_generator_function_label(f) \in Seq(Calling(Called'))
          /\ code_generator_param_map(v) \in Seq(Calling(Called')) /\ <<>> \in Seq(Calling(Called'))
      BY <1>2, <1>3, <2>1, LabelsAre, FunctionCalls, DeclareCalls
    <3>2. d \in Seq(Calling(Called'))
      BY <2>2, <3>1
    <3> QED BY <2>3, <3>1, <3>2, CallingConcat
  <2> QED BY <2>4, <2>6, <2>7, EmitCalls
<1>16. ASSUME NEW f \in Functions, call(f) PROVE CallsKnown'
  <2>1. PICK c : c = code_generator_function_call(f, Here)
    OBVIOUS
  <2>2. Emit(c, for_open) /\ Add("call", f, 0)
    BY <1>16, <2>1 DEF call
  <2>3. Grown("call", f)
    BY <1>1, <1>3, <2>2, SourceGrows DEF Kinds
  <2>4. Called \subseteq Called' /\ f \in Called'
    BY <2>3 DEF Grown
  <2>5. c \in Seq(Calling(Called'))
    BY <1>1, <2>1, <2>4, LabelsAre, FunctionCalls
  <2> QED BY <2>2, <2>4, <2>5, EmitCalls
<1>17. CASE Load \/ (Machine /\ UNCHANGED <<parserVars, generatorVars, phase>>)
  <2>1. out' = out /\ print_buffer' = print_buffer /\ source' = source
    BY <1>17 DEF Load, parserVars, generatorVars
  <2> QED BY <2>1 DEF CallsKnown, Called
<1> QED BY <1>4, <1>5, <1>6, <1>7, <1>9, <1>10, <1>11, <1>12, <1>13, <1>14, <1>15, <1>16, <1>17 DEF Next

-----------------------------------------------------------------------------
(* The machine and the facts at its position.                              *)

\* The frames that the code at a position has made for the call in progress.
Level(s) == IF s \in {"boot", "enter0", "enter1", "leave"} THEN 0
            ELSE IF s \in {"op0", "op2", "op12"} THEN 2 ELSE 1

Ids == {"var", "op", "??"} \X Nat
SlotId == <<"??", 0>>

\* A frame fr with identifiers ids agrees with facts t.
Holds(ids, t, fr) ==
  /\ \A v \in t.must : v.frame = fr => v.id \in ids
  /\ \A n \in Nat : <<"var", n>> \in ids => n < t.bound

\* Each call in progress has its frame; below the call, the caller is in a body.
FitStack(a, fs, cs) ==
  /\ fs \in Seq(SUBSET Ids) /\ Len(cs) \in Nat /\ Len(fs) = Len(cs) + Level(a.shape)
  /\ Level(a.shape) > 0 => Holds(fs[Len(cs) + 1], a, "LF")
FitCallers(T, fs, cs) ==
  \A k \in 1..Len(cs) : /\ T[cs[k]] \in Facts /\ T[cs[k]].shape = "body"
                        /\ (T[cs[k]].fn <=> k > 1) /\ Holds(fs[k], T[cs[k]], "LF")
FitFn(a, cs) == a.fn <=> Len(cs) > 0
FitGlobal(T, a, g, cs) == Holds(g, IF Len(cs) = 0 THEN a ELSE T[cs[1]], "GF")

\* What the code that makes a frame finds in it.
FitTemp(a, fs, t) ==
  /\ a.shape \in {"enter0", "frame"} => t = <<{}>>
  /\ a.shape \in {"enter1", "slot"} => t = <<{SlotId}>>
  /\ a.shape = "arg" => SlotId \in fs[Len(fs)]
  /\ a.shape = "op0" => fs[Len(fs)] = {}
  /\ a.shape = "op2" => fs[Len(fs)] = {<<"op", 2>>}
  /\ a.shape = "op12" => fs[Len(fs)] = {<<"op", 1>>, <<"op", 2>>}
  /\ a.shape \in {"boot", "enter0", "enter1"} => a.must = {}

Fit(T, a, g, fs, t, cs) ==
  /\ a \in Facts /\ FitStack(a, fs, cs) /\ FitCallers(T, fs, cs)
  /\ FitFn(a, cs) /\ FitGlobal(T, a, g, cs) /\ FitTemp(a, fs, t)

LEMMA Levels ==
  /\ \A s \in Shapes : Level(s) \in 0..2
  /\ \A s \in {"boot", "enter0", "enter1", "leave"} : Level(s) = 0
  /\ \A s \in {"body", "arg", "frame", "slot"} : Level(s) = 1
  /\ \A s \in {"op0", "op2", "op12"} : Level(s) = 2
BY DEF Level, Shapes

LEMMA HoldsWeaker ==
  ASSUME NEW a \in Facts, NEW b \in Facts, Weaker(a, b), NEW ids, NEW fr, Holds(ids, a, fr)
  PROVE  Holds(ids, b, fr)
<1>1. b.must \subseteq a.must /\ a.bound <= b.bound /\ a.bound \in Nat /\ b.bound \in Nat
  BY FactFields DEF Weaker
<1> QED BY <1>1 DEF Holds

\* Facts that ask for the same frames and no more of their contents.
LEMMA FitMove ==
  ASSUME NEW T, NEW a, NEW b \in Facts, NEW g, NEW fs, NEW t, NEW u, NEW cs, Fit(T, a, g, fs, t, cs),
         Weaker(a, b), Level(a.shape) = Level(b.shape), FitTemp(b, fs, u)
  PROVE  Fit(T, b, g, fs, u, cs)
<1>1. /\ a \in Facts /\ FitStack(a, fs, cs) /\ FitCallers(T, fs, cs)
      /\ FitFn(a, cs) /\ FitGlobal(T, a, g, cs)
  BY DEF Fit
<1>2. FitStack(b, fs, cs)
  <2>1. Level(b.shape) > 0 => Holds(fs[Len(cs) + 1], b, "LF")
    BY <1>1, HoldsWeaker DEF FitStack
  <2> QED BY <1>1, <2>1 DEF FitStack
<1>3. FitFn(b, cs)
  BY <1>1, Zenon DEF FitFn, Weaker
<1>4. FitGlobal(T, b, g, cs)
  <2>1. CASE Len(cs) = 0
    <3>1. Holds(g, a, "GF")
      BY <1>1, <2>1 DEF FitGlobal
    <3>2. Holds(g, b, "GF")
      BY <1>1, <3>1, HoldsWeaker
    <3> QED BY <2>1, <3>2 DEF FitGlobal
  <2>2. CASE Len(cs) # 0
    BY <1>1, <2>2 DEF FitGlobal
  <2> QED BY <2>1, <2>2
<1> QED BY <1>1, <1>2, <1>3, <1>4 DEF Fit

LEMMA FitSame ==
  ASSUME NEW T, NEW a, NEW b \in Facts, NEW g, NEW fs, NEW t, NEW cs, Fit(T, a, g, fs, t, cs), Same(a, b)
  PROVE  Fit(T, b, g, fs, t, cs)
<1>1. FitTemp(a, fs, t) /\ a.shape = b.shape /\ b.must \subseteq a.must /\ Weaker(a, b)
  BY DEF Fit, Same, Weaker
<1>2. a.must = {} => b.must = {}
  BY <1>1
<1>3. FitTemp(b, fs, t)
  BY <1>1, <1>2, Zenon DEF FitTemp
<1>4. Level(a.shape) = Level(b.shape)
  BY <1>1
<1> QED BY <1>1, <1>3, <1>4, FitMove

\* What facts of a shape say of the temporary frame and of the newest one.
LEMMA FitTempIs ==
  ASSUME NEW b, NEW fs, NEW t
  PROVE  /\ b.shape \in {"body", "leave"} => FitTemp(b, fs, t)
         /\ b.shape = "frame" /\ t = <<{}>> => FitTemp(b, fs, t)
         /\ b.shape = "slot" /\ t = <<{SlotId}>> => FitTemp(b, fs, t)
         /\ b.shape = "enter0" /\ t = <<{}>> /\ b.must = {} => FitTemp(b, fs, t)
         /\ b.shape = "enter1" /\ t = <<{SlotId}>> /\ b.must = {} => FitTemp(b, fs, t)
         /\ b.shape = "arg" /\ SlotId \in fs[Len(fs)] => FitTemp(b, fs, t)
         /\ b.shape = "op0" /\ fs[Len(fs)] = {} => FitTemp(b, fs, t)
         /\ b.shape = "op2" /\ fs[Len(fs)] = {<<"op", 2>>} => FitTemp(b, fs, t)
         /\ b.shape = "op12" /\ fs[Len(fs)] = {<<"op", 1>>, <<"op", 2>>} => FitTemp(b, fs, t)
BY DEF FitTemp

LEMMA CallersKept ==
  ASSUME NEW T, NEW fs, NEW fz, NEW cs, FitCallers(T, fs, cs), \A k \in 1..Len(cs) : fz[k] = fs[k]
  PROVE  FitCallers(T, fz, cs)
BY DEF FitCallers

\* With the frames fz instead of fs.
LEMMA FitFrames ==
  ASSUME NEW T, NEW a, NEW b \in Facts, NEW g, NEW fs, NEW fz \in Seq(SUBSET Ids), NEW t, NEW u, NEW cs,
         Fit(T, a, g, fs, t, cs), Weaker(a, b), FitTemp(b, fz, u), Len(fz) = Len(cs) + Level(b.shape),
         \A k \in 1..Len(cs) : fz[k] = fs[k],
         Level(b.shape) > 0 => Holds(fz[Len(cs) + 1], b, "LF")
  PROVE  Fit(T, b, g, fz, u, cs)
<1>1. /\ a \in Facts /\ FitStack(a, fs, cs) /\ FitCallers(T, fs, cs)
      /\ FitFn(a, cs) /\ FitGlobal(T, a, g, cs) /\ Len(cs) \in Nat
  BY DEF Fit, FitStack
<1>2. FitStack(b, fz, cs) /\ FitCallers(T, fz, cs)
  BY <1>1, CallersKept DEF FitStack
<1>3. FitFn(b, cs)
  BY <1>1, Zenon DEF FitFn, Weaker
<1>4. FitGlobal(T, b, g, cs)
  <2>1. CASE Len(cs) = 0
    <3>1. Holds(g, a, "GF")
      BY <1>1, <2>1 DEF FitGlobal
    <3>2. Holds(g, b, "GF")
      BY <1>1, <3>1, HoldsWeaker
    <3> QED BY <2>1, <3>2 DEF FitGlobal
  <2>2. CASE Len(cs) # 0
    BY <1>1, <2>2 DEF FitGlobal
  <2> QED BY <2>1, <2>2
<1> QED BY <1>2, <1>3, <1>4 DEF Fit

LEMMA FitPush ==
  ASSUME NEW T, NEW a, NEW b \in Facts, NEW g, NEW fs, NEW t, NEW u, NEW cs,
         Fit(T, a, g, fs, t, cs), NEW x \in SUBSET Ids, Weaker(a, b), Level(b.shape) = Level(a.shape) + 1,
         Level(a.shape) = 0 => Holds(x, b, "LF"), FitTemp(b, Append(fs, x), u)
  PROVE  Fit(T, b, g, Append(fs, x), u, cs)
<1>1. a \in Facts /\ fs \in Seq(SUBSET Ids) /\ Len(cs) \in Nat /\ Len(fs) = Len(cs) + Level(a.shape)
      /\ (Level(a.shape) > 0 => Holds(fs[Len(cs) + 1], a, "LF"))
  BY DEF Fit, FitStack
<1>2. Level(a.shape) \in 0..2
  BY <1>1, Levels, FactFields
<1>3. PICK fz : fz = Append(fs, x)
  OBVIOUS
<1>4. fz \in Seq(SUBSET Ids) /\ Appended(fz, fs, x)
  BY <1>1, <1>3, AppendFacts
<1>5. Len(fz) = Len(cs) + Level(b.shape) /\ fz[Len(fz)] = x /\ \A k \in 1..Len(fs) : fz[k] = fs[k]
  BY <1>1, <1>2, <1>4 DEF Appended
<1>6. \A k \in 1..Len(cs) : k \in 1..Len(fs)
  BY <1>1, <1>2
<1>7. Holds(fz[Len(cs) + 1], b, "LF")
  <2>1. CASE Level(a.shape) = 0
    <3>1. Len(fz) = Len(cs) + 1
      BY <1>1, <1>5, <2>1
    <3> QED BY <1>5, <2>1, <3>1
  <2>2. CASE Level(a.shape) # 0
    <3>1. Len(cs) + 1 \in 1..Len(fs) /\ Level(a.shape) > 0
      BY <1>1, <1>2, <2>2
    <3>2. fz[Len(cs) + 1] = fs[Len(cs) + 1]
      BY <1>5, <3>1
    <3> QED BY <1>1, <3>1, <3>2, HoldsWeaker
  <2> QED BY <2>1, <2>2
<1>8. Fit(T, b, g, fz, u, cs)
  BY <1>3, <1>4, <1>5, <1>6, <1>7, FitFrames
<1> QED BY <1>3, <1>8

LEMMA FrontFacts ==
  ASSUME NEW S, NEW s \in Seq(S), s # <<>>
  PROVE  /\ Front(s) \in Seq(S) /\ Len(Front(s)) = Len(s) - 1 /\ Len(s) \in Nat /\ Len(s) > 0
         /\ \A i \in 1..(Len(s) - 1) : Front(s)[i] = s[i] /\ i \in 1..Len(s)
         /\ Last(s) = s[Len(s)] /\ Len(s) \in 1..Len(s)
<1>1. Len(s) \in Nat /\ Len(s) # 0
  BY EmptySeq
<1>2. /\ Len(s) - 1 \in Nat /\ Len(s) - 1 - 1 + 1 = Len(s) - 1 /\ 1 \in Int /\ Len(s) - 1 \in Int
      /\ \A i \in 1..(Len(s) - 1) : i \in 1..Len(s) /\ s[i] \in S /\ 1 + i - 1 = i
  BY <1>1
<1>3. PICK n : n = Len(s) - 1
  OBVIOUS
<1>4. n \in Nat /\ n = Len(s) - 1 /\ \A i \in 1..n : i \in 1..Len(s) /\ s[i] \in S
  BY <1>2, <1>3
<1>5. PICK p : p = SubSeq(s, 1, n)
  OBVIOUS
<1>6. p \in Seq(S) /\ Len(p) = n /\ \A i \in 1..n : p[i] = s[i]
  BY <1>1, <1>4, <1>5
<1>7. Front(s) = p
  BY <1>3, <1>5 DEF Front
<1>8. Last(s) = s[Len(s)] /\ Len(s) > 0 /\ Len(s) \in 1..Len(s)
  BY <1>1 DEF Last
<1> QED BY <1>1, <1>4, <1>6, <1>7, <1>8

LEMMA FitPop ==
  ASSUME NEW T, NEW a, NEW b \in Facts, NEW g, NEW fs, NEW t, NEW u, NEW cs,
         Fit(T, a, g, fs, t, cs), Weaker(a, b), Level(a.shape) = Level(b.shape) + 1,
         b.shape \in {"body", "leave"}, fs # <<>>
  PROVE  Fit(T, b, g, Front(fs), u, cs)
<1>1. a \in Facts /\ fs \in Seq(SUBSET Ids) /\ Len(cs) \in Nat /\ Len(fs) = Len(cs) + Level(a.shape)
      /\ (Level(a.shape) > 0 => Holds(fs[Len(cs) + 1], a, "LF"))
  BY DEF Fit, FitStack
<1>2. Level(b.shape) \in 0..2
  BY Levels, FactFields
<1>3. PICK fz : fz = Front(fs)
  OBVIOUS
<1>4. fz \in Seq(SUBSET Ids) /\ Len(fz) = Len(fs) - 1 /\ \A i \in 1..(Len(fs) - 1) : fz[i] = fs[i]
  BY <1>1, <1>3, FrontFacts
<1>5. Len(fz) = Len(cs) + Level(b.shape) /\ \A k \in 1..Len(cs) : k \in 1..(Len(fs) - 1)
  BY <1>1, <1>2, <1>4
<1>6. ASSUME Level(b.shape) > 0 PROVE Holds(fz[Len(cs) + 1], b, "LF")
  <2>1. Len(cs) + 1 \in 1..(Len(fs) - 1) /\ Level(a.shape) > 0
    BY <1>1, <1>2, <1>6
  <2>2. fz[Len(cs) + 1] = fs[Len(cs) + 1]
    BY <1>4, <2>1
  <2> QED BY <1>1, <2>1, <2>2, HoldsWeaker
<1>7. FitTemp(b, fz, u)
  BY FitTempIs
<1>8. Fit(T, b, g, fz, u, cs)
  BY <1>4, <1>5, <1>6, <1>7, FitFrames
<1> QED BY <1>3, <1>8

\* The newest frame becomes x.
TopReplaced(fs, x, fz) ==
  /\ fz \in Seq(SUBSET Ids) /\ Len(fz) = Len(fs) /\ fz[Len(fs)] = x
  /\ \A k \in 1..(Len(fs) - 1) : fz[k] = fs[k]

LEMMA ReplaceTop ==
  ASSUME NEW fs \in Seq(SUBSET Ids), Len(fs) > 0, NEW i \in Ids
  PROVE  TopReplaced(fs, fs[Len(fs)] \union {i}, [fs EXCEPT ![Len(fs)] = @ \union {i}])
<1>1. Len(fs) \in Nat /\ Len(fs) \in 1..Len(fs)
  BY LenProperties
<1>2. PICK n : n = Len(fs)
  OBVIOUS
<1>3. PICK x : x = fs[n] \union {i}
  OBVIOUS
<1>4. x \in SUBSET Ids
  BY <1>1, <1>2, <1>3
<1>5. PICK fz : fz = [fs EXCEPT ![n] = x]
  OBVIOUS
<1>6. fz \in Seq(SUBSET Ids) /\ Len(fz) = n /\ fz[n] = x /\ \A k \in 1..(n - 1) : fz[k] = fs[k]
  BY <1>1, <1>2, <1>4, <1>5
<1>7. TopReplaced(fs, x, fz)
  BY <1>2, <1>6 DEF TopReplaced
<1> QED BY <1>2, <1>3, <1>5, <1>7

\* Code that fills the frame of a ??.
LEMMA FitFill ==
  ASSUME NEW T, NEW a, NEW b \in Facts, NEW g, NEW fs, NEW fz, NEW t, NEW u, NEW cs,
         Fit(T, a, g, fs, t, cs), Weaker(a, b), Level(a.shape) = 2, Level(b.shape) = 2,
         NEW x, TopReplaced(fs, x, fz), FitTemp(b, fz, u)
  PROVE  Fit(T, b, g, fz, u, cs)
<1>1. a \in Facts /\ fs \in Seq(SUBSET Ids) /\ Len(cs) \in Nat /\ Len(fs) = Len(cs) + 2
      /\ Holds(fs[Len(cs) + 1], a, "LF")
  BY DEF Fit, FitStack
<1>2. fz \in Seq(SUBSET Ids) /\ Len(fz) = Len(cs) + 2 /\ \A k \in 1..(Len(fs) - 1) : fz[k] = fs[k]
  BY <1>1 DEF TopReplaced
<1>3. Len(cs) + 1 \in 1..(Len(fs) - 1) /\ \A k \in 1..Len(cs) : k \in 1..(Len(fs) - 1)
  BY <1>1
<1>4. Holds(fz[Len(cs) + 1], b, "LF")
  BY <1>1, <1>2, <1>3, HoldsWeaker
<1> QED BY <1>2, <1>3, <1>4, FitFrames

\* Facts b behind the declaration of v, which a does not know.
Declares(v, a, b) ==
  /\ IsVar(v) /\ a \in Facts /\ b \in Facts /\ b.shape = a.shape /\ b.fn = a.fn
  /\ a.bound <= v.id[2] /\ v.id[2] < b.bound /\ b.must \subseteq a.must \union {v}

LEMMA HoldsDeclared ==
  ASSUME NEW v, NEW a, NEW b, Declares(v, a, b), NEW ids, NEW fr, Holds(ids, a, fr)
  PROVE  /\ v.frame = fr => Holds(ids \union {v.id}, b, fr)
         /\ v.frame # fr => Holds(ids, b, fr)
<1>1. /\ v.id = <<"var", v.id[2]>> /\ v.id[2] \in Nat /\ a.bound \in Nat /\ b.bound \in Nat
      /\ a.bound <= v.id[2] /\ v.id[2] < b.bound /\ b.must \subseteq a.must \union {v}
  BY VarFields, FactFields DEF Declares
<1>2. /\ \A w \in a.must : w.frame = fr => w.id \in ids
      /\ \A n \in Nat : <<"var", n>> \in ids => n < a.bound
  BY DEF Holds
<1>3. \A n \in Nat : <<"var", n>> \in ids => n < b.bound
  BY <1>1, <1>2
<1>4. \A n \in Nat : <<"var", n>> = v.id => n < b.bound
  <2> SUFFICES ASSUME NEW n \in Nat, <<"var", n>> = v.id PROVE n < b.bound
    OBVIOUS
  <2>1. v.id[2] = n
    BY Zenon, <<"var", n>>[2] = n
  <2> QED BY <1>1, <2>1
<1>5. ASSUME v.frame = fr PROVE Holds(ids \union {v.id}, b, fr)
  <2>1. \A w \in b.must : w.frame = fr => w.id \in ids \union {v.id}
    BY <1>1, <1>2
  <2>2. \A n \in Nat : <<"var", n>> \in ids \union {v.id} => n < b.bound
    BY <1>3, <1>4
  <2> QED BY <2>1, <2>2 DEF Holds
<1>6. ASSUME v.frame # fr PROVE Holds(ids, b, fr)
  <2>1. \A w \in b.must : w.frame = fr => w.id \in ids
    BY <1>1, <1>2, <1>6
  <2> QED BY <1>3, <2>1 DEF Holds
<1> QED BY <1>5, <1>6

LEMMA FitDeclareGlobal ==
  ASSUME NEW T, NEW a, NEW b, NEW g, NEW fs, NEW t, NEW cs, Fit(T, a, g, fs, t, cs), NEW v,
         Declares(v, a, b), v.frame = "GF", ~a.fn, a.shape \in {"body", "arg"}
  PROVE  Fit(T, b, g \union {v.id}, fs, t, cs)
<1>1. /\ a \in Facts /\ FitStack(a, fs, cs) /\ FitCallers(T, fs, cs) /\ b \in Facts /\ b.shape = a.shape
      /\ FitFn(a, cs) /\ FitGlobal(T, a, g, cs) /\ FitTemp(a, fs, t) /\ b.fn = a.fn
  BY DEF Fit, Declares
<1>2. Len(cs) = 0
  <2>1. ~(Len(cs) > 0)
    BY <1>1, Zenon DEF FitFn
  <2>2. Len(cs) \in Nat
    BY <1>1 DEF FitStack
  <2> QED BY <2>1, <2>2
<1>3. FitFn(b, cs)
  BY <1>1, Zenon DEF FitFn
<1>4. FitStack(b, fs, cs)
  <2>1. Level(b.shape) > 0 => Holds(fs[Len(cs) + 1], b, "LF")
    BY <1>1, HoldsDeclared DEF FitStack
  <2> QED BY <1>1, <2>1 DEF FitStack
<1>5. FitGlobal(T, b, g \union {v.id}, cs)
  BY <1>1, <1>2, HoldsDeclared DEF FitGlobal
<1>6. FitTemp(b, fs, t)
  BY <1>1, FitTempIs DEF FitTemp
<1> QED BY <1>1, <1>3, <1>4, <1>5, <1>6 DEF Fit

LEMMA FitDeclareLocal ==
  ASSUME NEW T, NEW a, NEW b, NEW g, NEW fs, NEW t, NEW cs, Fit(T, a, g, fs, t, cs), NEW v,
         Declares(v, a, b), v.frame = "LF", a.shape \in {"body", "arg"},
         NEW fz, TopReplaced(fs, fs[Len(fs)] \union {v.id}, fz)
  PROVE  Fit(T, b, g, fz, t, cs)
<1>1. /\ a \in Facts /\ FitStack(a, fs, cs) /\ FitCallers(T, fs, cs) /\ b \in Facts /\ b.shape = a.shape
      /\ FitFn(a, cs) /\ FitGlobal(T, a, g, cs) /\ FitTemp(a, fs, t) /\ b.fn = a.fn
  BY DEF Fit, Declares
<1>2. Level(a.shape) = 1
  BY Levels
<1>3. /\ Len(cs) \in Nat /\ Len(fs) = Len(cs) + 1 /\ Holds(fs[Len(cs) + 1], a, "LF")
      /\ \A k \in 1..Len(cs) : k \in 1..(Len(fs) - 1)
  BY <1>1, <1>2 DEF FitStack
<1>4. /\ fz \in Seq(SUBSET Ids) /\ Len(fz) = Len(cs) + 1 /\ fz[Len(fz)] = fs[Len(fs)] \union {v.id}
      /\ \A k \in 1..(Len(fs) - 1) : fz[k] = fs[k]
  BY <1>3 DEF TopReplaced
<1>5. FitStack(b, fz, cs)
  <2>1. Holds(fs[Len(fs)], a, "LF")
    BY <1>3
  <2>2. Holds(fs[Len(fs)] \union {v.id}, b, "LF")
    BY <2>1, HoldsDeclared
  <2>3. Holds(fz[Len(cs) + 1], b, "LF")
    BY <1>4, <2>2
  <2> QED BY <1>1, <1>2, <1>3, <1>4, <2>3 DEF FitStack
<1>6. FitCallers(T, fz, cs)
  BY <1>1, <1>3, <1>4, CallersKept
<1>7. FitFn(b, cs)
  BY <1>1, Zenon DEF FitFn
<1>8. FitGlobal(T, b, g, cs)
  <2>1. CASE Len(cs) = 0
    <3>1. Holds(g, a, "GF")
      BY <1>1, <2>1 DEF FitGlobal
    <3>2. Holds(g, b, "GF")
      BY <3>1, HoldsDeclared
    <3> QED BY <2>1, <3>2 DEF FitGlobal
  <2>2. CASE Len(cs) # 0
    BY <1>1, <2>2 DEF FitGlobal
  <2> QED BY <2>1, <2>2
<1>9. FitTemp(b, fz, t)
  <2>1. a.shape = "arg" => SlotId \in fs[Len(fs)]
    BY <1>1 DEF FitTemp
  <2>2. b.shape = "arg" => SlotId \in fz[Len(fz)]
    BY <1>1, <1>4, <2>1
  <2> QED BY <1>1, <2>2, FitTempIs
<1> QED BY <1>1, <1>5, <1>6, <1>7, <1>8, <1>9 DEF Fit

\* A call: behind it, at r, the body goes on with b; the function is entered with e.
LEMMA FitCall ==
  ASSUME NEW T, NEW a, NEW b \in Facts, NEW e \in Facts, NEW g, NEW fs, NEW t, NEW cs, NEW S, cs \in Seq(S),
         NEW r \in S, Fit(T, a, g, fs, t, cs), T[r] = b, Weaker(a, b), b.shape = "body", Level(a.shape) = 1,
         Level(e.shape) = 0, e.fn, FitTemp(e, fs, t)
  PROVE  Fit(T, e, g, fs, t, Append(cs, r))
<1>1. /\ a \in Facts /\ FitStack(a, fs, cs) /\ FitCallers(T, fs, cs)
      /\ FitFn(a, cs) /\ FitGlobal(T, a, g, cs)
  BY DEF Fit
<1>2. /\ fs \in Seq(SUBSET Ids) /\ Len(cs) \in Nat /\ Len(fs) = Len(cs) + 1
      /\ Holds(fs[Len(cs) + 1], a, "LF")
  BY <1>1 DEF FitStack
<1>3. PICK cz : cz = Append(cs, r)
  OBVIOUS
<1>4. Appended(cz, cs, r)
  BY <1>3, AppendFacts
<1>5. /\ Len(cz) = Len(cs) + 1 /\ Len(cz) \in Nat /\ Len(cz) > 0 /\ cz[Len(cz)] = r
      /\ \A k \in 1..Len(cs) : cz[k] = cs[k]
      /\ \A k \in 1..Len(cz) : k \in 1..Len(cs) \/ k = Len(cz)
  BY <1>2, <1>4 DEF Appended
<1>6. FitStack(e, fs, cz)
  BY <1>2, <1>5 DEF FitStack
<1>7. FitFn(e, cz)
  BY <1>5, Zenon DEF FitFn
<1>8. FitCallers(T, fs, cz)
  <2> SUFFICES ASSUME NEW k \in 1..Len(cz)
               PROVE  /\ T[cz[k]] \in Facts /\ T[cz[k]].shape = "body"
                      /\ (T[cz[k]].fn <=> k > 1) /\ Holds(fs[k], T[cz[k]], "LF")
    BY DEF FitCallers
  <2>1. CASE k \in 1..Len(cs)
    BY <1>1, <1>5, <2>1 DEF FitCallers
  <2>2. CASE k = Len(cz)
    <3>1. T[cz[k]] = b
      BY <1>5, <2>2
    <3>2. Holds(fs[k], b, "LF")
      <4>1. Holds(fs[k], a, "LF")
        BY <1>2, <1>5, <2>2
      <4> QED BY <1>1, <4>1, HoldsWeaker
    <3>3. k > 1 <=> Len(cs) > 0
      BY <1>2, <1>5, <2>2
    <3>4. b.fn <=> k > 1
      BY <1>1, <3>3, Zenon DEF FitFn, Weaker
    <3> QED BY <3>1, <3>2, <3>4, Zenon
  <2> QED BY <1>5, <2>1, <2>2
<1>9. FitGlobal(T, e, g, cz)
  <2>1. CASE Len(cs) = 0
    <3>1. Holds(g, a, "GF") /\ cz[1] = r /\ Len(cz) # 0
      BY <1>1, <1>5, <2>1 DEF FitGlobal
    <3>2. Holds(g, b, "GF")
      BY <1>1, <3>1, HoldsWeaker
    <3> QED BY <3>1, <3>2 DEF FitGlobal
  <2>2. CASE Len(cs) # 0
    <3>1. Holds(g, T[cs[1]], "GF") /\ 1 \in 1..Len(cs) /\ Len(cz) # 0
      BY <1>1, <1>2, <1>5, <2>2 DEF FitGlobal
    <3>2. cz[1] = cs[1]
      BY <1>5, <3>1
    <3> QED BY <3>1, <3>2 DEF FitGlobal
  <2> QED BY <2>1, <2>2
<1>10. Fit(T, e, g, fs, t, cz)
  BY <1>6, <1>7, <1>8, <1>9 DEF Fit
<1> QED BY <1>3, <1>10

LEMMA FitReturn ==
  ASSUME NEW T, NEW a, NEW g, NEW fs, NEW t, NEW cs, NEW S, cs \in Seq(S), cs # <<>>,
         Fit(T, a, g, fs, t, cs), a.shape = "leave"
  PROVE  Fit(T, T[Last(cs)], g, fs, t, Front(cs))
<1>1. a \in Facts /\ FitStack(a, fs, cs) /\ FitCallers(T, fs, cs) /\ FitGlobal(T, a, g, cs)
  BY DEF Fit
<1>2. Level(a.shape) = 0 /\ Level("body") = 1
  BY Levels
<1>3. fs \in Seq(SUBSET Ids) /\ Len(cs) \in Nat /\ Len(fs) = Len(cs)
  BY <1>1, <1>2 DEF FitStack
<1>4. PICK n : n = Len(cs)
  OBVIOUS
<1>5. PICK cz : cz = Front(cs)
  OBVIOUS
<1>6. PICK b : b = T[Last(cs)]
  OBVIOUS
<1>7. /\ Len(cz) = n - 1 /\ n \in Nat /\ n > 0 /\ Last(cs) = cs[n] /\ n \in 1..n
      /\ \A i \in 1..(n - 1) : cz[i] = cs[i]
  BY <1>4, <1>5, FrontFacts
<1>8. b \in Facts /\ b.shape = "body" /\ (b.fn <=> n > 1) /\ Holds(fs[n], b, "LF")
  BY <1>1, <1>4, <1>6, <1>7 DEF FitCallers
<1>9. FitStack(b, fs, cz)
  <2>1. Len(cz) \in Nat /\ Len(fs) = Len(cz) + 1 /\ Len(cz) + 1 = n
    BY <1>3, <1>4, <1>7
  <2> QED BY <1>2, <1>3, <1>8, <2>1 DEF FitStack
<1>10. FitCallers(T, fs, cz)
  <2>1. \A k \in 1..Len(cz) : k \in 1..(n - 1) /\ k \in 1..Len(cs)
    BY <1>4, <1>7
  <2> QED BY <1>1, <1>7, <2>1 DEF FitCallers
<1>11. FitFn(b, cz)
  <2>1. n > 1 <=> Len(cz) > 0
    BY <1>7
  <2> QED BY <1>8, <2>1, Zenon DEF FitFn
<1>12. FitGlobal(T, b, g, cz)
  <2>1. Holds(g, T[cs[1]], "GF")
    BY <1>1, <1>4, <1>7 DEF FitGlobal
  <2>2. CASE Len(cz) = 0
    <3>1. n = 1
      BY <1>7, <2>2
    <3>2. b = T[cs[1]]
      BY <1>6, <1>7, <3>1
    <3> QED BY <2>1, <2>2, <3>2 DEF FitGlobal
  <2>3. CASE Len(cz) # 0
    <3>1. cz[1] = cs[1]
      BY <1>7, <2>3
    <3> QED BY <2>1, <2>3, <3>1 DEF FitGlobal
  <2> QED BY <2>2, <2>3
<1>13. FitTemp(b, fs, t)
  BY <1>8, FitTempIs
<1>14. Fit(T, b, g, fs, t, cz)
  BY <1>8, <1>9, <1>10, <1>11, <1>12, <1>13 DEF Fit
<1> QED BY <1>5, <1>6, <1>14

-----------------------------------------------------------------------------
(* The steps of the machine.                                               *)

\* T has the facts at each position of the output, lab those at the labels.
Traced(T, lab) ==
  /\ T \in [1..(Len(out) + 1) -> Facts] /\ T[1] = Boot
  /\ \A i \in 1..Len(out) : Check(out[i], T[i], T[i + 1], lab)
  /\ \A l \in DOMAIN lab : lab[l] \in Facts
  /\ \A f \in Defined : Label("FUNCTION", f) \in DOMAIN lab /\ lab[Label("FUNCTION", f)] = EntryOf(f)

\* The machine is as the facts at its position say.
Fits(T) == Fit(T, T[ip], gf, frames, tf, calls)

LEMMA FrameIs ==
  ASSUME NEW x
  PROVE  /\ x \in Frame("GF") <=> x = gf
         /\ x \in Frame("LF") <=> frames # <<>> /\ x = Last(frames)
         /\ Len(tf) = 1 => (x \in Frame("TF") <=> x = tf[1])
<1>1. x \in Frame("GF") <=> x = gf
  BY DEF Frame
<1>2. x \in Frame("LF") <=> frames # <<>> /\ x = Last(frames)
  BY DEF Frame
<1>3. ASSUME Len(tf) = 1 PROVE x \in Frame("TF") <=> x = tf[1]
  <2>1. Frame("TF") = {tf[k] : k \in 1..Len(tf)}
    BY DEF Frame
  <2>2. \A k \in 1..1 : k = 1
    OBVIOUS
  <2> QED BY <1>3, <2>1, <2>2
<1> QED BY <1>1, <1>2, <1>3

\* Where the machine is, and the facts there.
LEMMA MachineAt ==
  ASSUME LabelInv, NEW T, NEW lab, Traced(T, lab), ip <= Len(out)
  PROVE  /\ ip \in 1..Len(out) /\ ip + 1 \in 1..(Len(out) + 1) /\ Current = out[ip]
         /\ T[ip] \in Facts /\ T[ip + 1] \in Facts /\ Check(Current, T[ip], T[ip + 1], lab)
<1>1. Len(out) \in Nat /\ ip \in 1..(Len(out) + 1)
  BY LenProperties DEF LabelInv, CodeOK, MachineOK
<1>2. ip \in 1..Len(out) /\ ip + 1 \in 1..(Len(out) + 1)
  BY <1>1
<1>3. T[ip] \in Facts /\ T[ip + 1] \in Facts
  BY <1>1, <1>2 DEF Traced
<1> QED BY <1>2, <1>3 DEF Traced, Current

LEMMA TargetFacts ==
  ASSUME NEW T, NEW lab, Traced(T, lab), Len(out) \in Nat, NEW l, NEW j \in Targets(l)
  PROVE  l \in DOMAIN lab /\ lab[l] \in Facts /\ T[j] \in Facts /\ Same(lab[l], T[j])
<1>1. j \in 1..Len(out) /\ out[j].op = "LABEL" /\ out[j].arg = l
  BY DEF Targets
<1>2. Check(out[j], T[j], T[j + 1], lab) /\ T[j] \in Facts
  BY <1>1 DEF Traced
<1>3. l \in DOMAIN lab /\ Same(lab[l], T[j])
  BY <1>1, <1>2 DEF Check
<1> QED BY <1>2, <1>3 DEF Traced

LEMMA ComputeFits ==
  ASSUME LabelInv, NEW T, NEW lab, Traced(T, lab), Fits(T), Compute
  PROVE  Fit(T, T[ip'], gf', frames', tf', calls')
<1>1. /\ Current.op \in {"EVAL", "LABEL"} /\ ip <= Len(out) /\ ip' = ip + 1
      /\ gf' = gf /\ frames' = frames /\ tf' = tf /\ calls' = calls
  BY DEF Compute, Running
<1>2. T[ip + 1] \in Facts /\ Check(Current, T[ip], T[ip + 1], lab)
  BY <1>1, MachineAt
<1>3. Same(T[ip], T[ip + 1])
  BY <1>1, <1>2 DEF Check
<1>4. Fit(T, T[ip + 1], gf, frames, tf, calls)
  BY <1>2, <1>3, FitSame DEF Fits
<1> QED BY <1>1, <1>4

LEMMA JumpFits ==
  ASSUME LabelInv, NEW T, NEW lab, Traced(T, lab), Fits(T), Jump
  PROVE  Fit(T, T[ip'], gf', frames', tf', calls')
<1>1. /\ Current.op \in {"JUMP", "JUMPIFNEQS"} /\ ip <= Len(out)
      /\ gf' = gf /\ frames' = frames /\ tf' = tf /\ calls' = calls
      /\ ip' \in Targets(Current.arg) \/ (Current.op = "JUMPIFNEQS" /\ ip' = ip + 1)
  BY DEF Jump, Running
<1>2. T[ip] \in Facts /\ T[ip + 1] \in Facts /\ Check(Current, T[ip], T[ip + 1], lab) /\ Len(out) \in Nat
  BY <1>1, MachineAt, LenProperties DEF LabelInv, CodeOK
<1>3. CASE ip' \in Targets(Current.arg)
  <2>1. PICK l : l = Current.arg
    OBVIOUS
  <2>2. PICK j : j = ip'
    OBVIOUS
  <2>3. j \in Targets(l)
    BY <1>3, <2>1, <2>2
  <2>4. l \in DOMAIN lab /\ lab[l] \in Facts /\ T[j] \in Facts /\ Same(lab[l], T[j])
    BY <1>2, <2>3, TargetFacts
  <2>5. Same(T[ip], lab[l])
    BY <1>1, <1>2, <2>1 DEF Check
  <2>6. Same(T[ip], T[j])
    BY <1>2, <2>4, <2>5, WeakerTrans
  <2>7. Fit(T, T[j], gf, frames, tf, calls)
    BY <2>4, <2>6, FitSame DEF Fits
  <2> QED BY <1>1, <2>2, <2>7
<1>4. CASE Current.op = "JUMPIFNEQS" /\ ip' = ip + 1
  <2>1. Same(T[ip], T[ip + 1])
    BY <1>2, <1>4 DEF Check
  <2>2. Fit(T, T[ip + 1], gf, frames, tf, calls)
    BY <1>2, <2>1, FitSame DEF Fits
  <2> QED BY <1>1, <1>4, <2>2
<1> QED BY <1>1, <1>3, <1>4

LEMMA UseFits ==
  ASSUME LabelInv, NEW T, NEW lab, Traced(T, lab), Fits(T), Use
  PROVE  Fit(T, T[ip'], gf', frames', tf', calls')
<1>1. /\ Current.op = "USE" /\ ip <= Len(out) /\ ip' = ip + 1
      /\ gf' = gf /\ frames' = frames /\ tf' = tf /\ calls' = calls
  BY DEF Use, Running
<1>2. PICK a : a = T[ip]
  OBVIOUS
<1>3. PICK b : b = T[ip + 1]
  OBVIOUS
<1>4. a \in Facts /\ b \in Facts /\ Check(Current, a, b, lab)
  BY <1>1, <1>2, <1>3, MachineAt
<1>5. CheckUse(Current.arg, a, b)
  BY <1>1, <1>4 DEF Check
<1>6. Same(a, b) \/ Move(a, b, "arg", "body")
  BY <1>5 DEF CheckUse
<1>7. Fit(T, a, gf, frames, tf, calls)
  BY <1>2 DEF Fits
<1>8. CASE Same(a, b)
  <2>1. Fit(T, b, gf, frames, tf, calls)
    BY <1>4, <1>7, <1>8, FitSame
  <2> QED BY <1>1, <1>3, <2>1
<1>9. CASE Move(a, b, "arg", "body")
  <2>1. Weaker(a, b) /\ a.shape = "arg" /\ b.shape = "body"
    BY <1>9 DEF Move
  <2>2. Level(a.shape) = Level(b.shape) /\ FitTemp(b, frames, tf)
    BY <2>1, Levels, FitTempIs
  <2>3. Fit(T, b, gf, frames, tf, calls)
    BY <1>4, <1>7, <2>1, <2>2, FitMove
  <2> QED BY <1>1, <1>3, <2>3
<1> QED BY <1>6, <1>8, <1>9

LEMMA CreateframeFits ==
  ASSUME LabelInv, NEW T, NEW lab, Traced(T, lab), Fits(T), Createframe
  PROVE  Fit(T, T[ip'], gf', frames', tf', calls')
<1>1. /\ Current.op = "CREATEFRAME" /\ ip <= Len(out) /\ ip' = ip + 1
      /\ gf' = gf /\ frames' = frames /\ tf' = <<{}>> /\ calls' = calls
  BY DEF Createframe, Running
<1>2. PICK a : a = T[ip]
  OBVIOUS
<1>3. PICK b : b = T[ip + 1]
  OBVIOUS
<1>4. a \in Facts /\ b \in Facts /\ Check(Current, a, b, lab)
  BY <1>1, <1>2, <1>3, MachineAt
<1>5. Fit(T, a, gf, frames, tf, calls)
  BY <1>2 DEF Fits
<1>6. Move(a, b, "boot", "enter0") \/ Move(a, b, "body", "frame")
  BY <1>1, <1>4 DEF Check
<1>7. Weaker(a, b) /\ Level(a.shape) = Level(b.shape)
  BY <1>6, Levels DEF Move
<1>8. FitTemp(b, frames, <<{}>>)
  <2>1. CASE Move(a, b, "boot", "enter0")
    <3>1. FitTemp(a, frames, tf)
      BY <1>5 DEF Fit
    <3>2. a.must = {} /\ b.must \subseteq a.must /\ b.shape = "enter0"
      BY <2>1, <3>1 DEF FitTemp, Move, Weaker
    <3>3. b.must = {}
      BY <3>2
    <3> QED BY <3>2, <3>3, FitTempIs
  <2>2. CASE Move(a, b, "body", "frame")
    BY <2>2, FitTempIs DEF Move
  <2> QED BY <1>6, <2>1, <2>2
<1>9. Fit(T, b, gf, frames, <<{}>>, calls)
  BY <1>4, <1>5, <1>7, <1>8, FitMove
<1> QED BY <1>1, <1>3, <1>9

LEMMA PushframeFits ==
  ASSUME LabelInv, NEW T, NEW lab, Traced(T, lab), Fits(T), Pushframe
  PROVE  Fit(T, T[ip'], gf', frames', tf', calls')
<1>1. /\ Current.op = "PUSHFRAME" /\ ip <= Len(out) /\ ip' = ip + 1
      /\ gf' = gf /\ frames' = frames \o tf /\ tf' = <<>> /\ calls' = calls
  BY DEF Pushframe, Running
<1>2. PICK a : a = T[ip]
  OBVIOUS
<1>3. PICK b : b = T[ip + 1]
  OBVIOUS
<1>4. a \in Facts /\ b \in Facts /\ Check(Current, a, b, lab)
  BY <1>1, <1>2, <1>3, MachineAt
<1>5. Fit(T, a, gf, frames, tf, calls)
  BY <1>2 DEF Fits
<1>6. \/ Move(a, b, "enter0", "body") \/ Move(a, b, "enter1", "arg") \/ Move(a, b, "frame", "op0")
  BY <1>1, <1>4 DEF Check
<1>7. frames \in Seq(SUBSET Ids) /\ FitTemp(a, frames, tf)
  BY <1>5 DEF Fit, FitStack
<1>8. {} \in SUBSET Ids /\ {SlotId} \in SUBSET Ids
  BY DEF Ids, SlotId
<1>9. Weaker(a, b) /\ Level(b.shape) = Level(a.shape) + 1
  BY <1>6, Levels DEF Move
<1>10. \E x \in SUBSET Ids : /\ tf = <<x>> /\ FitTemp(b, Append(frames, x), <<>>)
                             /\ Level(a.shape) = 0 => Holds(x, b, "LF")
  <2>1. ASSUME NEW x \in SUBSET Ids
        PROVE  LET fz == Append(frames, x) IN fz[Len(fz)] = x
    <3>1. Appended(Append(frames, x), frames, x)
      BY <1>7, AppendFacts
    <3> QED BY <3>1 DEF Appended
  <2>2. ASSUME NEW x \in {{}, {SlotId}}, b.must = {} PROVE Holds(x, b, "LF")
    BY <2>2 DEF Holds, SlotId
  <2>3. a.must = {} => b.must = {}
    BY <1>9 DEF Weaker
  <2>4. CASE Move(a, b, "enter0", "body")
    <3>1. tf = <<{}>> /\ b.must = {} /\ b.shape = "body"
      BY <1>7, <2>3, <2>4 DEF FitTemp, Move
    <3>2. FitTemp(b, Append(frames, {}), <<>>) /\ Holds({}, b, "LF")
      BY <2>2, <3>1, FitTempIs
    <3> QED BY <1>8, <3>1, <3>2
  <2>5. CASE Move(a, b, "enter1", "arg")
    <3>1. tf = <<{SlotId}>> /\ b.must = {} /\ b.shape = "arg"
      BY <1>7, <2>3, <2>5 DEF FitTemp, Move
    <3>2. PICK x \in SUBSET Ids : x = {SlotId}
      BY <1>8
    <3>3. FitTemp(b, Append(frames, x), <<>>)
      BY <2>1, <3>1, <3>2, FitTempIs
    <3>4. Holds(x, b, "LF")
      BY <2>2, <3>1, <3>2
    <3> QED BY <3>1, <3>2, <3>3, <3>4
  <2>6. CASE Move(a, b, "frame", "op0")
    <3>1. tf = <<{}>> /\ b.shape = "op0" /\ a.shape = "frame"
      BY <1>7, <2>6 DEF FitTemp, Move
    <3>2. PICK x \in SUBSET Ids : x = {}
      BY <1>8
    <3>3. FitTemp(b, Append(frames, x), <<>>)
      BY <2>1, <3>1, <3>2, FitTempIs
    <3>4. Level(a.shape) # 0
      BY <3>1, Levels
    <3> QED BY <3>1, <3>2, <3>3, <3>4
  <2> QED BY <1>6, <2>4, <2>5, <2>6
<1>11. PICK x \in SUBSET Ids : /\ tf = <<x>> /\ FitTemp(b, Append(frames, x), <<>>)
                               /\ Level(a.shape) = 0 => Holds(x, b, "LF")
  BY <1>10
<1>12. Fit(T, b, gf, Append(frames, x), <<>>, calls)
  BY <1>4, <1>5, <1>9, <1>11, FitPush
<1>13. frames \o tf = Append(frames, x)
  BY <1>7, <1>11, AppendIsConcat
<1> QED BY <1>1, <1>3, <1>12, <1>13

LEMMA PopframeFits ==
  ASSUME LabelInv, NEW T, NEW lab, Traced(T, lab), Fits(T), Popframe
  PROVE  Fit(T, T[ip'], gf', frames', tf', calls')
<1>1. /\ Current.op = "POPFRAME" /\ ip <= Len(out) /\ ip' = ip + 1 /\ frames # <<>>
      /\ gf' = gf /\ frames' = Front(frames) /\ calls' = calls
  BY DEF Popframe, Running
<1>2. PICK a : a = T[ip]
  OBVIOUS
<1>3. PICK b : b = T[ip + 1]
  OBVIOUS
<1>4. a \in Facts /\ b \in Facts /\ Check(Current, a, b, lab)
  BY <1>1, <1>2, <1>3, MachineAt
<1>5. Fit(T, a, gf, frames, tf, calls)
  BY <1>2 DEF Fits
<1>6. Move(a, b, "op12", "body") \/ Move(a, b, "body", "leave")
  BY <1>1, <1>4 DEF Check
<1>7. Weaker(a, b) /\ Level(a.shape) = Level(b.shape) + 1 /\ b.shape \in {"body", "leave"}
  BY <1>6, Levels DEF Move
<1>8. PICK u : u = tf'
  OBVIOUS
<1>9. Fit(T, b, gf, Front(frames), u, calls)
  BY <1>1, <1>4, <1>5, <1>7, FitPop
<1> QED BY <1>1, <1>3, <1>8, <1>9

\* The four kinds of declarations.
LEMMA DefvarKinds ==
  ASSUME NEW v, NEW a \in Facts, NEW b \in Facts, CheckDefvar(v, a, b)
  PROVE  \/ Declares(v, a, b) /\ a.shape \in {"body", "arg"} /\ (a.fn => v.frame = "LF") /\ IsVar(v)
         \/ v.frame = "LF" /\ v.id = <<"op", 2>> /\ Move(a, b, "op0", "op2")
         \/ v.frame = "LF" /\ v.id = <<"op", 1>> /\ Move(a, b, "op2", "op12")
         \/ v.frame = "TF" /\ v.id = SlotId /\ Move(a, b, "frame", "slot")
<1>1. CASE /\ IsVar(v) /\ a.shape \in {"body", "arg"} /\ b.shape = a.shape /\ b.fn = a.fn
           /\ a.fn => v.frame = "LF"
           /\ a.bound <= v.id[2] /\ v.id[2] < b.bound /\ b.must \subseteq a.must \union {v}
  BY <1>1, Zenon DEF Declares
<1>2. CASE v = Op(2) /\ Move(a, b, "op0", "op2")
  BY <1>2 DEF Op, Var
<1>3. CASE v = Op(1) /\ Move(a, b, "op2", "op12")
  BY <1>3 DEF Op, Var
<1>4. CASE v = Slot("TF") /\ Move(a, b, "frame", "slot")
  BY <1>4 DEF Slot, Var, SlotId
<1> QED BY <1>1, <1>2, <1>3, <1>4, Zenon DEF CheckDefvar

LEMMA DefvarFits ==
  ASSUME LabelInv, NEW T, NEW lab, Traced(T, lab), Fits(T), Defvar
  PROVE  Fit(T, T[ip'], gf', frames', tf', calls')
<1>1. PICK v : v = Current.arg
  OBVIOUS
<1>2. /\ Current.op = "DEFVAR" /\ ip <= Len(out) /\ ip' = ip + 1 /\ calls' = calls
      /\ gf' = IF v.frame = "GF" THEN gf \union {v.id} ELSE gf
      /\ frames' = IF v.frame = "LF" THEN [frames EXCEPT ![Len(frames)] = @ \union {v.id}] ELSE frames
      /\ tf' = IF v.frame = "TF" THEN <<tf[1] \union {v.id}>> ELSE tf
  BY <1>1 DEF Defvar, Running
<1>3. PICK a : a = T[ip]
  OBVIOUS
<1>4. PICK b : b = T[ip + 1]
  OBVIOUS
<1>5. a \in Facts /\ b \in Facts /\ Check(Current, a, b, lab)
  BY <1>2, <1>3, <1>4, MachineAt
<1>6. Fit(T, a, gf, frames, tf, calls)
  BY <1>3 DEF Fits
<1>7. CheckDefvar(v, a, b)
  BY <1>1, <1>2, <1>5 DEF Check
<1>8. /\ frames \in Seq(SUBSET Ids) /\ Len(calls) \in Nat /\ Len(frames) = Len(calls) + Level(a.shape)
      /\ FitTemp(a, frames, tf)
  BY <1>6 DEF Fit, FitStack
<1>9. PICK fz : fz = [frames EXCEPT ![Len(frames)] = @ \union {v.id}]
  OBVIOUS
<1>10. ASSUME v.id \in Ids, Level(a.shape) > 0, Level(a.shape) \in Nat
       PROVE  TopReplaced(frames, frames[Len(frames)] \union {v.id}, fz)
  <2>1. Len(frames) > 0
    BY <1>8, <1>10
  <2> QED BY <1>8, <1>9, <1>10, <2>1, ReplaceTop
<1>11. <<"op", 1>> \in Ids /\ <<"op", 2>> \in Ids
  BY DEF Ids
<1>12. CASE Declares(v, a, b) /\ a.shape \in {"body", "arg"} /\ (a.fn => v.frame = "LF") /\ IsVar(v)
  <2>1. v.id = <<"var", v.id[2]>> /\ v.id[2] \in Nat /\ v.frame \in {"GF", "LF"}
    BY <1>12, VarFields
  <2>2. v.id \in Ids
    BY <2>1 DEF Ids
  <2>3. CASE v.frame = "GF"
    <3>1. ~a.fn
      BY <1>12, <2>3
    <3>2. Fit(T, b, gf \union {v.id}, frames, tf, calls)
      BY <1>6, <1>12, <2>3, <3>1, FitDeclareGlobal
    <3>3. gf' = gf \union {v.id} /\ frames' = frames /\ tf' = tf
      BY <1>2, <2>3
    <3> QED BY <1>2, <1>4, <3>2, <3>3
  <2>4. CASE v.frame = "LF"
    <3>1. Level(a.shape) = 1
      BY <1>12, Levels
    <3>2. TopReplaced(frames, frames[Len(frames)] \union {v.id}, fz)
      BY <1>10, <2>2, <3>1
    <3>3. Fit(T, b, gf, fz, tf, calls)
      BY <1>6, <1>12, <2>4, <3>2, FitDeclareLocal
    <3>4. gf' = gf /\ frames' = fz /\ tf' = tf
      BY <1>2, <1>9, <2>4
    <3> QED BY <1>2, <1>4, <3>3, <3>4
  <2> QED BY <2>1, <2>3, <2>4
<1>13. CASE v.frame = "LF" /\ v.id = <<"op", 2>> /\ Move(a, b, "op0", "op2")
  <2>1. Weaker(a, b) /\ a.shape = "op0" /\ b.shape = "op2" /\ Level(a.shape) = 2 /\ Level(b.shape) = 2
    BY <1>13, Levels DEF Move
  <2>2. TopReplaced(frames, frames[Len(frames)] \union {v.id}, fz)
    BY <1>10, <1>11, <1>13, <2>1
  <2>3. frames[Len(frames)] \union {v.id} = {<<"op", 2>>}
    BY <1>8, <1>13, <2>1 DEF FitTemp
  <2>4. FitTemp(b, fz, tf)
    BY <2>1, <2>2, <2>3, FitTempIs DEF TopReplaced
  <2>5. Fit(T, b, gf, fz, tf, calls)
    BY <1>5, <1>6, <2>1, <2>2, <2>4, FitFill
  <2>6. gf' = gf /\ frames' = fz /\ tf' = tf
    BY <1>2, <1>9, <1>13
  <2> QED BY <1>2, <1>4, <2>5, <2>6
<1>14. CASE v.frame = "LF" /\ v.id = <<"op", 1>> /\ Move(a, b, "op2", "op12")
  <2>1. Weaker(a, b) /\ a.shape = "op2" /\ b.shape = "op12" /\ Level(a.shape) = 2 /\ Level(b.shape) = 2
    BY <1>14, Levels DEF Move
  <2>2. TopReplaced(frames, frames[Len(frames)] \union {v.id}, fz)
    BY <1>10, <1>11, <1>14, <2>1
  <2>3. frames[Len(frames)] \union {v.id} = {<<"op", 1>>, <<"op", 2>>}
    BY <1>8, <1>14, <2>1 DEF FitTemp
  <2>4. FitTemp(b, fz, tf)
    BY <2>1, <2>2, <2>3, FitTempIs DEF TopReplaced
  <2>5. Fit(T, b, gf, fz, tf, calls)
    BY <1>5, <1>6, <2>1, <2>2, <2>4, FitFill
  <2>6. gf' = gf /\ frames' = fz /\ tf' = tf
    BY <1>2, <1>9, <1>14
  <2> QED BY <1>2, <1>4, <2>5, <2>6
<1>15. CASE v.frame = "TF" /\ v.id = SlotId /\ Move(a, b, "frame", "slot")
  <2>1. Weaker(a, b) /\ a.shape = "frame" /\ b.shape = "slot" /\ Level(a.shape) = Level(b.shape)
    BY <1>15, Levels DEF Move
  <2>2. tf = <<{}>>
    BY <1>8, <2>1 DEF FitTemp
  <2>3. tf[1] = {}
    BY <2>2
  <2>4. tf[1] \union {v.id} = {SlotId}
    BY <1>15, <2>3
  <2>5. gf' = gf /\ frames' = frames /\ tf' = <<{SlotId}>>
    BY <1>2, <1>15, <2>4
  <2>6. FitTemp(b, frames, <<{SlotId}>>)
    BY <2>1, FitTempIs
  <2>7. Fit(T, b, gf, frames, <<{SlotId}>>, calls)
    BY <1>5, <1>6, <2>1, <2>6, FitMove
  <2> QED BY <1>2, <1>4, <2>5, <2>7
<1> QED BY <1>5, <1>7, <1>12, <1>13, <1>14, <1>15, DefvarKinds

LEMMA CallFits ==
  ASSUME LabelInv, CallsKnown, NEW T, NEW lab, Traced(T, lab), Fits(T), Call
  PROVE  Fit(T, T[ip'], gf', frames', tf', calls')
<1>1. /\ phase = "run" /\ Current.op = "CALL" /\ ip <= Len(out) /\ ip' \in Targets(Current.arg)
      /\ calls' = Append(calls, ip + 1) /\ gf' = gf /\ frames' = frames /\ tf' = tf
  BY DEF Call, Running
<1>2. PICK a : a = T[ip]
  OBVIOUS
<1>3. PICK b : b = T[ip + 1]
  OBVIOUS
<1>4. PICK j : j = ip'
  OBVIOUS
<1>5. PICK l : l = Current.arg
  OBVIOUS
<1>6. /\ a \in Facts /\ b \in Facts /\ Check(Current, a, b, lab) /\ Current = out[ip]
      /\ ip \in 1..Len(out) /\ Len(out) \in Nat
  BY <1>1, <1>2, <1>3, MachineAt, LenProperties DEF LabelInv, CodeOK
<1>7. Fit(T, a, gf, frames, tf, calls)
  BY <1>2 DEF Fits
<1>8. PICK f \in Functions : l = Label("FUNCTION", f)
                               /\ Move(a, b, IF Params[f] = 0 THEN "frame" ELSE "slot", "body")
  BY <1>1, <1>5, <1>6 DEF Check
<1>9. f \in Defined
  <2>1. Current \in Calling(Called)
    BY <1>6 DEF CallsKnown
  <2>2. PICK h \in Called : l = Label("FUNCTION", h)
    BY <1>1, <1>5, <2>1 DEF Calling
  <2>3. f = h
    BY <1>8, <2>2, LabelEq
  <2>4. Called \subseteq Defined
    BY <1>1 DEF LabelInv, PhaseOK
  <2> QED BY <2>2, <2>3, <2>4
<1>10. /\ l \in DOMAIN lab /\ lab[l] \in Facts /\ T[j] \in Facts /\ Same(lab[l], T[j])
       /\ lab[l] = EntryOf(f)
  BY <1>1, <1>4, <1>5, <1>6, <1>8, <1>9, TargetFacts DEF Traced
<1>11. PICK e : e = T[j]
  OBVIOUS
<1>12. /\ EntryOf(f).shape = IF Params[f] = 0 THEN "enter0" ELSE "enter1"
       /\ EntryOf(f).fn = TRUE /\ EntryOf(f).must = {}
  BY DEF EntryOf
<1>13. /\ e \in Facts /\ e.shape = IF Params[f] = 0 THEN "enter0" ELSE "enter1"
       /\ e.fn = TRUE /\ e.must = {}
  <2>1. Same(EntryOf(f), e) /\ e \in Facts
    BY <1>10, <1>11
  <2>2. EntryOf(f).shape = e.shape /\ EntryOf(f).fn = e.fn /\ e.must \subseteq EntryOf(f).must
    BY <2>1, Zenon DEF Same, Weaker
  <2>3. e.fn = TRUE
    BY <1>12, <2>2, Zenon
  <2>4. e.must = {} /\ e.shape = IF Params[f] = 0 THEN "enter0" ELSE "enter1"
    BY <1>12, <2>2
  <2> QED BY <2>1, <2>3, <2>4
<1>14. FitTemp(a, frames, tf)
  BY <1>7 DEF Fit
<1>15. /\ Weaker(a, b) /\ b.shape = "body" /\ a.shape = IF Params[f] = 0 THEN "frame" ELSE "slot"
       /\ Level(a.shape) = 1 /\ Level(e.shape) = 0
  BY <1>8, <1>13, Levels DEF Move
<1>16. FitTemp(e, frames, tf)
  <2>1. CASE Params[f] = 0
    <3>1. tf = <<{}>> /\ e.shape = "enter0"
      BY <1>13, <1>14, <1>15, <2>1 DEF FitTemp
    <3> QED BY <1>13, <3>1, FitTempIs
  <2>2. CASE Params[f] # 0
    <3>1. tf = <<{SlotId}>> /\ e.shape = "enter1"
      BY <1>13, <1>14, <1>15, <2>2 DEF FitTemp
    <3> QED BY <1>13, <3>1, FitTempIs
  <2> QED BY <2>1, <2>2
<1>17. calls \in Seq(2..(Len(out) + 1)) /\ ip + 1 \in 2..(Len(out) + 1)
  BY <1>6 DEF LabelInv, MachineOK
<1>18. PICK r : r = ip + 1
  OBVIOUS
<1>19. r \in 2..(Len(out) + 1) /\ T[r] = b
  BY <1>3, <1>17, <1>18
<1>20. e.fn
  BY <1>13
<1>21. Fit(T, e, gf, frames, tf, Append(calls, r))
  BY <1>6, <1>7, <1>13, <1>15, <1>16, <1>17, <1>19, <1>20, FitCall
<1> QED BY <1>1, <1>4, <1>11, <1>18, <1>21

LEMMA ReturnFits ==
  ASSUME LabelInv, NEW T, NEW lab, Traced(T, lab), Fits(T), Return
  PROVE  Fit(T, T[ip'], gf', frames', tf', calls')
<1>1. /\ Current.op = "RETURN" /\ ip <= Len(out) /\ calls # <<>> /\ ip' = Last(calls)
      /\ calls' = Front(calls) /\ gf' = gf /\ frames' = frames /\ tf' = tf
  BY DEF Return, Running
<1>2. PICK a : a = T[ip]
  OBVIOUS
<1>3. Check(Current, a, T[ip + 1], lab)
  BY <1>1, <1>2, MachineAt
<1>4. a.shape = "leave"
  BY <1>1, <1>3 DEF Check
<1>5. Fit(T, a, gf, frames, tf, calls)
  BY <1>2 DEF Fits
<1>6. calls \in Seq(2..(Len(out) + 1))
  BY DEF LabelInv, MachineOK
<1>7. Fit(T, T[Last(calls)], gf, frames, tf, Front(calls))
  BY <1>1, <1>4, <1>5, <1>6, FitReturn
<1> QED BY <1>1, <1>7

LEMMA MachineFits ==
  ASSUME LabelInv, CallsKnown, NEW T, NEW lab, Traced(T, lab), Fits(T), Machine
  PROVE  Fits(T)'
<1>1. Fit(T, T[ip'], gf', frames', tf', calls')
  BY ComputeFits, JumpFits, UseFits, DefvarFits, CreateframeFits, PushframeFits, PopframeFits,
     CallFits, ReturnFits DEF Machine
<1> QED BY <1>1 DEF Fits

-----------------------------------------------------------------------------
(* The theorems.                                                           *)

Parses == \E lab, fl, e : Annotated(lab, fl, e)
Runs == \E T, lab : Traced(T, lab) /\ Fits(T)

\* Until the program is complete, the machine has not started, and what is printed
\* leads to the end of the output; then, the machine is as the facts say.
RunInv ==
  /\ LabelInv /\ VarsOK /\ CallsKnown
  /\ phase = "parse" => gf = {} /\ frames = <<>>
  /\ ~NameClash /\ ~ArgumentInLoop => IF phase = "parse" THEN Parses ELSE Runs

LEMMA RunInvInit ==
  ASSUME Init
  PROVE  RunInv
<1>1. LabelInv
  BY LabelInvInit
<1>2. /\ source = <<>> /\ open = <<>> /\ globals = {} /\ unique_id = 0 /\ print_buffer = <<>> /\ phase = "parse"
      /\ out = code_generator_prolog /\ gf = {} /\ frames = <<>>
  BY DEF Init
<1>3. Len(source) = 0 /\ Len(open) = 0
  BY <1>2
<1>4. VarsOK
  BY <1>2, <1>3 DEF VarsOK
<1>5. CallsKnown
  <2>1. <<>> \in Seq(Calling(Called))
    OBVIOUS
  <2>2. out \in Seq(Calling(Called))
    BY <1>2, PrologCalls
  <2> QED BY <1>2, <2>1, <2>2 DEF CallsKnown
<1> DEFINE heads == {Label("FUNCTION", f) : f \in Builtins}
           ends == {Label("FUNCTION", EndName[f]) : f \in Builtins}
<1>6. PICK lab : lab = [l \in heads \union ends |-> IF l \in heads THEN Entry0 ELSE Start]
  OBVIOUS
<1>7. PICK none : none = [l \in {} |-> Boot]
  OBVIOUS
<1>8. PICK e : e = Start
  OBVIOUS
<1>9. e \in Facts /\ e.shape = "body" /\ e.fn = FALSE /\ e.must = {} /\ e.bound = 0 /\ Entry0 \in Facts
  BY <1>8 DEF Start, Entry0, Body, Facts, Shapes
<1>10. Defined = {} /\ Known = Builtins
  <2>1. Defined = {}
    BY <1>3, InDefined
  <2> QED BY <2>1 DEF Known
<1>11. Typed(lab, none)
  <2>1. DOMAIN lab = heads \union ends /\ DOMAIN none = {}
    BY <1>6, <1>7
  <2>2. \A l \in DOMAIN lab : lab[l] \in Facts
    BY <1>6, <1>8, <1>9, <2>1
  <2>3. \A l \in DOMAIN lab : GivenOut(l)
    BY <1>10, <2>1 DEF GivenOut
  <2> QED BY <1>10, <2>1, <2>2, <2>3 DEF Typed
<1>12. EndOK(e)
  <2>1. InFunction = FALSE
    BY <1>2 DEF InFunction
  <2>2. e.fn = InFunction
    BY <1>9, <2>1, Zenon
  <2>3. Sure(Len(open)) \subseteq e.must
    BY <1>2, <1>3, <2>1 DEF Sure
  <2> QED BY <1>2, <1>9, <2>2, <2>3, Zenon DEF EndOK
<1>13. CodeLeads(lab, none, e)
  <2>1. ASSUME NEW f \in Builtins
        PROVE  /\ Label("FUNCTION", f) \in DOMAIN lab /\ lab[Label("FUNCTION", f)] = Entry0
               /\ Label("FUNCTION", EndName[f]) \in DOMAIN lab
               /\ lab[Label("FUNCTION", EndName[f])] = Start
    <3>1. Label("FUNCTION", f) \in heads /\ Label("FUNCTION", EndName[f]) \in ends
      OBVIOUS
    <3>2. f \in DOMAIN EndName /\ EndName[f] \notin Builtins
      BY ControlFlowAssumption
    <3>3. Label("FUNCTION", EndName[f]) \notin heads
      BY <3>2, LabelEq
    <3> QED BY <1>6, <3>1, <3>3
  <2>2. Leads(out, Boot, e, lab, Facts)
    BY <1>2, <1>8, <2>1, PrologLeads
  <2>3. Leads(print_buffer, e, e, FlatLab(none, e), Flat(e))
    BY <1>2, <1>9, FactFields, LeadsEmpty
  <2> QED BY <2>2, <2>3 DEF CodeLeads
<1>14. Annotated(lab, none, e)
  BY <1>3, <1>11, <1>12, <1>13 DEF Annotated
<1>15. Parses
  BY <1>14 DEF Parses
<1> QED BY <1>1, <1>2, <1>4, <1>5, <1>15 DEF RunInv

\* The steps of the parser but for the last.
Continues ==
  \/ define
  \/ \E nils \in 0..1 : while(nils) \/ \E let \in BOOLEAN : if(nils, let)
  \/ \E var \in Visible : assign(var)
  \/ \E f \in Functions : func(f) \/ call(f)
  \/ else \/ EndIf \/ EndWhile \/ EndFunc \/ return

LEMMA ContinuesIn ==
  ASSUME Continues
  PROVE  phase = "parse" /\ phase' = "parse" /\ gf' = gf /\ frames' = frames
<1>1. ASSUME Parse PROVE phase = "parse" /\ phase' = "parse" /\ gf' = gf /\ frames' = frames
  BY <1>1 DEF Parse, Statement, machineVars
<1>2. ASSUME phase = "parse", CloseUnchanged
      PROVE  phase' = "parse" /\ gf' = gf /\ frames' = frames
  BY <1>2 DEF CloseUnchanged, machineVars
<1>3. CASE Parse
  BY <1>1, <1>3
<1>4. CASE phase = "parse" /\ CloseUnchanged
  BY <1>2, <1>4
<1>5. Parse \/ (phase = "parse" /\ CloseUnchanged)
  BY DEF Continues, define, while, if, assign, func, call, else, EndIf, EndWhile, EndFunc, return
<1> QED BY <1>3, <1>4, <1>5

LEMMA ContinuesParses ==
  ASSUME LabelInv, LabelInv', VarsOK, ~NameClash', ~ArgumentInLoop', Parses, Continues
  PROVE  Parses'
<1>1. PICK lab, fl, e : Annotated(lab, fl, e)
  BY DEF Parses
<1>2. ASSUME \E more, fm, b : Annotated(more, fm, b)' PROVE Parses'
  BY <1>2 DEF Parses
<1>3. CASE define
  BY <1>1, <1>2, <1>3, DefineAnnotated
<1>4. ASSUME NEW nils \in 0..1, while(nils) PROVE Parses'
  BY <1>1, <1>2, <1>4, WhileAnnotated
<1>5. ASSUME NEW nils \in 0..1, NEW let \in BOOLEAN, if(nils, let) PROVE Parses'
  BY <1>1, <1>2, <1>5, IfAnnotated
<1>6. ASSUME NEW var \in Visible, assign(var) PROVE Parses'
  BY <1>1, <1>2, <1>6, AssignAnnotated
<1>7. ASSUME NEW f \in Functions, func(f) PROVE Parses'
  BY <1>1, <1>2, <1>7, FuncAnnotated
<1>8. ASSUME NEW f \in Functions, call(f) PROVE Parses'
  BY <1>1, <1>2, <1>8, CallAnnotated
<1>9. CASE else
  BY <1>1, <1>2, <1>9, ElseAnnotated
<1>10. CASE EndIf
  BY <1>1, <1>2, <1>10, EndIfAnnotated
<1>11. CASE EndWhile
  BY <1>1, <1>2, <1>11, EndWhileAnnotated
<1>12. CASE EndFunc
  BY <1>1, <1>2, <1>12, EndFuncAnnotated
<1>13. CASE return
  BY <1>1, <1>2, <1>13, ReturnAnnotated
<1> QED BY <1>3, <1>4, <1>5, <1>6, <1>7, <1>8, <1>9, <1>10, <1>11, <1>12, <1>13 DEF Continues

LEMMA EofRuns ==
  ASSUME LabelInv, LabelInv', Parses, gf = {}, frames = <<>>, Eof
  PROVE  Runs'
<1>1. PICK lab, fl, e : Annotated(lab, fl, e)
  BY DEF Parses
<1>2. PICK more : Loaded(more, e)'
  BY <1>1, EofLoaded
<1>3. /\ Leads(out', Boot, e, more, Facts) /\ \A l \in DOMAIN more : more[l] \in Facts
      /\ \A f \in Defined' : Label("FUNCTION", f) \in DOMAIN more /\ more[Label("FUNCTION", f)] = EntryOf(f)
  BY <1>2 DEF Loaded
<1>4. PICK T : IsFlow(T, out', Boot, e, more, Facts)
  BY <1>3 DEF Leads, Flows
<1>5. Traced(T, more)'
  BY <1>3, <1>4 DEF IsFlow, Traced
<1>6. phase = "parse" /\ gf' = gf /\ frames' = frames /\ ip' = ip /\ calls' = calls
  BY DEF Eof, machineVars
<1>7. ip = 1 /\ calls = <<>>
  BY <1>6 DEF LabelInv, MachineOK
<1>8. PICK t : t = tf'
  OBVIOUS
<1>9. Boot \in Facts /\ Boot.shape = "boot" /\ Boot.fn = FALSE /\ Boot.must = {} /\ Boot.bound = 0
  BY DEF Boot, Facts, Shapes
<1>10. Level("boot") = 0 /\ Len(<<>>) = 0
  BY Levels
<1>11. FitStack(Boot, <<>>, <<>>)
  BY <1>9, <1>10 DEF FitStack
<1>12. FitCallers(T, <<>>, <<>>) /\ FitGlobal(T, Boot, {}, <<>>)
  BY <1>9, <1>10 DEF FitCallers, FitGlobal, Holds
<1>13. FitFn(Boot, <<>>) /\ FitTemp(Boot, <<>>, t)
  <2>1. ~(Len(<<>>) > 0)
    BY <1>10
  <2>2. FitFn(Boot, <<>>)
    BY <1>9, <2>1, Zenon DEF FitFn
  <2> QED BY <1>9, <2>2 DEF FitTemp
<1>14. Fit(T, Boot, {}, <<>>, t, <<>>)
  BY <1>9, <1>11, <1>12, <1>13 DEF Fit
<1>15. T[1] = Boot
  BY <1>4 DEF IsFlow
<1>16. Fits(T)'
  BY <1>6, <1>7, <1>8, <1>14, <1>15 DEF Fits
<1> QED BY <1>5, <1>16 DEF Runs

LEMMA TracedKept ==
  ASSUME NEW T, NEW lab, Traced(T, lab), out' = out, source' = source
  PROVE  Traced(T, lab)'
BY DEF Traced, Defined

LEMMA RunInvNext ==
  ASSUME RunInv, [Next]_vars
  PROVE  RunInv'
<1>1. /\ LabelInv /\ VarsOK /\ CallsKnown /\ (phase = "parse" => gf = {} /\ frames = <<>>)
      /\ (~NameClash /\ ~ArgumentInLoop => IF phase = "parse" THEN Parses ELSE Runs)
  BY DEF RunInv
<1>2. LabelInv' /\ Lasting
  BY <1>1, LabelInvNext
<1>3. ~NameClash' /\ ~ArgumentInLoop' => ~NameClash /\ ~ArgumentInLoop
  BY <1>2 DEF Lasting
<1>4. CASE Continues
  <2>1. Next
    BY <1>4 DEF Next, Continues
  <2>2. VarsOK' /\ CallsKnown'
    BY <1>1, <1>2, <2>1, VarsStep, CallsStep
  <2>3. phase = "parse" /\ phase' = "parse" /\ gf' = {} /\ frames' = <<>>
    BY <1>1, <1>4, ContinuesIn
  <2>4. ~NameClash' /\ ~ArgumentInLoop' => Parses'
    BY <1>1, <1>2, <1>3, <1>4, <2>3, ContinuesParses
  <2> QED BY <1>2, <2>2, <2>3, <2>4 DEF RunInv
<1>5. CASE Eof
  <2>1. Next
    BY <1>5 DEF Next
  <2>2. VarsOK' /\ CallsKnown'
    BY <1>1, <1>2, <2>1, VarsStep, CallsStep
  <2>3. phase = "parse" /\ phase' = "load"
    BY <1>5 DEF Eof
  <2>4. ~NameClash' /\ ~ArgumentInLoop' => Runs'
    BY <1>1, <1>2, <1>3, <1>5, <2>3, EofRuns
  <2> QED BY <1>2, <2>2, <2>3, <2>4 DEF RunInv
<1>6. CASE Load
  <2>1. Next
    BY <1>6 DEF Next
  <2>2. VarsOK' /\ CallsKnown'
    BY <1>1, <1>2, <2>1, VarsStep, CallsStep
  <2>3. /\ phase = "load" /\ phase' \in {"run", "rejected"} /\ out' = out /\ source' = source
        /\ ip' = ip /\ gf' = gf /\ frames' = frames /\ tf' = tf /\ calls' = calls
    BY <1>6 DEF Load, parserVars, generatorVars, machineVars
  <2>4. ASSUME Runs PROVE Runs'
    <3>1. PICK T, lab : Traced(T, lab) /\ Fits(T)
      BY <2>4 DEF Runs
    <3>2. Traced(T, lab)'
      BY <2>3, <3>1, TracedKept
    <3>3. Fits(T)'
      BY <2>3, <3>1 DEF Fits
    <3> QED BY <3>2, <3>3 DEF Runs
  <2> QED BY <1>1, <1>2, <1>3, <2>2, <2>3, <2>4 DEF RunInv
<1>7. CASE Machine /\ UNCHANGED <<parserVars, generatorVars, phase>>
  <2>1. Next
    BY <1>7 DEF Next
  <2>2. VarsOK' /\ CallsKnown'
    BY <1>1, <1>2, <2>1, VarsStep, CallsStep
  <2>3. phase' = phase /\ out' = out /\ source' = source
    BY <1>7 DEF parserVars, generatorVars
  <2>4. phase = "run"
    BY <1>7 DEF Machine, Compute, Jump, Use, Defvar, Createframe, Pushframe, Popframe, Call, Return, Running
  <2>5. ASSUME Runs PROVE Runs'
    <3>1. PICK T, lab : Traced(T, lab) /\ Fits(T)
      BY <2>5 DEF Runs
    <3>2. Traced(T, lab)'
      BY <2>3, <3>1, TracedKept
    <3>3. Fits(T)'
      BY <1>1, <1>7, <3>1, MachineFits
    <3> QED BY <3>2, <3>3 DEF Runs
  <2> QED BY <1>1, <1>2, <1>3, <2>2, <2>3, <2>4, <2>5 DEF RunInv
<1>8. CASE UNCHANGED vars
  <2>1. /\ source' = source /\ open' = open /\ globals' = globals /\ cond_uid' = cond_uid
        /\ loop_uid' = loop_uid /\ unique_id' = unique_id /\ print_buffer' = print_buffer /\ out' = out
        /\ phase' = phase /\ ip' = ip /\ gf' = gf /\ frames' = frames /\ tf' = tf /\ calls' = calls
    BY <1>8 DEF vars, parserVars, generatorVars, machineVars
  <2>2. VarsOK' /\ CallsKnown'
    BY <1>1, <2>1 DEF VarsOK, CallsKnown, Called
  <2>3. ASSUME Runs PROVE Runs'
    <3>1. PICK T, lab : Traced(T, lab) /\ Fits(T)
      BY <2>3 DEF Runs
    <3>2. Traced(T, lab)'
      BY <2>1, <3>1, TracedKept
    <3>3. Fits(T)'
      BY <2>1, <3>1 DEF Fits
    <3> QED BY <3>2, <3>3 DEF Runs
  <2>4. ASSUME Parses PROVE Parses'
    <3>1. PICK lab, fl, e : Annotated(lab, fl, e)
      BY <2>4 DEF Parses
    <3>2. Defined' = Defined /\ Known' = Known /\ InFunction' = InFunction /\ CurrentFunction' = CurrentFunction
      BY <2>1, SameFunctions DEF InFunction, CurrentFunction
    <3>3. \A l : GivenOut(l)' <=> GivenOut(l)
      BY <2>1, <3>2 DEF GivenOut
    <3>4. Typed(lab, fl)'
      BY <3>1, <3>2, <3>3 DEF Annotated, Typed
    <3>5. \A k : Sure(k)' = Sure(k) /\ InLoop(k)' = InLoop(k)
      BY <2>1, <3>2 DEF Sure, InLoop
    <3>6. EndOK(e)'
      BY <2>1, <3>1, <3>2, <3>5 DEF Annotated, EndOK
    <3>7. CodeLeads(lab, fl, e)'
      BY <2>1, <3>1 DEF Annotated, CodeLeads
    <3>8. \A k \in 1..Len(open') : Pending(k, lab, fl)'
      BY <2>1, <3>1, <3>2, <3>5 DEF Annotated, Pending, Joins, JoinsInLoop
    <3> QED BY <3>4, <3>6, <3>7, <3>8 DEF Parses, Annotated
  <2> QED BY <1>1, <1>2, <1>3, <2>1, <2>2, <2>3, <2>4 DEF RunInv
<1> QED BY <1>4, <1>5, <1>6, <1>7, <1>8 DEF Next, Continues

LEMMA RunInvAlways == Spec => []RunInv
<1>1. Init => RunInv
  BY RunInvInit
<1>2. RunInv /\ [Next]_vars => RunInv'
  BY RunInvNext
<1> QED BY <1>1, <1>2, PTL DEF Spec

\* While the output is executed, the machine is as the facts at its position say.
LEMMA RunningFits ==
  ASSUME RunInv, ~ArgumentInLoop, phase = "run", ip <= Len(out)
  PROVE  \E a, b, T, lab : /\ a \in Facts /\ b \in Facts /\ Check(Current, a, b, lab)
                           /\ Fit(T, a, gf, frames, tf, calls)
<1>1. ~NameClash
  BY LabelsResolved DEF RunInv, LabelsResolve
<1>2. PICK T, lab : Traced(T, lab) /\ Fits(T)
  BY <1>1 DEF RunInv, Runs
<1>3. T[ip] \in Facts /\ T[ip + 1] \in Facts /\ Check(Current, T[ip], T[ip + 1], lab)
  BY <1>2, MachineAt DEF RunInv
<1> QED BY <1>2, <1>3 DEF Fits

\* No DEFVAR that the machine comes to declares a variable its frame already has:
\* not in a loop, where code_generator_defvar prints it before the loop, nor in a
\* function that is called again, nor for the operands of a ?? or an argument.  It
\* holds of every program and run that pass no argument inside a loop.
THEOREM NeverRedeclared == Spec => []NoRedeclaration
<1>1. RunInv => NoRedeclaration
  <2> SUFFICES ASSUME RunInv, ~ArgumentInLoop, Running({"DEFVAR"}), IsDeclared(Current.arg)
               PROVE  FALSE
    BY DEF NoRedeclaration
  <2>1. phase = "run" /\ ip <= Len(out) /\ Current.op = "DEFVAR"
    BY DEF Running
  <2>2. PICK a, b, T, lab : /\ a \in Facts /\ b \in Facts /\ Check(Current, a, b, lab)
                            /\ Fit(T, a, gf, frames, tf, calls)
    BY <2>1, RunningFits
  <2>3. PICK v : v = Current.arg
    OBVIOUS
  <2>4. CheckDefvar(v, a, b)
    BY <2>1, <2>2, <2>3 DEF Check
  <2>5. PICK ids \in Frame(v.frame) : v.id \in ids
    BY <2>3 DEF IsDeclared
  <2>6. /\ frames \in Seq(SUBSET Ids) /\ Len(calls) \in Nat /\ Len(frames) = Len(calls) + Level(a.shape)
        /\ (Level(a.shape) > 0 => Holds(frames[Len(calls) + 1], a, "LF"))
        /\ FitTemp(a, frames, tf) /\ FitFn(a, calls) /\ FitGlobal(T, a, gf, calls)
    BY <2>2 DEF Fit, FitStack
  <2>7. v.frame = "LF" => ids = frames[Len(frames)]
    <3>1. v.frame = "LF" => ids = Last(frames)
      BY <2>5, FrameIs
    <3> QED BY <3>1 DEF Last
  <2>8. CASE Declares(v, a, b) /\ a.shape \in {"body", "arg"} /\ (a.fn => v.frame = "LF") /\ IsVar(v)
    <3>1. /\ v.id = <<"var", v.id[2]>> /\ v.id[2] \in Nat /\ v.frame \in {"GF", "LF"}
          /\ a.bound <= v.id[2] /\ a.bound \in Nat
      BY <2>2, <2>8, VarFields, FactFields DEF Declares
    <3>2. Holds(ids, a, v.frame)
      <4>1. CASE v.frame = "GF"
        <5>1. ~a.fn
          BY <2>8, <4>1
        <5>2. ~(Len(calls) > 0)
          BY <2>6, <5>1, Zenon DEF FitFn
        <5>3. Len(calls) = 0
          BY <2>6, <5>2
        <5>4. ids = gf
          BY <2>5, <4>1, FrameIs
        <5> QED BY <2>6, <4>1, <5>3, <5>4 DEF FitGlobal
      <4>2. CASE v.frame = "LF"
        <5>1. Level(a.shape) = 1
          BY <2>8, Levels
        <5> QED BY <2>6, <2>7, <4>2, <5>1
      <4> QED BY <3>1, <4>1, <4>2
    <3>3. PICK n \in Nat : n = v.id[2]
      BY <3>1
    <3>4. <<"var", n>> \in ids
      BY <2>5, <3>1, <3>3
    <3>5. n < a.bound
      BY <3>2, <3>4 DEF Holds
    <3> QED BY <3>1, <3>3, <3>5
  <2>9. CASE v.frame = "LF" /\ v.id = <<"op", 2>> /\ Move(a, b, "op0", "op2")
    <3>1. ids = {}
      BY <2>6, <2>7, <2>9 DEF FitTemp, Move
    <3> QED BY <2>5, <3>1
  <2>10. CASE v.frame = "LF" /\ v.id = <<"op", 1>> /\ Move(a, b, "op2", "op12")
    <3>1. ids = {<<"op", 2>>}
      BY <2>6, <2>7, <2>10 DEF FitTemp, Move
    <3>2. <<"op", 1>> # <<"op", 2>>
      OBVIOUS
    <3> QED BY <2>5, <2>10, <3>1, <3>2
  <2>11. CASE v.frame = "TF" /\ v.id = SlotId /\ Move(a, b, "frame", "slot")
    <3>1. tf = <<{}>>
      BY <2>6, <2>11 DEF FitTemp, Move
    <3>2. Len(tf) = 1 /\ tf[1] = {}
      BY <3>1
    <3>3. ids = {}
      BY <2>5, <2>11, <3>2, FrameIs
    <3> QED BY <2>5, <3>3
  <2> QED BY <2>2, <2>4, <2>8, <2>9, <2>10, <2>11, DefvarKinds
<1> QED BY <1>1, RunInvAlways, PTL

\* Every variable an instruction of the output names is declared in the frame that
\* is current when the machine comes to it, and every frame the output pushes, pops
\* or declares in exists: CREATEFRAME, PUSHFRAME and POPFRAME are balanced on every
\* path through blocks, calls and returns.  Excluded are programs that pass an
\* argument inside a loop, and global variables that a function uses.
THEOREM DeclaredAlways == Spec => []DeclaredWhenUsed
<1>1. RunInv => DeclaredWhenUsed
  <2> SUFFICES ASSUME RunInv, ~ArgumentInLoop
               PROVE  /\ Running({"USE"}) /\ (Current.arg.frame = "GF" => calls = <<>>) => IsDeclared(Current.arg)
                      /\ Running({"DEFVAR"}) => Frame(Current.arg.frame) # {}
                      /\ Running({"POPFRAME"}) => Len(frames) > 1
                      /\ Running({"PUSHFRAME"}) => tf # <<>>
    BY DEF DeclaredWhenUsed
  <2>1. ASSUME phase = "run", ip <= Len(out)
        PROVE  \E a, b, T, lab : /\ a \in Facts /\ b \in Facts /\ Check(Current, a, b, lab)
                                 /\ Fit(T, a, gf, frames, tf, calls)
    BY <2>1, RunningFits
  <2>2. ASSUME NEW a, NEW T, Fit(T, a, gf, frames, tf, calls)
        PROVE  /\ frames \in Seq(SUBSET Ids) /\ Len(calls) \in Nat /\ Len(frames) = Len(calls) + Level(a.shape)
               /\ (Level(a.shape) > 0 => Holds(frames[Len(calls) + 1], a, "LF"))
               /\ FitTemp(a, frames, tf) /\ FitFn(a, calls) /\ FitGlobal(T, a, gf, calls)
               /\ (Level(a.shape) > 0 => frames # <<>> /\ Last(frames) \in Frame("LF"))
    <3>1. /\ frames \in Seq(SUBSET Ids) /\ Len(calls) \in Nat /\ Len(frames) = Len(calls) + Level(a.shape)
          /\ (Level(a.shape) > 0 => Holds(frames[Len(calls) + 1], a, "LF"))
          /\ FitTemp(a, frames, tf) /\ FitFn(a, calls) /\ FitGlobal(T, a, gf, calls) /\ a \in Facts
      BY <2>2 DEF Fit, FitStack
    <3>2. Level(a.shape) \in 0..2
      BY <3>1, Levels, FactFields
    <3>3. ASSUME Level(a.shape) > 0 PROVE frames # <<>>
      <4>1. Len(frames) > 0
        BY <3>1, <3>2, <3>3
      <4> QED BY <4>1
    <3>4. frames # <<>> => Last(frames) \in Frame("LF")
      BY FrameIs
    <3> QED BY <3>1, <3>3, <3>4
  <2>3. ASSUME Running({"USE"}), Current.arg.frame = "GF" => calls = <<>> PROVE IsDeclared(Current.arg)
    <3>1. phase = "run" /\ ip <= Len(out) /\ Current.op = "USE"
      BY <2>3 DEF Running
    <3>2. PICK a, b, T, lab : /\ a \in Facts /\ b \in Facts /\ Check(Current, a, b, lab)
                              /\ Fit(T, a, gf, frames, tf, calls)
      BY <2>1, <3>1
    <3>3. PICK v : v = Current.arg
      OBVIOUS
    <3>4. CheckUse(v, a, b)
      BY <3>1, <3>2, <3>3 DEF Check
    <3>5. /\ Len(calls) \in Nat /\ Len(frames) = Len(calls) + Level(a.shape)
          /\ (Level(a.shape) > 0 => Holds(frames[Len(calls) + 1], a, "LF"))
          /\ FitTemp(a, frames, tf) /\ FitFn(a, calls) /\ FitGlobal(T, a, gf, calls)
          /\ (Level(a.shape) > 0 => frames # <<>> /\ Last(frames) \in Frame("LF"))
      BY <2>2, <3>2
    <3>6. Last(frames) = frames[Len(frames)]
      BY DEF Last
    <3>7. \E ids \in Frame(v.frame) : v.id \in ids
      <4>1. CASE /\ IsVar(v) /\ a.shape \in {"body", "arg"}
                 /\ v \in a.must \/ (a.fn /\ v.frame = "GF")
        <5>1. Level(a.shape) = 1 /\ v.frame \in {"GF", "LF"}
          BY <4>1, Levels, VarFields
        <5>2. CASE v.frame = "GF"
          <6>1. calls = <<>>
            BY <2>3, <3>3, <5>2
          <6>2. Len(calls) = 0
            BY <6>1
          <6>3. ~(Len(calls) > 0)
            BY <6>2
          <6>4. ~a.fn
            BY <3>5, <6>3, Zenon DEF FitFn
          <6>5. v \in a.must
            BY <4>1, <6>4
          <6>6. Holds(gf, a, "GF") /\ gf \in Frame("GF")
            BY <3>5, <6>2, FrameIs DEF FitGlobal
          <6> QED BY <5>2, <6>5, <6>6 DEF Holds
        <5>3. CASE v.frame = "LF"
          <6>1. v \in a.must
            BY <4>1, <5>3
          <6>2. Holds(Last(frames), a, "LF") /\ Last(frames) \in Frame("LF")
            BY <3>5, <3>6, <5>1
          <6> QED BY <5>3, <6>1, <6>2 DEF Holds
        <5> QED BY <5>1, <5>2, <5>3
      <4>2. CASE v = Op(2) /\ a.shape \in {"op2", "op12"}
        <5>1. v.frame = "LF" /\ v.id = <<"op", 2>> /\ Level(a.shape) = 2
          BY <4>2, Levels DEF Op, Var
        <5>2. <<"op", 2>> \in Last(frames)
          BY <3>5, <3>6, <4>2 DEF FitTemp
        <5> QED BY <3>5, <5>1, <5>2
      <4>3. CASE v = Op(1) /\ a.shape = "op12"
        <5>1. v.frame = "LF" /\ v.id = <<"op", 1>> /\ Level(a.shape) = 2
          BY <4>3, Levels DEF Op, Var
        <5>2. <<"op", 1>> \in Last(frames)
          BY <3>5, <3>6, <4>3 DEF FitTemp
        <5> QED BY <3>5, <5>1, <5>2
      <4>4. CASE v = Slot("TF") /\ a.shape = "slot"
        <5>1. v.frame = "TF" /\ v.id = SlotId
          BY <4>4 DEF Slot, Var, SlotId
        <5>2. tf = <<{SlotId}>>
          BY <3>5, <4>4 DEF FitTemp
        <5>3. Len(tf) = 1 /\ tf[1] = {SlotId}
          BY <5>2
        <5>4. tf[1] \in Frame("TF")
          BY <5>3, FrameIs
        <5> QED BY <5>1, <5>3, <5>4
      <4>5. CASE v = Slot("LF") /\ a.shape = "arg"
        <5>1. v.frame = "LF" /\ v.id = SlotId /\ Level(a.shape) = 1
          BY <4>5, Levels DEF Slot, Var, SlotId
        <5>2. SlotId \in Last(frames)
          BY <3>5, <3>6, <4>5 DEF FitTemp
        <5> QED BY <3>5, <5>1, <5>2
      <4> QED BY <3>4, <4>1, <4>2, <4>3, <4>4, <4>5, Zenon DEF CheckUse, Move
    <3> QED BY <3>3, <3>7 DEF IsDeclared
  <2>4. ASSUME Running({"DEFVAR"}) PROVE Frame(Current.arg.frame) # {}
    <3>1. phase = "run" /\ ip <= Len(out) /\ Current.op = "DEFVAR"
      BY <2>4 DEF Running
    <3>2. PICK a, b, T, lab : /\ a \in Facts /\ b \in Facts /\ Check(Current, a, b, lab)
                              /\ Fit(T, a, gf, frames, tf, calls)
      BY <2>1, <3>1
    <3>3. PICK v : v = Current.arg
      OBVIOUS
    <3>4. CheckDefvar(v, a, b)
      BY <3>1, <3>2, <3>3 DEF Check
    <3>5. FitTemp(a, frames, tf) /\ (Level(a.shape) > 0 => Last(frames) \in Frame("LF"))
      BY <2>2, <3>2
    <3>6. CASE Declares(v, a, b) /\ a.shape \in {"body", "arg"} /\ (a.fn => v.frame = "LF") /\ IsVar(v)
      <4>1. Level(a.shape) = 1 /\ v.frame \in {"GF", "LF"} /\ gf \in Frame("GF")
        BY <3>6, Levels, VarFields, FrameIs
      <4>2. Level(a.shape) > 0
        BY <4>1
      <4> QED BY <3>3, <3>5, <4>1, <4>2
    <3>7. CASE v.frame = "LF" /\ (Move(a, b, "op0", "op2") \/ Move(a, b, "op2", "op12"))
      <4>1. Level(a.shape) = 2
        BY <3>7, Levels DEF Move
      <4>2. Level(a.shape) > 0
        BY <4>1
      <4> QED BY <3>3, <3>5, <3>7, <4>2
    <3>8. CASE v.frame = "TF" /\ Move(a, b, "frame", "slot")
      <4>1. tf = <<{}>>
        BY <3>5, <3>8 DEF FitTemp, Move
      <4>2. Len(tf) = 1
        BY <4>1
      <4>3. tf[1] \in Frame("TF")
        BY <4>2, FrameIs
      <4> QED BY <3>3, <3>8, <4>3
    <3> QED BY <3>2, <3>4, <3>6, <3>7, <3>8, DefvarKinds
  <2>5. ASSUME Running({"POPFRAME"}) PROVE Len(frames) > 1
    <3>1. phase = "run" /\ ip <= Len(out) /\ Current.op = "POPFRAME"
      BY <2>5 DEF Running
    <3>2. PICK a, b, T, lab : /\ a \in Facts /\ b \in Facts /\ Check(Current, a, b, lab)
                              /\ Fit(T, a, gf, frames, tf, calls)
      BY <2>1, <3>1
    <3>3. Len(calls) \in Nat /\ Len(frames) = Len(calls) + Level(a.shape) /\ FitFn(a, calls)
      BY <2>2, <3>2
    <3>4. CASE Move(a, b, "op12", "body")
      <4>1. Level(a.shape) = 2
        BY <3>4, Levels DEF Move
      <4> QED BY <3>3, <4>1
    <3>5. CASE a.fn /\ Move(a, b, "body", "leave")
      <4>1. Level(a.shape) = 1
        BY <3>5, Levels DEF Move
      <4>2. Len(calls) > 0
        BY <3>3, <3>5, Zenon DEF FitFn
      <4> QED BY <3>3, <4>1, <4>2
    <3> QED BY <3>1, <3>2, <3>4, <3>5 DEF Check
  <2>6. ASSUME Running({"PUSHFRAME"}) PROVE tf # <<>>
    <3>1. phase = "run" /\ ip <= Len(out) /\ Current.op = "PUSHFRAME"
      BY <2>6 DEF Running
    <3>2. PICK a, b, T, lab : /\ a \in Facts /\ b \in Facts /\ Check(Current, a, b, lab)
                              /\ Fit(T, a, gf, frames, tf, calls)
      BY <2>1, <3>1
    <3>3. a.shape \in {"enter0", "enter1", "frame"}
      BY <3>1, <3>2 DEF Check, Move
    <3>4. tf = <<{}>> \/ tf = <<{SlotId}>>
      BY <2>2, <3>2, <3>3 DEF FitTemp
    <3> QED BY <3>4
  <2> QED BY <2>3, <2>4, <2>5, <2>6
<1> QED BY <1>1, RunInvAlways, PTL
=============================================================================
