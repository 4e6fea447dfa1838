------------------------- MODULE ParserCode_proofs -------------------------
(***************************************************************************)
(* Proofs about the code that Parser generates: the variables it names,    *)
(* their declarations, and the arguments of calls.                         *)
(***************************************************************************)
EXTENDS Parser_proofs

-----------------------------------------------------------------------------
(* Looking up names.                                                       *)

\* The innermost of some scopes.
LEMMA InnermostIs ==
  ASSUME NEW n \in Nat, NEW D \in SUBSET (2..n)
  PROVE  /\ D = {} => Innermost(D) = NONE
         /\ D # {} => Innermost(D) \in D /\ \A k \in D : k <= Innermost(D)
<1>1. D \in SUBSET (0..n)
  OBVIOUS
<1> QED BY <1>1, MaxIsIn DEF Innermost

\* The scopes up to top that declare a name, and those in which it has a value.
Declaring(tabs, top, id) == {k \in 2..top : tabs[k][id] # NULL}
Valued(tabs, id) == {k \in 2..Len(tabs) : tabs[k][id] # NULL /\ tabs[k][id].init}

\* If a place is not initialized, it is the innermost one that declares its name.
IsInner(tabs, ref) ==
  Uninitialized(tabs, ref) =>
    ref.d = OrGlobal(tabs, search_scopes(tabs, Len(tabs), ref.id), ref.id)

\* An operand is in a table of the stack.
LEMMA OperandFound ==
  ASSUME NEW tabs, NEW n, IsStack(tabs, n), NEW ref, NEW id, NEW d,
         d = OperandTable(tabs, ref, id)
  PROVE  /\ d \in 0..Len(tabs)
         /\ d # NONE => d \in 1..Len(tabs) /\ tabs[d][id] # NULL
<1> DEFINE top == IF ref.id = id /\ Uninitialized(tabs, ref) THEN Len(tabs) - 1 ELSE Len(tabs)
           D == Declaring(tabs, top, id)
<1>1. Len(tabs) \in Nat \ {0}
  BY DEF IsStack
<1>2. top \in 0..Len(tabs) /\ top \in Nat
  BY <1>1
<1>3. d = OrGlobal(tabs, Innermost(D), id)
  BY DEF OperandTable, search_scopes, Declaring
<1> HIDE DEF top
<1>4. D \in SUBSET (2..top)
  BY DEF Declaring
<1>5. CASE D = {}
  BY <1>1, <1>2, <1>3, <1>4, <1>5, InnermostIs DEF OrGlobal, NONE, GLOBAL
<1>6. CASE D # {}
  <2>1. Innermost(D) \in D
    BY <1>2, <1>4, <1>6, InnermostIs
  <2>2. Innermost(D) \in 2..top /\ tabs[Innermost(D)][id] # NULL
    BY <2>1 DEF Declaring
  <2>3. d = Innermost(D)
    BY <1>3, <2>2 DEF OrGlobal, NONE
  <2> QED BY <1>1, <1>2, <2>2, <2>3 DEF NONE
<1> QED BY <1>5, <1>6

\* The code generator's search for a variable with a value ends where the
\* parser's search for the operand did, also when the scope of the variable that
\* is being defined was skipped.
LEMMA SameAddr ==
  ASSUME NEW tabs, NEW n, IsStack(tabs, n), NEW ref, IsInner(tabs, ref), NEW id, NEW d,
         d = OperandTable(tabs, ref, id), d # NONE, ~NullScope(tabs, ref, id), tabs[d][id].init
  PROVE  VarAddr(tabs, id, TRUE) = AddrOf(tabs, d, id)
<1> DEFINE N == Len(tabs)
           D == Declaring(tabs, N, id)
           E == Declaring(tabs, N - 1, id)
           V == Valued(tabs, id)
           skip == ref.id = id /\ Uninitialized(tabs, ref)
           v == OrGlobal(tabs, Innermost(V), id)
<1>1. N \in Nat \ {0} /\ N \in Nat /\ N - 1 \in Nat
  BY DEF IsStack
<1>2. VarAddr(tabs, id, TRUE) = IF v = NONE THEN Addr("LF", 0) ELSE AddrOf(tabs, v, id)
  BY DEF VarAddr, search_scopes_initialized_var, Valued
<1>3. d = OrGlobal(tabs, Innermost(IF skip THEN E ELSE D), id)
  BY DEF OperandTable, search_scopes, Declaring
<1>4. d \in 1..N /\ tabs[d][id] # NULL
  BY OperandFound
<1>5. /\ D \in SUBSET (2..N) /\ V \in SUBSET (2..N) /\ E \in SUBSET (2..(N - 1))
      /\ V \in SUBSET D /\ E \in SUBSET D
      /\ \A k \in D : (k # N => k \in E) /\ (tabs[k][id].init => k \in V)
      /\ \A k \in V : tabs[k][id].init
  BY <1>1 DEF Declaring, Valued
<1> HIDE DEF N, D, E, V, v, skip
<1>6. ASSUME d \in V, \A k \in V : k <= d PROVE v = d
  <2>1. Innermost(V) \in V /\ \A k \in V : k <= Innermost(V)
    BY <1>1, <1>5, <1>6, InnermostIs
  <2>2. Innermost(V) = d
    <3>1. PICK m \in 2..N : m = Innermost(V)
      BY <1>5, <2>1
    <3>2. d \in 2..N /\ m <= d /\ d <= m
      BY <1>5, <1>6, <2>1, <3>1
    <3> QED BY <1>1, <3>1, <3>2
  <2> QED BY <1>1, <1>4, <2>2 DEF OrGlobal, v, NONE
<1>7. ASSUME d = GLOBAL, V = {} PROVE v = d
  BY <1>1, <1>4, <1>5, <1>7, InnermostIs DEF OrGlobal, v, NONE, GLOBAL
<1>8. v = d
  <2>1. CASE ~skip
    <3>1. CASE D = {}
      <4>1. d = OrGlobal(tabs, NONE, id)
        BY <1>1, <1>3, <1>5, <2>1, <3>1, InnermostIs
      <4> QED BY <1>5, <1>7, <3>1, <4>1 DEF OrGlobal
    <3>2. CASE D # {}
      <4>1. Innermost(D) \in D /\ \A k \in D : k <= Innermost(D)
        BY <1>1, <1>5, <3>2, InnermostIs
      <4>2. d = Innermost(D)
        BY <1>1, <1>3, <1>5, <2>1, <4>1 DEF OrGlobal, NONE
      <4> QED BY <1>5, <1>6, <4>1, <4>2
    <3> QED BY <3>1, <3>2
  <2>2. CASE skip
    <3>1. /\ ref.id = id /\ ref.d # NONE /\ ~tabs[ref.d][id].init
          /\ ref.d = OrGlobal(tabs, Innermost(D), id)
      BY <2>2 DEF skip, IsInner, Uninitialized, search_scopes, Declaring, D, N
    <3>2. D # {}
      <4>1. ASSUME D = {} PROVE FALSE
        <5>1. ref.d = OrGlobal(tabs, NONE, id) /\ d = OrGlobal(tabs, NONE, id)
          BY <1>1, <1>3, <1>5, <2>2, <3>1, <4>1, InnermostIs
        <5> QED BY <3>1, <5>1
      <4> QED BY <4>1
    <3>3. Innermost(D) \in D /\ \A k \in D : k <= Innermost(D)
      BY <1>1, <1>5, <3>2, InnermostIs
    <3>4. ref.d = Innermost(D)
      BY <1>1, <1>5, <3>1, <3>3 DEF OrGlobal, NONE
    <3>5. CASE E = {}
      <4>1. d = OrGlobal(tabs, NONE, id)
        BY <1>1, <1>3, <1>5, <2>2, <3>5, InnermostIs
      <4>2. d = GLOBAL
        BY <4>1 DEF OrGlobal
      <4>3. V = {}
        BY <1>5, <3>1, <3>3, <3>4, <3>5
      <4> QED BY <1>7, <4>2, <4>3
    <3>6. CASE E # {}
      <4>1. Innermost(E) \in E /\ \A k \in E : k <= Innermost(E)
        BY <1>1, <1>5, <3>6, InnermostIs
      <4>2. d = Innermost(E)
        BY <1>1, <1>3, <1>5, <2>2, <4>1 DEF OrGlobal, NONE
      <4>3. \A k \in V : k \in E
        <5>1. ASSUME NEW k \in V, k \notin E PROVE FALSE
          <6>1. k = N /\ N \in D
            BY <1>5, <5>1
          <6>2. ref.d = N
            <7>1. PICK m \in 2..N : m = Innermost(D)
              BY <1>5, <3>3
            <7>2. N <= m
              BY <3>3, <6>1, <7>1
            <7> QED BY <1>1, <3>4, <7>1, <7>2
          <6> QED BY <1>5, <3>1, <5>1, <6>1, <6>2
        <5> QED BY <5>1
      <4> QED BY <1>5, <1>6, <4>1, <4>2, <4>3
    <3> QED BY <3>5, <3>6
  <2> QED BY <2>1, <2>2
<1> QED BY <1>1, <1>2, <1>4, <1>8 DEF NONE

-----------------------------------------------------------------------------
(* Instructions.                                                           *)

Address == [frame : {"GF", "LF", "TF", "literal"}, uid : Nat]
Instruction ==
  [op : {"PUSHS", "POPS", "DEFVAR", "MOVE", "READ", "TAKE", "CREATEFRAME"},
   addr : Address, want : Address, buffered : BOOLEAN]

\* An instruction names what the parser meant and declares no variable; a
\* variable it names is one of those called ids, and has a value.
Reads(tabs, ids) ==
  {x \in Instruction :
     /\ x.addr = x.want
     /\ x.addr.frame \in {"GF", "LF"} =>
          /\ x.op # "DEFVAR"
          /\ \E d \in 1..Len(tabs), id \in ids \intersect Names :
               tabs[d][id] # NULL /\ tabs[d][id].init /\ x.addr = AddrOf(tabs, d, id)}

\* The address of an item.
LEMMA AddrType ==
  ASSUME NEW n \in Nat, NEW tabs, IsStack(tabs, n), NEW d \in 1..Len(tabs), NEW id \in Names,
         tabs[d][id] # NULL
  PROVE  AddrOf(tabs, d, id) \in Address /\ AddrOf(tabs, d, id).frame \in {"GF", "LF"}
<1>1. tabs[d][id].uid \in 0..(n - 1)
  BY DEF IsStack, IsTable, IsItem
<1>2. tabs[d][id].uid \in Nat
  BY <1>1
<1> QED BY <1>2 DEF AddrOf, Addr, Address

\* The address the code generator looks up.
LEMMA VarAddrType ==
  ASSUME NEW n \in Nat, NEW tabs, IsStack(tabs, n), NEW id \in Names, NEW b \in BOOLEAN
  PROVE  VarAddr(tabs, id, b) \in Address
<1> DEFINE D == IF b THEN Valued(tabs, id) ELSE Declaring(tabs, Len(tabs), id)
           d == OrGlobal(tabs, Innermost(D), id)
<1>1. Len(tabs) \in Nat \ {0}
  BY DEF IsStack
<1>2. VarAddr(tabs, id, b) = IF d = NONE THEN Addr("LF", 0) ELSE AddrOf(tabs, d, id)
  BY DEF VarAddr, search_scopes_initialized_var, search_scopes, Valued, Declaring
<1>3. D \in SUBSET (2..Len(tabs)) /\ \A k \in D : tabs[k][id] # NULL
  BY DEF Valued, Declaring
<1> HIDE DEF D
<1>4. CASE d = NONE
  BY <1>2, <1>4 DEF Addr, Address
<1>5. CASE d # NONE
  <2>1. d \in 1..Len(tabs) /\ tabs[d][id] # NULL
    <3>1. CASE D = {}
      BY <1>1, <1>3, <1>5, <3>1, InnermostIs DEF OrGlobal, NONE, GLOBAL
    <3>2. CASE D # {}
      <4>1. Innermost(D) \in D
        BY <1>1, <1>3, <3>2, InnermostIs
      <4>2. d = Innermost(D)
        BY <1>1, <1>3, <4>1 DEF OrGlobal, NONE
      <4>3. PICK m \in 2..Len(tabs) : m = Innermost(D) /\ tabs[m][id] # NULL
        BY <1>3, <4>1
      <4> HIDE DEF d
      <4> QED BY <1>1, <4>2, <4>3
    <3> QED BY <3>1, <3>2
  <2> HIDE DEF d
  <2> QED BY <1>2, <1>5, <2>1, AddrType
<1> QED BY <1>4, <1>5

\* A literal is no variable.
LEMMA LiteralReads ==
  ASSUME NEW tabs, NEW ids, NEW loops \in Nat, NEW op \in {"PUSHS", "READ", "TAKE", "CREATEFRAME"}
  PROVE  Instr(op, LiteralAddr, LiteralAddr, loops) \in Reads(tabs, ids)
<1>1. LiteralAddr \in Address /\ LiteralAddr.frame = "literal"
  BY DEF LiteralAddr, Addr, Address
<1>2. (loops > 0) \in BOOLEAN
  OBVIOUS
<1> QED BY <1>1, <1>2 DEF Instr, Instruction, Reads

\* A variable that the parser looked up and found to have a value.
LEMMA VarReads ==
  ASSUME NEW n \in Nat, NEW tabs, IsStack(tabs, n), NEW ref, IsInner(tabs, ref), NEW id \in Names,
         NEW d, d = OperandTable(tabs, ref, id), d # NONE, ~NullScope(tabs, ref, id),
         tabs[d][id].init, NEW ids, id \in ids, NEW loops \in Nat, NEW op \in {"PUSHS", "READ", "TAKE"}
  PROVE  Instr(op, VarAddr(tabs, id, TRUE), AddrOf(tabs, d, id), loops) \in Reads(tabs, ids)
<1>1. VarAddr(tabs, id, TRUE) = AddrOf(tabs, d, id)
  BY SameAddr
<1>2. d \in 1..Len(tabs) /\ tabs[d][id] # NULL
  BY OperandFound
<1>3. AddrOf(tabs, d, id) \in Address
  BY <1>2, AddrType
<1>4. (loops > 0) \in BOOLEAN
  OBVIOUS
<1> QED BY <1>1, <1>2, <1>3, <1>4 DEF Instr, Instruction, Reads

\* The code of an expression.
LEMMA ExprCode ==
  ASSUME NEW n \in Nat, NEW tabs, IsStack(tabs, n), NEW lhs, IsInner(tabs, lhs),
         NEW e, e.use \in Names \union {NULL}, NEW loops \in Nat, expr(tabs, lhs, e, loops).err = "none"
  PROVE  expr(tabs, lhs, e, loops).code \in Seq(Reads(tabs, {e.use}))
<1> DEFINE d == OperandTable(tabs, lhs, e.use)
<1>1. CASE e.use = NULL
  <2>1. PushLiteral(loops) \in Reads(tabs, {e.use})
    BY LiteralReads DEF PushLiteral
  <2> QED BY <1>1, <2>1 DEF expr, Eval
<1>2. CASE e.use # NULL
  <2>1. /\ ~NullScope(tabs, lhs, e.use) /\ d # NONE /\ tabs[d][e.use].init
        /\ expr(tabs, lhs, e, loops).code = << PushVar(tabs, d, e.use, loops) >>
    BY <1>2 DEF expr, Eval
  <2> HIDE DEF d
  <2>2. d = OperandTable(tabs, lhs, e.use)
    BY DEF d
  <2>3. PushVar(tabs, d, e.use, loops) \in Reads(tabs, {e.use})
    BY <1>2, <2>1, <2>2, VarReads DEF PushVar
  <2> QED BY <2>1, <2>3
<1> QED BY <1>1, <1>2

-----------------------------------------------------------------------------
(* Arguments.                                                              *)

ArgErrors == {"none", "UNDEFINED_VARIABLE", "FUNCTION_PARAMETER", "crash"}
ArgState ==
  [err : ArgErrors, k : Nat, func_param_id : Nat,
   current : [d : Nat, id : Names \union {NULL}], code : Seq(Instruction)]

\* The parameter that the next argument is for.
ParOf(sig, ac) == IF sig.variadic THEN sig.params[1] ELSE sig.params[ac.k + 1]

ArgTable(tabs, ac, a) == IF a.use = NULL THEN NONE ELSE OperandTable(tabs, ac.current, a.use)

ArgCode(tabs, sig, loops, ac, a) ==
  code_generator_function_call_param_add(
    sig.frame, ac.func_param_id,
    IF a.use = NULL THEN LiteralAddr ELSE VarAddr(tabs, a.use, TRUE),
    IF a.use = NULL THEN LiteralAddr ELSE AddrOf(tabs, ArgTable(tabs, ac, a), a.use), loops)

\* What an argument leaves behind: an error,
ArgFailed(ac, r) ==
  /\ r.err \in ArgErrors \ {"none"}
  /\ r = [ac EXCEPT !.err = r.err]

\* nothing passed, where the colon of the label is missing,
ArgSkipped(sig, ac, a, r) ==
  /\ ac.err = "none" /\ (sig.variadic \/ ac.k < Len(sig.params))
  /\ a.label = "bare" /\ ParOf(sig, ac).label \notin {"_", "unset"}
  /\ r = [ac EXCEPT !.k = ac.k + 1]

\* or the code that passes it.
ArgPassed(tabs, sig, loops, ac, a, r) ==
  /\ ac.err = "none" /\ (sig.variadic \/ ac.k < Len(sig.params))
  /\ a.label # "bare"
  /\ a.label = "none" => ParOf(sig, ac).label = "_"
  /\ a.label = "colon" => ParOf(sig, ac).label \notin {"_", "unset"}
  /\ a.use = NULL => \/ sig.variadic
                     \/ a.type = ParOf(sig, ac).type.type
                     \/ a.type = "nil" /\ ParOf(sig, ac).type.nilable
  /\ a.use # NULL => /\ ArgTable(tabs, ac, a) # NONE
                     /\ ParOf(sig, ac).label = "_" =>
                          tabs[ArgTable(tabs, ac, a)][a.use].init
                     /\ a.label = "none" => ~NullScope(tabs, ac.current, a.use)
  /\ r = [err |-> "none", k |-> ac.k + 1, func_param_id |-> ac.func_param_id + 1,
          current |-> IF a.use = NULL THEN ac.current ELSE At(ArgTable(tabs, ac, a), a.use),
          code |-> ac.code \o ArgCode(tabs, sig, loops, ac, a)]

\* The checks of one argument.
LEMMA ArgChecks ==
  ASSUME NEW tabs, NEW sig, NEW par, NEW a \in Argument, NEW d
  PROVE  /\ ArgError(tabs, sig, par, a, d) \in ArgErrors
         /\ ArgError(tabs, sig, par, a, d) = "none" =>
              /\ a.use = NULL => \/ sig.variadic \/ a.type = par.type.type
                                 \/ a.type = "nil" /\ par.type.nilable
              /\ a.use # NULL => d # NONE /\ (par.label = "_" => tabs[d][a.use].init)
<1>1. CASE a.use = NULL
  BY <1>1 DEF ArgError, ArgErrors
<1>2. CASE a.use # NULL /\ d = NONE
  BY <1>2 DEF ArgError, ArgErrors
<1>3. CASE a.use # NULL /\ d # NONE
  BY <1>3 DEF ArgError, ArgErrors
<1> QED BY <1>1, <1>2, <1>3

\* An argument is refused, skipped or passed.
LEMMA ArgCases ==
  ASSUME NEW tabs, NEW sig, Len(sig.params) \in Nat, NEW loops, NEW ac \in ArgState,
         NEW a \in Argument, NEW r, r = Arg(tabs, sig, loops, ac, a)
  PROVE  ArgFailed(ac, r) \/ ArgSkipped(sig, ac, a, r) \/ ArgPassed(tabs, sig, loops, ac, a, r)
<1> DEFINE par == ParOf(sig, ac)
           d == ArgTable(tabs, ac, a)
           full == ~sig.variadic /\ ac.k >= Len(sig.params)
           null == a.use # NULL /\ NullScope(tabs, ac.current, a.use)
           checks == ArgError(tabs, sig, par, a, d)
           inner == CASE a.label # "none" /\ par.label = "_" -> "UNDEFINED_VARIABLE"
                      [] a.label # "none" /\ par.label = "unset" -> "FUNCTION_PARAMETER"
                      [] a.label = "none" /\ par.label # "_" -> "FUNCTION_PARAMETER"
                      [] a.label = "bare" /\ par.label = "label" -> "none"
                      [] Fits(a.label, par.label) /\ a.label # "bare"
                           /\ a.use # NULL /\ NullScope(tabs, ac.current, a.use) -> "crash"
                      [] OTHER -> checks
           e == CASE ac.err # "none" -> ac.err
                  [] ac.err = "none" /\ ~sig.variadic /\ ac.k >= Len(sig.params) -> "FUNCTION_PARAMETER"
                  [] OTHER -> inner
           pass == [err |-> "none", k |-> ac.k + 1, func_param_id |-> ac.func_param_id + 1,
                    current |-> IF a.use = NULL THEN ac.current ELSE At(d, a.use),
                    code |-> ac.code \o ArgCode(tabs, sig, loops, ac, a)]
<1>1. r = CASE e # "none" -> [ac EXCEPT !.err = e]
            [] e = "none" /\ a.label = "bare" -> [ac EXCEPT !.k = ac.k + 1]
            [] OTHER -> pass
  BY DEF Arg, ArgCode, ParOf, ArgTable
<1>2. checks \in ArgErrors /\ ac.err \in ArgErrors /\ a.label \in {"none", "colon", "bare"}
  BY ArgChecks DEF ArgState, Argument
<1> HIDE DEF checks, pass, par, d, full
<1>3. inner \in ArgErrors
  BY <1>2 DEF ArgErrors
<1>4. ASSUME inner = "none"
      PROVE  /\ a.label # "none" => par.label \notin {"_", "unset"}
             /\ a.label # "bare" => /\ checks = "none"
                                    /\ a.label = "none" => par.label = "_" /\ ~null
  <2>1. CASE a.label = "none"
    BY <1>4, <2>1 DEF Fits
  <2>2. CASE a.label = "colon"
    BY <1>4, <2>2
  <2>3. CASE a.label = "bare"
    BY <1>4, <2>3
  <2> QED BY <1>2, <2>1, <2>2, <2>3
<1> HIDE DEF inner
<1>5. e \in ArgErrors /\ (e = "none" => ac.err = "none" /\ ~full /\ inner = "none")
  BY <1>2, <1>3 DEF ArgErrors, full
<1> HIDE DEF e
<1>6. ~full => sig.variadic \/ ac.k < Len(sig.params)
  BY DEF ArgState, full
<1>7. CASE e # "none"
  <2>1. r = [ac EXCEPT !.err = e] /\ r.err = e
    BY <1>1, <1>7 DEF ArgState
  <2> QED BY <1>5, <1>7, <2>1 DEF ArgFailed
<1>8. CASE e = "none" /\ a.label = "bare"
  <2>1. r = [ac EXCEPT !.k = ac.k + 1]
    BY <1>1, <1>8
  <2> QED BY <1>4, <1>5, <1>8, <1>6, <2>1 DEF ArgSkipped, par
<1>9. CASE e = "none" /\ a.label # "bare"
  <2>1. r = pass
    BY <1>1, <1>9
  <2>2. /\ checks = "none" /\ ac.err = "none" /\ ~full
        /\ a.label = "none" => par.label = "_" /\ ~null
        /\ a.label = "colon" => par.label \notin {"_", "unset"}
    BY <1>4, <1>5, <1>9
  <2>3. /\ a.use = NULL => \/ sig.variadic \/ a.type = par.type.type
                           \/ a.type = "nil" /\ par.type.nilable
        /\ a.use # NULL => d # NONE /\ (par.label = "_" => tabs[d][a.use].init)
    BY <2>2, ArgChecks DEF checks
  <2> QED BY <1>9, <1>6, <2>1, <2>2, <2>3 DEF ArgPassed, pass, par, d
<1> QED BY <1>7, <1>8, <1>9

\* The code of one argument consists of what its parts are in.
LEMMA ArgCodeParts ==
  ASSUME NEW framed, NEW k \in Nat, NEW addr, NEW want, NEW loops, NEW S,
         Instr("TAKE", addr, want, loops) \in S, Instr("READ", addr, want, loops) \in S,
         Instr("CREATEFRAME", LiteralAddr, LiteralAddr, loops) \in S,
         code_generator_defvar(Addr("TF", k), Addr("TF", k)) \in S,
         Instr("MOVE", Addr("TF", k), Addr("TF", k), loops) \in S
  PROVE  code_generator_function_call_param_add(framed, k, addr, want, loops) \in Seq(S)
<1> DEFINE slot == Addr("TF", k)
           frame == Instr("CREATEFRAME", LiteralAddr, LiteralAddr, loops)
           take == Instr("TAKE", addr, want, loops)
           body == << code_generator_defvar(slot, slot), Instr("MOVE", slot, slot, loops),
                      Instr("READ", addr, want, loops) >>
<1>1. take \in S /\ frame \in S /\ body \in Seq(S)
  OBVIOUS
<1>2. code_generator_function_call_param_add(framed, k, addr, want, loops)
        = IF ~framed THEN << take >> ELSE (IF k = 0 THEN << frame >> ELSE <<>>) \o body
  BY DEF code_generator_function_call_param_add
<1> HIDE DEF take, frame, body
<1>3. << take >> \in Seq(S) /\ << frame >> \in Seq(S) /\ <<>> \in Seq(S)
  BY <1>1
<1>4. << frame >> \o body \in Seq(S) /\ <<>> \o body \in Seq(S)
  BY <1>1, <1>3
<1> QED BY <1>2, <1>3, <1>4

\* The instructions that pass an argument name no variable of the program.
LEMMA SlotReads ==
  ASSUME NEW tabs, NEW ids, NEW loops \in Nat, NEW k \in Nat
  PROVE  /\ code_generator_defvar(Addr("TF", k), Addr("TF", k)) \in Reads(tabs, ids)
         /\ Instr("MOVE", Addr("TF", k), Addr("TF", k), loops) \in Reads(tabs, ids)
<1>1. Addr("TF", k) \in Address /\ Addr("TF", k).frame = "TF"
  BY DEF Addr, Address
<1>2. (loops > 0) \in BOOLEAN
  OBVIOUS
<1> QED BY <1>1, <1>2 DEF code_generator_defvar, Instr, Instruction, Reads

\* The code of an argument that is passed.
LEMMA ArgCodeType ==
  ASSUME NEW n \in Nat, NEW tabs, IsStack(tabs, n), NEW sig, NEW loops \in Nat,
         NEW ac \in ArgState, NEW a \in Argument, a.use # NULL => ArgTable(tabs, ac, a) # NONE
  PROVE  /\ ArgCode(tabs, sig, loops, ac, a) \in Seq(Instruction)
         /\ a.use # NULL => ArgTable(tabs, ac, a) \in 1..Len(tabs)
<1> DEFINE d == ArgTable(tabs, ac, a)
           addr == IF a.use = NULL THEN LiteralAddr ELSE VarAddr(tabs, a.use, TRUE)
           want == IF a.use = NULL THEN LiteralAddr ELSE AddrOf(tabs, d, a.use)
           k == ac.func_param_id
<1>1. LiteralAddr \in Address
  BY DEF LiteralAddr, Addr, Address
<1>2. k \in Nat /\ a.use \in Names \union {NULL}
  BY DEF ArgState, Argument
<1>3. ASSUME a.use # NULL PROVE d \in 1..Len(tabs) /\ tabs[d][a.use] # NULL
  <2>1. d = OperandTable(tabs, ac.current, a.use)
    BY <1>3 DEF ArgTable
  <2> HIDE DEF d
  <2> QED BY <1>3, <2>1, OperandFound DEF d
<1>4. addr \in Address /\ want \in Address
  <2>1. CASE a.use = NULL
    BY <1>1, <2>1
  <2>2. CASE a.use # NULL
    <3>1. VarAddr(tabs, a.use, TRUE) \in Address
      BY <1>2, <2>2, VarAddrType
    <3>2. AddrOf(tabs, d, a.use) \in Address
      BY <1>2, <1>3, <2>2, AddrType
    <3> QED BY <2>2, <3>1, <3>2
  <2> QED BY <2>1, <2>2
<1> HIDE DEF addr, want
<1>5. (loops > 0) \in BOOLEAN
  OBVIOUS
<1>6. Instr("TAKE", addr, want, loops) \in Instruction /\ Instr("READ", addr, want, loops) \in Instruction
  BY <1>4, <1>5 DEF Instr, Instruction
<1>7. /\ Instr("CREATEFRAME", LiteralAddr, LiteralAddr, loops) \in Instruction
      /\ code_generator_defvar(Addr("TF", k), Addr("TF", k)) \in Instruction
      /\ Instr("MOVE", Addr("TF", k), Addr("TF", k), loops) \in Instruction
  BY <1>2, SlotReads, LiteralReads DEF Reads
<1> HIDE DEF k
<1>8. code_generator_function_call_param_add(sig.frame, k, addr, want, loops) \in Seq(Instruction)
  BY <1>2, <1>6, <1>7, ArgCodeParts
<1> QED BY <1>3, <1>8 DEF ArgCode, addr, want, k

\* An argument leaves a state of the list.
LEMMA ArgStep ==
  ASSUME NEW n \in Nat, NEW tabs, IsStack(tabs, n), NEW sig, Len(sig.params) \in Nat,
         NEW loops \in Nat, NEW ac \in ArgState, NEW a \in Argument
  PROVE  Arg(tabs, sig, loops, ac, a) \in ArgState
<1> DEFINE r == Arg(tabs, sig, loops, ac, a)
           d == ArgTable(tabs, ac, a)
           code == ArgCode(tabs, sig, loops, ac, a)
<1>1. ArgFailed(ac, r) \/ ArgSkipped(sig, ac, a, r) \/ ArgPassed(tabs, sig, loops, ac, a, r)
  BY ArgCases
<1> HIDE DEF r
<1>2. CASE ArgFailed(ac, r)
  <2>1. PICK e \in ArgErrors : r = [ac EXCEPT !.err = e]
    BY <1>2 DEF ArgFailed
  <2> QED BY <2>1 DEF ArgState, r
<1>3. CASE ArgSkipped(sig, ac, a, r)
  <2>1. r = [ac EXCEPT !.k = ac.k + 1]
    BY <1>3 DEF ArgSkipped
  <2>2. ac.k + 1 \in Nat
    BY DEF ArgState
  <2> QED BY <2>1, <2>2 DEF ArgState, r
<1>4. CASE ArgPassed(tabs, sig, loops, ac, a, r)
  <2>1. /\ a.use # NULL => d # NONE
        /\ r = [err |-> "none", k |-> ac.k + 1, func_param_id |-> ac.func_param_id + 1,
                current |-> IF a.use = NULL THEN ac.current ELSE At(d, a.use),
                code |-> ac.code \o code]
    BY <1>4 DEF ArgPassed
  <2>2. code \in Seq(Instruction) /\ (a.use # NULL => d \in 1..Len(tabs))
    BY <2>1, ArgCodeType
  <2>3. /\ ac.code \o code \in Seq(Instruction) /\ ac.k + 1 \in Nat
        /\ ac.func_param_id + 1 \in Nat
    BY <2>2 DEF ArgState
  <2>4. (IF a.use = NULL THEN ac.current ELSE At(d, a.use)) \in [d : Nat, id : Names \union {NULL}]
    <3>1. CASE a.use = NULL
      BY <3>1 DEF ArgState
    <3>2. CASE a.use # NULL
      <4>1. d \in Nat /\ a.use \in Names \union {NULL}
        BY <2>2, <3>2 DEF Argument
      <4> HIDE DEF d
      <4> QED BY <3>2, <4>1 DEF At
    <3> QED BY <3>1, <3>2
  <2> HIDE DEF code, d
  <2>5. r \in ArgState
    BY <2>1, <2>3, <2>4 DEF ArgState, ArgErrors
  <2> QED BY <2>5 DEF r
<1> QED BY <1>1, <1>2, <1>3, <1>4

\* The states of a list of arguments: behind the ( and behind each of them.
IsArgList(acc, tabs, sig, current, args, loops) ==
  /\ acc \in [0..Len(args) -> ArgState]
  /\ acc[0] = NoArgs(current)
  /\ \A i \in 1..Len(args) : acc[i] = Arg(tabs, sig, loops, acc[i - 1], args[i])

\* The end of the list.
EndArgs(end, sig, args, loops) ==
  IF end.err = "none" /\ ~sig.variadic /\ Missing(args, sig)
  THEN Eval(<<>>, "FUNCTION_PARAMETER")
  ELSE Eval(end.code \o (IF ~sig.frame \/ end.func_param_id > 0 THEN <<>>
                         ELSE << Instr("CREATEFRAME", LiteralAddr, LiteralAddr, loops) >>), end.err)

\* Every list has these states.
LEMMA ArgsLoop ==
  ASSUME NEW n \in Nat, NEW tabs, IsStack(tabs, n), NEW sig, Len(sig.params) \in Nat,
         NEW loops \in Nat, NEW args \in Seq(Argument),
         NEW current \in [d : Nat, id : Names \union {NULL}]
  PROVE  \E acc : /\ IsArgList(acc, tabs, sig, current, args, loops)
                  /\ arg_list(tabs, sig, current, args, loops) = EndArgs(acc[Len(args)], sig, args, loops)
<1> DEFINE m == Len(args)
           base == NoArgs(current)
           step == [i \in 1..m |-> [ac \in ArgState |-> Arg(tabs, sig, loops, ac, args[i])]]
           acc == CHOOSE g : g = [i \in 0..m |->
                    IF i = 0 THEN base ELSE Arg(tabs, sig, loops, g[i - 1], args[i])]
<1>1. m \in Nat /\ \A i \in 1..m : args[i] \in Argument
  OBVIOUS
<1>2. base \in ArgState
  BY DEF NoArgs, ArgState, ArgErrors
<1>3. arg_list(tabs, sig, current, args, loops) = EndArgs(acc[Len(args)], sig, args, loops)
  BY DEF arg_list, EndArgs
<1> HIDE DEF m, base
<1>4. step \in [1..m -> [ArgState -> ArgState]]
  BY <1>1, ArgStep
<1> HIDE DEF step
<1>5. PICK f \in [0..m -> ArgState] : f[0] = base /\ \A i \in 1..m : f[i] = step[i][f[i - 1]]
  <2>1. \E f : IsLoop(f, m, ArgState, base, step)
    BY <1>1, <1>2, <1>4, LoopExists
  <2> QED BY <2>1 DEF IsLoop
<1>6. \A i \in 1..m : f[i] = Arg(tabs, sig, loops, f[i - 1], args[i])
  <2>1. \A i \in 1..m : f[i - 1] \in ArgState
    BY <1>1, <1>5
  <2> QED BY <1>5, <2>1 DEF step
<1>7. f = [i \in 0..m |-> IF i = 0 THEN base ELSE Arg(tabs, sig, loops, f[i - 1], args[i])]
  BY <1>1, <1>5, <1>6
<1>8. acc = [i \in 0..m |-> IF i = 0 THEN base ELSE Arg(tabs, sig, loops, acc[i - 1], args[i])]
  BY <1>7
<1> HIDE DEF acc
<1>9. acc[0] = base /\ \A i \in 1..m : acc[i] = Arg(tabs, sig, loops, acc[i - 1], args[i])
  BY <1>1, <1>8
<1>10. \A i \in 0..m : acc[i] \in ArgState
  <2> DEFINE S == {i \in 0..m : acc[i] \in ArgState}
  <2>1. 0 \in S
    BY <1>1, <1>2, <1>9
  <2>2. ASSUME NEW i \in 1..m, i - 1 \in S PROVE i \in S
    <3>1. acc[i - 1] \in ArgState /\ i \in 0..m
      BY <1>1, <2>2
    <3>2. args[i] \in Argument /\ acc[i] = Arg(tabs, sig, loops, acc[i - 1], args[i])
      BY <1>1, <1>9
    <3>3. acc[i] \in ArgState
      BY <3>1, <3>2, ArgStep
    <3> QED BY <3>1, <3>3
  <2> HIDE DEF S
  <2>3. \A i \in 0..m : i \in S
    BY <1>1, <2>1, <2>2, UpTo
  <2> QED BY <2>3 DEF S
<1>11. acc \in [0..m -> ArgState]
  BY <1>8, <1>10
<1>12. IsArgList(acc, tabs, sig, current, args, loops)
  BY <1>9, <1>11 DEF IsArgList, m, base
<1> QED BY <1>3, <1>12

\* The variables that arguments use.
Uses(args) == {args[i].use : i \in 1..Len(args)}
WithoutLabels(args) == \A i \in 1..Len(args) : args[i].label # "colon"

\* The code of arguments without labels reads the variables the parser looked up.
LEMMA ArgsRead ==
  ASSUME NEW n \in Nat, NEW tabs, IsStack(tabs, n), NEW sig, Len(sig.params) \in Nat,
         NEW loops \in Nat, NEW args \in Seq(Argument), WithoutLabels(args),
         NEW current, IsInner(tabs, current),
         NEW acc, IsArgList(acc, tabs, sig, current, args, loops), acc[Len(args)].err = "none"
  PROVE  acc[Len(args)].code \in Seq(Reads(tabs, Uses(args)))
<1> DEFINE m == Len(args)
           R == Reads(tabs, Uses(args))
           S == {i \in 0..m : acc[i].err = "none" =>
                   acc[i].code \in Seq(R) /\ IsInner(tabs, acc[i].current)}
<1>1. m \in Nat
  OBVIOUS
<1>2. 0 \in S
  <2>1. acc[0].code = <<>> /\ acc[0].current = current
    BY DEF IsArgList, NoArgs
  <2> HIDE DEF R, m
  <2>2. IsInner(tabs, acc[0].current)
    BY <2>1, Zenon
  <2>3. acc[0].code \in Seq(R)
    BY <2>1
  <2> QED BY <1>1, <2>2, <2>3
<1>3. ASSUME NEW i \in 1..m, i - 1 \in S PROVE i \in S
  <2> DEFINE ac == acc[i - 1]
             a == args[i]
             r == acc[i]
             d == ArgTable(tabs, ac, a)
  <2> SUFFICES ASSUME r.err = "none" PROVE r.code \in Seq(R) /\ IsInner(tabs, r.current)
    BY <1>1
  <2>0. i - 1 \in 0..m /\ a \in Argument
    BY <1>1
  <2>1. /\ ac \in ArgState /\ a \in Argument /\ r = Arg(tabs, sig, loops, ac, a)
        /\ a.label # "colon" /\ a.use \in Uses(args)
    <3>1. ac \in ArgState /\ r = Arg(tabs, sig, loops, ac, a)
      BY <2>0 DEF IsArgList
    <3>2. a.label # "colon" /\ a.use \in Uses(args)
      BY DEF WithoutLabels, Uses
    <3> QED BY <2>0, <3>1, <3>2
  <2>2. ArgFailed(ac, r) \/ ArgSkipped(sig, ac, a, r) \/ ArgPassed(tabs, sig, loops, ac, a, r)
    BY <2>1, ArgCases
  <2>3. ac.err = "none" => ac.code \in Seq(R) /\ IsInner(tabs, ac.current)
    BY <1>3
  <2> HIDE DEF ac, r, a, R, S, m
  <2>4. ~ArgFailed(ac, r)
    BY DEF ArgFailed
  <2>5. CASE ArgSkipped(sig, ac, a, r)
    <3>1. ac.err = "none" /\ r = [ac EXCEPT !.k = ac.k + 1]
      BY <2>5 DEF ArgSkipped
    <3>2. r.code = ac.code /\ r.current = ac.current
      BY <2>1, <3>1 DEF ArgState
    <3> QED BY <2>3, <3>1, <3>2
  <2>6. CASE ArgPassed(tabs, sig, loops, ac, a, r)
    <3>1. /\ ac.err = "none" /\ a.label # "bare"
          /\ a.label = "none" => ParOf(sig, ac).label = "_"
          /\ a.use # NULL => /\ d # NONE
                             /\ ParOf(sig, ac).label = "_" => tabs[d][a.use].init
                             /\ a.label = "none" => ~NullScope(tabs, ac.current, a.use)
          /\ r.current = IF a.use = NULL THEN ac.current ELSE At(d, a.use)
          /\ r.code = ac.code \o ArgCode(tabs, sig, loops, ac, a)
      BY <2>6 DEF ArgPassed
    <3>2. a.label = "none" /\ (a.use # NULL => d # NONE /\ tabs[d][a.use].init
                                               /\ ~NullScope(tabs, ac.current, a.use))
      BY <2>1, <3>1 DEF Argument
    <3> DEFINE addr == IF a.use = NULL THEN LiteralAddr ELSE VarAddr(tabs, a.use, TRUE)
               want == IF a.use = NULL THEN LiteralAddr ELSE AddrOf(tabs, d, a.use)
               k == ac.func_param_id
    <3>3. Instr("TAKE", addr, want, loops) \in R /\ Instr("READ", addr, want, loops) \in R
      <4>1. CASE a.use = NULL
        BY <4>1, LiteralReads DEF R
      <4>2. CASE a.use # NULL
        <5>1. d = OperandTable(tabs, ac.current, a.use) /\ a.use \in Names
          BY <2>1, <4>2 DEF ArgTable, Argument
        <5>2. /\ addr = VarAddr(tabs, a.use, TRUE) /\ want = AddrOf(tabs, d, a.use)
              /\ d # NONE /\ tabs[d][a.use].init /\ ~NullScope(tabs, ac.current, a.use)
              /\ IsInner(tabs, ac.current)
          BY <2>3, <3>1, <3>2, <4>2
        <5> HIDE DEF d, addr, want
        <5> QED BY <2>1, <5>1, <5>2, VarReads DEF R
      <4> QED BY <4>1, <4>2
    <3>4. k \in Nat
      BY <2>1 DEF ArgState
    <3> HIDE DEF addr, want, k
    <3>5. /\ Instr("CREATEFRAME", LiteralAddr, LiteralAddr, loops) \in R
          /\ code_generator_defvar(Addr("TF", k), Addr("TF", k)) \in R
          /\ Instr("MOVE", Addr("TF", k), Addr("TF", k), loops) \in R
      BY <3>4, SlotReads, LiteralReads DEF R
    <3>6. code_generator_function_call_param_add(sig.frame, k, addr, want, loops) \in Seq(R)
      BY <3>3, <3>4, <3>5, ArgCodeParts
    <3>7. ArgCode(tabs, sig, loops, ac, a) \in Seq(R)
      BY <3>6 DEF ArgCode, addr, want, k
    <3>8. r.code \in Seq(R)
      <4> DEFINE c == ArgCode(tabs, sig, loops, ac, a)
                 b == ac.code
      <4>1. b \in Seq(R) /\ c \in Seq(R) /\ r.code = b \o c
        BY <2>3, <3>1, <3>7
      <4> HIDE DEF b, c
      <4> QED BY <4>1
    <3>9. IsInner(tabs, r.current)
      <4>1. CASE a.use = NULL
        BY <2>3, <3>1, <4>1
      <4>2. CASE a.use # NULL
        <5>1. r.current = At(d, a.use) /\ tabs[d][a.use].init
          BY <3>1, <3>2, <4>2
        <5> HIDE DEF d
        <5> QED BY <5>1 DEF At, IsInner, Uninitialized
      <4> QED BY <4>1, <4>2
    <3> QED BY <3>8, <3>9
  <2> QED BY <2>2, <2>4, <2>5, <2>6
<1> HIDE DEF S
<1>4. \A i \in 0..m : i \in S
  BY <1>1, <1>2, <1>3, UpTo
<1>5. m \in S
  BY <1>1, <1>4
<1> QED BY <1>5 DEF S

\* An argument fits a parameter of the symbol table's list.
ArgFits(par, a) ==
  /\ a.label = "none" => par.label = "_"
  /\ a.label # "none" => par.label \notin {"_", "unset"}
  /\ a.label # "bare" /\ a.use = NULL =>
       a.type = par.type.type \/ (a.type = "nil" /\ par.type.nilable)

\* The arguments behind each of which there is no error fit the parameters.
LEMMA ArgsFit ==
  ASSUME NEW tabs, NEW sig, Len(sig.params) \in Nat, ~sig.variadic, NEW loops,
         NEW args \in Seq(Argument), NEW current,
         NEW acc, IsArgList(acc, tabs, sig, current, args, loops), acc[Len(args)].err = "none"
  PROVE  /\ Len(args) <= Len(sig.params)
         /\ \A i \in 1..Len(args) : ArgFits(sig.params[i], args[i])
<1> DEFINE m == Len(args)
           S == {i \in 0..m : acc[i].err = "none" =>
                   /\ acc[i].k = i /\ i <= Len(sig.params)
                   /\ \A j \in 1..i : ArgFits(sig.params[j], args[j])}
<1>1. m \in Nat
  OBVIOUS
<1>2. 0 \in S
  <2>1. acc[0].k = 0
    BY DEF IsArgList, NoArgs
  <2> HIDE DEF m
  <2> QED BY <1>1, <2>1
<1>3. ASSUME NEW i \in 1..m, i - 1 \in S PROVE i \in S
  <2> DEFINE ac == acc[i - 1]
             a == args[i]
             r == acc[i]
  <2> SUFFICES ASSUME r.err = "none"
               PROVE  /\ r.k = i /\ i <= Len(sig.params)
                      /\ \A j \in 1..i : ArgFits(sig.params[j], args[j])
    BY <1>1
  <2>1. ac \in ArgState /\ a \in Argument /\ r = Arg(tabs, sig, loops, ac, a)
    BY <1>1 DEF IsArgList
  <2>2. ArgFailed(ac, r) \/ ArgSkipped(sig, ac, a, r) \/ ArgPassed(tabs, sig, loops, ac, a, r)
    BY <2>1, ArgCases
  <2>3. ac.err = "none" =>
          /\ ac.k = i - 1 /\ i - 1 <= Len(sig.params)
          /\ \A j \in 1..(i - 1) : ArgFits(sig.params[j], args[j])
    BY <1>3
  <2> HIDE DEF ac, r, S, m
  <2>4. ~ArgFailed(ac, r)
    BY DEF ArgFailed
  <2>5. ac.err = "none" /\ ac.k < Len(sig.params) /\ r.k = ac.k + 1 /\ ArgFits(ParOf(sig, ac), a)
    <3> HIDE DEF a
    <3>1. CASE ArgSkipped(sig, ac, a, r)
      <4>1. r = [ac EXCEPT !.k = ac.k + 1]
        BY <3>1 DEF ArgSkipped
      <4>2. r.k = ac.k + 1
        BY <2>1, <4>1 DEF ArgState
      <4> QED BY <3>1, <4>2 DEF ArgSkipped, ArgFits
    <3>2. CASE ArgPassed(tabs, sig, loops, ac, a, r)
      <4>1. r.k = ac.k + 1
        BY <3>2 DEF ArgPassed
      <4> QED BY <2>1, <3>2, <4>1 DEF ArgPassed, ArgFits, Argument
    <3> QED BY <2>2, <2>4, <3>1, <3>2
  <2>6. ac.k = i - 1 /\ ParOf(sig, ac) = sig.params[i]
    BY <1>1, <2>3, <2>5 DEF ParOf
  <2>7. r.k = i /\ i <= Len(sig.params)
    BY <1>1, <2>5, <2>6
  <2>8. ASSUME NEW j \in 1..i PROVE ArgFits(sig.params[j], args[j])
    <3>1. CASE j = i
      <4>1. ArgFits(ParOf(sig, ac), a) /\ a = args[j]
        BY <2>5, <3>1
      <4> HIDE DEF a
      <4> QED BY <2>6, <3>1, <4>1
    <3>2. CASE j # i
      <4>1. j \in 1..(i - 1)
        BY <1>1, <3>2
      <4> QED BY <2>3, <2>5, <4>1
    <3> QED BY <3>1, <3>2
  <2> QED BY <2>7, <2>8
<1> HIDE DEF S
<1>4. \A i \in 0..m : i \in S
  BY <1>1, <1>2, <1>3, UpTo
<1>5. m \in S
  BY <1>1, <1>4
<1> QED BY <1>5 DEF S

\* The numbers of the arguments that a piece of code moves into the frame.
Moved(code) == {code[i].addr.uid : i \in {j \in 1..Len(code) : code[j].op = "MOVE"}}

\* Concatenated code moves what its parts move.
LEMMA MovedConcat ==
  ASSUME NEW s \in Seq(Instruction), NEW t \in Seq(Instruction)
  PROVE  Moved(s \o t) = Moved(s) \union Moved(t)
<1> DEFINE c == s \o t
           U(q) == {j \in 1..Len(q) : q[j].op = "MOVE"}
<1>1. /\ Len(s) \in Nat /\ Len(t) \in Nat /\ Len(c) = Len(s) + Len(t)
      /\ \A i \in 1..Len(s) : c[i] = s[i]
      /\ \A i \in 1..Len(t) : c[Len(s) + i] = t[i]
  OBVIOUS
<1> HIDE DEF c
<1>2. ASSUME NEW x \in Moved(c) PROVE x \in Moved(s) \union Moved(t)
  <2>1. PICK i \in 1..Len(c) : c[i].op = "MOVE" /\ x = c[i].addr.uid
    BY <1>2 DEF Moved
  <2>2. CASE i \in 1..Len(s)
    BY <1>1, <2>1, <2>2 DEF Moved
  <2>3. CASE i \notin 1..Len(s)
    <3>1. PICK k \in 1..Len(t) : i = Len(s) + k
      <4>1. i - Len(s) \in 1..Len(t) /\ i = Len(s) + (i - Len(s))
        BY <1>1, <2>1, <2>3
      <4> QED BY <4>1
    <3>2. c[i] = t[k]
      BY <1>1, <3>1
    <3> QED BY <2>1, <3>1, <3>2 DEF Moved
  <2> QED BY <2>2, <2>3
<1>3. ASSUME NEW x \in Moved(s) PROVE x \in Moved(c)
  <2>1. PICK i \in 1..Len(s) : s[i].op = "MOVE" /\ x = s[i].addr.uid
    BY <1>3 DEF Moved
  <2>2. i \in 1..Len(c) /\ c[i] = s[i]
    BY <1>1, <2>1
  <2> QED BY <2>1, <2>2 DEF Moved
<1>4. ASSUME NEW x \in Moved(t) PROVE x \in Moved(c)
  <2>1. PICK i \in 1..Len(t) : t[i].op = "MOVE" /\ x = t[i].addr.uid
    BY <1>4 DEF Moved
  <2>2. Len(s) + i \in 1..Len(c) /\ c[Len(s) + i] = t[i]
    BY <1>1, <2>1
  <2> QED BY <2>1, <2>2 DEF Moved
<1>5. Moved(c) = Moved(s) \union Moved(t)
  BY <1>2, <1>3, <1>4
<1> QED BY <1>5 DEF c

\* Pieces of code with one instruction that is no MOVE, and with none.
LEMMA MovedNone ==
  ASSUME NEW x, x.op # "MOVE"
  PROVE  Moved(<<x>>) = {} /\ Moved(<<>>) = {}
<1>1. Len(<<x>>) = 1 /\ <<x>>[1] = x /\ Len(<<>>) = 0
  OBVIOUS
<1>2. {j \in 1..Len(<<x>>) : <<x>>[j].op = "MOVE"} = {}
  BY <1>1
<1>3. {j \in 1..Len(<<>>) : <<>>[j].op = "MOVE"} = {}
  BY <1>1
<1> QED BY <1>2, <1>3 DEF Moved

\* An argument of a function with a frame is moved into it.
LEMMA ArgMoved ==
  ASSUME NEW n \in Nat, NEW tabs, IsStack(tabs, n), NEW sig, sig.frame, NEW loops \in Nat,
         NEW ac \in ArgState, NEW a \in Argument, a.use # NULL => ArgTable(tabs, ac, a) # NONE
  PROVE  Moved(ArgCode(tabs, sig, loops, ac, a)) = {ac.func_param_id}
<1> DEFINE k == ac.func_param_id
           slot == Addr("TF", k)
           addr == IF a.use = NULL THEN LiteralAddr ELSE VarAddr(tabs, a.use, TRUE)
           want == IF a.use = NULL THEN LiteralAddr ELSE AddrOf(tabs, ArgTable(tabs, ac, a), a.use)
           frame == Instr("CREATEFRAME", LiteralAddr, LiteralAddr, loops)
           x == code_generator_defvar(slot, slot)
           y == Instr("MOVE", slot, slot, loops)
           z == Instr("READ", addr, want, loops)
           head == IF k = 0 THEN << frame >> ELSE <<>>
           body == << x, y, z >>
<1>1. ArgCode(tabs, sig, loops, ac, a) = head \o body
  BY DEF ArgCode, code_generator_function_call_param_add
<1>2. x.op = "DEFVAR" /\ y.op = "MOVE" /\ y.addr.uid = k /\ z.op = "READ" /\ frame.op = "CREATEFRAME"
  BY DEF code_generator_defvar, Instr, Addr
<1>3. k \in Nat
  BY DEF ArgState
<1>4. z \in Instruction
  <2>1. addr \in Address /\ want \in Address
    <3>1. CASE a.use = NULL
      BY <3>1 DEF LiteralAddr, Addr, Address
    <3>2. CASE a.use # NULL
      <4> DEFINE d == ArgTable(tabs, ac, a)
      <4>1. d = OperandTable(tabs, ac.current, a.use) /\ d # NONE /\ a.use \in Names
        BY <3>2 DEF ArgTable, Argument
      <4> HIDE DEF d
      <4>2. d \in 1..Len(tabs) /\ tabs[d][a.use] # NULL
        BY <4>1, OperandFound
      <4>3. AddrOf(tabs, d, a.use) \in Address /\ VarAddr(tabs, a.use, TRUE) \in Address
        BY <4>1, <4>2, AddrType, VarAddrType
      <4> QED BY <3>2, <4>3 DEF d
    <3> QED BY <3>1, <3>2
  <2> HIDE DEF addr, want
  <2>2. (loops > 0) \in BOOLEAN
    OBVIOUS
  <2> QED BY <2>1, <2>2 DEF Instr, Instruction
<1>5. frame \in Instruction /\ x \in Instruction /\ y \in Instruction
  BY <1>3, SlotReads, LiteralReads DEF Reads
<1> HIDE DEF k, x, y, z, frame
<1>6. head \in Seq(Instruction) /\ body \in Seq(Instruction)
  BY <1>4, <1>5
<1>7. Moved(head) = {}
  <2>1. frame.op # "MOVE"
    BY <1>2
  <2> QED BY <2>1, MovedNone
<1>8. Moved(body) = {k}
  <2>1. Len(body) = 3 /\ body[1] = x /\ body[2] = y /\ body[3] = z
    OBVIOUS
  <2> HIDE DEF body
  <2>2. {j \in 1..Len(body) : body[j].op = "MOVE"} = {2}
    BY <1>2, <2>1
  <2> QED BY <1>2, <2>1, <2>2 DEF Moved
<1> HIDE DEF head, body
<1>9. Moved(head \o body) = {k}
  BY <1>6, <1>7, <1>8, MovedConcat
<1> QED BY <1>1, <1>9 DEF k

\* The arguments of a function with a frame are moved into it, from 0 on.
LEMMA ArgsMoved ==
  ASSUME NEW n \in Nat, NEW tabs, IsStack(tabs, n), NEW sig, Len(sig.params) \in Nat, sig.frame,
         NEW loops \in Nat, NEW args \in Seq(Argument), \A i \in 1..Len(args) : args[i].label # "bare",
         NEW current,
         NEW acc, IsArgList(acc, tabs, sig, current, args, loops), acc[Len(args)].err = "none"
  PROVE  Moved(acc[Len(args)].code) = 0..(Len(args) - 1)
<1> DEFINE m == Len(args)
           S == {i \in 0..m : acc[i].err = "none" =>
                   acc[i].func_param_id = i /\ Moved(acc[i].code) = 0..(i - 1)}
<1>1. m \in Nat
  OBVIOUS
<1>2. 0 \in S
  <2>1. acc[0].func_param_id = 0 /\ acc[0].code = <<>>
    BY DEF IsArgList, NoArgs
  <2>2. Moved(<<>>) = {}
    <3>1. [op |-> "READ"].op # "MOVE"
      OBVIOUS
    <3> QED BY <3>1, MovedNone
  <2> HIDE DEF m
  <2>3. Moved(acc[0].code) = 0..(0 - 1)
    BY <2>1, <2>2
  <2> QED BY <1>1, <2>1, <2>3
<1>3. ASSUME NEW i \in 1..m, i - 1 \in S PROVE i \in S
  <2> DEFINE ac == acc[i - 1]
             a == args[i]
             r == acc[i]
  <2> SUFFICES ASSUME r.err = "none" PROVE r.func_param_id = i /\ Moved(r.code) = 0..(i - 1)
    BY <1>1
  <2>0. i - 1 \in 0..m /\ a \in Argument /\ a.label # "bare"
    BY <1>1
  <2>1. /\ ac \in ArgState /\ a \in Argument /\ r = Arg(tabs, sig, loops, ac, a)
        /\ a.label # "bare"
    <3>1. ac \in ArgState /\ r = Arg(tabs, sig, loops, ac, a)
      BY <2>0 DEF IsArgList
    <3> QED BY <2>0, <3>1
  <2>2. ArgFailed(ac, r) \/ ArgSkipped(sig, ac, a, r) \/ ArgPassed(tabs, sig, loops, ac, a, r)
    BY <2>1, ArgCases
  <2>3. ac.err = "none" => ac.func_param_id = i - 1 /\ Moved(ac.code) = 0..(i - 1 - 1)
    BY <1>3
  <2> HIDE DEF ac, r, a, S, m
  <2>4. ArgPassed(tabs, sig, loops, ac, a, r)
    BY <2>1, <2>2 DEF ArgFailed, ArgSkipped
  <2> DEFINE c == ArgCode(tabs, sig, loops, ac, a)
  <2>5. /\ ac.err = "none" /\ (a.use # NULL => ArgTable(tabs, ac, a) # NONE)
        /\ r.func_param_id = ac.func_param_id + 1 /\ r.code = ac.code \o c
    BY <2>4 DEF ArgPassed
  <2>6. Moved(c) = {i - 1}
    BY <2>1, <2>3, <2>5, ArgMoved
  <2>7. c \in Seq(Instruction) /\ ac.code \in Seq(Instruction)
    BY <2>1, <2>5, ArgCodeType DEF ArgState
  <2> HIDE DEF c
  <2>8. Moved(r.code) = 0..(i - 1 - 1) \union {i - 1}
    BY <2>3, <2>5, <2>6, <2>7, MovedConcat
  <2>9. 0..(i - 1 - 1) \union {i - 1} = 0..(i - 1) /\ r.func_param_id = i
    BY <1>1, <2>3, <2>5
  <2> QED BY <2>8, <2>9
<1> HIDE DEF S
<1>4. \A i \in 0..m : i \in S
  BY <1>1, <1>2, <1>3, UpTo
<1>5. m \in S
  BY <1>1, <1>4
<1> QED BY <1>5 DEF S

\* What is known of a call that is accepted.
LEMMA CallCode ==
  ASSUME NEW n \in Nat, NEW tabs, IsStack(tabs, n), NEW sig, Len(sig.params) \in Nat,
         NEW loops \in Nat, NEW args \in Seq(Argument),
         NEW current \in [d : Nat, id : Names \union {NULL}], IsInner(tabs, current),
         NEW val, val = arg_list(tabs, sig, current, args, loops), val.err = "none"
  PROVE  /\ val.code \in Seq(Instruction)
         /\ WithoutLabels(args) => val.code \in Seq(Reads(tabs, Uses(args)))
         /\ ~sig.variadic => /\ Len(args) = Len(sig.params)
                             /\ \A i \in 1..Len(args) : ArgFits(sig.params[i], args[i])
         /\ sig.frame /\ (\A i \in 1..Len(args) : args[i].label # "bare") =>
              Moved(val.code) = 0..(Len(args) - 1)
<1>1. PICK acc : /\ IsArgList(acc, tabs, sig, current, args, loops)
                 /\ val = EndArgs(acc[Len(args)], sig, args, loops)
  BY ArgsLoop
<1> DEFINE m == Len(args)
           end == acc[m]
           create == Instr("CREATEFRAME", LiteralAddr, LiteralAddr, loops)
           frame == IF ~sig.frame \/ end.func_param_id > 0 THEN <<>> ELSE << create >>
<1>2. end.err = "none" /\ val.code = end.code \o frame /\ (~sig.variadic => ~Missing(args, sig))
  <2> DEFINE lack == end.err = "none" /\ ~sig.variadic /\ Missing(args, sig)
  <2>1. val = IF lack THEN Eval(<<>>, "FUNCTION_PARAMETER") ELSE Eval(end.code \o frame, end.err)
    BY <1>1 DEF EndArgs
  <2> HIDE DEF frame, end
  <2>2. CASE lack
    BY <2>1, <2>2 DEF Eval
  <2>3. CASE ~lack
    <3>1. val = Eval(end.code \o frame, end.err)
      BY <2>1, <2>3
    <3>2. val.code = end.code \o frame /\ val.err = end.err
      BY <3>1 DEF Eval
    <3> QED BY <2>3, <3>2
  <2> QED BY <2>2, <2>3
<1>3. end \in ArgState
  BY <1>1 DEF IsArgList
<1>4. \A ids : create \in Reads(tabs, ids)
  BY LiteralReads
<1>5. create \in Instruction /\ create.op # "MOVE"
  BY <1>4 DEF Reads, Instr
<1> HIDE DEF create, end
<1>6. frame \in Seq(Instruction) /\ end.code \in Seq(Instruction)
  BY <1>3, <1>5 DEF ArgState
<1>7. Moved(frame) = {}
  BY <1>5, MovedNone
<1>8. ASSUME WithoutLabels(args) PROVE val.code \in Seq(Reads(tabs, Uses(args)))
  <2> DEFINE R == Reads(tabs, Uses(args))
  <2>1. end.code \in Seq(R)
    BY <1>1, <1>2, <1>8, ArgsRead DEF end
  <2>2. create \in R
    BY <1>4
  <2> HIDE DEF R
  <2>3. frame \in Seq(R)
    BY <2>2
  <2> HIDE DEF frame
  <2>4. end.code \o frame \in Seq(R)
    BY <2>1, <2>3
  <2> QED BY <1>2, <2>4 DEF R
<1>9. ASSUME ~sig.variadic
      PROVE  Len(args) = Len(sig.params) /\ \A i \in 1..Len(args) : ArgFits(sig.params[i], args[i])
  <2>1. /\ Len(args) <= Len(sig.params)
        /\ \A i \in 1..Len(args) : ArgFits(sig.params[i], args[i])
    BY <1>1, <1>2, <1>9, ArgsFit DEF end
  <2>2. ~(Len(args) < Len(sig.params)) /\ Len(args) \in Nat
    BY <1>2, <1>9 DEF Missing
  <2> QED BY <2>1, <2>2
<1>10. ASSUME sig.frame, \A i \in 1..Len(args) : args[i].label # "bare"
       PROVE  Moved(val.code) = 0..(Len(args) - 1)
  <2>1. Moved(end.code) = 0..(Len(args) - 1)
    BY <1>1, <1>2, <1>10, ArgsMoved DEF end
  <2> HIDE DEF frame
  <2>2. Moved(end.code \o frame) = Moved(end.code) \union Moved(frame)
    BY <1>6, MovedConcat
  <2> QED BY <1>2, <1>7, <2>1, <2>2
<1> HIDE DEF frame
<1>11. val.code \in Seq(Instruction)
  BY <1>2, <1>6
<1> QED BY <1>8, <1>9, <1>10, <1>11

-----------------------------------------------------------------------------
(* The parameters that the symbol table lists.                             *)

\* search_param finds the first parameter of the name.
LEMMA SearchParam ==
  ASSUME NEW ps, Len(ps) \in Nat, NEW id, NEW j \in 1..Len(ps), ps[j].name = id
  PROVE  /\ search_param(ps, id) \in 1..Len(ps) /\ ps[search_param(ps, id)].name = id
         /\ \A i \in 1..(search_param(ps, id) - 1) : ps[i].name # id
<1> DEFINE S == {i \in 1..Len(ps) : ps[i].name = id}
           m == Min(S)
<1>1. S \in SUBSET Nat /\ S # {}
  OBVIOUS
<1>2. m \in S /\ \A i \in S : m <= i
  BY <1>1, MinIsLeast
<1> HIDE DEF m
<1>3. m \in 1..Len(ps) /\ ps[m].name = id
  BY <1>2
<1>4. \A i \in 1..(m - 1) : ps[i].name # id
  BY <1>2, <1>3
<1> QED BY <1>3, <1>4 DEF search_param

\* A parameter is added: it or the earlier one of its name gets its label and type.
LEMMA AddParamIs ==
  ASSUME NEW ps \in Seq(ListedParameter), NEW par \in Parameter
  PROVE  \E k \in 1..(Len(ps) + 1) :
           /\ k <= Len(ps) => ps[k].name = par.name
           /\ \A i \in 1..(k - 1) : ps[i].name # par.name
           /\ AddParam(ps, par) =
                [i \in 1..(Len(ps) + 1) |->
                   IF i = k THEN [name |-> par.name, label |-> par.label, type |-> par.type]
                   ELSE IF i = Len(ps) + 1 THEN param_init(par.name) ELSE ps[i]]
<1> DEFINE id == par.name
           new == param_init(id)
           ext == Append(ps, new)
           N == Len(ps) + 1
           k == search_param(ext, id)
           L == ListedParameter
<1>1. /\ id \in Names \union {NULL} /\ par.label \in {"_", "label"} /\ par.type \in Type
      /\ par.type = [type |-> par.type.type, nilable |-> par.type.nilable]
  BY DEF Parameter, Type
<1>2. new \in L /\ new.name = id
  BY <1>1 DEF param_init, ListedParameter
<1>3. /\ Len(ps) \in Nat /\ ext \in Seq(L) /\ Len(ext) = N /\ ext[N] = new
      /\ \A i \in 1..Len(ps) : ext[i] = ps[i] /\ ps[i] \in L
      /\ ext = [i \in 1..N |-> IF i = N THEN new ELSE ps[i]]
  <2> HIDE DEF new, L
  <2>1. ps \in Seq(L) /\ new \in L
    BY <1>2 DEF L
  <2>2. /\ Len(ps) \in Nat /\ ext \in Seq(L) /\ Len(ext) = N /\ ext[N] = new
        /\ \A i \in 1..Len(ps) : ext[i] = ps[i] /\ ps[i] \in L
    BY <2>1
  <2>3. ext = [i \in 1..N |-> ext[i]]
    BY <2>2, SeqIsFunction
  <2> HIDE DEF ext
  <2>4. ext = [i \in 1..N |-> IF i = N THEN new ELSE ps[i]]
    <3>1. ASSUME NEW i \in 1..N, i # N PROVE ext[i] = ps[i]
      <4>1. i \in 1..Len(ps)
        BY <2>2, <3>1
      <4> QED BY <2>2, <4>1
    <3> HIDE DEF N
    <3>2. \A i \in 1..N : ext[i] = IF i = N THEN new ELSE ps[i]
      BY <2>2, <3>1
    <3> QED BY <2>3, <3>2
  <2> QED BY <2>2, <2>4
<1> HIDE DEF ext, new
<1>4. k \in 1..N /\ ext[k].name = id /\ \A i \in 1..(k - 1) : ext[i].name # id
  <2>1. N \in 1..Len(ext) /\ ext[N].name = id /\ Len(ext) \in Nat
    BY <1>2, <1>3
  <2>2. /\ k \in 1..Len(ext) /\ ext[k].name = id
        /\ \A i \in 1..(k - 1) : ext[i].name # id
    BY <2>1, SearchParam
  <2> QED BY <1>3, <2>2
<1>5. ASSUME NEW q, Len(q) = N, \A i \in 1..N : q[i].name = ext[i].name
      PROVE  search_param(q, id) = k
  <2> HIDE DEF k
  <2> DEFINE j == search_param(q, id)
  <2>1. j \in 1..N /\ q[j].name = id /\ \A i \in 1..(j - 1) : q[i].name # id
    <3>1. q[k].name = id /\ k \in 1..Len(q) /\ Len(q) \in Nat
      BY <1>3, <1>4, <1>5
    <3>2. j \in 1..Len(q) /\ q[j].name = id /\ \A i \in 1..(j - 1) : q[i].name # id
      BY <3>1, SearchParam
    <3> QED BY <1>5, <3>2
  <2> HIDE DEF j
  <2>2. ~(j < k) /\ ~(k < j)
    <3>1. ASSUME j < k PROVE FALSE
      <4>1. j \in 1..(k - 1) /\ ext[j].name = id
        BY <1>3, <1>4, <1>5, <2>1, <3>1
      <4> QED BY <1>4, <4>1
    <3>2. ASSUME k < j PROVE FALSE
      <4>1. k \in 1..(j - 1) /\ q[k].name = id
        BY <1>3, <1>4, <1>5, <2>1, <3>2
      <4> QED BY <2>1, <4>1
    <3> QED BY <3>1, <3>2
  <2>3. j = k
    BY <1>3, <1>4, <2>1, <2>2
  <2> QED BY <2>3 DEF j
<1> DEFINE e == ext[k]
           e1 == [e EXCEPT !.label = par.label]
           e2 == [e1 EXCEPT !.type.type = par.type.type]
           e3 == [e2 EXCEPT !.type.nilable = par.type.nilable]
           With(x) == [i \in 1..N |-> IF i = k THEN x ELSE ext[i]]
<1> HIDE DEF k
<1>6. e \in L /\ e.name = id
  BY <1>3, <1>4
<1>7. /\ e1.name = id /\ e2.name = id
      /\ e3 = [name |-> id, label |-> par.label, type |-> par.type]
  <2> HIDE DEF e
  <2>1. e1 = [name |-> id, label |-> par.label, type |-> e.type]
    <3>1. e = [name |-> e.name, label |-> e.label, type |-> e.type]
      BY <1>6 DEF ListedParameter
    <3> QED BY <1>6, <3>1
  <2>4. e.type = [type |-> e.type.type, nilable |-> e.type.nilable]
    <3>1. e.type \in [type : KnownType \union {"undefined"}, nilable : BOOLEAN]
      BY <1>6 DEF ListedParameter
    <3> QED BY <3>1
  <2> HIDE DEF e1
  <2>2. e2 = [name |-> id, label |-> par.label, type |-> [type |-> par.type.type, nilable |-> e.type.nilable]]
    BY <2>1, <2>4
  <2> HIDE DEF e2
  <2>3. e3 = [name |-> id, label |-> par.label,
              type |-> [type |-> par.type.type, nilable |-> par.type.nilable]]
    BY <2>2
  <2> QED BY <1>1, <2>1, <2>2, <2>3
<1> HIDE DEF e
<1>8. ASSUME NEW x, x.name = id
      PROVE  /\ Len(With(x)) = N /\ With(x)[k] = x /\ \A i \in 1..N : With(x)[i].name = ext[i].name
             /\ search_param(With(x), id) = k
  <2>1. With(x) \in Seq(L \union {x})
    BY <1>3
  <2>2. Len(With(x)) = N
    BY <1>3
  <2>3. With(x)[k] = x /\ \A i \in 1..N : With(x)[i].name = ext[i].name
    BY <1>4, <1>8
  <2> HIDE DEF With
  <2> QED BY <1>5, <2>2, <2>3
<1>9. set_param_label(ext, id, par.label) = With(e1)
  BY <1>3, <1>4 DEF set_param_label, k, e
<1> HIDE DEF e1
<1>10. set_param_type(With(e1), id, par.type.type) = With(e2)
  <2>1. search_param(With(e1), id) = k
    BY <1>7, <1>8
  <2>2. [With(e1) EXCEPT ![k].type.type = par.type.type] = With(e2)
    BY <1>4
  <2> QED BY <2>1, <2>2 DEF set_param_type
<1> HIDE DEF e2
<1>11. set_param_nil(With(e2), id, par.type.nilable) = With(e3)
  <2>1. search_param(With(e2), id) = k
    BY <1>7, <1>8
  <2>2. [With(e2) EXCEPT ![k].type.nilable = par.type.nilable] = With(e3)
    BY <1>4
  <2> QED BY <2>1, <2>2 DEF set_param_nil
<1>12. AddParam(ps, par) = With(e3)
  BY <1>9, <1>10, <1>11 DEF AddParam, add_param, ext, new
<1>13. With(e3) = [i \in 1..N |-> IF i = k THEN [name |-> id, label |-> par.label, type |-> par.type]
                                ELSE IF i = N THEN new ELSE ps[i]]
  <2> HIDE DEF e3
  <2> QED BY <1>3, <1>7
<1>14. (k <= Len(ps) => ps[k].name = id) /\ \A i \in 1..(k - 1) : ps[i].name # id
  <2>1. ASSUME k <= Len(ps) PROVE ps[k].name = id
    <3>1. k \in 1..Len(ps)
      BY <1>3, <1>4, <2>1
    <3> QED BY <1>3, <1>4, <3>1
  <2>2. ASSUME NEW i \in 1..(k - 1) PROVE ps[i].name # id
    <3>1. i \in 1..Len(ps)
      BY <1>3, <1>4
    <3> QED BY <1>3, <1>4, <3>1
  <2> QED BY <2>1, <2>2
<1> HIDE DEF With
<1> QED BY <1>4, <1>12, <1>13, <1>14 DEF new

\* The list stays one of parameters.
LEMMA AddParamType ==
  ASSUME NEW ps \in Seq(ListedParameter), NEW par \in Parameter
  PROVE  /\ AddParam(ps, par) \in Seq(ListedParameter)
         /\ Len(AddParam(ps, par)) = Len(ps) + 1
<1> DEFINE N == Len(ps) + 1
           x == [name |-> par.name, label |-> par.label, type |-> par.type]
           new == param_init(par.name)
<1>1. PICK k \in 1..N : AddParam(ps, par) =
        [i \in 1..N |-> IF i = k THEN x ELSE IF i = N THEN new ELSE ps[i]]
  BY AddParamIs
<1>2. x \in ListedParameter /\ new \in ListedParameter
  BY DEF Parameter, Type, param_init, ListedParameter, KnownType
<1>3. Len(ps) \in Nat /\ \A i \in 1..N : i # N => ps[i] \in ListedParameter
  OBVIOUS
<1> HIDE DEF x, new
<1>4. AddParam(ps, par) \in [1..N -> ListedParameter] /\ N \in Nat
  BY <1>1, <1>2, <1>3
<1> HIDE DEF N
<1>5. AddParam(ps, par) \in Seq(ListedParameter) /\ Len(AddParam(ps, par)) = N
  BY <1>4
<1> QED BY <1>5 DEF N

\* The lists on the way to the one of a function.
IsParamList(list, params) ==
  /\ list \in [0..Len(params) -> Seq(ListedParameter)]
  /\ list[0] = <<>> /\ list[Len(params)] = ParamList(params)
  /\ \A i \in 1..Len(params) : list[i] = AddParam(list[i - 1], params[i])

\* param_list runs through the parameters one by one.
LEMMA ParamListLoop ==
  ASSUME NEW params \in Seq(Parameter)
  PROVE  \E list : IsParamList(list, params)
<1> DEFINE m == Len(params)
           X == Seq(ListedParameter)
           step == [i \in 1..m |-> [ps \in X |-> AddParam(ps, params[i])]]
           list == CHOOSE g : g = [i \in 0..m |-> IF i = 0 THEN <<>> ELSE AddParam(g[i - 1], params[i])]
<1>1. m \in Nat /\ \A i \in 1..m : params[i] \in Parameter
  OBVIOUS
<1>2. <<>> \in X
  OBVIOUS
<1>3. ParamList(params) = list[m]
  BY DEF ParamList
<1> HIDE DEF m
<1>4. step \in [1..m -> [X -> X]]
  BY <1>1, AddParamType
<1> HIDE DEF step
<1>5. PICK f \in [0..m -> X] : f[0] = <<>> /\ \A i \in 1..m : f[i] = step[i][f[i - 1]]
  <2> HIDE DEF X
  <2>1. \E f : IsLoop(f, m, X, <<>>, step)
    BY <1>1, <1>2, <1>4, LoopExists
  <2> QED BY <2>1 DEF IsLoop
<1>6. \A i \in 1..m : f[i] = AddParam(f[i - 1], params[i])
  <2>1. \A i \in 1..m : f[i - 1] \in X
    BY <1>1, <1>5
  <2> HIDE DEF X
  <2> QED BY <1>5, <2>1 DEF step
<1> HIDE DEF X
<1>7. f = [i \in 0..m |-> IF i = 0 THEN <<>> ELSE AddParam(f[i - 1], params[i])]
  BY <1>1, <1>5, <1>6
<1>8. list = [i \in 0..m |-> IF i = 0 THEN <<>> ELSE AddParam(list[i - 1], params[i])]
  BY <1>7
<1> HIDE DEF list
<1>9. list[0] = <<>> /\ \A i \in 1..m : list[i] = AddParam(list[i - 1], params[i])
  BY <1>1, <1>8
<1>10. \A i \in 0..m : list[i] \in X
  <2> DEFINE S == {i \in 0..m : list[i] \in X}
  <2>1. 0 \in S
    BY <1>1, <1>2, <1>9
  <2>2. ASSUME NEW i \in 1..m, i - 1 \in S PROVE i \in S
    <3>1. list[i - 1] \in X /\ i \in 0..m
      BY <1>1, <2>2
    <3>2. params[i] \in Parameter /\ list[i] = AddParam(list[i - 1], params[i])
      BY <1>1, <1>9
    <3>3. list[i] \in X
      BY <3>1, <3>2, AddParamType DEF X
    <3> QED BY <3>1, <3>3
  <2> HIDE DEF S
  <2>3. \A i \in 0..m : i \in S
    BY <1>1, <2>1, <2>2, UpTo
  <2> QED BY <2>3 DEF S
<1>11. list \in [0..m -> X]
  BY <1>8, <1>10
<1>12. IsParamList(list, params)
  BY <1>3, <1>9, <1>11 DEF IsParamList, m, X
<1> QED BY <1>12

\* If every listed parameter has a label, the list is that of the header: no two
\* names are the same, since the second one would have been left unset.
LEMMA ParamListIs ==
  ASSUME NEW params \in Seq(Parameter)
  PROVE  /\ ParamList(params) \in Seq(ListedParameter) /\ Len(ParamList(params)) = Len(params)
         /\ (\A i \in 1..Len(params) : ParamList(params)[i].label # "unset") =>
              \A i \in 1..Len(params) : /\ ParamList(params)[i].label = params[i].label
                                        /\ ParamList(params)[i].type = params[i].type
<1>1. PICK list : IsParamList(list, params)
  BY ParamListLoop
<1> DEFINE m == Len(params)
           Own(i, j) == list[i][j].label = params[j].label /\ list[i][j].type = params[j].type
           S == {i \in 0..m :
                   /\ Len(list[i]) = i
                   /\ \A j \in 1..i :
                        /\ list[i][j].name = params[j].name
                        /\ list[i][j].label # "unset" => \A l \in 1..(j - 1) : params[l].name # params[j].name
                        /\ Own(i, j) \/ \E l \in 1..i : l # j /\ params[l].name = params[j].name}
<1>2. m \in Nat /\ \A i \in 1..m : params[i] \in Parameter
  OBVIOUS
<1>3. /\ \A i \in 0..m : list[i] \in Seq(ListedParameter)
      /\ list[0] = <<>> /\ list[m] = ParamList(params)
      /\ \A i \in 1..m : list[i] = AddParam(list[i - 1], params[i])
  BY <1>1, <1>2 DEF IsParamList
<1> HIDE DEF m
<1>4. 0 \in S
  BY <1>2, <1>3
<1>5. ASSUME NEW i \in 1..m, i - 1 \in S PROVE i \in S
  <2> DEFINE ps == list[i - 1]
             par == params[i]
             q == list[i]
  <2>1. /\ i \in Nat /\ i - 1 \in 0..m /\ ps \in Seq(ListedParameter) /\ par \in Parameter
        /\ q = AddParam(ps, par)
    BY <1>2, <1>3
  <2>2. /\ Len(ps) = i - 1
        /\ \A j \in 1..(i - 1) :
             /\ ps[j].name = params[j].name
             /\ ps[j].label # "unset" => \A l \in 1..(j - 1) : params[l].name # params[j].name
             /\ Own(i - 1, j) \/ \E l \in 1..(i - 1) : l # j /\ params[l].name = params[j].name
    BY <1>5
  <2> HIDE DEF ps, q
  <2>3. PICK k \in 1..i :
          /\ k <= i - 1 => ps[k].name = par.name
          /\ \A j \in 1..(k - 1) : ps[j].name # par.name
          /\ q = [j \in 1..i |->
                    IF j = k THEN [name |-> par.name, label |-> par.label, type |-> par.type]
                    ELSE IF j = i THEN param_init(par.name) ELSE ps[j]]
    <3>1. Len(ps) + 1 = i
      BY <2>1, <2>2
    <3> HIDE DEF par
    <3>2. PICK k \in 1..(Len(ps) + 1) :
            /\ k <= Len(ps) => ps[k].name = par.name
            /\ \A j \in 1..(k - 1) : ps[j].name # par.name
            /\ AddParam(ps, par) =
                 [j \in 1..(Len(ps) + 1) |->
                    IF j = k THEN [name |-> par.name, label |-> par.label, type |-> par.type]
                    ELSE IF j = Len(ps) + 1 THEN param_init(par.name) ELSE ps[j]]
      BY <2>1, AddParamIs
    <3>3. k \in 1..i /\ (k <= i - 1 => ps[k].name = par.name)
      BY <2>2, <3>1, <3>2
    <3>4. q = [j \in 1..i |->
                 IF j = k THEN [name |-> par.name, label |-> par.label, type |-> par.type]
                 ELSE IF j = i THEN param_init(par.name) ELSE ps[j]]
      BY <2>1, <3>1, <3>2
    <3> QED BY <3>2, <3>3, <3>4
  <2>4. Len(q) = i
    BY <2>1, <2>2, AddParamType
  <2>5. k # i => k \in 1..(i - 1) /\ params[k].name = par.name
    BY <2>1, <2>2, <2>3
  <2>6. ASSUME NEW j \in 1..i
        PROVE  /\ q[j].name = params[j].name
               /\ q[j].label # "unset" => \A l \in 1..(j - 1) : params[l].name # params[j].name
               /\ Own(i, j) \/ \E l \in 1..i : l # j /\ params[l].name = params[j].name
    <3>1. CASE j = i /\ k = i
      <4>1. q[j].name = par.name /\ q[j].label = par.label /\ q[j].type = par.type
        BY <2>3, <3>1
      <4>2. \A l \in 1..(i - 1) : params[l].name # par.name
        BY <2>1, <2>2, <2>3, <3>1
      <4> QED BY <3>1, <4>1, <4>2 DEF q
    <3>2. CASE j = i /\ k # i
      <4>1. q[j] = param_init(par.name)
        BY <2>3, <3>2
      <4>2. q[j].name = par.name /\ q[j].label = "unset"
        BY <4>1 DEF param_init
      <4> QED BY <2>5, <3>2, <4>2
    <3>3. CASE j # i /\ j = k
      <4>1. q[j].name = par.name /\ q[j].label = par.label
        BY <2>3, <3>3
      <4>2. j \in 1..(i - 1) /\ params[j].name = par.name
        BY <2>5, <3>3
      <4>3. \A l \in 1..(j - 1) : params[l].name # par.name
        <5>1. ASSUME NEW l \in 1..(j - 1) PROVE params[l].name # par.name
          <6>1. l \in 1..(i - 1) /\ l \in 1..(k - 1)
            BY <2>1, <3>3
          <6> QED BY <2>2, <2>3, <6>1
        <5> QED BY <5>1
      <4>4. i \in 1..i /\ i # j /\ params[i].name = params[j].name
        BY <2>1, <3>3, <4>2
      <4> QED BY <4>1, <4>2, <4>3, <4>4
    <3>4. CASE j # i /\ j # k
      <4>1. q[j] = ps[j] /\ j \in 1..(i - 1)
        BY <2>1, <2>3, <3>4
      <4>2. ASSUME Own(i - 1, j) PROVE Own(i, j)
        BY <4>1, <4>2 DEF ps, q
      <4>3. 1..(i - 1) \subseteq 1..i
        BY <2>1
      <4> QED BY <2>2, <4>1, <4>2, <4>3
    <3> QED BY <3>1, <3>2, <3>3, <3>4
  <2>7. i \in 0..m
    BY <1>2
  <2> QED BY <2>4, <2>6, <2>7 DEF q
<1>6. \A i \in 0..m : i \in S
  <2> HIDE DEF S
  <2> QED BY <1>2, <1>4, <1>5, UpTo
<1>7. m \in S
  BY <1>2, <1>6
<1>8. ASSUME \A i \in 1..m : list[m][i].label # "unset", NEW i \in 1..m PROVE Own(m, i)
  <2>1. ASSUME NEW l \in 1..m, l # i, params[l].name = params[i].name PROVE FALSE
    <3>1. CASE l < i
      <4>1. l \in 1..(i - 1)
        BY <1>2, <3>1
      <4> QED BY <1>7, <1>8, <2>1, <4>1
    <3>2. CASE i < l
      <4>1. i \in 1..(l - 1)
        BY <1>2, <3>2
      <4> QED BY <1>7, <1>8, <2>1, <4>1
    <3> QED BY <1>2, <2>1, <3>1, <3>2
  <2> QED BY <1>7, <2>1
<1>9. Len(list[m]) = m
  BY <1>7
<1> HIDE DEF S
<1>10. list[m] \in Seq(ListedParameter) /\ list[m] = ParamList(params)
  BY <1>2, <1>3
<1>11. (\A i \in 1..m : list[m][i].label # "unset") =>
         \A i \in 1..m : list[m][i].label = params[i].label /\ list[m][i].type = params[i].type
  BY <1>8
<1>12. /\ ParamList(params) \in Seq(ListedParameter) /\ Len(ParamList(params)) = m
       /\ (\A i \in 1..m : ParamList(params)[i].label # "unset") =>
            \A i \in 1..m : /\ ParamList(params)[i].label = params[i].label
                            /\ ParamList(params)[i].type = params[i].type
  BY <1>9, <1>10, <1>11, Zenon
<1> QED BY <1>12 DEF m

-----------------------------------------------------------------------------
(* Right-hand sides.                                                       *)

\* What follows = is an expression, or a call of a function that returns a value,
\* and its type fits the variable.
RhsIs(tabs, lhs, rhs, loops, val) ==
  /\ Compatible(tabs[lhs.d][lhs.id], RhsType(tabs, rhs))
  /\ rhs.kind = "expr" => /\ rhs \in Expressions /\ val.code \in Seq(Reads(tabs, {rhs.use}))
                          /\ RhsType(tabs, rhs) \in Results
  /\ rhs.kind # "expr" => /\ rhs \in Calls /\ rhs.kind = "call"
                          /\ IsFunction(tabs[GLOBAL][rhs.f])
                          /\ tabs[GLOBAL][rhs.f].sig.ret.type # "nil"
                          /\ RhsType(tabs, rhs) = tabs[GLOBAL][rhs.f].sig.ret
                          /\ val = arg_list(tabs, tabs[GLOBAL][rhs.f].sig, lhs, rhs.args, loops)

\* An accepted right-hand side is an accepted expression, or a call of a
\* function that returns a value.
LEMMA RhsCode ==
  ASSUME NEW n \in Nat, NEW tabs, IsStack(tabs, n), NEW lhs, IsInner(tabs, lhs),
         NEW rhs \in Expressions \union Calls, NEW loops \in Nat,
         NEW val, val = Rhs(tabs, lhs, rhs, loops), val.err = "none"
  PROVE  RhsIs(tabs, lhs, rhs, loops, val)
<1> DEFINE head == IF rhs.kind = "call" THEN rhs.f ELSE rhs.use
           item == IF head = NULL THEN NULL ELSE tabs[GLOBAL][head]
           fits == Compatible(tabs[lhs.d][lhs.id], RhsType(tabs, rhs))
           ex == expr(tabs, lhs, rhs, loops)
           list == arg_list(tabs, item.sig, lhs, rhs.args, loops)
           called == CASE item.sig.ret.type = "nil" -> Eval(<<>>, "INCOMPATIBLE_TYPE")
                       [] item.sig.ret.type # "nil" /\ rhs.kind = "expr" -> Eval(<<>>, "SYNTAX")
                       [] OTHER -> IF fits THEN list ELSE Eval(<<>>, "INCOMPATIBLE_TYPE")
           other == Eval(<<>>, IF item # NULL THEN "UNDEFINED_FUNCTION" ELSE "SYNTAX")
           plain == IF ex.err = "none" /\ ~fits THEN Eval(<<>>, "INCOMPATIBLE_TYPE") ELSE ex
<1>1. val = CASE IsFunction(item) -> called
              [] ~IsFunction(item) /\ rhs.kind = "call" -> other
              [] OTHER -> plain
  BY DEF Rhs
<1>2. \A e : Eval(<<>>, e).err = e
  BY DEF Eval
<1> HIDE DEF fits, ex, list
<1>3. rhs.kind = "expr" => rhs \in Expressions /\ rhs.use \in Names \union {NULL} /\ rhs.res \in Results
  BY DEF Expressions, Calls
<1>4. rhs.kind # "expr" => rhs \in Calls /\ rhs.kind = "call"
  BY DEF Expressions, Calls
<1>5. CASE IsFunction(item)
  <2>1. val = called
    BY <1>1, <1>5
  <2>2. item.sig.ret.type # "nil" /\ rhs.kind # "expr" /\ fits /\ val = list
    BY <1>2, <2>1
  <2>3. rhs.kind = "call" /\ item = tabs[GLOBAL][rhs.f]
    BY <1>4, <1>5, <2>2 DEF IsFunction
  <2>4. RhsType(tabs, rhs) = item.sig.ret
    BY <2>3 DEF RhsType
  <2> QED BY <1>4, <1>5, <2>2, <2>3, <2>4 DEF RhsIs, fits, list
<1>6. CASE ~IsFunction(item)
  <2>1. rhs.kind # "call"
    <3>1. ASSUME rhs.kind = "call" PROVE FALSE
      <4>1. val = other
        BY <1>1, <1>6, <3>1
      <4>2. other.err # "none"
        BY <1>2
      <4> QED BY <4>1, <4>2
    <3> QED BY <3>1
  <2>2. val = plain
    BY <1>1, <1>6, <2>1
  <2>3. val = ex /\ fits
    BY <1>2, <2>2
  <2>4. rhs.kind = "expr" /\ RhsType(tabs, rhs) = rhs.res
    BY <1>4, <2>1 DEF RhsType
  <2>5. val.code \in Seq(Reads(tabs, {rhs.use}))
    BY <1>3, <2>3, <2>4, ExprCode DEF ex
  <2> QED BY <1>3, <2>3, <2>4, <2>5 DEF RhsIs, fits
<1> QED BY <1>5, <1>6

-----------------------------------------------------------------------------
(* Items.                                                                  *)

\* A new item.
LEMMA NewIsItem ==
  ASSUME NEW u \in Nat
  PROVE  /\ NewItem(u) \in Item /\ NewItem(u).sig = NoSignature /\ NewItem(u).uid = u
         /\ ~NewItem(u).init /\ ~NewItem(u).nilable /\ NewItem(u).type = "undefined"
<1>1. NoSignature \in ItemSignature
  <2>1. NoValue \in Type
    BY DEF NoValue, Type
  <2>2. <<>> \in Seq(Parameter) /\ <<>> \in Seq(ListedParameter)
    OBVIOUS
  <2> QED BY <2>1, <2>2 DEF NoSignature, ItemSignature
<1> QED BY <1>1 DEF NewItem, Item

\* An item without a signature of its own.
LEMMA NoSignatureKnown ==
  ASSUME NEW x \in Item, x.type # "undefined", x.sig = NoSignature
  PROVE  IsKnown(x) /\ x.sig.written = <<>>
<1>1. NoSignature.written = <<>> /\ NoSignature.params = <<>> /\ ~NoSignature.variadic
  BY DEF NoSignature
<1>2. ParamList(<<>>) = <<>>
  <2>1. <<>> \in Seq(Parameter) /\ Len(<<>>) = 0
    OBVIOUS
  <2>2. ParamList(<<>>) \in Seq(ListedParameter) /\ Len(ParamList(<<>>)) = 0
    BY <2>1, ParamListIs
  <2> QED BY <2>2
<1> QED BY <1>1, <1>2 DEF IsKnown

\* The fields of an item may be set.
LEMMA ItemWith ==
  ASSUME NEW x \in Item
  PROVE  /\ x = [uid |-> x.uid, init |-> x.init, mutable |-> x.mutable, nilable |-> x.nilable,
                 type |-> x.type, sig |-> x.sig]
         /\ \A b \in BOOLEAN : /\ [x EXCEPT !.init = b] \in Item
                               /\ [x EXCEPT !.mutable = b] \in Item
                               /\ [x EXCEPT !.nilable = b] \in Item
         /\ \A t \in KnownType : [x EXCEPT !.type = t] \in Item
<1>1. x = [uid |-> x.uid, init |-> x.init, mutable |-> x.mutable, nilable |-> x.nilable,
           type |-> x.type, sig |-> x.sig]
  BY DEF Item
<1>2. \A b \in BOOLEAN : [x EXCEPT !.init = b] \in Item
  BY DEF Item
<1>3. \A b \in BOOLEAN : [x EXCEPT !.mutable = b] \in Item
  BY DEF Item
<1>4. \A b \in BOOLEAN : [x EXCEPT !.nilable = b] \in Item
  BY DEF Item
<1>5. \A t \in KnownType : [x EXCEPT !.type = t] \in Item
  BY DEF Item
<1> QED BY <1>1, <1>2, <1>3, <1>4, <1>5

\* The item of a function.
LEMMA FunctionKnown ==
  ASSUME NEW u \in Nat, NEW sig \in Signature, ~(sig.frame /\ sig.variadic)
  PROVE  /\ IsKnown(FunctionItem(u, sig)) /\ IsFunction(FunctionItem(u, sig))
         /\ FunctionItem(u, sig).sig.written = sig.params
<1> DEFINE s == [ret |-> sig.ret, written |-> sig.params, params |-> ParamList(sig.params),
                 variadic |-> sig.variadic, frame |-> sig.frame]
           nil == sig.ret.nilable
           a == NewItem(u)
           b == [a EXCEPT !.type = "function"]
           c == [b EXCEPT !.nilable = nil]
           x == [c EXCEPT !.sig = s]
<1>1. sig.params \in Seq(Parameter) /\ sig.ret \in Type /\ nil \in BOOLEAN
  BY DEF Signature, Type
<1>2. ParamList(sig.params) \in Seq(ListedParameter)
  BY <1>1, ParamListIs
<1>3. s \in ItemSignature
  BY <1>1, <1>2 DEF Signature, ItemSignature
<1>4. FunctionItem(u, sig) = x
  BY DEF FunctionItem, NewItem
<1>5. s.params = ParamList(s.written) /\ ~(s.frame /\ s.variadic) /\ s.written = sig.params
  OBVIOUS
<1> HIDE DEF s, nil
<1>6. b \in Item /\ b.type = "function"
  <2>1. a \in Item
    BY NewIsItem
  <2> HIDE DEF a
  <2>2. "function" \in KnownType
    BY DEF KnownType
  <2> QED BY <2>1, <2>2 DEF Item
<1> HIDE DEF b
<1>7. c \in Item /\ c.type = "function"
  BY <1>1, <1>6 DEF Item
<1> HIDE DEF c
<1>8. x \in Item /\ x.type = "function" /\ x.sig = s
  BY <1>3, <1>7 DEF Item
<1> HIDE DEF x
<1>9. x # NULL
  BY <1>8, NullAssumption
<1> QED BY <1>4, <1>5, <1>8, <1>9 DEF IsKnown, IsFunction

-----------------------------------------------------------------------------
(* What a step does to the tables.                                         *)

\* An item that stays, or is initialized.
Stays(d, id) ==
  /\ d \in 1..Len(tables) /\ tables[d][id] # NULL
  /\ \/ tables'[d][id] = tables[d][id]
     \/ tables'[d][id] = [tables[d][id] EXCEPT !.init = TRUE]

\* An item that is added.
Added(d, id) ==
  /\ IsKnown(tables'[d][id])
  /\ d > 1 /\ tables'[d][id].nilable => tables'[d][id].init
  /\ \A i \in 1..Len(tables'[d][id].sig.written) :
       d = GLOBAL /\ id \in Functions => tables'[d][id].sig.written[i].name \in Names
  /\ (d = GLOBAL => ~IsFunction(tables'[d][id])) => AddrOf(tables', d, id) \in declared'

\* What stays as it is when an item is initialized.
LEMMA ItemInitialized ==
  ASSUME NEW x \in Item, NEW y, y = x \/ y = [x EXCEPT !.init = TRUE]
  PROVE  /\ y \in Item /\ y.type = x.type /\ y.sig = x.sig /\ y.uid = x.uid /\ y.nilable = x.nilable
         /\ x.init => y.init
<1>1. CASE y = x
  BY <1>1
<1>2. CASE y = [x EXCEPT !.init = TRUE]
  BY <1>2 DEF Item
<1> QED BY <1>1, <1>2

\* The invariant holds again when every item stayed or was added.
LEMMA ItemsKept ==
  ASSUME CodeInv, Len(tables') \in Nat \ {0}, declared \subseteq declared',
         pc' = "declarations" => emitted' = <<>>,
         \A d \in 1..Len(tables'), id \in Names :
           tables'[d][id] # NULL => Stays(d, id) \/ Added(d, id)
  PROVE  CodeInv'
<1>1. ASSUME NEW d \in 1..Len(tables'), NEW id \in Names, tables'[d][id] # NULL
      PROVE  Added(d, id)
  <2>1. CASE Added(d, id)
    BY <2>1
  <2>2. CASE Stays(d, id)
    <3> DEFINE x == tables[d][id]
               y == tables'[d][id]
    <3>1. d \in 1..Len(tables) /\ x # NULL /\ (y = x \/ y = [x EXCEPT !.init = TRUE])
      BY <2>2 DEF Stays
    <3>2. IsKnown(x) /\ (d > 1 /\ x.nilable => x.init)
      BY <3>1 DEF CodeInv, KnownItems
    <3>3. x \in Item
      BY <3>2 DEF IsKnown
    <3>4. /\ y \in Item /\ y.type = x.type /\ y.sig = x.sig /\ y.uid = x.uid /\ y.nilable = x.nilable
          /\ x.init => y.init
      <4> HIDE DEF x, y
      <4> QED BY <3>1, <3>3, ItemInitialized
    <3>5. d = GLOBAL /\ id \in Functions => \A i \in 1..Len(x.sig.written) : x.sig.written[i].name \in Names
      BY <3>1 DEF CodeInv, NamedParams
    <3>6. (d = GLOBAL => ~IsFunction(x)) => AddrOf(tables, d, id) \in declared
      BY <3>1 DEF CodeInv, AllDeclared
    <3>7. AddrOf(tables', d, id) = AddrOf(tables, d, id)
      BY <3>4 DEF AddrOf
    <3>8. IsKnown(y) /\ (IsFunction(y) <=> IsFunction(x))
      <4> HIDE DEF x, y
      <4>1. y # NULL
        BY <3>4, NullAssumption
      <4> QED BY <3>1, <3>2, <3>4, <4>1 DEF IsKnown, IsFunction
    <3> QED BY <3>1, <3>2, <3>4, <3>5, <3>6, <3>7, <3>8 DEF Added
  <2> QED BY <1>1, <2>1, <2>2
<1>2. KnownItems' /\ AllDeclared'
  BY <1>1 DEF Added, KnownItems, AllDeclared
<1>3. NamedParams'
  <2>1. GLOBAL \in 1..Len(tables') /\ \A f \in Functions : f \in Names
    BY ParserAssumption DEF GLOBAL
  <2> QED BY <1>1, <2>1 DEF Added, NamedParams
<1> QED BY <1>2, <1>3 DEF CodeInv

\* The items that stay name the same functions.
LEMMA FunctionsStay ==
  ASSUME CodeInv, Len(tables) \in Nat \ {0},
         \A id \in Names : tables[GLOBAL][id] # NULL => Stays(GLOBAL, id)
  PROVE  /\ FunctionAddrs \subseteq FunctionAddrs'
         /\ \A id \in Names : tables[GLOBAL][id] # NULL => tables'[GLOBAL][id].sig = tables[GLOBAL][id].sig
<1>1. ASSUME NEW id \in Names, tables[GLOBAL][id] # NULL
      PROVE  /\ tables'[GLOBAL][id].sig = tables[GLOBAL][id].sig
             /\ AddrOf(tables', GLOBAL, id) = AddrOf(tables, GLOBAL, id)
             /\ IsFunction(tables[GLOBAL][id]) => IsFunction(tables'[GLOBAL][id])
  <2> DEFINE x == tables[GLOBAL][id]
             y == tables'[GLOBAL][id]
  <2>1. x \in Item /\ (y = x \/ y = [x EXCEPT !.init = TRUE])
    BY <1>1 DEF Stays, CodeInv, KnownItems, IsKnown, GLOBAL
  <2>2. y \in Item /\ y.type = x.type /\ y.sig = x.sig /\ y.uid = x.uid
    <3> HIDE DEF x, y
    <3> QED BY <2>1, ItemInitialized
  <2>3. AddrOf(tables', GLOBAL, id) = AddrOf(tables, GLOBAL, id)
    BY <2>2 DEF AddrOf
  <2>4. IsFunction(x) => IsFunction(y)
    <3> HIDE DEF x, y
    <3> QED BY <2>2, NullAssumption DEF IsFunction
  <2> QED BY <2>2, <2>3, <2>4
<1>2. ASSUME NEW a \in FunctionAddrs PROVE a \in FunctionAddrs'
  <2>1. PICK f \in Names : IsFunction(tables[GLOBAL][f]) /\ a = AddrOf(tables, GLOBAL, f)
    BY DEF FunctionAddrs
  <2>2. tables[GLOBAL][f] # NULL
    BY <2>1 DEF IsFunction
  <2>3. IsFunction(tables'[GLOBAL][f]) /\ a = AddrOf(tables', GLOBAL, f)
    BY <1>1, <2>1, <2>2
  <2> QED BY <2>3 DEF FunctionAddrs
<1> QED BY <1>1, <1>2

-----------------------------------------------------------------------------
(* The code of a statement.                                                *)

\* The address of a variable in scope.
Visible(a) ==
  \E d \in 1..Len(tables), id \in Names : tables[d][id] # NULL /\ a = AddrOf(tables, d, id)

\* A variable in scope is an old one, and declared, or it is a function.
LEMMA VisibleAddr ==
  ASSUME ParserInv, CodeInv, NEW a, Visible(a)
  PROVE  a.uid \in 0..(unique_id - 1) /\ (a \in declared \/ a \in FunctionAddrs)
<1>1. PICK d \in 1..Len(tables), id \in Names : tables[d][id] # NULL /\ a = AddrOf(tables, d, id)
  BY DEF Visible
<1>2. tables[d][id].uid \in 0..(unique_id - 1)
  BY <1>1 DEF ParserInv, IsStack, IsTable, IsItem
<1>3. a.uid = tables[d][id].uid
  BY <1>1 DEF AddrOf, Addr
<1>4. CASE d = GLOBAL /\ IsFunction(tables[d][id])
  BY <1>1, <1>2, <1>3, <1>4 DEF FunctionAddrs
<1>5. CASE ~(d = GLOBAL /\ IsFunction(tables[d][id]))
  BY <1>1, <1>2, <1>3, <1>5 DEF CodeInv, AllDeclared
<1> QED BY <1>4, <1>5

\* An instruction that declares no variable, and names what the parser meant:
\* no variable, or one in scope.
OldUse ==
  {x \in Instruction :
     /\ x.addr = x.want
     /\ x.addr.frame \in {"GF", "LF"} => x.op # "DEFVAR" /\ Visible(x.addr)}

\* The code that declares a new variable and stores its value.
Declares(t, a) ==
  /\ t \in Seq(Instruction)
  /\ \A i \in 1..Len(t) : t[i].addr = a /\ t[i].want = a /\ (t[i].op = "DEFVAR" <=> i = 1)

\* Code that uses the variables in scope and may then declare one: it names what
\* the parser meant, and nothing before its declaration.
LEMMA CodeInOrder ==
  ASSUME ParserInv, CodeInv, FunctionAddrs \subseteq FunctionAddrs', NEW s \in Seq(OldUse),
         NEW a, a.uid = unique_id, NEW t, Declares(t, a), Emit(s \o t)
  PROVE  /\ SameVariable' /\ DeclaredBeforeUse' /\ declared \subseteq declared'
         /\ t # <<>> => a \in declared'
<1> DEFINE c == s \o t
           n == Len(s)
           m == Len(t)
<1>1. OldUse \subseteq Instruction
  BY DEF OldUse
<1>2. s \in Seq(Instruction) /\ t \in Seq(Instruction) /\ n \in Nat /\ m \in Nat
  BY <1>1 DEF Declares
<1>3. /\ Len(c) = n + m /\ c \in Seq(Instruction)
      /\ \A i \in 1..n : c[i] = s[i]
      /\ \A i \in (n + 1)..(n + m) : c[i] = t[i - n]
  BY <1>2
<1>4. /\ emitted' = c
      /\ declared' = declared \union {c[i].addr : i \in {j \in 1..Len(c) : c[j].op = "DEFVAR"}}
  BY DEF Emit
<1>5. \A i \in 1..n : s[i] \in OldUse
  OBVIOUS
<1>6. \A i \in 1..m : t[i].addr = a /\ t[i].want = a /\ (t[i].op = "DEFVAR" <=> i = 1)
  BY DEF Declares
<1> HIDE DEF c, n, m
<1>7. \A i \in 1..(n + m) : i \in 1..n \/ (i \in (n + 1)..(n + m) /\ i - n \in 1..m)
  BY <1>2
<1>8. \A i \in 1..(n + m) : c[i].addr = c[i].want
  BY <1>3, <1>5, <1>6, <1>7 DEF OldUse
<1>9. m > 0 => a \in declared'
  <2> SUFFICES ASSUME m > 0 PROVE a \in declared'
    OBVIOUS
  <2>1. PICK k \in 1..Len(c) : k = n + 1
    BY <1>2, <1>3
  <2>2. k \in (n + 1)..(n + m) /\ k - n = 1 /\ 1 \in 1..m
    BY <1>2, <2>1
  <2>3. c[k].op = "DEFVAR" /\ c[k].addr = a
    BY <1>3, <1>6, <2>2
  <2> QED BY <1>4, <2>3
<1>10. ASSUME NEW i \in 1..(n + m), c[i].addr.frame \in {"GF", "LF"}, c[i].addr \notin FunctionAddrs'
       PROVE  /\ c[i].addr \in declared'
              /\ \A j \in (i + 1)..(n + m) : c[j].op = "DEFVAR" => c[j].addr # c[i].addr
  <2>1. CASE i \in 1..n
    <3>1. c[i] \in OldUse
      BY <1>3, <1>5, <2>1
    <3>2. Visible(c[i].addr)
      BY <1>10, <3>1 DEF OldUse
    <3>3. c[i].addr.uid \in 0..(unique_id - 1) /\ c[i].addr \in declared
      BY <1>10, <3>2, VisibleAddr
    <3>4. ASSUME NEW j \in (i + 1)..(n + m), c[j].op = "DEFVAR" PROVE c[j].addr # c[i].addr
      <4>1. CASE j \in 1..n
        <5>1. c[j] \in OldUse
          BY <1>3, <1>5, <4>1
        <5>2. c[j].addr.frame \notin {"GF", "LF"}
          BY <3>4, <5>1 DEF OldUse
        <5> QED BY <1>10, <5>2
      <4>2. CASE j \notin 1..n
        <5>1. j \in (n + 1)..(n + m) /\ j - n \in 1..m
          BY <1>2, <1>7, <4>2
        <5>2. c[j].addr = a
          BY <1>3, <1>6, <5>1
        <5>3. unique_id \notin 0..(unique_id - 1)
          BY DEF ParserInv
        <5> QED BY <3>3, <5>2, <5>3
      <4> QED BY <4>1, <4>2
    <3> QED BY <1>4, <3>3, <3>4
  <2>2. CASE i \notin 1..n
    <3>1. i \in (n + 1)..(n + m) /\ i - n \in 1..m /\ m > 0
      BY <1>2, <1>7, <2>2
    <3>2. c[i].addr = a
      BY <1>3, <1>6, <3>1
    <3>3. ASSUME NEW j \in (i + 1)..(n + m) PROVE c[j].op # "DEFVAR"
      <4>1. j \in (n + 1)..(n + m) /\ j - n \in 1..m /\ j - n # 1
        BY <1>2, <3>1
      <4> QED BY <1>3, <1>6, <4>1
    <3> QED BY <1>9, <3>1, <3>2, <3>3
  <2> QED BY <2>1, <2>2
<1>11. SameVariable'
  BY <1>3, <1>4, <1>8 DEF SameVariable
<1>12. DeclaredBeforeUse'
  BY <1>3, <1>4, <1>10 DEF DeclaredBeforeUse
<1>13. t # <<>> => m > 0
  BY <1>2 DEF m
<1> QED BY <1>4, <1>9, <1>11, <1>12, <1>13

-----------------------------------------------------------------------------
(* The variables that are declared and assigned.                           *)

\* A name that is declared in the innermost table is found there.
LEMMA DeclaredHere ==
  ASSUME NEW n, NEW tabs, IsStack(tabs, n), NEW id, NEW d, d = Len(tabs), tabs[d][id] # NULL
  PROVE  /\ OrGlobal(tabs, search_scopes(tabs, Len(tabs), id), id) = d
         /\ VarAddr(tabs, id, FALSE) = AddrOf(tabs, d, id)
<1> DEFINE D == Declaring(tabs, Len(tabs), id)
           s == search_scopes(tabs, Len(tabs), id)
<1>1. d \in Nat \ {0}
  BY DEF IsStack
<1>2. D \in SUBSET (2..d) /\ s = Innermost(D)
  BY DEF Declaring, search_scopes
<1>3. D = {k \in 2..d : tabs[k][id] # NULL}
  BY DEF Declaring
<1> HIDE DEF D, s
<1>4. OrGlobal(tabs, s, id) = d
  <2>1. CASE d = 1
    <3>1. D = {}
      BY <1>2, <2>1
    <3>2. s = NONE
      BY <1>1, <1>2, <3>1, InnermostIs
    <3> QED BY <2>1, <3>2 DEF OrGlobal, GLOBAL, NONE
  <2>2. CASE d # 1
    <3>1. d \in D
      BY <1>1, <1>3, <2>2
    <3>2. s \in D /\ d <= s
      BY <1>1, <1>2, <3>1, InnermostIs
    <3>3. s \in 2..d
      BY <1>2, <3>2
    <3>4. s = d /\ s # 0
      BY <1>1, <3>2, <3>3
    <3> QED BY <3>4 DEF OrGlobal, NONE
  <2> QED BY <2>1, <2>2
<1>5. VarAddr(tabs, id, FALSE) = LET v == OrGlobal(tabs, s, id)
                                 IN IF v = NONE THEN Addr("LF", 0) ELSE AddrOf(tabs, v, id)
  BY DEF VarAddr, s
<1>6. d # NONE
  BY <1>1 DEF NONE
<1> QED BY <1>4, <1>5, <1>6 DEF s

\* The variable that the parser found, if it has a value in its scope, is the one
\* the code generator finds.
LEMMA FoundAddr ==
  ASSUME NEW n, NEW tabs, IsStack(tabs, n), NEW id, NEW d,
         d = OrGlobal(tabs, search_scopes(tabs, Len(tabs), id), id), d # NONE,
         d # GLOBAL => tabs[d][id].init
  PROVE  VarAddr(tabs, id, TRUE) = AddrOf(tabs, d, id)
<1> DEFINE N == Len(tabs)
           D == Declaring(tabs, N, id)
           V == Valued(tabs, id)
           s == Innermost(D)
           v == Innermost(V)
<1>1. N \in Nat \ {0}
  BY DEF IsStack
<1>2. /\ D = {k \in 2..N : tabs[k][id] # NULL} /\ V = {k \in D : tabs[k][id].init}
      /\ D \in SUBSET (2..N) /\ V \in SUBSET (2..N)
  BY DEF Declaring, Valued
<1>3. d = OrGlobal(tabs, s, id)
  BY DEF Declaring, search_scopes
<1>4. VarAddr(tabs, id, TRUE) = LET w == OrGlobal(tabs, v, id)
                                IN IF w = NONE THEN Addr("LF", 0) ELSE AddrOf(tabs, w, id)
  BY DEF VarAddr, search_scopes_initialized_var, Valued
<1> HIDE DEF D, V
<1>5. v = s
  <2>1. CASE D = {}
    BY <1>2, <2>1
  <2>2. CASE D # {}
    <3>1. s \in D /\ \A k \in D : k <= s
      BY <1>1, <1>2, <2>2, InnermostIs
    <3>2. PICK m \in 2..N : m = s
      BY <1>2, <3>1
    <3>3. d = s /\ s # GLOBAL
      BY <1>3, <3>2 DEF OrGlobal, NONE, GLOBAL
    <3>4. s \in V
      BY <1>2, <3>1, <3>3
    <3>5. v \in V /\ s <= v
      BY <1>1, <1>2, <3>4, InnermostIs
    <3>6. v \in D
      BY <1>2, <3>5
    <3>7. PICK w \in 2..N : w = v
      BY <1>2, <3>6
    <3>8. w <= m /\ m <= w
      BY <3>1, <3>2, <3>5, <3>6, <3>7
    <3> HIDE DEF v, s
    <3> QED BY <3>2, <3>7, <3>8
  <2> QED BY <2>1, <2>2
<1> HIDE DEF v, s
<1> QED BY <1>3, <1>4, <1>5

\* Outside of functions, conditions and loops there is no scope.
LEMMA OutsideBlocks ==
  ASSUME ParserInv, ~(in_cond > 0 \/ in_loop > 0 \/ in_func_body)
  PROVE  Len(tables) = 1
<1> DEFINE n == Len(blocks)
           Of(K) == {i \in 1..n : blocks[i].kind \in K}
<1>1. /\ n \in Nat /\ \A i \in 1..n : blocks[i].kind \in {"prog", "func", "while", "if", "else"}
      /\ \A i \in 1..n : blocks[i].kind = "func" => i = 2
  <2>1. blocks \in Seq(AnyBlock) /\ \A i \in 1..n : blocks[i].kind = "func" => i = 2
    BY DEF ParserInv, IsNesting
  <2>2. n \in Nat /\ \A i \in 1..n : blocks[i] \in AnyBlock
    BY <2>1
  <2>3. \A b \in AnyBlock : b.kind \in {"prog", "func", "while", "if", "else"}
    BY DEF AnyBlock
  <2> QED BY <2>1, <2>2, <2>3
<1>2. in_cond = 0 /\ in_loop = 0
  BY CountersType DEF ParserInv
<1>3. Cardinality(Of({"if", "else"})) = 0 /\ Cardinality(Of({"while"})) = 0
  BY <1>2 DEF ParserInv, Counted, Conds, Loops, Count
<1>4. \A K : IsFiniteSet(Of(K))
  <2> SUFFICES ASSUME NEW K PROVE IsFiniteSet(Of(K))
    OBVIOUS
  <2>1. IsFiniteSet(1..n)
    BY <1>1, FS_Interval
  <2>2. Of(K) \subseteq 1..n
    OBVIOUS
  <2> QED BY <2>1, <2>2, FS_Subset
<1>5. Of({"if", "else"}) = {} /\ Of({"while"}) = {}
  BY <1>3, <1>4, FS_EmptySet
<1>6. ~(n > 1 /\ blocks[2].kind = "func")
  BY DEF ParserInv, Counted
<1>7. \A i \in 1..n : blocks[i].kind = "prog"
  <2> SUFFICES ASSUME NEW i \in 1..n PROVE blocks[i].kind = "prog"
    OBVIOUS
  <2>1. i \notin Of({"if", "else"}) /\ i \notin Of({"while"})
    BY <1>5
  <2>2. blocks[i].kind \notin {"if", "else", "while"}
    BY <2>1
  <2>3. blocks[i].kind # "func"
    <3> SUFFICES ASSUME blocks[i].kind = "func" PROVE FALSE
      OBVIOUS
    <3>1. i = 2
      BY <1>1
    <3> QED BY <1>1, <1>6, <3>1
  <2> QED BY <1>1, <2>2, <2>3
<1>8. Of({"func", "if"}) = {} /\ Of({"while", "else"}) = {}
  BY <1>7
<1>9. Count(blocks, {"func", "if"}) = 0 /\ Count(blocks, {"while", "else"}) = 0
  BY <1>8, FS_EmptySet DEF Count
<1> QED BY <1>9 DEF ParserInv, Counted, Scopes

\* The variables of tabs that have a value are variables in scope.
LEMMA ReadsOld ==
  ASSUME NEW tabs, NEW ids, NEW s \in Seq(Reads(tabs, ids)),
         \A e \in 1..Len(tabs), x \in ids \intersect Names :
           tabs[e][x] # NULL /\ tabs[e][x].init =>
             e \in 1..Len(tables) /\ tables[e][x] # NULL /\ AddrOf(tables, e, x) = AddrOf(tabs, e, x)
  PROVE  s \in Seq(OldUse)
<1>1. Reads(tabs, ids) \subseteq OldUse
  BY DEF Reads, OldUse, Visible
<1> QED BY <1>1

-----------------------------------------------------------------------------
(* Calls.                                                                  *)

\* The arguments of a call against the parameters of the header.
Matches(sig, args) ==
  ~sig.variadic =>
    /\ Len(args) = Len(sig.written)
    /\ \A i \in 1..Len(args) :
         /\ Fits(args[i].label, sig.written[i].label)
         /\ args[i].label # "bare" /\ args[i].use = NULL =>
              \/ args[i].type = sig.written[i].type.type
              \/ args[i].type = "nil" /\ sig.written[i].type.nilable

Passes(sig, args, code) ==
  sig.frame /\ (\A i \in 1..Len(args) : args[i].label # "bare") =>
    Moved(code) = 0..(Len(sig.written) - 1)

\* An argument that fits the listed parameter fits the one of the header, which
\* is the same because none is unset.
LEMMA FitsHeader ==
  ASSUME NEW par \in Parameter, NEW q, q.label = par.label, q.type = par.type,
         NEW a \in Argument, ArgFits(q, a)
  PROVE  /\ Fits(a.label, par.label)
         /\ a.label # "bare" /\ a.use = NULL =>
              a.type = par.type.type \/ (a.type = "nil" /\ par.type.nilable)
<1>1. par.label \in {"_", "label"}
  BY DEF Parameter
<1> QED BY <1>1 DEF ArgFits, Fits

\* A call that is accepted.
LEMMA CallAccepted ==
  ASSUME NEW n \in Nat, NEW tabs, IsStack(tabs, n), NEW x, IsKnown(x), NEW loops \in Nat,
         NEW args \in Arguments, NEW current \in [d : Nat, id : Names \union {NULL}],
         IsInner(tabs, current),
         NEW val, val = arg_list(tabs, x.sig, current, args, loops), val.err = "none"
  PROVE  /\ args \in Seq(Argument) /\ val.code \in Seq(Instruction)
         /\ WithoutLabels(args) => val.code \in Seq(Reads(tabs, Uses(args)))
         /\ Matches(x.sig, args) /\ Passes(x.sig, args, val.code)
<1> DEFINE sig == x.sig
           ps == sig.params
           ws == sig.written
<1>1. args \in Seq(Argument)
  BY ParserAssumption
<1>2. sig \in ItemSignature /\ ps = ParamList(ws) /\ ~(sig.frame /\ sig.variadic)
  BY DEF IsKnown, Item
<1> HIDE DEF sig
<1>3. ws \in Seq(Parameter)
  BY <1>2 DEF ItemSignature
<1> HIDE DEF ws, ps
<1>4. /\ ps \in Seq(ListedParameter) /\ Len(ps) = Len(ws)
      /\ (\A i \in 1..Len(ws) : ps[i].label # "unset") =>
           \A i \in 1..Len(ws) : ps[i].label = ws[i].label /\ ps[i].type = ws[i].type
  BY <1>2, <1>3, ParamListIs
<1>5. Len(ps) \in Nat /\ Len(args) \in Nat /\ Len(ws) \in Nat
  BY <1>1, <1>3, <1>4
<1>6. /\ val.code \in Seq(Instruction)
      /\ WithoutLabels(args) => val.code \in Seq(Reads(tabs, Uses(args)))
      /\ ~sig.variadic => /\ Len(args) = Len(ps)
                          /\ \A i \in 1..Len(args) : ArgFits(ps[i], args[i])
      /\ sig.frame /\ (\A i \in 1..Len(args) : args[i].label # "bare") =>
           Moved(val.code) = 0..(Len(args) - 1)
  BY <1>1, <1>5, CallCode DEF sig, ps
<1>7. ASSUME ~sig.variadic
      PROVE  /\ Len(args) = Len(ws)
             /\ \A i \in 1..Len(args) :
                  /\ Fits(args[i].label, ws[i].label)
                  /\ args[i].label # "bare" /\ args[i].use = NULL =>
                       args[i].type = ws[i].type.type \/ (args[i].type = "nil" /\ ws[i].type.nilable)
  <2>1. Len(args) = Len(ws) /\ \A i \in 1..Len(ws) : ArgFits(ps[i], args[i])
    BY <1>4, <1>6, <1>7
  <2>2. \A i \in 1..Len(ws) : args[i] \in Argument /\ ws[i] \in Parameter
    BY <1>1, <1>3, <2>1
  <2>3. \A i \in 1..Len(ws) : ps[i].label # "unset"
    BY <2>1, <2>2 DEF ArgFits
  <2>4. \A i \in 1..Len(ws) : ps[i].label = ws[i].label /\ ps[i].type = ws[i].type
    BY <1>4, <2>3
  <2> QED BY <2>1, <2>2, <2>4, FitsHeader
<1>8. Matches(sig, args)
  BY <1>7 DEF Matches, ws
<1>9. Passes(sig, args, val.code)
  BY <1>2, <1>6, <1>7 DEF Passes, ws
<1> QED BY <1>1, <1>6, <1>8, <1>9 DEF sig

-----------------------------------------------------------------------------
(* The steps.                                                              *)

\* What the last statement promises of its code.
Right ==
  SameVariable /\ DeclaredBeforeUse /\ StoredUnlessNil /\ ArgumentsMatch /\ EveryParameterPassed

\* The promises only depend on these.
LEMMA RightKept ==
  ASSUME Right, UNCHANGED <<tables, emitted, declared, last>>
  PROVE  Right'
BY DEF Right, SameVariable, DeclaredBeforeUse, StoredUnlessNil, Stored, ArgumentsMatch,
       EveryParameterPassed, FunctionAddrs, ConstantCalled, Callee

\* A statement that neither declares, assigns nor calls.
LEMMA NoCall ==
  ASSUME last'.kind \notin {"call", "define", "assign"}
  PROVE  StoredUnlessNil' /\ ArgumentsMatch' /\ EveryParameterPassed'
BY DEF StoredUnlessNil, Stored, ArgumentsMatch, EveryParameterPassed, Callee

\* A statement with a call.
LEMMA CalleeRight ==
  ASSUME NEW f, Callee' = {f}, NEW args, ArgsOf(last') = args, NEW sig, NEW code, emitted' = code,
         ~ConstantCalled' => /\ tables'[GLOBAL][f].sig = sig
                             /\ Matches(sig, args) /\ Passes(sig, args, code)
  PROVE  ArgumentsMatch' /\ EveryParameterPassed'
<1>1. ArgumentsMatch'
  BY DEF ArgumentsMatch, Matches
<1>2. EveryParameterPassed'
  <2> SUFFICES ASSUME ~ConstantCalled', sig.frame, \A i \in 1..Len(args) : args[i].label # "bare"
               PROVE  Moved(emitted') = 0..(Len(sig.written) - 1)
    BY DEF EveryParameterPassed, Moved
  <2> QED BY DEF Passes
<1> QED BY <1>1, <1>2

\* The tables stay as they are.
LEMMA SameItems ==
  ASSUME ParserInv, CodeInv, tables' = tables, declared \subseteq declared', pc' # "declarations"
  PROVE  CodeInv' /\ FunctionAddrs \subseteq FunctionAddrs'
<1>1. \A d \in 1..Len(tables), id \in Names : tables[d][id] # NULL => Stays(d, id)
  BY DEF Stays
<1>2. Len(tables) \in Nat \ {0} /\ GLOBAL \in 1..Len(tables)
  BY DEF ParserInv, IsStack, GLOBAL
<1>3. CodeInv'
  BY <1>1, <1>2, ItemsKept
<1> QED BY <1>1, <1>2, <1>3, FunctionsStay

\* A statement that only uses variables in scope.
LEMMA OnlyUses ==
  ASSUME ParserInv, CodeInv, FunctionAddrs \subseteq FunctionAddrs', NEW s, Emit(s),
         ~Labelled(last') => s \in Seq(OldUse)
  PROVE  SameVariable' /\ DeclaredBeforeUse' /\ declared \subseteq declared'
<1>1. CASE Labelled(last')
  BY <1>1 DEF SameVariable, DeclaredBeforeUse, Emit
<1>2. CASE ~Labelled(last')
  <2>1. s \in Seq(OldUse)
    BY <1>2
  <2>2. s \o <<>> = s
    BY <2>1
  <2>3. Declares(<<>>, Addr("LF", unique_id))
    BY DEF Declares
  <2>4. Addr("LF", unique_id).uid = unique_id
    BY DEF Addr
  <2>5. Emit(s \o <<>>)
    BY <2>2
  <2> QED BY <2>1, <2>3, <2>4, <2>5, CodeInOrder
<1> QED BY <1>1, <1>2

\* A call.
LEMMA CallRight ==
  ASSUME ParserInv, CodeInv, NEW f \in Names, NEW args \in Arguments, NEW eol, call(f, args, eol)
  PROVE  (\E e : Fail(e)) \/ (CodeInv' /\ Right')
<1> DEFINE d == OrGlobal(tables, search_scopes(tables, Len(tables), f), f)
           x == tables[d][f]
           val == arg_list(tables, x.sig, NoId, args, for_open)
<1>1. \/ \E e : Fail(e)
      \/ /\ d # NONE /\ IsFunction(x) /\ val.err = "none"
         /\ Emit(val.code) /\ last' = [kind |-> "call", f |-> f, args |-> args, eol |-> eol]
         /\ tables' = tables /\ pc' = pc /\ pc = "parse"
  BY DEF call, InStatement, Parsing
<1> SUFFICES ASSUME d # NONE, IsFunction(x), val.err = "none", Emit(val.code),
                    last' = [kind |-> "call", f |-> f, args |-> args, eol |-> eol],
                    tables' = tables, pc' = "parse"
             PROVE  CodeInv' /\ Right'
  BY <1>1
<1>2. unique_id \in Nat /\ IsStack(tables, unique_id) /\ for_open \in Nat
  BY CountersType DEF ParserInv
<1>3. d \in 1..Len(tables) /\ x # NULL
  BY <1>2, SearchFinds
<1>4. IsKnown(x)
  BY <1>3 DEF CodeInv, KnownItems
<1>5. NoId \in [d : Nat, id : Names \union {NULL}] /\ IsInner(tables, NoId)
  BY DEF NoId, NONE, IsInner, Uninitialized
<1>6. ConstantCalled' \/ x = tables[GLOBAL][f]
  <2>1. CASE d = GLOBAL
    BY <2>1
  <2>2. CASE d # GLOBAL
    <3>1. d \in 2..Len(tables)
      BY <1>2, <1>3, <2>2 DEF GLOBAL, IsStack
    <3> QED BY <1>3, <3>1 DEF ConstantCalled
  <2> QED BY <2>1, <2>2
<1> HIDE DEF x, d
<1>7. /\ args \in Seq(Argument) /\ val.code \in Seq(Instruction)
      /\ WithoutLabels(args) => val.code \in Seq(Reads(tables, Uses(args)))
      /\ Matches(x.sig, args) /\ Passes(x.sig, args, val.code)
  BY <1>2, <1>4, <1>5, CallAccepted
<1> HIDE DEF val
<1>8. ArgsOf(last') = args /\ Callee' = {f}
  BY DEF ArgsOf, Callee
<1>9. ArgumentsMatch' /\ EveryParameterPassed'
  <2>1. emitted' = val.code
    BY DEF Emit
  <2> QED BY <1>6, <1>7, <1>8, <2>1, CalleeRight
<1>10. declared \subseteq declared'
  BY DEF Emit
<1>11. CodeInv' /\ FunctionAddrs \subseteq FunctionAddrs'
  BY <1>10, SameItems
<1>12. ASSUME ~Labelled(last') PROVE val.code \in Seq(OldUse)
  <2>1. WithoutLabels(args)
    BY <1>8, <1>12 DEF Labelled, WithoutLabels
  <2> QED BY <1>7, <2>1, ReadsOld
<1>13. SameVariable' /\ DeclaredBeforeUse'
  BY <1>11, <1>12, OnlyUses
<1>14. StoredUnlessNil'
  BY DEF StoredUnlessNil, Stored
<1> QED BY <1>9, <1>11, <1>13, <1>14 DEF Right

\* A return.
LEMMA ReturnRight ==
  ASSUME ParserInv, CodeInv, NEW value \in Expressions \union {NULL}, NEW eol, return(value, eol)
  PROVE  (\E e : Fail(e)) \/ (CodeInv' /\ Right')
<1> DEFINE ex == expr(tables, NoId, value, for_open)
           val == IF value = NULL THEN Eval(<<>>, "none") ELSE ex
<1>1. \/ \E e : Fail(e)
      \/ /\ val.err = "none"
         /\ Emit(val.code) /\ last' = [kind |-> "return", eol |-> eol]
         /\ tables' = tables /\ pc' = pc /\ pc = "parse"
  BY DEF return, InStatement, Parsing, Eval
<1> SUFFICES ASSUME val.err = "none", Emit(val.code),
                    last' = [kind |-> "return", eol |-> eol], tables' = tables, pc' = "parse"
             PROVE  CodeInv' /\ Right'
  BY <1>1
<1>2. unique_id \in Nat /\ IsStack(tables, unique_id) /\ for_open \in Nat
  BY CountersType DEF ParserInv
<1>3. IsInner(tables, NoId)
  BY DEF NoId, NONE, IsInner, Uninitialized
<1>4. val.code \in Seq(OldUse)
  <2>1. CASE value = NULL
    BY <2>1 DEF Eval
  <2>2. CASE value # NULL
    <3>1. value.use \in Names \union {NULL}
      BY <2>2 DEF Expressions
    <3>2. ex.code \in Seq(Reads(tables, {value.use}))
      BY <1>2, <1>3, <2>2, <3>1, ExprCode
    <3> HIDE DEF ex
    <3> QED BY <2>2, <3>2, ReadsOld
  <2> QED BY <2>1, <2>2
<1> HIDE DEF val
<1>5. declared \subseteq declared'
  BY DEF Emit
<1>6. CodeInv' /\ FunctionAddrs \subseteq FunctionAddrs'
  BY <1>5, SameItems
<1>7. SameVariable' /\ DeclaredBeforeUse'
  BY <1>4, <1>6, OnlyUses
<1> QED BY <1>6, <1>7, NoCall DEF Right

\* A scope is added, and holds nothing yet.
LEMMA ScopeAdded ==
  ASSUME NEW n, NEW tabs, IsStack(tabs, n)
  PROVE  /\ IsStack(add_scope(tabs), n) /\ Len(add_scope(tabs)) = Len(tabs) + 1
         /\ \A d \in 1..Len(tabs) : add_scope(tabs)[d] = tabs[d]
         /\ \A d \in 1..(Len(tabs) + 1), id \in Names :
              add_scope(tabs)[d][id] # NULL => d \in 1..Len(tabs)
<1> DEFINE S == {tabs[d] : d \in 1..Len(tabs)} \union {EmptyTable}
           app == Append(tabs, EmptyTable)
<1>1. EmptyTable \in S /\ \A d \in 1..Len(tabs) : tabs[d] \in S
  OBVIOUS
<1> HIDE DEF S
<1>2. tabs \in Seq(S) /\ Len(tabs) \in Nat
  BY <1>1, StackIsSeq DEF IsStack
<1>3. /\ \A d \in 1..Len(tabs) : app[d] = tabs[d]
      /\ app[Len(tabs) + 1] = EmptyTable
  BY <1>1, <1>2, AppendProperties
<1>4. \A id \in Names : EmptyTable[id] = NULL
  BY DEF EmptyTable
<1>5. app = add_scope(tabs)
  BY DEF add_scope
<1> HIDE DEF app
<1>6. ASSUME NEW d \in 1..(Len(tabs) + 1), NEW id \in Names, app[d][id] # NULL
      PROVE  d \in 1..Len(tabs)
  BY <1>2, <1>3, <1>4, <1>6
<1> QED BY <1>3, <1>5, <1>6, AddScope

\* The tables of the scopes that stay are the same.
LEMMA SameScopes ==
  ASSUME ParserInv, CodeInv, Len(tables') \in Nat \ {0}, tables'[GLOBAL] = tables[GLOBAL],
         \A d \in 1..Len(tables'), id \in Names :
           tables'[d][id] # NULL => d \in 1..Len(tables) /\ tables'[d] = tables[d],
         declared \subseteq declared', pc' # "declarations"
  PROVE  CodeInv' /\ FunctionAddrs \subseteq FunctionAddrs'
<1>1. \A d \in 1..Len(tables'), id \in Names : tables'[d][id] # NULL => Stays(d, id)
  BY DEF Stays
<1>2. Len(tables) \in Nat \ {0} /\ GLOBAL \in 1..Len(tables') /\ GLOBAL \in 1..Len(tables)
  BY DEF ParserInv, IsStack, GLOBAL
<1>3. CodeInv'
  BY <1>1, <1>2, ItemsKept
<1>4. \A id \in Names : tables[GLOBAL][id] # NULL => Stays(GLOBAL, id)
  BY <1>2 DEF Stays
<1> QED BY <1>2, <1>3, <1>4, FunctionsStay

\* The head of a loop.
LEMMA WhileRight ==
  ASSUME ParserInv, CodeInv, NEW cond \in Expressions, NEW eol, while(cond, eol)
  PROVE  (\E e : Fail(e)) \/ (CodeInv' /\ Right')
<1> DEFINE val == expr(tables, NoId, cond, for_open + 1)
<1>1. \/ \E e : Fail(e)
      \/ /\ val.err = "none"
         /\ Emit(val.code) /\ last' = [kind |-> "while", eol |-> eol]
         /\ tables' = add_scope(tables) /\ pc' = pc /\ pc = "parse"
  BY DEF while, InStatement, Parsing
<1> SUFFICES ASSUME val.err = "none", Emit(val.code), last' = [kind |-> "while", eol |-> eol],
                    tables' = add_scope(tables), pc' = "parse"
             PROVE  CodeInv' /\ Right'
  BY <1>1
<1>2. /\ unique_id \in Nat /\ IsStack(tables, unique_id) /\ for_open + 1 \in Nat
      /\ Len(tables) \in Nat \ {0}
  BY CountersType DEF ParserInv, IsStack
<1>3. IsInner(tables, NoId)
  BY DEF NoId, NONE, IsInner, Uninitialized
<1>4. val.code \in Seq(OldUse)
  <2>1. cond.use \in Names \union {NULL}
    BY DEF Expressions
  <2>2. val.code \in Seq(Reads(tables, {cond.use}))
    BY <1>2, <1>3, <2>1, ExprCode
  <2> HIDE DEF val
  <2> QED BY <2>2, ReadsOld
<1> HIDE DEF val
<1>5. declared \subseteq declared'
  BY DEF Emit
<1>6. /\ Len(tables') = Len(tables) + 1 /\ \A d \in 1..Len(tables) : tables'[d] = tables[d]
      /\ \A d \in 1..(Len(tables) + 1), id \in Names : tables'[d][id] # NULL => d \in 1..Len(tables)
  BY <1>2, ScopeAdded
<1>7. CodeInv' /\ FunctionAddrs \subseteq FunctionAddrs'
  <2>1. Len(tables') \in Nat \ {0} /\ tables'[GLOBAL] = tables[GLOBAL]
    BY <1>2, <1>6 DEF GLOBAL
  <2> QED BY <1>5, <1>6, <2>1, SameScopes
<1>8. SameVariable' /\ DeclaredBeforeUse'
  BY <1>4, <1>7, OnlyUses
<1> QED BY <1>7, <1>8, NoCall DEF Right

\* if with an expression as its condition.
LEMMA IfExprRight ==
  ASSUME ParserInv, CodeInv, NEW cond \in Expressions, NEW eol, IfExpr(cond, eol)
  PROVE  (\E e : Fail(e)) \/ (CodeInv' /\ Right')
<1> DEFINE tabs == add_scope(tables)
           val == expr(tabs, NoId, cond, for_open)
<1>1. \/ \E e : Fail(e)
      \/ /\ val.err = "none"
         /\ Emit(val.code) /\ last' = [kind |-> "if", eol |-> eol]
         /\ tables' = add_scope(tabs) /\ pc' = pc /\ pc = "parse"
  BY DEF IfExpr, InStatement, Parsing
<1> SUFFICES ASSUME val.err = "none", Emit(val.code), last' = [kind |-> "if", eol |-> eol],
                    tables' = add_scope(tabs), pc' = "parse"
             PROVE  CodeInv' /\ Right'
  BY <1>1
<1>2. /\ unique_id \in Nat /\ IsStack(tables, unique_id) /\ for_open \in Nat
      /\ Len(tables) \in Nat \ {0}
  BY CountersType DEF ParserInv, IsStack
<1>3. /\ IsStack(tabs, unique_id) /\ Len(tabs) = Len(tables) + 1
      /\ \A d \in 1..Len(tables) : tabs[d] = tables[d]
      /\ \A d \in 1..(Len(tables) + 1), id \in Names : tabs[d][id] # NULL => d \in 1..Len(tables)
  BY <1>2, ScopeAdded
<1> HIDE DEF tabs
<1>4. IsInner(tabs, NoId)
  BY DEF NoId, NONE, IsInner, Uninitialized
<1>5. val.code \in Seq(OldUse)
  <2>1. cond.use \in Names \union {NULL}
    BY DEF Expressions
  <2>2. val.code \in Seq(Reads(tabs, {cond.use}))
    BY <1>2, <1>3, <1>4, <2>1, ExprCode
  <2> HIDE DEF val
  <2>3. \A e \in 1..Len(tabs), x \in {cond.use} \intersect Names :
           tabs[e][x] # NULL /\ tabs[e][x].init =>
             e \in 1..Len(tables) /\ tables[e][x] # NULL /\ AddrOf(tables, e, x) = AddrOf(tabs, e, x)
    BY <1>3 DEF AddrOf
  <2> QED BY <2>2, <2>3, ReadsOld
<1> HIDE DEF val
<1>6. declared \subseteq declared'
  BY DEF Emit
<1>7. /\ Len(tables') = Len(tabs) + 1 /\ \A d \in 1..Len(tabs) : tables'[d] = tabs[d]
      /\ \A d \in 1..(Len(tabs) + 1), id \in Names : tables'[d][id] # NULL => d \in 1..Len(tabs)
  BY <1>3, ScopeAdded
<1>8. \A d \in 1..Len(tables'), id \in Names :
        tables'[d][id] # NULL => d \in 1..Len(tables) /\ tables'[d] = tables[d]
  BY <1>3, <1>7
<1>9. CodeInv' /\ FunctionAddrs \subseteq FunctionAddrs'
  <2>1. Len(tables') \in Nat \ {0} /\ tables'[GLOBAL] = tables[GLOBAL]
    BY <1>2, <1>3, <1>7 DEF GLOBAL
  <2> QED BY <1>6, <1>8, <2>1, SameScopes
<1>10. SameVariable' /\ DeclaredBeforeUse'
  BY <1>5, <1>9, OnlyUses
<1> QED BY <1>9, <1>10, NoCall DEF Right

\* The scopes below the innermost one.
LEMMA ScopeRemoved ==
  ASSUME NEW n, NEW tabs, IsStack(tabs, n), Len(tabs) > 1
  PROVE  /\ IsStack(pop_scope(tabs), n) /\ Len(pop_scope(tabs)) = Len(tabs) - 1
         /\ \A d \in 1..(Len(tabs) - 1) : pop_scope(tabs)[d] = tabs[d]
<1> DEFINE S == {tabs[d] : d \in 1..Len(tabs)}
<1>1. \A d \in 1..Len(tabs) : tabs[d] \in S
  OBVIOUS
<1> HIDE DEF S
<1>2. tabs \in Seq(S) /\ Len(tabs) \in Nat
  BY <1>1, StackIsSeq DEF IsStack
<1>3. \A d \in 1..(Len(tabs) - 1) : SubSeq(tabs, 1, Len(tabs) - 1)[d] = tabs[d]
  BY <1>2, SubSeqProperties
<1> QED BY <1>3, StackPop DEF pop_scope

\* The end of a block.
LEMMA EndRight ==
  ASSUME ParserInv, CodeInv, Else \/ EndIf \/ EndWhile \/ EndFunc
  PROVE  (\E e : Fail(e)) \/ (CodeInv' /\ Right')
<1> DEFINE one == pop_scope(tables)
           two == pop_scope(one)
<1>1. \/ \E e : Fail(e)
      \/ /\ Emit(<<>>) /\ last'.kind \in {"else", "end", "endfunc"} /\ pc' = "parse"
         /\ \/ Top.kind \in {"while", "else"} /\ tables' = one
            \/ Top.kind = "func" /\ tables' = two
            \/ Top.kind = "if" /\ tables' = add_scope(two)
  BY DEF Else, EndIf, EndWhile, EndFunc
<1> SUFFICES ASSUME Emit(<<>>), last'.kind \in {"else", "end", "endfunc"}, pc' = "parse",
                    \/ Top.kind \in {"while", "else"} /\ tables' = one
                    \/ Top.kind = "func" /\ tables' = two
                    \/ Top.kind = "if" /\ tables' = add_scope(two)
             PROVE  CodeInv' /\ Right'
  BY <1>1
<1>2. IsStack(tables, unique_id) /\ Len(tables) \in Nat /\ Len(tables) > 1
  BY InBlock DEF ParserInv, ScopesOf
<1>3. Top.kind \in {"func", "if"} => Len(tables) > 2
  BY InBlock DEF ParserInv, ScopesOf
<1>4. /\ IsStack(one, unique_id) /\ Len(one) = Len(tables) - 1
      /\ \A d \in 1..(Len(tables) - 1) : one[d] = tables[d]
  BY <1>2, ScopeRemoved
<1> HIDE DEF one
<1>5. Top.kind \in {"func", "if"} =>
        /\ IsStack(two, unique_id) /\ Len(two) = Len(tables) - 2
        /\ \A d \in 1..(Len(tables) - 2) : two[d] = tables[d]
  <2> SUFFICES ASSUME Top.kind \in {"func", "if"}
               PROVE  /\ IsStack(two, unique_id) /\ Len(two) = Len(tables) - 2
                      /\ \A d \in 1..(Len(tables) - 2) : two[d] = tables[d]
    OBVIOUS
  <2>1. /\ IsStack(two, unique_id) /\ Len(two) = Len(one) - 1
        /\ \A d \in 1..(Len(one) - 1) : two[d] = one[d]
    <3>1. Len(one) > 1
      BY <1>2, <1>3, <1>4
    <3> QED BY <1>4, <3>1, ScopeRemoved
  <2> HIDE DEF two
  <2> QED BY <1>2, <1>3, <1>4, <2>1
<1> HIDE DEF two
<1>6. /\ Len(tables') \in Nat \ {0} /\ tables'[GLOBAL] = tables[GLOBAL]
      /\ \A d \in 1..Len(tables'), id \in Names :
           tables'[d][id] # NULL => d \in 1..Len(tables) /\ tables'[d] = tables[d]
  <2>1. CASE Top.kind \in {"while", "else"} /\ tables' = one
    BY <1>2, <1>4, <2>1 DEF GLOBAL
  <2>2. CASE Top.kind = "func" /\ tables' = two
    BY <1>2, <1>3, <1>5, <2>2 DEF GLOBAL
  <2>3. CASE Top.kind = "if" /\ tables' = add_scope(two)
    <3>1. /\ Len(tables') = Len(two) + 1 /\ \A d \in 1..Len(two) : tables'[d] = two[d]
          /\ \A d \in 1..(Len(two) + 1), id \in Names : tables'[d][id] # NULL => d \in 1..Len(two)
      BY <1>5, <2>3, ScopeAdded
    <3> QED BY <1>2, <1>3, <1>5, <2>3, <3>1 DEF GLOBAL
  <2> QED BY <2>1, <2>2, <2>3
<1>7. declared \subseteq declared' /\ emitted' = <<>>
  BY DEF Emit
<1>8. CodeInv'
  BY <1>6, <1>7, SameScopes
<1>9. SameVariable' /\ DeclaredBeforeUse'
  BY <1>7 DEF SameVariable, DeclaredBeforeUse
<1> QED BY <1>8, <1>9, NoCall DEF Right

\* An item is stored in a table, and the others stay.
Put(tabs, d, id, x) == [tabs EXCEPT ![d][id] = x]

\* Storing an item keeps the tables well formed.
LEMMA PutIs ==
  ASSUME NEW n, NEW tabs, IsStack(tabs, n), NEW d \in 1..Len(tabs), NEW id \in Names, NEW x,
         IsItem(x, n)
  PROVE  /\ IsStack(Put(tabs, d, id, x), n) /\ Len(Put(tabs, d, id, x)) = Len(tabs)
         /\ \A e \in 1..Len(tabs), y \in Names :
              Put(tabs, d, id, x)[e][y] = IF e = d /\ y = id THEN x ELSE tabs[e][y]
<1> DEFINE put == [tabs EXCEPT ![d][id] = x]
<1>1. tabs = [e \in 1..Len(tabs) |-> tabs[e]] /\ \A e \in 1..Len(tabs) : tabs[e] = [y \in Names |-> tabs[e][y]]
  BY DEF IsStack, IsTable
<1>2. \A e \in 1..Len(tabs) : put[e] = IF e = d THEN [tabs[d] EXCEPT ![id] = x] ELSE tabs[e]
  BY <1>1
<1>3. \A y \in Names : [tabs[d] EXCEPT ![id] = x][y] = IF y = id THEN x ELSE tabs[d][y]
  BY <1>1
<1>4. IsStack(put, n) /\ Len(put) = Len(tabs)
  BY StackPut
<1>5. put = Put(tabs, d, id, x)
  BY DEF Put
<1> HIDE DEF put
<1> QED BY <1>2, <1>3, <1>4, <1>5

\* The header of a function, in the first pass.
LEMMA HeaderRight ==
  ASSUME ParserInv, CodeInv, NEW f \in Functions, NEW sig \in Signatures, func_header(f, sig)
  PROVE  CodeInv' /\ Right'
<1> DEFINE x == FunctionItem(unique_id, sig)
<1>1. /\ pc = "declarations" /\ tables[GLOBAL][f] = NULL
      /\ tables' = [tables EXCEPT ![GLOBAL][f] = x]
      /\ UNCHANGED <<emitted, declared, last, pc>>
  BY DEF func_header
<1>2. emitted' = <<>> /\ last'.kind = "none"
  BY <1>1 DEF CodeInv, ParserInv
<1>3. /\ unique_id \in Nat /\ IsStack(tables, unique_id) /\ f \in Names /\ sig \in Signature
      /\ sig.frame /\ ~sig.variadic
      /\ \A i \in 1..Len(sig.params) : sig.params[i].name \in Names
  BY ParserAssumption DEF ParserInv
<1>4. IsKnown(x) /\ IsFunction(x) /\ x.sig.written = sig.params
  BY <1>3, FunctionKnown
<1>5. IsItem(x, unique_id + 1)
  <2>1. unique_id \in 0..((unique_id + 1) - 1) /\ unique_id + 1 \in Nat
    BY <1>3
  <2> QED BY <1>3, <2>1, FunctionIsItem
<1> HIDE DEF x
<1>6. Len(tables) \in Nat \ {0} /\ GLOBAL \in 1..Len(tables)
  BY <1>3 DEF IsStack, GLOBAL
<1>7. Len(tables') = Len(tables)
  BY <1>1, <1>3, <1>5, <1>6, StoreNew
<1>8. \A d \in 1..Len(tables), id \in Names :
        tables'[d][id] = IF d = GLOBAL /\ id = f THEN x ELSE tables[d][id]
  <2>1. IsStack(tables, unique_id + 1)
    <3>1. unique_id + 1 \in Nat /\ unique_id <= unique_id + 1
      BY <1>3
    <3> QED BY <1>3, <3>1, StackGrows
  <2>2. tables' = Put(tables, GLOBAL, f, x)
    BY <1>1 DEF Put
  <2> QED BY <1>3, <1>5, <1>6, <2>1, <2>2, PutIs
<1>9. ASSUME NEW d \in 1..Len(tables'), NEW id \in Names, tables'[d][id] # NULL
      PROVE  Stays(d, id) \/ Added(d, id)
  <2>1. CASE d = GLOBAL /\ id = f
    <3>1. tables'[d][id] = x
      BY <1>7, <1>8, <2>1
    <3>2. ~(d > 1)
      BY <2>1 DEF GLOBAL
    <3> QED BY <1>3, <1>4, <2>1, <3>1, <3>2 DEF Added
  <2>2. CASE ~(d = GLOBAL /\ id = f)
    BY <1>7, <1>8, <1>9, <2>2 DEF Stays
  <2> QED BY <2>1, <2>2
<1>10. CodeInv'
  BY <1>1, <1>2, <1>6, <1>7, <1>9, ItemsKept
<1>11. SameVariable' /\ DeclaredBeforeUse'
  BY <1>2 DEF SameVariable, DeclaredBeforeUse
<1> QED BY <1>2, <1>10, <1>11, NoCall DEF Right

\* The code of a declaration, with and without a value.
LEMMA DeclareCode ==
  ASSUME NEW n \in Nat, NEW tabs, IsStack(tabs, n), NEW d, d = Len(tabs), NEW id \in Names,
         tabs[d][id] # NULL, NEW loops \in Nat, NEW t,
         \/ t = code_generator_var_declare(tabs, d, id, loops)
         \/ t = << code_generator_defvar(VarAddr(tabs, id, FALSE), AddrOf(tabs, d, id)) >>
  PROVE  t # <<>> /\ Declares(t, AddrOf(tabs, d, id)) /\ Moved(t) = {}
<1> DEFINE a == AddrOf(tabs, d, id)
           D == code_generator_defvar(a, a)
           P == Instr("POPS", a, a, loops)
<1>1. VarAddr(tabs, id, FALSE) = a
  BY DeclaredHere
<1>2. t = <<D, P>> \/ t = <<D>>
  BY <1>1 DEF code_generator_var_declare
<1>3. a \in Address
  <2>1. d \in 1..Len(tabs)
    BY DEF IsStack
  <2> QED BY <2>1, AddrType
<1> HIDE DEF a
<1>4. D \in Instruction /\ D.addr = a /\ D.want = a /\ D.op = "DEFVAR"
  BY <1>3 DEF code_generator_defvar, Instruction
<1>5. P \in Instruction /\ P.addr = a /\ P.want = a /\ P.op = "POPS"
  <2>1. (loops > 0) \in BOOLEAN
    OBVIOUS
  <2> QED BY <1>3, <2>1 DEF Instr, Instruction
<1> HIDE DEF D, P
<1>6. t \in Seq(Instruction) /\ t # <<>>
  <2>1. <<D, P>> \in Seq(Instruction) /\ <<D, P>> # <<>>
    BY <1>4, <1>5
  <2>2. <<D>> \in Seq(Instruction) /\ <<D>> # <<>>
    BY <1>4
  <2> QED BY <1>2, <2>1, <2>2
<1>7. \A i \in 1..Len(t) : /\ t[i].addr = a /\ t[i].want = a /\ (t[i].op = "DEFVAR" <=> i = 1)
                           /\ t[i].op # "MOVE"
  <2>1. CASE t = <<D, P>>
    <3>1. Len(t) = 2 /\ t[1] = D /\ t[2] = P
      BY <2>1
    <3>2. \A i \in 1..Len(t) : i = 1 \/ i = 2
      BY <3>1
    <3> QED BY <1>4, <1>5, <3>1, <3>2
  <2>2. CASE t = <<D>>
    <3>1. Len(t) = 1 /\ t[1] = D
      BY <2>2
    <3>2. \A i \in 1..Len(t) : i = 1
      BY <3>1
    <3> QED BY <1>4, <3>1, <3>2
  <2> QED BY <1>2, <2>1, <2>2
<1>8. {j \in 1..Len(t) : t[j].op = "MOVE"} = {}
  BY <1>7
<1> QED BY <1>6, <1>7, <1>8 DEF Declares, Moved, a

\* The fields of an item are set.
LEMMA SetInit ==
  ASSUME NEW x \in Item, NEW b \in BOOLEAN, NEW y, y = [x EXCEPT !.init = b]
  PROVE  /\ y \in Item /\ y.init = b /\ y.nilable = x.nilable /\ y.type = x.type
         /\ y.sig = x.sig /\ y.uid = x.uid
BY DEF Item

\* set_nillable changes nothing else.
LEMMA SetNilable ==
  ASSUME NEW x \in Item, NEW b \in BOOLEAN, NEW y, y = [x EXCEPT !.nilable = b]
  PROVE  /\ y \in Item /\ y.init = x.init /\ y.nilable = b /\ y.type = x.type
         /\ y.sig = x.sig /\ y.uid = x.uid
BY DEF Item

\* set_mutability changes nothing else.
LEMMA SetMutable ==
  ASSUME NEW x \in Item, NEW b \in BOOLEAN, NEW y, y = [x EXCEPT !.mutable = b]
  PROVE  /\ y \in Item /\ y.init = x.init /\ y.nilable = x.nilable /\ y.type = x.type
         /\ y.sig = x.sig /\ y.uid = x.uid
BY DEF Item

\* set_type changes nothing else.
LEMMA SetType ==
  ASSUME NEW x \in Item, NEW type \in KnownType, NEW y, y = [x EXCEPT !.type = type]
  PROVE  /\ y \in Item /\ y.init = x.init /\ y.nilable = x.nilable /\ y.type = type
         /\ y.sig = x.sig /\ y.uid = x.uid
BY DEF Item

\* An item without a signature of its own is that of a variable.
LEMMA VariableIsItem ==
  ASSUME NEW x \in Item, x.sig = NoSignature, NEW n \in Nat, x.uid < n
  PROVE  IsItem(x, n) /\ x # NULL
<1>1. x = [uid |-> x.uid, init |-> x.init, mutable |-> x.mutable, nilable |-> x.nilable,
           type |-> x.type, sig |-> x.sig]
  BY ItemWith
<1>2. x.uid \in Nat
  BY DEF Item
<1>3. x.uid \in 0..(n - 1)
  BY <1>2
<1>4. x.sig.written \in Seq(Parameter)
  BY DEF NoSignature
<1> QED BY <1>1, <1>3, <1>4, NullAssumption DEF IsItem

\* A variable with a type has what the invariant asks of an item.
LEMMA VariableKnown ==
  ASSUME NEW x \in Item, x.type \in KnownType, x.sig = NoSignature, NEW n \in Nat, x.uid < n
  PROVE  IsKnown(x) /\ x.sig.written = <<>> /\ x # NULL /\ IsItem(x, n)
<1>1. x.type # "undefined"
  BY DEF KnownType
<1> QED BY <1>1, NoSignatureKnown, VariableIsItem

\* The constant of if let has a type and a value, and no parameters.
LEMMA LetVariable ==
  ASSUME NEW u \in Nat, NEW item, IsKnown(item), NEW x, x = LetItem(u, item)
  PROVE  /\ IsKnown(x) /\ x.sig.written = <<>> /\ x # NULL /\ IsItem(x, u + 1)
         /\ x.uid = u /\ x.init
<1> DEFINE a == NewItem(u)
           b == [a EXCEPT !.type = item.type]
           c == [b EXCEPT !.init = TRUE]
           s == [NoSignature EXCEPT !.frame = item.sig.frame]
<1>1. item.type \in KnownType /\ item.type # "undefined" /\ item.sig.frame \in BOOLEAN
  BY DEF IsKnown, Item, ItemSignature, KnownType
<1>2. s.written = <<>> /\ s.params = <<>> /\ s.variadic = FALSE
  BY DEF NoSignature
<1>3. s \in ItemSignature
  <2>1. NoSignature \in ItemSignature
    BY NewIsItem DEF Item
  <2>2. \A f \in BOOLEAN : [NoSignature EXCEPT !.frame = f] \in ItemSignature
    BY <2>1 DEF ItemSignature
  <2> QED BY <1>1, <2>2
<1>4. x = [c EXCEPT !.sig = s]
  BY DEF LetItem
<1> HIDE DEF s
<1>5. a \in Item /\ a.uid = u
  BY NewIsItem
<1> HIDE DEF a
<1>6. b \in Item /\ b.uid = u /\ b.type = item.type
  BY <1>1, <1>5, SetType
<1> HIDE DEF b
<1>7. c \in Item /\ c.uid = u /\ c.type = item.type /\ c.init
  <2>1. b \in Item /\ TRUE \in BOOLEAN
    BY <1>6
  <2>2. c \in Item /\ c.init = TRUE /\ c.type = b.type /\ c.uid = b.uid
    BY <2>1, SetInit
  <2> HIDE DEF c
  <2> QED BY <1>6, <2>2
<1> HIDE DEF c
<1>8. x \in Item /\ x.uid = u /\ x.type = item.type /\ x.init = c.init /\ x.sig = s
  BY <1>3, <1>4, <1>7 DEF Item
<1>9. ParamList(<<>>) = <<>>
  <2>1. <<>> \in Seq(Parameter) /\ Len(<<>>) = 0
    OBVIOUS
  <2>2. ParamList(<<>>) \in Seq(ListedParameter) /\ Len(ParamList(<<>>)) = 0
    BY <2>1, ParamListIs
  <2> QED BY <2>2
<1>10. IsKnown(x)
  BY <1>1, <1>2, <1>8, <1>9 DEF IsKnown
<1>11. x # NULL
  BY <1>8, NullAssumption
<1>12. IsItem(x, u + 1)
  BY LetIsItem
<1> QED BY <1>2, <1>7, <1>8, <1>10, <1>11, <1>12

\* if let: the constant is pushed for the test and for the new variable.
LEMMA IfLetRight ==
  ASSUME ParserInv, CodeInv, NEW id \in Names, NEW eol, IfLet(id, eol)
  PROVE  (\E e : Fail(e)) \/ (CodeInv' /\ Right')
<1> DEFINE d == OrGlobal(tables, search_scopes(tables, Len(tables), id), id)
           item == tables[d][id]
           cond == add_scope(tables)
           top == Len(cond)
           x == LetItem(unique_id, item)
           tabs == [cond EXCEPT ![top][id] = x]
           P == PushVar(cond, d, id, for_open)
           t == code_generator_var_declare(tabs, top, id, for_open)
<1>1. \/ \E e : Fail(e)
      \/ /\ d # NONE /\ item.nilable
         /\ Emit(<<P, P>> \o t) /\ last' = [kind |-> "iflet", eol |-> eol]
         /\ tables' = add_scope(tabs) /\ pc' = pc /\ pc = "parse"
  BY DEF IfLet, InStatement, Parsing
<1> SUFFICES ASSUME d # NONE, item.nilable, Emit(<<P, P>> \o t),
                    last' = [kind |-> "iflet", eol |-> eol], tables' = add_scope(tabs), pc' = "parse"
             PROVE  CodeInv' /\ Right'
  BY <1>1
<1>2. /\ unique_id \in Nat /\ IsStack(tables, unique_id) /\ for_open \in Nat
      /\ Len(tables) \in Nat \ {0} /\ unique_id + 1 \in Nat /\ unique_id <= unique_id + 1
  BY CountersType DEF ParserInv, IsStack
<1>3. d \in 1..Len(tables) /\ item # NULL
  BY <1>2, SearchFinds
<1>4. IsKnown(item) /\ (d # GLOBAL => item.init)
  <2>1. d # GLOBAL => d > 1
    BY <1>2, <1>3 DEF GLOBAL
  <2> QED BY <1>3, <2>1 DEF CodeInv, KnownItems
<1>5. /\ IsStack(cond, unique_id) /\ top = Len(tables) + 1
      /\ \A e \in 1..Len(tables) : cond[e] = tables[e]
      /\ \A e \in 1..(Len(tables) + 1), y \in Names : cond[e][y] # NULL => e \in 1..Len(tables)
  BY <1>2, ScopeAdded
<1>6. d = OrGlobal(cond, search_scopes(cond, Len(cond), id), id)
  <2> HIDE DEF cond
  <2>1. {k \in 2..Len(cond) : cond[k][id] # NULL} = {k \in 2..Len(tables) : tables[k][id] # NULL}
    BY <1>2, <1>5
  <2>2. search_scopes(cond, Len(cond), id) = search_scopes(tables, Len(tables), id)
    BY <2>1 DEF search_scopes
  <2>3. cond[GLOBAL] = tables[GLOBAL]
    BY <1>2, <1>5 DEF GLOBAL
  <2> QED BY <2>2, <2>3 DEF OrGlobal
<1>8. /\ IsKnown(x) /\ x.sig.written = <<>> /\ x # NULL /\ IsItem(x, unique_id + 1)
      /\ x.uid = unique_id /\ x.init
  <2> HIDE DEF item
  <2> QED BY <1>2, <1>4, LetVariable
<1> HIDE DEF x, cond, item, d
<1>10. P \in OldUse
  <2>1. VarAddr(cond, id, TRUE) = AddrOf(cond, d, id)
    <3>1. d # GLOBAL => cond[d][id].init
      BY <1>3, <1>4, <1>5 DEF item
    <3> QED BY <1>5, <1>6, <3>1, FoundAddr
  <2>2. AddrOf(cond, d, id) = AddrOf(tables, d, id)
    BY <1>3, <1>5 DEF AddrOf
  <2>3. AddrOf(tables, d, id) \in Address /\ Visible(AddrOf(tables, d, id))
    BY <1>2, <1>3, AddrType DEF Visible, item
  <2>4. (for_open > 0) \in BOOLEAN
    BY <1>2
  <2> QED BY <2>1, <2>2, <2>3, <2>4 DEF PushVar, Instr, Instruction, OldUse
<1> HIDE DEF P
<1>11. <<P, P>> \in Seq(OldUse)
  BY <1>10
<1>12. PICK k \in 1..Len(cond) : k = top /\ k \notin 1..Len(tables) /\ k # GLOBAL
  BY <1>2, <1>5 DEF GLOBAL
<1>13. /\ IsStack(tabs, unique_id + 1) /\ Len(tabs) = Len(cond)
       /\ \A e \in 1..Len(cond), y \in Names : tabs[e][y] = IF e = k /\ y = id THEN x ELSE cond[e][y]
  <2>1. IsStack(cond, unique_id + 1)
    BY <1>2, <1>5, StackGrows
  <2>2. tabs = Put(cond, k, id, x)
    BY <1>12 DEF Put
  <2> HIDE DEF tabs, top
  <2> QED BY <1>8, <2>1, <2>2, PutIs
<1> HIDE DEF tabs
<1> DEFINE a == AddrOf(tabs, k, id)
<1>14. tabs[k][id] = x
  BY <1>13
<1>15. t # <<>> /\ Declares(t, a)
  <2>1. t = code_generator_var_declare(tabs, k, id, for_open) /\ k = Len(tabs)
    BY <1>12, <1>13
  <2>2. IsStack(tabs, unique_id + 1) /\ unique_id + 1 \in Nat /\ tabs[k][id] # NULL
    BY <1>2, <1>8, <1>13, <1>14
  <2> HIDE DEF t
  <2> QED BY <1>2, <2>1, <2>2, DeclareCode
<1>16. a.uid = unique_id
  BY <1>8, <1>14 DEF AddrOf, Addr
<1> HIDE DEF t
<1>17. /\ Len(tables') = Len(tabs) + 1 /\ \A e \in 1..Len(tabs) : tables'[e] = tabs[e]
       /\ \A e \in 1..(Len(tabs) + 1), y \in Names : tables'[e][y] # NULL => e \in 1..Len(tabs)
  <2>1. IsStack(tabs, unique_id + 1)
    BY <1>13
  <2>2. /\ Len(add_scope(tabs)) = Len(tabs) + 1
        /\ \A e \in 1..Len(tabs) : add_scope(tabs)[e] = tabs[e]
        /\ \A e \in 1..(Len(tabs) + 1), y \in Names : add_scope(tabs)[e][y] # NULL => e \in 1..Len(tabs)
    BY <2>1, ScopeAdded
  <2> QED BY <2>2
<1>18. declared \subseteq declared'
  BY DEF Emit
<1>19. \A y \in Names : tables[GLOBAL][y] # NULL => Stays(GLOBAL, y)
  <2>1. GLOBAL \in 1..Len(tables) /\ GLOBAL \in 1..Len(tabs) /\ GLOBAL \in 1..Len(cond)
    BY <1>2, <1>5, <1>13 DEF GLOBAL
  <2> QED BY <1>5, <1>12, <1>13, <1>17, <2>1 DEF Stays
<1>20. FunctionAddrs \subseteq FunctionAddrs'
  BY <1>2, <1>19, FunctionsStay
<1>21. SameVariable' /\ DeclaredBeforeUse' /\ a \in declared'
  <2> DEFINE s == <<P, P>>
  <2>1. s \in Seq(OldUse) /\ Emit(s \o t)
    BY <1>11
  <2> HIDE DEF s, a
  <2> QED BY <1>15, <1>16, <1>20, <2>1, CodeInOrder
<1>22. ASSUME NEW e \in 1..Len(tables'), NEW y \in Names, tables'[e][y] # NULL
       PROVE  Stays(e, y) \/ Added(e, y)
  <2>1. e \in 1..Len(tabs) /\ tables'[e] = tabs[e]
    BY <1>17, <1>22
  <2>2. CASE e = k /\ y = id
    <3>1. tables'[e][y] = x /\ AddrOf(tables', e, y) = a
      BY <1>14, <2>1, <2>2 DEF AddrOf
    <3> QED BY <1>8, <1>12, <1>21, <2>2, <3>1 DEF Added
  <2>3. CASE ~(e = k /\ y = id)
    <3>1. tables'[e][y] = cond[e][y] /\ e \in 1..Len(tables)
      BY <1>5, <1>13, <1>22, <2>1, <2>3
    <3> QED BY <1>5, <1>22, <3>1 DEF Stays
  <2> QED BY <2>2, <2>3
<1>23. CodeInv'
  <2>1. Len(tables') \in Nat \ {0}
    BY <1>2, <1>5, <1>13, <1>17
  <2> QED BY <1>18, <1>22, <2>1, ItemsKept
<1> QED BY <1>21, <1>23, NoCall DEF Right

\* The variables of a right-hand side.
RhsUses(rhs) == IF rhs.kind = "call" THEN Uses(rhs.args) ELSE {rhs.use}

\* A right-hand side that is accepted.
LEMMA RhsAccepted ==
  ASSUME NEW n \in Nat, NEW tabs, IsStack(tabs, n), NEW lhs \in [d : Nat, id : Names \union {NULL}],
         IsInner(tabs, lhs), NEW rhs \in Expressions \union Calls, NEW loops \in Nat,
         \A f \in Names : IsFunction(tabs[GLOBAL][f]) => IsKnown(tabs[GLOBAL][f]),
         NEW val, val = Rhs(tabs, lhs, rhs, loops), val.err = "none"
  PROVE  /\ Compatible(tabs[lhs.d][lhs.id], RhsType(tabs, rhs))
         /\ RhsType(tabs, rhs) \in Type /\ val.code \in Seq(Instruction)
         /\ (rhs.kind = "call" => WithoutLabels(rhs.args)) =>
              val.code \in Seq(Reads(tabs, RhsUses(rhs)))
         /\ rhs.kind = "call" =>
              /\ rhs.f \in Names /\ IsFunction(tabs[GLOBAL][rhs.f])
              /\ RhsType(tabs, rhs).type # "nil"
              /\ Matches(tabs[GLOBAL][rhs.f].sig, rhs.args)
              /\ Passes(tabs[GLOBAL][rhs.f].sig, rhs.args, val.code)
         /\ rhs.kind # "call" => rhs.kind = "expr" /\ RhsType(tabs, rhs) = rhs.res
<1>1. /\ Compatible(tabs[lhs.d][lhs.id], RhsType(tabs, rhs))
      /\ rhs.kind = "expr" => /\ rhs \in Expressions /\ val.code \in Seq(Reads(tabs, {rhs.use}))
                              /\ RhsType(tabs, rhs) \in Results
      /\ rhs.kind # "expr" => /\ rhs \in Calls /\ rhs.kind = "call"
                              /\ IsFunction(tabs[GLOBAL][rhs.f])
                              /\ tabs[GLOBAL][rhs.f].sig.ret.type # "nil"
                              /\ RhsType(tabs, rhs) = tabs[GLOBAL][rhs.f].sig.ret
                              /\ val = arg_list(tabs, tabs[GLOBAL][rhs.f].sig, lhs, rhs.args, loops)
  <2>1. RhsIs(tabs, lhs, rhs, loops, val)
    BY RhsCode
  <2> QED BY <2>1 DEF RhsIs
<1>2. CASE rhs.kind = "expr"
  <2>1. RhsType(tabs, rhs) \in Type /\ RhsType(tabs, rhs) = rhs.res
    BY <1>1, <1>2, ParserAssumption DEF RhsType
  <2> DEFINE R == Reads(tabs, {rhs.use})
  <2>2. R \subseteq Instruction /\ RhsUses(rhs) = {rhs.use}
    BY <1>2 DEF Reads, RhsUses
  <2>3. val.code \in Seq(Instruction)
    <3>1. val.code \in Seq(R)
      BY <1>1, <1>2
    <3> HIDE DEF R
    <3> QED BY <2>2, <3>1
  <2> QED BY <1>1, <1>2, <2>1, <2>2, <2>3
<1>3. CASE rhs.kind # "expr"
  <2> DEFINE x == tabs[GLOBAL][rhs.f]
             args == rhs.args
  <2>1. /\ rhs.kind = "call" /\ IsFunction(x) /\ x.sig.ret.type # "nil" /\ RhsType(tabs, rhs) = x.sig.ret
        /\ val = arg_list(tabs, x.sig, lhs, args, loops)
    BY <1>1, <1>3
  <2>2. rhs.f \in Names /\ args \in Arguments
    BY <1>1, <1>3 DEF Calls
  <2>3. IsKnown(x)
    BY <2>1, <2>2
  <2>4. RhsUses(rhs) = Uses(args)
    BY <2>1 DEF RhsUses
  <2> HIDE DEF x, args
  <2>5. x.sig.ret \in Type
    BY <2>3 DEF IsKnown, Item, ItemSignature
  <2>6. /\ val.code \in Seq(Instruction)
        /\ WithoutLabels(args) => val.code \in Seq(Reads(tabs, Uses(args)))
        /\ Matches(x.sig, args) /\ Passes(x.sig, args, val.code)
    BY <2>1, <2>2, <2>3, CallAccepted
  <2> QED BY <1>1, <2>1, <2>2, <2>4, <2>5, <2>6 DEF x, args
<1> QED BY <1>2, <1>3

\* Code that follows the arguments moves nothing.
LEMMA PassesStill ==
  ASSUME NEW sig, NEW args, NEW s \in Seq(Instruction), Passes(sig, args, s),
         NEW t \in Seq(Instruction), Moved(t) = {}
  PROVE  Passes(sig, args, s \o t)
<1>1. Moved(s \o t) = Moved(s) \union Moved(t)
  BY MovedConcat
<1>2. Moved(s \o t) = Moved(s)
  BY <1>1
<1> QED BY <1>2 DEF Passes

\* The code of a declaration or an assignment: that of its right-hand side, with
\* the arguments of a call, and what stores the value.
Stores(rhs, sig, s, t) ==
  /\ last'.kind \in {"define", "assign"} /\ last'.rhs = rhs /\ rhs # NULL
  /\ s \in Seq(Instruction) /\ t \in Seq(Instruction) /\ Moved(t) = {} /\ emitted' = s \o t
  /\ rhs.kind = "call" => /\ Matches(sig, rhs.args) /\ Passes(sig, rhs.args, s)
                          /\ tables'[GLOBAL][rhs.f].sig = sig

\* The call on the right-hand side matches its header and passes every parameter.
LEMMA RhsRight ==
  ASSUME NEW rhs, NEW sig, NEW s, NEW t, Stores(rhs, sig, s, t)
  PROVE  ArgumentsMatch' /\ EveryParameterPassed'
<1>0. /\ last'.kind \in {"define", "assign"} /\ last'.rhs = rhs /\ rhs # NULL
      /\ s \in Seq(Instruction) /\ t \in Seq(Instruction) /\ Moved(t) = {} /\ emitted' = s \o t
      /\ rhs.kind = "call" => /\ Matches(sig, rhs.args) /\ Passes(sig, rhs.args, s)
                              /\ tables'[GLOBAL][rhs.f].sig = sig
  BY DEF Stores
<1>1. CASE rhs.kind = "call"
  <2> DEFINE args == rhs.args
             f == rhs.f
  <2>1. ArgsOf(last') = args /\ Callee' = {f}
    BY <1>0, <1>1 DEF ArgsOf, Callee
  <2>2. Matches(sig, args) /\ Passes(sig, args, s) /\ tables'[GLOBAL][f].sig = sig
    BY <1>0, <1>1
  <2> HIDE DEF args, f
  <2>3. Passes(sig, args, s \o t)
    BY <1>0, <2>2, PassesStill
  <2> DEFINE c == s \o t
  <2>4. emitted' = c /\ Passes(sig, args, c)
    BY <1>0, <2>3
  <2> HIDE DEF c
  <2> QED BY <2>1, <2>2, <2>4, CalleeRight
<1>2. CASE rhs.kind # "call"
  <2>1. Callee' = {}
    BY <1>0, <1>2 DEF Callee
  <2> QED BY <2>1 DEF ArgumentsMatch, EveryParameterPassed
<1> QED BY <1>1, <1>2

\* Code after code.
LEMMA UsesConcat ==
  ASSUME NEW s \in Seq(OldUse), NEW t \in Seq(OldUse)
  PROVE  s \o t \in Seq(OldUse)
OBVIOUS

\* The last of some instructions.
LEMMA LastIs ==
  ASSUME NEW S, NEW s \in Seq(S), NEW p
  PROVE  s \o <<p>> # <<>> /\ Last(s \o <<p>>) = p
<1> DEFINE T == S \union {p}
           t == <<p>>
           c == s \o t
<1>1. s \in Seq(T) /\ t \in Seq(T) /\ Len(t) = 1 /\ t[1] = p
  OBVIOUS
<1> HIDE DEF T, t
<1>2. Len(s) \in Nat /\ Len(c) = Len(s) + 1 /\ c[Len(s) + 1] = t[1]
  BY <1>1, ConcatProperties
<1> HIDE DEF c
<1>3. c # <<>> /\ c[Len(c)] = p
  BY <1>1, <1>2
<1> QED BY <1>3 DEF c, t, Last

\* Only an initialized variable differs.
LEMMA SameSearch ==
  ASSUME NEW tabs, NEW new, Len(new) = Len(tabs), Len(tabs) \in Nat \ {0}, NEW id,
         \A e \in 1..Len(tabs) : new[e][id] # NULL <=> tabs[e][id] # NULL
  PROVE  OrGlobal(new, search_scopes(new, Len(new), id), id) =
           OrGlobal(tabs, search_scopes(tabs, Len(tabs), id), id)
<1>1. {k \in 2..Len(new) : new[k][id] # NULL} = {k \in 2..Len(tabs) : tabs[k][id] # NULL}
  OBVIOUS
<1>2. search_scopes(new, Len(new), id) = search_scopes(tabs, Len(tabs), id)
  BY <1>1 DEF search_scopes
<1>3. new[GLOBAL][id] # NULL <=> tabs[GLOBAL][id] # NULL
  BY DEF GLOBAL
<1> QED BY <1>2, <1>3 DEF OrGlobal

\* An assignment.
LEMMA AssignRight ==
  ASSUME ParserInv, CodeInv, NEW id \in Names, NEW rhs \in Expressions \union Calls, NEW eol,
         assign(id, rhs, eol)
  PROVE  (\E e : Fail(e)) \/ (CodeInv' /\ Right')
<1> DEFINE d == OrGlobal(tables, search_scopes(tables, Len(tables), id), id)
           item == tables[d][id]
           val == Rhs(tables, At(d, id), rhs, for_open)
           ty == RhsType(tables, rhs)
           tabs == [tables EXCEPT ![d][id].init = TRUE]
           x == [item EXCEPT !.init = TRUE]
           q == IF item.type = ty.type THEN code_generator_var_assign(tabs, d, id, for_open) ELSE <<>>
           stmt == [kind |-> "assign", id |-> id, rhs |-> rhs, eol |-> eol]
<1>1. \/ \E e : Fail(e)
      \/ /\ d # NONE /\ val.err = "none" /\ Emit(val.code \o q) /\ last' = stmt
         /\ tables' = tabs /\ pc' = pc /\ pc = "parse"
  BY DEF assign, InStatement, Parsing
<1> SUFFICES ASSUME d # NONE, val.err = "none", Emit(val.code \o q), last' = stmt,
                    tables' = tabs, pc' = "parse"
             PROVE  CodeInv' /\ Right'
  BY <1>1
<1>2. /\ unique_id \in Nat /\ IsStack(tables, unique_id) /\ for_open \in Nat
      /\ Len(tables) \in Nat \ {0}
  BY CountersType DEF ParserInv, IsStack
<1>3. d \in 1..Len(tables) /\ item # NULL
  BY <1>2, SearchFinds
<1>4. IsKnown(item) /\ IsItem(item, unique_id)
  BY <1>2, <1>3 DEF CodeInv, KnownItems, IsStack, IsTable
<1>5. IsInner(tables, At(d, id)) /\ At(d, id) \in [d : Nat, id : Names \union {NULL}]
  <2>1. d \in Nat
    BY <1>2, <1>3
  <2> QED BY <2>1 DEF IsInner, At
<1>6. tabs = Put(tables, d, id, x)
  BY DEF Put
<1>7. d = OrGlobal(tables, search_scopes(tables, Len(tables), id), id) /\ item = tables[d][id]
  OBVIOUS
<1>8. val = Rhs(tables, At(d, id), rhs, for_open) /\ ty = RhsType(tables, rhs)
  OBVIOUS
<1>9. q = IF item.type = ty.type THEN code_generator_var_assign(tabs, d, id, for_open) ELSE <<>>
  OBVIOUS
<1> HIDE DEF d, tabs, val, ty, q
<1>10. x \in Item /\ x.init /\ x.type = item.type /\ x.sig = item.sig /\ x.uid = item.uid
  <2>1. item \in Item
    BY <1>4 DEF IsKnown
  <2> HIDE DEF item
  <2> QED BY <2>1, SetInit
<1>11. IsItem(x, unique_id)
  <2> HIDE DEF item
  <2> QED BY <1>4, ItemFields
<1>12. item.type # "undefined"
  BY <1>4 DEF IsKnown
<1>13. x # NULL
  BY <1>10, NullAssumption
<1> HIDE DEF x, item
<1>14. /\ IsStack(tabs, unique_id) /\ Len(tabs) = Len(tables)
       /\ \A e \in 1..Len(tables), y \in Names :
            tabs[e][y] = IF e = d /\ y = id THEN x ELSE tables[e][y]
  BY <1>2, <1>3, <1>6, <1>11, PutIs
<1>15. tabs[d][id] = x
  BY <1>3, <1>14
<1>16. d = OrGlobal(tabs, search_scopes(tabs, Len(tabs), id), id)
  <2>1. \A e \in 1..Len(tables) : tabs[e][id] # NULL <=> tables[e][id] # NULL
    BY <1>3, <1>7, <1>13, <1>14
  <2> QED BY <1>2, <1>7, <1>14, <2>1, SameSearch
<1> DEFINE a == AddrOf(tables, d, id)
           p == Instr("POPS", a, a, for_open)
<1>17. VarAddr(tabs, id, TRUE) = AddrOf(tabs, d, id) /\ AddrOf(tabs, d, id) = a
  <2>1. VarAddr(tabs, id, TRUE) = AddrOf(tabs, d, id)
    BY <1>10, <1>14, <1>15, <1>16, FoundAddr
  <2>2. AddrOf(tabs, d, id) = a
    BY <1>7, <1>10, <1>15 DEF AddrOf
  <2> QED BY <2>1, <2>2
<1>18. p \in OldUse /\ p.op = "POPS"
  <2>1. a \in Address /\ Visible(a)
    BY <1>2, <1>3, <1>7, AddrType DEF Visible
  <2>2. (for_open > 0) \in BOOLEAN
    BY <1>2
  <2> QED BY <2>1, <2>2 DEF Instr, Instruction, OldUse
<1>19. q = <<p>> \/ (q = <<>> /\ item.type # ty.type)
  BY <1>9, <1>17 DEF code_generator_var_assign
<1> HIDE DEF a, p
<1>20. q \in Seq(OldUse) /\ Moved(q) = {}
  <2>1. <<p>> \in Seq(OldUse)
    BY <1>18
  <2>2. <<>> \in Seq(OldUse)
    OBVIOUS
  <2>3. Moved(<<p>>) = {} /\ Moved(<<>>) = {}
    BY <1>18, MovedNone
  <2> QED BY <1>19, <2>1, <2>2, <2>3
<1>21. \A f \in Names : IsFunction(tables[GLOBAL][f]) => IsKnown(tables[GLOBAL][f])
  BY <1>2 DEF IsFunction, CodeInv, KnownItems, GLOBAL
<1>22. /\ Compatible(item, ty) /\ val.code \in Seq(Instruction)
       /\ (rhs.kind = "call" => WithoutLabels(rhs.args)) =>
            val.code \in Seq(Reads(tables, RhsUses(rhs)))
       /\ rhs.kind = "call" =>
            /\ rhs.f \in Names /\ IsFunction(tables[GLOBAL][rhs.f]) /\ ty.type # "nil"
            /\ Matches(tables[GLOBAL][rhs.f].sig, rhs.args)
            /\ Passes(tables[GLOBAL][rhs.f].sig, rhs.args, val.code)
       /\ rhs.kind # "call" => rhs.kind = "expr" /\ ty = rhs.res
  <2>1. At(d, id).d = d /\ At(d, id).id = id
    BY DEF At
  <2> DEFINE lhs == At(d, id)
  <2>2. lhs \in [d : Nat, id : Names \union {NULL}] /\ IsInner(tables, lhs)
    BY <1>5
  <2>3. val = Rhs(tables, lhs, rhs, for_open) /\ item = tables[lhs.d][lhs.id]
    BY <1>7, <1>8, <2>1
  <2> HIDE DEF lhs
  <2> QED BY <1>2, <1>8, <1>21, <2>2, <2>3, RhsAccepted
<1>23. \A e \in 1..Len(tables'), y \in Names : tables'[e][y] # NULL => Stays(e, y)
  <2> SUFFICES ASSUME NEW e \in 1..Len(tables'), NEW y \in Names, tables'[e][y] # NULL
               PROVE  Stays(e, y)
    OBVIOUS
  <2>1. e \in 1..Len(tables) /\ tables'[e][y] = IF e = d /\ y = id THEN x ELSE tables[e][y]
    BY <1>14
  <2>2. CASE e = d /\ y = id
    <3>1. tables'[e][y] = x /\ tables[e][y] # NULL /\ item = tables[e][y]
      BY <1>3, <1>7, <2>1, <2>2
    <3>2. x = [item EXCEPT !.init = TRUE]
      BY DEF x
    <3> QED BY <2>1, <3>1, <3>2 DEF Stays
  <2>3. CASE ~(e = d /\ y = id)
    BY <2>1, <2>3 DEF Stays
  <2> QED BY <2>2, <2>3
<1>24. declared \subseteq declared' /\ emitted' = val.code \o q
  BY DEF Emit
<1>25. CodeInv'
  BY <1>2, <1>14, <1>23, <1>24, ItemsKept
<1>26. /\ FunctionAddrs \subseteq FunctionAddrs'
       /\ \A y \in Names : tables[GLOBAL][y] # NULL => tables'[GLOBAL][y].sig = tables[GLOBAL][y].sig
  <2>1. GLOBAL \in 1..Len(tables') /\ GLOBAL \in 1..Len(tables)
    BY <1>2, <1>14 DEF GLOBAL
  <2>2. \A y \in Names : tables[GLOBAL][y] # NULL => Stays(GLOBAL, y)
    BY <1>13, <1>14, <1>23, <2>1
  <2> QED BY <1>2, <2>2, FunctionsStay
<1>27. SameVariable' /\ DeclaredBeforeUse'
  <2>1. ASSUME ~Labelled(last') PROVE val.code \o q \in Seq(OldUse)
    <3>1. rhs.kind = "call" => WithoutLabels(rhs.args)
      <4> SUFFICES ASSUME rhs.kind = "call" PROVE WithoutLabels(rhs.args)
        OBVIOUS
      <4>1. last'.kind = "assign" /\ last'.rhs = rhs
        OBVIOUS
      <4>2. rhs # NULL
        BY NullAssumption
      <4>3. ArgsOf(last') = rhs.args
        BY <4>1, <4>2 DEF ArgsOf
      <4> QED BY <2>1, <4>3 DEF Labelled, WithoutLabels
    <3>2. val.code \in Seq(OldUse)
      BY <1>22, <3>1, ReadsOld
    <3> QED BY <1>20, <3>2, UsesConcat
  <2> DEFINE c == val.code \o q
  <2>2. Emit(c) /\ (~Labelled(last') => c \in Seq(OldUse))
    BY <2>1
  <2> HIDE DEF c
  <2> QED BY <1>26, <2>2, OnlyUses
<1>28. ArgumentsMatch' /\ EveryParameterPassed'
  <2>1. last'.kind \in {"define", "assign"} /\ last'.rhs = rhs /\ rhs # NULL
    BY NullAssumption
  <2>2. q \in Seq(Instruction) /\ Moved(q) = {}
    <3>1. OldUse \subseteq Instruction
      BY DEF OldUse
    <3> QED BY <1>20, <3>1
  <2>3. rhs.kind = "call" => /\ Matches(tables[GLOBAL][rhs.f].sig, rhs.args)
                             /\ Passes(tables[GLOBAL][rhs.f].sig, rhs.args, val.code)
                             /\ tables'[GLOBAL][rhs.f].sig = tables[GLOBAL][rhs.f].sig
    BY <1>22, <1>26 DEF IsFunction
  <2>4. val.code \in Seq(Instruction)
    BY <1>22
  <2> DEFINE s == val.code
             sig == tables[GLOBAL][rhs.f].sig
  <2>5. /\ s \in Seq(Instruction) /\ emitted' = s \o q
        /\ rhs.kind = "call" => /\ Matches(sig, rhs.args) /\ Passes(sig, rhs.args, s)
                                /\ tables'[GLOBAL][rhs.f].sig = sig
    BY <1>24, <2>3, <2>4
  <2> HIDE DEF s, sig
  <2>6. Stores(rhs, sig, s, q)
    BY <2>1, <2>2, <2>5 DEF Stores
  <2> QED BY <2>6, RhsRight
<1>29. StoredUnlessNil'
  <2>1. CASE q = <<p>>
    <3>1. emitted' = val.code \o <<p>> /\ val.code \in Seq(Instruction)
      BY <1>22, <1>24, <2>1
    <3>2. emitted' # <<>> /\ Last(emitted') = p
      BY <3>1, LastIs
    <3> QED BY <1>18, <3>2 DEF StoredUnlessNil, Stored
  <2>2. CASE item.type # ty.type
    <3>1. ty.type = "nil"
      BY <1>12, <1>22, <2>2 DEF Compatible
    <3>2. rhs.kind = "expr" /\ rhs.res.type = "nil"
      BY <1>22, <3>1
    <3> QED BY <3>2 DEF StoredUnlessNil
  <2> QED BY <1>19, <2>1, <2>2
<1> QED BY <1>25, <1>27, <1>28, <1>29 DEF Right

\* The types of variables.
LEMMA TypeKnown ==
  ASSUME NEW ty \in Type
  PROVE  ty.type \in KnownType /\ ty.type # "function" /\ ty.nilable \in BOOLEAN
BY DEF Type, KnownType

\* The item of a declaration with a type, before its value is parsed.
WithType(fresh, ann) ==
  IF ann = NULL THEN fresh
  ELSE [fresh EXCEPT !.type = ann.type, !.nilable = ann.nilable, !.init = ann.nilable]

\* A type makes an item that is initialized exactly if it may be nil.
LEMMA TypedItem ==
  ASSUME NEW u \in Nat, NEW ann \in Type \union {NULL}, NEW fresh, fresh = NewItem(u), NEW typed,
         typed = WithType(fresh, ann)
  PROVE  /\ typed \in Item /\ typed.sig = NoSignature /\ typed.uid = u /\ typed.type # "function"
         /\ typed.nilable = typed.init
         /\ ann = NULL => ~typed.init
         /\ ann # NULL => typed.type \in KnownType /\ typed.init = ann.nilable
<1>1. /\ fresh \in Item /\ fresh.sig = NoSignature /\ fresh.uid = u
      /\ ~fresh.init /\ ~fresh.nilable /\ fresh.type = "undefined"
  BY NewIsItem
<1>2. CASE ann = NULL
  <2>1. typed = fresh
    BY <1>2 DEF WithType
  <2>2. typed.init \in BOOLEAN /\ typed.nilable \in BOOLEAN
    BY <1>1, <2>1 DEF Item
  <2> QED BY <1>1, <1>2, <2>1, <2>2
<1>3. CASE ann # NULL
  <2> DEFINE ty == ann.type
             nil == ann.nilable
             b == [fresh EXCEPT !.type = ty]
             c == [b EXCEPT !.nilable = nil]
  <2>1. ty \in KnownType /\ ty # "function" /\ nil \in BOOLEAN
    BY <1>3, TypeKnown
  <2>2. typed = [c EXCEPT !.init = nil]
    BY <1>3 DEF WithType
  <2> HIDE DEF ty, nil
  <2>3. b \in Item /\ b.sig = NoSignature /\ b.uid = u /\ b.type = ty
    BY <1>1, <2>1, SetType
  <2> HIDE DEF b
  <2>4. c \in Item /\ c.sig = NoSignature /\ c.uid = u /\ c.type = ty /\ c.nilable = nil
    BY <2>1, <2>3, SetNilable
  <2> HIDE DEF c
  <2>5. /\ typed \in Item /\ typed.sig = NoSignature /\ typed.uid = u /\ typed.type = ty
        /\ typed.nilable = nil /\ typed.init = nil
    <3>1. /\ typed \in Item /\ typed.init = nil /\ typed.nilable = c.nilable /\ typed.type = c.type
          /\ typed.sig = c.sig /\ typed.uid = c.uid
      BY <2>1, <2>2, <2>4, SetInit
    <3> QED BY <2>4, <3>1
  <2> QED BY <1>3, <2>1, <2>5 DEF nil
<1> QED BY <1>2, <1>3

\* The item at the end of a declaration.
WithValue(typed, ann, rhs, ty) ==
  CASE rhs = NULL -> typed
    [] rhs # NULL /\ ann # NULL -> [typed EXCEPT !.init = TRUE]
    [] OTHER -> [typed EXCEPT !.init = TRUE, !.type = ty.type, !.nilable = ty.nilable]

\* Behind its value the variable has a type, and is initialized if it may be nil.
LEMMA ValuedItem ==
  ASSUME NEW typed \in Item, typed.sig = NoSignature, typed.nilable = typed.init, NEW ann, NEW rhs,
         ann # NULL => typed.type \in KnownType, NEW ty, rhs # NULL => ty \in Type,
         ~(ann = NULL /\ rhs = NULL), NEW item, item = WithValue(typed, ann, rhs, ty)
  PROVE  /\ item \in Item /\ item.sig = NoSignature /\ item.uid = typed.uid
         /\ item.type \in KnownType /\ (item.nilable => item.init)
<1> DEFINE a == [typed EXCEPT !.init = TRUE]
<1>1. a \in Item /\ a.sig = NoSignature /\ a.uid = typed.uid /\ a.type = typed.type /\ a.init
  BY SetInit
<1>2. CASE rhs = NULL
  <2>1. item = typed
    BY <1>2 DEF WithValue
  <2> QED BY <1>2, <2>1
<1>3. CASE rhs # NULL /\ ann # NULL
  <2>1. item = a
    BY <1>3 DEF WithValue
  <2> HIDE DEF a
  <2> QED BY <1>1, <1>3, <2>1
<1>4. CASE rhs # NULL /\ ann = NULL
  <2> DEFINE b == [a EXCEPT !.type = ty.type]
             nil == ty.nilable
  <2>1. ty.type \in KnownType /\ nil \in BOOLEAN
    BY <1>4, TypeKnown
  <2>2. item = [b EXCEPT !.nilable = nil]
    BY <1>4 DEF WithValue
  <2> HIDE DEF a, nil
  <2>3. b \in Item /\ b.sig = NoSignature /\ b.uid = typed.uid /\ b.type \in KnownType /\ b.init
    BY <1>1, <2>1, SetType
  <2> HIDE DEF b
  <2>4. b \in Item
    BY <2>3
  <2>5. /\ item \in Item /\ item.init = b.init /\ item.type = b.type
        /\ item.sig = b.sig /\ item.uid = b.uid
    BY <2>1, <2>2, <2>4, SetNilable
  <2> QED BY <2>3, <2>5
<1> QED BY <1>2, <1>3, <1>4

\* Two instructions at the end.
LEMMA LastOfTwo ==
  ASSUME NEW S, NEW s \in Seq(S), NEW x \in S, NEW p
  PROVE  s \o <<x, p>> # <<>> /\ Last(s \o <<x, p>>) = p
<1> DEFINE T == S \union {p}
           t == <<x, p>>
           c == s \o t
<1>1. s \in Seq(T) /\ t \in Seq(T) /\ Len(t) = 2 /\ t[2] = p
  OBVIOUS
<1> HIDE DEF T, t
<1>2. Len(s) \in Nat /\ Len(c) = Len(s) + 2 /\ c[Len(s) + 2] = t[2]
  <2>1. Len(s) \in Nat /\ Len(c) = Len(s) + Len(t)
    <3>1. Len(s) \in Nat
      OBVIOUS
    <3>2. Len(c) = Len(s) + Len(t)
      BY <1>1, ConcatProperties
    <3> QED BY <3>1, <3>2
  <2>2. Len(s) + 2 \in 1..(Len(s) + Len(t)) /\ ~(Len(s) + 2 <= Len(s)) /\ (Len(s) + 2) - Len(s) = 2
    BY <1>1, <2>1
  <2>3. c[Len(s) + 2] = t[(Len(s) + 2) - Len(s)]
    BY <1>1, <2>2, ConcatProperties
  <2> QED BY <1>1, <2>1, <2>2, <2>3
<1> HIDE DEF c
<1>3. c # <<>> /\ c[Len(c)] = p
  BY <1>1, <1>2
<1> QED BY <1>3 DEF c, t, Last

\* The code of a declaration names what the parser meant, also where the variable
\* is its own initial value, and declares it.
LEMMA DeclarationCode ==
  ASSUME NEW tabs, NEW ids, NEW s \in Seq(Instruction), ~Labelled(last') => s \in Seq(Reads(tabs, ids)),
         NEW a, NEW t, Declares(t, a), t # <<>>, Emit(s \o t)
  PROVE  SameVariable' /\ a \in declared' /\ declared \subseteq declared'
<1> DEFINE c == s \o t
           n == Len(s)
           m == Len(t)
<1>1. t \in Seq(Instruction) /\ n \in Nat /\ m \in Nat /\ m > 0
  BY DEF Declares
<1>2. /\ Len(c) = n + m
      /\ \A i \in 1..n : c[i] = s[i]
      /\ \A i \in (n + 1)..(n + m) : c[i] = t[i - n]
  BY <1>1
<1>3. /\ emitted' = c
      /\ declared' = declared \union {c[i].addr : i \in {j \in 1..Len(c) : c[j].op = "DEFVAR"}}
  BY DEF Emit
<1>4. \A i \in 1..m : t[i].addr = a /\ t[i].want = a /\ (t[i].op = "DEFVAR" <=> i = 1)
  BY DEF Declares
<1>5. ~Labelled(last') => \A i \in 1..n : s[i].addr = s[i].want
  <2> SUFFICES ASSUME ~Labelled(last') PROVE \A i \in 1..n : s[i].addr = s[i].want
    OBVIOUS
  <2> DEFINE R == Reads(tabs, ids)
  <2>1. \A x \in R : x.addr = x.want
    BY DEF Reads
  <2>2. s \in Seq(R)
    OBVIOUS
  <2> HIDE DEF R
  <2> QED BY <2>1, <2>2
<1> HIDE DEF c, n, m
<1>6. \A i \in 1..(n + m) : i \in 1..n \/ (i \in (n + 1)..(n + m) /\ i - n \in 1..m)
  BY <1>1
<1>7. SameVariable'
  BY <1>2, <1>3, <1>4, <1>5, <1>6 DEF SameVariable
<1>8. a \in declared'
  <2>1. PICK k \in 1..Len(c) : k = n + 1
    BY <1>1, <1>2
  <2>2. k \in (n + 1)..(n + m) /\ k - n = 1 /\ 1 \in 1..m
    BY <1>1, <2>1
  <2>3. c[k].op = "DEFVAR" /\ c[k].addr = a
    BY <1>2, <1>4, <2>2
  <2> QED BY <1>3, <2>3
<1> QED BY <1>3, <1>7, <1>8

\* A declaration of a variable that is accepted.
DefineDepth == IF in_cond > 0 \/ in_loop > 0 \/ in_func_body THEN Len(tables) ELSE GLOBAL
DefineValue(tabs, d, id, rhs) ==
  IF rhs = NULL THEN Eval(<<>>, "none") ELSE Rhs(tabs, At(d, id), rhs, for_open)
DefineCode(tabs, d, id, rhs, val, nil) ==
  IF rhs # NULL \/ nil
  THEN (IF rhs = NULL THEN <<PushLiteral(for_open)>> ELSE val.code)
       \o code_generator_var_declare(tabs, d, id, for_open)
  ELSE << code_generator_defvar(VarAddr(tabs, id, FALSE), AddrOf(tabs, d, id)) >>

Defines(mutable, id, ann, rhs, eol, d, typed, tabs, val) ==
  /\ d = DefineDepth /\ typed = WithType(NewItem(unique_id), ann) /\ tabs = Put(tables, d, id, typed)
  /\ val = DefineValue(tabs, d, id, rhs) /\ val.err = "none"
  /\ tables[d][id] = NULL /\ ~(ann = NULL /\ rhs = NULL)
  /\ tables' = Put(tables, d, id,
                   [WithValue(typed, ann, rhs, RhsType(tabs, rhs)) EXCEPT !.mutable = mutable])
  /\ Emit(DefineCode(tabs, d, id, rhs, val, typed.nilable))
  /\ last' = [kind |-> "define", ann |-> ann, id |-> id, rhs |-> rhs, eol |-> eol]
  /\ pc' = "parse"

\* A declaration fails or goes through its parts.
LEMMA DefineIs ==
  ASSUME Len(tables) \in Nat \ {0},
         NEW mutable, NEW id, NEW ann, NEW rhs, NEW eol, define(mutable, id, ann, rhs, eol)
  PROVE  (\E e : Fail(e)) \/ \E d, typed, tabs, val :
                                Defines(mutable, id, ann, rhs, eol, d, typed, tabs, val)
<1> DEFINE local == in_cond > 0 \/ in_loop > 0 \/ in_func_body
           d == IF local THEN Len(tables) ELSE GLOBAL
           fresh == NewItem(unique_id)
           typed == IF ann = NULL THEN fresh
                    ELSE [fresh EXCEPT !.type = ann.type, !.nilable = ann.nilable, !.init = ann.nilable]
           tabs == [tables EXCEPT ![d][id] = typed]
           val == IF rhs = NULL THEN Eval(<<>>, "none") ELSE Rhs(tabs, At(d, id), rhs, for_open)
           ty == RhsType(tabs, rhs)
           item == CASE rhs = NULL -> typed
                     [] rhs # NULL /\ ann # NULL -> [typed EXCEPT !.init = TRUE]
                     [] OTHER -> [typed EXCEPT !.init = TRUE, !.type = ty.type, !.nilable = ty.nilable]
           code == IF rhs # NULL \/ typed.nilable
                   THEN (IF rhs = NULL THEN <<PushLiteral(for_open)>> ELSE val.code)
                        \o code_generator_var_declare(tabs, d, id, for_open)
                   ELSE << code_generator_defvar(VarAddr(tabs, id, FALSE), AddrOf(tabs, d, id)) >>
           e1 == CASE ann = NULL /\ rhs = NULL -> "SYNTAX"
                   [] ann = NULL /\ rhs # NULL /\ val.err = "none" /\ ty.type = "nil" -> "MISSING_TYPE"
                   [] OTHER -> val.err
           e == CASE local /\ Len(tables) = 1 -> "INTERNAL"
                  [] (~local \/ Len(tables) > 1) /\ tables[d][id] # NULL -> "REDEFINING_VARIABLE"
                  [] OTHER -> e1
<1>0. Len(tables) = 1 \/ Len(tables) > 1
  <2>1. \A n \in Nat \ {0} : n = 1 \/ n > 1
    OBVIOUS
  <2> QED BY <2>1, Zenon
<1>1. \/ Fail(e)
      \/ /\ e = "none"
         /\ tables' = [tables EXCEPT ![d][id] = [item EXCEPT !.mutable = mutable]]
         /\ Emit(code) /\ pc' = pc /\ pc = "parse"
         /\ last' = [kind |-> "define", ann |-> ann, id |-> id, rhs |-> rhs, eol |-> eol]
  BY DEF define, InStatement, Parsing
<1> SUFFICES ASSUME e = "none",
                    tables' = [tables EXCEPT ![d][id] = [item EXCEPT !.mutable = mutable]],
                    Emit(code), pc' = "parse",
                    last' = [kind |-> "define", ann |-> ann, id |-> id, rhs |-> rhs, eol |-> eol]
             PROVE  Defines(mutable, id, ann, rhs, eol, d, typed, tabs, val)
  BY <1>1
<1>2. d = DefineDepth /\ typed = WithType(fresh, ann)
  BY DEF DefineDepth, WithType
<1>3. tabs = Put(tables, d, id, typed) /\ val = DefineValue(tabs, d, id, rhs)
  BY DEF Put, DefineValue
<1>4. item = WithValue(typed, ann, rhs, ty)
  BY DEF WithValue
<1>5. code = DefineCode(tabs, d, id, rhs, val, typed.nilable)
  BY DEF DefineCode
<1> HIDE DEF val, ty, item, typed, tabs, code, e1, local, d
<1>6. tables[d][id] = NULL /\ ~(ann = NULL /\ rhs = NULL) /\ val.err = "none"
  <2> DEFINE p == local /\ Len(tables) = 1
             q == (~local \/ Len(tables) > 1) /\ tables[d][id] # NULL
  <2>1. ~p \/ ~q
    BY DEF local
  <2>2. p \/ q \/ tables[d][id] = NULL
    BY <1>0, Zenon
  <2>3. e = CASE p -> "INTERNAL" [] q -> "REDEFINING_VARIABLE" [] OTHER -> e1
    OBVIOUS
  <2> HIDE DEF p, q
  <2>4. tables[d][id] = NULL /\ e1 = "none"
    BY <2>1, <2>2, <2>3
  <2> QED BY <2>4 DEF e1
<1>7. tables' = Put(tables, d, id, [WithValue(typed, ann, rhs, RhsType(tabs, rhs)) EXCEPT !.mutable = mutable])
  BY <1>4 DEF Put, ty
<1> QED BY <1>2, <1>3, <1>5, <1>6, <1>7 DEF Defines

\* The tables before and behind the value of a declaration.
DefineState(id, ann, d, typed, tabs) ==
  /\ d = Len(tables) /\ d \in 1..Len(tables) /\ typed \in Item /\ typed.sig = NoSignature
  /\ typed.uid = unique_id /\ typed.type # "function" /\ typed # NULL
  /\ typed.nilable = typed.init
  /\ typed.init => ann # NULL /\ ann.nilable
  /\ ann # NULL => typed.type \in KnownType
  /\ IsStack(tabs, unique_id + 1) /\ Len(tabs) = Len(tables)
  /\ \A e \in 1..Len(tables), y \in Names :
       tabs[e][y] = IF e = d /\ y = id THEN typed ELSE tables[e][y]

\* While its value is parsed, the tables hold the new variable.
LEMMA DefineTables ==
  ASSUME ParserInv, CodeInv, NEW mutable \in BOOLEAN, NEW id \in Names, NEW ann \in Types \union {NULL},
         NEW rhs \in Expressions \union Calls \union {NULL}, NEW eol, NEW d, NEW typed, NEW tabs, NEW val,
         Defines(mutable, id, ann, rhs, eol, d, typed, tabs, val)
  PROVE  DefineState(id, ann, d, typed, tabs)
<1>1. /\ unique_id \in Nat /\ IsStack(tables, unique_id) /\ for_open \in Nat
      /\ Len(tables) \in Nat \ {0} /\ unique_id + 1 \in Nat /\ unique_id <= unique_id + 1
      /\ unique_id < unique_id + 1
  BY CountersType DEF ParserInv, IsStack
<1>2. d = Len(tables)
  <2>1. d = DefineDepth
    BY DEF Defines
  <2>2. CASE in_cond > 0 \/ in_loop > 0 \/ in_func_body
    BY <2>1, <2>2 DEF DefineDepth
  <2>3. CASE ~(in_cond > 0 \/ in_loop > 0 \/ in_func_body)
    BY <2>1, <2>3, OutsideBlocks DEF DefineDepth, GLOBAL
  <2> QED BY <2>2, <2>3
<1>3. d \in 1..Len(tables)
  BY <1>1, <1>2
<1>4. ann \in Type \union {NULL}
  BY ParserAssumption
<1>5. typed = WithType(NewItem(unique_id), ann)
  BY DEF Defines
<1>6. /\ typed \in Item /\ typed.sig = NoSignature /\ typed.uid = unique_id /\ typed.type # "function"
      /\ typed.nilable = typed.init
      /\ ann = NULL => ~typed.init
      /\ ann # NULL => typed.type \in KnownType /\ typed.init = ann.nilable
  BY <1>1, <1>4, <1>5, TypedItem
<1>7. IsItem(typed, unique_id + 1) /\ typed # NULL
  BY <1>1, <1>6, VariableIsItem
<1>8. typed.init => ann # NULL /\ ann.nilable
  BY <1>6
<1>9. tabs = Put(tables, d, id, typed)
  BY DEF Defines
<1>10. IsStack(tables, unique_id + 1)
  BY <1>1, StackGrows
<1>11. /\ IsStack(tabs, unique_id + 1) /\ Len(tabs) = Len(tables)
       /\ \A e \in 1..Len(tables), y \in Names :
            tabs[e][y] = IF e = d /\ y = id THEN typed ELSE tables[e][y]
  BY <1>3, <1>7, <1>9, <1>10, PutIs
<1> QED BY <1>2, <1>3, <1>6, <1>7, <1>8, <1>11 DEF DefineState

\* The code of a declaration: that of the value (s), then of the variable (q).
DefineParts(id, rhs, d, tabs, s, q) ==
  /\ s \in Seq(Instruction) /\ q \in Seq(Instruction) /\ q # <<>> /\ Moved(q) = {}
  /\ Declares(q, AddrOf(tabs, d, id)) /\ Emit(s \o q)
  /\ ~Labelled(last') => s \in Seq(Reads(tabs, IF rhs = NULL THEN {} ELSE RhsUses(rhs)))
  /\ rhs # NULL => /\ emitted' # <<>> /\ Last(emitted').op = "POPS" /\ RhsType(tabs, rhs) \in Type
                   /\ rhs.kind = "call" =>
                        /\ rhs.f \in Names /\ IsFunction(tabs[GLOBAL][rhs.f])
                        /\ Matches(tabs[GLOBAL][rhs.f].sig, rhs.args)
                        /\ Passes(tabs[GLOBAL][rhs.f].sig, rhs.args, s)

\* A declaration with a value.
LEMMA DefineWithValue ==
  ASSUME NEW n \in Nat, NEW tabs, IsStack(tabs, n), NEW d, d = Len(tabs), d \in Nat, NEW id \in Names,
         tabs[d][id] # NULL, for_open \in Nat, NEW rhs \in Expressions \union Calls,
         \A f \in Names : IsFunction(tabs[GLOBAL][f]) => IsKnown(tabs[GLOBAL][f]),
         NEW val, val = Rhs(tabs, At(d, id), rhs, for_open), val.err = "none",
         last'.kind = "define", last'.rhs = rhs, NEW q,
         q = code_generator_var_declare(tabs, d, id, for_open), Emit(val.code \o q)
  PROVE  DefineParts(id, rhs, d, tabs, val.code, q)
<1> DEFINE lhs == At(d, id)
           s == val.code
           a == AddrOf(tabs, d, id)
<1>1. /\ OrGlobal(tabs, search_scopes(tabs, Len(tabs), id), id) = d
      /\ VarAddr(tabs, id, FALSE) = a
  BY DeclaredHere
<1>2. lhs \in [d : Nat, id : Names \union {NULL}] /\ IsInner(tabs, lhs)
  BY <1>1 DEF At, IsInner
<1>3. rhs # NULL
  BY NullAssumption
<1>4. Declares(q, a) /\ q # <<>> /\ Moved(q) = {} /\ q \in Seq(Instruction)
  <2>1. Declares(q, a) /\ q # <<>> /\ Moved(q) = {}
    BY DeclareCode
  <2> QED BY <2>1 DEF Declares
<1> HIDE DEF lhs
<1>5. /\ RhsType(tabs, rhs) \in Type /\ s \in Seq(Instruction)
      /\ (rhs.kind = "call" => WithoutLabels(rhs.args)) => s \in Seq(Reads(tabs, RhsUses(rhs)))
      /\ rhs.kind = "call" => /\ rhs.f \in Names /\ IsFunction(tabs[GLOBAL][rhs.f])
                              /\ Matches(tabs[GLOBAL][rhs.f].sig, rhs.args)
                              /\ Passes(tabs[GLOBAL][rhs.f].sig, rhs.args, s)
  <2>1. val = Rhs(tabs, lhs, rhs, for_open)
    BY DEF lhs
  <2> QED BY <1>2, <2>1, RhsAccepted
<1>6. ~Labelled(last') => (rhs.kind = "call" => WithoutLabels(rhs.args))
  <2>1. rhs.kind = "call" => ArgsOf(last') = rhs.args
    BY <1>3 DEF ArgsOf
  <2> QED BY <2>1 DEF Labelled, WithoutLabels
<1>7. emitted' # <<>> /\ Last(emitted').op = "POPS"
  <2> DEFINE x == code_generator_defvar(a, a)
             p == Instr("POPS", a, a, for_open)
  <2>1. q = <<x, p>> /\ p.op = "POPS"
    BY <1>1 DEF code_generator_var_declare, Instr
  <2>2. emitted' = s \o q
    BY DEF Emit
  <2> HIDE DEF x, p
  <2>3. x \in Instruction
    BY <1>4, <2>1
  <2> HIDE DEF s
  <2>4. s \o <<x, p>> # <<>> /\ Last(s \o <<x, p>>) = p
    BY <1>5, <2>3, LastOfTwo
  <2> QED BY <2>1, <2>2, <2>4
<1> QED BY <1>3, <1>4, <1>5, <1>6, <1>7 DEF DefineParts

\* A declaration without a value.
LEMMA DefineWithoutValue ==
  ASSUME NEW n \in Nat, NEW tabs, IsStack(tabs, n), NEW d, d = Len(tabs), NEW id \in Names,
         tabs[d][id] # NULL, for_open \in Nat, NEW s, s = <<>> \/ s = <<PushLiteral(for_open)>>, NEW q,
         \/ q = code_generator_var_declare(tabs, d, id, for_open)
         \/ q = << code_generator_defvar(VarAddr(tabs, id, FALSE), AddrOf(tabs, d, id)) >>,
         Emit(s \o q)
  PROVE  DefineParts(id, NULL, d, tabs, s, q)
<1> DEFINE a == AddrOf(tabs, d, id)
           R == Reads(tabs, {})
<1>1. Declares(q, a) /\ q # <<>> /\ Moved(q) = {} /\ q \in Seq(Instruction)
  <2>1. Declares(q, a) /\ q # <<>> /\ Moved(q) = {}
    BY DeclareCode
  <2> QED BY <2>1 DEF Declares
<1>2. PushLiteral(for_open) \in R
  BY LiteralReads DEF PushLiteral
<1>3. R \subseteq Instruction
  BY DEF Reads
<1> HIDE DEF R
<1>4. s \in Seq(R) /\ s \in Seq(Instruction)
  <2>1. \A S, x : x \in S => <<x>> \in Seq(S) /\ <<>> \in Seq(S)
    OBVIOUS
  <2>2. PushLiteral(for_open) \in Instruction
    BY <1>2, <1>3
  <2> QED BY <1>2, <2>1, <2>2, Zenon
<1> QED BY <1>1, <1>4 DEF DefineParts, R

\* The code of every declaration has these parts.
LEMMA DefineHasParts ==
  ASSUME ParserInv, CodeInv, NEW mutable \in BOOLEAN, NEW id \in Names, NEW ann \in Types \union {NULL},
         NEW rhs \in Expressions \union Calls \union {NULL}, NEW eol, NEW d, NEW typed, NEW tabs, NEW val,
         Defines(mutable, id, ann, rhs, eol, d, typed, tabs, val)
  PROVE  \E s, q : DefineParts(id, rhs, d, tabs, s, q)
<1>1. /\ unique_id \in Nat /\ IsStack(tables, unique_id) /\ for_open \in Nat
      /\ Len(tables) \in Nat \ {0} /\ unique_id + 1 \in Nat
  BY CountersType DEF ParserInv, IsStack
<1>2. /\ d = Len(tables) /\ d \in 1..Len(tables) /\ typed.type # "function" /\ typed # NULL
      /\ IsStack(tabs, unique_id + 1) /\ Len(tabs) = Len(tables)
      /\ \A e \in 1..Len(tables), y \in Names :
           tabs[e][y] = IF e = d /\ y = id THEN typed ELSE tables[e][y]
  <2>1. DefineState(id, ann, d, typed, tabs)
    BY DefineTables
  <2> QED BY <2>1 DEF DefineState
<1>3. d = Len(tabs) /\ d \in Nat /\ tabs[d][id] # NULL
  BY <1>1, <1>2
<1>4. \A f \in Names : IsFunction(tabs[GLOBAL][f]) => IsKnown(tabs[GLOBAL][f])
  <2> SUFFICES ASSUME NEW f \in Names, IsFunction(tabs[GLOBAL][f]) PROVE IsKnown(tabs[GLOBAL][f])
    OBVIOUS
  <2>1. GLOBAL \in 1..Len(tables)
    BY <1>1 DEF GLOBAL
  <2>2. tabs[GLOBAL][f] = tables[GLOBAL][f] /\ tables[GLOBAL][f] # NULL
    BY <1>2, <2>1 DEF IsFunction
  <2> QED BY <2>1, <2>2 DEF CodeInv, KnownItems
<1>5. /\ val = DefineValue(tabs, d, id, rhs) /\ val.err = "none"
      /\ last'.kind = "define" /\ last'.rhs = rhs
      /\ Emit(DefineCode(tabs, d, id, rhs, val, typed.nilable))
  BY DEF Defines
<1> DEFINE q == code_generator_var_declare(tabs, d, id, for_open)
           v == << code_generator_defvar(VarAddr(tabs, id, FALSE), AddrOf(tabs, d, id)) >>
<1>6. CASE rhs # NULL
  <2>1. val = Rhs(tabs, At(d, id), rhs, for_open) /\ rhs \in Expressions \union Calls
    BY <1>5, <1>6 DEF DefineValue
  <2>2. Emit(val.code \o q)
    BY <1>5, <1>6 DEF DefineCode
  <2> HIDE DEF q
  <2>3. q = code_generator_var_declare(tabs, d, id, for_open)
    BY DEF q
  <2>4. DefineParts(id, rhs, d, tabs, val.code, q)
    BY <1>1, <1>2, <1>3, <1>4, <1>5, <2>1, <2>2, <2>3, DefineWithValue
  <2> QED BY <2>4
<1>7. CASE rhs = NULL /\ typed.nilable
  <2> DEFINE s == <<PushLiteral(for_open)>>
  <2>1. Emit(s \o q)
    BY <1>5, <1>7 DEF DefineCode
  <2>2. /\ s = <<>> \/ s = <<PushLiteral(for_open)>>
        /\ q = code_generator_var_declare(tabs, d, id, for_open) \/ q = v
    OBVIOUS
  <2> HIDE DEF s, q
  <2>3. DefineParts(id, NULL, d, tabs, s, q)
    BY <1>1, <1>2, <1>3, <2>1, <2>2, DefineWithoutValue
  <2> QED BY <1>7, <2>3
<1>8. CASE rhs = NULL /\ ~typed.nilable
  <2> DEFINE s == <<>>
  <2>1. Emit(v)
    BY <1>5, <1>8 DEF DefineCode
  <2>2. <<>> \o v = v
    <3> DEFINE x == code_generator_defvar(VarAddr(tabs, id, FALSE), AddrOf(tabs, d, id))
    <3> HIDE DEF x
    <3>1. <<>> \o <<x>> = <<x>>
      OBVIOUS
    <3> QED BY <3>1 DEF x
  <2>3. Emit(s \o v)
    BY <2>1, <2>2
  <2>4. /\ s = <<>> \/ s = <<PushLiteral(for_open)>>
        /\ v = code_generator_var_declare(tabs, d, id, for_open)
             \/ v = << code_generator_defvar(VarAddr(tabs, id, FALSE), AddrOf(tabs, d, id)) >>
    OBVIOUS
  <2> HIDE DEF s, v
  <2>5. DefineParts(id, NULL, d, tabs, s, v)
    BY <1>1, <1>2, <1>3, <2>3, <2>4, DefineWithoutValue
  <2> QED BY <1>8, <2>5
<1> QED BY <1>6, <1>7, <1>8

\* The value reads variables that are in scope already, but where a nilable one is
\* its own initial value.
LEMMA DefineReadsOld ==
  ASSUME NEW id \in Names, NEW ann, NEW rhs \in Expressions \union Calls \union {NULL}, NEW d, NEW typed,
         NEW tabs, DefineState(id, ann, d, typed, tabs),
         last'.kind = "define", last'.ann = ann, last'.id = id, last'.rhs = rhs,
         ~NilableFromItself(last'),
         NEW s \in Seq(Reads(tabs, IF rhs = NULL THEN {} ELSE RhsUses(rhs)))
  PROVE  s \in Seq(OldUse)
<1> DEFINE ids == IF rhs = NULL THEN {} ELSE RhsUses(rhs)
<1>1. /\ Len(tabs) = Len(tables)
      /\ \A e \in 1..Len(tables), y \in Names :
           tabs[e][y] = IF e = d /\ y = id THEN typed ELSE tables[e][y]
      /\ typed.init => ann # NULL /\ ann.nilable
  BY DEF DefineState
<1>2. typed.init => id \notin ids
  <2> SUFFICES ASSUME typed.init, id \in ids PROVE FALSE
    OBVIOUS
  <2>1. rhs # NULL /\ id \in RhsUses(rhs) /\ rhs \in Expressions \union Calls
    OBVIOUS
  <2>2. rhs.kind = "call" => ArgsOf(last') = rhs.args
    BY <2>1 DEF ArgsOf
  <2>3. rhs.kind # "call" => rhs.kind = "expr"
    BY <2>1 DEF Expressions, Calls
  <2>4. CASE rhs.kind = "call"
    <3>1. \E i \in 1..Len(ArgsOf(last')) : ArgsOf(last')[i].use = id
      BY <2>1, <2>2, <2>4 DEF RhsUses, Uses
    <3> QED BY <1>1, <2>1, <3>1 DEF NilableFromItself
  <2>5. CASE rhs.kind # "call"
    <3>1. rhs.use = id
      BY <2>1, <2>5 DEF RhsUses
    <3> QED BY <1>1, <2>1, <2>3, <2>5, <3>1 DEF NilableFromItself
  <2> QED BY <2>4, <2>5
<1> HIDE DEF ids
<1>3. ASSUME NEW e \in 1..Len(tabs), NEW x \in ids \intersect Names, tabs[e][x] # NULL, tabs[e][x].init
      PROVE  e \in 1..Len(tables) /\ tables[e][x] # NULL /\ AddrOf(tables, e, x) = AddrOf(tabs, e, x)
  <2>1. e \in 1..Len(tables) /\ x \in Names
    BY <1>1, <1>3
  <2>2. ~(e = d /\ x = id)
    BY <1>1, <1>2, <1>3, <2>1
  <2>3. tabs[e][x] = tables[e][x]
    BY <1>1, <2>1, <2>2
  <2> QED BY <1>3, <2>1, <2>3 DEF AddrOf
<1>4. s \in Seq(Reads(tabs, ids))
  BY DEF ids
<1> QED BY <1>3, <1>4, ReadsOld

\* The item that a declaration leaves behind.
FinalItem(typed, ann, rhs, ty, mutable) == [WithValue(typed, ann, rhs, ty) EXCEPT !.mutable = mutable]

\* It has what the invariant asks of an item.
LEMMA DefineItem ==
  ASSUME ParserInv, NEW mutable \in BOOLEAN, NEW id, NEW ann, NEW rhs, NEW d, NEW typed, NEW tabs,
         DefineState(id, ann, d, typed, tabs), NEW ty, rhs # NULL => ty \in Type,
         ~(ann = NULL /\ rhs = NULL), NEW x,
         x = FinalItem(typed, ann, rhs, ty, mutable)
  PROVE  /\ IsKnown(x) /\ x.sig.written = <<>> /\ x # NULL /\ IsItem(x, unique_id + 1)
         /\ x.uid = unique_id /\ (x.nilable => x.init)
<1>1. unique_id \in Nat /\ unique_id + 1 \in Nat /\ unique_id < unique_id + 1
  BY DEF ParserInv
<1>2. /\ typed \in Item /\ typed.sig = NoSignature /\ typed.nilable = typed.init
      /\ ann # NULL => typed.type \in KnownType
      /\ typed.uid = unique_id
  BY DEF DefineState
<1>3. /\ x \in Item /\ x.sig = NoSignature /\ x.uid = typed.uid /\ x.type \in KnownType
      /\ x.nilable => x.init
  <2> DEFINE item == WithValue(typed, ann, rhs, ty)
  <2>1. x = [item EXCEPT !.mutable = mutable]
    BY DEF FinalItem
  <2>2. item = WithValue(typed, ann, rhs, ty)
    OBVIOUS
  <2> HIDE DEF item
  <2>3. /\ item \in Item /\ item.sig = NoSignature /\ item.uid = typed.uid
        /\ item.type \in KnownType /\ (item.nilable => item.init)
    BY <1>2, <2>2, ValuedItem
  <2>4. /\ x \in Item /\ x.init = item.init /\ x.nilable = item.nilable /\ x.type = item.type
        /\ x.sig = item.sig /\ x.uid = item.uid
    BY <2>1, <2>3, SetMutable
  <2> QED BY <2>3, <2>4
<1>4. IsKnown(x) /\ x.sig.written = <<>> /\ x # NULL /\ IsItem(x, unique_id + 1)
  BY <1>1, <1>2, <1>3, VariableKnown
<1> QED BY <1>2, <1>3, <1>4

\* A declaration of a variable.
LEMMA DefinesRight ==
  ASSUME ParserInv, CodeInv, NEW mutable \in BOOLEAN, NEW id \in Names, NEW ann \in Types \union {NULL},
         NEW rhs \in Expressions \union Calls \union {NULL}, NEW eol, NEW d, NEW typed, NEW tabs, NEW val,
         Defines(mutable, id, ann, rhs, eol, d, typed, tabs, val)
  PROVE  CodeInv' /\ Right'
<1>1. /\ unique_id \in Nat /\ IsStack(tables, unique_id)
      /\ Len(tables) \in Nat \ {0} /\ unique_id + 1 \in Nat /\ unique_id <= unique_id + 1
  BY DEF ParserInv, IsStack
<1>2. DefineState(id, ann, d, typed, tabs)
  BY DefineTables
<1>3. /\ d = Len(tables) /\ d \in 1..Len(tables) /\ typed.type # "function" /\ typed # NULL
      /\ typed.uid = unique_id /\ Len(tabs) = Len(tables)
      /\ \A e \in 1..Len(tables), y \in Names :
           tabs[e][y] = IF e = d /\ y = id THEN typed ELSE tables[e][y]
  BY <1>2 DEF DefineState
<1>4. PICK s, q : DefineParts(id, rhs, d, tabs, s, q)
  BY DefineHasParts
<1> DEFINE ty == RhsType(tabs, rhs)
           x == FinalItem(typed, ann, rhs, ty, mutable)
           a == AddrOf(tabs, d, id)
<1>5. /\ tables[d][id] = NULL /\ ~(ann = NULL /\ rhs = NULL) /\ tables' = Put(tables, d, id, x)
      /\ last'.kind = "define" /\ last'.ann = ann /\ last'.id = id /\ last'.rhs = rhs
      /\ pc' = "parse"
  BY DEF Defines, FinalItem
<1>6. rhs # NULL => ty \in Type
  BY <1>4 DEF DefineParts
<1> HIDE DEF ty
<1>7. /\ IsKnown(x) /\ x.sig.written = <<>> /\ x # NULL /\ IsItem(x, unique_id + 1)
      /\ x.uid = unique_id /\ (x.nilable => x.init)
  <2>1. ~(ann = NULL /\ rhs = NULL)
    BY <1>5
  <2>2. x = FinalItem(typed, ann, rhs, ty, mutable)
    OBVIOUS
  <2> HIDE DEF x
  <2> QED BY <1>2, <1>6, <2>1, <2>2, DefineItem
<1> HIDE DEF x
<1>8. /\ Len(tables') = Len(tables)
      /\ \A e \in 1..Len(tables), y \in Names :
           tables'[e][y] = IF e = d /\ y = id THEN x ELSE tables[e][y]
  <2>1. IsStack(tables, unique_id + 1)
    BY <1>1, StackGrows
  <2> QED BY <1>3, <1>5, <1>7, <2>1, PutIs
<1>9. a.uid = unique_id /\ AddrOf(tables', d, id) = a
  <2>1. tabs[d][id] = typed /\ tables'[d][id] = x
    BY <1>3, <1>8
  <2> QED BY <1>3, <1>7, <2>1 DEF AddrOf, Addr
<1> HIDE DEF a
<1>10. /\ s \in Seq(Instruction) /\ Declares(q, a) /\ q # <<>> /\ Emit(s \o q)
       /\ ~Labelled(last') => s \in Seq(Reads(tabs, IF rhs = NULL THEN {} ELSE RhsUses(rhs)))
  BY <1>4 DEF DefineParts, a
<1>11. SameVariable' /\ a \in declared' /\ declared \subseteq declared'
  BY <1>10, DeclarationCode
<1>12. ASSUME NEW e \in 1..Len(tables'), NEW y \in Names, tables'[e][y] # NULL
       PROVE  Stays(e, y) \/ Added(e, y)
  <2>1. e \in 1..Len(tables) /\ tables'[e][y] = IF e = d /\ y = id THEN x ELSE tables[e][y]
    BY <1>8, <1>12
  <2>2. CASE e = d /\ y = id
    <3>1. tables'[e][y] = x /\ AddrOf(tables', e, y) = a
      BY <1>9, <2>1, <2>2
    <3>2. 1..Len(x.sig.written) = {}
      BY <1>7
    <3> QED BY <1>7, <1>11, <3>1, <3>2 DEF Added
  <2>3. CASE ~(e = d /\ y = id)
    BY <1>12, <2>1, <2>3 DEF Stays
  <2> QED BY <2>2, <2>3
<1>13. CodeInv'
  BY <1>1, <1>5, <1>8, <1>11, <1>12, ItemsKept
<1>14. /\ FunctionAddrs \subseteq FunctionAddrs'
       /\ \A y \in Names : tables[GLOBAL][y] # NULL => tables'[GLOBAL][y].sig = tables[GLOBAL][y].sig
  <2>1. GLOBAL \in 1..Len(tables)
    BY <1>1 DEF GLOBAL
  <2>2. \A y \in Names : tables[GLOBAL][y] # NULL => Stays(GLOBAL, y)
    BY <1>5, <1>8, <2>1 DEF Stays
  <2> QED BY <1>1, <2>2, FunctionsStay
<1>15. DeclaredBeforeUse'
  <2>1. CASE Labelled(last') \/ NilableFromItself(last')
    BY <2>1 DEF DeclaredBeforeUse
  <2>2. CASE ~(Labelled(last') \/ NilableFromItself(last'))
    <3>1. s \in Seq(OldUse)
      BY <1>2, <1>5, <1>10, <2>2, DefineReadsOld
    <3> QED BY <1>9, <1>10, <1>14, <3>1, CodeInOrder
  <2> QED BY <2>1, <2>2
<1>16. StoredUnlessNil'
  <2>1. rhs # NULL => emitted' # <<>> /\ Last(emitted').op = "POPS"
    BY <1>4 DEF DefineParts
  <2> QED BY <1>5, <2>1 DEF StoredUnlessNil, Stored
<1>17. ArgumentsMatch' /\ EveryParameterPassed'
  <2>1. CASE rhs = NULL
    <3>1. Callee' = {}
      BY <1>5, <2>1 DEF Callee
    <3> QED BY <3>1 DEF ArgumentsMatch, EveryParameterPassed
  <2>2. CASE rhs # NULL
    <3> DEFINE sig == tabs[GLOBAL][rhs.f].sig
    <3>1. rhs.kind = "call" => tables'[GLOBAL][rhs.f].sig = sig
      <4> SUFFICES ASSUME rhs.kind = "call" PROVE tables'[GLOBAL][rhs.f].sig = sig
        OBVIOUS
      <4>1. rhs.f \in Names /\ IsFunction(tabs[GLOBAL][rhs.f])
        BY <1>4, <2>2 DEF DefineParts
      <4>2. GLOBAL \in 1..Len(tables)
        BY <1>1 DEF GLOBAL
      <4>3. ~(GLOBAL = d /\ rhs.f = id)
        BY <1>3, <4>1, <4>2 DEF IsFunction
      <4> QED BY <1>3, <1>8, <4>1, <4>2, <4>3
    <3>2. rhs.kind = "call" => Matches(sig, rhs.args) /\ Passes(sig, rhs.args, s)
      BY <1>4, <2>2 DEF DefineParts
    <3>3. /\ s \in Seq(Instruction) /\ q \in Seq(Instruction) /\ Moved(q) = {}
          /\ emitted' = s \o q
      BY <1>4 DEF DefineParts, Emit
    <3> HIDE DEF sig
    <3>4. Stores(rhs, sig, s, q)
      BY <1>5, <2>2, <3>1, <3>2, <3>3 DEF Stores
    <3> QED BY <3>4, RhsRight
  <2> QED BY <2>1, <2>2
<1> QED BY <1>11, <1>13, <1>15, <1>16, <1>17 DEF Right

\* A declaration.
LEMMA DefineRight ==
  ASSUME ParserInv, CodeInv, NEW mutable \in BOOLEAN, NEW id \in Names, NEW ann \in Types \union {NULL},
         NEW rhs \in Expressions \union Calls \union {NULL}, NEW eol, define(mutable, id, ann, rhs, eol)
  PROVE  (\E e : Fail(e)) \/ (CodeInv' /\ Right')
<1>1. Len(tables) \in Nat \ {0}
  BY DEF ParserInv, IsStack
<1>2. (\E e : Fail(e)) \/ \E d, typed, tabs, val :
                              Defines(mutable, id, ann, rhs, eol, d, typed, tabs, val)
  BY <1>1, DefineIs
<1> QED BY <1>2, DefinesRight

-----------------------------------------------------------------------------
(* Functions.                                                              *)

\* Where a name stands in a header, and the number of names before that.
PlacesOf(params, id) == {i \in 1..Len(params) : params[i].name = id}
UidOf(params, id) ==
  unique_id + Cardinality(ParamNames(SubSeq(params, 1, Min(PlacesOf(params, id)) - 1)))

\* The items of the parameters.
LEMMA ParamItems ==
  ASSUME unique_id \in Nat, NEW params \in Seq(Parameter), NEW id \in Names, NEW x,
         x = ParamScope(params)[id]
  PROVE  /\ PlacesOf(params, id) = {} <=> x = NULL
         /\ x # NULL => /\ IsKnown(x) /\ x.init /\ x.sig.written = <<>>
                        /\ x.uid = UidOf(params, id)
<1> DEFINE P == PlacesOf(params, id)
           u == UidOf(params, id)
           type == params[Max(P)].type.type
           y == [NewItem(u) EXCEPT !.init = TRUE, !.type = type]
<1>1. x = IF P = {} THEN NULL ELSE y
  BY DEF ParamScope, PlacesOf, UidOf
<1> SUFFICES ASSUME P # {}
             PROVE  y # NULL /\ IsKnown(y) /\ y.init /\ y.sig.written = <<>> /\ y.uid = u
  BY <1>1
<1>2. Len(params) \in Nat /\ P \in SUBSET (0..Len(params)) /\ P \in SUBSET Nat
  BY DEF PlacesOf
<1>3. Max(P) \in P /\ Min(P) \in P /\ \A k \in P : Min(P) <= k
  BY <1>2, MaxIsIn, MinIsLeast
<1>4. type \in KnownType
  <2>1. Max(P) \in 1..Len(params)
    BY <1>3 DEF PlacesOf
  <2> DEFINE par == params[Max(P)]
  <2>2. par \in Parameter
    BY <2>1
  <2> HIDE DEF par
  <2>3. par.type \in Type
    BY <2>2 DEF Parameter
  <2>4. par.type.type \in KnownType
    BY <2>3, TypeKnown
  <2> QED BY <2>4 DEF par
<1>5. u \in Nat
  <2> DEFINE m == Min(P)
  <2>1. m \in 1..Len(params) /\ params[m].name = id
    BY <1>3 DEF PlacesOf
  <2>2. \A i \in 1..(m - 1) : params[i].name # params[m].name
    <3> SUFFICES ASSUME NEW i \in 1..(m - 1), params[i].name = id PROVE FALSE
      BY <2>1
    <3>1. i \in P /\ i < m
      <4> HIDE DEF m
      <4>1. i \in 1..Len(params) /\ i < m
        BY <1>2, <2>1
      <4> QED BY <4>1 DEF PlacesOf
    <3>2. m <= i
      BY <1>3, <3>1
    <3> HIDE DEF m
    <3> QED BY <2>1, <3>1, <3>2
  <2> HIDE DEF m
  <2>3. Cardinality(ParamNames(SubSeq(params, 1, m - 1))) \in Nat
    BY <2>1, <2>2, ParamUid
  <2> QED BY <2>3 DEF UidOf, m
<1> HIDE DEF P, u, type
<1> DEFINE a == NewItem(u)
           b == [a EXCEPT !.init = TRUE]
<1>6. a \in Item /\ a.sig = NoSignature /\ a.uid = u
  BY <1>5, NewIsItem
<1>7. y = [b EXCEPT !.type = type]
  OBVIOUS
<1> HIDE DEF y, a
<1>8. b \in Item /\ b.sig = NoSignature /\ b.uid = u /\ b.init
  BY <1>6, SetInit
<1> HIDE DEF b
<1>9. y \in Item /\ y.sig = b.sig /\ y.uid = b.uid /\ y.type = type /\ y.init = b.init
  <2>1. b \in Item
    BY <1>8
  <2> QED BY <1>4, <1>7, <2>1, SetType
<1>10. y \in Item /\ y.sig = NoSignature /\ y.uid = u /\ y.type \in KnownType /\ y.init
  BY <1>4, <1>8, <1>9
<1>11. u + 1 \in Nat /\ u < u + 1
  BY <1>5
<1>12. IsKnown(y) /\ y.sig.written = <<>> /\ y # NULL
  <2>1. y.uid < u + 1
    BY <1>10, <1>11
  <2> QED BY <1>10, <1>11, <2>1, VariableKnown
<1> QED BY <1>10, <1>12

\* Parameters with names of their own have uids of their own.
LEMMA ParamsApart ==
  ASSUME unique_id \in Nat, NEW params \in Seq(Parameter),
         \A i, j \in 1..Len(params) : params[i].name = params[j].name => i = j,
         NEW i \in 1..Len(params), NEW j \in 1..Len(params), i # j
  PROVE  UidOf(params, params[i].name) # UidOf(params, params[j].name)
<1>1. ASSUME NEW k \in 1..Len(params), NEW m \in 1..Len(params), k < m
      PROVE  UidOf(params, params[k].name) # UidOf(params, params[m].name)
  <2> DEFINE pre == SubSeq(params, 1, m - 1)
             low == SubSeq(params, 1, k - 1)
  <2>1. \A h \in 1..Len(params) : PlacesOf(params, params[h].name) = {h}
    BY DEF PlacesOf
  <2>2. \A h \in 1..Len(params) : Min(PlacesOf(params, params[h].name)) = h
    <3> SUFFICES ASSUME NEW h \in 1..Len(params) PROVE Min({h}) = h
      BY <2>1
    <3>1. {h} \in SUBSET Nat /\ {h} # {}
      OBVIOUS
    <3> QED BY <3>1, MinIsLeast
  <2>3. /\ UidOf(params, params[k].name) = unique_id + Cardinality(ParamNames(low))
        /\ UidOf(params, params[m].name) = unique_id + Cardinality(ParamNames(pre))
    BY <2>2 DEF UidOf
  <2>4. /\ Len(params) \in Nat /\ k \in 1..(m - 1)
        /\ \A h \in 1..(m - 1) : h \in 1..Len(params) /\ params[h] \in Parameter
    BY <1>1
  <2>5. /\ pre \in Seq(Parameter) /\ Len(pre) = m - 1
        /\ \A h \in 1..(m - 1) : pre[h] = params[h]
    BY <2>4, SubSeqProperties
  <2>6. SubSeq(pre, 1, k - 1) = low
    BY <2>4, <2>5
  <2> HIDE DEF pre
  <2>7. \A h \in 1..(k - 1) : pre[h].name # pre[k].name
    <3> SUFFICES ASSUME NEW h \in 1..(k - 1), pre[h].name = pre[k].name PROVE FALSE
      OBVIOUS
    <3>1. h \in 1..(m - 1) /\ h # k
      BY <2>4
    <3> QED BY <2>4, <2>5, <3>1
  <2>8. /\ Cardinality(ParamNames(SubSeq(pre, 1, k - 1))) \in Nat
        /\ Cardinality(ParamNames(SubSeq(pre, 1, k - 1))) + 1 <= Cardinality(ParamNames(pre))
    <3>1. k \in 1..Len(pre)
      BY <2>4, <2>5
    <3> QED BY <2>5, <2>7, <3>1, ParamUid
  <2> DEFINE c == Cardinality(ParamNames(low))
             e == Cardinality(ParamNames(pre))
  <2>9. c \in Nat /\ e \in Nat /\ c + 1 <= e
    BY <2>5, <2>6, <2>8, NamesFinite
  <2>10. UidOf(params, params[k].name) = unique_id + c /\ UidOf(params, params[m].name) = unique_id + e
    BY <2>3
  <2> HIDE DEF c, e
  <2> QED BY <2>9, <2>10
<1>2. i < j \/ j < i
  OBVIOUS
<1> QED BY <1>1, <1>2

\* The code of the parameters, one after the other; a[i] is the variable of the
\* i-th one.
ParamInstrs(a, loops) == << code_generator_defvar(a, a), Instr("MOVE", a, a, loops) >>

\* The variables of the code are declared before they are written, each one once
\* where no two are the same.
MapsParams(c, a, i) ==
  /\ c \in Seq(Instruction)
  /\ \A k \in 1..Len(c) : \E j \in 1..i : c[k].addr = a[j] /\ c[k].want = a[j]
  /\ \A j \in 1..i : \E k \in 1..Len(c) : c[k].op = "DEFVAR" /\ c[k].addr = a[j]

DefinesOnce(c) ==
  \A k \in 1..Len(c) : \A l \in (k + 1)..Len(c) : c[l].op = "DEFVAR" => c[l].addr # c[k].addr

\* The two instructions of a parameter: one declares it, one stores its argument.
LEMMA ParamInstrsAre ==
  ASSUME NEW a \in Address, NEW loops \in Nat, NEW t, t = ParamInstrs(a, loops)
  PROVE  /\ t \in Seq(Instruction) /\ Len(t) = 2
         /\ t[1].addr = a /\ t[1].want = a /\ t[1].op = "DEFVAR"
         /\ t[2].addr = a /\ t[2].want = a /\ t[2].op # "DEFVAR"
<1> DEFINE x == code_generator_defvar(a, a)
           p == Instr("MOVE", a, a, loops)
<1>1. (loops > 0) \in BOOLEAN
  OBVIOUS
<1>2. /\ x \in Instruction /\ x.addr = a /\ x.want = a /\ x.op = "DEFVAR"
  BY DEF code_generator_defvar, Instruction
<1>3. /\ p \in Instruction /\ p.addr = a /\ p.want = a /\ p.op # "DEFVAR"
  BY <1>1 DEF Instr, Instruction
<1>4. t = <<x, p>>
  BY DEF ParamInstrs
<1> HIDE DEF x, p
<1> QED BY <1>2, <1>3, <1>4

TwoMore(c, s, t) ==
  /\ Len(s) \in Nat /\ c \in Seq(Instruction) /\ Len(c) = Len(s) + 2
  /\ \A k \in 1..Len(s) : c[k] = s[k]
  /\ c[Len(s) + 1] = t[1] /\ c[Len(s) + 2] = t[2]

\* Two more instructions, by their places.
LEMMA ConcatTwo ==
  ASSUME NEW s \in Seq(Instruction), NEW t \in Seq(Instruction), Len(t) = 2
  PROVE  TwoMore(s \o t, s, t)
<1> DEFINE n == Len(s)
           c == s \o t
           S == Instruction
<1>1. n \in Nat
  OBVIOUS
<1> HIDE DEF S
<1>2. /\ c \in Seq(S) /\ Len(c) = n + 2
      /\ \A k \in 1..(n + 2) : c[k] = IF k <= n THEN s[k] ELSE t[k - n]
  <2>1. /\ c \in Seq(S) /\ Len(c) = Len(s) + Len(t)
        /\ \A k \in 1..(Len(s) + Len(t)) : c[k] = IF k <= Len(s) THEN s[k] ELSE t[k - Len(s)]
    BY ConcatProperties, Zenon DEF S
  <2> HIDE DEF c
  <2> QED BY <2>1
<1> HIDE DEF n, c
<1>3. /\ n + 1 \in 1..(n + 2) /\ ~(n + 1 <= n) /\ (n + 1) - n = 1
      /\ n + 2 \in 1..(n + 2) /\ ~(n + 2 <= n) /\ (n + 2) - n = 2
      /\ \A k \in 1..n : k \in 1..(n + 2) /\ k <= n
  BY <1>1
<1>4. TwoMore(c, s, t)
  BY <1>1, <1>2, <1>3 DEF TwoMore, n, S
<1> QED BY <1>4 DEF c

\* One more parameter.
LEMMA MapsNext ==
  ASSUME NEW m \in Nat, NEW a \in [1..m -> Address], NEW i \in 1..m, NEW c, MapsParams(c, a, i - 1),
         NEW loops \in Nat, NEW t, t = ParamInstrs(a[i], loops)
  PROVE  /\ MapsParams(c \o t, a, i)
         /\ DefinesOnce(c) /\ (\A j \in 1..(i - 1) : a[j] # a[i]) => DefinesOnce(c \o t)
<1> DEFINE n == Len(c)
           r == c \o t
           b == a[i]
<1>1. /\ c \in Seq(Instruction)
      /\ \A k \in 1..n : \E j \in 1..(i - 1) : c[k].addr = a[j] /\ c[k].want = a[j]
      /\ \A j \in 1..(i - 1) : \E k \in 1..n : c[k].op = "DEFVAR" /\ c[k].addr = a[j]
  BY DEF MapsParams
<1>2. b \in Address /\ t = ParamInstrs(b, loops)
  OBVIOUS
<1>3. /\ t \in Seq(Instruction) /\ Len(t) = 2
      /\ t[1].addr = b /\ t[1].want = b /\ t[1].op = "DEFVAR"
      /\ t[2].addr = b /\ t[2].want = b /\ t[2].op # "DEFVAR"
  <2> HIDE DEF b
  <2> QED BY <1>2, ParamInstrsAre
<1>4. /\ n \in Nat /\ r \in Seq(Instruction) /\ Len(r) = n + 2
      /\ \A k \in 1..n : r[k] = c[k]
      /\ r[n + 1] = t[1] /\ r[n + 2] = t[2]
  <2>1. c \in Seq(Instruction) /\ t \in Seq(Instruction) /\ Len(t) = 2
    BY <1>1, <1>3
  <2>2. r = c \o t
    OBVIOUS
  <2> HIDE DEF r
  <2>3. TwoMore(r, c, t)
    BY <2>1, <2>2, ConcatTwo
  <2> QED BY <2>3 DEF TwoMore
<1> HIDE DEF n, r
<1>5. \A k \in 1..Len(r) : k \in 1..n \/ k = n + 1 \/ k = n + 2
  BY <1>4
<1>6. ASSUME NEW k \in 1..Len(r) PROVE \E j \in 1..i : r[k].addr = a[j] /\ r[k].want = a[j]
  <2>1. CASE k \in 1..n
    <3>1. PICK j \in 1..(i - 1) : c[k].addr = a[j] /\ c[k].want = a[j]
      BY <1>1, <2>1
    <3>2. j \in 1..i /\ r[k] = c[k]
      BY <1>4, <2>1
    <3> QED BY <3>1, <3>2
  <2>2. CASE k = n + 1 \/ k = n + 2
    <3>1. r[k].addr = b /\ r[k].want = b /\ i \in 1..i
      BY <1>3, <1>4, <2>2
    <3> QED BY <3>1
  <2> QED BY <1>5, <2>1, <2>2
<1>7. ASSUME NEW j \in 1..i PROVE \E k \in 1..Len(r) : r[k].op = "DEFVAR" /\ r[k].addr = a[j]
  <2>1. CASE j = i
    <3>1. n + 1 \in 1..Len(r) /\ r[n + 1].op = "DEFVAR" /\ r[n + 1].addr = a[j]
      BY <1>3, <1>4, <2>1
    <3> QED BY <3>1
  <2>2. CASE j # i
    <3>1. j \in 1..(i - 1)
      BY <2>2
    <3>2. PICK k \in 1..n : c[k].op = "DEFVAR" /\ c[k].addr = a[j]
      BY <1>1, <3>1
    <3>3. k \in 1..Len(r) /\ r[k] = c[k]
      BY <1>4
    <3> QED BY <3>2, <3>3
  <2> QED BY <2>1, <2>2
<1>8. MapsParams(r, a, i)
  BY <1>4, <1>6, <1>7 DEF MapsParams
<1>9. ASSUME DefinesOnce(c), \A j \in 1..(i - 1) : a[j] # a[i] PROVE DefinesOnce(r)
  <2> SUFFICES ASSUME NEW k \in 1..Len(r), NEW l \in (k + 1)..Len(r), r[l].op = "DEFVAR"
               PROVE  r[l].addr # r[k].addr
    BY DEF DefinesOnce
  <2>1. k \in 1..n /\ (l \in (k + 1)..n \/ l = n + 1)
    <3>1. l # n + 2
      BY <1>3, <1>4
    <3> QED BY <1>4, <3>1
  <2>2. CASE l \in (k + 1)..n
    <3>1. r[k] = c[k] /\ r[l] = c[l]
      <4>1. l \in 1..n
        BY <1>4, <2>1, <2>2
      <4> QED BY <1>4, <2>1, <4>1
    <3> QED BY <1>9, <2>1, <2>2, <3>1 DEF DefinesOnce, n
  <2>3. CASE l = n + 1
    <3>1. PICK j \in 1..(i - 1) : c[k].addr = a[j]
      BY <1>1, <2>1
    <3>2. r[k] = c[k] /\ r[l].addr = b
      BY <1>3, <1>4, <2>1, <2>3
    <3> QED BY <1>9, <3>1, <3>2
  <2> QED BY <2>1, <2>2, <2>3
<1> QED BY <1>8, <1>9 DEF r

\* The addresses of the parameters.
ParamAddrs(tabs, params, a) ==
  /\ a \in [1..Len(params) -> Address]
  /\ \A i \in 1..Len(params) : /\ tabs[Len(tabs)][params[i].name] # NULL
                               /\ a[i] = AddrOf(tabs, Len(tabs), params[i].name)

\* The code in front of a body maps the parameters in their order, and declares each
\* once if their addresses differ.
LEMMA ParamCodeIs ==
  ASSUME NEW n, NEW tabs, IsStack(tabs, n), NEW params, Len(params) \in Nat, NEW loops \in Nat,
         NEW a, ParamAddrs(tabs, params, a)
  PROVE  /\ MapsParams(ParamCode(tabs, params, loops), a, Len(params))
         /\ (\A i, j \in 1..Len(params) : a[i] = a[j] => i = j) =>
              DefinesOnce(ParamCode(tabs, params, loops))
<1> DEFINE m == Len(params)
           X == Seq(Instruction)
           map(i) == code_generator_param_map(tabs, Len(tabs), params[i].name, loops)
           step == [i \in 1..m |-> [c \in X |-> c \o ParamInstrs(a[i], loops)]]
           code == CHOOSE g : g = [i \in 0..m |-> IF i = 0 THEN <<>> ELSE g[i - 1] \o map(i)]
<1>1. m \in Nat /\ <<>> \in X /\ a \in [1..m -> Address]
  BY DEF ParamAddrs
<1>2. ParamCode(tabs, params, loops) = code[m]
  BY DEF ParamCode
<1>3. \A i \in 1..m : map(i) = ParamInstrs(a[i], loops)
  <2> SUFFICES ASSUME NEW i \in 1..m PROVE map(i) = ParamInstrs(a[i], loops)
    OBVIOUS
  <2>1. VarAddr(tabs, params[i].name, FALSE) = AddrOf(tabs, Len(tabs), params[i].name)
    BY DeclaredHere DEF ParamAddrs
  <2>2. a[i] = AddrOf(tabs, Len(tabs), params[i].name)
    BY DEF ParamAddrs
  <2> QED BY <2>1, <2>2 DEF code_generator_param_map, ParamInstrs
<1>4. \A i \in 1..m : a[i] \in Address /\ ParamInstrs(a[i], loops) \in X
  BY <1>1, ParamInstrsAre
<1> HIDE DEF m, map
<1>5. \A c, t \in X : c \o t \in X
  OBVIOUS
<1> HIDE DEF X
<1>6. step \in [1..m -> [X -> X]]
  BY <1>4, <1>5
<1> HIDE DEF step
<1>7. PICK f \in [0..m -> X] : f[0] = <<>> /\ \A i \in 1..m : f[i] = step[i][f[i - 1]]
  <2>1. \E f : IsLoop(f, m, X, <<>>, step)
    BY <1>1, <1>6, LoopExists
  <2> QED BY <2>1 DEF IsLoop
<1>8. \A i \in 1..m : f[i] = f[i - 1] \o map(i)
  <2> SUFFICES ASSUME NEW i \in 1..m PROVE f[i] = f[i - 1] \o map(i)
    OBVIOUS
  <2>1. i - 1 \in 0..m
    BY <1>1
  <2>2. f[i - 1] \in X
    BY <1>7, <2>1
  <2>3. step[i][f[i - 1]] = f[i - 1] \o ParamInstrs(a[i], loops)
    BY <2>2 DEF step
  <2> QED BY <1>3, <1>7, <2>3
<1>9. f = [i \in 0..m |-> IF i = 0 THEN <<>> ELSE f[i - 1] \o map(i)]
  <2>1. ASSUME NEW i \in 0..m PROVE f[i] = IF i = 0 THEN <<>> ELSE f[i - 1] \o map(i)
    <3>1. i = 0 \/ i \in 1..m
      BY <1>1
    <3>2. i \in 1..m => i # 0
      BY <1>1
    <3> QED BY <1>7, <1>8, <3>1, <3>2, Zenon
  <2>2. f = [i \in 0..m |-> f[i]]
    BY <1>7
  <2> QED BY <2>1, <2>2, Zenon
<1>10. code = [i \in 0..m |-> IF i = 0 THEN <<>> ELSE code[i - 1] \o map(i)]
  BY <1>9
<1> HIDE DEF code
<1>11. code[0] = <<>> /\ \A i \in 1..m : code[i] = code[i - 1] \o ParamInstrs(a[i], loops)
  <2>1. 0 \in 0..m /\ \A i \in 1..m : i \in 0..m /\ i # 0
    BY <1>1
  <2>2. \A i \in 0..m : code[i] = IF i = 0 THEN <<>> ELSE code[i - 1] \o map(i)
    BY <1>10, Zenon
  <2>3. code[0] = <<>>
    BY <2>1, <2>2
  <2>4. \A i \in 1..m : code[i] = code[i - 1] \o map(i)
    BY <2>1, <2>2
  <2> QED BY <1>3, <2>3, <2>4
<1> DEFINE Apart == \A i, j \in 1..m : a[i] = a[j] => i = j
           Good(i) == MapsParams(code[i], a, i) /\ (Apart => DefinesOnce(code[i]))
           S == {i \in 0..m : Good(i)}
<1>12. 0 \in S
  <2>1. code[0] \in Seq(Instruction) /\ 1..Len(code[0]) = {} /\ 1..0 = {}
    BY <1>11
  <2>2. Good(0)
    BY <2>1 DEF MapsParams, DefinesOnce
  <2> QED BY <1>1, <2>2
<1>13. ASSUME NEW i \in 1..m, i - 1 \in S PROVE i \in S
  <2> DEFINE c == code[i - 1]
             t == ParamInstrs(a[i], loops)
  <2>1. MapsParams(c, a, i - 1) /\ (Apart => DefinesOnce(c))
    BY <1>13
  <2>2. Apart => \A j \in 1..(i - 1) : a[j] # a[i]
    <3> SUFFICES ASSUME Apart, NEW j \in 1..(i - 1), a[j] = a[i] PROVE FALSE
      OBVIOUS
    <3>1. j \in 1..m /\ j # i
      BY <1>1
    <3> QED BY <3>1
  <2> HIDE DEF c, Apart
  <2>3. /\ MapsParams(c \o t, a, i)
        /\ DefinesOnce(c) /\ (\A j \in 1..(i - 1) : a[j] # a[i]) => DefinesOnce(c \o t)
    BY <1>1, <2>1, MapsNext
  <2>4. code[i] = c \o t
    BY <1>11 DEF c
  <2>5. Good(i)
    BY <2>1, <2>2, <2>3, <2>4
  <2> QED BY <1>1, <2>5
<1> HIDE DEF S
<1>14. \A i \in 0..m : i \in S
  BY <1>1, <1>12, <1>13, UpTo
<1>15. m \in S
  BY <1>1, <1>14
<1>16. Good(m)
  BY <1>15 DEF S
<1> QED BY <1>2, <1>16 DEF m

\* A header without a repeated name: as many names as parameters.
LEMMA NamesApart ==
  ASSUME NEW params \in Seq(Parameter), ~(Cardinality(ParamNames(params)) < Len(params))
  PROVE  \A i, j \in 1..Len(params) : params[i].name = params[j].name => i = j
<1> DEFINE n == Len(params)
           nm == [i \in 1..n |-> params[i].name]
           T == ParamNames(params)
<1>1. n \in Nat /\ IsFiniteSet(1..n) /\ Cardinality(1..n) = n
  <2>1. n \in Nat
    OBVIOUS
  <2> HIDE DEF n
  <2>2. IsFiniteSet(1..n) /\ Cardinality(1..n) = IF 1 > n THEN 0 ELSE n - 1 + 1
    BY <2>1, FS_Interval
  <2> QED BY <2>1, <2>2
<1>2. T = {params[i].name : i \in 1..n}
  BY DEF ParamNames
<1>3. Cardinality(T) \in Nat /\ ~(Cardinality(T) < n)
  BY NamesFinite
<1> HIDE DEF n, T
<1>4. nm \in Surjection(1..n, T)
  BY <1>2 DEF Surjection
<1>5. \A i \in 1..n : nm[i] = params[i].name
  OBVIOUS
<1> HIDE DEF nm
<1>6. /\ Cardinality(T) <= Cardinality(1..n)
      /\ Cardinality(T) = Cardinality(1..n) <=> nm \in Injection(1..n, T)
  BY <1>1, <1>4, FS_Surjection
<1>7. nm \in Injection(1..n, T)
  BY <1>1, <1>3, <1>6
<1>8. \A i, j \in 1..n : nm[i] = nm[j] => i = j
  BY <1>7 DEF Injection, IsInjective
<1> QED BY <1>5, <1>8 DEF n

\* The scope and the addresses of the parameters.
LEMMA ParamAddrsAre ==
  ASSUME unique_id \in Nat, NEW n \in Nat, NEW tabs, IsStack(tabs, n),
         NEW params \in Seq(Parameter), \A i \in 1..Len(params) : params[i].name \in Names,
         tabs[Len(tabs)] = ParamScope(params)
  PROVE  \E a : /\ ParamAddrs(tabs, params, a)
                /\ ~(Cardinality(ParamNames(params)) < Len(params)) =>
                     \A i, j \in 1..Len(params) : a[i] = a[j] => i = j
<1> DEFINE m == Len(params)
           a == [i \in 1..m |-> AddrOf(tabs, Len(tabs), params[i].name)]
<1>1. /\ \A i \in 1..m : a[i] = AddrOf(tabs, Len(tabs), params[i].name)
      /\ a = [i \in 1..m |-> a[i]]
  OBVIOUS
<1> HIDE DEF a
<1>2. ASSUME NEW i \in 1..m
      PROVE  /\ tabs[Len(tabs)][params[i].name] # NULL
             /\ a[i] \in Address /\ a[i].uid = UidOf(params, params[i].name)
  <2> DEFINE id == params[i].name
             x == tabs[Len(tabs)][id]
  <2>1. id \in Names /\ x = ParamScope(params)[id]
    OBVIOUS
  <2>2. PlacesOf(params, id) # {}
    BY DEF PlacesOf
  <2>3. a[i] = AddrOf(tabs, Len(tabs), id)
    BY <1>1
  <2> HIDE DEF id
  <2>4. x # NULL /\ x.uid = UidOf(params, id)
    BY <2>1, <2>2, ParamItems
  <2>5. Len(tabs) \in 1..Len(tabs)
    BY DEF IsStack
  <2>6. AddrOf(tabs, Len(tabs), id) \in Address
    BY <2>1, <2>4, <2>5, AddrType
  <2>7. AddrOf(tabs, Len(tabs), id).uid = x.uid
    BY DEF AddrOf, Addr
  <2> QED BY <2>3, <2>4, <2>6, <2>7 DEF id
<1>3. ParamAddrs(tabs, params, a)
  BY <1>1, <1>2 DEF ParamAddrs
<1>4. ASSUME ~(Cardinality(ParamNames(params)) < m)
      PROVE  \A i, j \in 1..m : a[i] = a[j] => i = j
  <2>1. \A i, j \in 1..m : params[i].name = params[j].name => i = j
    BY <1>4, NamesApart
  <2> SUFFICES ASSUME NEW i \in 1..m, NEW j \in 1..m, a[i] = a[j], i # j PROVE FALSE
    OBVIOUS
  <2>2. UidOf(params, params[i].name) # UidOf(params, params[j].name)
    BY <2>1, ParamsApart
  <2>3. a[i].uid = UidOf(params, params[i].name) /\ a[j].uid = UidOf(params, params[j].name)
    BY <1>2
  <2> QED BY <2>2, <2>3
<1> QED BY <1>3, <1>4

\* The stack with the scope of the parameters on top.
HasPushed(app, tabs, tab, n) ==
  /\ IsStack(app, n) /\ Len(app) = Len(tabs) + 1 /\ app[Len(tabs) + 1] = tab
  /\ \A d \in 1..Len(tabs) : app[d] = tabs[d]

\* Pushing a table keeps the tables well formed.
LEMMA TablePushed ==
  ASSUME NEW n, NEW tabs, IsStack(tabs, n), NEW tab, IsTable(tab, n)
  PROVE  HasPushed(Append(tabs, tab), tabs, tab, n)
<1> DEFINE S == {tabs[d] : d \in 1..Len(tabs)} \union {tab}
           app == Append(tabs, tab)
<1>1. tab \in S /\ \A d \in 1..Len(tabs) : tabs[d] \in S
  OBVIOUS
<1> HIDE DEF S
<1>2. tabs \in Seq(S) /\ Len(tabs) \in Nat
  BY <1>1, StackIsSeq DEF IsStack
<1>3. /\ \A d \in 1..Len(tabs) : app[d] = tabs[d]
      /\ app[Len(tabs) + 1] = tab
  BY <1>1, <1>2, AppendProperties
<1> QED BY <1>3, StackPush DEF HasPushed

\* The code of a header: it declares the variables of its parameters.
LEMMA HeaderCode ==
  ASSUME NEW c, NEW a, NEW m, MapsParams(c, a, m), Emit(c), last'.kind = "func",
         ~RepeatedParam(last') => DefinesOnce(c)
  PROVE  /\ SameVariable' /\ DeclaredBeforeUse' /\ declared \subseteq declared'
         /\ \A j \in 1..m : a[j] \in declared'
<1>1. /\ emitted' = c
      /\ declared' = declared \union {c[i].addr : i \in {j \in 1..Len(c) : c[j].op = "DEFVAR"}}
  BY DEF Emit
<1>2. /\ \A k \in 1..Len(c) : \E j \in 1..m : c[k].addr = a[j] /\ c[k].want = a[j]
      /\ \A j \in 1..m : \E k \in 1..Len(c) : c[k].op = "DEFVAR" /\ c[k].addr = a[j]
  BY DEF MapsParams
<1>3. \A j \in 1..m : a[j] \in declared'
  BY <1>1, <1>2
<1>4. SameVariable'
  BY <1>1, <1>2 DEF SameVariable
<1>5. DeclaredBeforeUse'
  <2> SUFFICES ASSUME ~RepeatedParam(last'), NEW i \in 1..Len(c)
               PROVE  /\ c[i].addr \in declared'
                      /\ \A j \in (i + 1)..Len(c) : c[j].op = "DEFVAR" => c[j].addr # c[i].addr
    BY <1>1 DEF DeclaredBeforeUse
  <2>1. c[i].addr \in declared'
    BY <1>2, <1>3
  <2> QED BY <2>1 DEF DefinesOnce
<1> QED BY <1>1, <1>3, <1>4, <1>5

\* A function definition, to the { of its body.
LEMMA FuncRight ==
  ASSUME ParserInv, CodeInv, NEW f \in Functions, NEW eol, func(f, eol)
  PROVE  CodeInv' /\ Right'
<1> DEFINE params == tables[GLOBAL][f].sig.written
           tabs == Append(tables, ParamScope(params))
           c == ParamCode(tabs, params, for_open)
           n == unique_id + Cardinality(ParamNames(params))
<1>1. /\ IsFunction(tables[GLOBAL][f]) /\ tables' = add_scope(tabs) /\ Emit(c)
      /\ last' = [kind |-> "func", params |-> params, eol |-> eol] /\ pc' = "parse"
  BY DEF func, InStatement, Parsing
<1>2. /\ unique_id \in Nat /\ IsStack(tables, unique_id) /\ for_open \in Nat
      /\ Len(tables) \in Nat \ {0} /\ GLOBAL \in 1..Len(tables)
  BY CountersType DEF ParserInv, IsStack, GLOBAL
<1>3. params \in Seq(Parameter) /\ \A i \in 1..Len(params) : params[i].name \in Names
  <2>1. f \in Names /\ tables[GLOBAL][f] # NULL
    BY <1>1, ParserAssumption DEF IsFunction
  <2>2. params \in Seq(Parameter)
    BY <1>2, <2>1 DEF IsStack, IsTable, IsItem
  <2> QED BY <2>1, <2>2 DEF CodeInv, NamedParams
<1> HIDE DEF params
<1>4. n \in Nat /\ unique_id <= n
  BY <1>2, <1>3, NamesFinite
<1>5. IsTable(ParamScope(params), n)
  BY <1>2, <1>3, ParamTable
<1> HIDE DEF n
<1>6. /\ IsStack(tabs, n) /\ Len(tabs) = Len(tables) + 1 /\ tabs[Len(tables) + 1] = ParamScope(params)
      /\ \A d \in 1..Len(tables) : tabs[d] = tables[d]
  <2>1. IsStack(tables, n)
    BY <1>2, <1>4, StackGrows
  <2> DEFINE tab == ParamScope(params)
  <2>2. tabs = Append(tables, tab) /\ IsTable(tab, n)
    BY <1>5
  <2> HIDE DEF tab, tabs
  <2>3. HasPushed(tabs, tables, tab, n)
    BY <2>1, <2>2, TablePushed
  <2> QED BY <2>3 DEF HasPushed, tab
<1> HIDE DEF tabs
<1>7. PICK a : /\ ParamAddrs(tabs, params, a)
               /\ ~(Cardinality(ParamNames(params)) < Len(params)) =>
                    \A i, j \in 1..Len(params) : a[i] = a[j] => i = j
  BY <1>2, <1>3, <1>4, <1>6, ParamAddrsAre
<1>8. /\ MapsParams(c, a, Len(params))
      /\ (\A i, j \in 1..Len(params) : a[i] = a[j] => i = j) => DefinesOnce(c)
  <2>1. Len(params) \in Nat
    BY <1>3
  <2> QED BY <1>2, <1>6, <1>7, <2>1, ParamCodeIs
<1>9. ~RepeatedParam(last') => DefinesOnce(c)
  <2>1. ~RepeatedParam(last') => ~(Cardinality(ParamNames(params)) < Len(params))
    BY <1>1 DEF RepeatedParam
  <2> QED BY <1>7, <1>8, <2>1
<1> HIDE DEF c
<1>10. /\ SameVariable' /\ DeclaredBeforeUse' /\ declared \subseteq declared'
       /\ \A j \in 1..Len(params) : a[j] \in declared'
  <2>1. last'.kind = "func"
    BY <1>1
  <2> QED BY <1>1, <1>8, <1>9, <2>1, HeaderCode
<1>11. /\ Len(tables') = Len(tabs) + 1 /\ \A e \in 1..Len(tabs) : tables'[e] = tabs[e]
       /\ \A e \in 1..(Len(tabs) + 1), y \in Names : tables'[e][y] # NULL => e \in 1..Len(tabs)
  BY <1>1, <1>6, ScopeAdded
<1>12. ASSUME NEW e \in 1..Len(tables'), NEW y \in Names, tables'[e][y] # NULL
       PROVE  Stays(e, y) \/ Added(e, y)
  <2>1. e \in 1..Len(tabs) /\ tables'[e] = tabs[e]
    BY <1>11, <1>12
  <2>2. CASE e \in 1..Len(tables)
    <3>1. tables'[e] = tables[e]
      BY <1>6, <2>1, <2>2
    <3> QED BY <1>12, <2>2, <3>1 DEF Stays
  <2>3. CASE e = Len(tabs)
    <3> DEFINE x == ParamScope(params)[y]
    <3>1. tables'[e][y] = x /\ tabs[Len(tabs)][y] = x /\ tables'[e] = tabs[Len(tabs)]
      BY <1>6, <2>1, <2>3
    <3>2. x # NULL
      BY <1>12, <3>1
    <3> HIDE DEF x
    <3>3. x = ParamScope(params)[y]
      BY DEF x
    <3>4. PlacesOf(params, y) # {} /\ IsKnown(x) /\ x.init /\ x.sig.written = <<>>
      BY <1>2, <1>3, <3>2, <3>3, ParamItems
    <3>5. PICK i \in 1..Len(params) : params[i].name = y
      BY <3>4 DEF PlacesOf
    <3>6. AddrOf(tables', e, y) = a[i]
      <4>1. a[i] = AddrOf(tabs, Len(tabs), y)
        BY <1>7, <3>5 DEF ParamAddrs
      <4> QED BY <2>3, <3>1, <4>1 DEF AddrOf
    <3>7. AddrOf(tables', e, y) \in declared'
      BY <1>10, <3>5, <3>6
    <3>8. 1..Len(x.sig.written) = {}
      BY <3>4
    <3> QED BY <3>1, <3>4, <3>7, <3>8 DEF Added
  <2>4. e \in 1..Len(tables) \/ e = Len(tabs)
    BY <1>2, <1>6, <2>1
  <2> QED BY <2>2, <2>3, <2>4
<1>13. CodeInv'
  <2>1. Len(tables') \in Nat \ {0}
    BY <1>2, <1>6, <1>11
  <2> QED BY <1>1, <1>10, <1>12, <2>1, ItemsKept
<1>14. last'.kind \notin {"call", "define", "assign"}
  BY <1>1
<1> QED BY <1>10, <1>13, <1>14, NoCall DEF Right

-----------------------------------------------------------------------------
(* The invariant holds in every state.                                     *)

\* add_builtins adds functions, and nothing has been generated yet.
LEMMA CodeInvInit == Init => CodeInv /\ Right
<1> SUFFICES ASSUME Init PROVE CodeInv /\ Right
  OBVIOUS
<1> DEFINE names == SetToSeq(DOMAIN Builtins)
           uid(id) == CHOOSE i \in 0..(Len(names) - 1) : names[i + 1] = id
           tab == [id \in Names |-> IF id \in DOMAIN Builtins
                                    THEN FunctionItem(uid(id), Builtins[id]) ELSE NULL]
<1>1. /\ IsFiniteSet(DOMAIN Builtins) /\ \A f \in DOMAIN Builtins : Builtins[f] \in Signature
      /\ \A f \in DOMAIN Builtins : ~(Builtins[f].frame /\ Builtins[f].variadic)
      /\ DOMAIN Builtins \subseteq Names \ Functions /\ Functions \subseteq Names
  BY ParserAssumption
<1>2. \A id \in DOMAIN Builtins : uid(id) \in Nat
  <2>1. \A id \in DOMAIN Builtins : \E i \in 0..(Len(names) - 1) : names[i + 1] = id
    BY <1>1, BuiltinUid
  <2>2. \A id \in DOMAIN Builtins : uid(id) \in 0..(Len(names) - 1)
    BY <2>1
  <2>3. Len(names) \in Nat
    BY <1>1, BuiltinUid
  <2> HIDE DEF uid, names
  <2> QED BY <2>2, <2>3
<1>3. tables = <<tab>>
  BY DEF Init
<1> HIDE DEF uid, names
<1>4. Len(tables) = 1 /\ tables[1] = tab
  BY <1>3
<1>5. ASSUME NEW id \in Names, tab[id] # NULL
      PROVE  /\ id \in DOMAIN Builtins /\ IsKnown(tab[id]) /\ IsFunction(tab[id])
  <2>1. id \in DOMAIN Builtins /\ tab[id] = FunctionItem(uid(id), Builtins[id])
    BY <1>5
  <2>2. IsKnown(FunctionItem(uid(id), Builtins[id])) /\ IsFunction(FunctionItem(uid(id), Builtins[id]))
    BY <1>1, <1>2, <2>1, FunctionKnown
  <2> QED BY <2>1, <2>2
<1> HIDE DEF tab
<1>6. KnownItems
  BY <1>4, <1>5 DEF KnownItems
<1>7. NamedParams
  BY <1>1, <1>4, <1>5 DEF NamedParams, GLOBAL
<1>8. AllDeclared
  BY <1>4, <1>5 DEF AllDeclared, GLOBAL
<1>9. emitted = <<>> /\ last = [kind |-> "none"]
  BY DEF Init
<1>10. CodeInv
  BY <1>6, <1>7, <1>8, <1>9 DEF CodeInv
<1>11. SameVariable /\ DeclaredBeforeUse
  BY <1>9 DEF SameVariable, DeclaredBeforeUse
<1>12. StoredUnlessNil
  BY <1>9 DEF StoredUnlessNil, Stored
<1>13. Callee = {}
  BY <1>9 DEF Callee
<1>14. ArgumentsMatch /\ EveryParameterPassed
  BY <1>13 DEF ArgumentsMatch, EveryParameterPassed
<1> QED BY <1>10, <1>11, <1>12, <1>14 DEF Right

\* A step that generates nothing and leaves the tables alone.
LEMMA QuietRight ==
  ASSUME ParserInv, CodeInv, Right, UNCHANGED <<tables, emitted, declared, last>>,
         pc' = pc \/ pc' # "declarations"
  PROVE  CodeInv' /\ Right'
<1>1. Right'
  BY RightKept
<1>2. CASE pc' # "declarations"
  <2>1. tables' = tables /\ declared \subseteq declared'
    OBVIOUS
  <2>2. CodeInv'
    BY <1>2, <2>1, SameItems
  <2> QED BY <1>1, <2>2
<1>3. CASE pc' = pc
  BY <1>1, <1>3 DEF CodeInv, KnownItems, NamedParams, AllDeclared
<1> QED BY <1>1, <1>2, <1>3

\* An error generates nothing.
LEMMA FailRight ==
  ASSUME ParserInv, CodeInv, Right, \E e : Fail(e)
  PROVE  CodeInv' /\ Right'
<1>1. UNCHANGED <<tables, emitted, declared, last>> /\ pc' \in {"failed", "crashed"}
  BY DEF Fail
<1> QED BY <1>1, QuietRight

\* Every step keeps the invariant, and keeps the promises.
LEMMA CodeInvNext == ParserInv /\ CodeInv /\ Right /\ [Next]_vars => CodeInv' /\ Right'
<1> SUFFICES ASSUME ParserInv, CodeInv, Right, [Next]_vars PROVE CodeInv' /\ Right'
  OBVIOUS
<1>1. CASE UNCHANGED vars
  <2>1. UNCHANGED <<tables, emitted, declared, last>> /\ pc' = pc
    BY <1>1 DEF vars
  <2> QED BY <2>1, QuietRight
<1>2. ASSUME NEW f \in Functions, Redeclaration(f) PROVE CodeInv' /\ Right'
  <2>1. UNCHANGED <<tables, emitted, declared, last>> /\ pc' = "failed"
    BY <1>2 DEF Redeclaration
  <2> QED BY <2>1, QuietRight
<1>3. ASSUME SecondPass \/ Eof PROVE CodeInv' /\ Right'
  <2>1. UNCHANGED <<tables, emitted, declared, last>> /\ pc' \in {"parse", "done"}
    BY <1>3 DEF SecondPass, Eof
  <2> QED BY <2>1, QuietRight
<1>4. ASSUME SameLine \/ Unexpected PROVE CodeInv' /\ Right'
  <2>1. \E e : Fail(e)
    BY <1>4 DEF SameLine, Unexpected
  <2> QED BY <2>1, FailRight
<1>5. ASSUME NEW eol \in BOOLEAN, NEW mutable \in BOOLEAN, NEW id \in Names,
             NEW ann \in Types \union {NULL}, NEW rhs \in Expressions \union Calls \union {NULL},
             define(mutable, id, ann, rhs, eol)
      PROVE  CodeInv' /\ Right'
  BY <1>5, DefineRight, FailRight
<1>6. ASSUME NEW eol \in BOOLEAN, NEW id \in Names, NEW rhs \in Expressions \union Calls,
             assign(id, rhs, eol)
      PROVE  CodeInv' /\ Right'
  BY <1>6, AssignRight, FailRight
<1>7. ASSUME NEW eol \in BOOLEAN, NEW f \in Names, NEW args \in Arguments, call(f, args, eol)
      PROVE  CodeInv' /\ Right'
  BY <1>7, CallRight, FailRight
<1>8. ASSUME NEW eol \in BOOLEAN, NEW cond \in Expressions, while(cond, eol) \/ IfExpr(cond, eol)
      PROVE  CodeInv' /\ Right'
  BY <1>8, WhileRight, IfExprRight, FailRight
<1>9. ASSUME NEW eol \in BOOLEAN, NEW id \in Names, IfLet(id, eol) PROVE CodeInv' /\ Right'
  BY <1>9, IfLetRight, FailRight
<1>10. ASSUME NEW eol \in BOOLEAN, NEW f \in Functions, func(f, eol) PROVE CodeInv' /\ Right'
  BY <1>10, FuncRight
<1>11. ASSUME NEW eol \in BOOLEAN, NEW value \in Expressions \union {NULL}, return(value, eol)
       PROVE  CodeInv' /\ Right'
  BY <1>11, ReturnRight, FailRight
<1>12. ASSUME NEW f \in Functions, NEW sig \in Signatures, func_header(f, sig)
       PROVE  CodeInv' /\ Right'
  BY <1>12, HeaderRight
<1>13. ASSUME Else \/ EndIf \/ EndWhile \/ EndFunc PROVE CodeInv' /\ Right'
  BY <1>13, EndRight, FailRight
<1> QED BY <1>1, <1>2, <1>3, <1>4, <1>5, <1>6, <1>7, <1>8, <1>9, <1>10, <1>11, <1>12, <1>13
        DEF Next

\* The promises hold of every statement of every program.
LEMMA CodeInvariant == Spec => [](CodeInv /\ Right)
BY CodeInvInit, CodeInvNext, ParserInvariant, PTL DEF Spec

-----------------------------------------------------------------------------
(* Theorems.                                                               *)

\* Whatever the nesting of scopes, the code of a statement names the variable
\* that the semantic check looked at: code_generator's search for the frame and
\* the uid of a variable agrees with id_is_defined, arg and if let.
THEOREM CodeNamesTheVariable == Spec => []SameVariable
<1>1. Right => SameVariable
  BY DEF Right
<1> QED BY <1>1, CodeInvariant, PTL

\* Every variable the code names has been declared by a DEFVAR printed before,
\* and is not declared once more in the code of the same statement.
THEOREM CodeDeclaresFirst == Spec => []DeclaredBeforeUse
<1>1. Right => DeclaredBeforeUse
  BY DEF Right
<1> QED BY <1>1, CodeInvariant, PTL

\* The code of a declaration or an assignment ends by storing the value, unless
\* it is nil that is assigned: define and the case TOKEN_ASS of expr_type.
THEOREM ValuesAreStored == Spec => []StoredUnlessNil
<1>1. Right => StoredUnlessNil
  BY DEF Right
<1> QED BY <1>1, CodeInvariant, PTL

\* arg_list, arg and arg_next accept a call only with the number of arguments,
\* the labels and the types of literals that the function's header asks for.
THEOREM CallsMatchHeaders == Spec => []ArgumentsMatch
<1>1. Right => ArgumentsMatch
  BY DEF Right
<1> QED BY <1>1, CodeInvariant, PTL

\* The code of an accepted call gives a value to each parameter of the function,
\* and to nothing else in its frame.
THEOREM ParametersArePassed == Spec => []EveryParameterPassed
<1>1. Right => EveryParameterPassed
  BY DEF Right
<1> QED BY <1>1, CodeInvariant, PTL
=============================================================================
