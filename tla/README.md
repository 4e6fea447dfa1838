# IFJ23 compiler: TLA+ models

The repository is a compiler from IFJ23, a subset of Swift, to the stack code
IFJcode23. It is one sequential process without persistence or concurrency. What
makes it hard to test is elsewhere: an automaton that reads characters with a few
global flags, an open-addressing hash table that moves its items, a precedence parser
that backtracks over line breaks, a statement parser whose flags are shared by all
nested blocks, and a code generator that looks names up a second time and prints
declarations ahead of the code around them.

## The system

    stdin -> lexer -> token buffer -> parser -> code generator -> stdout
                                       |  ^          |
                              expr()  <-  |          | looks names up again
                                          +-- scopes and symbol tables

| part | source | state | operations |
|---|---|---|---|
| symbol table | `symtable.c` | slots, size, count, deactivated, static uid counter; lists of parameters | init, search, insert, load check, resize, delete, dispose; add and search a parameter, set its fields |
| scopes | `scope.c` | stack of local tables above the global one | add, pop, two searches |
| expression parser | `expression.c`, `symstack.c` | symbol stack, first error, line-break flag, all-literals flag | one pass of `expr()`: shift, reduce, equal, error |
| token buffer | `token_buffer.c` | doubly linked list of tokens, a head and a runner | init, push, next, prev, get, pop, dispose |
| statement parser | `parser.c` | counters, flags, pointers to the items in use | one rule per non-terminal, in two passes |
| code generator | `code_generator.c` | open loops, loop buffer, parameter counter; labels numbered by the parser | one function per instruction pattern |
| lexer | `lexical_analyzer.c` | state function, unread character, `set_eol`, `is_final`, open comments, digits of an escape, two strings | `get_token`, one function per state |
| dynamic string | `dyn_string.c` | characters, length, allocated size | init, clear, append, copy, retract, compare |

The parser fills the token buffer first, reads it once for the function headers and
once for everything else. It calls `expr()` for expressions, the symbol tables for
names, and the generator, which searches the same tables again by name when it prints
a variable. All errors go up through the return values of the rules: the first error
ends the compilation.

What makes each part correct:

- lexer: finds the tokens of the text, each as long as possible, with its value and
  the information whether a line break precedes it, and always ends;
- dynamic string: characters and terminator lie in the allocated memory;
- token buffer: a sequence with a position, whatever moves the runner;
- symbol table: a dictionary from names to items whatever collides and whenever it
  grows; uids never repeat; every call ends;
- expression parser: accepts exactly the expressions, with the precedence and
  associativity of the language, ends where the expression ends, and emits code that
  runs without a type fault;
- statement parser with scopes: scopes and counters match the open blocks, the return
  and line-break rules hold in nested blocks;
- code generator: names the variable the checks looked at, declares it before its use
  and only once, stores every value that is assigned, numbers its labels without
  conflict, and its code executes the statements in the order of the program.

## Modules

| module | models | checked by |
|---|---|---|
| `DynString` | `dyn_string.c` as operators on characters and allocated size | `MCFrontend` |
| `Lexer` | `lexical_analyzer.c`; one operator per state function, one action per pass of the loop of `get_token` | `MCFrontend` |
| `TokenBuffer` | `token_buffer.c`: nodes with pointers, head, runner | `MCFrontend` |
| `TokenBufferAbs` | what `token_buffer.h` promises: a sequence and a position | refinement `BufferIsSequence` |
| `Frontend` | composes `Lexer` and `TokenBuffer` along `parse()`: filling, both passes, freeing | `MCFrontend` |
| `LexerProps` | the reference for the tokens of a text, the properties | `MCFrontend` |
| `Symtable` | `symtable.c`; one action per call, one per slot while `resize` copies | `MCSymtable` |
| `SymtableAbs` | what `symtable.h` promises: a set of name/uid pairs | refinement `ImplementsDictionary` |
| `Symtable_proofs` | proofs about `Symtable`: its items, counters and probing, the refinement | TLAPS |
| `TokenBuffer_proofs`, `Lexer_proofs` | proofs about `TokenBuffer` and `Lexer` | TLAPS |
| `Parser_proofs`, `ParserCode_proofs` | proofs about `Parser`: its blocks; the code it generates and its calls | TLAPS |
| `ControlFlow_proofs` | proofs about `ControlFlow`: the labels of the output and the loop buffer | TLAPS |
| `ControlFlowRun_proofs` | proofs about `ControlFlow`: the variables and frames of the machine that runs the output | TLAPS |
| `Induction_proofs` | induction up to a number and the states of a loop, for the proofs above | TLAPS |
| `Expression` | `expr()` with the symbol stack and the runner of the token buffer; one action per pass of its loop | `MCExpression` |
| `ExpressionProps` | the reference grammar, the stack machine, the properties | `MCExpression` |
| `Scope` | the searches of `scope.c` as operators on a sequence of tables | `MCParser` |
| `CodeGenerator` | naming of variables, DEFVAR and the loop buffer | `MCParser` |
| `Parser` | both passes of `parser.c`, with `Scope`, `CodeGenerator` and the parameter lists of `symtable.c` | `MCParser` |
| `ControlFlow` | blocks of `parser.c` with the labels, frames and loop buffer of `code_generator.c`, and the machine that runs the output | `MCControlFlow` |
| `SourceFlow` | in which order the statements of a program may be executed | refinement `FollowsSource` |

**Lexer and DynString.** The record `lex` holds the globals of the analyzer; a state
function maps it and a character to the new record. `Goto`, `Unread`, `Keep` and `Final`
are what the functions do in several lines each. The operators of one or two characters
share a table, and so do the six number states, which differ only in their edges. A
character is its ASCII code; texts are read one character at a time from families of
texts (`Texts`: for each position the characters that may stand there, and the text may
end anywhere). `atoi`, `strtod` and `pow` are given by what they compute; a double is
a decimal mantissa and exponent. `malloc` may fail wherever a string grows. NUL
characters and bytes above 127 are not among the inputs.

**TokenBuffer and Frontend.** A node has a token and two pointers, addresses count
upwards, `tb_pop` frees. Every step of the lexer and every move of the runner is an
action of `Frontend`; the second pass may move the runner by `tb_next` and `tb_prev` as
it likes. One `tb_push` may fail, which the code does not notice (`lost`).

**Symtable.** `items`, `size`, `count`, `deactivated` are the fields of `symtab_t`,
`uid` is the static counter of `item_init`, `error` and `found` what the last call
reported. A probing loop that has no end becomes the state `pc = "diverged"`, reading
past `primes[]` becomes `"undefined"`. The hash values before the modulo are
constants; `MCSymtable` gives those that `hash` and `hash2` compute for its names. In
`get_hash` and `symtable_search` the pass number multiplies the step each time, so the
offsets are 0, 0, 1, 3, 6, ... steps (`Probe`). For an odd size they repeat after
`size` passes, so looking at `size` of them decides whether the loop ends.

**Expression.** `Forms` are the kinds of input, `form` the one of the behaviour.
`input` holds the tokens read so far and `pos` the runner; a token is chosen when the
runner first reaches its position. One operator stands for each row
of the precedence table, and `==` and `<` for the comparisons, which have the same
checks. An identifier carries what `id_is_defined` finds. In `ExpressionProps` the emitted code
is executed on a stack of types; a nilable variable holds a value of its type or nil, so the
code has a set of outcomes (`FinalStacks`). Only a variable with `!` behind it holds a value for
certain: the generator emits nothing for `!`, and the language leaves it to the program. A field that the code never
sets (`is_literal` of an error symbol or of `E!`, `preceding_eol` of the bottom of the
stack) may have either value. Freeing a handle twice is `pc = "aborted"`, popping the
bottom of the stack `"crashed"`. `MaxDepth` bounds the stack and the code.

**Parser.** `blocks` is the chain of open rules; one action parses a statement, or the
head or the end of a block. `tables[1]` is the global table, the others the scopes; a
table is the dictionary that `SymtableAbs` promises. Inputs are chosen with `\E`: names,
types, right-hand sides, argument lists, whether the first token begins a line. The
type of an expression may be any that `expr()` returns. `emitted` holds the
instructions of the last statement: each has the variable it names, the one the
semantic check meant, and whether it went to the loop buffer. Dereferencing the empty
scope stack is `pc = "crashed"`. The item of a function keeps its parameters twice: as
the header writes them (`written`) and as `add_param` and the setters, which look a
parameter up by its name, leave them in the list (`params`).

**ControlFlow.** While `phase = "parse"` the actions are the statements and block ends
of `parser.c`, which append to `out` or, in a loop, to `print_buffer`; DEFVAR goes to
`out` at once. `source` records the program. At the end of the file the machine loads
`out`, rejecting a label that is defined twice or not at all, and executes it; `JUMPIFNEQS`
may go either way. An expression is one instruction, with the code of `??` behind it if it
has one; a variable is its frame and uid. `position` is the statement executed last: it,
the open calls and `source` are what `SourceFlow` speaks about. `out` begins with the prolog,
which prints the code of `ord` and `substring` as that of any function: a jump to the label behind
it, its own label, what it does (one instruction here, since the calls of `ControlFlow` go to
functions of the program), a return and the label behind it. The prolog's variables are not
in `out`.

## Runs

| run | question | bounds |
|---|---|---|
| `symtable_locals` | does a table that grows behave as a dictionary, does `resize` end? | sizes 11 and 23 of the code; 8 names, in two groups of 4 with any order within a group, which fills the table to the resize in many layouts |
| `symtable_limits` | counters, uids and types with deletions, failing `malloc`, the end of `primes[]` | sizes 3, 5, 7; 5 names, 6 items, 2 failing allocations, of items or of larger tables |
| `symtable_probing` (violation) | do the probing loops end? | as `symtable_locals` |
| `frontend` | are the tokens those of the text, with their line breaks; do strings fit, is the list a sequence, does reading end? | 22 families of texts of 2 to 15 characters: all printable characters, operators, comments to three levels, numbers, words and keywords, strings, escapes of up to 9 digits, multi-line strings with indentation; `DSTR_ALLOC_SIZE` 3 instead of 8, so that strings grow several times; failing allocations in five families |
| `lexer_lines`, `lexer_comments` (violations) | is every line break noticed, every closed comment closed? | as `frontend` |
| `expr` | are exactly the expressions accepted and translated right, does an expression end at the next statement, is accepted code type-correct, does `expr()` make progress? | lines of 6 of 9 tokens (two binary operators with three operands and a postfix operator, or one in parentheses); pages of 4 tokens, some of which may begin a line; 5 positions with operands of all types, nil and nilable variables also in parentheses, target none or Double |
| `expr_hang` (violation) | does `expr()` always end? | the pages of `expr` |
| `parser_blocks` | scopes, counters, names, declarations, returns, line breaks | 3 statements or block heads, one user function with five possible headers, one of which repeats a parameter's name, `write`, three names that may all shadow each other, six argument lists |
| `parser_nil` (violation) | is every assigned value stored? | as `parser_blocks` |
| `parser_loops` (violation) | is an argument declared in its call's frame? | as `parser_blocks` |
| `control_flow` | do labels resolve, is every variable declared exactly once where it is used, do the statements run in the program's order? | 4 statements or block heads, so loops in loops, an if with `??` in a loop in a function, a call in a loop; three functions, one with a parameter, one named END_ and the name of that one, one named END_ord; 2 open calls, so recursion |

Properties:

- `TokensRight`: the buffer holds the tokens that `LexerProps!Reference` finds in the
  whole text by longest match, and an error is reported exactly where it finds none.
  `LinesRight`: `preceding_eol` likewise. `StringsFit`: after every append, retract and copy.
  `BufferIsSequence`: the linked list refines `TokenBufferAbs` until it is freed.
  `LexerEnds`, `FirstPassEnds`: reading ends, also in what is not closed and after a token
  was lost.
- `Findable`, `ImplementsDictionary`: no stored name gets lost or doubled, seen from the
  slots and from the caller. `DivergesOnlyHalfFull` and `ResizeEnds` say where the
  endless probing cannot happen: below half load, and in `resize`. `CountAccurate` ties
  the two counters to the slots, also after allocations failed: an item that was not allocated
  stays counted for good, a table that could not grow exceeds its load by an item.
  `UidsDistinct` covers the names in the output, as far as they come from one table.
- `Sound`: accepted tokens form an expression of the reference grammar and the code is
  its postfix form. `Complete`: an expression followed by something that can follow it is
  accepted up to there. `Advances`: on one line every pass of the loop of `expr()` lowers
  a variant of tokens left, terminals, handles and symbols, so `expr()` ends. `TypeSafe`: the stack
  machine meets no type fault, whichever of the nilable variables are nil, and ends with one
  value of the reported type, nil only if the result is reported as nilable; the places where
  this fails are named (`NilLost`, below).
- `Balanced`: scope depth and counters equal what the open blocks need.
  `SameVariable`: generated names are the checked variables. `DeclaredBeforeUse`: DEFVAR
  comes first. `ArgumentsMatch`, `EveryParameterPassed`: an accepted call fits the header
  as it is written and passes the value of every parameter. `StoredUnlessNil`,
  `ReturnsChecked`, `OneStatementPerLine`.
- `LabelsResolve`: the machine accepts the output of exactly the programs without a function
  f beside one named END_f, where f may be `ord` or `substring`, and nothing stays in the loop
  buffer. `NoRedeclaration`, `DeclaredWhenUsed`:
  what static order in the output cannot show, because loops and calls repeat code.
  `FollowsSource`: the execution refines `SourceFlow`.

Every property has a mutant, an operator marked "Bug" before the definition it
replaces, under which TLC reports the property violated.

Deadlock is not checked: a client of the table may stop, and `expr()` and `parse()`
return; in `control_flow` a program that the exclusions below name may stop at a fault of
the machine. Fairness: `Expression`, the copying loop of `resize`, and filling, the first
pass and freeing in `Frontend` are sequential code that runs until it returns, hence weak
fairness of their steps; callers of the table, the source program and the second pass of
`Frontend`, whose length is the parser's affair, are free to stop.

## What the violations show

- `symtable_probing`: a probe path visits (size + 1) / 2 slots while 65% may be taken.
- `expr_hang`: after an error on an earlier line the runner is moved back over tokens
  that are then read again, e.g. ``let x = ) (`` followed by a line ``a b``.
- `lexer_lines`: `line_c` notes the line break for each character of the comment, so
  ``x = 1 //`` with nothing behind the slashes joins the next line to this one.
- `lexer_comments`: the state behind `*` consumes any character, so ``/* **/`` is not closed;
  in the same way ``//*`` in a comment does not open one.
- `parser_nil`: ``x = nil`` leaves the old value in `x`.
- `parser_loops`: ``while c { f(1) }`` prints the argument's DEFVAR before CREATEFRAME.

Exclusions in the properties name further behaviour that the models have:

- `UnwrapBefore`: the row of `!` in the table reduces always, so ``a! (b)`` is accepted
  and ``a!`` before an identifier on the next line is rejected.
- `NilLost`: the checks let nil reach an instruction that cannot take it. With ``a`` and ``b`` of
  type Int?, ``(a) + 1`` is accepted, since `process_parenthesis` makes a symbol that is not
  nilable, and so are ``a < b`` and ``a < nil``, whose types agree; ``nil ?? b`` counts as an Int;
  ``nil / nil`` passes `process_division`. Without any one of the four, TLC violates `TypeSafe`.
- `Labelled`: `term` does not ask whether a variable is initialized, so a labelled
  argument may name another variable in the code.
- `NilableFromItself`: ``var x : Int? = x`` reads `x` before its DEFVAR.
- `RepeatedParam`: a header with one name for two parameters is accepted, and its code
  declares the variable twice; the second parameter gets no label and no type, so that no
  argument fits it and the function cannot be called.
- `NameClash`: with functions `f` and `END_f` the label ``$$FUNCTION_END_f`` is printed twice; a
  function `END_ord` or `END_substring` alone has the label that the prolog printed.
- `ArgumentInLoop`: the subject of `parser_loops`; the DEFVAR is executed in whatever
  frame an earlier call left.
- `DeclaredWhenUsed` leaves out global variables used during a call: a function may be
  called before the declaration of a global variable it uses is executed.
- `EmptyComment`: the subject of `lexer_lines`.
- The lexer's reference leaves the rest of a text open ("any") behind ``**/`` and ``//*``, behind
  ``__`` (two tokens for the automaton), at an unknown escape sequence, and in a multi-line
  string with an escaped line break, an escape sequence in the indentation or behind quotes
  at the beginning of a line, or a last line that is a part of the indentation. A line
  break inside of a block comment is none for either. The flag of the end of the file
  is not compared: nothing reads it.
- `FunctionAddrs`: a function that may return nil passes for a constant in `if let`,
  and for a variable once nil was assigned to it.
- `ConstantCalled`: `if let f` copies the type of that function and not its parameters, so
  in ``if let f { f() }`` a call without arguments is accepted and the parameters get no
  value. The proof of `ArgumentsMatch` failed at this case before any run met it; one of
  the headers of `parser_blocks` is there for it.

Not the subject of a property, but modelled: ``let x = ?? )`` ends in a double free in
`reduce()` (`pc = "aborted"`; `Complete` says that no expression does); if the node for the
end of the file is not allocated, the first pass does not end; a label without its colon
drops the argument; a definition such as ``var x : Int = x`` outside all scopes dereferences a null
pointer; a parameter of a nilable type is not nilable in the body; a return followed by
a block is forgotten; a division by a parenthesised expression counts as a division by
zero; a name deleted and inserted again is not found (the compiler deletes nothing).

## Proofs

All of it holds for every value of the constants: names, hash values, lists of sizes,
tokens, signatures, argument lists and bounds. Each theorem is an invariant or a step
property that a run checks on a small instance, and TLC checked the inductive invariants
before they were proved.

**`Symtable_proofs`**

- `TypeCorrect`: `Spec => []TypeOK`. It includes that `slot`, the probed indices and the
  array sizes fit each other throughout `resize`.
- `StoredNamesAreFound`: `Spec => []Findable`. `Findable` is not inductive: while `resize`
  copies, the invariant must also hold in the new array (`NewFindable`), the new array
  must hold exactly the active items of the slots visited (`Copied`), so that no name
  is copied twice, and inactive items must belong to names that are deleted
  (`InactiveDeletable`), so that "not found" means "not stored". Together they are
  `FoundInv`. The heart is the lemma `StoreKeepsFound`: an item stored in the first
  free slot of its path is where the search for its name ends, and since a free slot
  ended no other item's path before its own, no other search changes.
- `UidsAreUnique`: `Spec => []UidsDistinct`. `UidInv` adds that every uid is below the
  static counter and that the array being filled has no uid twice, which follows
  from `Copied` and from the slots being visited once.
- `CountersAreAccurate`: `Spec => []CountAccurate`, with any number of failing allocations. The
  count exceeds the taken slots by the items that could not be allocated (`lostItems`), and the
  load exceeds 65% by an item for each resize that failed (`failedResizes`). `CountInv` adds the same statement for
  a resize in progress, where the table holds one item more than its load allows,
  that `resize` copied exactly one item per active slot visited (`CopiedOnce`), and that
  both sizes are neighbours in `primes[]`, from which the load after the resize
  follows: a size is at least 13/10 of the one before it.
- `ProbingEndsBelowHalf`: with no failing allocation, `Spec => DivergesOnlyHalfFull`. The
  probe path of an odd prime size visits (size + 1) / 2 different slots: the offsets are the
  triangular numbers, i(i + 1)/2 and j(j + 1)/2 are congruent only if size divides
  (i - j)(i + j + 1), and size is prime. So a path without a free slot needs more than
  half of the slots taken. That no resize diverges follows from `CountInv`: the new array
  holds at most 65% of the smaller one. A failing allocation leaves a table that
  grows beyond its load, hence the hypothesis; the runs cover the other case.
- `TableIsDictionary`: if no name is deleted, `Spec => ImplementsDictionary`. A search or an
  insertion of a stored name answers with its item by `Findable`; `Replace` is a stutter
  because `Copied` makes the old and the new array the same dictionary. The compiler
  never calls `symtable_delete`, and a name that is deleted and inserted again is not
  found, so without the hypothesis the statement is false.

**`TokenBuffer_proofs`**

- `ListWellFormed`: `Spec => []NodeList`: the nodes between the head and the last one
  allocated point to their neighbours, and the runner is on one of them.
- `ListIsSequence`: `Spec => BufferIsSequence`, by `NodeList` before and after each step: a
  push appends a token, `tb_pop` at the head removes the first, the other calls move the
  position.

**`Parser_proofs`**

- `ParserTypes` (`TypeOK`), `ParserIsBalanced` (`Balanced`), `ReturnsAreChecked`
  (`ReturnsChecked`) and `OneLineEach` (`OneStatementPerLine`), all from `ParserInv`. Its
  parts: the tables are functions from names to items whose uids are below the counter;
  the outermost block is the program, and a function is only the second one (`IsNesting`),
  so that one flag `in_func_body` is enough; scopes, conditions and loops are counted by
  the blocks, also after an error (`Counted`); `return_found` is only set in a function and,
  when no inner block is open, tells of a return of the body itself (`ReturnNoted`), which is
  what makes the check at the `}` right although every inner `}` resets the flag; and
  `first_stmt` is only set in an empty body.
- One lemma per action, from three lemmas about statements, heads and ends of blocks;
  the lemmas on stacks of tables (`StackPush`, `StackPop`, `StackPut`) and on counting blocks
  (`CountAppend`, `Pushed`, `Popped`) carry them.

**`ParserCode_proofs`**

- `CodeNamesTheVariable` (`SameVariable`), `CodeDeclaresFirst` (`DeclaredBeforeUse`),
  `ValuesAreStored` (`StoredUnlessNil`), `CallsMatchHeaders` (`ArgumentsMatch`) and
  `ParametersArePassed` (`EveryParameterPassed`), for every program, signature and argument
  list. The five are about the last statement and do not depend on each other; together
  they are `Right`, and a step from any state of `ParserInv /\ CodeInv` ends in an error or in
  one of `CodeInv /\ Right`.
- `CodeInv` says what they need of the tables. Every item has a type and the parameter list
  that `param_list` makes of its header (`IsKnown`), so that what is proved of the list holds of
  the header. Below the global table a nilable variable is initialized (`KnownItems`): the
  generator's search skips what is not, and would find another variable for `if let`. Each
  visible variable was declared in the output (`AllDeclared`), which a DEFVAR in the code of an
  earlier statement guarantees only because scopes that are left are never entered again. Parameters of
  the program's functions have names (`NamedParams`), so that a body declares them.
- The lemmas go from the bottom up: the two searches find the same table unless the variable
  is the one being defined (`OperandFound`, `IsInner`); the fields that the `set_param` functions
  set by name are those of the parameter itself unless an earlier one has its name, in which
  case no argument fits it (`ParamListIs`); the
  states between two arguments (`ArgsLoop`, by `LoopExists`) tie `current_arg` to
  `func_param_id`, from which follow the code of a call (`CallCode`), its match with the list (`ArgsFit`)
  and the parameters that are moved (`ArgsMoved`); code that uses old variables and then
  declares a new one is in order, since the new uid is above all others (`CodeInOrder`). Then one
  lemma per action.

**`ControlFlow_proofs`**

- `MachineStaysInCode` (`TypeOK`) and `LabelsAlwaysResolve` (`LabelsResolve`), for every program
  that is parsed and every run of its code, from `LabelInv`. What is printed is spread over `out`
  and `print_buffer`, and the order of the two is that of the program only outside of loops; the
  invariant therefore speaks of the instructions of both together. Which labels are among them is
  determined by the parser: an if or a `??` with a number below `cond_uid` has printed both of its
  labels, unless its block is open, and then those its kind says (`CondLabels`); loops likewise
  (`LoopLabels`); `f` once f is defined and END_f once its body is closed, and those of `ord` and
  `substring` from the beginning (`FunctionLabels`).
  A jump goes to a label that is printed or that an open block still owes (`GotosOK`), a call
  to a function that is called in the source, and at the end of the file no block is open.
- Each label is printed once (`Distinct`), unless there is a `NameClash`. That the machine rejects
  every program with one needs more: the label `f` stands behind a JUMP and END_f behind
  a RETURN (`Behind`), so the two are at different positions.
- The lemmas on `Part` and on the instructions a `Chunk` of code adds carry the actions: a piece of
  code that is split between `out` and `print_buffer` adds the same instructions as one that
  is not.

**`ControlFlowRun_proofs`**

- `NeverRedeclared` (`NoRedeclaration`) and `DeclaredAlways` (`DeclaredWhenUsed`), for every program
  and every run of its code. Neither is inductive: whether a variable is declared when the machine
  comes to an instruction depends on all paths to it, and on code that was printed when later
  parts of the program were not read yet. The proof does what a verifier of bytecode does. Each
  position of the output has facts (`Facts`): which frames the code around it has made (`shape`),
  whether it is in a function, variables that are declared in any case (`must`), and a `bound` that
  the uids of all declared variables are below. `Check` says that one instruction leads from
  the facts before it to those behind it and agrees with the facts at the label it names; `Leads`
  says so of a piece of code.
- While the parser prints, such facts exist (`Annotated`). The difficulty is the code of loops: its
  DEFVARs are in `out`, the rest waits in `print_buffer` and will stand behind every DEFVAR that
  the loop still brings. All code in the buffer therefore has the facts at the end of `out`, whatever
  they become, up to the `shape` (`Flat`), until the outermost loop is closed and the buffer is
  printed behind them (`CodeLeads`); `Pending` says which labels each open block still owes. That a new DEFVAR changes nothing behind it follows from the uid of its
  variable, which is above all others.
- At the end of the file the facts cover the whole output (`Loaded`, `Traced`), and from there the
  machine agrees with the facts at its position (`Fit`): each call in progress has one frame, with
  the declared variables of the body it is in; below it the caller stands at a body; the
  temporary frame holds the argument or nothing. One lemma per instruction (`ComputeFits` to `ReturnFits`).
  `RunInv` joins both phases to `LabelInv`, which makes the targets of jumps unique, and to `CallsKnown`: a
  CALL names a function of the program and never the label that ends one.
- What the theorems leave out is what the two properties leave out: programs that pass an argument
  inside a loop (`ArgumentInLoop`), where the DEFVAR of the argument leaves the loop without its
  frame, and global variables that a function uses, which its caller may not have declared yet.
  A `NameClash` is not excluded: `LabelsResolve` shows that such a program does not run.

**`Lexer_proofs`**

- `StringsStayInMemory`: `Spec => []StringsFit`, for every text and every `AllocSize` of at
  least 2: no append, retract, clear or copy of `get_token`, of the escape sequences or of
  the removal of indentation leaves a string whose characters and final zero exceed
  its memory. `StringsFit` alone is not inductive: the functions behind `\u` first take the `u` off
  `read_string`, which underflows an empty string. `StringsInv` therefore adds that `read_string` is not
  empty in the states that do so (`HexaStates`) and that `state` is always one of the
  functions of the automaton (`PlainStates` or `HexaStates`).
- One lemma per operation of the dynamic string, then one per state function; the
  loop of `indentation_perform`, which appends an unknown number of characters, is a
  recursive function, and `LoopExists` gives the states it goes through.

**`Induction_proofs`**

- `UpTo`: a set that holds 0, and i where it holds i - 1, holds all numbers up to n; from it
  `LoopExists`: a loop over 1..n has a state behind each pass, in the set that every pass
  preserves. Both are stated with sets and functions in place of an operator parameter,
  so that they can be cited by name.
- `MinIsLeast`, `MaxIsIn`: the least and the greatest of a finite set of numbers, for the uids of
  parameters and the innermost scope.

Assumed: `SymtableAssumption` (hash values are natural numbers, sizes increase and
exceed 2), `PrimesAssumption` (what `primes[]` holds: primes, each at least
1.3 times the one before), `NullAssumption` (in `Symtable` and in `Parser`: NULL is none of the values it stands beside),
`ParserAssumption` (functions are names and not built in; headers, arguments and types have their
shapes; a function of the program has a frame and a fixed number of parameters, and `write`,
which takes any number, has no frame), `AllocSizeAssumption` (`DSTR_ALLOC_SIZE` is at least 2),
`ControlFlowAssumption` (END_ before a name is injective and gives no name of a built-in function,
which the program cannot define; functions have at most one parameter). TLC evaluates all of them in the runs.

Only model-checked: liveness (`ResizeEnds`, `LexerEnds`, `FirstPassEnds`, `Advances`'s
consequence that `expr()` ends); the comparison with the recursive references of the lexer
and of the expression grammar (`TokensRight`, `LinesRight`, `Sound`, `Complete`, `TypeSafe`), where
the reference itself is out of the prover's reach, and the type invariants that stand beside them in
modules with recursive operators; and the order in which the machine executes the
statements (`FollowsSource`).

## Not modelled

- What the code of `ord` and `substring` computes, and its execution: `ControlFlow` has their
  labels and ends, which `LabelsResolve` is about, but calls only functions of the program; what
  a built-in function is passed is in `Parser`. The instructions that built-in functions
  without a frame become, and the text of literals in the output.
- The getters of `symtable.c`, which nothing calls; printing, debug output and messages.
- Freeing memory, but for the token buffer and the double free that changes control.
- Syntax errors inside of a statement, which end the compilation whatever they are
  (`Unexpected` stands for them).
- `compiler.c`, `error.c` and the tests.

## Plan

Done: the models of all parts with state of their own, from the text to the execution
of the output; the proofs about the symbol table, the token buffer, the strings of the
lexer, the blocks of the parser, the code it generates, its labels and the loop
buffer, the variables and frames of the running output.
