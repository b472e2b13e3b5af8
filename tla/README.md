# B-Minor compiler: TLA+ models, checks and proofs

This directory verifies the B-Minor compiler of this repository: a C program that
reads a `.bminor` file and writes x86-64 assembly. It is sequential, so what is hard
about it is not interleaving. It is the protocol between recursive handlers over a few
global variables (a register pool, a label counter, a scope stack, shared type nodes, an
output file), over every shape of syntax tree, with `exit(1)` or a NULL dereference as
the error paths. A unit test exercises one tree; the models exercise every tree of a
family, and the proofs every tree.

## 1. Inventory

| Part | Source | State it keeps | Operations | Modelled in |
|---|---|---|---|---|
| Driver | `main.c`, `bminor_helper.c` | the mode, `yyin`, `outfile` | `scan`, `parse`, `pprint`, `resolve`, `typecheck`, `codegen`; each runs the ones before it | `Driver` |
| Scanner | `scanner.flex` | `yytext` | tokens; `fixString` unescapes literals in place | `Grammar`, in part |
| Parser and tree | `parser.bison`, `*_create` | `ast_head` | builds `decl`, `stmt`, `expr`, `type`, `param_list` | `Grammar`; `Ast`, `Trees` (the trees) |
| Printer | `*_print`, `expr_check_precedence` | the tree itself (it inserts `GROUP` nodes) | prints source text | `Printing` |
| Name resolution | `*_resolve`, `scope.c`, `symbol.c` | the scope stack, `resolve_err`, the symbols | `scope_enter/exit/bind/lookup`, slots of variables | `Resolve` |
| Hash table | `hash_table.c` | buckets, size, a cursor | insert, lookup, remove, clear, iteration, doubling | `HashTable`, `Dictionary` |
| Type checker | `*_typecheck`, `type.c`, `param_list.c` | `type_err`, the declared types (`auto` is overwritten) | type of an expression, validity of statements and declarations | `TypeCheck`; `Typing` (the rules) |
| Code generator | `*_codegen`, `symbol.c`, `label.c` | the C call stack, `cur_label`, `outfile` | one handler per node kind | `Codegen` |
| Scratch registers | `scratch.c` | `reg_free_map`, `NUM_REGS` | `scratch_alloc`, `scratch_free`, `scratch_name` | `Scratch` |
| Runtime library | `library.c` | none | `print_*`, `integer_power` | `Machine` |
| Tests | `tests/`, `tests_self/` | | sample programs and shell scripts | read only |

How they interact. The phases run one after the other on the same tree and hand each
other pointers inside it: resolution puts symbols into declarations and identifiers
(whose `which` and `total` fix the frame that code generation lays out), the type checker
overwrites the `kind` of type nodes that declarations and symbols share, and its messages
call the printer, which changes the tree that is compiled next. Within a phase, a handler
calls itself on subtrees while it holds part of the global state: a register, a scope, a
label number.

What is hard, part by part, and what makes the part correct:

- **Scratch registers and code generator.** A register is held across recursive calls and
  must be released exactly once, on every path, and no emitted instruction may overwrite
  one that a waiting handler owns. The pool has seven registers; the check of
  `scratch_name` and `scratch_free` lets index 7 pass, one past the array. Labels are
  taken before and printed after nested labels; string literals switch sections in the
  middle of a function. What is emitted must then run as the source says: arguments in
  registers, parameters and locals in slots below `rbp`, saved registers below those.
- **Name resolution.** Slot counters travel up and down the scope stack; prototypes,
  definitions, blocks and nested declarations come in any order. Slots of one function
  must be disjoint and inside its frame, every use bound by static scoping, and the error
  flag set exactly for wrong programs; comparing two signatures may follow a NULL pointer.
- **Hash table.** Doubling happens in the middle of an insertion, while a cursor may point
  into the old array. Callers must see a map and an iteration that visits each key once.
- **Type checker.** `auto` is resolved by overwriting a type node in the middle of the
  walk, after other nodes have been checked against it; errors do not stop the walk; types
  with missing parts are followed blindly. What is accepted should be well typed, what is
  rejected ill typed, and NULL never followed.
- **Scanner, parser, printer.** Literals are edited in place; the printer decides about
  parentheses from precedences that the parser stored, and about braces from the shape of
  blocks. The printed text should parse to the same tree.
- **Driver.** The output file is opened, and emptied, before anything is parsed; five phases
  may each be the last. What is in the file afterwards should follow from the exit status.

The hazards are listed line by line in `PROJECT.json`, each with the property that covers
it or the reason why none does.

## 2. Modules

`Ast` has the tree of `expr.h`, `stmt.h` and `decl.h` as far as the models tell nodes
apart: pointers become a sequence `sub` in order of evaluation. `Trees` has short names
to build such trees, for the MC modules.

**`Scratch`** (`scratch.c`): `reg_free_map` and `NUM_REGS` as variables. The build has no
optimisation and puts `NUM_REGS` right behind the array, so `scratch_free(7)` writes 1 into
`NUM_REGS`; `OutOfBounds` says so. The number of registers is the constant `NumRegs`.

**`Codegen`** (`expr_codegen`, `expr_compare`, `expr_call_func`, `stmt_codegen`,
`decl_codegen_global/local`, `label.c`, `symbol_codegen`). The recursion is made explicit:
`stack` is the C call stack, an activation is a node, how many operands have returned, the
`reg` fields it still has to free and its label. *Everything a handler does between two
recursive calls is one action*, with its allocations, frees and output; every `exit(1)` is
an action that aborts with its cause, and so is the NULL `subtype` of a global `x: auto = {1, 2}`
(`ElementTypeMissing`). `outfile` is a sequence of instructions, directives
and labels, tuples instead of text. Two simplifications: after an exit the output of
completed handler portions only is kept, and the frees of one portion are one step. The
literal 7 in the loops of prologue and epilogue stands for `NumRegs`. `GROUP` nodes, which
the parser never builds, come from the printer called by the notice about `auto`
(`decl.c:196-205`) and by the messages for loops (`stmt.c:184-206`); code generation returns
from them with `reg` unset, which is any value of the constant `Garbage`.

**`Exits`** has what must be true of a tree when the generator exits or crashes on it, written without
the handlers: the registers its evaluation takes at its peak (`Need`), the nodes of the tree below
a node (`Tree`), and what offends in one node (`Offends`). `Need` and `Tree` are recursive; they
are constants given by their equations (`NeedAssumption`, `TreeAssumption`), which `MCCodegen`
fulfils by recursion, so that the properties are within the prover's reach.

**`Words`** (`type_equals`): a struct type as the words that `type_equals` compares, in their order, and
when the comparison follows a NULL pointer (`Stuck`). `Resolve` and `TypeCheck` share it.

**`Resolve`** (`decl_resolve`, `stmt_resolve`, `expr_resolve`, `param_list_resolve`,
`scope.c`, `symbol_create`). The recursion appears as `todo`, for each open scope the calls
that remain; a symbol is an index in order of creation; a function type is the words that
`type_equals` compares. When a comparison gets to a missing array size before it has found a
difference, the process crashes (`RedeclareCrash`, `status`). The exit of `scope_bind` on a key that is already there is unreachable,
because a lookup comes first, and is left out. An unset `which` is never read before it is
set. `Sources` are the programs; `SourcesAssumption` says of them what the parser guarantees:
they are made of `Decls`, statements of `Decls` and `Stmts`, parts and bodies are lists.

**`Scoping`** has static scoping and the rules of declaration, written without the handlers and
the scope stack. A program is read as its text, a sequence of events: a scope is entered or
left, a name is declared or used. `Depth` counts the scopes that are open; what a use means
(`Meaning`), which declarations disagree (`Conflicting`) and which ones are compared up to an
`array []` (`Crashing`) are statements about positions in that text. The texts of declarations and statements are recursive, so they are constants given
by their equations (`DeclTextAssumption`, `StmtTextAssumption`), which `MCResolve` fulfils by
recursion. `program` is the program that is resolved, which `Resolve` itself does not keep.

**`HashTable`** and its abstract specification **`Dictionary`**. Chains, doubling, count and
cursor in the first; a map and the set of keys an iteration has yet to visit in the second,
from `hash_table.h`. The refinement maps the chains to the map and what lies behind the
cursor to that set. The hash of a key is a constant. `Wild` is a cursor that was never set
or whose entry was freed; then `hash_table_nextkey` must not be called, as the header says.
`MaxBuckets` bounds doubling. A failing `malloc` is left out. `Moved`, the moving of a chain
entry by entry when the table doubles, is a recursive function, so that it can be proved about.

**`TypeCheck`** (`decl_typecheck`, `stmt_typecheck`, `expr_typecheck`, `expr_err_msg`,
`type_copy`, `type_equals`, `type_print`, `type_check_valid`). A struct type is an index
into `types`, whose `kind` the resolution of `auto` overwrites; a type that
`expr_typecheck` returns is a copy, written as the words that `type_equals` compares in
their order, with `"NULL"` where a part is missing. So *follows a NULL pointer* is a
condition on words (`Stuck`, `Unprintable`), and an action that meets it crashes.
`expr_constant` decides what a global may start with. The type checker enters the code of any
declaration, name resolution that of functions only; so names and declarations without a symbol
are `val` and `symtype` 0, and the actions crash where the code reads their symbol. `Programs` are
the programs, `Parts` the nodes of each, and `ProgramsAssumption` says what the grammar and
name resolution guarantee of them. Left out: the repeated visits of array
values that cannot find anything new (the repeated visit of call arguments is kept).

**`Typing`** has the typing rules, written without the handlers and without an order of evaluation:
what the operands of an expression may be (`Fits`), its type (`Result`), when a statement or a
declaration is right. The rules are over a table of struct types, so that a program can be judged
under the types it declares or under those its declarations end with. They are recursive
functions on the nodes of a program. `Height` and `Tallest` are constants that say that a program
is a tree (`HeightAssumption`); `MCTypeCheck` fulfils them by recursion. Where the language
has no document, the rules are the code's in outline: rows of an array value need the same type,
its other values are not compared, and a function never gives or takes a function.

**`Machine`** (the emitted text, and `library.c`) composes with `Codegen`: when the walk
has written its file, the file is loaded and runs, line by line, on registers, flags and a
byte-addressed memory of 8-byte words. One action per kind of instruction; a call of the
library is one action that clobbers every register a C function may (`CallerSaved`) with a
value of `Trash`, which is also what unset memory and registers hold. An access to an
unmapped address and a division that traps stop it with `fault`. The meaning of an
instruction is the processor's, marked external in the map; the calls of `library.c` are
mapped to it. Words have `Bits` bits.

**`Printing`** (`decl_print`, `stmt_print`, `type_print`, `param_list_print`, `expr_print`,
`expr_check_precedence`) are operators from a tree to the tokens printed, white space left
out. `Grouped` is what `expr_check_precedence` does to the tree meanwhile; `MCCodegen` takes
its trees with `GROUP` nodes from there, as the notice about `auto` leaves them.

**`Grammar`** (`parser.bison`, and the literals of `scanner.flex` with `fixString`) goes the
other way: one operator per rule, from a sequence of tokens to a tree and the rest; `Rule`
finds a rule by its name. The left-recursive rules are loops (`Chain`), which build the
trees that the rules build. That bison's automaton accepts the language of its grammar is
taken for granted. `Munched` is flex's longest match, where the printer puts two minus signs side by side; `atoi` wraps at
`IntRange` values.

**`Driver`** (`main.c`, `bminor_helper.c`) has the control of the process: modes, phases, exit
status, output file. The scanner, the parser and the printer are parameters of the module, so
that it can be proved about; the runs give them those of `Grammar` and `Printing`. What resolution, type checking and code generation conclude is any outcome that their own
modules have, crashes included: name resolution and the type checker may compare arrays without a size, the
generator may read a missing subtype, and a crash leaves of the output file what was flushed. `PrintAgain` is the second process
of `tests/printer/run_all_tests.sh`, which prints a printed file once more.

`MCCodegen`, `MCMachine`, `MCResolve`, `MCHashTable`, `MCTypeCheck` and `MCDriver` have the
programs for TLC, and references written independently of the code: a big-step evaluation of the
source, source text with parentheses around every operand.

`CodegenProofs` has the proofs about `Codegen`, `ResolveProofs` and
`ScopingProofs` those about `Resolve` and `Scoping`, `HashTableProofs` those about `HashTable` and its refinement,
`TypeCheckProofs` and `TypingProofs` those about `TypeCheck` and `Typing`, `DriverProofs` those about `Driver`; `Induction` has
the facts about natural numbers, and about the sequence that `FlattenSeq` chooses, that they share.

## 3. Runs

| Run | Question | Properties |
|---|---|---|
| `codegen_walk` | who owns which register; labels and sections; over expressions and statements | `WalkInv`, `NoClobber`, `ExactOwnership`, `ExhaustionExact`, `LabelsSound`, `SectionsSound`, `RegistersKnown`, `SparesWaiting`, `Terminates` |
| `codegen_limits` | programs on both sides of each limit; what `auto` leaves behind: `GROUP` nodes, arrays without a subtype | `TypeOK`, `ExitsJustified` |
| `machine` | what the compiled programs do | `MachineTypeOK`, `CallersKept`, `CalleeRestores`, `MeansWhatIsCompiled`, `MeansWhatIsWritten`, `Halts` |
| `resolve` | nested scopes; one name declared three times | `TypeOK`, `SlotsDisjoint`, `FrameFits`, `LookupSound`, `ErrorsExact`, `CrashExact` |
| `hash_table_dictionary` | every sequence of calls on colliding keys | `ImplementsDictionary`, `TypeOK`, `LoadBounded`, `SizeDrifts` |
| `typecheck` | expressions, statements, declarations, `auto` | `TypeOK`, `Sound`, `TypeErrorsExact`, `CrashExplained` |
| `driver` | every mode; printed files parsed and printed again | `StatusTellsOutput`, `ReformatsExcept`, `ParsesImpliesScans` |
| `codegen_deep` | a sum that needs eight registers | `Generates` (violated) |
| `typecheck_loop` | the parts of a for loop | `LoopsTyped` (violated) |
| `typecheck_elements` | the values of an array | `ElementsAgree` (violated) |
| `typecheck_returns` | returns of an `auto` function with a prototype | `ReturnsMatch` (violated) |
| `printer_round_trip` | a printed file is the same program | `Reformats` (violated) |

What the passing runs show:

- The generator's register discipline is exact. No register is leaked or freed twice,
  nothing live is overwritten, and it runs out of registers exactly for the trees whose
  left-to-right evaluation needs more than there are (`ExhaustionExact`, against
  the `Need` of the tree): the limit is the seven registers, not a handler.
- Every exit of the generator has its cause in the program, and so has its crash at a global
  `auto` that became an array (`decl.c:272` reads the NULL subtype that `decl.c:205` left); no program
  with such a cause is compiled (`ExitsJustified`). An unknown register is met only after a `GROUP` node.
- Labels are unique and defined, jumps stay in their function, instructions are in the text
  section and data in the data section.
- Frames are laid out without overlap, uses are bound as static scoping says, also in
  `x: integer = x`. Whenever resolution returns, the error flag is exact under redeclaration in
  every order. It does not return when `type_equals` gets to an `array []`: `decl_resolve` compares
  every repeated prototype, and the first definition behind a prototype, with the first
  declaration of the name, and `type.c:70` follows the NULL `arr_val` where the two agree up to there.
  So `f: function void (a: array [] integer);` and its definition end the process. `CrashExact`
  is an equivalence too: for these programs, and no others.
- The compiled programs do what the source says. `MeansWhatIsCompiled`: output, result and
  fault are those of a big-step evaluation that reads the source as this compiler does.
  `MeansWhatIsWritten`: they are those of the ordinary reading, unless an effect or a
  trap is on the right of `&&` or `||` or in the index of a stepped element (`a[i()]++`
  calls `i` twice), strings are compared (by address), an array has no storage or is
  local with a value. These departures (`Departure`) are the compiler's; no
  document of the repository says otherwise. `CalleeRestores` and `CallersKept` are the
  calling convention, over recursion and returns out of loops.
- The hash table implements a map with an iteration, through doublings. Its count is not the
  number of entries: `hash_table_clear` keeps the old one. `SizeDrifts`: nothing else ever
  moves the two apart, so later doublings come early, never late (`LoadBounded`).
- A printed file parses to the same program and prints the same *exactly when* the program
  has none of these: `++`, `--`, `-` or `!` over an operand of lower precedence, a minus sign
  after a minus sign, a block that begins with a block and goes on, a backslash in a
  literal, a literal above the largest `int` (`ReformatsExcept` is an equivalence).
- The exit status tells what is in the output file, in every mode with every outcome of the
  phases (`StatusTellsOutput`). What parses also passes `-scan`, but for the `?` of a
  ternary, which `tokToString` does not list.
- The type checker accepts only well-typed programs *under the types that the declarations
  end with*, in whatever order `auto` is resolved, but for the violated properties below;
  without `auto` it rejects exactly the ill-typed ones and leaves their types as declared
  (`TypeErrorsExact`); and it follows NULL only for a missing
  array size, an `auto` that became an array or a function, an assignment to something
  of type `auto` that has no symbol, or in code of a declaration that is no function. The rules leave
  out what the type checker does not check (the types of the parts of a for loop, values after the
  first in an array value, returns of an `auto` function with a prototype), and `Sound` leaves out
  auto arrays; the violated runs show that this is needed. The rule
  for `{{1, 2}}`, one row in two braces, is the code's: its type is that of the row.

### Bounds, and why they are enough

- `codegen_walk`: all expressions two operators deep over one operator of each handler, each
  statement inside each statement, every operator once, every kind of global, on a pool of
  **three** registers, so that trees of depth two exhaust it in every way; the handlers do
  not look at the size of the pool. `codegen_limits` has all seven registers, nests up to
  nine levels, passes up to eight arguments, and gives
  `Garbage` the values -1 to 8, on both sides of the check and the one past the array.
- `machine`: about four hundred programs: each arithmetic operator and comparison on words at
  both ends of the range, then every pair of operands with effects (steps, assignments,
  calls) under every kind of handler, loops, branches, returns out of loops, recursion,
  arrays as parameters, six arguments. Words have 16 bits, enough for every address and
  overflow while TLC's integers hold the products. The stack has 96 words: no program here
  recurses deeper. Two values of `Trash`, so that a result that depends on one is seen.
- `resolve`: three names, up to two parameters, bodies of one or two statements with scopes
  three deep: two names can shadow and a third be free; more statements repeat the counter
  step. Three declarations of one name reach every state of the prototype flag. Pairs of declarations
  over five types with arrays, and triples over two, have an `array []` behind words that agree and
  behind words that differ, in the result and in a parameter, against an array with a size; one of
  them is in a scope of its own.
- `hash_table_dictionary`: four keys whose hashes agree modulo 2 or 4, from one bucket to
  four (`MaxBuckets`), hence two doublings; default size 3, so that a count which is no
  power of two occurs. One value, since values are only passed through.
- `typecheck`: fifteen types without `auto` and eight with it. An operator sees only the
  types of its operands, so every operator over operands of every type decides the rules;
  a second level shows that result types are passed on.
- `driver`: about four thousand files: every operator over every other one, a third
  level where a minus sign or parentheses may be deeper, every statement in every
  other one, every type, literals of up to three of the characters that `fixString` and the
  printer distinguish, numbers over the whole `IntRange`. An `int` of eight values
  wraps within the literals of the run. The source of each file has parentheses around every
  operand, so the parse does not rest on the precedence that the printer relies on.

Deadlock is checked in every run: `Terminated`, `Returned`,
`Stopped` and `Gone` are the steps of a process that has ended.

### Fairness

`Terminates` (the generator writes its file or exits) assumes `WF_vars(Next)`. The compiler
is one thread that nothing blocks: an enabled step is the next instruction of a running
process. `Halts` (a compiled program returns or faults) assumes the same of `MachineSpec`:
the compiler and then its output, one thread each. No other run assumes fairness.

### Where the code departs from its documents

1. `codegen_deep`: `README.md:22` promises an assembly file once the earlier steps pass; a
   right-nested sum of eight terms exits in `scratch_alloc` (`scratch.c:18`). The same holds
   for more than six arguments, for printing an array and for `GROUP` nodes, which
   `codegen_limits` has among its exits: `c: auto = x * (y + z);` passes the type checker
   and reaches code generation with a `GROUP` node whose register nobody set.
2. `typecheck_loop`: a for loop with ill-typed parts is reported and compiled (`stmt.c:192`).
3. `typecheck_elements`: all values of an array value but the first go unchecked
   (`expr.c:606` evaluates `e->left`, not `cur`).
4. `typecheck_returns`: after a prototype, `auto` is resolved in another type node than the
   one that is read (`stmt.c:218,232`), so each return may have its own type.
5. `printer_round_trip`: `README.md:16` and the test script want a printed file to be
   the same program; `-(a + b)` is printed `-a + b` (`expr.c:187`), and see the other causes above.

Three more are seen by invariants of passing runs and have no run of their own:
`decl.c:222` says "Can guarentee from parser that if code exists, then its a function", but the
grammar lets `x: integer = { return 1; }` pass and the type checker follows the NULL
symbols in it (the last cases of `CrashExplained`); `auto` copies
the kind of an array alone (`decl.c:205`, an exception in `Sound` and `CrashExplained`, and the crash
of the generator in `ExitsJustified`), and
`hash_table_clear` keeps the count that `hash_table.h:60-61` documents (`SizeDrifts`).

## 4. What is proved

TLAPS proves these for **every** value of the constants that satisfies the named
assumptions. All but the refinement are also properties of a run, which shows them on a small
instance.

| Module | Theorem | Property |
|---|---|---|
| `CodegenProofs` | `TypeCorrect` | `TypeOK` |
| | `WalkHolds` | `WalkInv` |
| | `NoClobberHolds` | `NoClobber`: no register holds two operands still to be used |
| | `OwnershipHolds` | `ExactOwnership`: taken if and only if some handler holds it |
| | `RegistersKnownHolds` | `RegistersKnown`: no register outside of the pool is named or freed |
| | `ExhaustionIsExact` | `ExhaustionExact`: registers run out for exactly the trees that need more than there are |
| | `ExitsAreJustified` | `ExitsJustified`: every exit and every crash has its cause in the tree, and no tree with a cause is compiled |
| | `SparesWaitingHolds` | `SparesWaiting`: no written instruction overwrites a register that waits |
| | `SectionsHold` | `SectionsSound`: instructions in the text section, values in the data section |
| | `LabelsHold` | `LabelsSound`: labels defined once, those used are defined, jumps stay in their function |
| `ResolveProofs` | `ResolveTyped` | `TypeOK` |
| | `SlotsNeverShared` | `SlotsDisjoint`: two variables of a function never share a slot |
| | `FramesAlwaysFit` | `FrameFits`: the frame the prologue makes has room for every slot |
| `ScopingProofs` | `LookupsAreSound` | `LookupSound`: every use is bound as static scoping says |
| | `ErrorsAreExact` | `ErrorsExact`: when resolution returns, the error flag is set for exactly the wrong programs |
| | `CrashesAreExact` | `CrashExact`: resolution crashes for exactly the programs that compare two types up to an `array []` |
| `HashTableProofs` | `HashTableTyped` | `TypeOK` |
| | `LoadStaysBounded` | `LoadBounded` |
| | `OnlyClearDrifts` | `SizeDrifts` |
| | `HashTableImplementsDictionary` | `ImplementsDictionary`: the table is the map of its header |
| `TypeCheckProofs` | `TypesStayTypes` | `TypeOK` |
| | `CrashesAreExplained` | `CrashExplained`: a NULL pointer is followed only in the listed cases |
| `TypingProofs` | `TypeErrorsAreExact` | `TypeErrorsExact`: without `auto`, rejected exactly when a typing rule is broken |
| `DriverProofs` | `StatusAlwaysTells` | `StatusTellsOutput` |

*Assumptions.* Each is a named `ASSUME` of the module that declares the constant, and TLC
evaluates it in every run of that module.

- `Codegen`: a positive number of registers; the trees are closed under operands and have the
  number of operands, the number of registers in use and the kind of literal that their kind
  has (`NodesAssumption`), which is what the grammar builds; and no program defines a function or
  a variable twice, since name resolution rejects it. The theorems about `Codegen` are about
  trees with no `GROUP` node: `Ungrouped => (Spec => []P)`. With such nodes the properties
  are false, which is the point of `codegen_limits`.
- `Exits`: `Need` and `Tree` satisfy their equations; a function passes at least two arguments in
  registers, an exponentiation has two operands, and a print statement has a type for each of its
  operands (`ArgumentsAssumption`).
- `Resolve`: `SourcesAssumption` (see above). Nothing else about the programs: names may
  be declared any number of times, at every depth, in every order.
- `Scoping`: `DeclText` and `StmtText` satisfy their equations.
- `HashTable`: keys and values are not the marks for *no key* and *no value*; a hash is a natural
  number. `MaxBuckets` may be any number: no table is too large.
- `TypeCheck`: `ProgramsAssumption`. A struct type refers to earlier ones (a tree, not a cycle);
  the nodes of a program have the operands, types and symbols that the grammar and name
  resolution give them. Programs that are ill-typed, or that have code where none belongs, are
  included.
- `Typing`: `HeightAssumption`: a program is a tree, in which every node is higher than its parts.
- `Driver`: a command line has a number of arguments, and the tree of a text that the
  parser accepts is not the mark for *not parsed yet* (`DriverAssumption`).

### The arguments

*Registers* (`CodegenProofs`). None of the properties is inductive alone. `NoClobber` fails if a
handler returns a register that a waiting handler holds, so the induction needs that
`scratch_alloc` returns a free one and that held ones are taken: `ExactOwnership`. That in turn
needs to know how many registers a handler holds at each point, because a portion frees
`held[1]` or `held[2]` by position: the counts in `WalkInv`, whose other half is that the
stack is the path of operands to the current node. `RegistersKnown` follows since only held
registers are named, and the pool's size must not be overwritten (`NUM_REGS = NumRegs`),
which holds because index `NumRegs` is never held. The invariant is the conjunction

    IInv == TypeOK /\ NUM_REGS = NumRegs /\ WalkInv /\ NoClobber /\ ExactOwnership

The proof has one lemma for each way to change the stack (push, pop with a
register, pop without, stay), one for each change of the pool (`Accounts`: keep, free,
allocate, call), and combines them per handler.

*Exits* (`CodegenProofs`). `Budget`: the registers in use below a handler and what its node needs
are never more than what the program needs, and what its finished operands needed was there.
Each step is one of three moves on the call stack (`Moved`: call the next operand, return, or give
back an operand that was printed), and each move keeps the budget, since a waiting handler
holds exactly the registers that the order of evaluation asks for (`Before`). The number of registers in use
is the cardinality of a union that is disjoint by `NoClobber`. When `scratch_alloc` fails, the
handlers that wait hold the whole pool and the node at hand needs one more; when the walk
ends, the root's finished operands have fitted. For the other exits, `Checked` collects what
the handlers have looked at: an operand that has returned has nothing below it that makes a
handler exit, and a handler that has called for an operand has passed its own checks.

*Text* (`CodegenProofs`). Every handler's code is shown to be lines whose destination is
`Spared`: no register of an operand that waits, by `NoClobber` when the register was held at the
top and by `ExactOwnership` when it was just allocated. Sections need a fact about the walk and
one about the text: every line stands in its section (`WellPlaced`), and while the walk is
inside a function the section that is open is `.text` (`Inside => Open(outfile, ".text")`).
Without the second the first is not inductive: a string literal opens `.data` in the middle of a
function, and it is its handler that must open `.text` again.

*Labels* (`CodegenProofs`). A handler that prints a jump to a label it has yet to print owes
that label: `Pending` says which labels a handler owes at each of its portions, and `Owed` collects
them over the call stack. `LInv` says that the text is `Closed` but for them: every label
that is used is defined in the same function or owed, and if it is owed no function has begun
since. Three more facts make this inductive. No two handlers owe one label (`Apart`), so
that defining it settles the promise of one handler only. The label at the top of a loop
stays reachable while the loop is open (`Backs`). And the labels that exist, owed or defined, have
numbers up to `cur_label` or names of declarations that have begun (`Reserved`), so a new label is a
new one. `Keeps` is what a handler's code does to any closed text; lemmas give it for each
sort of code, so the steps of the walk only compare what is owed before and after.

*Slots* (`ResolveProofs`). `SlotsDisjoint` needs that the next slot, `num_vars` of the innermost
scope, is above every slot of the frame being laid out. A scope that is left gives its
count to the enclosing one only inside a function, and a symbol that is created is bound later,
by a call that waits meanwhile; so the invariant `SInv` also describes the calls that wait
(`TopLevelInv`, `BodyInv`): outside functions nothing but the rest of the declaration begun, inside
one only calls that bind symbols of its own frame, and at the end the one that sets the total.
For `FrameFits`, `FInv` adds what is known of the function being resolved (`ResolvingInv`: its
parameters' symbols follow its own and have the slots of their places; the symbol it will
fill was filled by no finished one) and of the finished ones (`FramesInv`). A total is kept with
the *first* declaration's symbol, which may be a prototype's; that two definitions never share one
holds only while no error has been found.

*Scopes* (`ScopingProofs`). The calls that wait in `todo` have a text themselves (`TextOf`), the
calls of the outer scopes behind those of the inner ones (`Rests`). So in every state the program's
text is what has been gone through, `c`, followed by what waits (`Reaches`), and each action
either takes the first event from the waiting text to the end of `c` or leaves both alone.
`Agreed` says what the state has to do with `c`: as many scopes are open as its depth, the tables
have exactly the declarations that are visible at its end (`TablesInv`), a symbol's
prototype flag is set if it is a prototype that no definition in its scope has used up
(`FlagsInv`), and the uses and the error flag are those of `c`. Without the flags the errors are not
inductive: whether a definition is the second is read off the first symbol's flag, not off the
declarations. The symbol of a declaration is created before its value is resolved and bound after it,
so for a while there is one symbol more than declarations gone through (`Pending`), and the
invariant has to say that the next binding is that symbol's (`BindsInv`). The rest are lemmas
about positions: what a text that grows by one event keeps (`ScopesSame`, `MeaningSame`), what is
visible behind an event, and that in one scope only the first declaration of a name is.
At the end nothing waits, so `c` is the program (`ReachesLast`). `Agreed` also says that no two
declarations of `c` make `type_equals` crash; the prototype flag tells whether a definition is
compared (`FlagsInv`). When the process crashes, the declaration at hand makes `c` and its own event
`Crashing`, and a text is crashing when the beginning of one is (`CrashingKept`).

*Hash table* (`HashTableProofs`). `HInv` says that every entry is in the bucket of its hash and
no chain has a key twice (`Sound`), that the count is not below the number of entries, that the
cursor is in the table unless it is `Wild`, and `LoadBounded`. What lies behind the
cursor is then what the iteration has yet to visit, and each call is mapped to the
`Dictionary`'s: `MapStep` for the map, and for the iteration lemmas that say what the cursor
has before it after an insertion at the head of a chain, a removal, and the moving of all chains.
A doubling changes neither map, as `Moved` keeps every entry and separates
the keys by their new bucket.

*Types* (`TypeCheckProofs`). The calls that wait and the types they have computed are one call
stack, `todo` and `values`. `WalkInv` describes it by two witnesses: `h[k]`, how many types there are
when call `k` begins (`Heights`: each takes its operands and leaves one type or none), and `b`, the call
that ends the expressions of the current statement, behind which there are statements and
declarations only. A missing part can be anywhere in a type that has been copied,
so `CrashExplained` needs that every copy with a missing part, on `values` or in a
waiting call, comes from a struct type that has it (`ValuesExplained`, `CopiesExplained`). A NULL that
`expr_typecheck(NULL)` returned is the exception, and `Absent` says that only callers that test for
it are waiting.
The hard part is that `auto` *overwrites* the struct type meanwhile, and might mend what explains a
copy that is still in use. It cannot: what explains a copy is not overwritten by an assignment that
waits, unless the copy lies above the type of the assignment's variable, and then it is gone
when the assignment is made. `Overwrites` and a bound on heights say so in both of these parts.
`Assigns` makes the bound inductive: a waiting assignment either has its variable next to be looked
up, or has the variable's type below everything that the calls before it take. The proof
has two lemmas for the shape, `PopWalk` for a call that returns and `PushWalk` for one that
makes others, one for `auto` (`RetypeWalk`), and then one step per action.

*Type errors* (`TypingProofs`). The rules give each call of the type checker a meaning of its own: the
stacks of types that it makes from a stack (`Makes`), if it finds no fault. A list of calls `Runs` from
one stack to another when each makes the next one's stack, and `Passes` when it runs to its end.
The invariant `Exact` says, for a program without `auto`: the types are as declared, no type on the
stack or in a function being called is `auto` (`Plain`), and if the error flag is set the program is
not well typed; if it is not set, the program is well typed exactly when what is left of `todo` passes
from the values there are. At the start that is `WellTyped` itself, at the end it is the
theorem. Two lemmas carry it: a call that returns sets the flag or leaves what it makes
(`PopExact`); a call that makes others must run exactly when they do (`PushExact`). So
the work is in lemmas about lists of calls: those of the operands, then the node itself, run exactly
when the rules allow the node (`DescendRuns`), and likewise the repeated visit of
a call's arguments (`EnterCallRuns`, `CallNextRuns`), statements (`StmtRuns`) and declarations
(`DeclRuns`). For the operators, `RuleJudges` compares the handler's order of messages with the rule.
One fact is less plain: several handlers test whether a type is there at all, and the rules do not, so a
well-typed expression must always have one; it has a type with neither `auto` nor a missing part
at its core (`Solid`, `TypedIsKnown`). The rules are recursive functions on a
program's nodes; that the functions chosen satisfy their equations is proved by the height of nodes
(`TypeOfUnfolds`, `ExprTypedUnfolds`, `StmtTypedUnfolds`).

*Driver* (`DriverProofs`). `DriverInv` has, for each function of `bminor_helper.c`, the modes that
reach it and what the output file and the flags are then (`Reached`). Two facts are less plain:
`resolve_err` and `type_err` are globals that nobody resets, so that they are clear at the end
needs that no earlier phase of the same process set them; and the process that prints a
printed file again starts with what the first one left (`PrintLeavesNothing`).

*Induction.* The library's induction theorems take an operator as a parameter, which no
installed prover can instantiate. `Induction` proves, from the well-foundedness of `<`, that a
nonempty set of natural numbers has a least member; an induction then is a statement about
the set of numbers for which something holds. Recursive functions (`FlattenSeq`, `Moved`) are
unfolded from a proof that the function that their definition chooses exists. `RECURSIVE`
operators stay out of reach.

### Model-checked only

- `Terminates` and `Halts` are liveness under fairness.
- `MeansWhatIsCompiled` and `MeansWhatIsWritten` compare the code with recursive operators on trees
  (`Meaning`); so do all properties of `Printing` and `Grammar`. What a recursive operator computes for
  every tree cannot be proved here.
- `Sound` is about programs with `auto` too, and there `Exact` fails: a call is checked under types that later
  calls overwrite, so what is left of `todo` does not tell whether the program will be well typed under the
  types it ends with. For programs without `auto` it follows from `TypeErrorsExact`.
- With `GROUP` nodes the generator frees registers that it does not own, so of the theorems about
  `Codegen` only their run shows what is left then: `codegen_limits` checks `ExitsJustified` with them.
- `MachineTypeOK` and `CallersKept` of `Machine` hold of programs that index within their arrays and
  whose numbers and addresses fit the words of the machine. A compiled program may store to any address, its
  caller's frame included, so neither holds of every program; the programs of the run are such that they must.

## 5. Not modelled

- The automata that flex and bison generate, and the regular expressions of the tokens
  other than literals: names, keywords, numbers, comments, the bounds of 255
  characters. They are input to generated code. White space is left out.
- The alignment of the stack at a call (`expr.c:1160`): `library.c` as built does not
  depend on it and the machine has no fault for it.
- Local variables that are read before they are assigned: the language gives them no value.
- Wording and layout of messages and of assembly; `malloc` or `fopen` of the output file
  that fails; leaks of type nodes; `hash_string`'s values (a constant); the sample programs.

## 6. Plan

Done: `Scratch`, `Ast`, `Codegen`, `CodegenProofs`, `Resolve`, `HashTable` over `Dictionary`,
`Scoping`, `TypeCheck`, `Typing`; then `Machine` on top of `Codegen`, `Printing` and `Grammar`, and `Driver` on top
of both. The MC modules extend what they check.

Proved: the registers, the causes of each exit, the written text, its sections and its labels, the slots
and the frames, what names are bound to and which programs are in error or crash name resolution, the hash
table and its refinement, the type checker's types, crashes and, without `auto`, its verdict; the exit
status (section 4). Left: the verdict on programs with `auto`, and what compiled programs mean.
