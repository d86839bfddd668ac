# Foo, in TLA+

Foo (the repository beside this directory) runs one small language in two ways:
a tree-walking interpreter, and a compiler to bytecode with a stack machine.
These modules specify both, with the lexer, the parser and the allocator below
them, check them with TLC, and prove with TLAPS that the machine, the compiler's
bookkeeping and the allocator are safe and that no text is lost on its way to the
parser.  Source paths below are relative to the repository's root.

## The system

One process, one thread, no I/O but reading source and printing values.  A file
or each line of a REPL goes through the same pipeline; every PANIC aborts the
process.

| part | source | state it keeps | operations |
|---|---|---|---|
| arena | `lib/arena.c` | one 16 MiB region, how much of it is used | alloc, realloc; nothing is ever freed |
| lexer | `lib/lexer.c` | the tokens of the line; the source, which it writes to for a moment | tokenize |
| parser | `lib/parser.c`, `lib/ast.c` | two tokens of look-ahead, depth, node counts | parse: precedence climbing, one function per construct |
| interpreter | `lib/interpreter/evaluator.c` | environments (a chain of bindings each), counts, two depths | evaluate a statement list in an environment |
| compiler | `lib/compiler/compiler.c` | a stack of scopes with symbol tables, the constants, counts | define, resolve, emit, patch; compile a statement list |
| machine | `lib/compiler/vm.c`, `bytecode.c` | stack, globals, frames, closures | one turn of the loop per instruction |
| modes | `main.c` | which mode; evaluator, or compiler and machine, for the whole process | file, REPL line |

How they interact: main gives the parser's tree to `evaluator_evaluate`, or to
`compiler_compile` and the bytecode it returns to `vm_run`.  There are no
callbacks and there is no concurrency.  What makes the system hard is state that
outlives a line or a scope, and invariants that one part keeps for another:

- the machine trusts the compiler for the height of the stack on every path, for
  indices, and for a return at the end of every function;
- the compiler finds the POP to drop at the end of a block by looking at the last
  instruction, patches jumps after nested functions have switched arrays, and
  loads captured variables in the scope around the function;
- between REPL lines some state is reset (main code, stack, frames) and some goes
  on (constants, symbols, globals, closures, all the counts);
- a `return` may sit inside an operand, an argument or a branch, and unwinds
  from there: through EvalResult in one mode, by the base pointer in the other;
- every table has a capacity, several of them for the life of the process;
- arrays grow through `arena_realloc`, which extends the last block in place,
  shrinks others where they are and moves the rest, going by the size in a header
  before the block;
- `fgets` cuts a session's input into pieces, each lexed and parsed by itself with
  one lexer and one parser whose counts and depth must start anew;
- both modes are meant to be the same language.

What makes each part correct:

- arena: blocks of different owners never overlap, headers are true, contents
  survive growing and moving;
- lexer: no character lost, tokens as long as they can be and at the line and
  column given, every character moves on or aborts;
- parser: what it accepts is what the grammar derives, with that tree; what is
  written down comes back, unless it is too large, and then it is refused;
- machine: well-formed whatever it runs; disciplined and without internal faults
  on what the compiler emits; a function leaves its callers alone; it ends;
- compiler: emits only what the machine can trust, also at its limits, and what
  it emitted for earlier lines stays valid;
- interpreter: depths balanced on every way out, counts exact;
- modes: the same result, or an abort for the same reason.

`PROJECT.json` lists the hazards with their lines and the properties that cover
them.

## Modules

| module | models | how its state and actions correspond |
|---|---|---|
| `Storage` | what the program takes the arena for | not code: a block for each client, which nobody else changes |
| `Arena` | `arena.c` and those who use it | memory cell by cell, a pointer is an offset; `Alloc` and the four `Realloc` actions are the branches of the two functions, `Exhaust` their PANICs; a client writes where it may and forgets (`STBDS_FREE` does nothing) |
| `Arena_proofs` | theorems | see below |
| `Lexer` | `lexer.c` | the variables are those of `lexer_tokenize`, `tokens` and the source itself; each action of `LexStep` is one turn of its loop. A character is a string of one, `Others` stands for those the code has no case for; the text of a symbol is `TokenString` of its type, as in `push_token` |
| `Reader` | `read_file`, the `fgets` loops and `parse_source` of `main.c` | `ReadFile` and `ReadLine` start the lexer on a piece; `handed` is what the parser was given so far |
| `Reader_proofs` | theorems | see below |
| `Parser` | `parser.c`, capacities of `ast.c` | the `Parser` struct is a record threaded through one operator per C function; a PANIC sets its `panic` field and stops it |
| `Grammar` | the reference for the parser | not code: what derives from what, by precedence, over all ways to split a token sequence; how a tree is spelled, how deep and how large it is |
| `Parsing` | one parser for a session | `ParseLine` is `parser_parse` on the tokens of one more line |
| `Int64` | int64_t | `MaxInt` stands for INT64_MAX; results are never wrapped, overflow is a PANIC in the code. `TooLarge` is the parser's test for literals |
| `Operations` | the operators of `vm.c` on values | results, and the reasons to abort |
| `Bytecode` | `bytecode.c` | values are a type and a number; an instruction is its opcode and two operands |
| `Vm` | `vm.c` | the variables are the fields of `Vm`, the arrays whole, also above their counts; `VmRun` is `vm_run` up to its loop, each action of `VmStep` one turn of it, `Abort` a PANIC. `Fault` gathers the PANIC conditions opcode by opcode, in the code's order |
| `Verifier` | the contract between compiler and machine | not code: an abstract interpretation of the stack height, one pass, conditions on one instruction and its successors at a time |
| `VmSafety` | the machine by itself, on any set `Bytecodes` of lines | adds `RunLine`: a later line extends the constants and functions of the earlier ones |
| `Activations` | the machine as its bytecode is meant | not code: every call has its own locals and operands; no shared stack, no base pointer, no check, no capacity |
| `VmActivations` | the refinement mapping from `Vm` | locals and operands of call k are the slots from its base pointer to the callee of call k + 1 |
| `VmSafety_proofs`, `VmActivations_proofs` | theorems | see below; `VmSafety_proofs` also has the one about `TooLarge` |
| `Ast` | `ast.c` | constructors; positions left out, a missing else and an empty one are the same NULL in the parser |
| `Compiler` | `compiler.c` | the `Compiler` struct is a record; a PANIC sets its `panic` field and stops it. Where a C function calls itself for a part of the tree, it puts tasks on the `todo` list of the current scope: one for that part, one for what it does after the call, with the locals it needs. A handler is an operator from a compiler to a compiler, and none is recursive |
| `CompiledMode` | compiler and machine, `main.c` | `ReadLine` enters `compiler_compile`, each disjunct of `CompileStep` is one task, `CompileEndFunction` the end of a function literal, `RunCompiled` the way from the compiler into `vm_run`, `Execute` one instruction |
| `Compiler_proofs`, `CompiledMode_proofs`, `CompilesVerified_proofs`, `CompiledMachine_proofs` | theorems | see below; `CompiledMachine_proofs` also has the mapping from `CompiledMode` to the machine of `VmSafety` |
| `Evaluator` | `evaluator.c` | a record threaded through one recursive operator per C function; environments are numbered in order of allocation |
| `Modes` | both modes of `main.c` on the same lines | the interpreter evaluates a line in the step in which the compiled mode reads it |
| `MCVm`, `MCPrograms`, `MCCompiled`, `MCModes`, `MCReader`, `MCParsing` | instances for TLC | hand-written bytecode; about 2200 programs, the lines of REPL sessions; texts; token sequences |

A pointer to a closure, an environment or a compiled function is its number; the
`functions` table has no counterpart in C, where constants point to functions
directly.  `UINT32_MAX`, the target of a jump not yet patched, is the largest
number TLC has.  An operator whose comment says *Mutant* is the code with a
plausible bug in it: it is not used by the specifications, and stands before the
definition it would replace, which the named property of a run then refutes
(`PROJECT.json`, "mutants").

## Runs

| run | question | size |
|---|---|---|
| `vm_any` | `TypeOK`, `ValuesSound`, `FrameBasePositive`: what holds whatever bytecode is given, most of it wrong | 59 thousand states |
| `vm_verified` | `StackDiscipline`, `NoInternalFault`, `CallerSlotsKept` on the lines that verify, and `ImplementsActivations`: nothing one call does to the stack, or leaves in it, is seen by another | 16 thousand |
| `modes_programs` | `ModesAgree`, `DepthsBalanced`, `CompilesVerified`, `NoInternalPanic` on each program as a file | 158 thousand |
| `modes_sessions` | `ModesAgree`, `BindingsCounted`, `BytecodeGrows` on every session of up to four lines out of sixteen | 241 thousand |
| `compiled_limits` | `CompilesVerified`, `InstructionsCounted`, `GlobalsKeepTheirSlots`, `LinesEnd` where capacities run out | 101 thousand |
| `arena` | `ArenaTypeOK`, `BlocksApart`, `HeadersIntact`, `PointersAligned`, `ImplementsStorage` for three clients in any order | 54 thousand |
| `reader` | `ReaderTypeOK`, `TokensInPlace`, `NothingLost`, `LinesArriveWhole`, `ReadsToTheEnd` on files and sessions | 40 thousand |
| `parser` | `ParsedAsWritten`, `SpellingParsesBack`, `NodesCounted` on one line and on a second one after it | 19 thousand |

Deadlock is not checked: a session may be over, and an abort is final.

What the parts hand on is checked where it is made: `reader` ends with the tokens
the parser is given, `parser` with the trees the modes start from (among its lines
are all the programs of `modes_programs`, spelled out), the modes with the value
printed.

**Bounds.**  `MaxInt` is 1 to 3, so that every overflow, MinInt / -1 and its
negation included, is a few operations away.  In `vm_any` and `vm_verified` the
machine has six stack slots, three frames, two closures and one free value:
room for a call two deep that does and one that does not find its locals, and
for each capacity to run out.  In `modes_programs` they are large enough for
the programs, apart from recursion without end, which meets `MaxVmFrames` and
the environments or the evaluation depth.  In `modes_sessions` `MaxLines` is
four: defining, redefining, calling and looking at the result need no more.
`compiled_limits` has three scopes, two locals, one capture, five symbols and 24
instructions: each of the compiler's capacity PANICs fires in it.  As in the C
code, `MaxVmGlobals` is not below `MaxCompilerSymbols` and `MaxCallDepth` is not
below `MaxEvalDepth`.

The `arena` has twelve cells with headers of two, aligned to two, for three clients
that ask for 0, 1 or 3: blocks of odd sizes, a last block to extend, one to shrink in
place, one to move, and exhaustion in each of them.  In `reader` a piece has at
most four characters and there is room for five tokens; the texts are all those
of up to three characters out of eight kinds, up to six over smaller alphabets,
and some chosen ones, so that words, numbers and `==` meet the end of a piece, of
a line and of the source at every offset.  The `parser` run has `MaxInt` 12, a
depth of seven, 25 nodes, nine statements and five list items, with every sequence
of three tokens out of nineteen, every one of five out of the operators and
parentheses, all literals of up to three out of five digits, programs, some of them with one
token removed or cut short, and chains and nestings on both sides of each capacity; a session has two
lines (`MaxLines`), enough for a count that is not reset to show.

**Programs.**  A program is `let a = ..; let f = fn(p) { .. }; <call>`, with
every combination of four values, 111 bodies (arithmetic that overflows,
divides by zero or mixes types, branches with and without else, returns inside
operands and branches, captures one and two functions deep, local rebinding,
five kinds of recursion) and five calls, one of them with the wrong number of
arguments and one of a result that may not be a function.

**Fairness.**  `LinesEnd` needs `WF(GoOn)`, the steps of the compiler and of the
machine: `compiler_compile` walks the tree and `vm_run` is a loop, both go on by
themselves and nothing else can run meanwhile; a new line is never required.
`ReadsToTheEnd` needs `WF(ReaderNext)`: the loop of `lexer_tokenize` runs by itself,
and the input of the session is a text that is already there for `fgets`, which
returns the next piece of it as soon as it is called; the session ends where the
text does.

## What the runs found

`ModesAgree` is what README.md says of the two modes.  It holds of the programs
and sessions above; four runs show where it does not:

- `modes_rebinds_captured`: a `let` of a captured name, inside the function that
  captured it, overwrites an unrelated local (`compiler.c:278`), here a
  parameter.  A bug: the value is wrong under any reading of the language.
- `modes_ends_with_let`: a program that ends with a `let` shows the value of the
  statement before it in compiler mode, null in interpreter mode.
- `modes_later_global`: a function using a global that is defined later does not
  compile; the interpreter runs it.
- `modes_rebinds_after_capture`: a closure does not see a captured local bound
  again, because its value was copied; in the interpreter it does.

The programs and sessions of the passing runs avoid these constructs, and the
following ones, on which the modes differ too and for which there is no run: the
same name twice among a function's parameters; a function's own name bound again
while an older closure of it lives on; a name bound only in a branch not taken;
a `return` in an argument of something that cannot be called.  Programs that
exhaust a capacity in one mode are left out of `ModesAgree`: the interpreter
keeps an environment for every call ever made.

Of reading, the model shows three things a user may not expect; none contradicts
a document.  A line of exactly `LineBytes - 1` characters leaves its newline for
the next `fgets`, so it is followed by an empty line that prints a null of its
own.  A longer one is cut wherever it is, in a token too, and its parts run as
lines.  The rest of a piece after a NUL character is ignored.  `LinesArriveWhole`
and `NothingLost` say so in their hypotheses.  A panic of a later stage ends the
session as well; `Reader` goes on, which are the sessions without one.

## Proofs

**Arena.**  Theorems about `ArenaSpec`, for any clients, sizes and bytes, any
capacity, and any positive alignment and word size (`ArenaAssumption`).

- `ArenaTypeCorrect`, `BlocksAlwaysApart`, `HeadersAlwaysIntact`: the three are
  inductive together (`ArenaInv`), none alone.  A write stays out of headers only
  because blocks are apart with their headers; blocks stay apart when one grows or
  shrinks only because the size read in the header is the true one, which decides
  whether the block is the last.  Allocation and moving share the lemma
  `PlacedKeepsInv`, every other action has one of its own.
- `PointersAlwaysAligned`: the end of the arena is aligned before a header is
  placed, and headers are a multiple of the alignment.
- `ArenaImplementsStorage`: every step changes one client's contents at most
  (`OnlyMine`, from the blocks being apart), and what is kept of a block that
  changes its size is what it held (`KeptIsResized`).

**Literals.**  `LiteralGuardExact` (in `VmSafety_proofs`): `parse_integer`'s test by division refuses a digit if and
only if the literal with it is above `MaxInt`.

**Reader.**  Theorems about `ReaderSpec`, for any texts over any letters, digits and
illegal characters (`LexerAssumption` keeps these apart from each other and from the
characters the code names), any capacities and any line buffer of two bytes or more
(`ReaderAssumption`).

- `ReaderTypeCorrect`: `ReaderTypeOK` is not inductive alone, because a lexeme is
  copied with `strlen` out of a source that has been cut.  `ReaderInv` adds that text
  and source are made of characters and that the source's first NUL is at `length`
  (`SourceOK`).  With it `copy_lexeme` copies exactly the characters from the position
  to the end of the lexeme (`LexemeIs`) and leaves the source as it was
  (`RestoredIs`).  The searches of the model (`EndOf`, `Fgets`, `CString`) find
  something because a set of natural numbers has a least element.
- `TokensAlwaysInPlace`: symbols, words and numbers are brought to one form,
  `TakesToken`, which says what a turn of the loop that takes a token does
  (`TurnsOfLoop` lists the turns).  A line and a column determine a position
  (`OnePosition`, by counting the newlines before it), so a token names the place it
  stands at, and the tokens stay in place when the lexer moves over blanks
  (`InPlaceOverBlanks`) or takes one more (`InPlaceWithOneMore`).
- `NothingIsLost`: the text of the tokens taken and what is left of the piece are
  together the same at every turn (`Taken`, `TurnsKeepTaken`): a blank vanishes, a
  lexeme moves from one side to the other, and at the end the tokens have it all.
  What is left to prove is that `ReadLine` splits the unread text into the piece, at
  most a newline, and the rest (`LineTaken`, `SeenInPieces`), for which no NUL may be
  in it (`PiecesOK`).  `Visible` and `TextOf` take sequences that are joined to
  sequences that are joined (`FlattenConcat`).
- `LinesAlwaysWhole`: between pieces the unread text begins where line number
  `Begun` + 1 does, or is over with `Begun` the number of lines; while a piece is
  lexed, `Taken` is what is visible of line number `Begun` (`LineByLine`).  If a line
  with its newline fits the buffer, `fgets` ends where the line does
  (`FgetsTakesLine`).

**Machine.**  These theorems are about `VmSafety!Spec`: any number of lines, any constants that
satisfy `VmAssumption` (natural numbers, the sizes of the arrays and `MaxInt`
positive), any set of bytecode that is well-formed (`BytecodesAssumption`).

- `TypeCorrect`, `ValuesAlwaysSound`: `TypeOK` is not inductive alone, since a
  call writes a frame for the closure it finds on the stack; the two are proved
  together, one lemma per action.
- `FrameBaseAlwaysPositive`: from those two; a call leaves its callee below.
- `StackAlwaysDisciplined`, `VerifiedNeverFaults`, `CallersUntouched`, each under
  `AllVerified`: every line given to the machine passes the verifier.  The
  inductive invariant is `Inv`, which adds to the above that every closure's code
  belongs to the verified functions and has the free values it reads
  (`LiveCodeVerified`), that no value is the main closure, so the main frame is
  the only one without a callee (`MainClosureHidden`), and `StackDiscipline`
  itself: a return is safe only because the *waiting* frames are where the
  verifier's height for their next instruction puts them.  `VerifiedFault` then
  shows that verified code in a disciplined state trips none of the internal
  PANICs.
- `VmImplementsActivations`, under `AllVerified` too: the one stack, with its base
  pointers and what earlier calls left in it, is seen through the mapping of
  `VmActivations` as calls with locals and operands of their own.  Beside `Inv` the
  invariant needs that the frames do not overlap (`FramesApart`: each starts above
  the locals of all below it, with room for its callee), which is inductive
  (`NextKeepsApart`) because a call places its frame at the height the verifier
  allows.  Every action maps to the action of the same name, `RunLine` to `Run`, and
  `Abort` to `Abort`: what the abstract machine would refuse is refused for the same
  reason (`SameFaults`), and of the rest verified code leaves only the lack of room
  (`VerifiedStepFault`).  The hard steps are the call and the return, which cut the
  caller's operands at the new frame and join them again with the result
  (`CallImplements`, `ReturnToCallerImplements`).  Slices of the stack are compared
  as rows, by length and elements, since the provers do not see that two ways to
  build a sequence agree.

**Compiler.**  Theorems about `CompiledSpec`, for any finite or infinite sets of syntax
trees that are what a parser makes (`SyntaxAssumption`), any lines, any capacities
(`CompilerAssumption`), with `MAX_COMPILER_SYMBOLS` at most `MAX_VM_GLOBALS`
(`GlobalsAssumption`; both are 32 * 1024 in the code).

`Compiler_proofs` says of each operator of `Compiler` what comes of it, as a relation
between the compiler before and after (`Emits`, `Patches`, `Removes`, `Defines`,
`Captures`, `Opens`, `Closes`, ...) or that it stops for a reason of the program's or a
capacity (`Stops`).  `CompiledMode_proofs` has the inductive invariant, `CompilerInv`,
and the theorems:

- `CompilerSane`: `CompilerInv` always holds.  Its heart is `Sane`: every task finds
  what it needs (`Placed`: a jump to patch is in the code of its own scope at the
  position the task carries, also after nested functions have come and gone and after
  POPs were taken back; a scope around an open function waits with the task that
  resumes it, and loads what was captured before it makes the closure), every
  instruction is counted (`Counted`, also the code of a function that has left its
  scope and is not yet a constant), and globals have slots of their own (`Globals`).
  All steps inside one function are brought to one form, `Moves`, which says what they
  may do to the state; `TaskSteps` goes through the kinds of task.
- `CompilerNeverBlamesItself`: the four PANICs with which compiler.c checks itself
  are not among the reasons for which it stops (`Stops`).
- `InstructionsAlwaysCounted`: from `Counted`; `TotalLength` is a recursive function,
  so its sums are shown to exist, to be unique, and to be what the lemmas compare
  (`TotalIs`, `TotalSame`, `TotalMore`).
- `BytecodeOnlyGrows`: what the machine was given stays the beginning of what the
  compiler has, whatever it does later; this is what `RunLine` asks of a session.
- `GlobalsAlwaysKeepTheirSlots`: a name keeps the symbol it has, a new one takes the
  next slot (`Defines`), and captured symbols go into functions' tables only.

**What the compiler emits.**  `CompilesVerified_proofs`, about `CompiledSpec` too, with
the same assumptions.

- `CompilesBalanced`: in what is handed to the machine all paths to an instruction
  agree on the height there, every instruction finds the values it takes, and every
  function returns.  This needs no hypothesis on the program.  `Heights` is a
  recursive function of the code, so it is first characterized: it is unique
  (`PassesUnique`), and whoever has consistent heights for forward jumps has those
  that it computes (`ConsistentAgrees`).  The inductive invariant is `Aligned`: in every
  open scope the code so far has consistent heights (`Fit`), with the jumps still to be
  patched left open (`Awaited`, one for each task that will patch one), and the tasks
  on the `todo` list lead from the height reached to the height the scope must end at
  (`PathTo`: an expression adds one value, a statement none, a call takes its
  arguments, ...).  The difficulty is `compiler_remove_last`: a block takes back the POP
  of its last statement, so `EndsWell` says what the last instruction may be where a
  block can end, and that no jump leads behind it.  Each task replaces itself by code
  and tasks that lead to the same height (`Follows`).
- `CompilesVerifiedUnlessBound`: then also every operand is one its function or the
  bytecode has, and every closure is made with the free values its code reads, so
  `CompilesVerified` always holds, *under the hypothesis* `CapturesNotBound`: no `let`
  binds a name that its function has captured.  The hypothesis is what the code needs,
  and no more than the finding of `modes_rebinds_captured` is about: there the position
  of a captured value is stored to as if it were a local's.  It holds in every state of
  `modes_programs`, `modes_sessions` and `compiled_limits`, whose programs capture
  values and bind names in the functions that capture them, and fails on the program of
  that finding.  The invariant is `Named`: symbols, tasks and instructions carry slots
  that exist (`SymbolFits`, `TaskFits`, `InstructionFits`; a captured symbol fits the
  scope around, where its value is loaded before the closure is made), and what has
  left its scope as a function reads no more free values than its closure is made with.

**The program.**  `CompiledMachine_proofs` joins the two: `CompiledMode` implements
`VmSafety` with `Bytecodes` all the bytecode that is well-formed and verified.  The
mapping (`VM`) is the identity but for `panic`, which is the machine's only while the
compiler has not failed (`MachinePanic`).  `RunCompiled` is a `RunLine` by
`CompilesVerifiedUnlessBound`'s invariant and `BytecodeOnlyGrows`, `Execute` a step of
the machine, and compiling is a stutter.  With the hypothesis `CapturesNotBound` it
follows, for every session of any length, that

- `CompiledModeImplementsVm`: all that is proved of the machine holds of the program;
- `NoInternalPanicUnlessBound`: no PANIC of `compiler.c` or `vm.c` about its own
  bookkeeping is ever reached (`NoInternalPanic`);
- `CompiledModeImplementsActivations`: the calls of a program behave as if each had
  locals and operands of its own.

Only model-checked, and why: `LinesEnd` and `ReadsToTheEnd` are liveness under
fairness, which TLAPS does not reach here; `Parser`, `Grammar` and `Evaluator` are
recursive over tokens or syntax trees, and what a recursive definition computes for
every input needs an induction the provers cannot instantiate; so the parser's
properties, `ModesAgree`, `DepthsBalanced` and `BindingsCounted` stay with TLC.

## Not modelled, and the plan

Every source file is modelled.  Left out: `parse_options` (`main.c:50-75`), which
chooses mode and path once and keeps no state; failures of `fopen`, `fseek` and
`fread`, which abort before anything is read; the containers of stb_ds.h, used
through their interface as sequences and maps; the sizes of C objects, and so when
the arena is full; source positions after the lexer; the text of messages.

What is left to do, in the order of its weight:

1. The interpreter in small steps, with proofs of its depths and counts.
