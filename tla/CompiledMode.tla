----------------------------- MODULE CompiledMode -----------------------------
(***************************************************************************)
(* foo --compiler: the compiler and the virtual machine together           *)
(* (run_compiler_repl, run_compiler_file).  A session is up to MaxLines    *)
(* lines; the compiler, the globals and the closures live as long as the   *)
(* process, everything else is set up again for each line.  A line is      *)
(* first compiled, one task of the compiler in each step, and then run,    *)
(* one instruction in each step.                                           *)
(***************************************************************************)
EXTENDS Verifier, Compiler

CONSTANTS
  Exprs, Stmts,  \* the syntax trees of a session, with all their parts
  Lines,         \* the statements a line can parse to
  MaxLines       \* bound on the length of a session

(* What the parser makes of an expression: ast.c, and the operators that have a
   precedence in parser.c. *)
IsExpr(e) ==
  \/ e.type = "IDENT" /\ e.ident \in STRING
  \/ e.type = "INT" /\ e.integer \in 0 .. MaxInt
  \/ e.type = "BOOL" /\ e.boolean \in BOOLEAN
  \/ e.type = "PREFIX" /\ e.op \in {"BANG", "MINUS"} /\ e.right \in Exprs
  \/ e.type = "INFIX" /\ e.op \in DOMAIN InfixOp /\ {e.left, e.right} \subseteq Exprs
  \/ /\ e.type = "IF"
     /\ e.condition \in Exprs
     /\ e.consequence \in Seq(Stmts)
     /\ e.alternative \in Seq(Stmts)
  \/ e.type = "FUNCTION" /\ e.parameters \in Seq(STRING) /\ e.body \in Seq(Stmts)
  \/ e.type = "CALL" /\ e.function \in Exprs /\ e.arguments \in Seq(Exprs)

IsStmt(s) ==
  /\ s.type \in {"LET", "RETURN", "EXPR"}
  /\ s.value \in Exprs
  /\ s.type = "LET" => s.name \in STRING

ASSUME SyntaxAssumption ==
  /\ \A e \in Exprs : IsExpr(e)
  /\ \A s \in Stmts : IsStmt(s)
  /\ Lines \subseteq Seq(Stmts)

(* MAX_COMPILER_SYMBOLS and MAX_VM_GLOBALS are both 32 * 1024. *)
ASSUME GlobalsAssumption == MaxCompilerSymbols <= MaxVmGlobals

VARIABLES
  compiler,    \* the Compiler
  compiling,   \* compiler_compile has been entered and has not returned
  line_count   \* lines read, for the bound

compiledVars == <<vmVars, compiler, compiling, line_count>>

CompiledInit ==
  /\ VmInit
  /\ compiler = CompilerInit
  /\ compiling = FALSE
  /\ line_count = 0

(* The next line can be read when the one before it is done. *)
Ready == ~running /\ ~compiling /\ panic = "none" /\ line_count < MaxLines

Enters(stmts) ==
  /\ line_count' = line_count + 1
  /\ compiler' = Compile(compiler, stmts)
  /\ compiling' = TRUE
  /\ UNCHANGED vmVars

ReadLine == Ready /\ \E stmts \in Lines : Enters(stmts)

(* The compiler becomes c; if it failed, the process aborts. *)
Becomes(c) ==
  /\ compiler' = c
  /\ compiling' = ~Failed(c)
  /\ panic' = c.panic
  /\ UNCHANGED <<running, constants, functions, stack, stack_count, globals,
                 frames, frame_count, closures, closure_count, last_popped,
                 line_count>>

(* The next task is begun, if it is one of that kind. *)
Doing(kind) ==
  compiling /\ Scope(compiler).todo # << >> /\ Task(compiler).do = kind

CompileStep ==
  LET c == Begun(compiler)
      task == Task(compiler)
  IN \/ Doing("STATEMENT") /\ Becomes(CompileStatement(c, task.stmt))
     \/ Doing("LET") /\ Becomes(CompileLet(c, task.name))
     \/ Doing("STORE") /\ Becomes(StoreSymbol(c, task.symbol))
     \/ Doing("EXPRESSION") /\ Becomes(CompileExpression(c, task.expr, task.name))
     \/ Doing("LEAVE") /\ Becomes(LeaveExpression(c))
     \/ Doing("EMIT") /\ Becomes(Emit(c, task.op, task.operand, 0))
     \/ Doing("CAPTURE")
          /\ Becomes(Capture(c, task.name, task.level, task.symbol))
     \/ Doing("CONSEQUENCE")
          /\ Becomes(CompileConsequence(c, task.consequence, task.alternative))
     \/ Doing("ALTERNATIVE")
          /\ Becomes(CompileAlternative(c, task.stmts, task.jump_if_false))
     \/ Doing("END_IF") /\ Becomes(EndIf(c, task.jump_end))
     \/ Doing("ARGUMENTS") /\ Becomes(CompileArguments(c, task.exprs))
     \/ Doing("DEFINE") /\ Becomes(DefineSymbol(c, task.name))
     \/ Doing("LOAD") /\ Becomes(LoadSymbol(c, task.symbol))
     \/ Doing("CLOSURE") /\ Becomes(MakeClosure(c, task.function, task.free_count))

(* All of a function's body is compiled. *)
CompileEndFunction ==
  /\ compiling
  /\ Scope(compiler).todo = << >>
  /\ ~Compiled(compiler)
  /\ Becomes(EndFunction(compiler))

(* All of the line is compiled: compiler_compile returns, vm_run is entered. *)
RunCompiled ==
  /\ compiling
  /\ Compiled(compiler)
  /\ compiling' = FALSE
  /\ VmRun(BytecodeOf(compiler))
  /\ UNCHANGED <<compiler, line_count>>

Execute == VmStep /\ UNCHANGED <<compiler, compiling, line_count>>

(* What goes on by itself when a line was read. *)
GoOn == CompileStep \/ CompileEndFunction \/ RunCompiled \/ Execute

CompiledNext == ReadLine \/ GoOn

(* The compiler walks the tree, and vm_run is a loop: both go on by themselves. *)
CompiledSpec ==
  CompiledInit /\ [][CompiledNext]_compiledVars /\ WF_compiledVars(GoOn)

-----------------------------------------------------------------------------
Running == [instructions |-> closures[0].function.instructions,
            constants |-> constants, functions |-> functions]

(* The compiler meets the contract the machine's safety rests on: what it hands
   to vm_run is well-formed and verified, whatever earlier lines left behind in its
   symbol tables and constants.  Jumps are patched into the code of their own
   function, branches leave one value on each path, every function returns, and
   every closure is made with the free values its code reads. *)
CompilesVerified ==
  running /\ frame_count = 1 /\ Frame.instruction_pointer = 0 =>
    IsBytecode(Running) /\ Verified(Running)

(* No PANIC with which the compiler or the machine checks its own bookkeeping is
   reached in compiler mode. *)
NoInternalPanic == panic \notin InternalFaults \union CompilerInternalFaults

(* A closure made by one line still finds its constants while a later line
   runs, because bytecode only grows from line to line: the hypothesis on
   Bytecodes under which VmSafety's theorems speak of this program. *)
BytecodeGrows ==
  [][/\ IsPrefix(constants, constants')
     /\ IsPrefix(functions, functions')]_compiledVars

GlobalEntries(c) == c.scopes[1].entries

(* A global is never forgotten (README.md: "persistent REPL bindings") and keeps
   its slot for the rest of the session, its own slot, below the end of the VM's
   array: compiled functions of earlier lines have it in their code.  No line
   leaves the compiler inside a function. *)
GlobalsKeepTheirSlots ==
  [][~Failed(compiler') =>
       /\ ~compiling' => Level(compiler') = 1
       /\ DOMAIN GlobalEntries(compiler) \subseteq DOMAIN GlobalEntries(compiler')
       /\ \A name \in DOMAIN GlobalEntries(compiler') :
            LET symbol == GlobalEntries(compiler')[name] IN
            /\ symbol.scope = "GLOBAL"
            /\ symbol.index < MaxVmGlobals
            /\ name \in DOMAIN GlobalEntries(compiler) =>
                 symbol = GlobalEntries(compiler)[name]
            /\ \A other \in DOMAIN GlobalEntries(compiler') \ {name} :
                 GlobalEntries(compiler')[other].index # symbol.index]_compiledVars

(* Instructions are counted when they are emitted, for the whole process: the
   code of the functions and of the scopes that are open is never longer than the
   count, which the code never takes down, also when compiler_remove_last
   shortens an array. *)
TotalLength(parts) ==
  LET total[k \in 0 .. Len(parts)] ==
        IF k = 0 THEN 0 ELSE total[k - 1] + Len(parts[k].instructions)
  IN total[Len(parts)]
InstructionsCounted ==
  /\ ~Failed(compiler) =>
       TotalLength(compiler.functions) + TotalLength(compiler.scopes)
         <= compiler.instruction_count
  /\ compiler.instruction_count <= MaxBytecodeInstructions

(* Every line comes to an end: a tree is finite, the language has no loop, compiled
   jumps go forward and MAX_VM_FRAMES bounds recursion. *)
LinesEnd == []<>(~running /\ ~compiling)
===============================================================================
