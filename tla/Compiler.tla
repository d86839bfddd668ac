------------------------------- MODULE Compiler -------------------------------
(***************************************************************************)
(* lib/compiler/compiler.c: from syntax trees to bytecode.                 *)
(*                                                                         *)
(* The compiler is a record c that every operator takes and returns.       *)
(* c.scopes holds, outermost first, a CompilerScope, the SymbolTable       *)
(* opened with it (compiler->symbols is the last one's), and todo: what    *)
(* the C functions active in that scope have still to do, the next task    *)
(* first.  Where compiler.c calls itself for a part of the tree, a task    *)
(* for that part is put before the others, and what is done after the call *)
(* is a task too, which carries the locals it needs.  A PANIC sets         *)
(* c.panic: the process has aborted.                                       *)
(***************************************************************************)
EXTENDS Bytecode, Ast, SequencesExt

CONSTANTS
  MaxCompilerScopes,        \* MAX_COMPILER_SCOPES
  MaxCompilerSymbolTables,  \* MAX_COMPILER_SYMBOL_TABLES
  MaxCompilerSymbols,       \* MAX_COMPILER_SYMBOLS
  MaxCompileDepth,          \* MAX_COMPILE_DEPTH
  MaxBytecodeInstructions,  \* MAX_BYTECODE_INSTRUCTIONS
  MaxBytecodeConstants,     \* MAX_BYTECODE_CONSTANTS
  MaxFunctionLocals,        \* MAX_FUNCTION_LOCALS
  MaxFunctionParameters     \* MAX_FUNCTION_PARAMETERS

ASSUME CompilerAssumption ==
  /\ MaxCompilerScopes \in Nat \ {0}
  /\ MaxCompilerSymbolTables \in Nat \ {0}
  /\ {MaxCompilerSymbols, MaxCompileDepth, MaxBytecodeInstructions,
      MaxBytecodeConstants, MaxFunctionLocals, MaxFunctionParameters} \subseteq Nat

CompilerCapacityFaults ==
  {"scope capacity", "symbol table capacity", "symbol capacity",
   "local capacity", "free variable capacity", "instruction capacity",
   "constant capacity", "parameter capacity", "argument capacity",
   "compiler depth"}

(* The PANICs with which compiler.c checks itself. *)
CompilerInternalFaults ==
  {"empty scope", "jump position", "leaving the global scope",
   "not in the global scope"}

EmptyScope == [instructions |-> << >>, entries |-> << >>, free_symbols |-> << >>,
               definition_count |-> 0, todo |-> << >>]

CompilerInit ==
  [panic |-> "none", constants |-> << >>, functions |-> << >>,
   scopes |-> <<EmptyScope>>, instruction_count |-> 0,
   symbol_table_count |-> 1, symbol_count |-> 0, compile_depth |-> 0]

Failed(c) == c.panic # "none"
Fail(c, why) == IF Failed(c) THEN c ELSE [c EXCEPT !.panic = why]

Level(c) == Len(c.scopes)  \* scope_index, from 1
Scope(c) == c.scopes[Level(c)]
Emitted(c) == Scope(c).instructions

(* Tasks to do next, before those there are. *)
Then(c, tasks) ==
  IF Failed(c) THEN c ELSE [c EXCEPT !.scopes[Level(c)].todo = tasks \o @]

Task(c) == Head(Scope(c).todo)
Begun(c) == [c EXCEPT !.scopes[Level(c)].todo = Tail(@)]

-----------------------------------------------------------------------------
(* Symbols *)

(* The symbol name has in the current table. *)
SymbolOf(c, name) == Scope(c).entries[name]

(* shput *)
Put(entries, name, symbol) ==
  [n \in {name} \union DOMAIN entries |-> IF n = name THEN symbol ELSE entries[n]]

(* Put a symbol into the table of a level. *)
Enter(c, level, name, symbol) ==
  [c EXCEPT !.scopes[level].entries = Put(@, name, symbol),
            !.symbol_count = @ + 1]

(* A name defined again keeps the symbol it has, whatever its scope, unless it
   is the name of the function being compiled. *)
DefineSymbol(c, name) ==
  LET entries == Scope(c).entries
      scope == IF Level(c) = 1 THEN "GLOBAL" ELSE "LOCAL"
      capacity == IF scope = "GLOBAL" THEN MaxCompilerSymbols
                                      ELSE MaxFunctionLocals
      count == Scope(c).definition_count
  IN IF name \in DOMAIN entries /\ entries[name].scope # "FUNCTION" THEN c
     ELSE IF c.symbol_count >= MaxCompilerSymbols THEN Fail(c, "symbol capacity")
     ELSE IF count >= capacity THEN Fail(c, "local capacity")
     ELSE Enter([c EXCEPT !.scopes[Level(c)].definition_count = @ + 1],
                Level(c), name, [scope |-> scope, index |-> count])

DefineFunctionName(c, name) ==
  IF Failed(c) THEN c
  ELSE IF c.symbol_count >= MaxCompilerSymbols THEN Fail(c, "symbol capacity")
  ELSE Enter(c, Level(c), name, [scope |-> "FUNCTION", index |-> 0])

(* What the function at a level knows the next symbol by that it captures. *)
FreeSymbol(c, level) ==
  [scope |-> "FREE", index |-> Len(c.scopes[level].free_symbols)]

(* The function at a level captures a symbol of the level around it. *)
DefineFree(c, level, name, original) ==
  IF Len(c.scopes[level].free_symbols) >= MaxFreeValues
    THEN Fail(c, "free variable capacity")
  ELSE IF c.symbol_count >= MaxCompilerSymbols THEN Fail(c, "symbol capacity")
  ELSE Enter([c EXCEPT !.scopes[level].free_symbols = Append(@, original)],
             level, name, FreeSymbol(c, level))

-----------------------------------------------------------------------------
(* Instructions *)

Emit(c, op, operand, operand2) ==
  IF Failed(c) THEN c
  ELSE IF \/ Len(Emitted(c)) >= MaxBytecodeInstructions
          \/ c.instruction_count >= MaxBytecodeInstructions
    THEN Fail(c, "instruction capacity")
  ELSE [c EXCEPT !.scopes[Level(c)].instructions =
                   Append(@, [op |-> op, operand |-> operand,
                              operand2 |-> operand2]),
                 !.instruction_count = @ + 1]

AddConstant(c, value) ==
  IF Len(c.constants) >= MaxBytecodeConstants THEN Fail(c, "constant capacity")
  ELSE [c EXCEPT !.constants = Append(@, value)]

LastIs(c, op) == Emitted(c) # << >> /\ Last(Emitted(c)).op = op

(* Mutant: the value of a branch stays popped. *)
RemoveNothing(c) == c

RemoveLast(c) ==
  IF Emitted(c) = << >> THEN Fail(c, "empty scope")
  ELSE [c EXCEPT !.scopes[Level(c)].instructions = Front(@)]

ReplaceLast(c, op) ==
  IF Emitted(c) = << >> THEN Fail(c, "empty scope")
  ELSE [c EXCEPT !.scopes[Level(c)].instructions[Len(Emitted(c))].op = op]

(* The operand of a jump whose target is not known yet (UINT32_MAX). *)
Unpatched == 2147483647

(* Mutant: the jump goes to itself. *)
PatchToItself(c, position) ==
  IF Failed(c) THEN c
  ELSE [c EXCEPT !.scopes[Level(c)].instructions[position + 1].operand = position]

(* Make the jump at a position go to the end of the code so far. *)
PatchJump(c, position) ==
  IF Failed(c) THEN c
  ELSE IF position >= Len(Emitted(c)) THEN Fail(c, "jump position")
  ELSE [c EXCEPT !.scopes[Level(c)].instructions[position + 1].operand =
                   Len(Emitted(c))]

EnterScope(c) ==
  IF Level(c) >= MaxCompilerScopes THEN Fail(c, "scope capacity")
  ELSE IF c.symbol_table_count >= MaxCompilerSymbolTables
    THEN Fail(c, "symbol table capacity")
  ELSE [c EXCEPT !.scopes = Append(@, EmptyScope), !.symbol_table_count = @ + 1]

LeaveScope(c) ==
  IF Failed(c) THEN c
  ELSE IF Level(c) = 1 THEN Fail(c, "leaving the global scope")
  ELSE [c EXCEPT !.scopes = Front(@)]

LoadSymbol(c, symbol) ==
  Emit(c, CASE symbol.scope = "GLOBAL"   -> "GET_GLOBAL"
            [] symbol.scope = "LOCAL"    -> "GET_LOCAL"
            [] symbol.scope = "FREE"     -> "GET_FREE"
            [] symbol.scope = "FUNCTION" -> "CURRENT_CLOSURE",
       symbol.index, 0)

(* Mutant: the locals of functions share the globals' slots. *)
StoreGlobal(c, symbol) == Emit(c, "SET_GLOBAL", symbol.index, 0)

(* Only a global symbol is stored with SET_GLOBAL; any other, a captured one
   too, with SET_LOCAL. *)
StoreSymbol(c, symbol) ==
  Emit(c, IF symbol.scope = "GLOBAL" THEN "SET_GLOBAL" ELSE "SET_LOCAL",
       symbol.index, 0)

-----------------------------------------------------------------------------
(* Statements *)

NoName == "no name"  \* function_name == NULL

Statements(stmts) ==
  [k \in DOMAIN stmts |-> [do |-> "STATEMENT", stmt |-> stmts[k]]]

Expressions(exprs) ==
  [k \in DOMAIN exprs |-> [do |-> "EXPRESSION", expr |-> exprs[k], name |-> NoName]]

(* A function is defined before its body is compiled, any other value after. *)
CompileStatement(c, stmt) ==
  LET value(name) == [do |-> "EXPRESSION", expr |-> stmt.value, name |-> name]
      emit(op) == [do |-> "EMIT", op |-> op, operand |-> 0]
  IN CASE stmt.type = "LET" /\ stmt.value.type = "FUNCTION" ->
            LET defined == DefineSymbol(c, stmt.name) IN
            Then(defined, <<value(stmt.name),
                            [do |-> "STORE", symbol |-> SymbolOf(defined, stmt.name)]>>)
       [] stmt.type = "LET" /\ stmt.value.type # "FUNCTION" ->
            Then(c, <<value(NoName), [do |-> "LET", name |-> stmt.name]>>)
       [] stmt.type = "RETURN" -> Then(c, <<value(NoName), emit("RETURN_VALUE")>>)
       [] stmt.type = "EXPR"   -> Then(c, <<value(NoName), emit("POP")>>)

CompileLet(c, name) ==
  LET defined == DefineSymbol(c, name) IN
  StoreSymbol(defined, SymbolOf(defined, name))

-----------------------------------------------------------------------------
(* Expressions *)

(* Mutant: a branch without a last expression leaves nothing. *)
EndBranchWithNothing(c) == IF LastIs(c, "POP") THEN RemoveLast(c) ELSE c

(* A branch leaves one value: its last expression's, or null. *)
EndBranch(c) ==
  IF LastIs(c, "POP") THEN RemoveLast(c)
  ELSE IF ~LastIs(c, "RETURN_VALUE") THEN Emit(c, "NULL", 0, 0)
  ELSE c

CompileConsequence(c, consequence, alternative) ==
  Then(Emit(c, "JUMP_NOT_TRUTHY", Unpatched, 0),
       Append(Statements(consequence),
              [do |-> "ALTERNATIVE", stmts |-> alternative,
               jump_if_false |-> Len(Emitted(c))]))

(* Without an else there is nothing but the null. *)
CompileAlternative(c, stmts, jump_if_false) ==
  LET consequence == EndBranch(c) IN
  Then(PatchJump(Emit(consequence, "JUMP", Unpatched, 0), jump_if_false),
       Append(Statements(stmts),
              [do |-> "END_IF", jump_end |-> Len(Emitted(consequence))]))

EndIf(c, jump_end) == PatchJump(EndBranch(c), jump_end)

(* The scope around the function waits until its body is compiled. *)
CompileFunction(c, expr, function_name) ==
  LET count == Len(expr.parameters)
      entered == EnterScope(Then(c, <<[do |-> "FUNCTION", parameter_count |-> count]>>))
      named == IF function_name = NoName THEN entered
               ELSE DefineFunctionName(entered, function_name)
      parameters ==
        [k \in 1 .. count |-> [do |-> "DEFINE", name |-> expr.parameters[k]]]
  IN IF count > MaxFunctionParameters THEN Fail(named, "parameter capacity")
     ELSE Then(named, parameters \o Statements(expr.body))

(* Mutant: a body without a last expression does not return. *)
EndBodyRunningOff(c) ==
  IF LastIs(c, "POP") THEN ReplaceLast(c, "RETURN_VALUE") ELSE c

(* A body returns its last expression's value, or null. *)
EndBody(c) ==
  LET replaced == IF LastIs(c, "POP") THEN ReplaceLast(c, "RETURN_VALUE") ELSE c IN
  IF LastIs(replaced, "RETURN_VALUE") \/ LastIs(replaced, "RETURN") THEN replaced
  ELSE Emit(replaced, "RETURN", 0, 0)

(* The rest of compiler_compile_function, when the body is compiled. *)
EndFunction(c) ==
  LET body == EndBody(c)
      scope == Scope(body)
      outer == LeaveScope(body)
      function == [instructions |-> scope.instructions,
                   local_count |-> scope.definition_count,
                   parameter_count |-> Task(outer).parameter_count]
      loads == [k \in DOMAIN scope.free_symbols |->
                  [do |-> "LOAD", symbol |-> scope.free_symbols[k]]]
  IN IF Failed(outer) THEN outer
     ELSE Then(Begun(outer),
               Append(loads, [do |-> "CLOSURE", function |-> function,
                              free_count |-> Len(scope.free_symbols)]))

MakeClosure(c, function, free_count) ==
  LET added == AddConstant([c EXCEPT !.functions = Append(@, function)],
                           [type |-> "COMPILED_FUNCTION",
                            data |-> Len(c.functions) + 1])
  IN Emit(added, "CLOSURE", Len(c.constants), free_count)

CompileArguments(c, arguments) ==
  IF Len(arguments) > MaxFunctionParameters THEN Fail(c, "argument capacity")
  ELSE Then(c, Append(Expressions(arguments),
                      [do |-> "EMIT", op |-> "CALL", operand |-> Len(arguments)]))

(* What a name was found to be at a level: every function between there and the
   use captures it, the outermost first, unless it is global. *)
Resolved(c, name, level, symbol) ==
  IF level = Level(c) \/ symbol.scope = "GLOBAL" THEN LoadSymbol(c, symbol)
  ELSE Then(c, <<[do |-> "CAPTURE", name |-> name, level |-> level + 1,
                  symbol |-> symbol]>>)

Capture(c, name, level, symbol) ==
  Resolved(DefineFree(c, level, name, symbol), name, level, FreeSymbol(c, level))

(* compiler_resolve_symbol looks a name up from the current scope outwards. *)
CompileIdent(c, name) ==
  LET levels == {l \in 1 .. Level(c) : name \in DOMAIN c.scopes[l].entries} IN
  IF levels = {} THEN Fail(c, "identifier not found")
  ELSE Resolved(c, name, Max(levels), c.scopes[Max(levels)].entries[name])

InfixOp ==
  [PLUS |-> "ADD", MINUS |-> "SUBTRACT", ASTERISK |-> "MULTIPLY",
   SLASH |-> "DIVIDE", EQUAL |-> "EQUAL", NOT_EQUAL |-> "NOT_EQUAL",
   LT |-> "LESS_THAN", GT |-> "GREATER_THAN"]

CompileExpression(c, expr, function_name) ==
  LET inner == Then([c EXCEPT !.compile_depth = @ + 1], <<[do |-> "LEAVE"]>>)
      emit(op) == <<[do |-> "EMIT", op |-> op, operand |-> 0]>>
  IN IF c.compile_depth >= MaxCompileDepth THEN Fail(c, "compiler depth")
     ELSE CASE expr.type = "IDENT" -> CompileIdent(inner, expr.ident)
            [] expr.type = "INT" ->
                 Emit(AddConstant(inner, IntegerValue(expr.integer)), "CONSTANT",
                      Len(inner.constants), 0)
            [] expr.type = "BOOL" ->
                 Emit(inner, IF expr.boolean THEN "TRUE" ELSE "FALSE", 0, 0)
            [] expr.type = "PREFIX" ->
                 Then(inner, Expressions(<<expr.right>>) \o emit(expr.op))
            [] expr.type = "INFIX" ->
                 Then(inner, Expressions(<<expr.left, expr.right>>)
                               \o emit(InfixOp[expr.op]))
            [] expr.type = "IF" ->
                 Then(inner, Append(Expressions(<<expr.condition>>),
                                    [do |-> "CONSEQUENCE",
                                     consequence |-> expr.consequence,
                                     alternative |-> expr.alternative]))
            [] expr.type = "FUNCTION" -> CompileFunction(inner, expr, function_name)
            [] expr.type = "CALL" ->
                 Then(inner, Append(Expressions(<<expr.function>>),
                                    [do |-> "ARGUMENTS", exprs |-> expr.arguments]))

LeaveExpression(c) == [c EXCEPT !.compile_depth = @ - 1]

-----------------------------------------------------------------------------
(* Mutants: what should last for the process is set up again for each line:
   the constants, the count of instructions, the global symbols. *)
CompileDroppingConstants(c, stmts) ==
  [c EXCEPT !.scopes[1].instructions = << >>, !.constants = << >>,
            !.scopes[1].todo = Statements(stmts), !.compile_depth = 0]
CompileCountingAgain(c, stmts) ==
  [c EXCEPT !.scopes[1].instructions = << >>, !.instruction_count = 0,
            !.scopes[1].todo = Statements(stmts), !.compile_depth = 0]
CompileForgettingNames(c, stmts) ==
  [c EXCEPT !.scopes = <<[EmptyScope EXCEPT !.todo = Statements(stmts)]>>,
            !.compile_depth = 0]

(* compiler_compile: the global code starts empty for every line; constants,
   global symbols and all the counts go on from the line before. *)
Compile(c, stmts) ==
  IF Level(c) # 1 THEN Fail(c, "not in the global scope")
  ELSE [c EXCEPT !.scopes[1].instructions = << >>,
                 !.scopes[1].todo = Statements(stmts), !.compile_depth = 0]

Compiled(c) == Level(c) = 1 /\ Scope(c).todo = << >>

BytecodeOf(c) == [instructions |-> c.scopes[1].instructions,
                  constants |-> c.constants, functions |-> c.functions]
===============================================================================
