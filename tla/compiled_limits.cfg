SPECIFICATION CompiledSpec
CONSTANTS
  MaxVmStackValues = 4
  MaxVmGlobals = 5
  MaxVmFrames = 3
  MaxVmClosures = 3
  MaxFreeValues = 1
  MaxInt = 2
  MaxCompilerScopes = 3
  MaxCompilerSymbolTables = 4
  MaxCompilerSymbols = 5
  MaxCompileDepth = 5
  MaxBytecodeInstructions = 24
  MaxBytecodeConstants = 5
  MaxFunctionLocals = 2
  MaxFunctionParameters = 1
  Lines <- LimitLines
  Exprs <- LineExprs
  Stmts <- LineStmts
  MaxLines = 4
INVARIANTS
  CompilesVerified
  InstructionsCounted
PROPERTIES
  GlobalsKeepTheirSlots
  LinesEnd
CHECK_DEADLOCK FALSE
