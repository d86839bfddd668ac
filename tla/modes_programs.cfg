SPECIFICATION ModesSpec
CONSTANTS
  MaxVmStackValues = 16
  MaxVmGlobals = 24
  MaxVmFrames = 5
  MaxVmClosures = 6
  MaxFreeValues = 2
  MaxInt = 3
  MaxCompilerScopes = 4
  MaxCompilerSymbolTables = 12
  MaxCompilerSymbols = 24
  MaxCompileDepth = 12
  MaxBytecodeInstructions = 60
  MaxBytecodeConstants = 24
  MaxFunctionLocals = 4
  MaxFunctionParameters = 2
  MaxEnvironments = 24
  MaxBindings = 30
  MaxEvalDepth = 16
  MaxCallDepth = 16
  Lines <- Programs
  Exprs <- LineExprs
  Stmts <- LineStmts
  MaxLines = 1
INVARIANTS
  ModesAgree
  DepthsBalanced
  CompilesVerified
  NoInternalPanic
CHECK_DEADLOCK FALSE
