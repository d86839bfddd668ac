SPECIFICATION Spec
CONSTANTS
  MaxVmStackValues = 6
  MaxVmGlobals = 1
  MaxVmFrames = 3
  MaxVmClosures = 2
  MaxFreeValues = 1
  MaxInt = 1
  Bytecodes <- VerifiedBytecodes
INVARIANTS
  StackDiscipline
  NoInternalFault
PROPERTIES
  CallerSlotsKept
  ImplementsActivations
CHECK_DEADLOCK FALSE
