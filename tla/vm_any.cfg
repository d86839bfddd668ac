SPECIFICATION Spec
CONSTANTS
  MaxVmStackValues = 6
  MaxVmGlobals = 1
  MaxVmFrames = 3
  MaxVmClosures = 2
  MaxFreeValues = 1
  MaxInt = 1
  Bytecodes <- AnyBytecodes
INVARIANTS
  TypeOK
  ValuesSound
  FrameBasePositive
CHECK_DEADLOCK FALSE
