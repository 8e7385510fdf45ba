SPECIFICATION Spec
CONSTANTS
  Sym = {a}
  Unit = 1
  MasterNets <- MCLong
  InitMasterNets <- MCLong
  InitNets <- MCLong
  Params <- MCOneParams
  LongOnly = FALSE
  NewOnly = FALSE
  EmptyMasterGuard = 2
  Latency = "unbounded"
  Faults <- MCLiveRead
  Buttons <- MCNoButtons
  Oid = {1, 2}
  MaxMoves = 1
  MaxPresses = 0
  Lo <- MCLoZero
  Hi = 2
PROPERTIES
  PassNeverStacks
