SPECIFICATION Spec
CONSTANTS
  Sym = {a}
  Unit = 1
  MasterNets <- MCLong
  InitMasterNets <- MCLong
  InitNets <- MCLong
  Params <- MCOneParams
  LongOnly = FALSE
  NewOnly = FALSE
  EmptyMasterGuard = 2
  Latency = "prompt"
  Faults <- MCNoFaults
  Buttons <- MCCloseAll
  Oid = {1, 2}
  MaxMoves = 1
  MaxPresses = 1
  Lo <- MCLoZero
  Hi = 2
INVARIANTS
  NoOvershoot
