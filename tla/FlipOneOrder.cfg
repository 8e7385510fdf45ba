SPECIFICATION Spec
CONSTANTS
  Sym = {a}
  Unit = 1
  MasterNets <- MCFlip
  InitMasterNets <- MCFlip
  InitNets <- MCLong
  Params <- MCOneParams
  LongOnly = FALSE
  NewOnly = FALSE
  EmptyMasterGuard = 2
  Latency = "prompt"
  Faults <- MCNoFaults
  Buttons <- MCNoButtons
  Oid = {1, 2}
  MaxMoves = 1
  MaxPresses = 0
  Lo <- MCLoOne
  Hi = 2
INVARIANTS
  NoReversal
