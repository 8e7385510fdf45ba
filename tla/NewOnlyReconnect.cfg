SPECIFICATION FairSpec
CONSTANTS
  Sym = {a}
  Unit = 1
  MasterNets <- MCLong
  InitMasterNets <- MCLong
  InitNets <- MCFlat
  Params <- MCOneParams
  LongOnly = FALSE
  NewOnly = TRUE
  EmptyMasterGuard = 2
  Latency = "prompt"
  Faults <- MCReconnect
  Buttons <- MCNoButtons
  Oid = {1, 2}
  MaxMoves = 1
  MaxPresses = 0
  Lo <- MCLoZero
  Hi = 2
PROPERTIES
  NewOnlyFollows
