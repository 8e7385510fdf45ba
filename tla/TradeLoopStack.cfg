SPECIFICATION Spec
CONSTANTS
  Sym = {a}
  Unit = 1
  MasterNets <- MCTurn
  InitMasterNets <- MCTurn
  InitNets <- MCTurn
  Params <- MCOneParams
  LongOnly = FALSE
  NewOnly = FALSE
  EmptyMasterGuard = 2
  Latency = "unbounded"
  Faults <- MCOrderFaults
  Buttons <- MCBothButtons
  Oid = {1, 2, 3}
  MaxMoves = 1
  MaxPresses = 2
  Lo <- MCLoOne
  Hi = 1
INVARIANTS
  HaltedHolds
PROPERTIES
  PassNeverStacks
