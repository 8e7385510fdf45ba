SPECIFICATION FairSpec
CONSTANTS
  Sym = {a}
  Unit = 2
  MasterNets <- MCHalfFlip
  InitMasterNets <- MCHalfFlip
  InitNets <- MCHalfInit
  Params <- MCAllParams
  LongOnly = FALSE
  NewOnly = FALSE
  EmptyMasterGuard = 2
  Latency = "prompt"
  Faults <- MCDiskWorks
  Buttons <- MCNoButtons
  Oid = {1, 2}
  MaxMoves = 2
  MaxPresses = 1
  Lo <- MCLoTwo
  Hi = 4
INVARIANTS
  TypeOK
  NoOvershoot
  PromptInv
PROPERTIES
  OneMoveAtATime
  TargetsHeld
  Converges
