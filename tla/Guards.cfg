SPECIFICATION SpecGuards
CONSTANTS
  Guards = {"drawdown", "hours"}
  LastDay = 48000
  Account = {x}
  Levels = {90, 95, 100, 120}
  BadReads = {0, 50}
  MaxBad = 2
  MaxDD = 10
  Confirm = 3
  Events <- MCOneAccount
  MaxSessions = 3
INVARIANTS
  TypeOK
  PeakIsHigh
  NoFalseHalt
  CalendarAgrees
  GateAgrees
CHECK_DEADLOCK FALSE
