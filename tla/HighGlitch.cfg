SPECIFICATION SpecGuards
CONSTANTS
  Guards = {"drawdown"}
  LastDay = 0
  Account = {x}
  Levels = {95, 100}
  BadReads = {0, 150}
  MaxBad = 1
  MaxDD = 10
  Confirm = 3
  Events <- MCReconnect
  MaxSessions = 1
INVARIANT NoFalseHalt
