SPECIFICATION SpecGuards
CONSTANTS
  Guards = {"drawdown"}
  LastDay = 0
  Account = {x}
  Levels = {80, 100}
  BadReads = {0}
  MaxBad = 0
  MaxDD = 10
  Confirm = 3
  Events <- MCReconnect
  MaxSessions = 2
INVARIANT HaltSticks
