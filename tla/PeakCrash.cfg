SPECIFICATION SpecGuards
CONSTANTS
  Guards = {"drawdown"}
  LastDay = 0
  Account = {x}
  Levels = {90, 100}
  BadReads = {0}
  MaxBad = 0
  MaxDD = 10
  Confirm = 3
  Events <- MCCrash
  MaxSessions = 3
INVARIANT PeakIsTrueHigh
