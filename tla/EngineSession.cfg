SPECIFICATION FairSpec
CONSTANTS
  Hosts = {old, new}
  Reachable = {old, new}
  Trouble <- MCAllTrouble
  MaxPresses = 5
INVARIANTS
  TypeOK
  StoppedStaysStopped
  StopInv
  StartApplies
PROPERTIES
  StartBegins
  StopEnds
CHECK_DEADLOCK FALSE
