SPECIFICATION FairSpec
CONSTANTS
  Hosts = {old, new}
  Reachable = {new}
  Trouble <- MCNoTrouble
  MaxPresses = 2
PROPERTY StartBegins
CHECK_DEADLOCK FALSE
