SPECIFICATION Spec
CONSTANTS
  Hosts = {old, new}
  Reachable = {old, new}
  Trouble <- MCNoTrouble
  MaxPresses = 4
INVARIANT HaltIsAsked
CHECK_DEADLOCK FALSE
