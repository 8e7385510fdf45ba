SPECIFICATION Spec
CONSTANTS
  Hosts = {old, new}
  Reachable = {old, new}
  Trouble <- MCAccount
  MaxPresses = 4
INVARIANT StartNotLost
CHECK_DEADLOCK FALSE
