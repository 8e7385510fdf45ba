SPECIFICATION Spec
CONSTANTS
  Account = {"A", "B", "P"}
  Behind <- MCBehind
  LivePorts = {4001}
  PaperPorts = {4002}
  Multipliers = {100, 900}
  Defaults <- MCDefaults
  Earlier <- MCEarlier
  Mishaps = {"torn"}
  MaxLaunches = 2
  MaxEdits = 2
  MaxPresses = 2
  MaxDetects = 1
INVARIANT ChoicesSurviveMishaps
CHECK_DEADLOCK FALSE
