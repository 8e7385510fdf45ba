SPECIFICATION SpecWindow
CONSTANTS
  Sym = {p, q}
  Empty = Empty
  Typed = {p, q, Empty}
  Lengths = {0, 3, 5}
  MinVisible = 2
  DefaultVisible = 3
  MaxAsks = 3
  MaxGestures = 1
  Account = {"A", "B", "P"}
  Behind <- MCBehind
  LivePorts = {4001}
  PaperPorts = {4002}
  Multipliers = {100, 900}
  Defaults <- MCDefaults
  Earlier <- MCEarlier
  Mishaps = {"torn", "save", "remove"}
  MaxLaunches = 2
  MaxEdits = 2
  MaxPresses = 2
  MaxDetects = 1
  Checks = {"c1", "c2"}
  Downloads = {"d1", "d2"}
  Newest = 2
  Chunks = 2
  Failures = TRUE
SYMMETRY Symmetry
INVARIANTS
  SliceInBounds
  ScreenIsCurrent
  LoadsAgree
  ChoicesSurvive
  InstalledWhole
CHECK_DEADLOCK FALSE
