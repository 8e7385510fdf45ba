SPECIFICATION Spec
CONSTANTS
  Checks = {"c1", "c2"}
  Downloads = {"d1", "d2"}
  Newest = 2
  Chunks = 2
  Failures = TRUE
INVARIANTS InstalledWholeAlways
CHECK_DEADLOCK FALSE
