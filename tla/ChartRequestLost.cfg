SPECIFICATION Spec
CONSTANTS
  Sym = {p, q}
  Empty = Empty
  Typed = {p, q}
  Lengths = {3}
  MinVisible = 2
  DefaultVisible = 3
  MaxAsks = 2
  MaxGestures = 0
INVARIANT LastAskedShown
CHECK_DEADLOCK FALSE
