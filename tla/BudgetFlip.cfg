SPECIFICATION Spec
CONSTANTS
  Sym = {a, b}
  Unit <- MCUnit
  Cases <- MCBudget
  WhatIfFails = FALSE
  EmptyMasterGuard = 2
INVARIANT NeverOverdrawn
CHECK_DEADLOCK FALSE
