SPECIFICATION Spec
CONSTANTS
  Sym = {a}
  Unit <- MCUnit
  Cases <- MCFlip
  WhatIfFails = FALSE
  EmptyMasterGuard = 2
PROPERTY NeverThroughZero
CHECK_DEADLOCK FALSE
