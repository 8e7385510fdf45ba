SPECIFICATION SpecMirrors
CONSTANTS
  OrderSym = {"a"}
  OrderUnit = 1
  Sym = {a, b}
  Unit <- MCUnit
  Cases <- MCCases
  WhatIfFails = TRUE
  EmptyMasterGuard = 2
  RestingOrders <- MCOrders
  Sizings <- MCSizings
  MaxOrders = 2
  MaxPlaced = 2
  MaxFills = 1
  AnyOrder = FALSE
INVARIANTS
  Nearest
  WithinBuyingPower
  ThirdPassIdle
  Settles
  OneEach
PROPERTIES
  FlattenBeforeOpen
  NeverBeyondTarget
  LongOnlyNeverShorts
CHECK_DEADLOCK FALSE
