SPECIFICATION SpecMirrors
CONSTANTS
  OrderSym = {"a"}
  OrderUnit = 1
  Sym = {"a"}
  Unit = 1
  Cases = {}
  WhatIfFails = FALSE
  EmptyMasterGuard = 2
  RestingOrders <- MCBuys
  Sizings <- MCPar
  MaxOrders = 3
  MaxPlaced = 3
  MaxFills = 0
  AnyOrder = TRUE
INVARIANT Settles
CHECK_DEADLOCK FALSE
