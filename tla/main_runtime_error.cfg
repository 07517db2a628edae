SPECIFICATION MainSpec
CONSTANTS
  CommandLines <- NoReturnLines
  StackSize = 32
  MaxInt = 511
  Uninit = Uninit
  Fuel = 12
INVARIANTS
  HaltsEarly
CHECK_DEADLOCK FALSE
