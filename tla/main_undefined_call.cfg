SPECIFICATION MainSpec
CONSTANTS
  CommandLines <- UndefinedCallLines
  StackSize = 32
  MaxInt = 511
  Uninit = Uninit
  Fuel = 12
INVARIANTS
  UndefinedCallIsReported
CHECK_DEADLOCK FALSE
