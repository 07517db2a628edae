SPECIFICATION MainSpec
CONSTANTS
  CommandLines <- DisagreeingLines
  StackSize = 32
  MaxInt = 511
  Uninit = Uninit
  Fuel = 12
INVARIANTS
  ResultsAgree
CHECK_DEADLOCK FALSE
