SPECIFICATION FairFrontEndSpec
CONSTANTS
  Sources <- MCSources
  Literals <- MCLiterals
  MaxInt = 15
  VariablesOf <- VariablesIn
  CallsOf <- CallsIn
  Renamed <- Replace
  CalleesOf <- Callees
INVARIANT CallsReachTheirFunction
CHECK_DEADLOCK FALSE
