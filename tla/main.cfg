SPECIFICATION FairMainSpec
CONSTANTS
  CommandLines <- AnyLines
  StackSize = 32
  MaxInt = 511
  Uninit = Uninit
  Fuel = 12
INVARIANTS
  NoStepIsOpen
  VMCodeNeverGoesWild
  ExecutionsAgree
  ResultsAgreeIfPreconfigured
  ExecutesWhatItInterprets
  FailuresReachTheTop
  ArgumentsAreRead
PROPERTY MainExits
CHECK_DEADLOCK FALSE
