SPECIFICATION FairCSpec
CONSTANTS
  Jobs <- ProgramJobs
  StackSize = 32
  MaxInt = 511
  Uninit = Uninit
  Fuel = 12
INVARIANTS
  TypeOK
  RegistersAreAllocated
  NothingUninitialisedIsUsed
  CallersAreUntouched
  LabelsAreClean
  HaltsClean
  OnlyOverflowAborts
  ComputesExpected
  AgreesWithInterpreter
PROPERTIES
  ReturnsAsEntered
  HaltsWhenInterpreterDoes
  RunawayOverflows
CHECK_DEADLOCK FALSE
