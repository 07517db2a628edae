SPECIFICATION FairVMSpec
CONSTANTS
  Jobs <- MachineJobs
  StackSize = 4
  MaxInt = 7
  Uninit = Uninit
PROPERTY ImplementsICodeMachine
CHECK_DEADLOCK FALSE
