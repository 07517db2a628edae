SPECIFICATION FairNSpec
CONSTANTS
  ByteBase = 4
  Programs <- DocumentedPrograms
  Uninit = Uninit
  CodeAddress = 2000
  CallerAddress = 5000
  StackAddresses <- MCStackAddresses
  StackBytes = 24
  SaveAddress = 600
INVARIANT ComputesAsDocumented
CHECK_DEADLOCK FALSE
