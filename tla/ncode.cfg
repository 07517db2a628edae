SPECIFICATION FairNSpec
CONSTANTS
  ByteBase = 4
  Programs <- MCPrograms
  Uninit = Uninit
  CodeAddress = 2000
  CallerAddress = 5000
  StackAddresses <- MCStackAddresses
  StackBytes = 24
  SaveAddress = 600
INVARIANTS
  NTypeOK
  GeneratedCodeFits
  GeneratesTheTestedCode
  LabelMapFindsLabels
PROPERTIES
  ImplementsContract
  CallsEnd
CHECK_DEADLOCK FALSE
