SPECIFICATION FairFrontEndSpec
CONSTANTS
  Sources <- MCSources
  Literals <- MCLiterals
  MaxInt = 15
  VariablesOf <- VariablesIn
  CallsOf <- CallsIn
  Renamed <- Replace
  CalleesOf <- Callees
INVARIANTS
  ParserTypeOK
  NamesAreTheirNumbers
  AcceptsTheGrammar
  SourceIsRecovered
  NestsToTheRight
  VariablesAreDistinct
  CallsReachTheirFunctionIfNamedOnce
  TestProgramsParse
PROPERTY ParserEnds
CHECK_DEADLOCK FALSE
