SPECIFICATION FairFrontEndSpec
CONSTANTS
  Sources <- DocumentedSources
  Literals <- MCLiterals
  MaxInt = 15
  VariablesOf <- VariablesIn
  CallsOf <- CallsIn
  Renamed <- Replace
  CalleesOf <- Callees
INVARIANT AcceptsTheDocumentedLanguage
CHECK_DEADLOCK FALSE
