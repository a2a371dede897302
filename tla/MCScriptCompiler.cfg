CONSTANTS
  MaxLines = 4
  Scripts <- MCScripts
  Names <- MCNames
SPECIFICATION FairSpec
INVARIANTS ReadAsWritten SupportedCompiles FlowAsWritten
PROPERTIES ReadingEnds
CHECK_DEADLOCK FALSE
