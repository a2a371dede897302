SPECIFICATION Spec
CONSTANTS
  Subjects <- MCSubjects
  Patterns <- MCPatterns
  Matched <- MatchAt
  Keys = {1, 2, 3}
  MaxLen = 6
  MaxOdd = 5
  MaxCaptures = 2
  MaxRef = 4
  BufferSize = 2
  Limit = 3
  MaxAdded = 8
INVARIANTS
  Sorts
  MatchesFirst
  Substitutes
  RefsKept
  Buffered
  ReadsBack
CHECK_DEADLOCK FALSE
