SPECIFICATION Spec
CONSTANTS
  a = a
  b = b
  Nil = Nil
  None = None
  Ints = {1, 2, 4}
  Others <- MCOthers
  PowTwo = {a}
  Collected = {a}
  Hash <- MCHash
  Value = {10}
  MaxArray = 1
  Walks = TRUE
INVARIANTS Chains Rebuilds Answers
PROPERTY IsMap
CHECK_DEADLOCK FALSE
