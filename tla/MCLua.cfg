SPECIFICATION MCSpec
CONSTANTS
  MaxIndexRK = 2
  FieldsPerFlush = 2
  StackSize = 40
  MinStack = 3
  MaxTagLoop = 5
  MaxCcalls = 12
  MaxDepth = 4
INVARIANTS ResultAsWritten AssertionsHold Verified DumpsBack
