SPECIFICATION Spec
CONSTANTS
  Main = main
  A = A
  B = B
  Coroutines = {A, B}
  BasicCI = 2
  MaxCalls = 5
  MaxCcalls = 4
  Spare = 1
  Programs <- SomePrograms
INVARIANTS Accounts Bounded
PROPERTY IsCoroutines
