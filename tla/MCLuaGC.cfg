SPECIFICATION MCFairSpec
CONSTANTS
  reg = reg
  t1 = t1
  t2 = t2
  main = main
  co = co
  co2 = co2
  u1 = u1
  u2 = u2
  c1 = c1
  v1 = v1
  s1 = s1
  None = None
  registry = reg
  mainthread = main
  Tables = {reg, t1, t2}
  Udata = {u1, u2}
  GcUdata = {u1, u2}
  Closures = {c1}
  Upvals = {v1}
  Threads = {main, co, co2}
  Strings = {s1}
  Slots <- TwoSlots
  Modes <- MCModes
  Closes = TRUE
  Worlds = {"tables", "strings", "weak", "weakstring", "udata", "upvals", "chain", "close"}
INVARIANTS NoDangling Marking
PROPERTIES NothingTaken GoneFromValues FinalizedFirst GarbageFreed
CHECK_DEADLOCK FALSE
