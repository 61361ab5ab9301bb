SPECIFICATION Spec
CONSTANTS
  a = a
  b = b
  None = None
  Inputs = {a, b}
  HasOnEnd = {a}
  HasOnChar = {a}
  Discarded = {a}
  TimeoutOf <- MCTimeoutOf
  MaxThreads = 1
  MaxQueue = 1
  MaxRefs = 2
INVARIANTS AliveWhileActive

CHECK_DEADLOCK FALSE
