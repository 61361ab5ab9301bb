SPECIFICATION Spec
CONSTANTS
  a = a
  b = b
  None = None
  Inputs = {a, b}
  HasOnEnd = {a}
  HasOnChar = {a}
  Discarded = {a}
  TimeoutOf <- MCTimeoutOf
  MaxThreads = 1
  MaxQueue = 1
  MaxRefs = 2
INVARIANTS ChainHoldsActive HookPlaceLinked TimerCovers AliveUnlessEndedTwice
CHECK_DEADLOCK FALSE
PROPERTIES EndedLeaves ImplementsLife
