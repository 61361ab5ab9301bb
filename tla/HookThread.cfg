SPECIFICATION Spec
CONSTANTS
  Threads = {t1, t2}
  None = None
  MaxQueue = 0
  MaxOpen = 1
INVARIANTS InEffect TablesWhileHooked HookServed MutexesTell
CHECK_DEADLOCK FALSE
