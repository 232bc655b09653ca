CONSTANTS
  None = None
  EmptyTuple = EmptyTuple
  Chains <- MCCrashChains
  MaxNFrames = {0, 1, 2, 3, 5}
  Versions = {TRUE}
  Funcs = {"traceback", "pyframe"}
SPECIFICATION Spec
INVARIANT ClassNameNoCrash
CHECK_DEADLOCK FALSE
