CONSTANTS
  None = None
  EmptyTuple = EmptyTuple
  Chains <- MCChains
  MaxNFrames = {0, 1, 2, 3, 5}
  Versions = {TRUE}
  Funcs = {"pyframe"}
SPECIFICATION Spec
INVARIANT RefsBalanced
CHECK_DEADLOCK FALSE
