CONSTANTS
  None = None
  EmptyTuple = EmptyTuple
  Chains <- MCChains
  MaxNFrames = {0, 1, 2, 3, 5}
  Versions = {TRUE, FALSE}
  Funcs = {"traceback", "pyframe"}
SPECIFICATION Spec
INVARIANT TypeOK FramesAsDocumented TracebackRefsReleased
CHECK_DEADLOCK FALSE
