CONSTANTS
  None = None
  Strings = {}
  MaxListLen = 0
  Web = "web"
  ProgramName = "app"
  MaxEvents = 2
  StackEvents <- MCStackOnly
  AcquireEvents = {}
  ReleaseEvents = {}
  ExcEvents = {}
  AllocEvents <- MCAllocEvents
  HeapEvents = {}
SPECIFICATION Spec
INVARIANT AllocEventsAccounted
CHECK_DEADLOCK FALSE
