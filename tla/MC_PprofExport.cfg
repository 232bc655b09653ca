CONSTANTS
  None = None
  Strings = {}
  MaxListLen = 0
  Web = "web"
  ProgramName = "app"
  MaxEvents = 2
  StackEvents <- MCStackPair
  AcquireEvents <- MCAcquireEvents
  ReleaseEvents <- MCReleaseEvents
  ExcEvents <- MCExcOne
  AllocEvents <- MCAllocOne
  HeapEvents <- MCHeapOne
SPECIFICATION Spec
INVARIANT PhaseTypeOK
INVARIANT TablesConsistent
INVARIANT ProfileWellFormed
INVARIANT EventsAccounted
INVARIANT StacksRecorded
PROPERTY IdsNeverChange
CHECK_DEADLOCK FALSE
