CONSTANTS
  t1 = t1
  t2 = t2
  NoThread = NoThread
  Threads <- MCThreads1
  Consumers <- MCConsumers
  MaxSize = 9
  MaxItemSize = 3
  MaxSpans = 3
  MaxPuts = 5
  MaxEncodes = 2
SPECIFICATION Spec
INVARIANT TypeOK
INVARIANT EmittedPayloadsDecode
INVARIANT AcceptedExactlyOnce
CHECK_DEADLOCK FALSE
PROPERTY ImplementsTraceBuffer
