CONSTANTS
  t1 = t1
  t2 = t2
  NoThread = NoThread
  Threads <- MCThreads2
  Consumers <- MCConsumers
  MaxSize = 9
  MaxItemSize = 3
  MaxSpans = 3
  MaxPuts = 3
  MaxEncodes = 2
SPECIFICATION Spec
INVARIANT EmittedPayloadsDecode
CHECK_DEADLOCK FALSE
