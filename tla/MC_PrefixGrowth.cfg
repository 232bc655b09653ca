CONSTANTS
  t1 = t1
  t2 = t2
  NoThread = NoThread
  Threads <- MCThreads1
  Consumers <- MCConsumers
  MaxSize = 33
  MaxItemSize = 33
  MaxSpans = 1
  MaxPuts = 18
  MaxEncodes = 1
SPECIFICATION Spec
INVARIANT PayloadWithinBound
CHECK_DEADLOCK FALSE
