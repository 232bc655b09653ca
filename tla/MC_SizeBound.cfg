CONSTANTS
  t1 = t1
  t2 = t2
  NoThread = NoThread
  Threads <- MCThreads1
  Consumers <- MCConsumers
  MaxSize = 33
  MaxItemSize = 33
  MaxSpans = 1
  MaxPuts = 16
  MaxEncodes = 0
SPECIFICATION Spec
INVARIANT SizeWithinMax
CHECK_DEADLOCK FALSE
