CONSTANTS
  w1 = w1
  w2 = w2
  w3 = w3
  x1 = x1
  x2 = x2
  None = None
  Works <- TwoWorks
  Exc <- OneExc
  Converted <- NoneConverted
  PoolSize = 1

SPECIFICATION Spec

INVARIANT TypeOK
INVARIANT CounterMatchesOutstanding
INVARIANT CancelAgreesWithStatus
INVARIANT HandlerSeesExceptionOnce
PROPERTY QueuedWorkCompletes
PROPERTY RefinesWorkBridge
