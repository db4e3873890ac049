CONSTANTS
  w1 = w1
  w2 = w2
  w3 = w3
  x1 = x1
  x2 = x2
  None = None
  Works <- MCWorks
  Exc <- OneExc
  Converted <- NoneConverted
  PoolSize = 2

SPECIFICATION Spec

INVARIANT ClearedIsReturned
