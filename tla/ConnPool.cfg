SPECIFICATION FairSpec
CONSTANTS
  NoConn = NoConn
  a = a
  b = b
  c = c
  k1 = k1
  k2 = k2
  Callers = {a, b, c}
  Keys = {k1, k2}
  KeyOf <- SharedKey
  PoolSize = 2
INVARIANTS
  TypeOK
  SlotsBalance
  NoOrphanConnection
  OpenWithinPoolSize
  SlotsReturned
PROPERTIES
  SessionEnds
  SlotGranted
