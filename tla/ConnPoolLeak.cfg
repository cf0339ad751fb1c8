SPECIFICATION FairSpec
CONSTANTS
  NoConn = NoConn
  a = a
  b = b
  c = c
  k1 = k1
  k2 = k2
  Callers = {a, b}
  Keys = {k1, k2}
  KeyOf <- OwnKeys
  PoolSize = 1
PROPERTIES
  SlotAlwaysGranted
