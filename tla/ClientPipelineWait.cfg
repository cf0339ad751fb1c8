SPECIFICATION Spec
CONSTANTS
  Sessions = {s1, s2}
  PoolSize = 1
  RoomBuffer = 1
  SendBuffer = 1
  MetricBuffer = 4
  StatsBuffer = 2
  Messages = 2
  MaxResponses = 1
INVARIANTS
  WriterWaitsForReader
