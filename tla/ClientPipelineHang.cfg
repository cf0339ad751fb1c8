SPECIFICATION FairSpec
CONSTANTS
  Sessions = {s1}
  PoolSize = 1
  RoomBuffer = 1
  SendBuffer = 1
  MetricBuffer = 1
  StatsBuffer = 1
  Messages = 2
  MaxResponses = 2
PROPERTIES
  TestCompletes
