SPECIFICATION FairSpec
CONSTANTS
  None = None
  ServerMu = ServerMu
  UserRoomMu = UserRoomMu
  r1 = r1
  r2 = r2
  o2 = o2
  u1 = u1
  Handlers = {a, b}
  Monitors = {m}
  Rooms = {o1, o2, o3}
  RoomIds = {r1, r2}
  UserIds = {u1}
  RoomOf <- MCRoomOf
  UserOf <- MCUserOf
  Opened <- MCOpened
  Consumed = {r1}
INVARIANTS
  TypeOK
  OneRoomPerId
  LocksServed
  IndexExact
PROPERTIES
  NoWriteWhileReading
  ImplementsMembership
  OperationsEnd
