SPECIFICATION Spec
CONSTANTS
  NoClient = NoClient
  EmptyId = EmptyId
  Clients = {c1, c2}
  UserIds = {u1}
  BufferSize = 2
  PublishChanSize = 1
  Stamps = {TRUE, FALSE}
  MaxInputs = 1
SYMMETRY Symmetry
INVARIANTS
  TypeOK
  NoSendOnClosed
  IndexMatchesMembership
  NothingBehindRemoval
  LeaveEchoBeforeReturn
  DepartureUnderway
PROPERTIES
  OnlyDepartedRemoved
  ImplementsMembership
