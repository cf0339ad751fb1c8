SPECIFICATION FairSpec
CONSTANTS
  NoMsg = NoMsg
  home = home
  peer = peer
  m1 = m1
  Msgs = {m1, m2}
  Servers = {home, peer}
  Origin <- MCOrigin
  Credits = 1
CHECK_DEADLOCK FALSE
INVARIANTS
  TypeOK
  AtMostOnceInRoom
  RemoteFollowsLocal
  CreditsConserved
  LagConserved
PROPERTIES
  QueuesDrain
