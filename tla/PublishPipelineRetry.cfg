SPECIFICATION FairSpec
CONSTANTS
  NoMsg = NoMsg
  m1 = m1
  Msgs = {m1, m2}
  Workers = {w1}
  PublishChanSize = 1
  TempBufferSize = 1
  StateBuffer = 1
  FailureThreshold = 1
  MaxRequests = 1
  MaxOutages = 1
  Observed <- MCObserved
PROPERTIES
  BufferedRetried
