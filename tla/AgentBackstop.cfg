SPECIFICATION FairSpec
CONSTANTS
  a = a
  b = b
  e1 = e1
  e2 = e2
  c1 = c1
  c2 = c2
  NoPid = NoPid
  NoAsk = NoAsk
  Asks <- RoomAsks
  Ip <- IpA
  Pid <- NoEngine
  Cred <- OneCred
  FirstCred = c1
  QueuedRequests = 1
  IdleTimeout = 2
  MaxDatagrams = 1
PROPERTY
  BackstopFires
