SPECIFICATION Spec
CONSTANTS
  a = a
  b = b
  e1 = e1
  e2 = e2
  c1 = c1
  c2 = c2
  NoPid = NoPid
  NoAsk = NoAsk
  Asks <- GameAsks
  Ip <- IpA
  Pid <- TwoEngines
  Cred <- OneCred
  FirstCred = c1
  QueuedRequests = 1
  IdleTimeout = 2
  MaxDatagrams = 2
PROPERTY
  RunningEngineKeepsAgent
