SPECIFICATION Spec
CONSTANTS
  p1 = p1
  p2 = p2
  p3 = p3
  q1 = q1
  q2 = q2
  q3 = q3
  Peer <- MCPeer
  Port <- MCPort
  NoPeer = NoPeer
  NoPort = NoPort
  MaxPeers = 2
  ReclaimAfter = 0
  MaxAge = 1
  UplinkQueue = 1
SYMMETRY Symmetry
INVARIANTS
  SeatsRespected
  RepliesFindTheirPlayer
PROPERTIES
  EndpointKept
