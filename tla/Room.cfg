SPECIFICATION Spec
CONSTANTS
  host = host
  alice = alice
  bob = bob
  p1 = p1
  p2 = p2
  p3 = p3
  robot = robot
  box = box
  Name <- ThreeNames
  Peer <- ThreePeers
  Bot = {robot}
  Option = {box}
  Host = host
  LastTeam = 0
  NoName = NoName
  NoSeat = NoSeat
  NoBot = NoBot
  MaxPlayers = 2
  MaxBattles = 1
  MaxAsks = 2
  MaxVerdicts = 1
SYMMETRY Alike
INVARIANTS
  RoomIsSound
  MembersSeeTheRoom
PROPERTIES
  KeptSeatsGoHome
