SPECIFICATION Spec
CONSTANTS
  bar = bar
  zk = zk
  atoll = atoll
  games = games
  maps = maps
  NoDownload = NoDownload
  Id <- TwoIds
  Download <- GamesAndMap
  Lane <- TwoLanes
  LaneOf <- LaneOfEach
  Sources <- SourcesOfEach
INVARIANTS
  OneRunPerLane
  PoolHasOneWriter
  OwedIsComing
CHECK_DEADLOCK FALSE
PROPERTIES
  CancelBites
  QueuedGetsItsTurn
