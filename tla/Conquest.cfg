SPECIFICATION Spec
CONSTANTS
  home = home
  march = march
  wilds = wilds
  core = core
  hive = hive
  player = player
  warlike = warlike
  peaceful = peaceful
  neutral = neutral
  Node <- Systems
  Links <- Lanes
  Player = player
  Enemies <- TwoEnemies
  Peaceful <- PeacefulOnes
  Neutral = neutral
  Authored <- Owners
  Capital <- Capitals
  GraceTurns = 1
  NoConquest = NoConquest
  NoNode = NoNode
  Unreadable = Unreadable
  MaxTurn = 2
  MaxFights = 1
  MaxStarts = 1
  MaxWrites = 1
INVARIANTS
  ConquestsAreSound
PROPERTIES
  LossesHadWarning
  LossesAreTold
CHECK_DEADLOCK FALSE
