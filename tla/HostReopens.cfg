SPECIFICATION Spec
CONSTANTS
  MaxAttempts = 2
  MaxRelays = 2
  MaxSaid = 1
  Player <- NoPlayer
  LobbyDoes <- Silent
INVARIANTS
  OverMeansOver
CHECK_DEADLOCK FALSE
