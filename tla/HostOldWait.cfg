SPECIFICATION Spec
CONSTANTS
  MaxAttempts = 2
  MaxRelays = 4
  MaxSaid = 1
  Player <- NoPlayer
  LobbyDoes <- Silent
PROPERTIES
  WarnedWhenDue
CHECK_DEADLOCK FALSE
