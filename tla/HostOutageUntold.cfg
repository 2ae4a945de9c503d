SPECIFICATION Spec
CONSTANTS
  MaxAttempts = 1
  MaxRelays = 2
  MaxSaid = 1
  Player <- NoPlayer
  LobbyDoes <- Silent
INVARIANTS
  ShownAsItIs
CHECK_DEADLOCK FALSE
