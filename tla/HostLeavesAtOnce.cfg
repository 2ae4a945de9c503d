SPECIFICATION Spec
CONSTANTS
  MaxAttempts = 1
  MaxRelays = 1
  MaxSaid = 1
  Player <- NoPlayer
  LobbyDoes <- Silent
INVARIANTS
  EndedLeavesEmpty
CHECK_DEADLOCK FALSE
