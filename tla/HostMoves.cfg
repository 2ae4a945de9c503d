SPECIFICATION FairSpec
CONSTANTS
  MaxAttempts = 1
  MaxRelays = 4
  MaxSaid = 2
  Player <- NoPlayer
  LobbyDoes <- OldLobby
INVARIANTS
  UnreachableIsNoticed
PROPERTIES
  AttemptsEnd
CHECK_DEADLOCK FALSE
