SPECIFICATION Spec
CONSTANTS
  MaxAttempts = 1
  MaxRelays = 3
  MaxSaid = 1
  Player <- NoPlayer
  LobbyDoes <- NewLobby
INVARIANTS
  AnsweredMeansThisMove
CHECK_DEADLOCK FALSE
