SPECIFICATION Spec
CONSTANTS
  MaxAttempts = 1
  MaxRelays = 1
  MaxSaid = 1
  Player <- OnePlayer
  LobbyDoes <- Silent
INVARIANTS
  EveryJoinerSpokenFor
CHECK_DEADLOCK FALSE
