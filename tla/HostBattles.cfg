SPECIFICATION Spec
CONSTANTS
  MaxAttempts = 2
  MaxRelays = 3
  MaxSaid = 2
  Player <- OnePlayer
  LobbyDoes <- NewLobby
INVARIANTS
  AgentsAccountedFor
  StopMeansNoBattle
  SlotHoldsABattle
  HostKnowsItsRelay
  OutagesAreTold
  JoinersSpokenFor
CHECK_DEADLOCK FALSE
