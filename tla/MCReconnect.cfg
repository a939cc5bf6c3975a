CONSTANTS
  c1 = c1  c2 = c2  c3 = c3
  Conn <- ThreeConnections
  UuidOf <- FirstTwoShare
  Username <- OneName
  Position <- OnePosition
  ChatMode <- NoChatMode
  NpcCount = 0
  SessionIdMax = 8
  EntityIdMax = 8
  MaxPlayers = 2
  QueueCapacity = 8
  MaxToggles = 1
  MaxRenderFailures = 1
  MaxDepartures = 1
SPECIFICATION Spec
CHECK_DEADLOCK FALSE
INVARIANTS PlayersAreShown NothingLeaks FlagsAgree
PROPERTIES DepartureEndsOwnSession UsesLobbyState
