CONSTANTS
  c1 = c1  c2 = c2  c3 = c3
  Conn <- TwoConnections
  UuidOf <- OwnAccount
  Username <- OneName
  Position <- OnePosition
  ChatMode <- NoChatMode
  NpcCount = 0
  SessionIdMax = 8
  EntityIdMax = 8
  MaxPlayers = 0
  QueueCapacity = 8
  MaxToggles = 0
  MaxRenderFailures = 1
  MaxDepartures = 1
SPECIFICATION Spec
CHECK_DEADLOCK FALSE
INVARIANT NeverInPlayNeverVisible
