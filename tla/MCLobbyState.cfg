CONSTANTS
  u1 = u1  u2 = u2  n1 = n1  n2 = n2  p1 = p1  p2 = p2  c1 = c1  c2 = c2  c3 = c3
  UUID <- TwoAccounts
  Username <- TwoNames
  Position <- TwoPositions
  ChatMode <- HiddenOnly
  NpcCount = 1
  SessionIdMax = 6
  EntityIdMax = 5
SPECIFICATION MCSpec
SYMMETRY Symmetric
INVARIANTS TypeOK IndexesAgree ReplyPeersKnown PlayersAreListed GhostsAreRetracted
PROPERTIES RemovedIdsStayDead ImplementsRegistry
CHECK_DEADLOCK FALSE
