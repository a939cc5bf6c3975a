SPECIFICATION Spec
CONSTANTS
  Versions <- FewKinds
  Settings <- OnlyBungeeCord
  Intents = {"status", "login", "transfer"}
  MayBeFull = TRUE
  MayBeIdle = TRUE
  SocketBuffer = 2
  MaxMoves = 1
INVARIANT RefusalIsTold
CHECK_DEADLOCK FALSE
