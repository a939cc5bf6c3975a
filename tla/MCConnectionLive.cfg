SPECIFICATION LiveSpec
CONSTANTS
  Versions <- FewKinds
  Settings <- LobbyAndLimbo
  Intents = {"status", "login", "transfer"}
  MayBeFull = TRUE
  MayBeIdle = TRUE
  SocketBuffer = 2
  MaxMoves = 1
INVARIANTS Understood EverythingEncodes KickIsSent KeptAlive
PROPERTIES LoginCompletes EventuallyReleased
CHECK_DEADLOCK FALSE
