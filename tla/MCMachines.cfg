SPECIFICATION MCSpec
CONSTANTS
  a = a  b = b
  Conn = {a, b}
  LobbyModes = {TRUE, FALSE}
  QueueCapacity = 1
  OtherTraffic = TRUE
  NoCount = NoCount  OtherPacket = OtherPacket
  SegmentBits = 2  Width = 5  MaxBytes = 3
  Packet <- TrickyPackets
  MAXIMUM_PACKET_LENGTH = 7
  Threshold = 2
  MaxPackets = 2  MaxInterrupts = 1
  t1 = t1  t2 = t2  t3 = t3
  Task = {t1, t2}
  MaxSets = 2
  Joiner = {t1, t2, t3}
  Version = {1, 2, 3}
  BiomeOf <- SharedBiome
  Unencodable <- LastVersion
  Position <- AcrossOrigin
  ChunkSize = 16
  Cooldown = 3
  COMMAND_MIN_INTERVAL = 1
  Speed = {1, 2}
  DefaultSpeed = 1
  MaxLines = 2
  Placeholders = {"${A}", "${B}", "${C}"}
  Environment <- SetVariables
  Escaped <- EscapedPieces
  Edits <- Documents
  MaxEdits = 2
  Item = {"paper", "compass", "ender_eye"}
INVARIANTS OnlyCancelledReadsLose MemoryIsDelivered ChunksAreEncodedOnce StartsAsConfigured
PROPERTIES EverythingArrives SettingReturns TicksThroughTraffic SettlesUnlessMissed Conversing
CHECK_DEADLOCK FALSE
