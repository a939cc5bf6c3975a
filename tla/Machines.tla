-------------------------------- MODULE Machines --------------------------------
(***************************************************************************)
(* The machines of the server that share no state with each other: the     *)
(* framing of a connection, the sidebars, the keep-alive interval, the     *)
(* chunk cache, a player who chats and flies, and the start of a process.  *)
(***************************************************************************)
EXTENDS PacketStream

-------------------------------------------------------------------------------
(* The sidebars *)
CONSTANTS Conn, LobbyModes, QueueCapacity, OtherTraffic, NoCount, OtherPacket
VARIABLES lobbyEnabled, renders, phase, sessions, senders, connected, created, shown, queue, lastRender,
          lastRenders, lastPopulation, tick, missed

Sidebar == INSTANCE Scoreboards

(* The keep-alive interval *)
CONSTANTS Task, MaxSets
VARIABLES users, interval, due, guard, lock, pc, notified, made, request

Interval == INSTANCE ControllableInterval WITH created <- made

(* The chunk packets that players who join share *)
CONSTANTS Joiner, Version, BiomeOf, Position, ChunkSize, Unencodable
VARIABLES packets, cells, version, at, found, answer, encoded

Cache == INSTANCE ChunkPacketCache

(* A player who chats, writes to others and flies *)
CONSTANTS Cooldown, COMMAND_MIN_INTERVAL, Speed, DefaultSpeed, MaxLines
VARIABLES antispam, to_server, to_client, server, client, ages, outcome, lines

Talk == INSTANCE Conversation WITH up <- to_server, down <- to_client

(* A process and the file of its operator *)
CONSTANTS Placeholders, Environment, Escaped, Edits, MaxEdits, Item
VARIABLES file, process, edits

Config == INSTANCE Startup

(* What the modules ask of their constants                                 *)
ASSUME MachinesAssumption ==
  /\ Sidebar!ScoreboardsAssumption
  /\ MaxSets \in Nat
  /\ Talk!ConversationAssumption

-------------------------------------------------------------------------------
(* The properties of the machines, each stated in the machine's module; of *)
(* the framing they are PacketStream's.                                    *)

(* What the lobby's task remembers of a sidebar arrives, unless it missed. *)
MemoryIsDelivered == Sidebar!MemoryIsDelivered

(* Once nobody comes or leaves, sidebars show the current count.           *)
SettlesUnlessMissed == Sidebar!SettlesUnlessMissed

(* Who sets the interval does not wait for the mutex that its own tick()   *)
(* held (client_data.rs).                                                  *)
SettingReturns == Interval!SettingReturns

(* A connection gets its ticks however often packets cancel tick().        *)
TicksThroughTraffic == Interval!TicksThroughTraffic

(* Chunks are encoded once per key, and players get their own version's.   *)
ChunksAreEncodedOnce == Cache!ChunksAreEncodedOnce

(* Messages that others hear are a cooldown apart, and both ends agree     *)
(* whether the player may fly and how fast; not whether it flies.          *)
Conversing == Talk!Conversing

(* From its second start on, a server does what its file says.             *)
StartsAsConfigured == Config!StartsAsConfigured

(* boss-bar.md: `enabled = false` disables a section.                      *)
FileIsObeyed == Config!FileIsObeyed
===============================================================================
