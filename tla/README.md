# PicoLobby: formal models

PicoLobby is a small Minecraft server written in Rust on tokio. Behind a proxy
it keeps players waiting in a lobby, where they see each other, chat, and pick a
server from menus and NPCs. This directory holds TLA+ models of its control,
TLC configurations that check them on small instances, and proofs checked by
TLAPS. Paths below are relative to `src/pico_lobby/src/` unless they start with
`src/`.

Contents: [system](#1-the-system), [modules](#2-modules), [runs](#3-runs),
[fairness](#4-fairness), [findings](#5-what-the-runs-refute),
[proofs](#6-proofs), [limits](#7-what-is-not-modelled), [plan](#8-plan),
[how to run](#9-running-the-checks).

## 1. The system

### 1.1 Components

**Accept loop** (`server/network.rs` 77-123, `server/shutdown_signal.rs`). State:
a semaphore of 1000 connection permits. It accepts sockets, drops those for which
no permit is left, and spawns one task per connection, which holds the permit
until it returns. Correct when every ended connection gives its permit back.

**Connection task** (`server/network.rs` `handle_client`, `read`,
`process_packet`). State: `was_in_play_state`, the idle deadline, the receiver
of its broadcast queue. It loops over a `select!` of five branches: an inbound
packet, the 30 s idle deadline, a keep-alive tick, a scoreboard tick, a packet
from the queue. An inbound packet goes to a handler that changes the
`ClientState` and returns a batch of packets; afterwards `process_packet` carries
out what the handler left in the client state: the join announcement, movement,
metadata, swing, chat and private-message plans. When `read` reports a
disconnection the task unregisters its session and announces the departure;
any other error is logged and the loop goes on.

**Client state** (`server/client_state.rs`). One connection's protocol state,
lobby session id, visibility flag, pending plans, rate-limit clocks, open
selector window. Used by its own task only.

**Client data** (`server/client_data.rs`, `server/controllable_interval.rs`).
The packet stream, the client state and the keep-alive interval, each behind a
lock; a write timeout.

**Lobby registry** (`server_state/lobby.rs`). State: the sessions by UUID, the
indexes entity id → session id and session id → UUID, the reply peers and two
id allocators. Operations: insert, three removals, four updates of a session,
and *plans*: the list of recipients of a broadcast, read at one moment and
carried out later. Correct when an id leads to the player it was issued to or to
nobody, also after reconnects under the same account and when the allocators
saturate.

**Server state** (`server_state/mod.rs`). The configuration, and two locks: a
mutex around the lobby registry and an `RwLock` around the map from session id
to the sender of that connection's queue. A method takes one of them for one
registry operation; a handler takes them several times in a row. Correct when
what a handler read in one section is still good enough in the next.

**Join, leave, visibility** (`server/lobby_visibility.rs`,
`handlers/configuration.rs`, `handlers/play/visibility_toggle.rs`). What is
shown to whom: a newcomer gets the players in its plan on its own stream, the
others get the newcomer in their queues; a departure is announced to the queues;
an item in the hotbar hides and shows all other players. Correct when two
players who are both in play see each other, and nobody sees a player who has
left.

**Movement, pose, swing** (`handlers/play/set_player_*.rs`,
`player_command.rs`, `player_input.rs`, `swing.rs`). Rate-limited broadcasts,
positions as deltas to the last broadcast one. Correct when what observers
accumulate stays near the position the registry holds.

**Chat, private messages, commands** (`handlers/play/commands.rs`,
`server/lobby_chat.rs`). Recipients filtered by chat mode; `/r` replies to the
last partner. Correct when a reply reaches the person of the last exchange.

**Selector and windows** (`server_state/selector.rs`, `handlers/play/selector.rs`,
`click_container.rs`, `close_container.rs`). The server keeps no inventory: it
sends the lobby's items back whenever a client may have moved one. Window ids
wrap within a byte. Correct when a click acts on the menu its window id was
opened for, and the items are where they belong once everything is read.

**NPCs and navigation** (`handlers/play/interact.rs`,
`server_state/navigation.rs`). NPCs take the first entity ids of the
allocator the players use.

**Scoreboard** (`server/network.rs` 642-807). One task for all lobby sessions
that remembers what it rendered for whom; one interval per connection when
the lobby is off. Correct when what is remembered as rendered is what the
client shows.

**Packet framing** (`src/crates/net/src/`). Length-prefixed frames, optional
compression; reads are futures that `select!` may drop half way. Correct when
what one end writes is what the other reads, however the bytes arrive.

**Chunk cache and order** (`server/chunk_packet_cache.rs`,
`handlers/play/send_chunks_circularly.rs`). A cache of encoded chunks shared by
all connections, one cell per key that never leaves it (its size is bounded by
the number of versions, not by the code); a spiral iterator around the spawn
chunk. Correct when each key is encoded once, however many tasks ask at once.

**Handshake, login, status, forwarding** (`handlers/handshake.rs`,
`handlers/status/`, `handlers/login/`, `handlers/configuration.rs`,
`src/crates/minecraft_forwarding`). The protocol states before play, which differ by
version and by proxy. Correct when each side is in the state the other's next
packet belongs to, and no side waits for one that waits for it.

**Packet numbers** (`src/crates/macros/src/packet_reports.rs`,
`server/packet_registry.rs`). What number a packet has in each of 49 versions.

**Configuration files** (`configuration/`, `server/start_server.rs`,
`ServerStateBuilder`). What a file means, with sections left out or partly given,
and what the builder refuses.

**Binary encoding, packet definitions, registries and item numbers, text
components, structures and block reports** (`src/crates/`). Functions without
state. Correct when a client of each version reads what was meant.

### 1.2 How they interact

```
 client c --packet--> task of c --(1) mutex-----> lobby registry
                        |  ^   \--(2) RwLock----> lobby_broadcast_senders
                        |  |
              stream of c  \-- queue of c (64) <-- try_send -- every other task
                                               <-- try_send -- scoreboard task
```

A task writes to its own stream only. For the others it reads recipients from
the registry (1), drops that lock, looks the senders up (2), drops that lock too,
and offers each packet to each queue with `try_send`, which drops the packet when
the queue is full or its receiver gone. Nothing is atomic across (1), (2) and the
queues, and nothing but a task's own loop orders them.

### 1.3 What is hard

* *Interleavings of lock sections*: two joins, a join and a departure, a toggle
  and a join (`server/network.rs` 226-239, 336-401, 848-905;
  `visibility_toggle.rs` 26-40).
* *Check then act*: the player limit (`server_state/mod.rs` 575-579).
* *Partial failure*: handlers that fail after the registration
  (`handlers/configuration.rs` 291-358), connections that end anywhere.
* *Reconnection*: the same account under a new session while the old task still
  runs (`server_state/lobby.rs` 450-469).
* *Numeric edges*: saturating ids, wrapping window ids, position deltas.
* *Stale copies*: the visibility flag in two places, remembered scoreboard
  renders, the position deltas' base, reply peers, the client's own idea of its
  inventory and its flight.
* *Two ends of one stream*: compression, protocol states, windows and abilities
  change at both ends, with packets of the old state under way.
* *Cancelled futures, wake-ups, bounded queues, timeouts.*
* *49 versions*: packet numbers, layouts, palettes and registries by version.

The full list, with lines and the properties that cover each entry, is
`hazards` in `PROJECT.json`.

## 2. Modules

| Module | Models | Kind |
|---|---|---|
| `PartialFunctions` | `HashMap` insert and remove | operators |
| `LobbyRegistry` | what the registry promises, without indexes | abstract specification |
| `LobbyState` | `server_state/lobby.rs`, every method that changes state | component |
| `LobbyConnections` | join, leave and visibility: connection tasks over `LobbyState` | composition |
| `Connection` | one connection from handshake to release, 49 versions | component |
| `Movement` | one player who moves and crouches, and who watches | component |
| `Selector` | hotbar, menu and the clicks under way | component |
| `Scoreboards` | the refresh tasks and what they remember | component |
| `Conversation` | chat limits and flight of one player | component |
| `PacketStream` | frames, compression, cancelled reads | component |
| `ControllableInterval` | the keep-alive interval: `tick()`, the `select!` that drops it, and the setters | component |
| `ChunkPacketCache` | the shared cache of encoded chunks | component |
| `Startup` | configuration files, defaults, the builder's checks | component |
| `VarInt`, `BitSet`, `Nbt`, `PacketIds`, `Items`, `Registries`, `Sections`, `ChunkColumn`, `WorldLight`, `Schematic`, `Signs`, `SelectorMenu`, `SidebarLines`, `Commands`, `ChatText` | functions without state | operators |
| `LobbyStateProofs`, `LobbyConnectionsProofs`, `ConnectionProofs`, `MovementProofs`, `SelectorProofs`, `PacketStreamProofs`, `MachinesProofs` | theorems | proofs |
| `Machines` | `PacketStream` beside instances of five small components, under the names that their properties have in a run and in a proof | composition |
| `MCLobbyState`, `MCLobbyConnections`, `MCConnection`, `MCMovement`, `MCSelector`, `MCMachines`, `MCAlgorithms` | instances | model checking |

An MC module may run several machines that share no state, one per behaviour,
chosen by the variable `part`; the machines that do not run stay in one of their
initial states. A mutated form of a definition stands beside it as `X_Suffix`
and is used by nothing else. `map` in `PROJECT.json` names the lines each
definition stands for.

### 2.1 LobbyState

The variables are the fields of `LobbyState` (with the two counters), as
functions whose domain is the set of keys present. Every method runs under the
registry's mutex, so each is one action; a method that returns `None` or changes
nothing is a guard that fails. Lookups that chain the indexes (`KnownSession`,
`KnownEntity`) are modelled with every `?` of the chain, because whether they can
fail is the question; `RemoveBySessionId` keeps the branch in which the second
lookup fails after the first removal. Plans are the sets of recipients the code
computes (`PlanRecipients`, `PlanChatRecipients`, `ExistingSessions`).

Abstracted: a name is its class under `eq_ignore_ascii_case`; a position is one
of a few values; textures, versions and message text are left out;
`u64::MAX` and `i32::MAX` are the constants `SessionIdMax` and `EntityIdMax`,
small in the runs so that the allocators do saturate.

`LobbyRegistry` is the same component as its callers should see it: `Join`,
`Leave`, `Update`, addressed by the ids players hold. `ImplementsRegistry` says
that each operation of `LobbyState` by id is the abstract operation on the player
holding that id.

### 2.2 LobbyConnections

`phase[c]` is the point the task of connection `c` has reached; one step is one
lock section, or one `try_send`, or one packet read from the queue:

| Step | Code |
|---|---|
| `KickIfLobbyFull` | first capacity check, `configuration.rs` 374 |
| `RegisterCheck`, `RegisterInsert` | `register_lobby_session`, its two lock sections |
| `RenderFails` | a `?` in `send_play_packets` after the registration |
| `EnterPlay` | first packet in Play: the sender is installed, `network.rs` 197-242 |
| `PlanJoin`, `CollectJoin` | `send_join_visibility`: registry, then senders and own stream |
| `TrySend`, `Receive` | `queue_broadcast_packet`; the `recv` branch of `read` |
| `ToggleFlag`, `ToggleView` | `handle_visibility_toggle`, its two registry sections |
| `Disconnect` | `read` returns `Disconnected` |
| `Unregister`, `RemoveSender`, `CollectLeave` | the end of `handle_client` |

The registry itself is an INSTANCE of `LobbyState` over the same variables, so
the steps call its operations and nothing else changes it (`UsesLobbyState`,
proved). `view[c]` is what the game client of `c` shows: the entity ids spawned
and the UUIDs in its tab list. The client is not part of the repository; the model
of it (`Shown`) only adds and removes what packets name. `missed` remembers who
lost a packet to a full queue.

Abstracted: a packet is its kind with the UUID and entity id it names; the
packets for the client's own stream are applied in one step, since they go to
one stream in order and no other task can see between them. `outbox[c]` holds the
batches the task has still to queue, one per recipient and in any order of
recipients; within a batch the order is the code's.

### 2.3 The other components

**Connection.** The client is a protocol state, what it has still to answer and
whether it reads or has closed; the task is `state`, `pc` (waiting in `select!`,
writing a batch, closing, released), the batch with a state and a format for each
packet, `kick`, `keepAlive`, `counted`, `registered`, `wasInPlayState`. One action
per handler of the states before play (`Handshake`, `StatusRequest`, `LoginStart`,
`CustomQueryAnswer`, `LoginAcknowledged`, `ServerBoundKnownPacks`,
`AcknowledgeConfiguration`), for a movement in play and for what cannot be decoded;
`WritePacket`, `WriteFails`, `WriteTimesOut`, `KickClient`, `FinishPacket` are
`process_packet` after the handler; `KeepAliveTick`, `IdleTimeout`, `EndOfStream`
the other branches of `read`; `Release` the end of `handle_client`. Which packets
a version has is computed by `PacketIds`. Positions, registries and profiles are one
packet each; zlib, the bytes and the other players are in other modules.

**Movement.** A height stands for a position, in units finer than the 1/32 of a block
that clients before 1.9 know; `Quantum[o]` is the step observer `o` can tell.
`HandleMove` is the whole handler: boundary, teleport, rate limit, registry update
and pending plan; `Broadcast` queues the plan before the task reads on, as
`process_packet` does. An observer registers, installs its sender, plans its join
and writes it in four steps, as in `LobbyConnections`, and applies what its queue
holds: a relative packet adds to the position it holds.

**Selector.** The client changes its items first and tells the server afterwards
(`PickUp`, `ShiftClick`, `NumberKey`, `Throw`, `Drag`, `Collect`, …, external); the
server's actions are the handlers of held item, use, drop, close, confirm and the
four outcomes of a click (`ClickElsewhere`, `Select`, `Resync`, `Ignore`). `up` and
`down` are the packets under way. `unanswered` (a click on a lobby item came for a menu that was
gone, and nothing since was answered) and `blind` are history variables.

**Scoreboards.** `TickSessions`, `TickOnline`, `TickSend` are the sections of the
lobby's task, which locks sessions, counts and senders one after another;
`Refresh` is a connection's own interval without a lobby. Of a render only the
online count is kept. A change is several packets in the code, of which a full queue may take
some; here it is one, and what is claimed is claimed of clients that missed none.

**PacketStream** keeps what a read has taken of the socket and forgets it when
`Interrupt` takes another branch. **ControllableInterval** has a step between every
two awaits of `tick` and of the setters, and `Drop`, by which the `select!` of the connection
abandons a `tick()` with what it holds. In a behaviour with one user of the interval that is the
program: one task calls, drops and sets, and goes through the mutex of `ClientData`, which
`keep_alive_tick` holds over the whole wait (`client_data.rs` 99-105). In one with several users,
which the program never has, it is what the component's comments promise. **ChunkPacketCache** has the read lock, the
write lock and the `OnceLock` as separate steps, with panics. **Conversation** has one
action per command and outcome, and the abilities packets of both directions.
**Startup** has `Start`, `Stop` and the operator's `Edit`; the deserializers and the
builder's checks are operators.

### 2.4 Properties

| Property | Says |
|---|---|
| `IndexesAgree` | every index entry leads to the player its id was issued to (`IndexesResolve`), every player is found by both its ids (`SessionsReachable`), a click on a player is never a click on an NPC (`NpcsKeepTheirIds`) |
| `RemovedIdsStayDead` | an id that stopped resolving never resolves again |
| `ReplyPeersKnown` | reply peers belong to registered players, are mutual, never oneself |
| `ImplementsRegistry` | the indexed registry does what the one without indexes does |
| `NothingLeaks` | no session or sender outlives its connection, however it ends |
| `PlayersAreShown`, `PlayersAreListed` | two players in play see each other once their queues are drained, however their joins interleaved |
| `GhostsAreRetracted` | whoever is shown is registered, or its removal is on its way |
| `FlagsAgree` | the registry's visibility flag is the one the client's item shows |
| `DepartureEndsOwnSession` | the end of an old connection does not touch the account's new session |
| `UsesLobbyState` | the tasks change the registry through its operations only |
| `EventuallyShown`, `EventuallyGone` | players in play are drawn, departed ones vanish |
| `Understood` | each packet but the kick of a full lobby reaches the client in the state and the format it was sent for |
| `EverythingEncodes` | a handler sends only packets that the version has |
| `KeptAlive` | who waits in play is kept alive, and is counted exactly once |
| `KickIsSent`, `LoginCompletes`, `EventuallyReleased` | a refusal is told, unless it is that of a client past the legacy proxy (`PastLegacyProxy`, see 5); who comes to play gets there or is refused; a task whose client is gone leaves nothing behind |
| `PresentHoldBase` | a delta starts from the position the observer holds |
| `PoseIsShown`, `FallersReturn` | observers show the player as it crouches; who falls out of the world, no faster than the server expects, comes back |
| `WindowsAgree` | at rest, the server takes clicks for the window that is shown and for no other |
| `SelectsWhatIsShown` | nobody is sent to a server by a click on a place that showed something else |
| `ItemsAreInPlace` | at rest, the lobby's items are in their slots and show what they are set to, unless a click on one came for a menu that was gone and no click or drop since was answered (5.2) |
| `MemoryIsDelivered`, `SettlesUnlessMissed` | what the task remembers as rendered is what the client shows; sidebars come to show the count |
| `OnlyCancelledReadsLose`, `EverythingArrives` | frames are read as written unless a read was cancelled half way |
| `SettingReturns`, `TicksThroughTraffic` | the task that sets the interval does not wait for the mutex its own `tick()` took; it gets ticks although each packet of the client cancels its `tick()` |
| `ChunksAreEncodedOnce` | once per key, and each player gets its own version's |
| `Conversing` | messages are a cooldown apart (`Spaced`), both ends agree at rest on whether the player may fly and how fast (`FlightAgrees`), not on whether it flies (5.2) |
| `StartsAsConfigured` | from its second start on a server that runs does what its file says, and is usable; a server accepts its own defaults |
| `PacketsAreUnderstood` | `VarIntsAreRead`, `HeardAsSaid` (packet numbers), `NbtIsRead`, `ItemsAreTold`, `RegistriesAreKnown`: what is written is what a client of the version reads |
| `TextsAreShown` | `SidebarLinesAreCut`, `ChatIsLiteral` (what players type is no format), `LegacyIsDrawnAlike` |
| `OffersAreKept` | `MenuIsLaidOut`, `CommandsAreOffered` (the tree and the parser agree) |
| `ChunksAreShown` | `SectionsAreShown`, `ColumnsAreShown`, `MasksAreRead`, `SpiralCovers` |
| `WorldIsLoaded` | `WorldIsLit`, `SchematicIsLoaded`, `SignsAreRead` |

## 3. Runs

| Run | Instance | States | Question |
|---|---|---|---|
| `registry` | 2 accounts, names and positions, 1 NPC, entity ids to 5, session ids to 6; or 3 connections, 3 departures | 705 341 | ids and indexes under every sequence of operations; joins and departures interleaved |
| `reconnect` | 3 connections, 2 of one account, limit 2, 1 click, 1 failing handler, 1 departure | 1 157 763 | an account connects while its old connection lives |
| `connection_live` | 6 versions; lobby, behind Velocity or behind BungeeCord; socket of 2 packets | 347 376 | packets are understood, logins complete, kicks are told, tasks end |
| `movement` | 1 observer, queue of 2, heights −2 to 2; all bounded inputs of `MCAlgorithms` | 443 263 | deltas add up; functions do what they are for |
| `selector` | 2 items, 1 slot, menu of 2, 3 inputs, 3 window ids; with and without state ids; or 2 connections with fair tasks | 168 536 | clicks cross answers; players are drawn and undrawn in the end |
| `machines` | six machines, see `MCMachines` | 109 314 | framing, interval, cache, sidebars, chat, start-up |
| `toggle_off`, `failed_join`, `capacity`, `proxy_kick`, `slow_packet`, `first_start` | small | | refuted statements, see 5 |

Bounds, and why they are enough:

* *Connections.* Each visibility property relates two connections: the one
  looking and the one looked at. Two joiners and a third that may be leaving
  or watching give every combination of a join, an announcement and a departure in
  progress. A registration and a departure touch no third player's entries.
* *Accounts and ids.* With entity ids up to 5 and one NPC, four registrations use
  the ids up; two accounts then share the last entity id, and later the last
  session id. The entity ids run out first, as `i32` does before `u64`.
* *Queues.* `QueueCapacity` is 8 in the runs of `LobbyConnections`, more than can
  be queued for one connection there: these properties say what holds without
  overload, and the comment at `server/network.rs` 44 declares drops acceptable. In
  `Movement` (2) and `Scoreboards` (1) queues do overflow, and the properties are
  stated for clients that missed nothing.
* *Versions.* `connection_live` takes one of each kind: without and with a
  configuration state, known packs, cookies and transfers. Which packets each of the 49
  numbers is the assumption `PacketsAreNumbered` of `Connection`: TLC evaluates it for all of
  them, and the theorems of 6.3 carry the properties over.
* *Inputs and ids of the selector.* Three inputs open a menu, act in it and act
  again while its answers are under way; a fourth (3 891 584 states, checked once)
  found nothing new. Window ids wrap after `MaxWindowId`; with as many ids as inputs
  none is met twice, as the code's 200 stand for (`client_state.rs` 392-401).
* *Heights.* One step above and below each of the boundary, the spawn and the largest
  delta; with `Quantum` 1 a delta is exact.
* *Functions.* Each bound is chosen in `MCAlgorithms` so that every case of the code
  has an input: last byte of a VarInt, both sides of a palette's width, empty and
  full masks, all versions at which a layout changes.
* *Frames* have two value bits a byte and at most three bytes in a VarInt, with
  packets whose bytes pass for a length and for a frame.

`MaxDepartures`, `MaxToggles`, `MaxRenderFailures`, `MaxMoves`, `MaxInputs`,
`MaxInFlight`, `MaxInterrupts`, `MaxPackets`, `MaxSets`, `MaxLines`, `MaxEdits` bound
how often the environment acts. They and `IdsRemain` (no registration once ids run
out, which takes more registrations than the other bounds allow) are the only
guards that are not in the code.

*Symmetry* permutes what nothing distinguishes: accounts, names and positions of the
registry and connections with an account each in `registry`. The runs with liveness
properties use none.

`CHECK_DEADLOCK FALSE` is set in every run because each of these machines may really
stop: a server whose connections have all closed, a client that sends no more, inputs
that are used up.

`PlayersAreListed` and `GhostsAreRetracted` are not stated for `reconnect`. A tab
list is keyed by account, so the removal of an account's old session, queued
late, also removes the new session's entry; and a replaced session is no longer
found when its connection ends, so no removal of its entity is ever planned.
Both are part of a hazard of `PROJECT.json` without a property
(`server_state/lobby.rs` 451): nothing in the repository says what should happen.
`Understood` excepts the kick that `kick_if_lobby_full` decides: it takes the packet of the
state the server is in, and the client may be in the next one when it reads it. Nothing
else that is sent in such a connection may cross (`connection_live` has `MayBeFull`).

## 4. Fairness

* `LobbyConnections`: weak fairness of `Step(c)`, what a task does on its own. tokio
  polls every task that is ready, locks are released after bounded work and granted
  in order, `try_send` never blocks, and `select!` picks among ready branches at
  random, so a queue that stays non-empty is read. What a client does (`Input`) and
  whether a template fails carry no fairness: a client may stay silent for ever.
* `Connection`: weak fairness of the writes and what follows them, of the write
  timeout, of the release, of time, and of a client that reads while it has not
  stalled; strong fairness of taking a packet, of the idle deadline and of the end of
  stream, since these branches of `select!` compete and it picks at random.
* `PacketStream`: weak fairness of the server's step and of a client that switches to
  the compressed format. `EverythingArrives` is stated for reads that were not cancelled.
* `ControllableInterval`: strong fairness of each step of a task that ticks or sets,
  because tokio's mutex is fair and gives itself to who waits; strong fairness of a tick that
  is due, since `select!` begins with a random branch and does not pass over it for ever; weak
  fairness of the passing of a period (`TimelyTicks`). Calls and cancellations carry none:
  `TicksThroughTraffic` says of its task that it calls `tick()` again and again.
* `Scoreboards`: weak fairness of the task's steps and of the connections' own.
* `Movement`: strong fairness of the interval, of obeying a teleport and of reading
  the queue, weak fairness of the task's steps. `FallersReturn` adds that who is below
  the boundary goes on falling (`FallingFairness`): a client there has nothing to stand on.

## 5. What the runs refute

Six statements of the repository do not hold of the code. Each run finds a
shortest behaviour that breaks one of them.

* `toggle_off` refutes `HiddenMeansHidden`. `visibility_toggle.rs` 42 says "Despawn
  every other player from this client's view." The handler clears the flag in one
  section and reads whom to despawn in another; a plan made before the first may be
  queued after the second, and a player who leaves between them is not despawned
  and its removal no longer addressed to this client. The client hides players and
  shows one.
* `failed_join` refutes `NeverInPlayNeverVisible`. `server/network.rs` 862-863 says
  that a session that never reached play was never made visible. A session is in
  the plans of others from its registration on. If a later template of the play
  packets does not parse (MiniMessage templates are parsed after the player's name
  has been substituted), the session never reaches play, others have been shown it,
  and its end is announced to nobody.
* `capacity` refutes `LobbyCapped`. `src/docs/config/server-list.md` 9 says that
  `max_players` caps the players allowed in the lobby. The count is read in one
  lock section and the session inserted in another.
* `proxy_kick` refutes `RefusalIsTold`. The test
  `test_handshake_handler_should_kick_when_bungee_cord_handshake_is_invalid`
  (`handlers/handshake.rs` 249-263) expects a client that comes past the legacy proxy to be
  kicked with a message. The handler stores the kick and returns an error (75-81), and
  `process_packet` returns the error before it looks at the kick (`server/network.rs` 211): the
  connection is closed and nothing is sent.
* `slow_packet` refutes `SlowPacketsArrive`. `test_slow_read_packet`
  (`src/crates/net/src/packet_stream.rs` 327) expects a packet that arrives in pieces
  to be read. Under `select!` in `read` the read is dropped with the bytes it has
  taken when another branch is ready first, and the rest is read as a new frame.
* `first_start` refutes `FileIsObeyed`. `src/docs/config/boss-bar.md` 20 and
  `title.md` 21 say that `enabled = false` disables the section. The defaults of
  `BossBarConfig` and `TitleConfig` are the `Enabled` variant around a table that says
  `enabled = false`: the first start, and every start with a file that leaves the
  section out, shows both; the next start with the written file hides them.

### 5.1 Two packets, one number

`HeardAsSaid` is stated for versions in which a number means one packet. In these it
means two, and which of them is decoded depends on their order in the enum (computed
from `PacketIds`, which takes reports and overrides as they are written):

| Versions (protocol) | Direction | Packets | Number |
|---|---|---|---|
| 1.9.3, 1.10 (110, 210), 1.11 – 1.11.2 (315, 316) | serverbound play | `Swing`, `UseItem` | 29 |
| 1.14 – 1.14.4 (477, 480, 485, 490, 498) | serverbound play | `SetPlayerRotation`, `ServerBoundPlayerAbilities` | 19 |
| 1.19.1 (760) | serverbound play | `ServerBoundPlayerAbilities`, `PlayerAction` | 28 |
| 1.16 – 1.18.2 (735, 736, 751, 753 – 758) | clientbound play | `Animate`, `SpawnPlayer` | 4 |
| 1.19 (759) | clientbound play | `SetObjective`, `SetSubtitleText` | 88 |
| 1.19 (759) | clientbound play | `SetPlayerTeam`, `SetTitleText` | 90 |
| 1.19 (759) | clientbound play | `SetScore`, `SetTitlesAnimation` | 91 |
| 1.19.1 (760) | clientbound play | `SetScore`, `SetSubtitleText` | 91 |
| 1.19.3 (761) | clientbound play | `UpdateTime`, `SetPlayerTeam` | 90 |
| 1.19.3 (761) | clientbound play | `SetScore`, `SetTitleText` | 91 |

### 5.2 Met while modelling

Observations without a run of their own: most contradict no document, some are left out of a
model, and a disagreement with a document is said to be one. They are why some properties carry the conditions they do.

* *Connection.* A lobby that fills up between the two checks kicks with the packet of
  the state before play. The idle deadline
  and the packet that would move it may be ready together.
* *Movement.* A movement the rate limit withheld is not sent later: who stops within
  the limit is shown a step behind. A broadcast before a newcomer's join plan reaches a
  client that does not know the entity yet. Clients before 1.9 hold positions rounded
  to 1/32 and accumulate the rounding. Who falls faster than `FALL_SPEED` a packet
  jumps over the band in which the teleport fires. The model takes the `teleport_message` to
  render: were it rejected with the player's name in it, the handler would fail after the
  position was reset and the plan set, and the teleport be dropped
  (`set_player_position_and_rotation.rs` 69-75).
* *Selector.* A hotbar item taken by a click in the lower part of a menu that the server has
  just closed is not brought back (`protected_container_slot`, `click_container.rs` 321-335,
  knows the player's own window and the menu that is open) until the next click or drop that is
  answered; `ItemsAreInPlace` leaves out the time between. A resync is addressed to the
  menu's window although the client may have left it (130). After 200 menus a
  window id is used again, whatever is still under way.
* *Interval.* `tick` holds its lock across the wait, and `keep_alive_tick` that of
  `ClientData`: a second task that set the interval would wait for the period to end, against
  the comments at `controllable_interval.rs` 28 and 55. There is none: the connection's task sets
  it after `select!` has dropped its `tick()`.
* *Startup.* A build error exits with `ExitCode::SUCCESS` (`start_server.rs` 38-43). The
  examples of `src/docs/config/tab-list.md` 14-32 lack `player_listed`, which is required: the code
  and the document disagree, and in particular `[tab_list]` with `enabled = false` alone, which the
  document offers, ends the process. It is among the documents of `machines`, but
  `StartsAsConfigured` speaks of a running process and is silent on what is refused. Partial enabled
  sections for boss bar, title and tab list are refused. A missing "optional" selector
  or toggle takes a default, so a selector on slot 8 conflicts with the default toggle.
  Omitted NPCs default to one whose destination may not exist. Chat, message and toggle
  formats are not checked at start, the others with a default name only. Environment
  placeholders are expanded in comments too. A `spawn_y` of NaN passes the boundary check.
* *Registries and items.* The dimension codec of 1.16.2 – 1.18.2 sends the raw value and the
  one of later versions leaves a nested compound as it is; codecs fail for mixed lists. Cyclic
  tags never end, unknown entries are dropped. A 1.7 client expects item NBT compressed.
  `validate_lobby_item` checks the newest version or legacy only; an unknown item is paper.
* *Chunks.* Formats before 1.16 mask palette indices above 256 blocks. Sections above the
  dimension's height get light arrays but no mask bit. A gap in the report panics the
  encoding task, and the next task tries again; errors are cached for ever. `SignMessage::Json`
  is never reached; a message that is a compound empties the face.
* *Commands and chat.* Every node of the tree is marked by its distance to its own node, which
  is always 1, so `/msg` alone is never executable there. `/fly` stores the permission where
  the packet says permission and flight (`commands.rs` 105-113), so the two ends disagree on
  whether the player flies, which `FlightAgrees` leaves out, and a later `/flyspeed` makes the
  player fly; switching
  it off sends `is_flying` without permission, against the packet's own comment. Commands
  within 200 ms are dropped silently; refused messages use the cooldown up in some cases and
  not in others. A bare `&` in a format swallows text up to the next `;`.
* *NBT.* Heterogeneous lists fail without `dynamic_lists`; JSON arrays of mixed numbers become
  such lists; integer arrays come back from serde as lists; in SNBT a whole double reads
  like an int.

## 6. Proofs

TLAPS checks the theorems for every value of the constants that the modules'
assumptions allow. Each invariant was first checked by TLC on an instance.

### 6.1 The registry (`LobbyStateProofs`)

For any accounts, names, positions, NPC count and
id ranges, from `LobbyStateAssumption` alone (chat modes are among the known
ones; there is an entity id left for a player; entity ids run out no later than
session ids, as `i32::MAX < u64::MAX`):

* `TypeCorrect`, `IndexesAlwaysResolve`, `SessionsAlwaysReachable`,
  `NpcIdsNeverReused`, and with them `IndexesAlwaysAgree`.
* `RemovedIdsNeverResolve`: the action property.
* `Refinement`: `LobbyState` implements `LobbyRegistry`, operation by operation.

The argument: `IndexesResolve` and `SessionsReachable` are not inductive alone. To
see that a new id displaces nobody, one must know that every session carries an id
the allocators have passed, which is `IdsIssued`. It also says that a session at the
saturated session id is at the saturated entity id: otherwise removing one of two
sessions that share the last session id could leave the other's entity id pointing
nowhere. `IInv` is the conjunction. The step proof has one lemma per kind of step:
`InsertIInv`; `RemoveByUuidIInv`, to which the removals by session and entity id
are reduced; `ReplaceSessionIInv`, to which all updates are; `MessageKeepsSessions`.
The last three reductions are used again for the refinement.

`ReplyPeersAlwaysKnown` rests on `IInv` and one fact more, `PeersIssued`: a stored
peer's id has been issued, so a new player's id is nobody's stored peer.

### 6.2 Joins and departures (`LobbyConnectionsProofs`)

For any number of connections and accounts, any capacity and all bounds, under
`LobbyConnectionsAssumption` and `FiniteConnections`:

* `TasksUseLobbyState`: the registry the tasks share behaves as `LobbyState`. From it
  and an INSTANCE of `LobbyStateProofs`, `RegistryHolds` carries the registry's
  invariant over to the tasks: every index they find resolves.
* `TasksInvariance`: the inductive invariant `TasksInv`. `NothingLeaks` and
  `FlagsAgree` are about a connection's own session, so the invariant says whose a
  session is (`OwnSessions`: two connections never hold the same id, a session still
  registered is under its connection's account), that ids held are below the
  allocator's (`SessionsIssued`), and that a connection still joining has no
  sender (`SendersInPlay`), because a registration that is retried would
  otherwise orphan one. Ten of the actions touch neither registry nor senders and are
  dealt with together (`Elsewhere`); five have a lemma each.
* `NothingEverLeaks`, `FlagsAlwaysAgree`, `DeparturesAreLocal`: the properties.
* `PlayersAreAlwaysShown`, and `PlayersAreAlwaysListed` for the tab lists. Drained
  queues are the end of a chain, so the invariant `ShownOrComing` says where the packet
  that shows `d` to `c` may be while both are in play: in `c`'s view, in its queue, in
  what `c` is about to write from its join plan or its toggle, in `d`'s plan, or in
  `d`'s outbox. Removals under way name only ids that are used up and accounts that left
  (`NobodyHereIsRemoved`), so nothing takes `d` away again; and a task in its loop has its
  sender installed, so `d` finds `c`'s queue when it looks. The hypothesis
  `NothingDropped` says that the 64-packet queues have not overflowed, which the code
  declares best-effort. The tab list needs `OneEach` as well, one connection per account,
  because leave packets go by UUID (see 3).
* `GhostsAreAlwaysRetracted`, the reverse. `OnlyTheLivingLast` speaks of what a screen will
  show once its queue is drained and its join plan read (`Lasts`): the spawn is there or
  coming and no removal comes after it. Then the player is registered, or some
  task has the viewer among the recipients of its leave plan or in its outbox. A
  removal must not overtake the spawn it retracts, which needs `OwnNews`: a task announces its
  player only while that player is registered and retracts it only after, so when the
  end of a session writes the leave plan, the spawns of that player are all behind it.
  `NothingShownYet` (a client not yet in play is shown and sent nothing), `PlansUsedUp`,
  `Unregistered` and `AllVisible` (who has been in play is told goodbye for) are the rest
  of `GhostInv`. TLC checked `GhostInv` for three connections.
  Each hypothesis is needed; with two or three connections TLC finds a ghost without it.
  `OneEach`: a replaced session gets no leave plan. `NothingDropped`: the full queue drops the
  removal. `Undisturbed`, no click on the visibility toggle: a player who leaves between
  the flag and the view of a click is neither announced to the viewer nor
  among those the click removes. `Undisturbed`, no failed render: it leaves a session that others
  may already show, and the retry replaces it, or the connection ends without having been in
  play, and neither tells anybody (run `failed_join` finds the second).

The registration guard `IdsRemain` is part of what is proved: with saturated ids two
connections would hold the same session id, and the end of one would end the
other's session. That takes 2^64 registrations (2^31 for the entity ids, which the
visibility properties need).

### 6.3 One connection (`ConnectionProofs`)

For any subset of the versions, settings, socket size and moves:

* `EverythingIsEncoded`. Whatever waits in the batch is a packet the version numbers, so no
  answer is cut off in the middle. `EncodesInv` adds that a client only says what the
  version's conversation has (`Sayable`), for otherwise an old one could ask for the
  configuration of a new one. The tables of packet numbers are functions of strings merged
  with `@@`, which the provers cannot evaluate: what they number is `PacketsAreNumbered`, an
  assumption in which no constant occurs. TLC evaluates it for all 49 versions, and the
  proof shows that every batch of every handler stays within it.
* `PlayersAreKeptAlive` and `KicksAreSent`. The second holds of every mode of forwarding and
  leaves out one refusal, that of a client past the legacy proxy (run `proxy_kick`).
* `EverythingIsUnderstood`. The invariant `InStep` says that what the client has still to read,
  the socket and then the rest of the batch, fits the state it will be in when it reads it: both
  ends switch the format after the same packet, before play only one side speaks at a time,
  and a kick happens in the server's turn. A lobby that has filled up breaks it and nothing else
  does; from then on `FullInv` holds: until the kick is written only what brings the client to
  the game is under way, which it understands and does not answer, and after the kick the
  connection ends.

### 6.4 Windows and items (`SelectorProofs`)

For any slots, menus, versions and number of inputs, from `SelectorAssumption`:

* `ItemsAreAlwaysInPlace`, with the condition of `ItemsAreInPlace`: no click on an item stayed
  unanswered below a menu that was gone. If a lobby item is not in its slot, something is under way that
  repairs it (`ItemsComeBack`): an input the server answers with the items — a click on a
  protected place, or a drop while that slot is selected — or a content already queued
  that will show it (`WillShow`). Which slot the server takes a drop to be from depends on
  the hold packets before it in `up`, so `SelectionFollows` relates the server's selected
  slot to the client's through them.
* `WindowsAlwaysAgree`. `WindowsFollow`: the window the client will show, once it has read
  what is queued (`WillShowWindow`), is the open menu's or none; and it is the menu's unless a
  close packet for it is under way. So that a late close or open packet cannot hit a later menu,
  `ClosedForGood` and `OpensOnce` say that no window that was closed is opened again
  and none is opened twice.
* `ClicksSelectWhatIsShown`. `MenuIsWhole`: while the client's menu is in the state the server
  knows, its destinations are in their places, or a click is under way that will end that
  state. `MissesAreLate`: so it was when each click under way was sent, hence a click on a
  place that showed something else comes after one that makes its state obsolete.
  `MenuIsNewest` and `InventoryIsApart` keep the states in order and the two windows apart.

The last two assume `[][FreshIds]_vars`: when a menu is opened, no packet under way and no
window of the client names its id. Ids are a counter that wraps after 200 menus
(`client_state.rs` 392-401), so the code does not ensure this; it takes 200 menus while a packet of
the first is still under way.

### 6.5 Movement (`MovementProofs`)

For any observers, heights, grids, queue capacity and speeds, from `MovementAssumption`:

* `MovementTypeCorrect`.
* `PoseIsAlwaysShown`: `PoseSettles` speaks of what an observer will show after its queue
  (`End`), which is the player's pose unless a plan with a newer one is pending
  (`PlanIsCurrent`) or the observer has still to write its join.
* `PresentAlwaysHoldBase`, for observers in play from the start and `Quantum` 1: after its queue
  each holds the base of the next delta (`BaseIsHeld`). With a coarser grid the rounding
  of legacy clients adds up, and the statement is false (5.2).

`End` is a fold over the queue, defined by a recursive function. The module proves what it needs of
it from the library's well-founded induction: `LeastOf` and `Induction` state the least-number
principle for a set instead of an operator, `ShowingExists` and `ShowingUnique` that the recursive
function is the one function with its equations, `EndOfMore` and `EndOfRest` what a packet added
at the end and one taken from the front do to it.

### 6.6 Framing (`PacketStreamProofs`)

For any width of integers, packets, compression threshold or none, and number of interruptions, from
`VarIntAssumption` (the bytes a reader accepts hold the integer) and `PacketStreamAssumption` (a
frame's length is such an integer: `FramesFit`, which TLC evaluates on each run).

* `VarIntsRoundTrip`: what `Encode` writes, `Decode` reads, whatever stands behind it, and no
  prefix of it is taken for a value. It writes at most `k` bytes when `k` segments hold the word,
  for every `k`: no byte more than the value needs. Both contain a recursive function; `Segments` and `Words` name
  them, `DecodeOf` relates them by least-number induction over the value and `WordsShift`
  over the bytes.
* `OnlyCancelledReadsEverLose`. While no read was cancelled after it had taken bytes, the bytes taken and
  not yet parsed, followed by those in the socket, are exactly the frames of the packets sent and not
  yet handled, each in the format in force when the server comes to it (`BoundariesKept`, with the
  boundaries as a function). Both ends switch the format at one packet, so `RepliesInOrder` and
  `FormatsAgree` say what each has still to do before it. A frame is then read whole or not at
  all, what has been received is a prefix of what was sent, and nothing is reported as an error.
* `TypeCorrect`.

### 6.7 Interval, cache, sidebars and conversation (`MachinesProofs`)

* `NobodyWaitsForItself`: a connection's task that is to set or clear its interval finds both
  mutexes free, however often it called and dropped `tick()`. It is the safety half of
  `SettingReturns`, and about the program.
* `NoWakeupIsLost` and `TickersKeepTheirInterval`, for any tasks that share an interval: what the
  component's comments promise, and the program never asks for. With `IntervalTypeCorrect` they
  follow from one invariant, `IntervalInv`, which says who holds each mutex, who is enlisted with `Notify`
  before it looks at the state, and which setter has still to notify.
* `ChunksAreAlwaysEncodedOnce`, for any tasks, versions and keys, with panics. A cell in the map stays
  there and is full, being filled by one task, or free; who waits for one waits for a task that
  fills it.
* `MemoryIsAlwaysDelivered`. What is remembered for a session is what its client shows after its
  queue, unless it missed a packet or had no sender when it was rendered.
* `MessagesAreSpacedAndFlightAgrees`: `Conversing` for any cooldowns and limits; nothing is said of
  replies or of whether the player flies. `Spaced` follows from the stamp of
  the last attempt (`HeardCounts`). `FlightAgrees` is the argument of `ItemsAreInPlace` in
  small: the last abilities packet under way to the client carries what the server has set, and with
  none under way the client has it (`LastAgrees`).

### 6.8 What is only model-checked

Liveness under fairness. `StartsAsConfigured`: texts are expanded and the menu's slots collected by
flattening sequences, and what a recursion over data computes takes an induction. The functions of `MCAlgorithms`, most of which compute over
data by recursion; `VarIntsRoundTrip` and `MovementProofs` show how such a proof can go, at a
price. `MCLobbyState` states `PlayersAreListed` and `GhostsAreRetracted` for the machine its run
selects: `PlayersAreAlwaysListed` and `GhostsAreAlwaysRetracted` prove them for every value of the
constants.
The type invariants of `LobbyConnections`, `Connection` and `Scoreboards` are parts of the inductive
invariants and not stated again.

## 7. What is not modelled

The accept loop and shutdown: a permit is owned by the spawned task and dropped with it, and
shutdown ends the process. NPC spawning, the delayed removal of their tab-list entries and the
cooldowns of navigation; swings, a rate limit in front of one broadcast; join and leave messages and
the wording of feedback. TOML syntax, the command line, and what is in the
server icon and the schematic file, which load or do not. Packet layouts that are lists of
fields, fixed-width numbers, positions and UUIDs; zlib, which is external and stands as a header in
front of the data. Block reports, tables generated from the game's data. Each component's `note` in
`PROJECT.json` says what of it is left out, and each hazard without a property has a `note` with the reason.

## 8. Plan

Every component of the plan is modelled and checked, and every safety property of a state machine
but `StartsAsConfigured` is proved; 6.8 says why that one stays with TLC.

## 9. Running the checks

With TLC, the community modules and the modules of TLAPS on the library path:

```
tlc -workers 2 -config MCReconnect.cfg MCLobbyConnections.tla
tlapm SelectorProofs.tla
```

`PROJECT.json` lists every run with its module and configuration, and for every
property a mutated definition of the code (`RemoveSender_Forgotten` and its like)
under which the run must fail.
