--------------------------- MODULE Scoreboards ---------------------------
(***************************************************************************)
(* The player count in the sidebar of each player (server/network.rs        *)
(* scoreboard_broadcast_task, refresh_scoreboard; handlers/configuration.rs *)
(* build_scoreboard_packets).                                               *)
(*                                                                          *)
(* In a lobby one task renders every session's sidebar and queues what      *)
(* changed; without a lobby each connection's own task refreshes its        *)
(* sidebar.  Of a rendered sidebar only the count `online` is kept, for the *)
(* other placeholders are the same as long as a session lasts; a            *)
(* connection's account is its own.  A change of a sidebar is several       *)
(* packets, of which a full queue may take some; here it is one packet,     *)
(* which stands for them all: what is claimed is claimed of clients that    *)
(* missed none.                                                             *)
(***************************************************************************)
EXTENDS Integers, Sequences, FiniteSets, SequencesExt

CONSTANTS
  Conn,           \* the connections
  LobbyModes,     \* the values of [lobby].enabled
  QueueCapacity,  \* LOBBY_BROADCAST_QUEUE_CAPACITY
  OtherTraffic,   \* whether chat, movement and the like use the queues too
  NoCount, OtherPacket  \* no count, and a packet that is no sidebar

ScoreboardsAssumption ==
  /\ LobbyModes \subseteq BOOLEAN
  /\ QueueCapacity \in Nat \ {0}
  /\ OtherTraffic \in BOOLEAN
  /\ NoCount \notin Nat /\ OtherPacket \notin Nat /\ NoCount # OtherPacket

VARIABLES
  lobbyEnabled,
  renders,        \* the players with whose name the templates render
  phase,          \* per connection: see Phases
  sessions,       \* registered in the lobby
  senders,        \* with a broadcast sender
  connected,      \* counted in connected_clients
  created,        \* per connection: the count in its first sidebar
  shown,          \* per connection: the count its client displays
  queue,          \* per connection: counts and other packets
  lastRender,     \* per connection: last_scoreboard_render
  lastRenders,    \* of the lobby's task: last_renders, last_population
  lastPopulation,
  tick,           \* of the lobby's task: where it is and what it has read
  missed          \* per connection: its latest change was recorded, not sent

conns == <<lobbyEnabled, renders, phase, sessions, senders, connected, created>>
lobbyTask == <<lastRenders, lastPopulation, tick>>
vars == <<conns, shown, queue, lastRender, lobbyTask, missed>>

Phases == {"login", "registered", "rendered", "joined", "play", "failed", "leaving", "gone"}

(* ServerState::online_players *)
Online == Cardinality(IF lobbyEnabled THEN sessions ELSE connected)

Asleep == [at |-> "asleep", sessions |-> {}, online |-> 0]

Init ==
  /\ lobbyEnabled \in LobbyModes
  /\ renders \in SUBSET Conn
  /\ phase = [c \in Conn |-> "login"]
  /\ sessions = {} /\ senders = {} /\ connected = {}
  /\ created = [c \in Conn |-> NoCount]
  /\ shown = [c \in Conn |-> NoCount]
  /\ queue = [c \in Conn |-> <<>>]
  /\ lastRender = [c \in Conn |-> NoCount]
  /\ lastRenders = <<>>
  /\ lastPopulation = NoCount
  /\ tick = Asleep
  /\ missed = [c \in Conn |-> FALSE]

Goto(c, from, to) == phase[c] = from /\ phase' = [phase EXCEPT ![c] = to]

----------------------------------------------------------------------------
(* A connection: from the handler of its first packet in play to its end *)

(* register_lobby_session_for_play *)
Register(c) ==
  /\ Goto(c, "login", "registered")
  /\ sessions' = IF lobbyEnabled THEN sessions \cup {c} ELSE sessions
  /\ UNCHANGED <<lobbyEnabled, renders, senders, connected, created, shown, queue, lastRender, lobbyTask,
                 missed>>

(* build_scoreboard_packets; the same handler may also fail, at this or at
   another template *)
Render(c) ==
  /\ \/ /\ c \in renders
        /\ Goto(c, "registered", "rendered")
        /\ created' = [created EXCEPT ![c] = Online]
     \/ /\ Goto(c, "registered", "failed")
        /\ UNCHANGED created
  /\ UNCHANGED <<lobbyEnabled, renders, sessions, senders, connected, shown, queue, lastRender, lobbyTask,
                 missed>>

(* process_packet after the handler: set_lobby_broadcast_sender, increment *)
Join(c) ==
  /\ Goto(c, "rendered", "joined")
  /\ senders' = IF lobbyEnabled THEN senders \cup {c} ELSE senders
  /\ connected' = IF lobbyEnabled THEN connected ELSE connected \cup {c}
  /\ UNCHANGED <<lobbyEnabled, renders, sessions, created, shown, queue, lastRender, lobbyTask, missed>>

(* The batch is written, with the first sidebar *)
WriteBatch(c) ==
  /\ Goto(c, "joined", "play")
  /\ shown' = [shown EXCEPT ![c] = created[c]]
  /\ UNCHANGED <<lobbyEnabled, renders, sessions, senders, connected, created, queue, lastRender, lobbyTask,
                 missed>>

(* As Receive, with the queue polled while the batch is being written *)
Receive_Early(c) ==
  /\ phase[c] \in {"joined", "play"} /\ queue[c] # <<>>
  /\ shown' = IF Head(queue[c]) = OtherPacket THEN shown ELSE [shown EXCEPT ![c] = Head(queue[c])]
  /\ queue' = [queue EXCEPT ![c] = Tail(@)]
  /\ UNCHANGED <<conns, lastRender, lobbyTask, missed>>

(* read(): broadcast_rx *)
Receive(c) ==
  /\ phase[c] = "play" /\ queue[c] # <<>>
  /\ shown' = IF Head(queue[c]) = OtherPacket THEN shown ELSE [shown EXCEPT ![c] = Head(queue[c])]
  /\ queue' = [queue EXCEPT ![c] = Tail(@)]
  /\ UNCHANGED <<conns, lastRender, lobbyTask, missed>>

(* read(): scoreboard_interval_tick, refresh_scoreboard; the first render is
   recorded but not sent *)
Refresh(c) ==
  /\ ~lobbyEnabled /\ phase[c] = "play"
  /\ lastRender' = [lastRender EXCEPT ![c] = Online]
  /\ IF lastRender[c] \in {NoCount, Online}
     THEN /\ missed' = [missed EXCEPT ![c] = @ \/ (lastRender[c] = NoCount /\ shown[c] # Online)]
          /\ UNCHANGED shown
     ELSE /\ shown' = [shown EXCEPT ![c] = Online]
          /\ missed' = [missed EXCEPT ![c] = FALSE]
  /\ UNCHANGED <<conns, queue, lobbyTask>>

(* handle_client after its loop: the session and the count, then the sender *)
Unregister(c) ==
  /\ phase[c] \in {"failed", "play"} /\ phase' = [phase EXCEPT ![c] = "leaving"]
  /\ sessions' = sessions \ {c}
  /\ connected' = connected \ {c}
  /\ UNCHANGED <<lobbyEnabled, renders, senders, created, shown, queue, lastRender, lobbyTask, missed>>

RemoveSender(c) ==
  /\ Goto(c, "leaving", "gone")
  /\ senders' = senders \ {c}
  /\ queue' = [queue EXCEPT ![c] = <<>>]
  /\ UNCHANGED <<lobbyEnabled, renders, sessions, connected, created, shown, lastRender, lobbyTask, missed>>

(* queue_broadcast_packet of the other broadcasts *)
OtherBroadcast(c) ==
  /\ OtherTraffic /\ c \in senders /\ Len(queue[c]) < QueueCapacity
  /\ queue' = [queue EXCEPT ![c] = Append(@, OtherPacket)]
  /\ UNCHANGED <<conns, shown, lastRender, lobbyTask, missed>>

----------------------------------------------------------------------------
(* The lobby's task; between its steps the registry is unlocked *)

(* interval.tick, lobby_scoreboard_sessions *)
TickSessions ==
  /\ lobbyEnabled /\ tick.at = "asleep"
  /\ IF sessions = {}
     THEN lastRenders' = <<>> /\ lastPopulation' = NoCount /\ UNCHANGED tick
     ELSE /\ tick' = [tick EXCEPT !.at = "counting", !.sessions = sessions]
          /\ UNCHANGED <<lastRenders, lastPopulation>>
  /\ UNCHANGED <<conns, shown, queue, lastRender, missed>>

(* As PopulationUnchanged, by the count alone *)
PopulationUnchanged_Counts == lastPopulation = Online

(* Nobody came or left since the last render *)
PopulationUnchanged == lastPopulation = Online /\ DOMAIN lastRenders = tick.sessions

(* online_players *)
TickOnline ==
  /\ tick.at = "counting"
  /\ tick' = IF PopulationUnchanged THEN Asleep ELSE [tick EXCEPT !.at = "sending", !.online = Online]
  /\ UNCHANGED <<conns, shown, queue, lastRender, lastRenders, lastPopulation, missed>>

(* The sessions whose render differs from the one remembered *)
Changed == {c \in tick.sessions \cap renders : c \in DOMAIN lastRenders => lastRenders[c] # tick.online}

(* queue_broadcast_packet *)
Delivered == {c \in Changed \cap senders : Len(queue[c]) < QueueCapacity}

(* collect_lobby_broadcast_senders, and a render of every session *)
TickSend ==
  /\ tick.at = "sending"
  /\ queue' = [c \in Conn |-> IF c \in Delivered THEN Append(queue[c], tick.online) ELSE queue[c]]
  /\ missed' = [c \in Conn |-> IF c \in Changed THEN c \notin Delivered ELSE missed[c]]
  /\ lastRenders' = [c \in tick.sessions \cap renders |-> tick.online]
  /\ lastPopulation' = tick.online
  /\ tick' = Asleep
  /\ UNCHANGED <<conns, shown, lastRender>>

ConnStep(c) ==
  \/ Register(c) \/ Render(c) \/ Join(c) \/ WriteBatch(c) \/ Receive(c) \/ Refresh(c)
  \/ Unregister(c) \/ RemoveSender(c) \/ OtherBroadcast(c)
TickStep == TickSessions \/ TickOnline \/ TickSend

Next == TickStep \/ \E c \in Conn : ConnStep(c)

Spec == Init /\ [][Next]_vars

(* The intervals tick, and a task that can run does; a player may stay *)
Fairness ==
  /\ WF_vars(TickStep)
  /\ \A c \in Conn :
       /\ WF_vars(Render(c) \/ Join(c) \/ WriteBatch(c) \/ RemoveSender(c))
       /\ WF_vars(Receive(c)) /\ WF_vars(Refresh(c))

LiveSpec == Spec /\ Fairness

----------------------------------------------------------------------------

TypeOK ==
  /\ phase \in [Conn -> Phases]
  /\ sessions \subseteq Conn /\ senders \subseteq Conn /\ connected \subseteq Conn
  /\ created \in [Conn -> (0..Cardinality(Conn)) \cup {NoCount}] /\ shown \in [Conn -> (0..Cardinality(Conn)) \cup {NoCount}]
  /\ \A c \in Conn : Len(queue[c]) <= QueueCapacity /\ ToSet(queue[c]) \subseteq (0..Cardinality(Conn)) \cup {OtherPacket}
  /\ DOMAIN lastRenders \subseteq Conn

(* The count that is left when the packets have been read: the last of     *)
(* theirs, or else the one before.                                         *)
EndsWith(packets, before, count) ==
  LET others(from) == \A i \in from..Len(packets) : packets[i] = OtherPacket
  IN  \/ \E i \in DOMAIN packets : packets[i] = count /\ others(i + 1)
      \/ others(1) /\ count = before

(* What the client displays, or will when its first sidebar is written     *)
Displayed(c) == IF shown[c] = NoCount THEN created[c] ELSE shown[c]

(* What the lobby's task remembers of a session is what its player ends up
   with, unless the sender was not there or the queue was full. *)
MemoryIsDelivered ==
  \A c \in senders \cap DOMAIN lastRenders : missed[c] \/ EndsWith(queue[c], Displayed(c), lastRenders[c])

(* Once nobody comes or leaves, a player who stays sees the current count,
   unless its last change was recorded without being sent. *)
SettlesUnlessMissed ==
  \A c \in Conn : <>[](phase[c] = "play" /\ ~missed[c]) => <>[](shown[c] = Online)

==========================================================================
