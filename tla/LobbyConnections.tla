--------------------------- MODULE LobbyConnections ---------------------------
(***************************************************************************)
(* The connection tasks of server/network.rs sharing one lobby registry:   *)
(* registration, join visibility, the visibility toggle, departure.        *)
(*                                                                         *)
(* Each connection is one task (handle_client).  The registry and the map  *)
(* of broadcast senders have a lock each, and a handler takes them one     *)
(* after the other, so a step below is one lock section, or the code up to *)
(* the next one; phase[c] says which step the task of c takes next.  Other *)
(* tasks never write to the stream of c: they put packets into its bounded *)
(* queue, which its own task drains between two inbound packets.           *)
(*                                                                         *)
(* view[c] is what the game client of c shows, as the packets written to   *)
(* its stream so far leave it.                                             *)
(***************************************************************************)
EXTENDS Integers, FiniteSets, SequencesExt, PartialFunctions

CONSTANTS
  Conn,              \* connection tasks, each used by one client once
  UuidOf,            \* the account behind a connection; reconnects share it
  Username, Position, ChatMode, NpcCount, SessionIdMax, EntityIdMax,
  MaxPlayers,        \* server_list.max_players, 0 for no limit
  QueueCapacity,     \* LOBBY_BROADCAST_QUEUE_CAPACITY
  MaxToggles,        \* bound: clicks on the toggle item per connection
  MaxRenderFailures, \* bound: play-packet handlers that return Err
  MaxDepartures      \* bound: connections that end by themselves

Accounts == {UuidOf[c] : c \in Conn}

ASSUME LobbyConnectionsAssumption ==
  /\ ChatMode \subseteq {"Full", "CommandsOnly", "Hidden", "Unknown"}
  /\ NpcCount \in Nat /\ SessionIdMax \in Nat /\ EntityIdMax \in Nat
  /\ NpcCount < EntityIdMax /\ EntityIdMax <= SessionIdMax
  /\ MaxPlayers \in Nat /\ QueueCapacity \in Nat \ {0}
  /\ MaxToggles \in Nat /\ MaxRenderFailures \in Nat /\ MaxDepartures \in Nat

ASSUME FiniteConnections == IsFiniteSet(Conn)

VARIABLES
  next_session_id, next_entity_id, sessions_by_uuid,
  entity_to_session, session_to_uuid, reply_peers,   \* the LobbyState
  lobby_broadcast_senders,  \* session id -> connection owning the queue
  phase,                    \* connection -> next step of its task
  lobby_session_id,         \* ClientState: its session, or NoSession
  players_visible,          \* ClientState: what the toggle item shows
  was_in_play_state,        \* handle_client's flag
  plan,                     \* what the task read in its last registry section
  outbox,                   \* the batches it has still to queue for others
  queue,                    \* connection -> its broadcast queue
  view,                     \* connection -> what its client shows
  clicks, render_failures, departures   \* bounds

Lobby == INSTANCE LobbyState WITH UUID <- Accounts

lobby == <<next_session_id, next_entity_id, sessions_by_uuid,
           entity_to_session, session_to_uuid, reply_peers>>
client == <<lobby_session_id, players_visible, was_in_play_state>>
delivery == <<plan, outbox, queue, view>>
bounds == <<clicks, render_failures, departures>>
vars == <<lobby, lobby_broadcast_senders, phase, client, delivery, bounds>>

NoSession == 0
Phase == {"Configuration", "Registering", "Inserting", "Rendering", "Planning",
          "CollectingJoin", "Announcing", "Play", "Toggling",
          "Leaving", "RemovingSender", "CollectingLeave", "Retracting", "Closed"}

-------------------------------------------------------------------------------
(* Packets and what they do to a game client *)

Packet(kind, info) == [kind |-> kind, uuid |-> info.uuid, entity_id |-> info.entity_id]

(* player_spawn_packets_*, leave_visibility_packets *)
SpawnPackets(info) == <<Packet("PlayerInfoAdd", info), Packet("SpawnPlayer", info)>>
LeavePackets_EntityOnly(info) == <<Packet("RemoveEntity", info)>>        \* mutant
LeavePackets_ListOnly(info) == <<Packet("PlayerInfoRemove", info)>>      \* mutant
LeavePackets(info) == <<Packet("RemoveEntity", info), Packet("PlayerInfoRemove", info)>>

EmptyView == [entities |-> {}, tab_list |-> {}]

(* The Minecraft client, external: entities by id, tab list by UUID. *)
Shown(v, p) ==
  [entities |-> CASE p.kind = "SpawnPlayer" -> v.entities \cup {p.entity_id}
                  [] p.kind = "RemoveEntity" -> v.entities \ {p.entity_id}
                  [] OTHER -> v.entities,
   tab_list |-> CASE p.kind = "PlayerInfoAdd" -> v.tab_list \cup {p.uuid}
                  [] p.kind = "PlayerInfoRemove" -> v.tab_list \ {p.uuid}
                  [] OTHER -> v.tab_list]

(* The plan's sessions written to the client's own stream. *)
WithPlayers(v, infos) ==
  [entities |-> v.entities \cup {i.entity_id : i \in infos},
   tab_list |-> v.tab_list \cup {i.uuid : i \in infos}]
WithoutPlayers(v, infos) ==
  [entities |-> v.entities \ {i.entity_id : i \in infos},
   tab_list |-> v.tab_list \ {i.uuid : i \in infos}]

-------------------------------------------------------------------------------
(* LobbyJoinPlan and LobbyLeavePlan *)

NoPlan == [existing |-> {}, packets |-> <<>>, recipients |-> {}]

Registered(c) == Lobby!KnownSession(lobby_session_id[c])
InfoOf(c) == Lobby!SpawnInfo(Lobby!SessionOf(lobby_session_id[c]),
                             session_to_uuid[lobby_session_id[c]])

JoinPlan_VisibleOnly(c) ==  \* mutant: those who hide players are not shown either
  [existing |-> {i \in Lobby!ExistingSessions(lobby_session_id[c]) :
                   sessions_by_uuid[i.uuid].players_visible},
   packets |-> SpawnPackets(InfoOf(c)),
   recipients |-> Lobby!PlanRecipients({lobby_session_id[c]})]

JoinPlan(c) ==
  [existing |-> Lobby!ExistingSessions(lobby_session_id[c]),
   packets |-> SpawnPackets(InfoOf(c)),
   recipients |-> Lobby!PlanRecipients({lobby_session_id[c]})]

LeavePlan(c) ==
  [existing |-> {},
   packets |-> LeavePackets(InfoOf(c)),
   recipients |-> Lobby!LeaveRecipients(lobby_session_id[c])]

(* collect_lobby_broadcast_senders *)
Senders(recipients) ==
  {lobby_broadcast_senders[s] : s \in recipients \cap DOMAIN lobby_broadcast_senders}

(* The batches of a plan, one recipient after the other in some order. *)
Batches(order, packets) == [i \in DOMAIN order |-> [to |-> order[i], packets |-> packets]]

(* The batches that are left after the first packet of the first one.      *)
AfterFirst(batches) ==
  IF Len(batches[1].packets) = 1 THEN Tail(batches)
  ELSE [batches EXCEPT ![1] = [to |-> @.to, packets |-> Tail(@.packets)]]

-------------------------------------------------------------------------------
Init ==
  /\ Lobby!Init
  /\ lobby_broadcast_senders = EmptyMap
  /\ phase = [c \in Conn |-> "Configuration"]
  /\ lobby_session_id = [c \in Conn |-> NoSession]
  /\ players_visible = [c \in Conn |-> TRUE]
  /\ was_in_play_state = [c \in Conn |-> FALSE]
  /\ plan = [c \in Conn |-> NoPlan]
  /\ outbox = [c \in Conn |-> <<>>]
  /\ queue = [c \in Conn |-> <<>>]
  /\ view = [c \in Conn |-> EmptyView]
  /\ clicks = [c \in Conn |-> 0]
  /\ render_failures = 0
  /\ departures = 0

At(c, from, to) == phase[c] = from /\ phase' = [phase EXCEPT ![c] = to]

(* The two reads of the player count: kick_if_lobby_full and, after the    *)
(* chunk packets are prepared, register_lobby_session.  A kick closes.     *)
(* Without a limit neither of them looks at the registry.                  *)
LobbyFull == MaxPlayers > 0 /\ Cardinality(Lobby!Sessions) >= MaxPlayers

CheckCapacity(c, from, to) ==
  /\ At(c, from, IF LobbyFull THEN "Leaving" ELSE to)
  /\ UNCHANGED <<lobby, lobby_broadcast_senders, client, delivery, bounds>>

KickIfLobbyFull(c) ==
  CheckCapacity(c, "Configuration", IF MaxPlayers = 0 THEN "Inserting" ELSE "Registering")
RegisterCheck(c) == CheckCapacity(c, "Registering", "Inserting")

(* Bound: the allocators do not saturate here; LobbyState covers that. *)
IdsRemain == next_session_id < SessionIdMax /\ next_entity_id < EntityIdMax

RegisterInsert(c) ==
  /\ IdsRemain
  /\ At(c, "Inserting", "Rendering")
  /\ \E name \in Username, p \in Position :
       Lobby!Insert(UuidOf[c], name, p, "Unknown", players_visible[c])
  /\ lobby_session_id' = [lobby_session_id EXCEPT ![c] = next_session_id]
  /\ UNCHANGED <<lobby_broadcast_senders, players_visible, was_in_play_state, delivery, bounds>>

(* A ? of send_play_packets after the registration: a template that does   *)
(* not parse for this player.  The connection stays in Configuration.      *)
RenderFails(c) ==
  /\ render_failures < MaxRenderFailures
  /\ At(c, "Rendering", "Configuration")
  /\ render_failures' = render_failures + 1
  /\ UNCHANGED <<lobby, lobby_broadcast_senders, client, delivery, clicks, departures>>

EnterPlay_WithoutSender(c) ==  \* mutant: joins before others can reach it
  /\ At(c, "Rendering", "Planning")
  /\ was_in_play_state' = [was_in_play_state EXCEPT ![c] = TRUE]
  /\ UNCHANGED <<lobby, lobby_broadcast_senders, lobby_session_id, players_visible, delivery, bounds>>

(* process_packet, first packet in Play *)
EnterPlay(c) ==
  /\ At(c, "Rendering", "Planning")
  /\ was_in_play_state' = [was_in_play_state EXCEPT ![c] = TRUE]
  /\ lobby_broadcast_senders' = Put(lobby_broadcast_senders, lobby_session_id[c], c)
  /\ UNCHANGED <<lobby, lobby_session_id, players_visible, delivery, bounds>>

(* send_join_visibility returns early when the session was replaced. *)
PlanJoin(c) ==
  /\ IF Registered(c)
       THEN At(c, "Planning", "CollectingJoin") /\ plan' = [plan EXCEPT ![c] = JoinPlan(c)]
       ELSE At(c, "Planning", "Play") /\ UNCHANGED plan
  /\ UNCHANGED <<lobby, lobby_broadcast_senders, client, outbox, queue, view, bounds>>

(* A task that has sent the last packet of its outbox goes on. *)
AfterSending(sending) == IF sending = "Announcing" THEN "Play" ELSE "Closed"

(* The task of c is still in the loop that drains its queue. *)
Reading(c) ==
  phase[c] \notin {"Leaving", "RemovingSender", "CollectingLeave", "Retracting", "Closed"}

(* The senders are looked up under their own lock; then the newcomer's     *)
(* packets go to its own stream, and the announcement remains to be queued.*)
Collect(c, from, sending) ==
  /\ \E order \in SetToSeqs(Senders(plan[c].recipients)) :
       /\ outbox' = [outbox EXCEPT ![c] = Batches(order, plan[c].packets)]
       /\ At(c, from, IF order = <<>> THEN AfterSending(sending) ELSE sending)
  /\ view' = [view EXCEPT ![c] = WithPlayers(@, plan[c].existing)]
  /\ plan' = [plan EXCEPT ![c] = NoPlan]
  /\ UNCHANGED <<lobby, lobby_broadcast_senders, client, queue, bounds>>

CollectJoin(c) == Collect(c, "CollectingJoin", "Announcing")

(* queue_broadcast_packet: one try_send.  A full queue drops the packet;   *)
(* what is queued for a task that left its read loop nobody will see.      *)
TrySend(c) ==
  /\ phase[c] \in {"Announcing", "Retracting"}
  /\ outbox[c] # <<>>
  /\ LET batch == outbox[c][1]
         accepted == Reading(batch.to) /\ Len(queue[batch.to]) < QueueCapacity
     IN queue' = IF accepted
                   THEN [queue EXCEPT ![batch.to] = Append(@, batch.packets[1])]
                   ELSE queue
  /\ outbox' = [outbox EXCEPT ![c] = AfterFirst(@)]
  /\ phase' = IF AfterFirst(outbox[c]) = <<>>
                THEN [phase EXCEPT ![c] = AfterSending(@)] ELSE phase
  /\ UNCHANGED <<lobby, lobby_broadcast_senders, client, plan, view, bounds>>

(* The recv branch of read's select! *)
Receive(c) ==
  /\ phase[c] = "Play"
  /\ queue[c] # <<>>
  /\ queue' = [queue EXCEPT ![c] = Tail(@)]
  /\ view' = [view EXCEPT ![c] = Shown(@, Head(queue[c]))]
  /\ UNCHANGED <<lobby, lobby_broadcast_senders, phase, client, plan, outbox, bounds>>

ToggleFlag_Stale(c) ==  \* mutant: the registry is told before the flag flips
  /\ clicks[c] < MaxToggles
  /\ At(c, "Play", "Toggling")
  /\ clicks' = [clicks EXCEPT ![c] = @ + 1]
  /\ players_visible' = [players_visible EXCEPT ![c] = ~@]
  /\ IF Registered(c)
       THEN Lobby!UpdatePlayersVisible(lobby_session_id[c], players_visible[c])
       ELSE UNCHANGED lobby
  /\ UNCHANGED <<lobby_broadcast_senders, lobby_session_id, was_in_play_state,
                 delivery, render_failures, departures>>

(* handle_visibility_toggle: the flag in one registry section, the plan in *)
(* another, then the packets of the plan to the client's own stream.       *)
ToggleFlag(c) ==
  /\ clicks[c] < MaxToggles
  /\ At(c, "Play", "Toggling")
  /\ clicks' = [clicks EXCEPT ![c] = @ + 1]
  /\ players_visible' = [players_visible EXCEPT ![c] = ~@]
  /\ IF Registered(c)
       THEN Lobby!UpdatePlayersVisible(lobby_session_id[c], ~players_visible[c])
       ELSE UNCHANGED lobby
  /\ UNCHANGED <<lobby_broadcast_senders, lobby_session_id, was_in_play_state,
                 delivery, render_failures, departures>>

ToggleView(c) ==
  /\ At(c, "Toggling", "Play")
  /\ LET others == Lobby!ExistingSessions(lobby_session_id[c])
     IN view' = IF ~Registered(c) THEN view
                ELSE [view EXCEPT ![c] = IF players_visible[c] THEN WithPlayers(@, others)
                                         ELSE WithoutPlayers(@, others)]
  /\ UNCHANGED <<lobby, lobby_broadcast_senders, client, plan, outbox, queue, bounds>>

-------------------------------------------------------------------------------
(* Departure *)

(* A read or a write of the stream fails, or the client has been idle:     *)
(* possible wherever the task awaits its socket.  Its client is gone.      *)
Disconnect(c) ==
  /\ departures < MaxDepartures
  /\ departures' = departures + 1
  /\ \E from \in {"Configuration", "Planning", "CollectingJoin", "Play"} : At(c, from, "Leaving")
  /\ queue' = [queue EXCEPT ![c] = <<>>]
  /\ view' = [view EXCEPT ![c] = EmptyView]
  /\ UNCHANGED <<lobby, lobby_broadcast_senders, client, plan, outbox, clicks, render_failures>>

EndSession_ByAccount(c) ==  \* mutant: whatever session the account has now
  IF UuidOf[c] \in DOMAIN sessions_by_uuid
    THEN Lobby!RemoveByUuid(UuidOf[c])
    ELSE UNCHANGED lobby

EndSession_RecordOnly(c) ==  \* mutant: the indexes keep their entries
  /\ sessions_by_uuid' = IF Registered(c) THEN Without(sessions_by_uuid, {InfoOf(c).uuid})
                         ELSE sessions_by_uuid
  /\ UNCHANGED <<next_session_id, next_entity_id, entity_to_session, session_to_uuid, reply_peers>>

EndSession_OnlyInPlay(c) ==  \* mutant: nothing to undo before the first packet in Play
  IF was_in_play_state[c] /\ lobby_session_id[c] \in DOMAIN session_to_uuid
    THEN Lobby!RemoveBySessionId(lobby_session_id[c])
    ELSE UNCHANGED lobby

EndSession(c) ==
  IF lobby_session_id[c] \in DOMAIN session_to_uuid
    THEN Lobby!RemoveBySessionId(lobby_session_id[c])
    ELSE UNCHANGED lobby

(* unregister_lobby_session_with_leave_plan, up to the registry's unlock.  *)
(* The plan is dropped unless the player was in play.                      *)
Unregister(c) ==
  /\ At(c, "Leaving", IF lobby_session_id[c] = NoSession THEN "Closed" ELSE "RemovingSender")
  /\ EndSession(c)
  /\ plan' = [plan EXCEPT ![c] =
                IF Registered(c) /\ was_in_play_state[c] THEN LeavePlan(c) ELSE NoPlan]
  /\ UNCHANGED <<lobby_broadcast_senders, client, outbox, queue, view, bounds>>

RemoveSender(c) ==
  /\ At(c, "RemovingSender", IF plan[c] = NoPlan THEN "Closed" ELSE "CollectingLeave")
  /\ lobby_broadcast_senders' = Without(lobby_broadcast_senders, {lobby_session_id[c]})
  /\ UNCHANGED <<lobby, client, delivery, bounds>>

CollectLeave(c) == Collect(c, "CollectingLeave", "Retracting")

-------------------------------------------------------------------------------
(* What the task of c does by itself, once its client asked to join. *)
Step(c) ==
  \/ RegisterCheck(c) \/ RegisterInsert(c) \/ EnterPlay(c)
  \/ PlanJoin(c) \/ CollectJoin(c) \/ TrySend(c) \/ Receive(c)
  \/ ToggleView(c)
  \/ Unregister(c) \/ RemoveSender(c) \/ CollectLeave(c)

(* What depends on the client or the configuration. *)
Input(c) ==
  \/ KickIfLobbyFull(c) \/ RenderFails(c) \/ ToggleFlag(c) \/ Disconnect(c)

Next == \E c \in Conn : Step(c) \/ Input(c)

Spec == Init /\ [][Next]_vars

(* A task that can go on does. *)
Fairness == \A c \in Conn : WF_vars(Step(c))
FairSpec == Spec /\ Fairness

-------------------------------------------------------------------------------
(* Properties *)

(* Types. A sender is stored only under the id of a registered session,    *)
(* and no queue outgrows its capacity.                                     *)
TypeOK ==
  /\ Lobby!TypeOK
  /\ IsMap(lobby_broadcast_senders, Lobby!SessionId, Conn)
  /\ phase \in [Conn -> Phase]
  /\ lobby_session_id \in [Conn -> Lobby!SessionId \cup {NoSession}]
  /\ players_visible \in [Conn -> BOOLEAN]
  /\ was_in_play_state \in [Conn -> BOOLEAN]
  /\ \A c \in Conn :
       /\ Len(queue[c]) <= QueueCapacity
       /\ plan[c].recipients \subseteq Lobby!SessionId
       /\ view[c].entities \subseteq Lobby!EntityId
       /\ view[c].tab_list \subseteq Accounts

(* The task of c has not begun to unregister. *)
Attached(c) == phase[c] \notin {"RemovingSender", "CollectingLeave", "Retracting", "Closed"}

InPlay(c) == phase[c] = "Play" /\ Registered(c)

(* What the client of c shows once it has drained its queue: who is in its *)
(* view (0) or in a packet, and not in a packet of removal after that.     *)
Settled(c) ==
  LET Removed(i, kind) == {p \in {queue[c][j] : j \in i + 1 .. Len(queue[c])} : p.kind = kind}
      Spawned(i) == IF i = 0 THEN view[c].entities
                    ELSE IF queue[c][i].kind = "SpawnPlayer" THEN {queue[c][i].entity_id} ELSE {}
      Listed(i) == IF i = 0 THEN view[c].tab_list
                   ELSE IF queue[c][i].kind = "PlayerInfoAdd" THEN {queue[c][i].uuid} ELSE {}
      Moments == 0 .. Len(queue[c])
  IN [entities |-> UNION {Spawned(i) \ {p.entity_id : p \in Removed(i, "RemoveEntity")} : i \in Moments},
      tab_list |-> UNION {Listed(i) \ {p.uuid : p \in Removed(i, "PlayerInfoRemove")} : i \in Moments}]

(* A packet of this kind that a task has read the plan of, or holds in its *)
(* outbox, will be offered to c.                                           *)
StillToSend(c, kind, field, value) ==
  LET fits(p) == p.kind = kind /\ p[field] = value
  IN \E d \in Conn :
       \/ \E i \in DOMAIN outbox[d] :
            outbox[d][i].to = c /\ \E j \in DOMAIN outbox[d][i].packets : fits(outbox[d][i].packets[j])
       \/ /\ lobby_session_id[c] \in plan[d].recipients
          /\ \E i \in DOMAIN plan[d].packets : fits(plan[d].packets[i])

(* The registration of a connection never outlives it, whatever happens    *)
(* between its registration and its first packet in Play, and neither does *)
(* its sender, which keeps a whole queue alive.                            *)
NothingLeaks ==
  /\ \A x \in Lobby!Sessions : \E c \in Conn : Attached(c) /\ lobby_session_id[c] = x.session_id
  /\ \A s \in DOMAIN lobby_broadcast_senders :
       LET c == lobby_broadcast_senders[s]
       IN lobby_session_id[c] = s /\ (Attached(c) \/ phase[c] = "RemovingSender")

(* However their joins interleave, two players who both finished joining   *)
(* see each other: whoever registers later announces itself to the other,  *)
(* or the other finds it already registered.  Only the queue is between.   *)
PlayersAreShown ==
  \A c, d \in Conn :
    c # d /\ InPlay(c) /\ InPlay(d) /\ players_visible[c] =>
      InfoOf(d).entity_id \in Settled(c).entities

(* The same for the tab list, without which a client cannot draw a player. *)
PlayersAreListed ==
  \A c, d \in Conn :
    c # d /\ InPlay(c) /\ InPlay(d) /\ players_visible[c] =>
      InfoOf(d).uuid \in Settled(c).tab_list

(* A client shows nobody who left, unless the one leaving is about to tell *)
(* it so: a join planned just before a departure is retracted after it.    *)
GhostsAreRetracted ==
  \A c \in Conn : InPlay(c) /\ players_visible[c] =>
    /\ \A e \in Settled(c).entities :
         \/ \E x \in Lobby!Sessions : x.entity_id = e
         \/ StillToSend(c, "RemoveEntity", "entity_id", e)
    /\ \A u \in Settled(c).tab_list :
         \/ u \in DOMAIN sessions_by_uuid
         \/ StillToSend(c, "PlayerInfoRemove", "uuid", u)

(* The registry's copy of the visibility flag, by which broadcasts choose  *)
(* their recipients, is the one the client's item shows.                   *)
FlagsAgree ==
  \A c \in Conn : Registered(c) =>
    Lobby!SessionOf(lobby_session_id[c]).players_visible = players_visible[c]

(* A departing connection ends its own session only: a player who has      *)
(* reconnected is not thrown out by the end of the old connection.         *)
DepartureEndsOwnSession ==
  [][\A c \in Conn : phase[c] = "Leaving" /\ phase'[c] # "Leaving" =>
       \A u \in DOMAIN sessions_by_uuid :
         sessions_by_uuid[u].session_id # lobby_session_id[c] =>
           u \in DOMAIN sessions_by_uuid' /\ sessions_by_uuid'[u] = sessions_by_uuid[u]]_vars

(* The tasks use the registry through its methods only, so all that holds  *)
(* of LobbyState holds under their interleavings.                          *)
UsesLobbyState == Lobby!Spec

(* Both players in play come to be drawn on each other's screens.          *)
EventuallyShown ==
  \A c, d \in Conn : c # d =>
    (InPlay(c) /\ InPlay(d))
      ~> (~InPlay(c) \/ ~InPlay(d) \/ InfoOf(d).entity_id \in view[c].entities)

(* A player whose session has ended disappears from every screen.          *)
EventuallyGone ==
  \A c \in Conn, e \in Lobby!EntityId :
    (e \in view[c].entities /\ \A x \in Lobby!Sessions : x.entity_id # e)
      ~> (e \notin view[c].entities)

(* No task is between two of its steps, and no packet is under way.        *)
Quiet ==
  \A c \in Conn : phase[c] \in {"Configuration", "Play", "Closed"} /\ queue[c] = <<>>

(* visibility_toggle.rs: a click on the item despawns the other players,   *)
(* and nobody appears while they are hidden.                               *)
HiddenMeansHidden ==
  Quiet => \A c \in Conn : InPlay(c) /\ ~players_visible[c] => view[c].entities = {}

(* unregister_lobby_session: a session that never reached play was never   *)
(* made visible to others.                                                 *)
NeverInPlayNeverVisible ==
  \A c, d \in Conn :
    phase[c] = "Leaving" /\ Registered(c) /\ ~was_in_play_state[c] /\ InPlay(d) =>
      InfoOf(c).entity_id \notin view[d].entities

(* server-list.md: max_players caps the players in the lobby.              *)
LobbyCapped == MaxPlayers > 0 => Cardinality(Lobby!Sessions) <= MaxPlayers

===============================================================================
