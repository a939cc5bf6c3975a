----------------------------- MODULE MCLobbyState -----------------------------
(***************************************************************************)
(* The registry by itself: two accounts with enough ids for both to        *)
(* reconnect before and after the allocators saturate (the entity ids      *)
(* first, as i32 does before u64).  Beside it, with a registry of their    *)
(* own, the tasks of three connections; a behaviour runs the machine that  *)
(* part names.                                                             *)
(***************************************************************************)
EXTENDS LobbyState, TLC

CONSTANTS u1, u2, n1, n2, p1, p2

TwoAccounts == {u1, u2}
TwoNames == {n1, n2}
TwoPositions == {p1, p2}
HiddenOnly == {"Hidden"}

VARIABLE part

VARIABLES tasks_session_id, tasks_entity_id, tasks_sessions, tasks_entities, tasks_uuids, tasks_peers,
          lobby_broadcast_senders, phase, lobby_session_id, players_visible, was_in_play_state,
          plan, outbox, queue, view, clicks, render_failures, departures

CONSTANTS c1, c2, c3
Conn == {c1, c2, c3}
Tasks == INSTANCE LobbyConnections WITH
           UuidOf <- [c \in Conn |-> c], Username <- {"steve"}, Position <- {"spawn"}, ChatMode <- {},
           NpcCount <- 0, SessionIdMax <- 8, EntityIdMax <- 8, MaxPlayers <- 0, QueueCapacity <- 8,
           MaxToggles <- 0, MaxRenderFailures <- 0, MaxDepartures <- 3,
           next_session_id <- tasks_session_id, next_entity_id <- tasks_entity_id,
           sessions_by_uuid <- tasks_sessions, entity_to_session <- tasks_entities,
           session_to_uuid <- tasks_uuids, reply_peers <- tasks_peers

tasks == <<tasks_session_id, tasks_entity_id, tasks_sessions, tasks_entities, tasks_uuids, tasks_peers,
           lobby_broadcast_senders, phase, lobby_session_id, players_visible, was_in_play_state,
           plan, outbox, queue, view, clicks, render_failures, departures>>
MCvars == <<part, vars, tasks>>

MCInit == part \in {"registry", "tasks"} /\ Init /\ Tasks!Init

MCNext ==
  /\ UNCHANGED part
  /\ \/ part = "registry" /\ Next /\ UNCHANGED tasks
     \/ part = "tasks" /\ Tasks!Next /\ UNCHANGED vars

MCSpec == MCInit /\ [][MCNext]_MCvars

Symmetric == Permutations(UUID) \cup Permutations(Username) \cup Permutations(Conn)

(* Players in play are in each other's tab lists.                          *)
PlayersAreListed == Tasks!PlayersAreListed

(* Nobody who left stays on a screen, unless a removal is under way.       *)
GhostsAreRetracted == Tasks!GhostsAreRetracted
===============================================================================
