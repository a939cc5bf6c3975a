----------------------------- MODULE MCSelector ----------------------------
(***************************************************************************)
(* Places to check Selector with: both items, one other slot, and a menu of *)
(* one destination and one filler, or of fillers only.  Beside it, with a   *)
(* lobby of their own, the fair tasks of two connections; a behaviour runs  *)
(* the machine that part names.                                            *)
(***************************************************************************)
EXTENDS Selector

ModernAndLegacy == {[stateIds |-> TRUE, confirms |-> FALSE], [stateIds |-> FALSE, confirms |-> TRUE]}

CONSTANTS compass, eye, slot, server_item, pane, outside
SomeOrNone == {{server_item}, {}}

VARIABLES next_session_id, next_entity_id, sessions_by_uuid, entity_to_session, session_to_uuid, reply_peers,
          lobby_broadcast_senders, phase, lobby_session_id, players_visible, was_in_play_state,
          plan, outbox, queue, view, clicks, render_failures, departures

CONSTANTS c1, c2
Conn == {c1, c2}
Tasks == INSTANCE LobbyConnections WITH
           UuidOf <- [c \in Conn |-> c], Username <- {"steve"}, Position <- {"spawn"}, ChatMode <- {},
           NpcCount <- 0, SessionIdMax <- 3, EntityIdMax <- 3, MaxPlayers <- 0, QueueCapacity <- 8,
           MaxToggles <- 0, MaxRenderFailures <- 0, MaxDepartures <- 2

VARIABLE part

tasks == <<next_session_id, next_entity_id, sessions_by_uuid, entity_to_session, session_to_uuid, reply_peers,
           lobby_broadcast_senders, phase, lobby_session_id, players_visible, was_in_play_state,
           plan, outbox, queue, view, clicks, render_failures, departures>>

MCInit == part \in {"selector", "tasks"} /\ Init /\ Tasks!Init

MCNext ==
  /\ UNCHANGED part
  /\ \/ part = "selector" /\ Next /\ UNCHANGED tasks
     \/ part = "tasks" /\ Tasks!Next /\ UNCHANGED vars

(* As Tasks!Fairness, of the behaviours that run the tasks.                *)
FairTasks == \A c \in Conn : WF_(Tasks!vars)(part = "tasks" /\ Tasks!Step(c))

MCSpec == MCInit /\ [][MCNext]_<<part, vars, tasks>> /\ FairTasks

(* Players in play come to be drawn on each other's screens.               *)
EventuallyShown == Tasks!EventuallyShown

(* Who has left comes off every screen.                                    *)
EventuallyGone == Tasks!EventuallyGone
============================================================================
