------------------------------ MODULE LobbyState ------------------------------
(***************************************************************************)
(* The lobby registry of server_state/lobby.rs: one value of type          *)
(* LobbyState behind a mutex, so every method below is one atomic step.    *)
(*                                                                         *)
(* The registry keeps each player once, in sessions_by_uuid, and three     *)
(* indexes beside it.  A connection holds only a session id or an entity   *)
(* id, so every lookup goes through the indexes; what must not go wrong is *)
(* that an id leads to nothing or to the player it was issued to.          *)
(*                                                                         *)
(* Abstracted: textures, protocol version, message text and formats.  A    *)
(* LobbyRecipient is its session id, a LobbySpawnInfo a pair of UUID and   *)
(* entity id.  Usernames are equivalence classes of eq_ignore_ascii_case.  *)
(***************************************************************************)
EXTENDS FiniteSets, PartialFunctions

CONSTANTS
  UUID,          \* account identities
  Username,      \* names up to ASCII case
  Position,      \* the positions a player can report
  ChatMode,      \* chat modes clients report, besides the initial "Unknown"
  NpcCount,      \* NPCs configured at start-up
  SessionIdMax,  \* u64::MAX, where allocate_session_id saturates
  EntityIdMax    \* i32::MAX, where allocate_entity_id saturates

ChatVisibility == {"Full", "CommandsOnly", "Hidden", "Unknown"}

ASSUME LobbyStateAssumption ==
  /\ ChatMode \subseteq ChatVisibility
  /\ NpcCount \in Nat
  /\ EntityIdMax \in Nat \ {0}
  /\ NpcCount < EntityIdMax
  /\ SessionIdMax \in Nat
  /\ EntityIdMax <= SessionIdMax

VARIABLES
  next_session_id,
  next_entity_id,
  sessions_by_uuid,   \* UUID -> Session
  entity_to_session,  \* entity id -> session id
  session_to_uuid,    \* session id -> UUID
  reply_peers         \* session id -> session id

indexes == <<entity_to_session, session_to_uuid>>
counters == <<next_session_id, next_entity_id>>
vars == <<counters, sessions_by_uuid, indexes, reply_peers>>

SessionId == 1..SessionIdMax
EntityId == 1..EntityIdMax

Session == [session_id : SessionId, entity_id : EntityId, username : Username,
            position : Position, crouching : BOOLEAN,
            chat_visibility : ChatVisibility, players_visible : BOOLEAN]

-------------------------------------------------------------------------------
(* Lookups *)

Sessions == {sessions_by_uuid[u] : u \in DOMAIN sessions_by_uuid}
LiveIds == {x.session_id : x \in Sessions}

(* session_by_session_id(s) returns Some. *)
KnownSession(s) ==
  /\ s \in DOMAIN session_to_uuid
  /\ session_to_uuid[s] \in DOMAIN sessions_by_uuid
SessionOf(s) == sessions_by_uuid[session_to_uuid[s]]

(* The ?-chain entity id -> session id -> UUID -> session returns Some. *)
KnownEntity(e) ==
  /\ e \in DOMAIN entity_to_session
  /\ KnownSession(entity_to_session[e])

(* with_npcs gives the NPCs the first entity ids. *)
NpcEntityIds == 1..NpcCount

-------------------------------------------------------------------------------
(* Plans: what a broadcast is addressed to, read in one lock section *)

PlanRecipients(excluded) ==
  {x.session_id : x \in {y \in Sessions : y.players_visible}} \ excluded

ReceivesChat(x) == x.chat_visibility # "Hidden"

PlanChatRecipients == {x.session_id : x \in {y \in Sessions : ReceivesChat(y)}}

SpawnInfo(x, u) == [uuid |-> u, entity_id |-> x.entity_id]

(* existing_sessions of plan_join_visibility: everybody else, also the     *)
(* sessions whose own client hides players.                                *)
ExistingSessions(s) ==
  {SpawnInfo(sessions_by_uuid[u], u) :
     u \in {v \in DOMAIN sessions_by_uuid : sessions_by_uuid[v].session_id # s}}

PlanSwingRecipients(e) == PlanRecipients({SessionOf(entity_to_session[e]).session_id})

-------------------------------------------------------------------------------
(* Constructor *)

FirstPlayerId_IgnoringNpcs == 1  \* mutant: the NPCs do not take ids from the allocator

FirstPlayerId == NpcCount + 1

Init ==
  /\ next_session_id = 1
  /\ next_entity_id = FirstPlayerId
  /\ sessions_by_uuid = EmptyMap
  /\ entity_to_session = EmptyMap
  /\ session_to_uuid = EmptyMap
  /\ reply_peers = EmptyMap

Saturating_Overflowing(n, max) == n + 1                              \* mutant: plain addition

(* saturating_add(1).max(FIRST) *)
Saturating(n, max) == IF n < max THEN n + 1 ELSE max

-------------------------------------------------------------------------------
(* Joining and leaving *)

Previous_Forgotten(u) == {}  \* mutant: insert overwrites without cleaning the indexes

(* The session this account still has, if any. *)
Previous(u) == {sessions_by_uuid[v] : v \in DOMAIN sessions_by_uuid \cap {u}}

(* A player with the UUID of a session that is still registered replaces it; *)
(* nothing is planned for those who see the replaced one.                    *)
Insert(u, name, p, chat, visible) ==
  LET gone == {x.session_id : x \in Previous(u)}
      gone_entities == {x.entity_id : x \in Previous(u)}
  IN /\ sessions_by_uuid' = Put(sessions_by_uuid, u,
          [session_id |-> next_session_id, entity_id |-> next_entity_id,
           username |-> name, position |-> p, crouching |-> FALSE,
           chat_visibility |-> chat, players_visible |-> visible])
     /\ session_to_uuid' = Put(Without(session_to_uuid, gone), next_session_id, u)
     /\ entity_to_session' =
          Put(Without(entity_to_session, gone_entities), next_entity_id, next_session_id)
     /\ reply_peers' = Without(reply_peers, gone)
     /\ next_session_id' = Saturating(next_session_id, SessionIdMax)
     /\ next_entity_id' = Saturating(next_entity_id, EntityIdMax)

RemoveByUuid(u) ==
  /\ u \in DOMAIN sessions_by_uuid
  /\ LET x == sessions_by_uuid[u]
     IN /\ sessions_by_uuid' = Without(sessions_by_uuid, {u})
        /\ entity_to_session' = Without(entity_to_session, {x.entity_id})
        /\ session_to_uuid' = Without(session_to_uuid, {x.session_id})
        /\ reply_peers' = Without(reply_peers, {x.session_id})
  /\ UNCHANGED counters

(* The second lookup may fail after the first removal: the index entry is  *)
(* then gone and nothing else changes.                                     *)
RemoveBySessionId(s) ==
  /\ s \in DOMAIN session_to_uuid
  /\ session_to_uuid' = Without(session_to_uuid, {s})
  /\ IF KnownSession(s)
       THEN /\ sessions_by_uuid' = Without(sessions_by_uuid, {session_to_uuid[s]})
            /\ entity_to_session' = Without(entity_to_session, {SessionOf(s).entity_id})
            /\ reply_peers' = Without(reply_peers, {s})
       ELSE UNCHANGED <<sessions_by_uuid, entity_to_session, reply_peers>>
  /\ UNCHANGED counters

RemoveByEntityId(e) ==
  /\ e \in DOMAIN entity_to_session
  /\ RemoveBySessionId(entity_to_session[e])

(* remove_by_session_id_with_leave_plan: both recipient lists are read     *)
(* after the removal, in the same lock section.                            *)
LeaveRecipients(s) == PlanRecipients({SessionOf(s).session_id})

-------------------------------------------------------------------------------
(* Updates of one session, addressed by entity id or by session id *)

ReplaceSession(u, x) ==
  /\ sessions_by_uuid' = [sessions_by_uuid EXCEPT ![u] = x]
  /\ UNCHANGED <<counters, indexes, reply_peers>>

UpdatePosition(e, p) ==
  /\ KnownEntity(e)
  /\ LET u == session_to_uuid[entity_to_session[e]]
     IN ReplaceSession(u, [sessions_by_uuid[u] EXCEPT !.position = p])

UpdateCrouching(e, crouching) ==
  /\ KnownEntity(e)
  /\ LET u == session_to_uuid[entity_to_session[e]]
     IN /\ sessions_by_uuid[u].crouching # crouching
        /\ ReplaceSession(u, [sessions_by_uuid[u] EXCEPT !.crouching = crouching])

UpdateChatVisibility(s, mode) ==
  /\ KnownSession(s)
  /\ ReplaceSession(session_to_uuid[s], [SessionOf(s) EXCEPT !.chat_visibility = mode])

UpdatePlayersVisible(s, visible) ==
  /\ KnownSession(s)
  /\ ReplaceSession(session_to_uuid[s], [SessionOf(s) EXCEPT !.players_visible = visible])

-------------------------------------------------------------------------------
(* Private messages *)

ValidPair_AllowsSelf(sender, recipient) == ReceivesChat(recipient)  \* mutant

(* validate_private_message_pair *)
ValidPair(sender, recipient) ==
  sender.session_id # recipient.session_id /\ ReceivesChat(recipient)

(* plan_private_message_to_session *)
Exchange(sender, recipient) ==
  /\ ValidPair(sender, recipient)
  /\ reply_peers' = Put(Put(reply_peers, sender.session_id, recipient.session_id),
                        recipient.session_id, sender.session_id)
  /\ UNCHANGED <<counters, sessions_by_uuid, indexes>>

(* find_session_by_username_ignore_case: exactly one session has the name. *)
PlanPrivateMessage(s, name) ==
  /\ KnownSession(s)
  /\ \E u \in DOMAIN sessions_by_uuid :
       /\ {v \in DOMAIN sessions_by_uuid : sessions_by_uuid[v].username = name} = {u}
       /\ Exchange(SessionOf(s), sessions_by_uuid[u])

PlanReplyMessage(s) ==
  /\ KnownSession(s)
  /\ s \in DOMAIN reply_peers
  /\ KnownSession(reply_peers[s])
  /\ Exchange(SessionOf(s), SessionOf(reply_peers[s]))

-------------------------------------------------------------------------------
JoinNext == \E u \in UUID, name \in Username, p \in Position,
               chat \in ChatMode \cup {"Unknown"}, visible \in BOOLEAN :
              Insert(u, name, p, chat, visible)

RemoveNext ==
  \/ \E u \in UUID : RemoveByUuid(u)
  \/ \E s \in SessionId : RemoveBySessionId(s)
  \/ \E e \in EntityId : RemoveByEntityId(e)

UpdateNext ==
  \/ \E e \in EntityId, p \in Position : UpdatePosition(e, p)
  \/ \E e \in EntityId, b \in BOOLEAN : UpdateCrouching(e, b)
  \/ \E s \in SessionId, m \in ChatMode : UpdateChatVisibility(s, m)
  \/ \E s \in SessionId, b \in BOOLEAN : UpdatePlayersVisible(s, b)

MessageNext ==
  \/ \E s \in SessionId, name \in Username : PlanPrivateMessage(s, name)
  \/ \E s \in SessionId : PlanReplyMessage(s)

Next == JoinNext \/ RemoveNext \/ UpdateNext \/ MessageNext

Spec == Init /\ [][Next]_vars

-------------------------------------------------------------------------------
(* Properties *)

(* Types. The counters stay within u64 and i32, as saturating_add          *)
(* promises.                                                               *)
TypeOK ==
  /\ next_session_id \in SessionId
  /\ next_entity_id \in EntityId
  /\ IsMap(sessions_by_uuid, UUID, Session)
  /\ IsMap(entity_to_session, EntityId, SessionId)
  /\ IsMap(session_to_uuid, SessionId, UUID)
  /\ IsMap(reply_peers, SessionId, SessionId)

(* Every index entry leads to the player the id was issued to: no entry of *)
(* a replaced or removed session survives in session_to_uuid or            *)
(* entity_to_session, even when the last ids are issued again and again.   *)
IndexesResolve ==
  /\ \A s \in DOMAIN session_to_uuid :
       KnownSession(s) /\ SessionOf(s).session_id = s
  /\ \A e \in DOMAIN entity_to_session :
       KnownEntity(e) /\ SessionOf(entity_to_session[e]).entity_id = e

(* Every player can be reached through both of its ids, so its updates and *)
(* its removal find it; only the ids at which the allocators saturate may  *)
(* be shared.                                                              *)
SessionsReachable ==
  \A u \in DOMAIN sessions_by_uuid :
    LET x == sessions_by_uuid[u]
    IN /\ x.session_id # SessionIdMax =>
            x.session_id \in DOMAIN session_to_uuid /\ session_to_uuid[x.session_id] = u
       /\ x.entity_id # EntityIdMax =>
            /\ x.entity_id \in DOMAIN entity_to_session
            /\ entity_to_session[x.entity_id] = x.session_id

(* No player gets the entity id of an NPC, so plan_npc_interaction never   *)
(* mistakes a click on a player for one on an NPC.                         *)
NpcsKeepTheirIds == \A x \in Sessions : x.entity_id \notin NpcEntityIds

(* The three maps, which every operation changes one after the other, agree *)
(* after each of them.                                                     *)
IndexesAgree == IndexesResolve /\ SessionsReachable /\ NpcsKeepTheirIds

(* reply_peers holds entries of registered players only, nobody is their   *)
(* own peer, and a peer who is still here can reply as well.               *)
ReplyPeersKnown ==
  /\ DOMAIN reply_peers \subseteq LiveIds
  /\ \A s \in DOMAIN reply_peers :
       /\ reply_peers[s] # s
       /\ reply_peers[s] \in LiveIds \ {SessionIdMax} => reply_peers[s] \in DOMAIN reply_peers

(* An id that was issued and no longer resolves never resolves again: the  *)
(* connection of a replaced session, or a stored reply peer, cannot reach  *)
(* the player who came after it.                                           *)
RemovedIdsStayDead ==
  [][\A s \in SessionId \ {SessionIdMax} :
       s < next_session_id /\ ~KnownSession(s) => ~KnownSession(s)']_vars

(* Operation by operation, LobbyState does what LobbyRegistry promises: an *)
(* update or a removal by id affects exactly the player holding that id.   *)
Registry == INSTANCE LobbyRegistry WITH online <- sessions_by_uuid, floor <- next_session_id

ImplementsRegistry ==
  /\ Registry!Init
  /\ [][/\ Registry!Next \/ UNCHANGED <<sessions_by_uuid, next_session_id>>
        /\ \A s \in SessionId : RemoveBySessionId(s) => Registry!LeaveBySession(s)
        /\ \A e \in EntityId : RemoveByEntityId(e) => Registry!LeaveByEntity(e)
        /\ \A e \in EntityId, p \in Position : UpdatePosition(e, p) => Registry!UpdateByEntity(e)
        /\ \A s \in SessionId, b \in BOOLEAN :
             UpdatePlayersVisible(s, b) => Registry!UpdateBySession(s)]_vars
===============================================================================
