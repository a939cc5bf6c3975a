--------------------------- MODULE LobbyStateProofs ---------------------------
(***************************************************************************)
(* Proofs about the lobby registry, for any accounts, names, positions,    *)
(* number of NPCs and sizes of the two id spaces.                          *)
(***************************************************************************)
EXTENDS LobbyState, TLAPS

(* Sessions carry ids the allocators have already passed; only the last id *)
(* can still be handed out.  Entity ids run out no later than session ids, *)
(* so that two sessions that share the last session id share the last      *)
(* entity id too.                                                          *)
IdsIssued ==
  /\ \A u \in DOMAIN sessions_by_uuid :
       LET x == sessions_by_uuid[u]
       IN /\ x.session_id < next_session_id \/ x.session_id = SessionIdMax
          /\ x.entity_id < next_entity_id \/ x.entity_id = EntityIdMax
          /\ x.entity_id > NpcCount
          /\ x.session_id = SessionIdMax => x.entity_id = EntityIdMax
  /\ next_entity_id > NpcCount
  /\ next_session_id <= next_entity_id \/ next_entity_id = EntityIdMax

IInv == TypeOK /\ IndexesResolve /\ SessionsReachable /\ IdsIssued

-------------------------------------------------------------------------------
(* The two map updates, read back. *)

(* HashMap::insert keeps the type of the map and changes one entry.        *)
LEMMA PutMap ==
  ASSUME NEW K, NEW V, NEW f, IsMap(f, K, V), NEW k \in K, NEW v \in V
  PROVE  /\ IsMap(Put(f, k, v), K, V)
         /\ DOMAIN Put(f, k, v) = DOMAIN f \cup {k}
         /\ Put(f, k, v)[k] = v
         /\ \A x \in DOMAIN f \ {k} : Put(f, k, v)[x] = f[x]
BY DEF IsMap, Put

(* HashMap::remove keeps the type of the map and the other entries.        *)
LEMMA WithoutMap ==
  ASSUME NEW K, NEW V, NEW f, IsMap(f, K, V), NEW ks
  PROVE  /\ IsMap(Without(f, ks), K, V)
         /\ DOMAIN Without(f, ks) = DOMAIN f \ ks
         /\ \A x \in DOMAIN f \ ks : Without(f, ks)[x] = f[x]
BY DEF IsMap, Without, Restrict

(* An allocator stays in range and grows until it saturates.               *)
LEMMA SaturatingRange ==
  ASSUME NEW max \in Nat, NEW n \in 1..max
  PROVE  /\ Saturating(n, max) \in 1..max
         /\ n < Saturating(n, max) \/ n = max
         /\ n <= Saturating(n, max)
         /\ n < max => Saturating(n, max) = n + 1
BY DEF Saturating

(* A registry just built from the configured NPCs.                         *)
LEMMA InitIInv == Init => IInv
BY LobbyStateAssumption
   DEF Init, IInv, TypeOK, IndexesResolve, SessionsReachable, IdsIssued, FirstPlayerId,
       IsMap, EmptyMap, SessionId, EntityId

-------------------------------------------------------------------------------
(* Two players share an id only where the allocators saturate. *)

(* A shared session id is the last one, and so are the entity ids with it. *)
LEMMA OnlyLastIdsShared ==
  ASSUME IInv, NEW u \in DOMAIN sessions_by_uuid, NEW v \in DOMAIN sessions_by_uuid, u # v
  PROVE  /\ sessions_by_uuid[u].session_id = sessions_by_uuid[v].session_id
              => /\ sessions_by_uuid[u].session_id = SessionIdMax
                 /\ sessions_by_uuid[u].entity_id = EntityIdMax
                 /\ sessions_by_uuid[v].entity_id = EntityIdMax
         /\ sessions_by_uuid[u].entity_id = sessions_by_uuid[v].entity_id
              => sessions_by_uuid[u].entity_id = EntityIdMax
BY DEF IInv, SessionsReachable, IdsIssued

(* The last session id is issued only when the last entity id is. *)
LEMMA LastSessionMeansLastEntity ==
  ASSUME IInv, next_session_id = SessionIdMax
  PROVE  next_entity_id = EntityIdMax
BY LobbyStateAssumption DEF IInv, TypeOK, IdsIssued, SessionId, EntityId

-------------------------------------------------------------------------------
(* Removal: whichever id it is asked for, one player and its own index     *)
(* entries go.                                                             *)

(* A removal by account keeps the invariant.                               *)
LEMMA RemoveByUuidIInv ==
  ASSUME IInv, NEW u \in UUID, RemoveByUuid(u)
  PROVE  IInv'
<1> DEFINE x == sessions_by_uuid[u]
<1>1. /\ u \in DOMAIN sessions_by_uuid
      /\ x \in Session
  BY DEF RemoveByUuid, IInv, TypeOK, IsMap
<1>2. /\ DOMAIN sessions_by_uuid' = DOMAIN sessions_by_uuid \ {u}
      /\ \A v \in DOMAIN sessions_by_uuid \ {u} : sessions_by_uuid'[v] = sessions_by_uuid[v]
      /\ IsMap(sessions_by_uuid', UUID, Session)
  <2>1. /\ sessions_by_uuid' = Without(sessions_by_uuid, {u})
        /\ IsMap(sessions_by_uuid, UUID, Session)
    BY DEF RemoveByUuid, IInv, TypeOK
  <2> QED
    BY <2>1 DEF Without, Restrict, IsMap
<1>3. /\ DOMAIN session_to_uuid' = DOMAIN session_to_uuid \ {x.session_id}
      /\ \A s \in DOMAIN session_to_uuid \ {x.session_id} : session_to_uuid'[s] = session_to_uuid[s]
      /\ IsMap(session_to_uuid', SessionId, UUID)
  BY WithoutMap DEF RemoveByUuid, IInv, TypeOK
<1>4. /\ DOMAIN entity_to_session' = DOMAIN entity_to_session \ {x.entity_id}
      /\ \A e \in DOMAIN entity_to_session \ {x.entity_id} :
           entity_to_session'[e] = entity_to_session[e]
      /\ IsMap(entity_to_session', EntityId, SessionId)
  <2>1. /\ entity_to_session' = Without(entity_to_session, {x.entity_id})
        /\ IsMap(entity_to_session, EntityId, SessionId)
    BY DEF RemoveByUuid, IInv, TypeOK
  <2> QED
    BY <2>1, WithoutMap
<1>5. TypeOK'
  <2>1. IsMap(reply_peers', SessionId, SessionId)
    BY WithoutMap DEF RemoveByUuid, IInv, TypeOK
  <2> QED
    BY <1>2, <1>3, <1>4, <2>1 DEF RemoveByUuid, IInv, TypeOK, counters
<1>6. IndexesResolve'
  <2>1. ASSUME NEW s \in DOMAIN session_to_uuid'
        PROVE  KnownSession(s)' /\ (SessionOf(s).session_id = s)'
    <3>1. KnownSession(s) /\ SessionOf(s).session_id = s
      BY <1>3 DEF IInv, IndexesResolve
    <3>2. session_to_uuid[s] # u
      BY <1>3, <3>1 DEF SessionOf
    <3> QED
      BY <1>2, <1>3, <3>1, <3>2 DEF KnownSession, SessionOf
  <2>2. ASSUME NEW e \in DOMAIN entity_to_session'
        PROVE  KnownEntity(e)' /\ (SessionOf(entity_to_session[e]).entity_id = e)'
    <3> DEFINE s == entity_to_session[e]
               v == session_to_uuid[s]
    <3>1. /\ e \in DOMAIN entity_to_session
          /\ s \in DOMAIN session_to_uuid
          /\ v \in DOMAIN sessions_by_uuid
          /\ sessions_by_uuid[v].entity_id = e
          /\ sessions_by_uuid[v].session_id = s
      BY <1>4 DEF IInv, IndexesResolve, KnownEntity, KnownSession, SessionOf
    <3>2. v # u
      BY <1>4, <3>1
    <3>3. s # x.session_id
      BY <1>1, <1>4, <3>1, <3>2, OnlyLastIdsShared
    <3> QED
      BY <1>2, <1>3, <1>4, <3>1, <3>2, <3>3 DEF KnownEntity, KnownSession, SessionOf
  <2> QED
    BY <2>1, <2>2 DEF IndexesResolve
<1>7. SessionsReachable'
  <2> SUFFICES ASSUME NEW v \in DOMAIN sessions_by_uuid'
               PROVE  LET y == sessions_by_uuid'[v]
                      IN /\ y.session_id # SessionIdMax =>
                              /\ y.session_id \in DOMAIN session_to_uuid'
                              /\ session_to_uuid'[y.session_id] = v
                         /\ y.entity_id # EntityIdMax =>
                              /\ y.entity_id \in DOMAIN entity_to_session'
                              /\ entity_to_session'[y.entity_id] = y.session_id
    BY DEF SessionsReachable
  <2>1. v \in DOMAIN sessions_by_uuid /\ v # u /\ sessions_by_uuid'[v] = sessions_by_uuid[v]
    BY <1>2
  <2> QED
    BY <1>1, <1>3, <1>4, <2>1, OnlyLastIdsShared DEF IInv, SessionsReachable
<1>8. IdsIssued'
  BY <1>2 DEF RemoveByUuid, counters, IInv, IdsIssued
<1> QED
  BY <1>5, <1>6, <1>7, <1>8 DEF IInv

(* A removal by session id removes the player it was issued to.            *)
LEMMA RemoveBySessionIdIsRemoveByUuid ==
  ASSUME IInv, NEW s \in SessionId, RemoveBySessionId(s)
  PROVE  /\ session_to_uuid[s] \in UUID
         /\ RemoveByUuid(session_to_uuid[s])
         /\ sessions_by_uuid[session_to_uuid[s]].session_id = s
<1>1. KnownSession(s) /\ SessionOf(s).session_id = s
  BY DEF IInv, IndexesResolve, RemoveBySessionId
<1> QED
  BY <1>1 DEF IInv, TypeOK, IsMap, RemoveBySessionId, RemoveByUuid, KnownSession, SessionOf

(* A removal by entity id removes the player it was issued to.             *)
LEMMA RemoveByEntityIdIsRemoveByUuid ==
  ASSUME IInv, NEW e \in EntityId, RemoveByEntityId(e)
  PROVE  \E u \in UUID : RemoveByUuid(u) /\ sessions_by_uuid[u].entity_id = e
<1> DEFINE s == entity_to_session[e]
<1>1. s \in SessionId /\ RemoveBySessionId(s)
  BY DEF RemoveByEntityId, IInv, TypeOK, IsMap
<1>2. SessionOf(s).entity_id = e
  BY DEF RemoveByEntityId, IInv, IndexesResolve
<1> QED
  BY <1>1, <1>2, RemoveBySessionIdIsRemoveByUuid DEF SessionOf

-------------------------------------------------------------------------------
(* An update replaces one record by another with the same ids. *)

SameIds(x, y) ==
  /\ x.session_id = y.session_id
  /\ x.entity_id = y.entity_id
  /\ x.username = y.username

(* An update that keeps the ids keeps the invariant.                       *)
LEMMA ReplaceSessionIInv ==
  ASSUME IInv, NEW u \in DOMAIN sessions_by_uuid, NEW x \in Session,
         SameIds(x, sessions_by_uuid[u]), ReplaceSession(u, x)
  PROVE  IInv'
<1>1. /\ DOMAIN sessions_by_uuid' = DOMAIN sessions_by_uuid
      /\ \A v \in DOMAIN sessions_by_uuid :
           /\ sessions_by_uuid'[v].session_id = sessions_by_uuid[v].session_id
           /\ sessions_by_uuid'[v].entity_id = sessions_by_uuid[v].entity_id
      /\ IsMap(sessions_by_uuid', UUID, Session)
  BY DEF ReplaceSession, SameIds, IInv, TypeOK, IsMap
<1>2. TypeOK'
  BY <1>1 DEF ReplaceSession, counters, indexes, IInv, TypeOK
<1>3. IndexesResolve'
  BY <1>1 DEF ReplaceSession, indexes, IInv, IndexesResolve, KnownEntity, KnownSession, SessionOf
<1>4. SessionsReachable'
  BY <1>1 DEF ReplaceSession, indexes, IInv, SessionsReachable
<1>5. IdsIssued'
  BY <1>1 DEF ReplaceSession, counters, IInv, IdsIssued
<1> QED
  BY <1>2, <1>3, <1>4, <1>5 DEF IInv

(* Every update action replaces one known record. *)
Replaces(u) ==
  /\ u \in DOMAIN sessions_by_uuid
  /\ \E x \in Session : SameIds(x, sessions_by_uuid[u]) /\ ReplaceSession(u, x)

(* A movement or crouching update changes the player with that entity id.  *)
LEMMA UpdateByEntityReplaces ==
  ASSUME IInv, NEW e \in EntityId
  PROVE  /\ \A p \in Position : UpdatePosition(e, p) =>
              \E u \in UUID : Replaces(u) /\ sessions_by_uuid[u].entity_id = e
         /\ \A b \in BOOLEAN : UpdateCrouching(e, b) =>
              \E u \in UUID : Replaces(u) /\ sessions_by_uuid[u].entity_id = e
<1> DEFINE u == session_to_uuid[entity_to_session[e]]
<1>1. ASSUME KnownEntity(e)
      PROVE  /\ u \in UUID
             /\ u \in DOMAIN sessions_by_uuid
             /\ sessions_by_uuid[u] \in Session
             /\ sessions_by_uuid[u].entity_id = e
  BY <1>1 DEF IInv, TypeOK, IsMap, IndexesResolve, KnownEntity, KnownSession, SessionOf
<1>2. ASSUME NEW p \in Position, UpdatePosition(e, p)
      PROVE  \E v \in UUID : Replaces(v) /\ sessions_by_uuid[v].entity_id = e
  <2> DEFINE x == [sessions_by_uuid[u] EXCEPT !.position = p]
  <2>1. KnownEntity(e) /\ ReplaceSession(u, x)
    BY <1>2 DEF UpdatePosition
  <2>2. x \in Session /\ SameIds(x, sessions_by_uuid[u])
    BY <1>1, <2>1 DEF Session, SameIds
  <2> QED
    BY <1>1, <2>1, <2>2 DEF Replaces
<1>3. ASSUME NEW b \in BOOLEAN, UpdateCrouching(e, b)
      PROVE  \E v \in UUID : Replaces(v) /\ sessions_by_uuid[v].entity_id = e
  <2> DEFINE x == [sessions_by_uuid[u] EXCEPT !.crouching = b]
  <2>1. KnownEntity(e) /\ ReplaceSession(u, x)
    BY <1>3 DEF UpdateCrouching
  <2>2. x \in Session /\ SameIds(x, sessions_by_uuid[u])
    BY <1>1, <2>1 DEF Session, SameIds
  <2> QED
    BY <1>1, <2>1, <2>2 DEF Replaces
<1> QED
  BY <1>2, <1>3

(* A chat mode or visibility update changes the player with that session   *)
(* id.                                                                     *)
LEMMA UpdateBySessionReplaces ==
  ASSUME IInv, NEW s \in SessionId
  PROVE  /\ \A m \in ChatMode : UpdateChatVisibility(s, m) =>
              \E u \in UUID : Replaces(u) /\ sessions_by_uuid[u].session_id = s
         /\ \A b \in BOOLEAN : UpdatePlayersVisible(s, b) =>
              \E u \in UUID : Replaces(u) /\ sessions_by_uuid[u].session_id = s
<1> DEFINE u == session_to_uuid[s]
<1>1. ASSUME KnownSession(s)
      PROVE  /\ u \in UUID
             /\ u \in DOMAIN sessions_by_uuid
             /\ sessions_by_uuid[u] \in Session
             /\ sessions_by_uuid[u].session_id = s
  BY <1>1 DEF IInv, TypeOK, IsMap, IndexesResolve, KnownSession, SessionOf
<1>2. ASSUME NEW m \in ChatMode, UpdateChatVisibility(s, m)
      PROVE  \E v \in UUID : Replaces(v) /\ sessions_by_uuid[v].session_id = s
  <2> DEFINE x == [sessions_by_uuid[u] EXCEPT !.chat_visibility = m]
  <2>1. KnownSession(s) /\ ReplaceSession(u, x)
    BY <1>2 DEF UpdateChatVisibility, SessionOf
  <2>2. x \in Session /\ SameIds(x, sessions_by_uuid[u])
    BY <1>1, <2>1, LobbyStateAssumption DEF Session, SameIds
  <2> QED
    BY <1>1, <2>1, <2>2 DEF Replaces
<1>3. ASSUME NEW b \in BOOLEAN, UpdatePlayersVisible(s, b)
      PROVE  \E v \in UUID : Replaces(v) /\ sessions_by_uuid[v].session_id = s
  <2> DEFINE x == [sessions_by_uuid[u] EXCEPT !.players_visible = b]
  <2>1. KnownSession(s) /\ ReplaceSession(u, x)
    BY <1>3 DEF UpdatePlayersVisible, SessionOf
  <2>2. x \in Session /\ SameIds(x, sessions_by_uuid[u])
    BY <1>1, <2>1 DEF Session, SameIds
  <2> QED
    BY <1>1, <2>1, <2>2 DEF Replaces
<1> QED
  BY <1>2, <1>3

-------------------------------------------------------------------------------
(* Joining: the new ids lead to the new player, and the entries of the      *)
(* session it replaces are gone.                                            *)

(* A join, also one under an account still registered, keeps the           *)
(* invariant.                                                              *)
LEMMA InsertIInv ==
  ASSUME IInv, NEW u \in UUID, NEW name \in Username, NEW p \in Position,
         NEW chat \in ChatMode \cup {"Unknown"}, NEW visible \in BOOLEAN,
         Insert(u, name, p, chat, visible)
  PROVE  IInv'
<1> DEFINE sid == next_session_id
           eid == next_entity_id
           gone == {x.session_id : x \in Previous(u)}
           gone_entities == {x.entity_id : x \in Previous(u)}
           new == [session_id |-> sid, entity_id |-> eid, username |-> name,
                   position |-> p, crouching |-> FALSE,
                   chat_visibility |-> chat, players_visible |-> visible]
<1>1. sid \in SessionId /\ eid \in EntityId /\ new \in Session
  BY LobbyStateAssumption DEF IInv, TypeOK, Session, ChatVisibility
<1>2. /\ u \in DOMAIN sessions_by_uuid =>
           /\ gone = {sessions_by_uuid[u].session_id}
           /\ gone_entities = {sessions_by_uuid[u].entity_id}
      /\ u \notin DOMAIN sessions_by_uuid => gone = {} /\ gone_entities = {}
  BY DEF Previous
<1>3. /\ DOMAIN sessions_by_uuid' = DOMAIN sessions_by_uuid \cup {u}
      /\ sessions_by_uuid'[u] = new
      /\ \A v \in DOMAIN sessions_by_uuid \ {u} : sessions_by_uuid'[v] = sessions_by_uuid[v]
      /\ IsMap(sessions_by_uuid', UUID, Session)
  <2>1. sessions_by_uuid' = Put(sessions_by_uuid, u, new)
    BY DEF Insert
  <2>2. IsMap(sessions_by_uuid, UUID, Session)
    BY DEF IInv, TypeOK
  <2> HIDE DEF new
  <2> QED
    BY <1>1, <2>1, <2>2 DEF Put, IsMap
<1>4. /\ DOMAIN session_to_uuid' = (DOMAIN session_to_uuid \ gone) \cup {sid}
      /\ session_to_uuid'[sid] = u
      /\ \A s \in DOMAIN session_to_uuid \ gone :
           s # sid => session_to_uuid'[s] = session_to_uuid[s]
      /\ IsMap(session_to_uuid', SessionId, UUID)
  <2>1. session_to_uuid' = Put(Without(session_to_uuid, gone), sid, u)
    BY DEF Insert
  <2>2. IsMap(session_to_uuid, SessionId, UUID)
    BY DEF IInv, TypeOK
  <2> HIDE DEF gone, sid
  <2> QED
    BY <1>1, <2>1, <2>2 DEF Put, Without, Restrict, IsMap
<1>5. /\ DOMAIN entity_to_session' = (DOMAIN entity_to_session \ gone_entities) \cup {eid}
      /\ entity_to_session'[eid] = sid
      /\ \A e \in DOMAIN entity_to_session \ gone_entities :
           e # eid => entity_to_session'[e] = entity_to_session[e]
      /\ IsMap(entity_to_session', EntityId, SessionId)
  <2>1. entity_to_session' = Put(Without(entity_to_session, gone_entities), eid, sid)
    BY DEF Insert
  <2>2. IsMap(entity_to_session, EntityId, SessionId)
    BY DEF IInv, TypeOK
  <2> HIDE DEF gone_entities, sid, eid
  <2> QED
    BY <1>1, <2>1, <2>2 DEF Put, Without, Restrict, IsMap
<1>6. /\ next_session_id' \in SessionId
      /\ sid < next_session_id' \/ sid = SessionIdMax
      /\ sid <= next_session_id'
      /\ sid < SessionIdMax => next_session_id' = sid + 1
  <2>1. next_session_id' = Saturating(sid, SessionIdMax)
    BY DEF Insert
  <2> QED
    BY <1>1, <2>1, SaturatingRange, LobbyStateAssumption DEF SessionId
<1>7. /\ next_entity_id' \in EntityId
      /\ eid < next_entity_id' \/ eid = EntityIdMax
      /\ eid <= next_entity_id'
      /\ eid < EntityIdMax => next_entity_id' = eid + 1
  <2>1. next_entity_id' = Saturating(eid, EntityIdMax)
    BY DEF Insert
  <2> QED
    BY <1>1, <2>1, SaturatingRange, LobbyStateAssumption DEF EntityId
<1>8. ASSUME NEW v \in DOMAIN sessions_by_uuid
      PROVE  /\ sessions_by_uuid[v] \in Session
             /\ sessions_by_uuid[v].session_id \in SessionId
             /\ sessions_by_uuid[v].entity_id \in EntityId
             /\ sessions_by_uuid[v].session_id = sid =>
                  /\ sid = SessionIdMax
                  /\ eid = EntityIdMax
                  /\ sessions_by_uuid[v].entity_id = EntityIdMax
             /\ sessions_by_uuid[v].entity_id = eid => eid = EntityIdMax
  <2>1. sessions_by_uuid[v] \in Session
    BY DEF IInv, TypeOK, IsMap
  <2> QED
    BY <1>1, <2>1, LastSessionMeansLastEntity, LobbyStateAssumption
       DEF IInv, IdsIssued, Session, SessionId, EntityId
<1>9. TypeOK'
  <2>1. IsMap(reply_peers', SessionId, SessionId)
    BY WithoutMap DEF Insert, IInv, TypeOK
  <2> QED
    BY <1>3, <1>4, <1>5, <1>6, <1>7, <2>1 DEF TypeOK
<1> HIDE DEF new, gone, gone_entities, sid, eid
<1>10. IndexesResolve'
  <2>1. ASSUME NEW s \in DOMAIN session_to_uuid'
        PROVE  KnownSession(s)' /\ (SessionOf(s).session_id = s)'
    <3>1. CASE s = sid
      BY <1>3, <1>4, <3>1 DEF KnownSession, SessionOf, new
    <3>2. CASE s # sid
      <4>1. s \in DOMAIN session_to_uuid /\ s \notin gone
        BY <1>4, <3>2
      <4>2. KnownSession(s) /\ SessionOf(s).session_id = s
        BY <4>1 DEF IInv, IndexesResolve
      <4>3. session_to_uuid[s] # u
        BY <1>2, <4>1, <4>2 DEF KnownSession, SessionOf
      <4> QED
        BY <1>3, <1>4, <3>2, <4>1, <4>2, <4>3 DEF KnownSession, SessionOf
    <3> QED
      BY <3>1, <3>2
  <2>2. ASSUME NEW e \in DOMAIN entity_to_session'
        PROVE  KnownEntity(e)' /\ (SessionOf(entity_to_session[e]).entity_id = e)'
    <3>1. CASE e = eid
      BY <1>3, <1>4, <1>5, <3>1 DEF KnownEntity, KnownSession, SessionOf, new
    <3>2. CASE e # eid
      <4> DEFINE s == entity_to_session[e]
                 v == session_to_uuid[s]
      <4>1. e \in DOMAIN entity_to_session /\ e \notin gone_entities
        BY <1>5, <3>2
      <4>2. /\ s \in DOMAIN session_to_uuid
            /\ v \in DOMAIN sessions_by_uuid
            /\ sessions_by_uuid[v].entity_id = e
            /\ sessions_by_uuid[v].session_id = s
        BY <4>1 DEF IInv, IndexesResolve, KnownEntity, KnownSession, SessionOf
      <4>3. v # u
        BY <1>2, <4>1, <4>2
      <4>4. s # sid
        BY <1>8, <3>2, <4>2
      <4>5. s \notin gone
        BY <1>2, <4>1, <4>2, <4>3, OnlyLastIdsShared
      <4> QED
        BY <1>3, <1>4, <1>5, <3>2, <4>1, <4>2, <4>3, <4>4, <4>5
           DEF KnownEntity, KnownSession, SessionOf
    <3> QED
      BY <3>1, <3>2
  <2> QED
    BY <2>1, <2>2 DEF IndexesResolve
<1>11. SessionsReachable'
  <2> SUFFICES ASSUME NEW v \in DOMAIN sessions_by_uuid'
               PROVE  LET y == sessions_by_uuid'[v]
                      IN /\ y.session_id # SessionIdMax =>
                              /\ y.session_id \in DOMAIN session_to_uuid'
                              /\ session_to_uuid'[y.session_id] = v
                         /\ y.entity_id # EntityIdMax =>
                              /\ y.entity_id \in DOMAIN entity_to_session'
                              /\ entity_to_session'[y.entity_id] = y.session_id
    BY DEF SessionsReachable
  <2>1. CASE v = u
    BY <1>3, <1>4, <1>5, <2>1 DEF new
  <2>2. CASE v # u
    <3>1. v \in DOMAIN sessions_by_uuid /\ sessions_by_uuid'[v] = sessions_by_uuid[v]
      BY <1>3, <2>2
    <3> DEFINE y == sessions_by_uuid[v]
    <3>2. ASSUME y.session_id # SessionIdMax
          PROVE  /\ y.session_id \in DOMAIN session_to_uuid'
                 /\ session_to_uuid'[y.session_id] = v
      <4>1. y.session_id \in DOMAIN session_to_uuid /\ session_to_uuid[y.session_id] = v
        BY <3>1, <3>2 DEF IInv, SessionsReachable
      <4>2. y.session_id \notin gone
        BY <1>2, <2>2, <3>1, <3>2, OnlyLastIdsShared
      <4>3. y.session_id # sid
        BY <1>8, <3>1, <3>2
      <4> QED
        BY <1>4, <4>1, <4>2, <4>3
    <3>3. ASSUME y.entity_id # EntityIdMax
          PROVE  /\ y.entity_id \in DOMAIN entity_to_session'
                 /\ entity_to_session'[y.entity_id] = y.session_id
      <4>1. /\ y.entity_id \in DOMAIN entity_to_session
            /\ entity_to_session[y.entity_id] = y.session_id
        BY <3>1, <3>3 DEF IInv, SessionsReachable
      <4>2. y.entity_id \notin gone_entities
        BY <1>2, <2>2, <3>1, <3>3, OnlyLastIdsShared
      <4>3. y.entity_id # eid
        BY <1>8, <3>1, <3>3
      <4> QED
        BY <1>5, <4>1, <4>2, <4>3
    <3> QED
      BY <3>1, <3>2, <3>3
  <2> QED
    BY <2>1, <2>2
<1>12. IdsIssued'
  <2>1. ASSUME NEW v \in DOMAIN sessions_by_uuid'
        PROVE  LET x == sessions_by_uuid'[v]
               IN /\ x.session_id < next_session_id' \/ x.session_id = SessionIdMax
                  /\ x.entity_id < next_entity_id' \/ x.entity_id = EntityIdMax
                  /\ x.entity_id > NpcCount
                  /\ x.session_id = SessionIdMax => x.entity_id = EntityIdMax
    <3>1. CASE v = u
      BY <1>3, <1>6, <1>7, <3>1, LastSessionMeansLastEntity DEF new, sid, eid, IInv, IdsIssued
    <3>2. CASE v # u
      BY <1>1, <1>3, <1>6, <1>7, <1>8, <3>2, LobbyStateAssumption
         DEF sid, eid, IInv, IdsIssued, SessionId, EntityId
    <3> QED
      BY <3>1, <3>2
  <2>2. next_entity_id' > NpcCount
    BY <1>1, <1>7, LobbyStateAssumption DEF eid, IInv, IdsIssued, EntityId
  <2>3. next_session_id' <= next_entity_id' \/ next_entity_id' = EntityIdMax
    BY <1>1, <1>6, <1>7, LobbyStateAssumption DEF sid, eid, IInv, IdsIssued, SessionId, EntityId
  <2> QED
    BY <2>1, <2>2, <2>3 DEF IdsIssued
<1> QED
  BY <1>9, <1>10, <1>11, <1>12 DEF IInv

-------------------------------------------------------------------------------
(* The invariant and what it gives. *)

(* An exchange of messages changes the reply peers only.                   *)
LEMMA MessageKeepsSessions ==
  ASSUME IInv, NEW sender \in Session, NEW recipient \in Session, Exchange(sender, recipient)
  PROVE  /\ IInv'
         /\ UNCHANGED <<counters, sessions_by_uuid, indexes>>
<1>1. IsMap(reply_peers', SessionId, SessionId)
  <2>1. sender.session_id \in SessionId /\ recipient.session_id \in SessionId
    BY DEF Session
  <2>2. IsMap(reply_peers, SessionId, SessionId)
    BY DEF IInv, TypeOK
  <2>3. reply_peers' = Put(Put(reply_peers, sender.session_id, recipient.session_id),
                           recipient.session_id, sender.session_id)
    BY DEF Exchange
  <2> QED
    BY <2>1, <2>2, <2>3, PutMap
<1>2. UNCHANGED <<counters, sessions_by_uuid, indexes>>
  BY DEF Exchange
<1>3. TypeOK'
  BY <1>1, <1>2 DEF IInv, TypeOK, counters, indexes
<1>4. IndexesResolve'
  BY <1>2 DEF IInv, IndexesResolve, indexes, KnownEntity, KnownSession, SessionOf
<1>5. SessionsReachable' /\ IdsIssued'
  BY <1>2 DEF IInv, SessionsReachable, IdsIssued, indexes, counters
<1> QED
  BY <1>2, <1>3, <1>4, <1>5 DEF IInv

(* Private messages and replies are exchanges between two registered       *)
(* players.                                                                *)
LEMMA MessageIsExchange ==
  ASSUME IInv, MessageNext
  PROVE  \E u \in DOMAIN sessions_by_uuid, v \in DOMAIN sessions_by_uuid :
           /\ sessions_by_uuid[u] \in Session
           /\ sessions_by_uuid[v] \in Session
           /\ Exchange(sessions_by_uuid[u], sessions_by_uuid[v])
<1>1. \A u \in DOMAIN sessions_by_uuid : sessions_by_uuid[u] \in Session
  BY DEF IInv, TypeOK, IsMap
<1>2. ASSUME NEW s \in SessionId, NEW name \in Username, PlanPrivateMessage(s, name)
      PROVE  \E u \in DOMAIN sessions_by_uuid, v \in DOMAIN sessions_by_uuid :
               Exchange(sessions_by_uuid[u], sessions_by_uuid[v])
  BY <1>2 DEF PlanPrivateMessage, KnownSession, SessionOf
<1>3. ASSUME NEW s \in SessionId, PlanReplyMessage(s)
      PROVE  \E u \in DOMAIN sessions_by_uuid, v \in DOMAIN sessions_by_uuid :
               Exchange(sessions_by_uuid[u], sessions_by_uuid[v])
  BY <1>3 DEF PlanReplyMessage, KnownSession, SessionOf
<1> QED
  BY <1>1, <1>2, <1>3 DEF MessageNext

(* What one step can be, said about players instead of ids. *)
LEMMA StepCases ==
  ASSUME IInv, Next
  PROVE  \/ \E u \in UUID, name \in Username, p \in Position,
               chat \in ChatMode \cup {"Unknown"}, visible \in BOOLEAN :
              Insert(u, name, p, chat, visible)
         \/ \E u \in UUID : RemoveByUuid(u)
         \/ \E u \in UUID : Replaces(u)
         \/ MessageNext
<1>1. ASSUME RemoveNext PROVE \E u \in UUID : RemoveByUuid(u)
  BY <1>1, RemoveBySessionIdIsRemoveByUuid, RemoveByEntityIdIsRemoveByUuid DEF RemoveNext
<1>2. ASSUME UpdateNext PROVE \E u \in UUID : Replaces(u)
  BY <1>2, UpdateByEntityReplaces, UpdateBySessionReplaces DEF UpdateNext
<1> QED
  BY <1>1, <1>2 DEF Next, JoinNext

(* Every operation of the registry keeps the invariant.                    *)
LEMMA NextIInv == IInv /\ [Next]_vars => IInv'
<1> SUFFICES ASSUME IInv, [Next]_vars PROVE IInv'
  OBVIOUS
<1>1. CASE Next
  <2>1. ASSUME NEW u \in UUID, Replaces(u) PROVE IInv'
    BY <2>1, ReplaceSessionIInv DEF Replaces
  <2>2. ASSUME MessageNext PROVE IInv'
    BY <2>2, MessageIsExchange, MessageKeepsSessions
  <2> QED
    BY <1>1, <2>1, <2>2, StepCases, InsertIInv, RemoveByUuidIInv
<1>2. CASE UNCHANGED vars
  BY <1>2 DEF vars, counters, indexes, IInv, TypeOK, IndexesResolve, SessionsReachable,
              IdsIssued, KnownEntity, KnownSession, SessionOf
<1> QED
  BY <1>1, <1>2

(* In every reachable state of the registry, whatever sequence of joins,   *)
(* removals, updates and messages led there, the inductive invariant       *)
(* holds.                                                                  *)
THEOREM Invariance == Spec => []IInv
BY InitIInv, NextIInv, PTL DEF Spec

(* The maps keep their types, whatever is joined, removed or updated. *)
THEOREM TypeCorrect == Spec => []TypeOK
<1>1. IInv => TypeOK
  BY DEF IInv
<1> QED
  BY <1>1, Invariance, PTL

(* No index entry ever leads to a player its id was not issued to. *)
THEOREM IndexesAlwaysResolve == Spec => []IndexesResolve
<1>1. IInv => IndexesResolve
  BY DEF IInv
<1> QED
  BY <1>1, Invariance, PTL

(* Every registered player is found by both of its ids. *)
THEOREM SessionsAlwaysReachable == Spec => []SessionsReachable
<1>1. IInv => SessionsReachable
  BY DEF IInv
<1> QED
  BY <1>1, Invariance, PTL

(* NPC ids are never given to players. *)
THEOREM NpcIdsNeverReused == Spec => []NpcsKeepTheirIds
<1>1. IInv => NpcsKeepTheirIds
  <2> SUFFICES ASSUME IInv, NEW u \in DOMAIN sessions_by_uuid
               PROVE  sessions_by_uuid[u].entity_id \notin 1..NpcCount
    BY DEF NpcsKeepTheirIds, NpcEntityIds, Sessions
  <2>1. sessions_by_uuid[u].entity_id \in EntityId
    BY DEF IInv, TypeOK, IsMap, Session
  <2> QED
    BY <2>1, LobbyStateAssumption DEF IInv, IdsIssued, EntityId
<1> QED
  BY <1>1, Invariance, PTL

(* After any sequence of operations the session and entity indexes agree   *)
(* with the sessions, and none of them takes an NPC's id.                  *)
THEOREM IndexesAlwaysAgree == Spec => []IndexesAgree
BY IndexesAlwaysResolve, SessionsAlwaysReachable, NpcIdsNeverReused, PTL DEF IndexesAgree

-------------------------------------------------------------------------------
(* An id that has stopped resolving is never issued again, short of the    *)
(* last one: a connection whose session was replaced cannot take its       *)
(* successor down.                                                         *)

(* No operation makes an issued id that does not resolve resolve again.    *)
LEMMA DeadIdStaysDead ==
  ASSUME IInv, [Next]_vars, NEW s \in SessionId \ {SessionIdMax},
         s < next_session_id, ~KnownSession(s)
  PROVE  ~KnownSession(s)'
<1>1. s \notin DOMAIN session_to_uuid
  BY DEF IInv, IndexesResolve
<1>2. ASSUME NEW u \in UUID, NEW name \in Username, NEW p \in Position,
             NEW chat \in ChatMode \cup {"Unknown"}, NEW visible \in BOOLEAN,
             Insert(u, name, p, chat, visible)
      PROVE  s \notin DOMAIN session_to_uuid'
  <2>1. DOMAIN session_to_uuid' \subseteq DOMAIN session_to_uuid \cup {next_session_id}
    BY <1>2 DEF Insert, Put, Without, Restrict
  <2>2. s # next_session_id
    BY DEF IInv, TypeOK, SessionId
  <2> QED
    BY <1>1, <2>1, <2>2
<1>3. ASSUME NEW u \in UUID, RemoveByUuid(u)
      PROVE  s \notin DOMAIN session_to_uuid'
  BY <1>1, <1>3 DEF RemoveByUuid, Without, Restrict
<1>4. ASSUME NEW u \in UUID, Replaces(u)
      PROVE  s \notin DOMAIN session_to_uuid'
  BY <1>1, <1>4 DEF Replaces, ReplaceSession, indexes
<1>5. ASSUME MessageNext
      PROVE  s \notin DOMAIN session_to_uuid'
  BY <1>1, <1>5, MessageIsExchange DEF Exchange, indexes
<1>6. ASSUME UNCHANGED vars
      PROVE  s \notin DOMAIN session_to_uuid'
  BY <1>1, <1>6 DEF vars, indexes
<1> QED
  BY <1>2, <1>3, <1>4, <1>5, <1>6, StepCases DEF KnownSession

(* The session id of a player who left or was replaced never leads to      *)
(* anybody later, except the one id at which allocate_session_id           *)
(* saturates.                                                              *)
THEOREM RemovedIdsNeverResolve == Spec => RemovedIdsStayDead
<1>1. IInv /\ [Next]_vars =>
        [\A s \in SessionId \ {SessionIdMax} :
           s < next_session_id /\ ~KnownSession(s) => ~KnownSession(s)']_vars
  BY DeadIdStaysDead
<1> QED
  BY <1>1, Invariance, PTL DEF Spec, RemovedIdsStayDead

-------------------------------------------------------------------------------
(* Reply peers.  What is missing from ReplyPeersKnown is that a stored     *)
(* peer was issued before: a new player's id is then nobody's stored peer. *)

PeersIssued ==
  \A s \in DOMAIN reply_peers :
    reply_peers[s] < next_session_id \/ reply_peers[s] = SessionIdMax

PeersInv == ReplyPeersKnown /\ PeersIssued

(* When a session goes and its reply entry with it, the entries of the     *)
(* others stay sound: those who remain keep their ids, and a peer still    *)
(* here is not the one who left.                                           *)
LEMMA RemoveKeepsPeers ==
  ASSUME IInv, PeersInv, NEW u \in UUID, RemoveByUuid(u)
  PROVE  PeersInv'
<1> DEFINE x == sessions_by_uuid[u]
<1>1. /\ u \in DOMAIN sessions_by_uuid
      /\ next_session_id' = next_session_id
      /\ DOMAIN sessions_by_uuid' = DOMAIN sessions_by_uuid \ {u}
      /\ \A v \in DOMAIN sessions_by_uuid \ {u} : sessions_by_uuid'[v] = sessions_by_uuid[v]
  <2>1. sessions_by_uuid' = Without(sessions_by_uuid, {u})
    BY DEF RemoveByUuid
  <2> QED
    BY <2>1 DEF RemoveByUuid, counters, Without, Restrict
<1>2. /\ DOMAIN reply_peers' = DOMAIN reply_peers \ {x.session_id}
      /\ \A s \in DOMAIN reply_peers \ {x.session_id} : reply_peers'[s] = reply_peers[s]
  <2>1. reply_peers' = Without(reply_peers, {x.session_id})
    BY DEF RemoveByUuid
  <2> QED
    BY <2>1 DEF Without, Restrict
<1>3. LiveIds \ {x.session_id} \subseteq LiveIds'
  BY <1>1 DEF LiveIds, Sessions
<1>4. LiveIds' \ {SessionIdMax} \subseteq LiveIds \ {x.session_id}
  BY <1>1, OnlyLastIdsShared DEF LiveIds, Sessions
<1>5. ReplyPeersKnown'
  BY <1>2, <1>3, <1>4 DEF PeersInv, ReplyPeersKnown
<1>6. PeersIssued'
  BY <1>1, <1>2 DEF PeersInv, PeersIssued
<1> QED
  BY <1>5, <1>6 DEF PeersInv

(* A joining player, in the place of an earlier session or not, is         *)
(* nobody's stored peer.                                                   *)
LEMMA InsertKeepsPeers ==
  ASSUME IInv, PeersInv,
         NEW u \in UUID, NEW name \in Username, NEW p \in Position,
         NEW chat \in ChatMode \cup {"Unknown"}, NEW visible \in BOOLEAN,
         Insert(u, name, p, chat, visible)
  PROVE  PeersInv'
<1> DEFINE gone == {x.session_id : x \in Previous(u)}
<1>1. /\ DOMAIN sessions_by_uuid' = DOMAIN sessions_by_uuid \cup {u}
      /\ sessions_by_uuid'[u].session_id = next_session_id
      /\ \A v \in DOMAIN sessions_by_uuid \ {u} : sessions_by_uuid'[v] = sessions_by_uuid[v]
  BY DEF Insert, Put
<1>2. /\ DOMAIN reply_peers' = DOMAIN reply_peers \ gone
      /\ \A s \in DOMAIN reply_peers \ gone : reply_peers'[s] = reply_peers[s]
  <2>1. reply_peers' = Without(reply_peers, gone)
    BY DEF Insert
  <2> HIDE DEF gone
  <2> QED
    BY <2>1 DEF Without, Restrict
<1>3. /\ next_session_id \in SessionId
      /\ next_session_id' \in SessionId
      /\ next_session_id <= next_session_id'
  <2>1. next_session_id' = Saturating(next_session_id, SessionIdMax)
    BY DEF Insert
  <2> QED
    BY <2>1, SaturatingRange, LobbyStateAssumption DEF IInv, TypeOK, SessionId
<1>4. \A v \in DOMAIN sessions_by_uuid :
        v = u \/ sessions_by_uuid[v].session_id \notin gone
              \/ sessions_by_uuid[v].session_id = SessionIdMax
  BY OnlyLastIdsShared DEF Previous
<1>5. LiveIds \ gone \subseteq LiveIds'
  BY <1>1 DEF LiveIds, Sessions, Previous
<1>6. LiveIds' \ {SessionIdMax} \subseteq (LiveIds \ gone) \cup {next_session_id}
  BY <1>1, <1>4 DEF LiveIds, Sessions
<1>7. \A s \in DOMAIN reply_peers :
        reply_peers[s] = next_session_id => reply_peers[s] = SessionIdMax
  BY <1>3 DEF PeersInv, PeersIssued, SessionId
<1>8. ReplyPeersKnown'
  BY <1>2, <1>5, <1>6, <1>7 DEF PeersInv, ReplyPeersKnown
<1>9. PeersIssued'
  <2>1. ASSUME NEW s \in DOMAIN reply_peers
        PROVE  reply_peers[s] \in SessionId
    BY DEF IInv, TypeOK, IsMap
  <2> QED
    BY <1>2, <1>3, <2>1 DEF PeersInv, PeersIssued, SessionId
<1> QED
  BY <1>8, <1>9 DEF PeersInv

(* An exchange stores two registered players as each other's peers.        *)
LEMMA ExchangeKeepsPeers ==
  ASSUME IInv, PeersInv, MessageNext
  PROVE  PeersInv'
<1>1. PICK u \in DOMAIN sessions_by_uuid, v \in DOMAIN sessions_by_uuid :
        Exchange(sessions_by_uuid[u], sessions_by_uuid[v])
  BY MessageIsExchange
<1> DEFINE a == sessions_by_uuid[u].session_id
           b == sessions_by_uuid[v].session_id
<1>2. /\ a # b
      /\ UNCHANGED <<next_session_id, sessions_by_uuid>>
      /\ DOMAIN reply_peers' = DOMAIN reply_peers \cup {a, b}
      /\ reply_peers'[a] = b /\ reply_peers'[b] = a
      /\ \A s \in DOMAIN reply_peers \ {a, b} : reply_peers'[s] = reply_peers[s]
  BY <1>1 DEF Exchange, ValidPair, Put, counters
<1>3. a \in LiveIds /\ b \in LiveIds
  BY DEF LiveIds, Sessions
<1>4. ReplyPeersKnown'
  <2>1. LiveIds' = LiveIds
    BY <1>2 DEF LiveIds, Sessions
  <2> QED
    BY <1>2, <1>3, <2>1 DEF PeersInv, ReplyPeersKnown
<1>5. PeersIssued'
  BY <1>2 DEF IInv, IdsIssued, PeersInv, PeersIssued
<1> QED
  BY <1>4, <1>5 DEF PeersInv

(* Updates change neither ids nor peers. *)
LEMMA ReplaceKeepsPeers ==
  ASSUME PeersInv, NEW u \in UUID, Replaces(u)
  PROVE  PeersInv'
<1>1. /\ UNCHANGED <<next_session_id, reply_peers>>
      /\ DOMAIN sessions_by_uuid' = DOMAIN sessions_by_uuid
      /\ \A v \in DOMAIN sessions_by_uuid :
           sessions_by_uuid'[v].session_id = sessions_by_uuid[v].session_id
  BY DEF Replaces, ReplaceSession, SameIds, counters
<1>2. LiveIds' = LiveIds
  BY <1>1 DEF LiveIds, Sessions
<1> QED
  BY <1>1, <1>2 DEF PeersInv, ReplyPeersKnown, PeersIssued

(* Whoever can reply is registered, replies to somebody else, and if that  *)
(* one is still here it can answer: plan_reply_message never reaches a     *)
(* player who took part in no exchange.                                    *)
THEOREM ReplyPeersAlwaysKnown == Spec => []ReplyPeersKnown
<1>1. Init => PeersInv
  BY DEF Init, PeersInv, ReplyPeersKnown, PeersIssued, EmptyMap
<1>2. IInv /\ PeersInv /\ [Next]_vars => PeersInv'
  <2> SUFFICES ASSUME IInv, PeersInv, [Next]_vars PROVE PeersInv'
    OBVIOUS
  <2>1. CASE Next
    BY <2>1, StepCases, InsertKeepsPeers, RemoveKeepsPeers, ReplaceKeepsPeers, ExchangeKeepsPeers
  <2>2. CASE UNCHANGED vars
    BY <2>2 DEF vars, counters, PeersInv, ReplyPeersKnown, PeersIssued, LiveIds, Sessions
  <2> QED
    BY <2>1, <2>2
<1>3. PeersInv => ReplyPeersKnown
  BY DEF PeersInv
<1> QED
  BY <1>1, <1>2, <1>3, Invariance, PTL DEF Spec

-------------------------------------------------------------------------------
(* Refinement of LobbyRegistry. *)

(* insert is Join: the new ids are nobody else's.                          *)
LEMMA InsertIsJoin ==
  ASSUME IInv, NEW u \in UUID, NEW name \in Username, NEW p \in Position,
         NEW chat \in ChatMode \cup {"Unknown"}, NEW visible \in BOOLEAN,
         Insert(u, name, p, chat, visible)
  PROVE  Registry!Join(u)
<1> DEFINE x == sessions_by_uuid'[u]
<1>1. /\ u \in DOMAIN sessions_by_uuid'
      /\ sessions_by_uuid' = Put(sessions_by_uuid, u, x)
      /\ x.session_id = next_session_id
      /\ x.entity_id = next_entity_id
  BY DEF Insert, Put
<1>2. ASSUME NEW v \in DOMAIN sessions_by_uuid
      PROVE  /\ sessions_by_uuid[v].session_id = next_session_id => next_session_id = SessionIdMax
             /\ sessions_by_uuid[v].entity_id = next_entity_id => next_entity_id = EntityIdMax
  <2>1. sessions_by_uuid[v] \in Session
    BY DEF IInv, TypeOK, IsMap
  <2> QED
    BY <2>1, LobbyStateAssumption DEF IInv, TypeOK, IdsIssued, Session, SessionId, EntityId
<1>3. /\ next_session_id' > next_session_id \/ next_session_id = SessionIdMax
      /\ next_session_id' >= next_session_id
  <2>1. next_session_id' = Saturating(next_session_id, SessionIdMax)
    BY DEF Insert
  <2> QED
    BY <2>1, LobbyStateAssumption DEF Saturating, IInv, TypeOK, SessionId
<1>4. next_session_id >= next_session_id
  BY LobbyStateAssumption DEF IInv, TypeOK, SessionId
<1> QED
  BY <1>1, <1>2, <1>3, <1>4
     DEF Registry!Join, Registry!Holds, Registry!Embodies, Registry!Put, Put

(* remove_by_uuid is Leave.                                                *)
LEMMA RemoveIsLeave ==
  ASSUME NEW u \in UUID, RemoveByUuid(u)
  PROVE  Registry!Leave(u)
BY DEF RemoveByUuid, counters, Without, Restrict,
       Registry!Leave, Registry!Without, Registry!Restrict

(* The update methods are Update: the ids stay.                            *)
LEMMA ReplaceIsUpdate ==
  ASSUME IInv, NEW u \in UUID, Replaces(u)
  PROVE  Registry!Update(u)
<1>1. PICK x \in Session : SameIds(x, sessions_by_uuid[u]) /\ ReplaceSession(u, x)
  BY DEF Replaces
<1>2. /\ u \in DOMAIN sessions_by_uuid
      /\ sessions_by_uuid' = [sessions_by_uuid EXCEPT ![u] = x]
      /\ DOMAIN sessions_by_uuid' = DOMAIN sessions_by_uuid
      /\ sessions_by_uuid'[u] = x
  BY <1>1 DEF Replaces, ReplaceSession, IInv, TypeOK, IsMap
<1> QED
  BY <1>1, <1>2 DEF ReplaceSession, counters, SameIds, Registry!Update

(* Every step is a step of LobbyRegistry or changes no player.             *)
LEMMA StepRefines ==
  ASSUME IInv, [Next]_vars
  PROVE  Registry!Next \/ UNCHANGED <<sessions_by_uuid, next_session_id>>
<1>1. CASE Next
  <2>1. ASSUME MessageNext PROVE UNCHANGED <<sessions_by_uuid, next_session_id>>
    BY <2>1, MessageIsExchange DEF Exchange, counters
  <2> QED
    BY <1>1, <2>1, StepCases, InsertIsJoin, RemoveIsLeave, ReplaceIsUpdate DEF Registry!Next
<1>2. CASE UNCHANGED vars
  BY <1>2 DEF vars, counters
<1> QED
  BY <1>1, <1>2

(* Operation by operation, the indexed registry is the registry without    *)
(* indexes: an update or removal by id is one of the player holding it.    *)
THEOREM Refinement == Spec => ImplementsRegistry
<1> DEFINE Step ==
      /\ Registry!Next \/ UNCHANGED <<sessions_by_uuid, next_session_id>>
      /\ \A s \in SessionId : RemoveBySessionId(s) => Registry!LeaveBySession(s)
      /\ \A e \in EntityId : RemoveByEntityId(e) => Registry!LeaveByEntity(e)
      /\ \A e \in EntityId, p \in Position : UpdatePosition(e, p) => Registry!UpdateByEntity(e)
      /\ \A s \in SessionId, b \in BOOLEAN :
           UpdatePlayersVisible(s, b) => Registry!UpdateBySession(s)
<1>1. Init => Registry!Init
  BY DEF Init, EmptyMap, Registry!Init, Registry!EmptyMap
<1>2. IInv /\ [Next]_vars => [Step]_vars
  <2> SUFFICES ASSUME IInv, [Next]_vars PROVE Step
    OBVIOUS
  <2>1. ASSUME NEW s \in SessionId, RemoveBySessionId(s)
        PROVE  Registry!LeaveBySession(s)
    BY <2>1, RemoveBySessionIdIsRemoveByUuid, RemoveIsLeave
       DEF Registry!LeaveBySession, Registry!Holds, RemoveByUuid
  <2>2. ASSUME NEW e \in EntityId, RemoveByEntityId(e)
        PROVE  Registry!LeaveByEntity(e)
    BY <2>2, RemoveByEntityIdIsRemoveByUuid, RemoveIsLeave
       DEF Registry!LeaveByEntity, Registry!Embodies, RemoveByUuid
  <2>3. ASSUME NEW e \in EntityId, NEW p \in Position, UpdatePosition(e, p)
        PROVE  Registry!UpdateByEntity(e)
    BY <2>3, UpdateByEntityReplaces, ReplaceIsUpdate
       DEF Registry!UpdateByEntity, Registry!Embodies, Replaces
  <2>4. ASSUME NEW s \in SessionId, NEW b \in BOOLEAN, UpdatePlayersVisible(s, b)
        PROVE  Registry!UpdateBySession(s)
    BY <2>4, UpdateBySessionReplaces, ReplaceIsUpdate
       DEF Registry!UpdateBySession, Registry!Holds, Replaces
  <2> QED
    BY <2>1, <2>2, <2>3, <2>4, StepRefines
<1> QED
  BY <1>1, <1>2, Invariance, PTL DEF Spec, ImplementsRegistry
===============================================================================
