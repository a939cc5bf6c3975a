------------------------ MODULE LobbyConnectionsProofs ------------------------
(***************************************************************************)
(* Proofs about the connection tasks, for any connections, accounts and    *)
(* bounds.                                                                 *)
(***************************************************************************)
EXTENDS LobbyConnections, FiniteSetTheorems, TLAPS

(* What a task passes to the registry is of the types the registry takes. *)
ArgumentsTyped ==
  /\ next_session_id \in Lobby!SessionId
  /\ DOMAIN session_to_uuid \subseteq Lobby!SessionId
  /\ players_visible \in [Conn -> BOOLEAN]

-------------------------------------------------------------------------------
(* What one step of a task does to the registry. *)

(* Before the first connection.                                            *)
LEMMA InitArgumentsTyped == Init => ArgumentsTyped
BY LobbyConnectionsAssumption
   DEF Init, ArgumentsTyped, Lobby!Init, Lobby!SessionId, Lobby!EmptyMap

(* A registration is Insert with the account of the connection. *)
LEMMA RegistersOwnAccount ==
  ASSUME NEW c \in Conn, RegisterInsert(c)
  PROVE  \E name \in Username, p \in Position, visible \in {players_visible[c]} :
           Lobby!Insert(UuidOf[c], name, p, "Unknown", visible)
BY DEF RegisterInsert

(* Every other step leaves the registry alone, ends a session by its id or *)
(* updates the visibility flag of one.                                     *)
LEMMA RegistrySteps ==
  ASSUME NEW c \in Conn, Step(c) \/ Input(c)
  PROVE  \/ RegisterInsert(c)
         \/ Lobby!RemoveBySessionId(lobby_session_id[c])
         \/ Lobby!UpdatePlayersVisible(lobby_session_id[c], ~players_visible[c])
         \/ UNCHANGED lobby
<1>1. ASSUME Unregister(c)
      PROVE  Lobby!RemoveBySessionId(lobby_session_id[c]) \/ UNCHANGED lobby
  BY <1>1 DEF Unregister, EndSession
<1>2. ASSUME ToggleFlag(c)
      PROVE  \/ Lobby!UpdatePlayersVisible(lobby_session_id[c], ~players_visible[c])
             \/ UNCHANGED lobby
  BY <1>2 DEF ToggleFlag
<1>3. ASSUME \/ RegisterCheck(c) \/ EnterPlay(c) \/ PlanJoin(c) \/ CollectJoin(c) \/ TrySend(c)
             \/ Receive(c) \/ ToggleView(c) \/ RemoveSender(c) \/ CollectLeave(c)
             \/ KickIfLobbyFull(c) \/ RenderFails(c) \/ Disconnect(c)
      PROVE  UNCHANGED lobby
  BY <1>3 DEF RegisterCheck, KickIfLobbyFull, CheckCapacity, EnterPlay, PlanJoin, CollectJoin,
              CollectLeave, Collect, TrySend, Receive, ToggleView, RemoveSender, RenderFails,
              Disconnect
<1> QED
  BY <1>1, <1>2, <1>3 DEF Step, Input

(* Every step of a task keeps the arguments typed.                         *)
LEMMA ArgumentsStayTyped == ArgumentsTyped /\ [Next]_vars => ArgumentsTyped'
<1> SUFFICES ASSUME ArgumentsTyped, [Next]_vars PROVE ArgumentsTyped'
  OBVIOUS
<1>1. (next_session_id \in Lobby!SessionId)' /\ (DOMAIN session_to_uuid \subseteq Lobby!SessionId)'
  <2>1. ASSUME NEW c \in Conn, RegisterInsert(c) PROVE <1>1!:
    <3>1. PICK name \in Username, p \in Position :
            Lobby!Insert(UuidOf[c], name, p, "Unknown", players_visible[c])
      BY <2>1, RegistersOwnAccount
    <3>2. next_session_id' = Lobby!Saturating(next_session_id, SessionIdMax)
      BY <3>1 DEF Lobby!Insert
    <3>3. DOMAIN session_to_uuid' \subseteq DOMAIN session_to_uuid \cup {next_session_id}
      BY <3>1 DEF Lobby!Insert, Lobby!Put, Lobby!Without, Lobby!Restrict
    <3> QED
      BY <3>2, <3>3, LobbyConnectionsAssumption DEF ArgumentsTyped, Lobby!SessionId, Lobby!Saturating
  <2>2. ASSUME NEW s, Lobby!RemoveBySessionId(s) PROVE <1>1!:
    BY <2>2 DEF ArgumentsTyped, Lobby!RemoveBySessionId, Lobby!counters, Lobby!Without, Lobby!Restrict
  <2>3. ASSUME NEW s, NEW b, Lobby!UpdatePlayersVisible(s, b) PROVE <1>1!:
    BY <2>3 DEF ArgumentsTyped, Lobby!UpdatePlayersVisible, Lobby!ReplaceSession,
                Lobby!counters, Lobby!indexes
  <2>4. ASSUME UNCHANGED lobby PROVE <1>1!:
    BY <2>4 DEF ArgumentsTyped, lobby
  <2> QED
    BY <2>1, <2>2, <2>3, <2>4, RegistrySteps DEF Next, vars
<1>2. (players_visible \in [Conn -> BOOLEAN])'
  <2>1. ASSUME NEW c \in Conn, ToggleFlag(c) PROVE (players_visible \in [Conn -> BOOLEAN])'
    BY <2>1 DEF ArgumentsTyped, ToggleFlag
  <2>2. ASSUME NEW c \in Conn, Step(c) \/ Input(c), ~ToggleFlag(c) PROVE UNCHANGED players_visible
    BY <2>2 DEF Step, Input, RegisterInsert, Unregister, RegisterCheck, KickIfLobbyFull,
                CheckCapacity, EnterPlay, PlanJoin, CollectJoin, CollectLeave, Collect, TrySend,
                Receive, ToggleView, RemoveSender, RenderFails, Disconnect, client
  <2>3. ASSUME UNCHANGED vars PROVE UNCHANGED players_visible
    BY <2>3 DEF vars, client
  <2> QED
    BY <2>1, <2>2, <2>3 DEF Next, ArgumentsTyped
<1> QED
  BY <1>1, <1>2 DEF ArgumentsTyped

-------------------------------------------------------------------------------
(* Every step of a connection is a step of LobbyState or none. *)

(* A registration, the end of a session and a toggle click are operations  *)
(* of LobbyState; nothing else touches the registry.                       *)
LEMMA StepsAreLobbySteps == ArgumentsTyped /\ [Next]_vars => [Lobby!Next]_(Lobby!vars)
<1> SUFFICES ASSUME ArgumentsTyped, [Next]_vars PROVE [Lobby!Next]_(Lobby!vars)
  OBVIOUS
<1>1. ASSUME NEW c \in Conn, RegisterInsert(c) PROVE Lobby!Next
  <2>1. UuidOf[c] \in Accounts /\ players_visible[c] \in BOOLEAN
    BY DEF Accounts, ArgumentsTyped
  <2> QED
    BY <1>1, <2>1, RegistersOwnAccount DEF Lobby!Next, Lobby!JoinNext
<1>2. ASSUME NEW s, Lobby!RemoveBySessionId(s) PROVE Lobby!Next
  BY <1>2 DEF ArgumentsTyped, Lobby!RemoveBySessionId, Lobby!Next, Lobby!RemoveNext
<1>3. ASSUME NEW c \in Conn,
             Lobby!UpdatePlayersVisible(lobby_session_id[c], ~players_visible[c])
      PROVE  Lobby!Next
  <2>1. lobby_session_id[c] \in Lobby!SessionId
    BY <1>3 DEF ArgumentsTyped, Lobby!UpdatePlayersVisible, Lobby!KnownSession
  <2>2. (~players_visible[c]) \in BOOLEAN
    OBVIOUS
  <2> QED
    BY <1>3, <2>1, <2>2 DEF Lobby!Next, Lobby!UpdateNext
<1>4. ASSUME UNCHANGED lobby PROVE UNCHANGED Lobby!vars
  BY <1>4 DEF lobby, Lobby!vars, Lobby!counters, Lobby!indexes
<1> QED
  BY <1>1, <1>2, <1>3, <1>4, RegistrySteps DEF Next, vars

(* Whatever the interleaving of the tasks, the registry they share behaves *)
(* as LobbyState: all that is proved of LobbyState holds of the server.    *)
THEOREM TasksUseLobbyState == Spec => UsesLobbyState
<1>1. Init => Lobby!Init
  BY DEF Init
<1> QED
  BY <1>1, InitArgumentsTyped, ArgumentsStayTyped, StepsAreLobbySteps, PTL
     DEF Spec, UsesLobbyState, Lobby!Spec

-------------------------------------------------------------------------------
(* The invariant of LobbyStateProofs under the tasks *)

Registry == INSTANCE LobbyStateProofs WITH UUID <- Accounts

(* The proofs are about the same initial states and operations.            *)
LEMMA SameSpec == Lobby!Spec => Registry!Spec
<1>1. Lobby!Init <=> Registry!Init
  BY DEF Lobby!Init, Lobby!FirstPlayerId, Lobby!EmptyMap,
         Registry!Init, Registry!FirstPlayerId, Registry!EmptyMap
<1>2. Lobby!JoinNext <=> Registry!JoinNext
  BY DEF Lobby!JoinNext, Lobby!Insert, Lobby!Previous, Lobby!Saturating,
         Lobby!Put, Lobby!Without, Lobby!Restrict,
         Registry!JoinNext, Registry!Insert, Registry!Previous, Registry!Saturating,
         Registry!Put, Registry!Without, Registry!Restrict
<1>3. Lobby!RemoveNext <=> Registry!RemoveNext
  BY DEF Lobby!RemoveNext, Lobby!RemoveByUuid, Lobby!RemoveBySessionId, Lobby!RemoveByEntityId,
         Lobby!KnownSession, Lobby!SessionOf, Lobby!SessionId, Lobby!EntityId,
         Lobby!Without, Lobby!Restrict, Lobby!counters,
         Registry!RemoveNext, Registry!RemoveByUuid, Registry!RemoveBySessionId,
         Registry!RemoveByEntityId, Registry!KnownSession, Registry!SessionOf,
         Registry!SessionId, Registry!EntityId,
         Registry!Without, Registry!Restrict, Registry!counters
<1>4. Lobby!UpdateNext <=> Registry!UpdateNext
  BY DEF Lobby!UpdateNext, Lobby!UpdatePosition, Lobby!UpdateCrouching,
         Lobby!UpdateChatVisibility, Lobby!UpdatePlayersVisible, Lobby!ReplaceSession,
         Lobby!KnownEntity, Lobby!KnownSession, Lobby!SessionOf, Lobby!SessionId, Lobby!EntityId,
         Lobby!counters, Lobby!indexes,
         Registry!UpdateNext, Registry!UpdatePosition, Registry!UpdateCrouching,
         Registry!UpdateChatVisibility, Registry!UpdatePlayersVisible, Registry!ReplaceSession,
         Registry!KnownEntity, Registry!KnownSession, Registry!SessionOf,
         Registry!SessionId, Registry!EntityId, Registry!counters, Registry!indexes
<1>5. Lobby!MessageNext <=> Registry!MessageNext
  BY DEF Lobby!MessageNext, Lobby!PlanPrivateMessage, Lobby!PlanReplyMessage, Lobby!Exchange,
         Lobby!ValidPair, Lobby!ReceivesChat, Lobby!KnownSession, Lobby!SessionOf,
         Lobby!SessionId, Lobby!Put, Lobby!counters, Lobby!indexes,
         Registry!MessageNext, Registry!PlanPrivateMessage, Registry!PlanReplyMessage,
         Registry!Exchange, Registry!ValidPair, Registry!ReceivesChat, Registry!KnownSession,
         Registry!SessionOf, Registry!SessionId, Registry!Put, Registry!counters, Registry!indexes
<1>6. [Lobby!Next]_(Lobby!vars) => [Registry!Next]_(Registry!vars)
  <2>1. UNCHANGED Lobby!vars <=> UNCHANGED Registry!vars
    BY DEF Lobby!vars, Lobby!counters, Lobby!indexes,
           Registry!vars, Registry!counters, Registry!indexes
  <2>2. Lobby!Next <=> Registry!Next
    BY <1>2, <1>3, <1>4, <1>5 DEF Lobby!Next, Registry!Next
  <2> QED
    BY <2>1, <2>2
<1> QED
  BY <1>1, <1>6, PTL DEF Lobby!Spec, Registry!Spec

(* What the registry's invariant says in the words of this module.         *)
RegistryFacts ==
  /\ next_session_id \in 1..SessionIdMax
  /\ \A s \in DOMAIN session_to_uuid :
       /\ s \in 1..SessionIdMax
       /\ session_to_uuid[s] \in DOMAIN sessions_by_uuid
       /\ sessions_by_uuid[session_to_uuid[s]].session_id = s
  /\ \A u \in DOMAIN sessions_by_uuid :
       /\ sessions_by_uuid[u] \in Lobby!Session
       /\ sessions_by_uuid[u].session_id # SessionIdMax =>
            /\ sessions_by_uuid[u].session_id \in DOMAIN session_to_uuid
            /\ session_to_uuid[sessions_by_uuid[u].session_id] = u

(* Whatever the tasks do, they find the registry with its indexes intact.  *)
THEOREM RegistryHolds == Spec => []RegistryFacts
<1>1. Registry!IInv => RegistryFacts
  BY DEF Registry!IInv, Registry!TypeOK, Registry!IsMap, Registry!IndexesResolve,
         Registry!SessionsReachable, Registry!KnownSession, Registry!SessionOf,
         Registry!SessionId, Registry!EntityId, Registry!Session, Registry!ChatVisibility,
         RegistryFacts, Lobby!Session, Lobby!SessionId, Lobby!EntityId, Lobby!ChatVisibility
<1>2. Registry!Init => Registry!IInv
  BY Registry!InitIInv, LobbyConnectionsAssumption DEF Registry!ChatVisibility
<1>3. Registry!IInv /\ [Registry!Next]_(Registry!vars) => Registry!IInv'
  BY Registry!NextIInv, LobbyConnectionsAssumption DEF Registry!ChatVisibility
<1> QED
  BY <1>1, <1>2, <1>3, TasksUseLobbyState, SameSpec, PTL DEF UsesLobbyState, Registry!Spec

-------------------------------------------------------------------------------
(* The invariant of the tasks *)

TasksTyped ==
  /\ phase \in [Conn -> Phase]
  /\ lobby_session_id \in [Conn -> Nat]
  /\ players_visible \in [Conn -> BOOLEAN]

(* The session a connection believes to be its own is nobody else's, and   *)
(* if it is still registered, then under the account of the connection.    *)
OwnSessions ==
  /\ \A c \in Conn : lobby_session_id[c] < next_session_id
  /\ \A c, d \in Conn :
       c # d /\ lobby_session_id[c] = lobby_session_id[d] => lobby_session_id[c] = NoSession
  /\ \A c \in Conn :
       lobby_session_id[c] \in DOMAIN session_to_uuid =>
         session_to_uuid[lobby_session_id[c]] = UuidOf[c]

SessionsIssued ==
  \A u \in DOMAIN sessions_by_uuid : sessions_by_uuid[u].session_id < next_session_id

(* Before its first packet in Play a connection has no sender; once its    *)
(* packets are being rendered it has a session.                            *)
Joining == {"Configuration", "Registering", "Inserting", "Rendering"}
SendersInPlay ==
  /\ \A c \in Conn : phase[c] = "Rendering" => lobby_session_id[c] # NoSession
  /\ \A s \in DOMAIN lobby_broadcast_senders :
       /\ s # NoSession
       /\ lobby_broadcast_senders[s] \in Conn
       /\ phase[lobby_broadcast_senders[s]] \notin Joining

(* FlagsAgree and NothingLeaks with the lookups written out.               *)
FlagsMatch ==
  \A c \in Conn :
    /\ lobby_session_id[c] \in DOMAIN session_to_uuid
    /\ session_to_uuid[lobby_session_id[c]] \in DOMAIN sessions_by_uuid
    => sessions_by_uuid[session_to_uuid[lobby_session_id[c]]].players_visible = players_visible[c]

SessionsAttended ==
  \A u \in DOMAIN sessions_by_uuid :
    \E c \in Conn : Attached(c) /\ lobby_session_id[c] = sessions_by_uuid[u].session_id

SendersAttended ==
  \A s \in DOMAIN lobby_broadcast_senders :
    LET c == lobby_broadcast_senders[s]
    IN lobby_session_id[c] = s /\ (Attached(c) \/ phase[c] = "RemovingSender")

TasksInv ==
  /\ TasksTyped /\ OwnSessions /\ SessionsIssued /\ SendersInPlay
  /\ FlagsMatch /\ SessionsAttended /\ SendersAttended

(* The invariant says what the two properties say.                         *)
LEMMA Lookups == TasksInv => FlagsAgree /\ NothingLeaks
BY DEF TasksInv, FlagsMatch, SessionsAttended, SendersAttended,
       FlagsAgree, NothingLeaks, Registered, Lobby!KnownSession, Lobby!SessionOf, Lobby!Sessions

(* Before the first connection. *)
LEMMA InitTasksInv == Init => TasksInv
BY DEF Init, Lobby!Init, Lobby!EmptyMap, EmptyMap, TasksInv, TasksTyped, OwnSessions,
       SessionsIssued, SendersInPlay, FlagsMatch, SessionsAttended, SendersAttended,
       Phase, NoSession

-------------------------------------------------------------------------------
(* Steps that change neither the registry nor the senders *)

Elsewhere(c) ==
  /\ UNCHANGED <<lobby, lobby_broadcast_senders, lobby_session_id, players_visible>>
  /\ \E to \in Phase :
       /\ phase' = [phase EXCEPT ![c] = to]
       /\ Attached(c) => to \notin {"RemovingSender", "CollectingLeave", "Retracting", "Closed"}
       /\ phase[c] # "RemovingSender"
       /\ to \in Joining => phase[c] \in Joining
       /\ to = "Rendering" => phase[c] = "Rendering"

(* Capacity checks, planning, packets and disconnections are elsewhere.    *)
LEMMA StepsElsewhere ==
  ASSUME TasksTyped, NEW c \in Conn,
         \/ KickIfLobbyFull(c) \/ RegisterCheck(c) \/ RenderFails(c) \/ PlanJoin(c)
         \/ CollectJoin(c) \/ TrySend(c) \/ Receive(c) \/ ToggleView(c) \/ Disconnect(c)
         \/ CollectLeave(c)
  PROVE  Elsewhere(c)
<1>1. CASE KickIfLobbyFull(c) \/ RegisterCheck(c)
  BY <1>1 DEF KickIfLobbyFull, RegisterCheck, CheckCapacity, At, client, TasksTyped,
              Elsewhere, Attached, Phase, Joining
<1>2. CASE RenderFails(c) \/ PlanJoin(c) \/ ToggleView(c)
  BY <1>2 DEF RenderFails, PlanJoin, ToggleView, At, client, TasksTyped,
              Elsewhere, Attached, Phase, Joining
<1>3. CASE Disconnect(c)
  BY <1>3 DEF Disconnect, At, client, TasksTyped, Elsewhere, Attached, Phase, Joining
<1>4. CASE CollectJoin(c) \/ CollectLeave(c)
  BY <1>4 DEF CollectJoin, CollectLeave, Collect, AfterSending, At, client, TasksTyped,
              Elsewhere, Attached, Phase, Joining
<1>5. CASE TrySend(c)
  BY <1>5 DEF TrySend, AfterSending, client, TasksTyped, Elsewhere, Attached, Phase, Joining
<1>6. CASE Receive(c)
  BY <1>6 DEF Receive, client, TasksTyped, Elsewhere, Attached, Phase, Joining
<1> QED
  BY <1>1, <1>2, <1>3, <1>4, <1>5, <1>6

(* They keep the invariant. *)
LEMMA ElsewhereKeeps ==
  ASSUME TasksInv, NEW c \in Conn, Elsewhere(c)
  PROVE  TasksInv'
<1>1. /\ UNCHANGED <<next_session_id, sessions_by_uuid, session_to_uuid,
                     lobby_broadcast_senders, lobby_session_id, players_visible>>
      /\ phase' \in [Conn -> Phase]
      /\ \A d \in Conn : Attached(d) => Attached(d)'
      /\ \A d \in Conn : phase[d] = "RemovingSender" => phase'[d] = "RemovingSender"
      /\ \A d \in Conn : phase'[d] \in Joining => phase[d] \in Joining
      /\ \A d \in Conn : phase'[d] = "Rendering" => phase[d] = "Rendering"
  BY DEF Elsewhere, lobby, TasksInv, TasksTyped, Attached
<1>2. TasksTyped' /\ OwnSessions' /\ SessionsIssued'
  BY <1>1 DEF TasksInv, TasksTyped, OwnSessions, SessionsIssued
<1>3. SendersInPlay'
  BY <1>1 DEF TasksInv, SendersInPlay
<1>4. FlagsMatch'
  BY <1>1 DEF TasksInv, FlagsMatch
<1>5. SessionsAttended'
  BY <1>1 DEF TasksInv, SessionsAttended
<1>6. SendersAttended'
  BY <1>1 DEF TasksInv, SendersInPlay, SendersAttended
<1> QED
  BY <1>2, <1>3, <1>4, <1>5, <1>6 DEF TasksInv

-------------------------------------------------------------------------------
(* Steps that change the registry or the senders *)

(* What a registration does, the lookups written out.                      *)
LEMMA InsertEffect ==
  ASSUME RegistryFacts, TasksTyped, NEW c \in Conn, RegisterInsert(c)
  PROVE  LET n == next_session_id
             u == UuidOf[c]
         IN /\ n \in Nat \ {0} /\ n < SessionIdMax /\ next_session_id' = n + 1
            /\ DOMAIN sessions_by_uuid' = DOMAIN sessions_by_uuid \cup {u}
            /\ sessions_by_uuid'[u].session_id = n
            /\ sessions_by_uuid'[u].players_visible = players_visible[c]
            /\ \A v \in DOMAIN sessions_by_uuid \ {u} : sessions_by_uuid'[v] = sessions_by_uuid[v]
            /\ n \in DOMAIN session_to_uuid' /\ session_to_uuid'[n] = u
            /\ \A s \in DOMAIN session_to_uuid' \ {n} :
                 /\ s \in DOMAIN session_to_uuid
                 /\ session_to_uuid'[s] = session_to_uuid[s]
                 /\ u \in DOMAIN sessions_by_uuid => s # sessions_by_uuid[u].session_id
<1> DEFINE n == next_session_id
           u == UuidOf[c]
           gone == {x.session_id : x \in Lobby!Previous(u)}
<1>1. PICK name \in Username, p \in Position :
        Lobby!Insert(u, name, p, "Unknown", players_visible[c])
  BY RegistersOwnAccount
<1>2. n \in Nat \ {0} /\ n < SessionIdMax /\ next_session_id' = n + 1
  BY <1>1, LobbyConnectionsAssumption
     DEF RegistryFacts, RegisterInsert, IdsRemain, Lobby!Insert, Lobby!Saturating
<1>3. /\ DOMAIN sessions_by_uuid' = DOMAIN sessions_by_uuid \cup {u}
      /\ sessions_by_uuid'[u].session_id = n
      /\ sessions_by_uuid'[u].players_visible = players_visible[c]
      /\ \A v \in DOMAIN sessions_by_uuid \ {u} : sessions_by_uuid'[v] = sessions_by_uuid[v]
  BY <1>1 DEF Lobby!Insert, Lobby!Put
<1>4. u \in DOMAIN sessions_by_uuid => sessions_by_uuid[u].session_id \in gone
  BY DEF Lobby!Previous
<1>5. /\ DOMAIN session_to_uuid' = (DOMAIN session_to_uuid \ gone) \cup {n}
      /\ session_to_uuid'[n] = u
      /\ \A s \in DOMAIN session_to_uuid' \ {n} : session_to_uuid'[s] = session_to_uuid[s]
  <2>1. session_to_uuid' = Lobby!Put(Lobby!Without(session_to_uuid, gone), n, u)
    BY <1>1 DEF Lobby!Insert
  <2> HIDE DEF gone, n, u
  <2> QED
    BY <2>1 DEF Lobby!Put, Lobby!Without, Lobby!Restrict
<1> HIDE DEF gone
<1> QED
  BY <1>2, <1>3, <1>4, <1>5

(* A registration gives its connection a session of its own; the one it    *)
(* may have had before, or another connection of the account has, goes.    *)
LEMMA RegisterInsertKeeps ==
  ASSUME RegistryFacts, TasksInv, NEW c \in Conn, RegisterInsert(c)
  PROVE  TasksInv'
<1> DEFINE n == next_session_id
           u == UuidOf[c]
<1>1. /\ phase[c] = "Inserting"
      /\ phase' = [phase EXCEPT ![c] = "Rendering"]
      /\ lobby_session_id' = [lobby_session_id EXCEPT ![c] = n]
      /\ UNCHANGED <<lobby_broadcast_senders, players_visible>>
  BY DEF RegisterInsert, At
<1>2. /\ n \in Nat \ {0} /\ next_session_id' = n + 1
      /\ DOMAIN sessions_by_uuid' = DOMAIN sessions_by_uuid \cup {u}
      /\ sessions_by_uuid'[u].session_id = n
      /\ sessions_by_uuid'[u].players_visible = players_visible[c]
      /\ \A v \in DOMAIN sessions_by_uuid \ {u} : sessions_by_uuid'[v] = sessions_by_uuid[v]
      /\ session_to_uuid'[n] = u
      /\ \A s \in DOMAIN session_to_uuid' \ {n} :
           /\ s \in DOMAIN session_to_uuid
           /\ session_to_uuid'[s] = session_to_uuid[s]
           /\ u \in DOMAIN sessions_by_uuid => s # sessions_by_uuid[u].session_id
  BY InsertEffect DEF TasksInv
<1>3. /\ \A d \in Conn \ {c} : phase'[d] = phase[d] /\ lobby_session_id'[d] = lobby_session_id[d]
      /\ phase'[c] = "Rendering" /\ lobby_session_id'[c] = n
      /\ \A d \in Conn : lobby_session_id[d] \in Nat /\ lobby_session_id[d] < n
  BY <1>1 DEF TasksInv, TasksTyped, OwnSessions
<1>4. TasksTyped'
  BY <1>1, <1>2 DEF TasksInv, TasksTyped, Phase
<1>5. OwnSessions'
  BY <1>2, <1>3 DEF TasksInv, OwnSessions
<1>6. SessionsIssued'
  <2>1. \A v \in DOMAIN sessions_by_uuid : sessions_by_uuid[v].session_id \in Nat
    BY LobbyConnectionsAssumption DEF RegistryFacts, Lobby!Session, Lobby!SessionId
  <2> QED
    BY <1>2, <2>1 DEF TasksInv, SessionsIssued
<1>7. \A s \in DOMAIN lobby_broadcast_senders :
        lobby_broadcast_senders[s] \in Conn /\ lobby_broadcast_senders[s] # c
  BY <1>1 DEF TasksInv, SendersInPlay, Joining
<1>8. SendersInPlay'
  BY <1>1, <1>2, <1>3, <1>7 DEF TasksInv, SendersInPlay, NoSession
<1>9. SendersAttended'
  BY <1>1, <1>3, <1>7 DEF TasksInv, SendersAttended, Attached
<1>10. FlagsMatch'
  <2>1. ASSUME NEW d \in Conn, d # c, lobby_session_id[d] \in DOMAIN session_to_uuid'
        PROVE  LET s == lobby_session_id[d]
               IN /\ s \in DOMAIN session_to_uuid
                  /\ session_to_uuid'[s] = session_to_uuid[s]
                  /\ session_to_uuid[s] \in DOMAIN sessions_by_uuid \ {u}
    BY <1>2, <1>3, <2>1 DEF RegistryFacts
  <2> QED
    BY <1>1, <1>2, <1>3, <2>1 DEF TasksInv, FlagsMatch
<1>11. SessionsAttended'
  <2> SUFFICES ASSUME NEW v \in DOMAIN sessions_by_uuid'
               PROVE  \E d \in Conn :
                        Attached(d)' /\ lobby_session_id'[d] = sessions_by_uuid'[v].session_id
    BY DEF SessionsAttended
  <2>1. CASE v = u
    BY <1>2, <1>3, <2>1 DEF Attached
  <2>2. CASE v # u
    <3>1. v \in DOMAIN sessions_by_uuid /\ sessions_by_uuid'[v] = sessions_by_uuid[v]
      BY <1>2, <2>2
    <3>2. PICK d \in Conn : Attached(d) /\ lobby_session_id[d] = sessions_by_uuid[v].session_id
      BY <3>1 DEF TasksInv, SessionsAttended
    <3>3. session_to_uuid[sessions_by_uuid[v].session_id] = v
          /\ sessions_by_uuid[v].session_id \in DOMAIN session_to_uuid
      <4>1. sessions_by_uuid[v].session_id \in Nat /\ sessions_by_uuid[v].session_id < n
        BY <3>1, LobbyConnectionsAssumption
           DEF TasksInv, SessionsIssued, RegistryFacts, Lobby!Session, Lobby!SessionId
      <4> QED
        BY <3>1, <4>1, LobbyConnectionsAssumption DEF RegistryFacts
    <3>4. d # c
      BY <2>2, <3>2, <3>3 DEF TasksInv, OwnSessions
    <3> QED
      BY <1>3, <3>1, <3>2, <3>4 DEF Attached
  <2> QED
    BY <2>1, <2>2
<1> QED
  BY <1>4, <1>5, <1>6, <1>8, <1>9, <1>10, <1>11 DEF TasksInv

(* The first packet in Play installs the sender of a connection that had   *)
(* none.                                                                   *)
LEMMA EnterPlayKeeps ==
  ASSUME TasksInv, NEW c \in Conn, EnterPlay(c)
  PROVE  TasksInv'
<1>1. /\ phase[c] = "Rendering"
      /\ phase' = [phase EXCEPT ![c] = "Planning"]
      /\ UNCHANGED <<next_session_id, sessions_by_uuid, session_to_uuid,
                     lobby_session_id, players_visible>>
      /\ DOMAIN lobby_broadcast_senders'
           = DOMAIN lobby_broadcast_senders \cup {lobby_session_id[c]}
      /\ lobby_broadcast_senders'[lobby_session_id[c]] = c
      /\ \A s \in DOMAIN lobby_broadcast_senders \ {lobby_session_id[c]} :
           lobby_broadcast_senders'[s] = lobby_broadcast_senders[s]
  BY DEF EnterPlay, At, lobby, Put
<1>2. /\ \A d \in Conn \ {c} : phase'[d] = phase[d]
      /\ phase'[c] = "Planning"
  BY <1>1 DEF TasksInv, TasksTyped
<1>3. TasksTyped' /\ OwnSessions' /\ SessionsIssued' /\ FlagsMatch'
  BY <1>1 DEF TasksInv, TasksTyped, OwnSessions, SessionsIssued, FlagsMatch, Phase
<1>4. SessionsAttended'
  BY <1>1, <1>2 DEF TasksInv, SessionsAttended, Attached
<1>5. SendersInPlay' /\ SendersAttended'
  BY <1>1, <1>2 DEF TasksInv, SendersInPlay, SendersAttended, Attached, Joining
<1> QED
  BY <1>3, <1>4, <1>5 DEF TasksInv

(* A click flips the flag here and, if the session is still registered, in *)
(* the registry.                                                           *)
LEMMA ToggleFlagKeeps ==
  ASSUME RegistryFacts, TasksInv, NEW c \in Conn, ToggleFlag(c)
  PROVE  TasksInv'
<1> DEFINE s == lobby_session_id[c]
           u == session_to_uuid[s]
<1>1. /\ phase[c] = "Play"
      /\ phase' = [phase EXCEPT ![c] = "Toggling"]
      /\ players_visible' = [players_visible EXCEPT ![c] = ~@]
      /\ UNCHANGED <<next_session_id, session_to_uuid, lobby_broadcast_senders, lobby_session_id>>
  BY DEF ToggleFlag, At, lobby, Lobby!UpdatePlayersVisible, Lobby!ReplaceSession,
         Lobby!counters, Lobby!indexes
<1>2. /\ \A d \in Conn \ {c} : phase'[d] = phase[d] /\ players_visible'[d] = players_visible[d]
      /\ phase'[c] = "Toggling"
      /\ players_visible'[c] = ~players_visible[c]
  BY <1>1 DEF TasksInv, TasksTyped
<1>3. /\ DOMAIN sessions_by_uuid' = DOMAIN sessions_by_uuid
      /\ \A v \in DOMAIN sessions_by_uuid :
           /\ sessions_by_uuid'[v].session_id = sessions_by_uuid[v].session_id
           /\ ~(Registered(c) /\ v = u) =>
                sessions_by_uuid'[v].players_visible = sessions_by_uuid[v].players_visible
      /\ Registered(c) => sessions_by_uuid'[u].players_visible = ~players_visible[c]
  <2>1. CASE Registered(c)
    <3>1. /\ u \in DOMAIN sessions_by_uuid
          /\ sessions_by_uuid' = [sessions_by_uuid EXCEPT
               ![u] = [sessions_by_uuid[u] EXCEPT !.players_visible = ~players_visible[c]]]
      BY <2>1 DEF ToggleFlag, Registered, Lobby!UpdatePlayersVisible, Lobby!ReplaceSession,
                  Lobby!KnownSession, Lobby!SessionOf
    <3>2. sessions_by_uuid[u] \in Lobby!Session
      BY <3>1 DEF RegistryFacts
    <3> QED
      BY <2>1, <3>1, <3>2 DEF Lobby!Session
  <2>2. CASE ~Registered(c)
    BY <2>2 DEF ToggleFlag, lobby
  <2> QED
    BY <2>1, <2>2
<1>4. TasksTyped' /\ OwnSessions' /\ SessionsIssued'
  BY <1>1, <1>3 DEF TasksInv, TasksTyped, OwnSessions, SessionsIssued, Phase
<1>5. SendersInPlay' /\ SendersAttended'
  BY <1>1, <1>2 DEF TasksInv, SendersInPlay, SendersAttended, Attached, Joining
<1>6. SessionsAttended'
  BY <1>1, <1>2, <1>3 DEF TasksInv, SessionsAttended, Attached
<1>7. FlagsMatch'
  <2> SUFFICES ASSUME NEW d \in Conn, lobby_session_id[d] \in DOMAIN session_to_uuid,
                      session_to_uuid[lobby_session_id[d]] \in DOMAIN sessions_by_uuid
               PROVE  sessions_by_uuid'[session_to_uuid[lobby_session_id[d]]].players_visible
                        = players_visible'[d]
    BY <1>1, <1>3 DEF FlagsMatch
  <2>1. CASE d = c
    BY <1>2, <1>3, <2>1 DEF Registered, Lobby!KnownSession
  <2>2. CASE d # c
    <3>1. ~(Registered(c) /\ session_to_uuid[lobby_session_id[d]] = u)
      BY <2>2 DEF RegistryFacts, TasksInv, OwnSessions, NoSession, Registered, Lobby!KnownSession
    <3> QED
      BY <1>2, <1>3, <2>2, <3>1 DEF TasksInv, FlagsMatch
  <2> QED
    BY <2>1, <2>2
<1> QED
  BY <1>4, <1>5, <1>6, <1>7 DEF TasksInv

(* What the end of a connection does: its own session goes if it is still  *)
(* registered, and no other.                                               *)
LEMMA EndSessionEffect ==
  ASSUME RegistryFacts, NEW c \in Conn, EndSession(c)
  PROVE  LET s == lobby_session_id[c]
         IN /\ next_session_id' = next_session_id
            /\ DOMAIN sessions_by_uuid' \subseteq DOMAIN sessions_by_uuid
            /\ \A v \in DOMAIN sessions_by_uuid' : sessions_by_uuid'[v] = sessions_by_uuid[v]
            /\ \A v \in DOMAIN sessions_by_uuid :
                 sessions_by_uuid[v].session_id # s => v \in DOMAIN sessions_by_uuid'
            /\ s \notin DOMAIN session_to_uuid'
            /\ DOMAIN session_to_uuid' \subseteq DOMAIN session_to_uuid
            /\ \A t \in DOMAIN session_to_uuid' : session_to_uuid'[t] = session_to_uuid[t]
            /\ s \in DOMAIN session_to_uuid => session_to_uuid[s] \notin DOMAIN sessions_by_uuid'
<1> DEFINE s == lobby_session_id[c]
<1>1. CASE s \in DOMAIN session_to_uuid
  <2>1. /\ next_session_id' = next_session_id
        /\ sessions_by_uuid' = Lobby!Without(sessions_by_uuid, {session_to_uuid[s]})
        /\ session_to_uuid' = Lobby!Without(session_to_uuid, {s})
    BY <1>1 DEF EndSession, Lobby!RemoveBySessionId, Lobby!KnownSession, Lobby!counters,
                RegistryFacts
  <2>2. sessions_by_uuid[session_to_uuid[s]].session_id = s
    BY <1>1 DEF RegistryFacts
  <2> HIDE DEF s
  <2> QED
    BY <2>1, <2>2 DEF Lobby!Without, Lobby!Restrict, s
<1>2. CASE s \notin DOMAIN session_to_uuid
  BY <1>2 DEF EndSession, lobby
<1> QED
  BY <1>1, <1>2

(* Once a connection has unregistered, no session is its own any more.     *)
LEMMA UnregisterKeeps ==
  ASSUME RegistryFacts, TasksInv, NEW c \in Conn, Unregister(c)
  PROVE  TasksInv'
<1> DEFINE s == lobby_session_id[c]
<1>1. /\ phase[c] = "Leaving"
      /\ phase' = [phase EXCEPT ![c] = IF s = NoSession THEN "Closed" ELSE "RemovingSender"]
      /\ UNCHANGED <<lobby_broadcast_senders, lobby_session_id, players_visible>>
      /\ EndSession(c)
  BY DEF Unregister, At, client
<1>2. /\ next_session_id' = next_session_id
      /\ DOMAIN sessions_by_uuid' \subseteq DOMAIN sessions_by_uuid
      /\ \A v \in DOMAIN sessions_by_uuid' : sessions_by_uuid'[v] = sessions_by_uuid[v]
      /\ DOMAIN session_to_uuid' \subseteq DOMAIN session_to_uuid
      /\ \A t \in DOMAIN session_to_uuid' : session_to_uuid'[t] = session_to_uuid[t]
      /\ s \in DOMAIN session_to_uuid => session_to_uuid[s] \notin DOMAIN sessions_by_uuid'
  BY <1>1, EndSessionEffect
<1>3. /\ \A d \in Conn \ {c} : phase'[d] = phase[d]
      /\ phase'[c] = IF s = NoSession THEN "Closed" ELSE "RemovingSender"
  BY <1>1 DEF TasksInv, TasksTyped
<1>4. TasksTyped' /\ OwnSessions' /\ SessionsIssued' /\ FlagsMatch'
  BY <1>1, <1>2 DEF TasksInv, TasksTyped, OwnSessions, SessionsIssued, FlagsMatch, Phase
<1>5. SendersInPlay' /\ SendersAttended'
  BY <1>1, <1>3 DEF TasksInv, SendersInPlay, SendersAttended, Attached, Joining
<1>6. SessionsAttended'
  <2> SUFFICES ASSUME NEW v \in DOMAIN sessions_by_uuid'
               PROVE  \E d \in Conn :
                        Attached(d)' /\ lobby_session_id'[d] = sessions_by_uuid'[v].session_id
    BY DEF SessionsAttended
  <2>1. v \in DOMAIN sessions_by_uuid /\ sessions_by_uuid'[v] = sessions_by_uuid[v]
    BY <1>2
  <2>2. PICK d \in Conn : Attached(d) /\ lobby_session_id[d] = sessions_by_uuid[v].session_id
    BY <2>1 DEF TasksInv, SessionsAttended
  <2>3. /\ sessions_by_uuid[v].session_id \in DOMAIN session_to_uuid
        /\ session_to_uuid[sessions_by_uuid[v].session_id] = v
    <3>1. sessions_by_uuid[v].session_id \in Nat
          /\ sessions_by_uuid[v].session_id < next_session_id
      BY <2>1, LobbyConnectionsAssumption
         DEF TasksInv, SessionsIssued, RegistryFacts, Lobby!Session, Lobby!SessionId
    <3> QED
      BY <2>1, <3>1, LobbyConnectionsAssumption DEF RegistryFacts
  <2>4. d # c
    BY <1>2, <2>2, <2>3
  <2> QED
    BY <1>1, <1>3, <2>1, <2>2, <2>4 DEF Attached
<1> QED
  BY <1>4, <1>5, <1>6 DEF TasksInv

(* The sender goes before the connection is done. *)
LEMMA RemoveSenderKeeps ==
  ASSUME TasksInv, NEW c \in Conn, RemoveSender(c)
  PROVE  TasksInv'
<1>1. /\ phase[c] = "RemovingSender"
      /\ \E to \in {"Closed", "CollectingLeave"} : phase' = [phase EXCEPT ![c] = to]
      /\ UNCHANGED <<next_session_id, sessions_by_uuid, session_to_uuid,
                     lobby_session_id, players_visible>>
      /\ DOMAIN lobby_broadcast_senders' = DOMAIN lobby_broadcast_senders \ {lobby_session_id[c]}
      /\ \A s \in DOMAIN lobby_broadcast_senders' :
           lobby_broadcast_senders'[s] = lobby_broadcast_senders[s]
  BY DEF RemoveSender, At, lobby, client, Without, Restrict
<1>2. /\ \A d \in Conn \ {c} : phase'[d] = phase[d]
      /\ phase'[c] \in {"Closed", "CollectingLeave"}
  BY <1>1 DEF TasksInv, TasksTyped
<1>3. TasksTyped' /\ OwnSessions' /\ SessionsIssued' /\ FlagsMatch'
  BY <1>1 DEF TasksInv, TasksTyped, OwnSessions, SessionsIssued, FlagsMatch, Phase
<1>4. SessionsAttended'
  BY <1>1, <1>2 DEF TasksInv, SessionsAttended, Attached
<1>5. SendersInPlay' /\ SendersAttended'
  BY <1>1, <1>2 DEF TasksInv, SendersInPlay, SendersAttended, Attached, Joining
<1> QED
  BY <1>3, <1>4, <1>5 DEF TasksInv

-------------------------------------------------------------------------------
(* What holds of any number of connections *)

(* Every step of every task keeps the invariant. *)
LEMMA NextTasksInv == RegistryFacts /\ TasksInv /\ [Next]_vars => TasksInv'
<1> SUFFICES ASSUME RegistryFacts, TasksInv, [Next]_vars PROVE TasksInv'
  OBVIOUS
<1>1. ASSUME NEW c \in Conn, Step(c) \/ Input(c) PROVE TasksInv'
  <2>1. TasksTyped
    BY DEF TasksInv
  <2> QED
    BY <1>1, <2>1, StepsElsewhere, ElsewhereKeeps, RegisterInsertKeeps, EnterPlayKeeps,
       ToggleFlagKeeps, UnregisterKeeps, RemoveSenderKeeps DEF Step, Input
<1>2. CASE UNCHANGED vars
  BY <1>2 DEF vars, lobby, client, TasksInv, TasksTyped, OwnSessions, SessionsIssued,
              SendersInPlay, FlagsMatch, SessionsAttended, SendersAttended, Attached
<1> QED
  BY <1>1, <1>2 DEF Next

(* The inductive invariant of the tasks: whose session is whose, and who   *)
(* has a sender.                                                           *)
THEOREM TasksInvariance == Spec => []TasksInv
BY InitTasksInv, NextTasksInv, RegistryHolds, PTL DEF Spec

(* No session and no sender outlives the connection that made it, however  *)
(* it ends: kicked, failed between registration and Play, replaced by      *)
(* another connection of its account, or disconnected.                     *)
THEOREM NothingEverLeaks == Spec => []NothingLeaks
BY Lookups, TasksInvariance, PTL

(* The registry's copy of the visibility flag never differs from the       *)
(* client state's between two steps, whoever joins, clicks or leaves.      *)
THEOREM FlagsAlwaysAgree == Spec => []FlagsAgree
BY Lookups, TasksInvariance, PTL

(* The end of a connection takes no other session down, in particular not  *)
(* the one its account has opened since.                                   *)
THEOREM DeparturesAreLocal == Spec => DepartureEndsOwnSession
<1> DEFINE Local ==
      \A c \in Conn : phase[c] = "Leaving" /\ phase'[c] # "Leaving" =>
        \A u \in DOMAIN sessions_by_uuid :
          sessions_by_uuid[u].session_id # lobby_session_id[c] =>
            u \in DOMAIN sessions_by_uuid' /\ sessions_by_uuid'[u] = sessions_by_uuid[u]
<1>1. RegistryFacts /\ TasksInv /\ [Next]_vars => [Local]_vars
  <2> SUFFICES ASSUME RegistryFacts, TasksInv, NEW d \in Conn, Step(d) \/ Input(d),
                      NEW c \in Conn, phase[c] = "Leaving", phase'[c] # "Leaving",
                      NEW u \in DOMAIN sessions_by_uuid,
                      sessions_by_uuid[u].session_id # lobby_session_id[c]
               PROVE  u \in DOMAIN sessions_by_uuid' /\ sessions_by_uuid'[u] = sessions_by_uuid[u]
    BY DEF Next
  <2>1. CASE UNCHANGED lobby
    BY <2>1 DEF lobby
  <2>2. CASE RegisterInsert(d) \/ ToggleFlag(d)
    BY <2>2 DEF RegisterInsert, ToggleFlag, At, TasksInv, TasksTyped
  <2>3. CASE Unregister(d)
    <3>1. d = c /\ EndSession(c)
      BY <2>3 DEF Unregister, At, TasksInv, TasksTyped
    <3> QED
      BY <3>1, EndSessionEffect
  <2>4. UNCHANGED lobby \/ RegisterInsert(d) \/ ToggleFlag(d) \/ Unregister(d)
    BY StepsElsewhere DEF Step, Input, Elsewhere, EnterPlay, RemoveSender, TasksInv
  <2> QED
    BY <2>1, <2>2, <2>3, <2>4
<1> QED
  BY <1>1, RegistryHolds, TasksInvariance, PTL DEF Spec, DepartureEndsOwnSession

-------------------------------------------------------------------------------
(* What is on its way to a client *)

Infos == [uuid : Accounts, entity_id : Nat]
Packets == [kind : {"PlayerInfoAdd", "SpawnPlayer", "PlayerInfoRemove", "RemoveEntity"},
            uuid : Accounts, entity_id : Nat]
PacketBatch == [to : Conn, packets : Seq(Packets) \ {<<>>}]
Plans == [existing : SUBSET Infos, packets : Seq(Packets), recipients : SUBSET Nat]
Views == [entities : SUBSET Nat, tab_list : SUBSET Accounts]
Members(seq) == {seq[i] : i \in DOMAIN seq}

DeliveryTyped ==
  /\ queue \in [Conn -> Seq(Packets)]
  /\ outbox \in [Conn -> Seq(PacketBatch)]
  /\ plan \in [Conn -> [existing : SUBSET Infos, packets : Seq(Packets), recipients : SUBSET Nat]]
  /\ \A c \in Conn : plan[c].packets = <<>> => plan[c].recipients = {}
  /\ \A c \in Conn : outbox[c] # <<>> => phase[c] \in {"Announcing", "Retracting"}
  /\ view \in [Conn -> [entities : SUBSET Nat, tab_list : SUBSET Accounts]]

(* Entity ids are given to one session each, and not again.                *)
EntitiesIssued ==
  /\ next_entity_id \in Nat \ {0}
  /\ DOMAIN sessions_by_uuid \subseteq Accounts
  /\ \A u \in DOMAIN sessions_by_uuid : sessions_by_uuid[u].entity_id < next_entity_id
  /\ \A u, v \in DOMAIN sessions_by_uuid :
       sessions_by_uuid[u].entity_id = sessions_by_uuid[v].entity_id => u = v

(* From its first packet in Play until it leaves, a task can be reached.   *)
Looping == {"Planning", "CollectingJoin", "Announcing", "Play", "Toggling"}
SendersInstalled ==
  \A c \in Conn : phase[c] \in Looping =>
    /\ lobby_session_id[c] \in DOMAIN lobby_broadcast_senders
    /\ lobby_broadcast_senders[lobby_session_id[c]] = c

(* A packet that a task has planned, or is sending, or has been sent.      *)
UnderWay(p) ==
  \E c \in Conn :
    \/ p \in Members(plan[c].packets)
    \/ \E i \in DOMAIN outbox[c] : p \in Members(outbox[c][i].packets)
    \/ p \in Members(queue[c])

(* No removal that is under way names a player who is here: their entity   *)
(* ids are new, and their accounts, of one connection each, have not left. *)
NobodyHereIsRemoved ==
  \A p \in Packets : UnderWay(p) =>
    /\ p.kind = "RemoveEntity" =>
         /\ p.entity_id < next_entity_id
         /\ \A u \in DOMAIN sessions_by_uuid : sessions_by_uuid[u].entity_id # p.entity_id
    /\ p.kind = "PlayerInfoRemove" => \E c \in Conn : UuidOf[c] = p.uuid /\ ~Attached(c)

DeliveryInv == DeliveryTyped /\ EntitiesIssued /\ SendersInstalled /\ NobodyHereIsRemoved

-------------------------------------------------------------------------------
(* Sequences of packets and of batches *)

(* Append adds one element.                                                *)
LEMMA MembersAppend ==
  ASSUME NEW S, NEW s \in Seq(S), NEW e \in S
  PROVE  Append(s, e) \in Seq(S) /\ Members(Append(s, e)) = Members(s) \cup {e}
<1>1. Append(s, e) \in Seq(S) /\ Len(Append(s, e)) = Len(s) + 1
      /\ DOMAIN s = 1..Len(s) /\ DOMAIN Append(s, e) = 1..Len(s) + 1 /\ Len(s) \in Nat
      /\ Append(s, e)[Len(s) + 1] = e
      /\ \A i \in 1..Len(s) : Append(s, e)[i] = s[i]
  OBVIOUS
<1> QED
  BY <1>1, SMT DEF Members

(* The first element goes, the others stay.                                *)
LEMMA MembersTail ==
  ASSUME NEW S, NEW s \in Seq(S), s # <<>>
  PROVE  /\ Tail(s) \in Seq(S) /\ s[1] \in S
         /\ Members(s) = Members(Tail(s)) \cup {s[1]}
<1>1. Tail(s) \in Seq(S) /\ Len(s) \in Nat \ {0} /\ Len(Tail(s)) = Len(s) - 1
      /\ DOMAIN s = 1..Len(s) /\ DOMAIN Tail(s) = 1..Len(s) - 1
      /\ \A i \in 1..Len(s) - 1 : Tail(s)[i] = s[i + 1]
  OBVIOUS
<1>2. s[1] \in S
  BY <1>1
<1>3. ASSUME NEW x \in Members(s) PROVE x \in Members(Tail(s)) \cup {s[1]}
  <2>1. PICK i \in 1..Len(s) : x = s[i]
    BY <1>1 DEF Members
  <2>2. CASE i = 1
    BY <2>1, <2>2
  <2>3. CASE i # 1
    <3>1. i - 1 \in 1..Len(s) - 1 /\ Tail(s)[i - 1] = s[i]
      BY <1>1, <2>1, <2>3
    <3> QED
      BY <1>1, <2>1, <3>1 DEF Members
  <2> QED
    BY <2>2, <2>3
<1>4. ASSUME NEW x \in Members(Tail(s)) \cup {s[1]} PROVE x \in Members(s)
  BY <1>1, <1>4 DEF Members
<1> QED
  BY <1>1, <1>2, <1>3, <1>4

(* AfterFirst takes the first packet of the first batch and no other.      *)
LEMMA AfterFirstLeaves ==
  ASSUME NEW b \in Seq(PacketBatch), b # <<>>
  PROVE  /\ AfterFirst(b) \in Seq(PacketBatch)
         /\ b[1] \in PacketBatch /\ b[1].packets[1] \in Packets
         /\ b[1].packets[1] \in Members(b[1].packets)
         /\ \A i \in DOMAIN AfterFirst(b) : \E j \in DOMAIN b :
              /\ AfterFirst(b)[i].to = b[j].to
              /\ Members(AfterFirst(b)[i].packets) \subseteq Members(b[j].packets)
         /\ \A j \in DOMAIN b : \A p \in Members(b[j].packets) :
              \/ j = 1 /\ p = b[1].packets[1]
              \/ \E i \in DOMAIN AfterFirst(b) :
                   AfterFirst(b)[i].to = b[j].to /\ p \in Members(AfterFirst(b)[i].packets)
<1> DEFINE q == b[1].packets
<1>1. /\ Len(b) \in Nat \ {0} /\ DOMAIN b = 1..Len(b)
      /\ \A i \in 1..Len(b) : b[i] \in PacketBatch
  OBVIOUS
<1>2. b[1] \in PacketBatch /\ q \in Seq(Packets) /\ q # <<>>
  BY <1>1 DEF PacketBatch
<1>3. Tail(q) \in Seq(Packets) /\ q[1] \in Packets /\ Members(q) = Members(Tail(q)) \cup {q[1]}
  BY <1>2, MembersTail
<1>4. Len(q) \in Nat \ {0} /\ Len(Tail(q)) = Len(q) - 1 /\ DOMAIN Tail(q) = 1..Len(q) - 1
  BY <1>2
<1>5. CASE Len(q) = 1
  <2>1. AfterFirst(b) = Tail(b)
    BY <1>5 DEF AfterFirst
  <2>2. /\ Tail(b) \in Seq(PacketBatch) /\ DOMAIN Tail(b) = 1..Len(b) - 1
        /\ \A i \in 1..Len(b) - 1 : Tail(b)[i] = b[i + 1]
    BY <1>1
  <2>3. Members(q) = {q[1]}
    BY <1>3, <1>4, <1>5 DEF Members
  <2>4. \A i \in 1..Len(b) - 1 : i + 1 \in DOMAIN b
    BY <1>1
  <2>5. ASSUME NEW j \in DOMAIN b, NEW p \in Members(b[j].packets), ~(j = 1 /\ p = q[1])
        PROVE  j - 1 \in 1..Len(b) - 1 /\ Tail(b)[j - 1] = b[j]
    BY <1>1, <2>2, <2>3, <2>5
  <2>6. ASSUME NEW i \in DOMAIN Tail(b)
        PROVE  i + 1 \in DOMAIN b /\ Tail(b)[i] = b[i + 1]
    BY <2>2, <2>4
  <2>7. \A i \in DOMAIN Tail(b) : \E j \in DOMAIN b :
          Tail(b)[i].to = b[j].to /\ Members(Tail(b)[i].packets) \subseteq Members(b[j].packets)
    BY <2>6
  <2>8. \A j \in DOMAIN b : \A p \in Members(b[j].packets) :
          \/ j = 1 /\ p = q[1]
          \/ \E i \in DOMAIN Tail(b) : Tail(b)[i].to = b[j].to /\ p \in Members(Tail(b)[i].packets)
    BY <2>2, <2>5
  <2> QED
    BY <1>2, <1>3, <2>1, <2>2, <2>7, <2>8
<1>6. CASE Len(q) # 1
  <2> DEFINE a == [b EXCEPT ![1] = [to |-> @.to, packets |-> Tail(@.packets)]]
  <2>1. AfterFirst(b) = a
    BY <1>6, Zenon DEF AfterFirst
  <2>2. Tail(q) \in Seq(Packets) \ {<<>>}
    <3> HIDE DEF q
    <3>1. Len(Tail(q)) # Len(<<>>)
      BY <1>4, <1>6
    <3> QED
      BY <1>3, <3>1
  <2>3. /\ DOMAIN a = 1..Len(b) /\ a[1].to = b[1].to /\ a[1].packets = Tail(q)
        /\ \A i \in 2..Len(b) : a[i] = b[i]
    BY <1>1, <1>2 DEF PacketBatch
  <2>4. a[1] \in PacketBatch
    <3> DEFINE first == [to |-> b[1].to, packets |-> Tail(q)]
    <3>1. a[1] = first
      <4>1. a = [b EXCEPT ![1] = first]
        BY Zenon
      <4> HIDE DEF a, first
      <4> QED
        BY <1>1, <4>1
    <3> HIDE DEF a, q
    <3> QED
      BY <1>2, <2>2, <3>1 DEF PacketBatch
  <2>5. \A i \in 1..Len(b) : a[i] \in PacketBatch
    BY <1>1, <2>3, <2>4
  <2>6. a \in Seq(PacketBatch)
    <3>1. a = [i \in 1..Len(b) |-> a[i]]
      BY <1>1
    <3> HIDE DEF a
    <3> QED
      BY <1>1, <2>5, <3>1
  <2> HIDE DEF a, q
  <2>7. ASSUME NEW i \in DOMAIN a
        PROVE  i \in DOMAIN b /\ a[i].to = b[i].to /\ Members(a[i].packets) \subseteq Members(b[i].packets)
    <3>1. CASE i = 1
      BY <1>1, <1>3, <2>3, <3>1 DEF q
    <3>2. CASE i # 1
      BY <1>1, <2>3, <3>2
    <3> QED
      BY <3>1, <3>2
  <2>8. ASSUME NEW j \in DOMAIN b, NEW p \in Members(b[j].packets), ~(j = 1 /\ p = q[1])
        PROVE  j \in DOMAIN a /\ a[j].to = b[j].to /\ p \in Members(a[j].packets)
    <3>1. CASE j = 1
      BY <1>1, <1>3, <2>3, <2>8, <3>1 DEF q
    <3>2. CASE j # 1
      BY <1>1, <2>3, <3>2
    <3> QED
      BY <3>1, <3>2
  <2> QED
    BY <1>2, <1>3, <2>1, <2>6, <2>7, <2>8 DEF q
<1> QED
  BY <1>5, <1>6

(* Every sender of a plan gets a batch with the packets of the plan.       *)
LEMMA BatchesReach ==
  ASSUME NEW S \in SUBSET Conn, NEW order \in SetToSeqs(S), NEW packets \in Seq(Packets),
         packets = <<>> => S = {}
  PROVE  /\ Batches(order, packets) \in Seq(PacketBatch)
         /\ order = <<>> => Batches(order, packets) = <<>>
         /\ \A i \in DOMAIN Batches(order, packets) : Batches(order, packets)[i].packets = packets
         /\ \A d \in S : \E i \in DOMAIN Batches(order, packets) :
              Batches(order, packets)[i].to = d
         /\ \A i \in DOMAIN Batches(order, packets) : Batches(order, packets)[i].to \in S
<1>1. IsFiniteSet(S)
  BY FiniteConnections, FS_Subset
<1> DEFINE n == Cardinality(S)
<1>2. n \in Nat
  BY <1>1, FS_CardinalityType
<1>3. order \in [1..n -> S] /\ \A i, j \in 1..n : i # j => order[i] # order[j]
  BY DEF SetToSeqs
<1>4. order \in Surjection(1..n, S)
  <2>1. order \in Injection(1..n, S)
    BY <1>3 DEF Injection, IsInjective
  <2>2. Cardinality(1..n) = n
    BY <1>2, FS_Interval
  <2> QED
    BY <1>1, <2>1, <2>2, FS_Injection
<1>5. \A d \in S : \E i \in 1..n : order[i] = d
  BY <1>4 DEF Surjection
<1> HIDE DEF n
<1>6. \A i \in 1..n : [to |-> order[i], packets |-> packets] \in PacketBatch
  BY <1>3 DEF PacketBatch
<1>7. DOMAIN order = 1..n
  BY <1>3
<1>8. Batches(order, packets) \in Seq(PacketBatch)
  BY <1>2, <1>6, <1>7 DEF Batches
<1>9. order = <<>> => Batches(order, packets) = <<>>
  BY <1>8 DEF Batches
<1> QED
  BY <1>3, <1>5, <1>7, <1>8, <1>9 DEF Batches

-------------------------------------------------------------------------------
(* Who is registered, without the index *)

Base == RegistryFacts /\ TasksInv

Here(c) ==
  /\ UuidOf[c] \in DOMAIN sessions_by_uuid
  /\ sessions_by_uuid[UuidOf[c]].session_id = lobby_session_id[c]
Info(c) == [uuid |-> UuidOf[c], entity_id |-> sessions_by_uuid[UuidOf[c]].entity_id]

(* A session is found through the index exactly if it is there.            *)
LEMMA RegisteredIsHere ==
  ASSUME Base, NEW c \in Conn
  PROVE  /\ Registered(c) <=> Here(c)
         /\ Here(c) => /\ InfoOf(c) = Info(c)
                       /\ lobby_session_id[c] # NoSession
                       /\ sessions_by_uuid[UuidOf[c]].players_visible = players_visible[c]
<1> DEFINE s == lobby_session_id[c]
<1>1. ASSUME Registered(c)
      PROVE  Here(c) /\ session_to_uuid[s] = UuidOf[c]
  BY <1>1 DEF Base, Registered, Lobby!KnownSession, TasksInv, OwnSessions, RegistryFacts, Here
<1>2. ASSUME Here(c)
      PROVE  Registered(c) /\ session_to_uuid[s] = UuidOf[c] /\ s # NoSession
  <2>1. s \in Nat \ {0} /\ s < next_session_id /\ next_session_id <= SessionIdMax
    BY <1>2, LobbyConnectionsAssumption
       DEF Base, Here, TasksInv, SessionsIssued, RegistryFacts, Lobby!Session, Lobby!SessionId
  <2> QED
    BY <1>2, <2>1, LobbyConnectionsAssumption
       DEF Base, Here, RegistryFacts, Registered, Lobby!KnownSession, NoSession
<1>3. ASSUME Here(c)
      PROVE  /\ InfoOf(c) = Info(c)
             /\ sessions_by_uuid[UuidOf[c]].players_visible = players_visible[c]
  <2>1. Registered(c) /\ session_to_uuid[s] = UuidOf[c]
    BY <1>2, <1>3
  <2> QED
    BY <2>1 DEF Base, InfoOf, Info, Lobby!SpawnInfo, Lobby!SessionOf, Registered,
                Lobby!KnownSession, TasksInv, FlagsMatch
<1> QED
  BY <1>1, <1>2, <1>3

(* A registration issues both ids, and makes no other session.             *)
LEMMA InsertIssues ==
  ASSUME Base, NEW x \in Conn, RegisterInsert(x)
  PROVE  /\ DOMAIN sessions_by_uuid' = DOMAIN sessions_by_uuid \cup {UuidOf[x]}
         /\ sessions_by_uuid'[UuidOf[x]].session_id = next_session_id
         /\ sessions_by_uuid'[UuidOf[x]].entity_id = next_entity_id
         /\ \A v \in DOMAIN sessions_by_uuid \ {UuidOf[x]} :
              sessions_by_uuid'[v] = sessions_by_uuid[v]
         /\ next_entity_id \in Nat => next_entity_id' = next_entity_id + 1
<1>1. PICK name \in Username, p \in Position :
        Lobby!Insert(UuidOf[x], name, p, "Unknown", players_visible[x])
  BY RegistersOwnAccount
<1>2. next_entity_id \in Nat => next_entity_id' = next_entity_id + 1
  BY <1>1, LobbyConnectionsAssumption
     DEF RegisterInsert, IdsRemain, Lobby!Insert, Lobby!Saturating
<1> QED
  BY <1>1, <1>2 DEF Lobby!Insert, Lobby!Put

(* Steps that issue no id.                                                 *)
LEMMA OthersIssueNothing ==
  ASSUME Base, NEW x \in Conn, Step(x) \/ Input(x), ~RegisterInsert(x)
  PROVE  /\ next_entity_id' = next_entity_id
         /\ lobby_session_id' = lobby_session_id
         /\ DOMAIN sessions_by_uuid' \subseteq DOMAIN sessions_by_uuid
         /\ \A v \in DOMAIN sessions_by_uuid' :
              /\ sessions_by_uuid'[v].session_id = sessions_by_uuid[v].session_id
              /\ sessions_by_uuid'[v].entity_id = sessions_by_uuid[v].entity_id
<1> DEFINE Issued ==
      /\ next_entity_id' = next_entity_id
      /\ DOMAIN sessions_by_uuid' \subseteq DOMAIN sessions_by_uuid
      /\ \A v \in DOMAIN sessions_by_uuid' :
           /\ sessions_by_uuid'[v].session_id = sessions_by_uuid[v].session_id
           /\ sessions_by_uuid'[v].entity_id = sessions_by_uuid[v].entity_id
<1>1. ASSUME UNCHANGED lobby PROVE Issued
  BY <1>1 DEF lobby
<1>2. ASSUME Lobby!RemoveBySessionId(lobby_session_id[x]) PROVE Issued
  BY <1>2 DEF Lobby!RemoveBySessionId, Lobby!Without, Lobby!Restrict, Lobby!counters
<1>3. ASSUME Lobby!UpdatePlayersVisible(lobby_session_id[x], ~players_visible[x]) PROVE Issued
  <2> DEFINE u == session_to_uuid[lobby_session_id[x]]
  <2>1. /\ u \in DOMAIN sessions_by_uuid /\ sessions_by_uuid[u] \in Lobby!Session
        /\ sessions_by_uuid' = [sessions_by_uuid EXCEPT
             ![u] = [sessions_by_uuid[u] EXCEPT !.players_visible = ~players_visible[x]]]
        /\ next_entity_id' = next_entity_id
    BY <1>3 DEF Lobby!UpdatePlayersVisible, Lobby!ReplaceSession, Lobby!KnownSession,
                Lobby!SessionOf, Lobby!counters, Base, RegistryFacts
  <2> QED
    BY <2>1 DEF Lobby!Session
<1>4. lobby_session_id' = lobby_session_id
  BY DEF Step, Input, Unregister, ToggleFlag, RegisterCheck, KickIfLobbyFull,
         CheckCapacity, EnterPlay, PlanJoin, CollectJoin, CollectLeave, Collect, TrySend,
         Receive, ToggleView, RemoveSender, RenderFails, Disconnect, client
<1> QED
  BY <1>1, <1>2, <1>3, <1>4, RegistrySteps

(* No step gives a connection that is not registering another identity.    *)
LEMMA IdentityIsKept ==
  ASSUME Base, NEW x \in Conn, Step(x) \/ Input(x), NEW d \in Conn,
         Here(d)', d # x \/ ~RegisterInsert(x)
  PROVE  Here(d) /\ Info(d)' = Info(d) /\ lobby_session_id'[d] = lobby_session_id[d]
<1>1. CASE RegisterInsert(x)
  <2>1. d # x /\ lobby_session_id'[d] = lobby_session_id[d] /\ lobby_session_id[d] < next_session_id
    BY <1>1 DEF RegisterInsert, Base, TasksInv, TasksTyped, OwnSessions
  <2>2. next_session_id \in Nat /\ lobby_session_id[d] \in Nat
    BY LobbyConnectionsAssumption DEF Base, RegistryFacts, TasksInv, TasksTyped
  <2>3. /\ UuidOf[d] \in DOMAIN sessions_by_uuid'
        /\ sessions_by_uuid'[UuidOf[d]].session_id = lobby_session_id'[d]
    BY DEF Here
  <2>4. /\ DOMAIN sessions_by_uuid' = DOMAIN sessions_by_uuid \cup {UuidOf[x]}
        /\ sessions_by_uuid'[UuidOf[x]].session_id = next_session_id
        /\ \A v \in DOMAIN sessions_by_uuid \ {UuidOf[x]} :
             sessions_by_uuid'[v] = sessions_by_uuid[v]
    BY <1>1, InsertIssues
  <2>5. UuidOf[d] # UuidOf[x]
    BY <2>1, <2>2, <2>3, <2>4
  <2> QED
    BY <2>1, <2>3, <2>4, <2>5 DEF Here, Info
<1>2. CASE ~RegisterInsert(x)
  BY <1>2, OthersIssueNothing DEF Here, Info
<1> QED
  BY <1>1, <1>2

-------------------------------------------------------------------------------
(* What a step does to what is on its way *)

(* A task writes its own fields only; it puts packets into other queues.   *)
LEMMA OthersKeepTheirs ==
  ASSUME Base, DeliveryTyped, NEW x \in Conn, Step(x) \/ Input(x), NEW c \in Conn, c # x
  PROVE  /\ phase'[c] = phase[c] /\ players_visible'[c] = players_visible[c]
         /\ view'[c] = view[c] /\ plan'[c] = plan[c] /\ outbox'[c] = outbox[c]
         /\ ~TrySend(x) => queue'[c] = queue[c]
<1>1. CASE RegisterCheck(x) \/ RegisterInsert(x) \/ EnterPlay(x) \/ KickIfLobbyFull(x)
           \/ RenderFails(x) \/ RemoveSender(x)
  BY <1>1 DEF RegisterCheck, RegisterInsert, EnterPlay, KickIfLobbyFull, CheckCapacity, RenderFails,
              RemoveSender, At, client, delivery, Base, TasksInv, TasksTyped
<1>2. CASE PlanJoin(x) \/ Unregister(x)
  BY <1>2 DEF PlanJoin, Unregister, At, client, Base, TasksInv, TasksTyped, DeliveryTyped
<1>3. CASE CollectJoin(x) \/ CollectLeave(x)
  BY <1>3 DEF CollectJoin, CollectLeave, Collect, At, client, Base, TasksInv, TasksTyped, DeliveryTyped
<1>4. CASE TrySend(x)
  BY <1>4 DEF TrySend, client, Base, TasksInv, TasksTyped, DeliveryTyped
<1>5. CASE Receive(x) \/ Disconnect(x)
  BY <1>5 DEF Receive, Disconnect, At, client, Base, TasksInv, TasksTyped, DeliveryTyped
<1>6. CASE ToggleFlag(x) \/ ToggleView(x)
  BY <1>6 DEF ToggleFlag, ToggleView, At, client, delivery, Base, TasksInv, TasksTyped, DeliveryTyped
<1> QED
  BY <1>1, <1>2, <1>3, <1>4, <1>5, <1>6 DEF Step, Input

(* A queue loses what its own task receives and nothing else, until its    *)
(* client is gone.                                                         *)
LEMMA QueuesGrow ==
  ASSUME Base, DeliveryTyped, NEW x \in Conn, Step(x) \/ Input(x), NEW c \in Conn,
         c # x \/ ~(Receive(x) \/ Disconnect(x))
  PROVE  Members(queue[c]) \subseteq Members(queue'[c])
<1> HIDE DEF Packets, PacketBatch
<1>1. CASE TrySend(x)
  <2> DEFINE q == outbox[x][1].packets[1]
             to == outbox[x][1].to
  <2>1. \/ queue' = queue
        \/ queue' = [queue EXCEPT ![to] = Append(queue[to], q)]
    BY <1>1 DEF TrySend
  <2>2. to \in Conn /\ q \in Packets
    <3>1. outbox[x] # <<>> /\ outbox[x] \in Seq(PacketBatch)
      BY <1>1 DEF TrySend, DeliveryTyped
    <3> QED
      BY <3>1, AfterFirstLeaves DEF PacketBatch
  <2>3. Members(Append(queue[to], q)) = Members(queue[to]) \cup {q}
    BY <2>2, MembersAppend DEF DeliveryTyped
  <2> HIDE DEF q, to
  <2> QED
    BY <2>1, <2>2, <2>3 DEF DeliveryTyped
<1>2. CASE c # x /\ ~TrySend(x)
  BY <1>2, OthersKeepTheirs
<1>3. CASE ~TrySend(x) /\ ~(Receive(x) \/ Disconnect(x))
  BY <1>3 DEF Step, Input, Unregister, ToggleFlag, RegisterCheck, KickIfLobbyFull,
              CheckCapacity, EnterPlay, PlanJoin, CollectJoin, CollectLeave, Collect,
              ToggleView, RemoveSender, RenderFails, RegisterInsert, delivery
<1> QED
  BY <1>1, <1>2, <1>3

(* The plan of a player who joins: it is told of everybody who is here,    *)
(* and everybody who sees players of it.                                   *)
LEMMA JoinPlanReaches ==
  ASSUME Base, EntitiesIssued, NEW x \in Conn, Here(x)
  PROVE  /\ JoinPlan(x).existing \subseteq Infos
         /\ JoinPlan(x).packets = SpawnPackets(Info(x))
         /\ JoinPlan(x).recipients \subseteq Nat
         /\ Info(x) \in Infos
         /\ \A c \in Conn \ {x} : Here(c) =>
              /\ Info(c) \in JoinPlan(x).existing
              /\ players_visible[c] => lobby_session_id[c] \in JoinPlan(x).recipients
<1>1. \A u \in DOMAIN sessions_by_uuid :
        u \in Accounts /\ sessions_by_uuid[u].entity_id \in Nat /\ sessions_by_uuid[u].session_id \in Nat
  BY LobbyConnectionsAssumption
     DEF EntitiesIssued, Base, RegistryFacts, Lobby!Session, Lobby!SessionId, Lobby!EntityId
<1>2. Info(x) \in Infos
  BY <1>1 DEF Here, Info, Infos
<1>3. JoinPlan(x).existing \subseteq Infos
  BY <1>1 DEF JoinPlan, Lobby!ExistingSessions, Lobby!SpawnInfo, Infos
<1>4. JoinPlan(x).packets = SpawnPackets(Info(x))
  BY RegisteredIsHere DEF JoinPlan
<1>5. JoinPlan(x).recipients \subseteq Nat
  BY <1>1 DEF JoinPlan, Lobby!PlanRecipients, Lobby!Sessions
<1>6. ASSUME NEW c \in Conn \ {x}, Here(c)
      PROVE  /\ Info(c) \in JoinPlan(x).existing
             /\ players_visible[c] => lobby_session_id[c] \in JoinPlan(x).recipients
  <2>1. lobby_session_id[c] # lobby_session_id[x]
    BY <1>6, RegisteredIsHere DEF Base, TasksInv, OwnSessions
  <2>2. Info(c) \in JoinPlan(x).existing
    BY <1>6, <2>1 DEF JoinPlan, Lobby!ExistingSessions, Lobby!SpawnInfo, Here, Info
  <2>3. ASSUME players_visible[c] PROVE lobby_session_id[c] \in JoinPlan(x).recipients
    <3>1. sessions_by_uuid[UuidOf[c]].players_visible
      BY <1>6, <2>3, RegisteredIsHere
    <3> QED
      BY <1>6, <2>1, <3>1 DEF JoinPlan, Lobby!PlanRecipients, Lobby!Sessions, Here
  <2> QED
    BY <2>2, <2>3
<1> QED
  BY <1>2, <1>3, <1>4, <1>5, <1>6

(* The packets of a plan, without their order.                             *)
LEMMA SpawnPacketsTyped ==
  ASSUME NEW info \in Infos
  PROVE  /\ SpawnPackets(info) \in Seq(Packets) /\ SpawnPackets(info) # <<>>
         /\ Members(SpawnPackets(info))
              = {Packet("PlayerInfoAdd", info), Packet("SpawnPlayer", info)}
         /\ LeavePackets(info) \in Seq(Packets) /\ LeavePackets(info) # <<>>
         /\ Members(LeavePackets(info))
              = {Packet("RemoveEntity", info), Packet("PlayerInfoRemove", info)}
<1>1. \A kind \in {"PlayerInfoAdd", "SpawnPlayer", "PlayerInfoRemove", "RemoveEntity"} :
        Packet(kind, info) \in Packets
  BY DEF Packet, Packets, Infos
<1> HIDE DEF Packets
<1>2. ASSUME NEW p \in Packets, NEW q \in Packets
      PROVE  <<p, q>> \in Seq(Packets) /\ <<p, q>> # <<>> /\ Members(<<p, q>>) = {p, q}
  <2>1. <<p, q>> \in Seq(Packets) /\ Len(<<p, q>>) = 2 /\ DOMAIN <<p, q>> = 1..2
        /\ <<p, q>>[1] = p /\ <<p, q>>[2] = q
    OBVIOUS
  <2>2. <<p, q>> # <<>>
    OBVIOUS
  <2>3. 1..2 = {1, 2}
    OBVIOUS
  <2> QED
    BY <2>1, <2>2, <2>3 DEF Members
<1> QED
  BY <1>1, <1>2 DEF SpawnPackets, LeavePackets

(* The plan of a player who leaves has its packets and nobody to be shown. *)
LEMMA LeavePlanTyped ==
  ASSUME Base, EntitiesIssued, NEW x \in Conn, Here(x)
  PROVE  /\ LeavePlan(x).existing = {} /\ LeavePlan(x).packets = LeavePackets(Info(x))
         /\ LeavePlan(x).recipients \subseteq Nat
         /\ LeavePlan(x) = [existing |-> {}, packets |-> LeavePackets(Info(x)),
                            recipients |-> LeavePlan(x).recipients]
<1>1. \A u \in DOMAIN sessions_by_uuid : sessions_by_uuid[u].session_id \in Nat
  BY LobbyConnectionsAssumption DEF Base, RegistryFacts, Lobby!Session, Lobby!SessionId
<1>2. LeavePlan(x).recipients \subseteq Nat
  BY <1>1 DEF LeavePlan, Lobby!LeaveRecipients, Lobby!PlanRecipients, Lobby!Sessions
<1> QED
  BY <1>2, RegisteredIsHere DEF LeavePlan

(* Planned packets are packets, and a plan has some.                       *)
LEMMA PlansTyped ==
  ASSUME Base, EntitiesIssued, NEW x \in Conn, Here(x)
  PROVE  /\ JoinPlan(x) \in Plans /\ JoinPlan(x).packets # <<>>
         /\ LeavePlan(x) \in Plans /\ LeavePlan(x).packets # <<>>
<1>1. Info(x) \in Infos
  BY JoinPlanReaches
<1>2. JoinPlan(x) = [existing |-> JoinPlan(x).existing, packets |-> JoinPlan(x).packets,
                     recipients |-> JoinPlan(x).recipients]
  BY DEF JoinPlan
<1>3. JoinPlan(x) \in Plans
  BY <1>1, <1>2, JoinPlanReaches, SpawnPacketsTyped DEF Plans
<1>4. LeavePlan(x) \in Plans
  BY <1>1, LeavePlanTyped, SpawnPacketsTyped DEF Plans
<1> QED
  BY <1>1, <1>3, <1>4, JoinPlanReaches, LeavePlanTyped, SpawnPacketsTyped

(* Senders are connections. *)
LEMMA SendersAreConnections ==
  ASSUME Base, NEW S
  PROVE  Senders(S) \in SUBSET Conn
BY DEF Senders, Base, TasksInv, SendersInPlay

(* A task that has collected its recipients has a batch for each.          *)
LEMMA CollectFills ==
  ASSUME Base, DeliveryTyped, NEW x \in Conn, NEW from, NEW sending, Collect(x, from, sending)
  PROVE  /\ outbox' = [outbox EXCEPT ![x] = outbox'[x]]
         /\ outbox'[x] \in Seq(PacketBatch)
         /\ \A i \in DOMAIN outbox'[x] : outbox'[x][i].packets = plan[x].packets
         /\ \A d \in Senders(plan[x].recipients) : \E i \in DOMAIN outbox'[x] : outbox'[x][i].to = d
         /\ \A i \in DOMAIN outbox'[x] : outbox'[x][i].to \in Senders(plan[x].recipients)
         /\ outbox'[x] # <<>> => phase'[x] = sending
<1>1. PICK order \in SetToSeqs(Senders(plan[x].recipients)) :
         /\ outbox' = [outbox EXCEPT ![x] = Batches(order, plan[x].packets)]
         /\ At(x, from, IF order = <<>> THEN AfterSending(sending) ELSE sending)
  BY DEF Collect
<1>2. plan[x].packets \in Seq(Packets) /\ (plan[x].packets = <<>> => plan[x].recipients = {})
  BY DEF DeliveryTyped
<1>3. plan[x].packets = <<>> => Senders(plan[x].recipients) = {}
  BY <1>2 DEF Senders
<1>4. outbox'[x] = Batches(order, plan[x].packets)
  BY <1>1 DEF DeliveryTyped
<1>5. order # <<>> => phase'[x] = sending
  BY <1>1 DEF At, Base, TasksInv, TasksTyped
<1> DEFINE S == Senders(plan[x].recipients)
           batches == Batches(order, plan[x].packets)
<1>6. S \in SUBSET Conn
  BY SendersAreConnections
<1> HIDE DEF S, PacketBatch
<1>7. /\ batches \in Seq(PacketBatch)
      /\ order = <<>> => batches = <<>>
      /\ \A i \in DOMAIN batches : batches[i].packets = plan[x].packets
      /\ \A d \in S : \E i \in DOMAIN batches : batches[i].to = d
      /\ \A i \in DOMAIN batches : batches[i].to \in S
  <2>1. order \in SetToSeqs(S) /\ (plan[x].packets = <<>> => S = {})
    BY <1>3 DEF S
  <2> QED
    BY <1>2, <1>6, <2>1, BatchesReach
<1> HIDE DEF batches
<1>8. outbox'[x] = batches /\ outbox' = [outbox EXCEPT ![x] = batches]
  BY <1>1, <1>4 DEF batches
<1> QED
  BY <1>5, <1>7, <1>8 DEF S

(* Steps keep what is on its way well-typed. *)
LEMMA DeliveryStaysTyped ==
  ASSUME Base, EntitiesIssued, DeliveryTyped, NEW x \in Conn, Step(x) \/ Input(x)
  PROVE  DeliveryTyped'
<1> HIDE DEF Packets, Infos, PacketBatch, Packet
<1> USE DEF Plans, Views
<1>1. CASE RegisterCheck(x) \/ RegisterInsert(x) \/ EnterPlay(x) \/ KickIfLobbyFull(x)
           \/ RenderFails(x) \/ RemoveSender(x) \/ ToggleFlag(x)
  <2>1. UNCHANGED delivery
    BY <1>1 DEF RegisterCheck, RegisterInsert, EnterPlay, KickIfLobbyFull, CheckCapacity, RenderFails,
                RemoveSender, ToggleFlag
  <2>2. phase[x] \notin {"Announcing", "Retracting"} /\ \E to : phase' = [phase EXCEPT ![x] = to]
    BY <1>1 DEF RegisterCheck, RegisterInsert, EnterPlay, KickIfLobbyFull, CheckCapacity, RenderFails,
                RemoveSender, ToggleFlag, At
  <2>3. \A c \in Conn : phase[c] \in {"Announcing", "Retracting"} => phase'[c] = phase[c]
    BY <2>2 DEF Base, TasksInv, TasksTyped
  <2> QED
    BY <2>1, <2>3 DEF DeliveryTyped, delivery
<1>2. CASE PlanJoin(x) \/ Unregister(x)
  <2>1. UNCHANGED <<outbox, queue, view>>
    BY <1>2 DEF PlanJoin, Unregister
  <2>2. phase[x] \notin {"Announcing", "Retracting"} /\ \E to : phase' = [phase EXCEPT ![x] = to]
    BY <1>2 DEF PlanJoin, Unregister, At
  <2>3. \A c \in Conn : phase[c] \in {"Announcing", "Retracting"} => phase'[c] = phase[c]
    BY <2>2 DEF Base, TasksInv, TasksTyped
  <2>4. PICK p \in Plans : /\ plan' = [plan EXCEPT ![x] = p]
                           /\ p.packets = <<>> => p.recipients = {}
    <3>1. NoPlan \in Plans /\ NoPlan.recipients = {}
      BY DEF NoPlan
    <3>2. plan[x] \in Plans /\ (plan[x].packets = <<>> => plan[x].recipients = {})
          /\ plan = [plan EXCEPT ![x] = plan[x]]
      BY DEF DeliveryTyped
    <3>3. Registered(x) => /\ JoinPlan(x) \in Plans /\ JoinPlan(x).packets # <<>>
                           /\ LeavePlan(x) \in Plans /\ LeavePlan(x).packets # <<>>
      BY RegisteredIsHere, PlansTyped
    <3>4. CASE PlanJoin(x)
      BY <3>2, <3>3, <3>4 DEF PlanJoin
    <3>5. CASE Unregister(x)
      BY <3>1, <3>3, <3>5 DEF Unregister
    <3> QED
      BY <1>2, <3>4, <3>5
  <2>5. plan' \in [Conn -> Plans]
    BY <2>4 DEF DeliveryTyped
  <2>6. \A c \in Conn : plan'[c].packets = <<>> => plan'[c].recipients = {}
    BY <2>4 DEF DeliveryTyped
  <2> QED
    BY <2>1, <2>3, <2>5, <2>6 DEF DeliveryTyped
<1>3. ASSUME NEW from, NEW sending \in {"Announcing", "Retracting"}, Collect(x, from, sending),
             from \notin {"Announcing", "Retracting"}
      PROVE  DeliveryTyped'
  <2>1. /\ queue' = queue
        /\ view' = [view EXCEPT ![x] = WithPlayers(@, plan[x].existing)]
        /\ plan' = [plan EXCEPT ![x] = NoPlan]
        /\ \E to : phase' = [phase EXCEPT ![x] = to]
    BY <1>3 DEF Collect, At
  <2>2. outbox' \in [Conn -> Seq(PacketBatch)]
    BY <1>3, CollectFills DEF DeliveryTyped
  <2>3. WithPlayers(view[x], plan[x].existing) \in Views
    BY DEF WithPlayers, DeliveryTyped, Infos
  <2>4. view' \in [Conn -> Views]
    BY <2>1, <2>3 DEF DeliveryTyped
  <2>5. plan' \in [Conn -> Plans] /\ \A c \in Conn : plan'[c].packets = <<>> => plan'[c].recipients = {}
    <3>1. NoPlan \in Plans /\ NoPlan.recipients = {}
      BY DEF NoPlan
    <3> QED
      BY <2>1, <3>1 DEF DeliveryTyped
  <2>6. \A c \in Conn : outbox'[c] # <<>> => phase'[c] \in {"Announcing", "Retracting"}
    <3>1. \A c \in Conn \ {x} : outbox'[c] = outbox[c] /\ phase'[c] = phase[c]
      BY <2>1, <1>3, CollectFills DEF DeliveryTyped, Base, TasksInv, TasksTyped
    <3>2. outbox'[x] # <<>> => phase'[x] = sending
      BY <1>3, CollectFills
    <3> QED
      BY <1>3, <3>1, <3>2 DEF DeliveryTyped
  <2> QED
    BY <2>1, <2>2, <2>4, <2>5, <2>6 DEF DeliveryTyped
<1>4. CASE TrySend(x)
  <2>1. /\ UNCHANGED <<plan, view>>
        /\ outbox[x] # <<>> /\ phase[x] \in {"Announcing", "Retracting"}
        /\ outbox' = [outbox EXCEPT ![x] = AfterFirst(outbox[x])]
        /\ phase' = IF AfterFirst(outbox[x]) = <<>>
                      THEN [phase EXCEPT ![x] = AfterSending(@)] ELSE phase
    BY <1>4 DEF TrySend
  <2>2. /\ outbox[x] \in Seq(PacketBatch) /\ outbox[x][1] \in PacketBatch
        /\ outbox[x][1].packets[1] \in Packets
        /\ AfterFirst(outbox[x]) \in Seq(PacketBatch)
    BY <2>1, AfterFirstLeaves DEF DeliveryTyped
  <2>3. queue' \in [Conn -> Seq(Packets)]
    <3>1. \/ queue' = queue
          \/ queue' = [queue EXCEPT ![outbox[x][1].to] = Append(queue[outbox[x][1].to], outbox[x][1].packets[1])]
      BY <1>4 DEF TrySend
    <3>2. outbox[x][1].to \in Conn
      BY <2>2 DEF PacketBatch
    <3>3. Append(queue[outbox[x][1].to], outbox[x][1].packets[1]) \in Seq(Packets)
      BY <2>2, <3>2, MembersAppend DEF DeliveryTyped
    <3> QED
      BY <3>1, <3>2, <3>3 DEF DeliveryTyped
  <2>4. outbox' \in [Conn -> Seq(PacketBatch)]
    BY <2>1, <2>2 DEF DeliveryTyped
  <2>5. \A c \in Conn : outbox'[c] # <<>> => phase'[c] \in {"Announcing", "Retracting"}
    BY <2>1 DEF DeliveryTyped, Base, TasksInv, TasksTyped
  <2> QED
    BY <2>1, <2>3, <2>4, <2>5 DEF DeliveryTyped
<1>5. CASE Receive(x)
  <2>1. /\ queue[x] # <<>> /\ UNCHANGED <<phase, plan, outbox>>
        /\ queue' = [queue EXCEPT ![x] = Tail(queue[x])]
        /\ view' = [view EXCEPT ![x] = Shown(view[x], queue[x][1])]
    BY <1>5 DEF Receive
  <2>2. Tail(queue[x]) \in Seq(Packets) /\ queue[x][1] \in Packets
    BY <2>1, MembersTail DEF DeliveryTyped
  <2>3. Shown(view[x], queue[x][1]) \in Views
    BY <2>2 DEF Shown, DeliveryTyped, Packets
  <2>4. queue' \in [Conn -> Seq(Packets)] /\ view' \in [Conn -> Views]
    BY <2>1, <2>2, <2>3 DEF DeliveryTyped
  <2> QED
    BY <2>1, <2>4 DEF DeliveryTyped
<1>6. CASE Disconnect(x)
  <2>1. /\ UNCHANGED <<plan, outbox>>
        /\ phase[x] \notin {"Announcing", "Retracting"}
        /\ \E to : phase' = [phase EXCEPT ![x] = to]
        /\ queue' = [queue EXCEPT ![x] = <<>>]
        /\ view' = [view EXCEPT ![x] = EmptyView]
    BY <1>6 DEF Disconnect, At
  <2>2. EmptyView \in Views
    BY DEF EmptyView
  <2>3. queue' \in [Conn -> Seq(Packets)] /\ view' \in [Conn -> Views]
    BY <2>1, <2>2 DEF DeliveryTyped
  <2>4. \A c \in Conn : phase[c] \in {"Announcing", "Retracting"} => phase'[c] = phase[c]
    BY <2>1 DEF Base, TasksInv, TasksTyped
  <2> QED
    BY <2>1, <2>3, <2>4 DEF DeliveryTyped
<1>7. CASE ToggleView(x)
  <2>1. /\ UNCHANGED <<plan, outbox, queue>>
        /\ phase[x] \notin {"Announcing", "Retracting"}
        /\ \E to : phase' = [phase EXCEPT ![x] = to]
        /\ \E v \in {view[x], WithPlayers(view[x], Lobby!ExistingSessions(lobby_session_id[x])),
                     WithoutPlayers(view[x], Lobby!ExistingSessions(lobby_session_id[x]))} :
             view' = [view EXCEPT ![x] = v]
    <3>1. view = [view EXCEPT ![x] = view[x]]
      BY DEF DeliveryTyped
    <3> QED
      BY <1>7, <3>1 DEF ToggleView, At
  <2>2. Lobby!ExistingSessions(lobby_session_id[x]) \subseteq Infos
    <3>1. \A u \in DOMAIN sessions_by_uuid : u \in Accounts /\ sessions_by_uuid[u].entity_id \in Nat
      BY LobbyConnectionsAssumption
         DEF EntitiesIssued, Base, RegistryFacts, Lobby!Session, Lobby!EntityId
    <3> QED
      BY <3>1 DEF Lobby!ExistingSessions, Lobby!SpawnInfo, Infos
  <2>3. \A infos \in SUBSET Infos :
          WithPlayers(view[x], infos) \in Views /\ WithoutPlayers(view[x], infos) \in Views
    BY DEF WithPlayers, WithoutPlayers, DeliveryTyped, Infos
  <2>4. view' \in [Conn -> Views]
    BY <2>1, <2>2, <2>3 DEF DeliveryTyped
  <2>5. \A c \in Conn : phase[c] \in {"Announcing", "Retracting"} => phase'[c] = phase[c]
    BY <2>1 DEF Base, TasksInv, TasksTyped
  <2> QED
    BY <2>1, <2>4, <2>5 DEF DeliveryTyped
<1> QED
  BY <1>1, <1>2, <1>3, <1>4, <1>5, <1>6, <1>7 DEF Step, Input, CollectJoin, CollectLeave

(* Nothing comes under way but what a plan says. *)
LEMMA OnlyPlansSay ==
  ASSUME Base, EntitiesIssued, DeliveryTyped, NEW x \in Conn, Step(x) \/ Input(x),
         NEW p \in Packets, UnderWay(p)', ~UnderWay(p)
  PROVE  /\ Here(x)
         /\ \/ PlanJoin(x) /\ p \in Members(SpawnPackets(Info(x)))
            \/ Unregister(x) /\ p \in Members(LeavePackets(Info(x)))
<1> HIDE DEF Packets, PacketBatch
<1> DEFINE Mine(c) == \/ p \in Members(plan[c].packets)
                      \/ \E i \in DOMAIN outbox[c] : p \in Members(outbox[c][i].packets)
                      \/ p \in Members(queue[c])
<1>0. \A c \in Conn : ~Mine(c)
  BY DEF UnderWay
<1>1. PICK c \in Conn : Mine(c)'
  BY DEF UnderWay
<1>2. CASE PlanJoin(x) \/ Unregister(x)
  <2>1. UNCHANGED <<outbox, queue>>
    BY <1>2 DEF PlanJoin, Unregister
  <2>2. p \in Members(plan'[c].packets)
    BY <1>0, <1>1, <2>1
  <2>3. c = x /\ plan'[x] # plan[x]
    BY <1>0, <2>2, OthersKeepTheirs
  <2>4. p \notin Members(NoPlan.packets)
    BY DEF NoPlan, Members
  <2>5. CASE PlanJoin(x)
    <3>1. Registered(x) /\ plan'[x] = JoinPlan(x)
      BY <2>3, <2>5 DEF PlanJoin, DeliveryTyped
    <3> QED
      BY <2>2, <2>3, <2>5, <3>1, RegisteredIsHere, JoinPlanReaches
  <2>6. CASE Unregister(x)
    <3>1. Registered(x) /\ plan'[x] = LeavePlan(x)
      BY <2>2, <2>3, <2>4, <2>6 DEF Unregister, DeliveryTyped
    <3> QED
      BY <2>2, <2>3, <2>6, <3>1, RegisteredIsHere, LeavePlanTyped
  <2> QED
    BY <1>2, <2>5, <2>6
<1>3. ASSUME NEW from, NEW sending, Collect(x, from, sending) PROVE FALSE
  <2>1. queue' = queue /\ plan'[x] = NoPlan
    BY <1>3 DEF Collect, DeliveryTyped
  <2>2. outbox' = [outbox EXCEPT ![x] = outbox'[x]]
        /\ \A i \in DOMAIN outbox'[x] : outbox'[x][i].packets = plan[x].packets
    BY <1>3, CollectFills
  <2>3. \A d \in Conn \ {x} : outbox'[d] = outbox[d] /\ plan'[d] = plan[d]
    BY <1>3, <2>2 DEF Collect, DeliveryTyped
  <2>4. p \notin Members(NoPlan.packets)
    BY DEF NoPlan, Members
  <2> QED
    BY <1>0, <1>1, <2>1, <2>2, <2>3, <2>4
<1>4. CASE TrySend(x)
  <2>1. /\ UNCHANGED plan
        /\ outbox[x] # <<>> /\ outbox[x] \in Seq(PacketBatch)
        /\ outbox' = [outbox EXCEPT ![x] = AfterFirst(outbox[x])]
    BY <1>4 DEF TrySend, DeliveryTyped
  <2> DEFINE q == outbox[x][1].packets[1]
             to == outbox[x][1].to
  <2>2. /\ to \in Conn /\ q \in Packets /\ q \in Members(outbox[x][1].packets)
        /\ 1 \in DOMAIN outbox[x]
        /\ \A i \in DOMAIN AfterFirst(outbox[x]) : \E j \in DOMAIN outbox[x] :
              Members(AfterFirst(outbox[x])[i].packets) \subseteq Members(outbox[x][j].packets)
    <3>1. 1 \in DOMAIN outbox[x]
      BY <2>1
    <3> QED
      BY <2>1, <3>1, AfterFirstLeaves DEF PacketBatch
  <2>3. \A d \in Conn : Members(queue'[d]) \subseteq Members(queue[d]) \cup {q}
    <3>1. \/ queue' = queue
          \/ queue' = [queue EXCEPT ![to] = Append(queue[to], q)]
      BY <1>4 DEF TrySend
    <3>2. Members(Append(queue[to], q)) = Members(queue[to]) \cup {q}
      BY <2>2, MembersAppend DEF DeliveryTyped
    <3> QED
      BY <2>2, <3>1, <3>2 DEF DeliveryTyped
  <2>4. p # q
    BY <1>0, <2>2
  <2>5. \A d \in Conn \ {x} : outbox'[d] = outbox[d]
    BY <2>1 DEF DeliveryTyped
  <2>6. outbox'[x] = AfterFirst(outbox[x])
    BY <2>1 DEF DeliveryTyped
  <2> HIDE DEF q, to
  <2>7. p \notin Members(queue'[c]) /\ p \notin Members(plan'[c].packets)
    BY <1>0, <2>1, <2>3, <2>4
  <2>8. PICK i \in DOMAIN outbox'[c] : p \in Members(outbox'[c][i].packets)
    BY <1>1, <2>7
  <2>9. CASE c = x
    <3>1. PICK j \in DOMAIN outbox[x] : p \in Members(outbox[x][j].packets)
      BY <2>2, <2>6, <2>8, <2>9
    <3> QED
      BY <1>0, <3>1
  <2>10. CASE c # x
    BY <1>0, <2>5, <2>8, <2>10
  <2> QED
    BY <2>9, <2>10
<1>5. CASE Receive(x) \/ Disconnect(x)
  <2>1. UNCHANGED <<plan, outbox>>
    BY <1>5 DEF Receive, Disconnect
  <2>2. queue[x] # <<>> => Members(Tail(queue[x])) \subseteq Members(queue[x])
    BY MembersTail DEF DeliveryTyped
  <2>3. Members(<<>>) = {}
    BY DEF Members
  <2>4. \A d \in Conn : Members(queue'[d]) \subseteq Members(queue[d])
    BY <1>5, <2>2, <2>3 DEF Receive, Disconnect, DeliveryTyped
  <2> QED
    BY <1>0, <1>1, <2>1, <2>4
<1>6. CASE RegisterCheck(x) \/ RegisterInsert(x) \/ EnterPlay(x) \/ KickIfLobbyFull(x)
           \/ RenderFails(x) \/ RemoveSender(x) \/ ToggleFlag(x) \/ ToggleView(x)
  <2>1. UNCHANGED <<plan, outbox, queue>>
    BY <1>6 DEF RegisterCheck, RegisterInsert, EnterPlay, KickIfLobbyFull, CheckCapacity, RenderFails,
                RemoveSender, ToggleFlag, ToggleView, delivery
  <2> QED
    BY <1>0, <1>1, <2>1
<1> QED
  BY <1>2, <1>3, <1>4, <1>5, <1>6 DEF Step, Input, CollectJoin, CollectLeave

(* A task that has begun to unregister does not come back. *)
LEMMA GoneForGood ==
  ASSUME Base, NEW x \in Conn, Step(x) \/ Input(x), NEW c \in Conn, ~Attached(c)
  PROVE  ~Attached(c)'
<1>1. phase[x] \in Phase /\ phase \in [Conn -> Phase]
  BY DEF Base, TasksInv, TasksTyped
<1>2. CASE RegisterCheck(x) \/ RegisterInsert(x) \/ EnterPlay(x) \/ KickIfLobbyFull(x)
           \/ RenderFails(x) \/ RemoveSender(x) \/ ToggleFlag(x) \/ ToggleView(x)
           \/ PlanJoin(x) \/ Unregister(x)
  BY <1>1, <1>2 DEF RegisterCheck, RegisterInsert, EnterPlay, KickIfLobbyFull, CheckCapacity, RenderFails,
                RemoveSender, ToggleFlag, ToggleView, PlanJoin, Unregister, At, Attached
<1>3. CASE CollectJoin(x) \/ CollectLeave(x) \/ TrySend(x) \/ Receive(x) \/ Disconnect(x)
  BY <1>1, <1>3 DEF CollectJoin, CollectLeave, Collect, TrySend, Receive, Disconnect, AfterSending,
                    At, Attached
<1> QED
  BY <1>2, <1>3 DEF Step, Input

(* Entity ids stay unique. *)
LEMMA EntitiesStayIssued ==
  ASSUME Base, EntitiesIssued, NEW x \in Conn, Step(x) \/ Input(x)
  PROVE  EntitiesIssued' /\ next_entity_id <= next_entity_id' /\ next_entity_id \in Nat
<1>1. CASE RegisterInsert(x)
  <2>1. UuidOf[x] \in Accounts
    BY DEF Accounts
  <2>2. \A u \in DOMAIN sessions_by_uuid : sessions_by_uuid[u].entity_id \in Nat
    BY LobbyConnectionsAssumption DEF Base, RegistryFacts, Lobby!Session, Lobby!EntityId
  <2>3. /\ DOMAIN sessions_by_uuid' = DOMAIN sessions_by_uuid \cup {UuidOf[x]}
        /\ sessions_by_uuid'[UuidOf[x]].entity_id = next_entity_id
        /\ \A v \in DOMAIN sessions_by_uuid \ {UuidOf[x]} :
             sessions_by_uuid'[v] = sessions_by_uuid[v]
        /\ next_entity_id \in Nat \ {0} /\ next_entity_id' = next_entity_id + 1
    BY <1>1, InsertIssues DEF EntitiesIssued
  <2> QED
    BY <2>1, <2>2, <2>3 DEF EntitiesIssued
<1>2. CASE ~RegisterInsert(x)
  BY <1>2, OthersIssueNothing DEF EntitiesIssued
<1> QED
  BY <1>1, <1>2

(* From EnterPlay to RemoveSender a sender is in its place. *)
LEMMA SendersStayInstalled ==
  ASSUME Base, SendersInstalled, NEW x \in Conn, Step(x) \/ Input(x)
  PROVE  SendersInstalled'
<1> SUFFICES ASSUME NEW c \in Conn, phase'[c] \in Looping
             PROVE  /\ lobby_session_id'[c] \in DOMAIN lobby_broadcast_senders'
                    /\ lobby_broadcast_senders'[lobby_session_id'[c]] = c
  BY DEF SendersInstalled
<1>1. CASE EnterPlay(x)
  <2>1. /\ phase[x] = "Rendering" /\ phase' = [phase EXCEPT ![x] = "Planning"]
        /\ lobby_session_id' = lobby_session_id
        /\ lobby_broadcast_senders' = Put(lobby_broadcast_senders, lobby_session_id[x], x)
    BY <1>1 DEF EnterPlay, At
  <2>2. CASE c = x
    BY <2>1, <2>2 DEF Put
  <2>3. CASE c # x
    <3>1. phase[c] \in Looping /\ lobby_session_id[x] # lobby_session_id[c]
      BY <2>1, <2>3 DEF Base, TasksInv, TasksTyped, OwnSessions, SendersInPlay
    <3> QED
      BY <2>1, <3>1 DEF SendersInstalled, Put
  <2> QED
    BY <2>2, <2>3
<1>2. CASE RemoveSender(x)
  <2>1. /\ phase' = [phase EXCEPT ![x] = phase'[x]] /\ phase'[x] \notin Looping
        /\ lobby_session_id' = lobby_session_id
        /\ lobby_broadcast_senders' = Without(lobby_broadcast_senders, {lobby_session_id[x]})
    BY <1>2 DEF RemoveSender, At, client, Looping, Base, TasksInv, TasksTyped
  <2>2. c # x /\ phase[c] \in Looping
    BY <2>1 DEF Base, TasksInv, TasksTyped
  <2>3. lobby_session_id[x] # lobby_session_id[c]
    BY <2>2 DEF Base, TasksInv, OwnSessions, SendersInPlay, SendersInstalled
  <2> QED
    BY <2>1, <2>2, <2>3 DEF SendersInstalled, Without, Restrict
<1>3. CASE RegisterInsert(x)
  <2>1. /\ phase' = [phase EXCEPT ![x] = "Rendering"]
        /\ lobby_session_id' = [lobby_session_id EXCEPT ![x] = next_session_id]
        /\ lobby_broadcast_senders' = lobby_broadcast_senders
    BY <1>3 DEF RegisterInsert, At
  <2>2. c # x /\ phase[c] \in Looping /\ lobby_session_id'[c] = lobby_session_id[c]
    BY <2>1 DEF Base, TasksInv, TasksTyped, Looping
  <2> QED
    BY <2>1, <2>2 DEF SendersInstalled
<1>4. CASE \/ RegisterCheck(x) \/ KickIfLobbyFull(x) \/ RenderFails(x) \/ ToggleFlag(x) \/ ToggleView(x)
           \/ PlanJoin(x) \/ Unregister(x) \/ CollectJoin(x) \/ CollectLeave(x) \/ TrySend(x)
           \/ Receive(x) \/ Disconnect(x)
  <2>1. UNCHANGED <<lobby_broadcast_senders, lobby_session_id>>
    BY <1>4 DEF RegisterCheck, KickIfLobbyFull, CheckCapacity, RenderFails, ToggleFlag, ToggleView,
                PlanJoin, Unregister, CollectJoin, CollectLeave, Collect, TrySend, Receive,
                Disconnect, client
  <2>2. phase[c] \in Looping
    <3>1. CASE \/ RegisterCheck(x) \/ KickIfLobbyFull(x) \/ RenderFails(x) \/ ToggleFlag(x)
               \/ ToggleView(x) \/ PlanJoin(x) \/ Unregister(x)
      BY <3>1 DEF RegisterCheck, KickIfLobbyFull, CheckCapacity, RenderFails, ToggleFlag, ToggleView,
                  PlanJoin, Unregister, At, Looping, Base, TasksInv, TasksTyped
    <3>2. CASE CollectJoin(x) \/ CollectLeave(x) \/ TrySend(x) \/ Receive(x) \/ Disconnect(x)
      BY <3>2 DEF CollectJoin, CollectLeave, Collect, TrySend, Receive, Disconnect, AfterSending, At,
                  Looping, Base, TasksInv, TasksTyped
    <3> QED
      BY <1>4, <3>1, <3>2
  <2> QED
    BY <2>1, <2>2 DEF SendersInstalled
<1> QED
  BY <1>1, <1>2, <1>3, <1>4 DEF Step, Input

(* Whoever is removed has left before the removal is planned, and its      *)
(* entity id is used up.                                                   *)
LEMMA NobodyHereBecomesRemoved ==
  ASSUME Base, EntitiesIssued, DeliveryTyped, NobodyHereIsRemoved, NEW x \in Conn, Step(x) \/ Input(x)
  PROVE  NobodyHereIsRemoved'
<1> HIDE DEF Packets
<1> SUFFICES ASSUME NEW p \in Packets, UnderWay(p)'
             PROVE  /\ p.kind = "RemoveEntity" =>
                         /\ p.entity_id < next_entity_id'
                         /\ \A u \in DOMAIN sessions_by_uuid' :
                              sessions_by_uuid'[u].entity_id # p.entity_id
                    /\ p.kind = "PlayerInfoRemove" =>
                         \E c \in Conn : UuidOf[c] = p.uuid /\ ~Attached(c)'
  BY DEF NobodyHereIsRemoved
<1>1. CASE UnderWay(p)
  <2>1. ASSUME p.kind = "RemoveEntity"
        PROVE  /\ p.entity_id < next_entity_id'
               /\ \A u \in DOMAIN sessions_by_uuid' : sessions_by_uuid'[u].entity_id # p.entity_id
    <3>1. /\ p.entity_id < next_entity_id /\ p.entity_id \in Nat
          /\ \A u \in DOMAIN sessions_by_uuid : sessions_by_uuid[u].entity_id # p.entity_id
      BY <1>1, <2>1 DEF NobodyHereIsRemoved, Packets
    <3>2. next_entity_id <= next_entity_id' /\ next_entity_id \in Nat /\ next_entity_id' \in Nat
      BY EntitiesStayIssued DEF EntitiesIssued
    <3>3. CASE RegisterInsert(x)
      <4>1. /\ DOMAIN sessions_by_uuid' = DOMAIN sessions_by_uuid \cup {UuidOf[x]}
            /\ sessions_by_uuid'[UuidOf[x]].entity_id = next_entity_id
            /\ \A v \in DOMAIN sessions_by_uuid \ {UuidOf[x]} :
                 sessions_by_uuid'[v] = sessions_by_uuid[v]
        BY <3>3, InsertIssues
      <4> QED
        BY <3>1, <3>2, <4>1
    <3>4. CASE ~RegisterInsert(x)
      BY <3>1, <3>2, <3>4, OthersIssueNothing
    <3> QED
      BY <3>3, <3>4
  <2>2. ASSUME p.kind = "PlayerInfoRemove"
        PROVE  \E c \in Conn : UuidOf[c] = p.uuid /\ ~Attached(c)'
    <3>1. PICK c \in Conn : UuidOf[c] = p.uuid /\ ~Attached(c)
      BY <1>1, <2>2 DEF NobodyHereIsRemoved
    <3>2. ~Attached(c)'
      BY <3>1, GoneForGood
    <3> QED
      BY <3>1, <3>2
  <2> QED
    BY <2>1, <2>2
<1>2. CASE ~UnderWay(p)
  <2>1. /\ Here(x)
        /\ \/ PlanJoin(x) /\ p \in Members(SpawnPackets(Info(x)))
           \/ Unregister(x) /\ p \in Members(LeavePackets(Info(x)))
    BY <1>2, OnlyPlansSay
  <2>2. Info(x) \in Infos
    BY <2>1, JoinPlanReaches
  <2>3. CASE p \in Members(SpawnPackets(Info(x)))
    <3>1. p.kind \in {"PlayerInfoAdd", "SpawnPlayer"}
      BY <2>2, <2>3, SpawnPacketsTyped DEF Packet
    <3> QED
      BY <3>1
  <2>4. CASE Unregister(x) /\ p \in Members(LeavePackets(Info(x)))
    <3>1. p.uuid = UuidOf[x] /\ p.entity_id = sessions_by_uuid[UuidOf[x]].entity_id
      BY <2>2, <2>4, SpawnPacketsTyped DEF Packet, Info
    <3>2. ~Attached(x)'
      BY <2>4 DEF Unregister, At, Attached, Base, TasksInv, TasksTyped
    <3>3. /\ next_entity_id' = next_entity_id
          /\ DOMAIN sessions_by_uuid' \subseteq DOMAIN sessions_by_uuid
          /\ \A v \in DOMAIN sessions_by_uuid' :
               sessions_by_uuid'[v].entity_id = sessions_by_uuid[v].entity_id
          /\ UuidOf[x] \notin DOMAIN sessions_by_uuid'
      <4>1. EndSession(x) /\ ~RegisterInsert(x)
        BY <2>4 DEF Unregister, RegisterInsert, At
      <4>2. Registered(x) /\ session_to_uuid[lobby_session_id[x]] = UuidOf[x]
        BY <2>1, RegisteredIsHere DEF Base, TasksInv, OwnSessions, Registered, Lobby!KnownSession
      <4>3. UuidOf[x] \notin DOMAIN sessions_by_uuid'
        BY <4>1, <4>2, EndSessionEffect DEF Base, Registered, Lobby!KnownSession
      <4> QED
        BY <4>1, <4>3, OthersIssueNothing
    <3> QED
      BY <2>1, <3>1, <3>2, <3>3 DEF EntitiesIssued, Here
  <2> QED
    BY <2>1, <2>3, <2>4
<1> QED
  BY <1>1, <1>2

-------------------------------------------------------------------------------
(* Every player is shown, or the packet that shows it is coming *)

(* Two connections of one account cannot both be in the lobby, but each    *)
(* departure takes the account off the tab lists: a statement about tab    *)
(* lists needs accounts that connect once.                                 *)
OneEach == \A c, d \in Conn : UuidOf[c] = UuidOf[d] => c = d
Kinds == {k \in {"PlayerInfoAdd", "SpawnPlayer"} : k = "PlayerInfoAdd" => OneEach}

Holds(v, kind, info) ==
  IF kind = "SpawnPlayer" THEN info.entity_id \in v.entities ELSE info.uuid \in v.tab_list

Joined == {"CollectingJoin", "Announcing", "Play", "Toggling"}
Sees(c, d) ==
  /\ c # d /\ phase[c] \in Joined /\ phase[d] \in Joined
  /\ Here(c) /\ Here(d) /\ players_visible[c]

(* The packet is in the queue of c, or c is about to read it from the      *)
(* registry, or has, or d has planned to send it, or is sending it.        *)
Coming(c, d, kind) ==
  \/ Holds(view[c], kind, Info(d))
  \/ Packet(kind, Info(d)) \in Members(queue[c])
  \/ phase[c] = "Toggling"
  \/ phase[c] = "CollectingJoin" /\ Info(d) \in plan[c].existing
  \/ /\ phase[d] = "CollectingJoin"
     /\ lobby_session_id[c] \in plan[d].recipients
     /\ Packet(kind, Info(d)) \in Members(plan[d].packets)
  \/ \E i \in DOMAIN outbox[d] :
       outbox[d][i].to = c /\ Packet(kind, Info(d)) \in Members(outbox[d][i].packets)

ShownOrComing ==
  \A c, d \in Conn : Sees(c, d) => \A kind \in Kinds : Coming(c, d, kind)

(* A queue has room for what is about to be put into it: the bound on the  *)
(* queues, which the code calls best-effort, drops nothing.                *)
NothingDropped ==
  \A c \in Conn :
    phase[c] \in {"Announcing", "Retracting"} /\ outbox[c] # <<>> /\ Reading(outbox[c][1].to)
      => Len(queue[outbox[c][1].to]) < QueueCapacity

(* A step that leaves two players in the lobby found them there, except    *)
(* for the plan of one of them and the click that shows players again.     *)
LEMMA SeesBefore ==
  ASSUME Base, NEW x \in Conn, Step(x) \/ Input(x), NEW c \in Conn, NEW d \in Conn, Sees(c, d)'
  PROVE  /\ Here(c) /\ Here(d) /\ c # d
         /\ Info(d)' = Info(d) /\ lobby_session_id'[c] = lobby_session_id[c]
         /\ \/ Sees(c, d)
            \/ x = c /\ (PlanJoin(x) \/ ToggleFlag(x))
            \/ x = d /\ PlanJoin(x)
<1>1. ~RegisterInsert(x) \/ (x # c /\ x # d)
  BY DEF RegisterInsert, At, Sees, Joined, Base, TasksInv, TasksTyped
<1>2. /\ Here(c) /\ Here(d) /\ c # d
      /\ Info(d)' = Info(d) /\ lobby_session_id'[c] = lobby_session_id[c]
  BY <1>1, IdentityIsKept DEF Sees
<1>3. ASSUME NEW b \in Conn, phase'[b] \in Joined
      PROVE  phase[b] \in Joined \/ (x = b /\ PlanJoin(x))
  <2>1. CASE \/ RegisterCheck(x) \/ RegisterInsert(x) \/ EnterPlay(x) \/ KickIfLobbyFull(x)
             \/ RenderFails(x) \/ RemoveSender(x) \/ ToggleFlag(x) \/ ToggleView(x)
             \/ PlanJoin(x) \/ Unregister(x)
    BY <1>3, <2>1 DEF RegisterCheck, RegisterInsert, EnterPlay, KickIfLobbyFull, CheckCapacity,
                RenderFails, RemoveSender, ToggleFlag, ToggleView, PlanJoin, Unregister, At, Joined,
                Base, TasksInv, TasksTyped
  <2>2. CASE CollectJoin(x) \/ CollectLeave(x) \/ TrySend(x) \/ Receive(x) \/ Disconnect(x)
    BY <1>3, <2>2 DEF CollectJoin, CollectLeave, Collect, TrySend, Receive, Disconnect, AfterSending,
                At, Joined, Base, TasksInv, TasksTyped
  <2> QED
    BY <2>1, <2>2 DEF Step, Input
<1>4. players_visible'[c] => players_visible[c] \/ (x = c /\ ToggleFlag(x))
  BY DEF Step, Input, Unregister, ToggleFlag, RegisterCheck, KickIfLobbyFull,
         CheckCapacity, EnterPlay, PlanJoin, CollectJoin, CollectLeave, Collect, TrySend,
         Receive, ToggleView, RemoveSender, RenderFails, Disconnect, client, RegisterInsert,
         Base, TasksInv, TasksTyped
<1> QED
  BY <1>2, <1>3, <1>4 DEF Sees

(* The step of a third task. *)
LEMMA OthersKeepComing ==
  ASSUME Base, DeliveryTyped, NEW x \in Conn, Step(x) \/ Input(x),
         NEW c \in Conn \ {x}, NEW d \in Conn \ {x}, Sees(c, d)', Sees(c, d),
         NEW kind \in Kinds, Coming(c, d, kind)
  PROVE  Coming(c, d, kind)'
<1> DEFINE p == Packet(kind, Info(d))
<1>1. Info(d)' = Info(d) /\ lobby_session_id'[c] = lobby_session_id[c] /\ p' = p
  BY SeesBefore DEF Packet
<1>2. /\ phase'[c] = phase[c] /\ phase'[d] = phase[d]
      /\ view'[c] = view[c] /\ plan'[c] = plan[c] /\ plan'[d] = plan[d] /\ outbox'[d] = outbox[d]
  BY OthersKeepTheirs
<1>3. Members(queue[c]) \subseteq Members(queue'[c])
  BY QueuesGrow
<1> HIDE DEF p
<1> QED
  BY <1>1, <1>2, <1>3 DEF Coming, p

(* What the one who is to see does. *)
LEMMA ViewersKeepComing ==
  ASSUME Base, DeliveryInv, NEW x \in Conn, Step(x) \/ Input(x),
         NEW d \in Conn, Sees(x, d)', NEW kind \in Kinds, Sees(x, d) => Coming(x, d, kind)
  PROVE  Coming(x, d, kind)'
<1> DEFINE p == Packet(kind, Info(d))
<1>1. /\ Here(x) /\ Here(d) /\ x # d /\ Info(d)' = Info(d) /\ p' = p
      /\ lobby_session_id'[x] = lobby_session_id[x]
      /\ Sees(x, d) \/ PlanJoin(x) \/ ToggleFlag(x)
  BY SeesBefore DEF Packet
<1>2. phase'[d] = phase[d] /\ plan'[d] = plan[d] /\ outbox'[d] = outbox[d]
  BY <1>1, OthersKeepTheirs DEF DeliveryInv
<1>3. Info(d) \in Infos /\ kind \in {"PlayerInfoAdd", "SpawnPlayer"}
  BY <1>1, JoinPlanReaches DEF DeliveryInv, Kinds
<1>4. /\ p \in Packets /\ p.kind = kind /\ p.uuid = UuidOf[d]
      /\ p.entity_id = Info(d).entity_id /\ Info(d).uuid = UuidOf[d]
  BY <1>3 DEF Packet, Packets, Infos, Info
<1>5. ~(Receive(x) \/ Disconnect(x)) => Members(queue[x]) \subseteq Members(queue'[x])
  BY QueuesGrow DEF DeliveryInv
<1>6. phase'[x] \in Joined /\ players_visible'[x]
  BY DEF Sees
<1> HIDE DEF p, Packets
<1>7. CASE PlanJoin(x)
  <2>1. Registered(x) /\ phase'[x] = "CollectingJoin" /\ plan'[x] = JoinPlan(x)
    BY <1>1, <1>7, RegisteredIsHere
       DEF PlanJoin, At, Base, TasksInv, TasksTyped, DeliveryInv, DeliveryTyped
  <2>2. Info(d) \in plan'[x].existing
    BY <1>1, <2>1, JoinPlanReaches DEF DeliveryInv
  <2> QED
    BY <1>1, <2>1, <2>2 DEF Coming
<1>8. CASE ToggleFlag(x)
  BY <1>8 DEF ToggleFlag, At, Coming, Base, TasksInv, TasksTyped
<1>9. CASE CollectJoin(x)
  <2>1. phase[x] = "CollectingJoin" /\ view'[x] = WithPlayers(view[x], plan[x].existing)
    BY <1>9 DEF CollectJoin, Collect, At, DeliveryInv, DeliveryTyped
  <2>2. Sees(x, d)
    BY <1>1, <1>9, <2>1 DEF PlanJoin, ToggleFlag, At
  <2>3. Coming(x, d, kind) /\ ~PlanJoin(x) /\ ~Receive(x) /\ ~Disconnect(x)
    BY <1>6, <2>1, <2>2 DEF PlanJoin, Receive, Disconnect, At, Joined, Base, TasksInv, TasksTyped
  <2>4. Holds(view[x], kind, Info(d)) \/ Info(d) \in plan[x].existing
          => Holds(view'[x], kind, Info(d))
    BY <2>1 DEF Holds, WithPlayers
  <2> QED
    BY <1>1, <1>2, <1>5, <2>1, <2>3, <2>4 DEF Coming, p
<1>10. CASE ToggleView(x)
  <2>1. players_visible[x] /\ Registered(x)
    BY <1>1, <1>6, <1>10, RegisteredIsHere DEF ToggleView, client
  <2>2. view'[x] = WithPlayers(view[x], Lobby!ExistingSessions(lobby_session_id[x]))
    BY <1>10, <2>1 DEF ToggleView, DeliveryInv, DeliveryTyped
  <2>3. Info(d) \in Lobby!ExistingSessions(lobby_session_id[x])
    BY <1>1, JoinPlanReaches DEF DeliveryInv, JoinPlan
  <2>4. Holds(view'[x], kind, Info(d))
    BY <2>2, <2>3 DEF Holds, WithPlayers
  <2> QED
    BY <1>1, <2>4 DEF Coming
<1>11. CASE Receive(x)
  <2>1. /\ phase[x] = "Play" /\ UNCHANGED phase /\ queue[x] # <<>> /\ queue[x] \in Seq(Packets)
        /\ queue'[x] = Tail(queue[x]) /\ view'[x] = Shown(view[x], queue[x][1])
    BY <1>11 DEF Receive, DeliveryInv, DeliveryTyped
  <2> DEFINE q == queue[x][1]
  <2>2. q \in Packets /\ Members(queue[x]) = Members(queue'[x]) \cup {q}
    <3>1. q \in Packets /\ Members(queue[x]) = Members(Tail(queue[x])) \cup {q}
      BY <2>1, MembersTail
    <3>2. Members(queue'[x]) = Members(Tail(queue[x]))
      BY <2>1
    <3> QED
      BY <3>1, <3>2
  <2>3. Sees(x, d) /\ Coming(x, d, kind)
    BY <1>1, <2>1 DEF PlanJoin, ToggleFlag, At, Base, TasksInv, TasksTyped
  <2>4. UnderWay(q)
    BY <2>2 DEF UnderWay
  <2>5. q.kind = "RemoveEntity" => q.entity_id # Info(d).entity_id
    BY <1>1, <2>2, <2>4 DEF DeliveryInv, NobodyHereIsRemoved, Here, Info
  <2>6. q.kind = "PlayerInfoRemove" /\ kind = "PlayerInfoAdd" => q.uuid # Info(d).uuid
    <3> SUFFICES ASSUME q.kind = "PlayerInfoRemove", kind = "PlayerInfoAdd", q.uuid = UuidOf[d]
                 PROVE  FALSE
      BY <1>4
    <3>1. PICK b \in Conn : UuidOf[b] = UuidOf[d] /\ ~Attached(b)
      BY <2>2, <2>4 DEF DeliveryInv, NobodyHereIsRemoved
    <3>2. b = d
      BY <3>1 DEF Kinds, OneEach
    <3> QED
      BY <2>3, <3>1, <3>2 DEF Sees, Joined, Attached
  <2> HIDE DEF q
  <2>7. Holds(view[x], kind, Info(d)) => Holds(view'[x], kind, Info(d))
    BY <1>3, <2>1, <2>5, <2>6 DEF Holds, Shown, q
  <2>8. q = p => Holds(view'[x], kind, Info(d))
    BY <1>3, <1>4, <2>1 DEF Holds, Shown, q
  <2> QED
    BY <1>1, <1>2, <2>1, <2>2, <2>3, <2>7, <2>8 DEF Coming, p
<1>12. CASE TrySend(x)
  <2>1. view' = view /\ phase[x] \in {"Announcing", "Retracting"}
    BY <1>12 DEF TrySend
  <2>2. Sees(x, d) /\ Coming(x, d, kind) /\ ~Receive(x) /\ ~Disconnect(x)
    BY <1>1, <2>1 DEF PlanJoin, ToggleFlag, Receive, Disconnect, At
  <2> QED
    BY <1>1, <1>2, <1>5, <2>1, <2>2 DEF Coming, p
<1>13. CASE \/ RegisterCheck(x) \/ RegisterInsert(x) \/ EnterPlay(x) \/ KickIfLobbyFull(x)
            \/ RenderFails(x) \/ RemoveSender(x) \/ Unregister(x) \/ CollectLeave(x) \/ Disconnect(x)
  BY <1>6, <1>13 DEF RegisterCheck, RegisterInsert, EnterPlay, KickIfLobbyFull, CheckCapacity,
         RenderFails, RemoveSender, Unregister, CollectLeave, Collect, Disconnect, AfterSending, At,
         Joined, Base, TasksInv, TasksTyped
<1> QED
  BY <1>7, <1>8, <1>9, <1>10, <1>11, <1>12, <1>13 DEF Step, Input

(* What the one who is to be seen does. *)
LEMMA NewcomersKeepComing ==
  ASSUME Base, DeliveryInv, NothingDropped, NEW x \in Conn, Step(x) \/ Input(x),
         NEW c \in Conn, Sees(c, x)', NEW kind \in Kinds, Sees(c, x) => Coming(c, x, kind)
  PROVE  Coming(c, x, kind)'
<1> DEFINE p == Packet(kind, Info(x))
<1>1. /\ Here(c) /\ Here(x) /\ x # c /\ Info(x)' = Info(x) /\ p' = p
      /\ lobby_session_id'[c] = lobby_session_id[c]
      /\ Sees(c, x) \/ PlanJoin(x)
  BY SeesBefore DEF Packet
<1>2. phase'[c] = phase[c] /\ plan'[c] = plan[c] /\ view'[c] = view[c]
      /\ players_visible'[c] = players_visible[c]
  BY <1>1, OthersKeepTheirs DEF DeliveryInv
<1>3. Info(x) \in Infos /\ kind \in {"PlayerInfoAdd", "SpawnPlayer"}
  BY <1>1, JoinPlanReaches DEF DeliveryInv, Kinds
<1>4. Members(queue[c]) \subseteq Members(queue'[c])
  BY <1>1, QueuesGrow DEF DeliveryInv
<1>5. phase'[x] \in Joined /\ phase'[c] \in Joined /\ players_visible'[c]
  BY DEF Sees
<1> HIDE DEF p, Packets, PacketBatch
<1>6. CASE PlanJoin(x)
  <2>1. Registered(x) /\ phase'[x] = "CollectingJoin" /\ plan'[x] = JoinPlan(x)
    BY <1>1, <1>6, RegisteredIsHere
       DEF PlanJoin, At, Base, TasksInv, TasksTyped, DeliveryInv, DeliveryTyped
  <2>2. lobby_session_id[c] \in plan'[x].recipients
    BY <1>1, <1>2, <1>5, <2>1, JoinPlanReaches DEF DeliveryInv
  <2>3. p \in Members(plan'[x].packets)
    BY <1>1, <1>3, <2>1, JoinPlanReaches, SpawnPacketsTyped DEF DeliveryInv, p
  <2> QED
    BY <1>1, <2>1, <2>2, <2>3 DEF Coming, p
<1>7. CASE CollectJoin(x)
  <2>1. phase[x] = "CollectingJoin" /\ Collect(x, "CollectingJoin", "Announcing")
    BY <1>7 DEF CollectJoin, Collect, At
  <2>2. Sees(c, x) /\ Coming(c, x, kind)
    BY <1>1, <2>1 DEF PlanJoin, At
  <2>3. outbox[x] = <<>>
    BY <2>1 DEF DeliveryInv, DeliveryTyped
  <2>4. ASSUME lobby_session_id[c] \in plan[x].recipients, p \in Members(plan[x].packets)
        PROVE  \E i \in DOMAIN outbox'[x] :
                 outbox'[x][i].to = c /\ p \in Members(outbox'[x][i].packets)
    <3>1. c \in Senders(plan[x].recipients)
      <4>1. phase[c] \in Looping
        BY <1>2, <1>5 DEF Joined, Looping
      <4> QED
        BY <2>4, <4>1 DEF DeliveryInv, SendersInstalled, Senders
    <3>2. PICK i \in DOMAIN outbox'[x] : outbox'[x][i].to = c
      BY <2>1, <3>1, CollectFills DEF DeliveryInv
    <3>3. outbox'[x][i].packets = plan[x].packets
      BY <2>1, CollectFills DEF DeliveryInv
    <3> QED
      BY <2>4, <3>2, <3>3
  <2>5. \/ Holds(view[c], kind, Info(x))
        \/ p \in Members(queue[c])
        \/ phase[c] = "Toggling"
        \/ phase[c] = "CollectingJoin" /\ Info(x) \in plan[c].existing
        \/ lobby_session_id[c] \in plan[x].recipients /\ p \in Members(plan[x].packets)
    BY <2>2, <2>3 DEF Coming, p
  <2> QED
    BY <1>1, <1>2, <1>4, <2>4, <2>5 DEF Coming, p
<1>8. CASE TrySend(x)
  <2> DEFINE b == outbox[x]
             to == b[1].to
             q == b[1].packets[1]
  <2>1. /\ phase[x] \in {"Announcing", "Retracting"} /\ b # <<>> /\ b \in Seq(PacketBatch)
        /\ outbox'[x] = AfterFirst(b) /\ plan'[x] = plan[x]
    BY <1>8 DEF TrySend, DeliveryInv, DeliveryTyped
  <2>2. Sees(c, x) /\ Coming(c, x, kind)
    BY <1>1, <2>1 DEF PlanJoin, At
  <2>3. /\ b[1] \in PacketBatch /\ q \in Packets
        /\ \A j \in DOMAIN b : \A r \in Members(b[j].packets) :
             \/ j = 1 /\ r = q
             \/ \E i \in DOMAIN AfterFirst(b) :
                  AfterFirst(b)[i].to = b[j].to /\ r \in Members(AfterFirst(b)[i].packets)
    BY <2>1, AfterFirstLeaves
  <2>4. ASSUME to = c PROVE q \in Members(queue'[c])
    <3>1. Reading(c)
      BY <1>2, <1>5 DEF Reading, Joined
    <3>2. Len(queue[c]) < QueueCapacity
      BY <2>1, <2>4, <3>1 DEF NothingDropped
    <3>3. queue' = [queue EXCEPT ![c] = Append(queue[c], q)]
      BY <1>8, <2>4, <3>1, <3>2 DEF TrySend
    <3>4. queue'[c] = Append(queue[c], q) /\ queue[c] \in Seq(Packets)
      BY <3>3 DEF DeliveryInv, DeliveryTyped
    <3>5. Members(Append(queue[c], q)) = Members(queue[c]) \cup {q}
      BY <2>3, <3>4, MembersAppend
    <3> QED
      BY <3>4, <3>5, Zenon
  <2> HIDE DEF b, to, q
  <2>5. ASSUME NEW j \in DOMAIN b, b[j].to = c, p \in Members(b[j].packets)
        PROVE  \/ p \in Members(queue'[c])
               \/ \E i \in DOMAIN outbox'[x] :
                    outbox'[x][i].to = c /\ p \in Members(outbox'[x][i].packets)
    <3>1. CASE j = 1 /\ p = q
      BY <2>4, <2>5, <3>1 DEF to
    <3>2. CASE ~(j = 1 /\ p = q)
      BY <2>1, <2>3, <2>5, <3>2
    <3> QED
      BY <3>1, <3>2
  <2>6. \/ Holds(view[c], kind, Info(x))
        \/ p \in Members(queue[c])
        \/ phase[c] = "Toggling"
        \/ phase[c] = "CollectingJoin" /\ Info(x) \in plan[c].existing
        \/ \E j \in DOMAIN b : b[j].to = c /\ p \in Members(b[j].packets)
    BY <2>1, <2>2 DEF Coming, p, b
  <2> QED
    BY <1>1, <1>2, <1>4, <2>5, <2>6 DEF Coming, p
<1>9. CASE Receive(x) \/ ToggleFlag(x) \/ ToggleView(x)
  <2>1. phase[x] \in {"Play", "Toggling"} /\ UNCHANGED <<plan, outbox>>
    BY <1>9 DEF Receive, ToggleFlag, ToggleView, At, delivery
  <2>2. Sees(c, x) /\ Coming(c, x, kind)
    BY <1>1, <2>1 DEF PlanJoin, At
  <2> QED
    BY <1>1, <1>2, <1>4, <2>1, <2>2 DEF Coming, p
<1>10. CASE \/ RegisterCheck(x) \/ RegisterInsert(x) \/ EnterPlay(x) \/ KickIfLobbyFull(x)
            \/ RenderFails(x) \/ RemoveSender(x) \/ Unregister(x) \/ CollectLeave(x) \/ Disconnect(x)
  BY <1>5, <1>10 DEF RegisterCheck, RegisterInsert, EnterPlay, KickIfLobbyFull, CheckCapacity,
         RenderFails, RemoveSender, Unregister, CollectLeave, Collect, Disconnect, AfterSending, At,
         Joined, Base, TasksInv, TasksTyped
<1> QED
  BY <1>6, <1>7, <1>8, <1>9, <1>10 DEF Step, Input

-------------------------------------------------------------------------------
(* The invariant, and what it says of players in play *)

ShownInv == DeliveryInv /\ ShownOrComing

(* Nobody is in play at first.                                             *)
LEMMA InitShownInv == Init => ShownInv
<1> SUFFICES ASSUME Init PROVE ShownInv
  OBVIOUS
<1>1. DeliveryTyped
  BY DEF Init, DeliveryTyped, NoPlan, EmptyView
<1>2. EntitiesIssued /\ SendersInstalled
  BY LobbyConnectionsAssumption
     DEF Init, EntitiesIssued, SendersInstalled, Looping, Lobby!Init, Lobby!FirstPlayerId,
         Lobby!EmptyMap
<1>3. NobodyHereIsRemoved
  BY DEF Init, NobodyHereIsRemoved, UnderWay, Members, NoPlan
<1>4. ShownOrComing
  BY DEF Init, ShownOrComing, Sees, Joined
<1> QED
  BY <1>1, <1>2, <1>3, <1>4 DEF ShownInv, DeliveryInv

(* No step takes a packet away that somebody needs, if none is dropped.    *)
LEMMA NextShownInv == Base /\ ShownInv /\ NothingDropped /\ [Next]_vars => ShownInv'
<1> SUFFICES ASSUME Base, ShownInv, NothingDropped, [Next]_vars PROVE ShownInv'
  OBVIOUS
<1>1. ASSUME NEW x \in Conn, Step(x) \/ Input(x) PROVE ShownInv'
  <2>1. DeliveryInv'
    BY <1>1, DeliveryStaysTyped, EntitiesStayIssued, SendersStayInstalled, NobodyHereBecomesRemoved
       DEF ShownInv, DeliveryInv
  <2>2. ASSUME NEW c \in Conn, NEW d \in Conn, Sees(c, d)', NEW kind \in Kinds
        PROVE  Coming(c, d, kind)'
    <3>1. Sees(c, d) => Coming(c, d, kind)
      BY DEF ShownInv, ShownOrComing
    <3>2. CASE x = c
      BY <1>1, <2>2, <3>1, <3>2, ViewersKeepComing DEF ShownInv
    <3>3. CASE x = d
      BY <1>1, <2>2, <3>1, <3>3, NewcomersKeepComing DEF ShownInv
    <3>4. CASE x # c /\ x # d
      <4>1. Sees(c, d)
        BY <1>1, <2>2, <3>4, SeesBefore
      <4> QED
        BY <1>1, <2>2, <3>1, <3>4, <4>1, OthersKeepComing DEF ShownInv, DeliveryInv
    <3> QED
      BY <3>2, <3>3, <3>4
  <2> QED
    BY <2>1, <2>2 DEF ShownInv, ShownOrComing, Kinds, OneEach
<1>2. CASE UNCHANGED vars
  <2>1. UNCHANGED <<next_entity_id, sessions_by_uuid, lobby_broadcast_senders, phase,
                    lobby_session_id, players_visible, plan, outbox, queue, view>>
    BY <1>2 DEF vars, lobby, client, delivery
  <2> QED
    BY <2>1 DEF ShownInv, DeliveryInv, DeliveryTyped, EntitiesIssued, SendersInstalled,
                NobodyHereIsRemoved, UnderWay, Attached, ShownOrComing, Sees, Coming, Here, Info
<1> QED
  BY <1>1, <1>2 DEF Next

(* Of two players in play, only the queue is between them.                 *)
LEMMA InPlayIsComing ==
  ASSUME Base, ShownInv, NEW c \in Conn, NEW d \in Conn,
         c # d, InPlay(c), InPlay(d), players_visible[c], NEW kind \in Kinds
  PROVE  /\ InfoOf(d) \in Infos /\ InfoOf(d).uuid = UuidOf[d]
         /\ \/ Holds(view[c], kind, InfoOf(d))
            \/ Packet(kind, InfoOf(d)) \in Members(queue[c])
         /\ \A j \in 1..Len(queue[c]) :
              /\ queue[c][j] \in Packets
              /\ queue[c][j].kind = "RemoveEntity" =>
                   queue[c][j].entity_id # InfoOf(d).entity_id
              /\ queue[c][j].kind = "PlayerInfoRemove" /\ OneEach =>
                   queue[c][j].uuid # InfoOf(d).uuid
<1> HIDE DEF Packets
<1>1. Here(c) /\ Here(d) /\ InfoOf(d) = Info(d) /\ Sees(c, d)
  BY RegisteredIsHere DEF InPlay, Sees, Joined
<1>2. InfoOf(d) \in Infos /\ InfoOf(d).uuid = UuidOf[d]
  BY <1>1, JoinPlanReaches DEF ShownInv, DeliveryInv, Info
<1>3. Holds(view[c], kind, InfoOf(d)) \/ Packet(kind, InfoOf(d)) \in Members(queue[c])
  <2>1. outbox[d] = <<>> /\ phase[c] = "Play" /\ phase[d] = "Play"
    BY DEF InPlay, ShownInv, DeliveryInv, DeliveryTyped
  <2> QED
    BY <1>1, <2>1 DEF ShownInv, ShownOrComing, Coming
<1>4. ASSUME NEW j \in 1..Len(queue[c])
      PROVE  /\ queue[c][j] \in Packets
             /\ queue[c][j].kind = "RemoveEntity" =>
                  queue[c][j].entity_id # InfoOf(d).entity_id
             /\ queue[c][j].kind = "PlayerInfoRemove" /\ OneEach =>
                  queue[c][j].uuid # InfoOf(d).uuid
  <2> DEFINE q == queue[c][j]
  <2>1. queue[c] \in Seq(Packets)
    BY DEF ShownInv, DeliveryInv, DeliveryTyped
  <2>2. q \in Packets /\ UnderWay(q)
    BY <2>1 DEF UnderWay, Members
  <2> HIDE DEF q
  <2>3. q.kind = "RemoveEntity" => q.entity_id # InfoOf(d).entity_id
    BY <1>1, <2>2 DEF ShownInv, DeliveryInv, NobodyHereIsRemoved, Here, Info
  <2>4. ASSUME q.kind = "PlayerInfoRemove", OneEach, q.uuid = UuidOf[d] PROVE FALSE
    <3>1. PICK b \in Conn : UuidOf[b] = UuidOf[d] /\ ~Attached(b)
      BY <2>2, <2>4 DEF ShownInv, DeliveryInv, NobodyHereIsRemoved
    <3> QED
      BY <2>4, <3>1 DEF OneEach, InPlay, Attached
  <2> QED
    BY <1>2, <2>2, <2>3, <2>4 DEF q
<1> QED
  BY <1>2, <1>3, <1>4

(* However joins, departures and clicks of any number of connections       *)
(* interleave, two players in play are drawn on each other's screens, or   *)
(* will be once the queue is drained - provided no queue overflows.        *)
LEMMA ShownWhenDrained == Base /\ ShownInv => PlayersAreShown
<1> SUFFICES ASSUME Base, ShownInv, NEW c \in Conn, NEW d \in Conn,
                    c # d, InPlay(c), InPlay(d), players_visible[c]
             PROVE  InfoOf(d).entity_id \in Settled(c).entities
  BY DEF PlayersAreShown
<1> DEFINE e == InfoOf(d).entity_id
           n == Len(queue[c])
           Removed(i) == {r \in {queue[c][j] : j \in i + 1 .. n} : r.kind = "RemoveEntity"}
           Gone(i) == {q.entity_id : q \in Removed(i)}
<1>1. /\ "SpawnPlayer" \in Kinds
      /\ n \in Nat /\ DOMAIN queue[c] = 1..n
  BY DEF Kinds, ShownInv, DeliveryInv, DeliveryTyped
<1>2. \A j \in 1..n : queue[c][j].kind = "RemoveEntity" => queue[c][j].entity_id # e
  BY <1>1, InPlayIsComing
<1>3. ASSUME NEW i \in 0..n PROVE e \notin Gone(i)
  BY <1>1, <1>2
<1>4. \/ e \in view[c].entities
      \/ \E i \in 1..n : queue[c][i].kind = "SpawnPlayer" /\ queue[c][i].entity_id = e
  <2>1. \/ Holds(view[c], "SpawnPlayer", InfoOf(d))
        \/ Packet("SpawnPlayer", InfoOf(d)) \in Members(queue[c])
    BY <1>1, InPlayIsComing
  <2> QED
    BY <1>1, <2>1 DEF Holds, Packet, Members
<1> HIDE DEF n, e
<1>5. CASE e \in view[c].entities
  <2>1. 0 \in 0..n
    BY <1>1
  <2> QED
    BY <1>3, <1>5, <2>1 DEF Settled, n, e
<1>6. CASE \E i \in 1..n : queue[c][i].kind = "SpawnPlayer" /\ queue[c][i].entity_id = e
  <2>1. PICK i \in 1..n : queue[c][i].kind = "SpawnPlayer" /\ queue[c][i].entity_id = e
    BY <1>6
  <2>2. i \in 0..n /\ i # 0
    BY <1>1
  <2> QED
    BY <1>3, <2>1, <2>2 DEF Settled, n, e
<1> QED
  BY <1>4, <1>5, <1>6

(* The same of the tab list, if every account connects once.               *)
LEMMA ListedWhenDrained == OneEach /\ Base /\ ShownInv => PlayersAreListed
<1> SUFFICES ASSUME OneEach, Base, ShownInv, NEW c \in Conn, NEW d \in Conn,
                    c # d, InPlay(c), InPlay(d), players_visible[c]
             PROVE  InfoOf(d).uuid \in Settled(c).tab_list
  BY DEF PlayersAreListed
<1> DEFINE u == InfoOf(d).uuid
           n == Len(queue[c])
           Removed(i) == {r \in {queue[c][j] : j \in i + 1 .. n} : r.kind = "PlayerInfoRemove"}
           Gone(i) == {q.uuid : q \in Removed(i)}
<1>1. /\ "PlayerInfoAdd" \in Kinds
      /\ n \in Nat /\ DOMAIN queue[c] = 1..n
  BY DEF Kinds, ShownInv, DeliveryInv, DeliveryTyped
<1>2. \A j \in 1..n : queue[c][j].kind = "PlayerInfoRemove" => queue[c][j].uuid # u
  BY <1>1, InPlayIsComing
<1>3. ASSUME NEW i \in 0..n PROVE u \notin Gone(i)
  BY <1>1, <1>2
<1>4. \/ u \in view[c].tab_list
      \/ \E i \in 1..n : queue[c][i].kind = "PlayerInfoAdd" /\ queue[c][i].uuid = u
  <2>1. \/ Holds(view[c], "PlayerInfoAdd", InfoOf(d))
        \/ Packet("PlayerInfoAdd", InfoOf(d)) \in Members(queue[c])
    BY <1>1, InPlayIsComing
  <2> QED
    BY <1>1, <2>1 DEF Holds, Packet, Members
<1> HIDE DEF n, u
<1>5. CASE u \in view[c].tab_list
  <2>1. 0 \in 0..n
    BY <1>1
  <2> QED
    BY <1>3, <1>5, <2>1 DEF Settled, n, u
<1>6. CASE \E i \in 1..n : queue[c][i].kind = "PlayerInfoAdd" /\ queue[c][i].uuid = u
  <2>1. PICK i \in 1..n : queue[c][i].kind = "PlayerInfoAdd" /\ queue[c][i].uuid = u
    BY <1>6
  <2>2. i \in 0..n /\ i # 0
    BY <1>1
  <2> QED
    BY <1>3, <2>1, <2>2 DEF Settled, n, u
<1> QED
  BY <1>4, <1>5, <1>6

(* Nothing that was dropped from a full queue is missed: with room in the  *)
(* queues, every interleaving of joins, clicks and departures shows every  *)
(* two players in play to each other.                                      *)
THEOREM PlayersAreAlwaysShown == Spec /\ []NothingDropped => []PlayersAreShown
<1>1. RegistryFacts /\ TasksInv => Base
  BY DEF Base
<1> QED
  BY <1>1, InitShownInv, NextShownInv, ShownWhenDrained, RegistryHolds, TasksInvariance, PTL DEF Spec

(* And lists them in each other's tab lists, if accounts connect once: a   *)
(* connection replaced by another of its account takes the account off     *)
(* the tab lists when it ends, whoever uses it by then.                    *)
THEOREM PlayersAreAlwaysListed ==
  ASSUME OneEach
  PROVE  Spec /\ []NothingDropped => []PlayersAreListed
<1>1. RegistryFacts /\ TasksInv => Base
  BY DEF Base
<1>2. Base /\ ShownInv => PlayersAreListed
  BY OneEach, ListedWhenDrained
<1> QED
  BY <1>1, <1>2, InitShownInv, NextShownInv, RegistryHolds, TasksInvariance, PTL DEF Spec

-------------------------------------------------------------------------------
(* Nobody who has left lasts on a screen *)

(* A click hides players whose removal is then not sent, and a rendering   *)
(* that fails leaves a registration that is replaced without a word: both  *)
(* leave players on screens, so the statement is about behaviours without. *)
Undisturbed == \A c \in Conn : ~ToggleFlag(c) /\ ~RenderFails(c)

BothKinds == {"PlayerInfoAdd", "SpawnPlayer"}
Undo(kind) == IF kind = "SpawnPlayer" THEN "RemoveEntity" ELSE "PlayerInfoRemove"
ValueOf(kind, info) == IF kind = "SpawnPlayer" THEN info.entity_id ELSE info.uuid
ShownIn(v, kind) == IF kind = "SpawnPlayer" THEN v.entities ELSE v.tab_list
Starts(p, kind, value) == p.kind = kind /\ ValueOf(kind, p) = value
Ends(p, kind, value) == p.kind = Undo(kind) /\ ValueOf(kind, p) = value

(* The screen of c shows it once the queue is drained, with the players it *)
(* is about to read from its plan.                                         *)
Lasts(c, kind, value) ==
  \/ /\ \/ value \in ShownIn(view[c], kind)
        \/ \E info \in plan[c].existing : ValueOf(kind, info) = value
     /\ \A j \in DOMAIN queue[c] : ~Ends(queue[c][j], kind, value)
  \/ \E i \in DOMAIN queue[c] :
       /\ Starts(queue[c][i], kind, value)
       /\ \A j \in DOMAIN queue[c] : j > i => ~Ends(queue[c][j], kind, value)

Lives(kind, value) == \E b \in Conn : Here(b) /\ ValueOf(kind, Info(b)) = value

(* d has planned to take it off the screen of c, or is sending the packet. *)
RetractedBy(d, c, kind, value) ==
  \/ /\ lobby_session_id[c] \in plan[d].recipients
     /\ \E p \in Members(plan[d].packets) : Ends(p, kind, value)
  \/ \E i \in DOMAIN outbox[d] :
       outbox[d][i].to = c /\ \E p \in Members(outbox[d][i].packets) : Ends(p, kind, value)

Justified(c, kind, value) ==
  Lives(kind, value) \/ \E d \in Conn : RetractedBy(d, c, kind, value)

OnlyTheLivingLast ==
  \A c \in Conn : phase[c] \in Looping /\ Here(c) =>
    \A kind \in BothKinds, value \in Nat \cup Accounts :
      Lasts(c, kind, value) => Justified(c, kind, value)

(* What it rests on.  Before its registration a connection has no session; *)
(* before its first packet in Play nothing is shown to it or sent to it.   *)
Unregistered ==
  \A c \in Conn : phase[c] \in Joining \ {"Rendering"} => lobby_session_id[c] = NoSession

NothingShownYet ==
  \A c \in Conn : phase[c] \in Joining =>
    /\ view[c] = EmptyView /\ queue[c] = <<>> /\ plan[c] = NoPlan
    /\ \A d \in Conn : \A i \in DOMAIN outbox[d] : outbox[d][i].to # c

(* A plan is gone once its packets are being sent.                         *)
PlansUsedUp == \A c \in Conn : phase[c] \in {"Planning", "Announcing", "Play"} => plan[c] = NoPlan

(* Everybody sees players, and a session whose connection ends has been in *)
(* play, so its end is told to everybody.                                  *)
AllVisible ==
  /\ was_in_play_state \in [Conn -> BOOLEAN]
  /\ \A c \in Conn :
       /\ players_visible[c] /\ phase[c] # "Toggling"
       /\ Here(c) /\ phase[c] # "Rendering" => was_in_play_state[c]

(* A task announces itself while it is here and retracts itself after.     *)
Carries(c, p) ==
  \/ p \in Members(plan[c].packets)
  \/ \E i \in DOMAIN outbox[c] : p \in Members(outbox[c][i].packets)

OwnNews ==
  \A c \in Conn : \A p \in Packets : Carries(c, p) =>
    IF p.kind \in BothKinds THEN Attached(c) /\ Here(c) /\ p = Packet(p.kind, Info(c))
                            ELSE ~Attached(c)

Orderly == Unregistered /\ NothingShownYet /\ PlansUsedUp /\ AllVisible /\ OwnNews

(* The steps that are left, and where they lead.                           *)
LEMMA UndisturbedSteps ==
  ASSUME AllVisible, Undisturbed, NEW x \in Conn, Step(x) \/ Input(x)
  PROVE  \/ KickIfLobbyFull(x) \/ RegisterCheck(x) \/ RegisterInsert(x) \/ EnterPlay(x)
         \/ PlanJoin(x) \/ CollectJoin(x) \/ TrySend(x) \/ Receive(x)
         \/ Disconnect(x) \/ Unregister(x) \/ RemoveSender(x) \/ CollectLeave(x)
BY DEF AllVisible, Undisturbed, Step, Input, ToggleView, At

(* Which of them enter and leave the phases in which others are shown.     *)
LEMMA UndisturbedMoves ==
  ASSUME Base, AllVisible, Undisturbed, NEW x \in Conn, Step(x) \/ Input(x)
  PROVE  /\ \A c \in Conn \ {x} : phase'[c] = phase[c]
         /\ phase'[x] \in {"Registering", "Inserting"} => phase[x] \in {"Configuration", "Registering"}
         /\ phase'[x] \notin {"Configuration", "Toggling"}
         /\ phase'[x] = "Rendering" <=> RegisterInsert(x)
         /\ phase[x] = "Rendering" => EnterPlay(x)
         /\ phase'[x] \in Looping <=>
              EnterPlay(x) \/ PlanJoin(x) \/ CollectJoin(x) \/ Receive(x) \/ (TrySend(x) /\ phase[x] = "Announcing")
         /\ phase'[x] = "Planning" <=> EnterPlay(x)
         /\ Attached(x) /\ ~Attached(x)' => Unregister(x)
         /\ was_in_play_state \in [Conn -> BOOLEAN]
         /\ was_in_play_state' = IF EnterPlay(x) THEN [was_in_play_state EXCEPT ![x] = TRUE]
                                 ELSE was_in_play_state
         /\ players_visible' = players_visible
<1>0. phase \in [Conn -> Phase] /\ was_in_play_state \in [Conn -> BOOLEAN]
  BY DEF Base, TasksInv, TasksTyped, AllVisible
<1>1. CASE KickIfLobbyFull(x) \/ RegisterCheck(x) \/ RegisterInsert(x) \/ EnterPlay(x)
  BY <1>0, <1>1 DEF KickIfLobbyFull, RegisterCheck, CheckCapacity, RegisterInsert, EnterPlay, At, client,
     Looping, Attached, PlanJoin, CollectJoin, Collect, Receive, TrySend
<1>2. CASE PlanJoin(x) \/ Receive(x)
  BY <1>0, <1>2 DEF PlanJoin, Receive, At, client, Looping, Attached, RegisterInsert, EnterPlay
<1>4. CASE Disconnect(x)
  <2>1. /\ phase[x] \in {"Configuration", "Planning", "CollectingJoin", "Play"}
        /\ phase' = [phase EXCEPT ![x] = "Leaving"]
        /\ UNCHANGED <<was_in_play_state, players_visible>>
    BY <1>4 DEF Disconnect, At, client
  <2>2. phase'[x] = "Leaving" /\ \A c \in Conn \ {x} : phase'[c] = phase[c]
    BY <1>0, <2>1
  <2>3. /\ ~EnterPlay(x) /\ ~RegisterInsert(x) /\ ~PlanJoin(x) /\ ~CollectJoin(x) /\ ~Receive(x)
        /\ ~(TrySend(x) /\ phase[x] = "Announcing")
    BY <1>0, <2>1, <2>2 DEF EnterPlay, RegisterInsert, PlanJoin, CollectJoin, Collect, Receive, AfterSending, At
  <2> QED
    BY <1>0, <2>1, <2>2, <2>3 DEF Looping, Attached
<1>5. CASE Unregister(x) \/ RemoveSender(x)
  BY <1>0, <1>5 DEF PlanJoin, Receive, Unregister, RemoveSender, At, client, Looping, Attached,
     RegisterInsert, EnterPlay, CollectJoin, Collect, TrySend
<1>3. CASE CollectJoin(x) \/ CollectLeave(x) \/ TrySend(x)
  BY <1>0, <1>3 DEF CollectJoin, CollectLeave, Collect, TrySend, AfterSending, At, client, Looping, Attached,
     RegisterInsert, EnterPlay, PlanJoin, Receive
<1> QED
  BY <1>1, <1>2, <1>3, <1>4, <1>5, UndisturbedSteps

(* Players stay until they unregister.                                     *)
LEMMA PlayersStay ==
  ASSUME OneEach, Base, Orderly, Undisturbed, NEW x \in Conn, Step(x) \/ Input(x),
         NEW b \in Conn, Here(b), b # x \/ ~Unregister(x)
  PROVE  Here(b)' /\ Info(b)' = Info(b) /\ lobby_session_id'[b] = lobby_session_id[b]
<1>0. lobby_session_id[b] # NoSession
  BY RegisteredIsHere
<1>1. CASE RegisterInsert(x)
  <2>1. /\ phase[x] = "Inserting"
        /\ lobby_session_id' = [lobby_session_id EXCEPT ![x] = next_session_id]
    BY <1>1 DEF RegisterInsert, At
  <2>2. b # x
    BY <1>0, <2>1 DEF Orderly, Unregistered, Joining
  <2>3. UuidOf[b] # UuidOf[x]
    BY <2>2 DEF OneEach
  <2>4. sessions_by_uuid'[UuidOf[b]] = sessions_by_uuid[UuidOf[b]] /\ UuidOf[b] \in DOMAIN sessions_by_uuid'
    BY <1>1, <2>3, InsertIssues DEF Here
  <2>5. lobby_session_id'[b] = lobby_session_id[b]
    BY <2>1, <2>2 DEF Base, TasksInv, TasksTyped
  <2> QED
    BY <2>4, <2>5 DEF Here, Info
<1>2. CASE Unregister(x)
  <2>1. EndSession(x) /\ lobby_session_id' = lobby_session_id
    BY <1>2 DEF Unregister, client
  <2>2. lobby_session_id[b] # lobby_session_id[x]
    BY <1>0, <1>2 DEF Base, TasksInv, OwnSessions
  <2>3. /\ UuidOf[b] \in DOMAIN sessions_by_uuid'
        /\ sessions_by_uuid'[UuidOf[b]] = sessions_by_uuid[UuidOf[b]]
    BY <2>1, <2>2, EndSessionEffect DEF Base, Here
  <2> QED
    BY <2>1, <2>3 DEF Here, Info
<1>3. CASE ~RegisterInsert(x) /\ ~Unregister(x)
  <2>1. UNCHANGED <<sessions_by_uuid, lobby_session_id>>
    <3>1. \/ KickIfLobbyFull(x) \/ RegisterCheck(x) \/ EnterPlay(x)
          \/ PlanJoin(x) \/ CollectJoin(x) \/ TrySend(x) \/ Receive(x)
          \/ Disconnect(x) \/ RemoveSender(x) \/ CollectLeave(x)
      BY <1>3, UndisturbedSteps DEF Orderly
    <3> QED
      BY <3>1 DEF KickIfLobbyFull, RegisterCheck, CheckCapacity, EnterPlay, PlanJoin, CollectJoin,
                  TrySend, Receive, Disconnect, RemoveSender, CollectLeave, Collect, lobby, client
  <2> QED
    BY <2>1 DEF Here, Info
<1> QED
  BY <1>1, <1>2, <1>3

(* The simple parts of Orderly. *)
LEMMA SessionsComeWithInsert ==
  ASSUME Base, Unregistered, AllVisible, Undisturbed, NEW x \in Conn, Step(x) \/ Input(x)
  PROVE  Unregistered'
<1> SUFFICES ASSUME NEW c \in Conn, phase'[c] \in Joining \ {"Rendering"}
             PROVE  lobby_session_id'[c] = NoSession
  BY DEF Unregistered
<1>1. phase[c] \in Joining \ {"Rendering"} /\ (c # x \/ ~RegisterInsert(x))
  BY UndisturbedMoves DEF Joining
<1>2. lobby_session_id'[c] = lobby_session_id[c]
  BY <1>1, OthersIssueNothing DEF RegisterInsert, Base, TasksInv, TasksTyped
<1> QED
  BY <1>1, <1>2 DEF Unregistered

(* Whoever is past the render of its play packets is visible.              *)
LEMMA EverybodyStaysVisible ==
  ASSUME Base, Unregistered, AllVisible, Undisturbed, NEW x \in Conn, Step(x) \/ Input(x)
  PROVE  AllVisible'
<1>1. /\ was_in_play_state' \in [Conn -> BOOLEAN] /\ players_visible' = players_visible
      /\ phase'[x] # "Toggling" /\ \A c \in Conn \ {x} : phase'[c] = phase[c]
  BY UndisturbedMoves
<1>2. ASSUME NEW c \in Conn, Here(c)', phase'[c] # "Rendering" PROVE was_in_play_state'[c]
  <2>1. c # x \/ ~RegisterInsert(x)
    BY <1>2, UndisturbedMoves
  <2>2. Here(c)
    BY <1>2, <2>1, IdentityIsKept
  <2>3. CASE phase[c] = "Rendering"
    <3>1. c = x /\ EnterPlay(x)
      BY <1>1, <1>2, <2>3, UndisturbedMoves
    <3> QED
      BY <3>1, UndisturbedMoves
  <2>4. CASE phase[c] # "Rendering"
    BY <2>2, <2>4, UndisturbedMoves DEF AllVisible
  <2> QED
    BY <2>3, <2>4
<1> QED
  BY <1>1, <1>2 DEF AllVisible

(* A task in its loop has written its plan.                                *)
LEMMA PlansStayUsedUp ==
  ASSUME Base, DeliveryTyped, NothingShownYet, PlansUsedUp, AllVisible, Undisturbed,
         NEW x \in Conn, Step(x) \/ Input(x)
  PROVE  PlansUsedUp'
<1> SUFFICES ASSUME NEW c \in Conn, phase'[c] \in {"Planning", "Announcing", "Play"}
             PROVE  plan'[c] = NoPlan
  BY DEF PlansUsedUp
<1>1. CASE c # x
  BY <1>1, OthersKeepTheirs DEF PlansUsedUp
<1>2. CASE c = x
  <2>1. \/ EnterPlay(x) \/ PlanJoin(x) \/ CollectJoin(x) \/ Receive(x)
        \/ (TrySend(x) /\ phase[x] = "Announcing")
    BY <1>2, UndisturbedMoves DEF Looping
  <2>2. CASE EnterPlay(x)
    BY <1>2, <2>2 DEF EnterPlay, At, delivery, NothingShownYet, Joining
  <2>3. CASE PlanJoin(x)
    BY <1>2, <2>3 DEF PlanJoin, At, PlansUsedUp, Base, TasksInv, TasksTyped
  <2>4. CASE CollectJoin(x)
    BY <1>2, <2>4 DEF CollectJoin, Collect, DeliveryTyped
  <2>5. CASE Receive(x) \/ (TrySend(x) /\ phase[x] = "Announcing")
    <3>1. phase[x] \in {"Play", "Announcing"} /\ plan' = plan
      BY <2>5 DEF Receive, TrySend
    <3> QED
      BY <1>2, <3>1 DEF PlansUsedUp
  <2> QED
    BY <2>1, <2>2, <2>3, <2>4, <2>5
<1> QED
  BY <1>1, <1>2

(* Nobody is shown to a client that is not registered yet, and nothing is  *)
(* queued or planned for it.                                               *)
LEMMA NothingIsShownEarly ==
  ASSUME Base, DeliveryTyped, NothingShownYet, AllVisible, Undisturbed,
         NEW x \in Conn, Step(x) \/ Input(x)
  PROVE  NothingShownYet'
<1> HIDE DEF Packets, PacketBatch
<1> SUFFICES ASSUME NEW c \in Conn, phase'[c] \in Joining
             PROVE  /\ view'[c] = EmptyView /\ queue'[c] = <<>> /\ plan'[c] = NoPlan
                    /\ \A d \in Conn : \A i \in DOMAIN outbox'[d] : outbox'[d][i].to # c
  BY DEF NothingShownYet
<1>1. /\ phase[c] \in Joining
      /\ c # x \/ KickIfLobbyFull(x) \/ RegisterCheck(x) \/ RegisterInsert(x)
  <2>1. CASE c # x
    BY <2>1, UndisturbedMoves
  <2>2. CASE c = x
    <3>1. KickIfLobbyFull(x) \/ RegisterCheck(x) \/ RegisterInsert(x)
      <4>1. ~Unregister(x) /\ ~RemoveSender(x)
        BY <2>2 DEF Unregister, RemoveSender, At, Joining, Base, TasksInv, TasksTyped
      <4>2. ~CollectLeave(x) /\ ~Disconnect(x)
        BY <2>2 DEF CollectLeave, Collect, AfterSending, Disconnect, At, Joining, Base, TasksInv, TasksTyped
      <4>3. ~TrySend(x)
        BY <2>2 DEF TrySend, AfterSending, Joining, Base, TasksInv, TasksTyped
      <4>4. ~EnterPlay(x) /\ ~PlanJoin(x) /\ ~CollectJoin(x) /\ ~Receive(x)
        BY <2>2, UndisturbedMoves DEF Joining, Looping
      <4> QED
        BY <4>1, <4>2, <4>3, <4>4, UndisturbedSteps
    <3>2. phase[x] \in Joining
      BY <3>1 DEF KickIfLobbyFull, RegisterCheck, CheckCapacity, RegisterInsert, At, Joining
    <3> QED
      BY <2>2, <3>1, <3>2
  <2> QED
    BY <2>1, <2>2
<1>2. /\ view[c] = EmptyView /\ queue[c] = <<>> /\ plan[c] = NoPlan
      /\ \A d \in Conn : \A i \in DOMAIN outbox[d] : outbox[d][i].to # c
  BY <1>1 DEF NothingShownYet
<1>3. CASE KickIfLobbyFull(x) \/ RegisterCheck(x) \/ RegisterInsert(x)
  <2>1. UNCHANGED delivery
    BY <1>3 DEF KickIfLobbyFull, RegisterCheck, CheckCapacity, RegisterInsert
  <2> QED
    BY <1>2, <2>1 DEF delivery
<1>4. CASE c # x /\ TrySend(x)
  <2>1. /\ outbox[x] # <<>> /\ outbox[x] \in Seq(PacketBatch)
        /\ outbox' = [outbox EXCEPT ![x] = AfterFirst(outbox[x])]
        /\ \/ queue' = queue
           \/ queue' = [queue EXCEPT ![outbox[x][1].to]
                          = Append(queue[outbox[x][1].to], outbox[x][1].packets[1])]
    BY <1>4 DEF TrySend, DeliveryTyped
  <2>2. 1 \in DOMAIN outbox[x]
    BY <2>1
  <2>3. outbox[x][1].to # c
    BY <1>2, <2>2
  <2>4. queue'[c] = <<>>
    <3> DEFINE to == outbox[x][1].to
               longer == Append(queue[to], outbox[x][1].packets[1])
    <3>1. to # c /\ (queue' = queue \/ queue' = [queue EXCEPT ![to] = longer])
      BY <2>1, <2>3
    <3>2. DOMAIN queue = Conn /\ queue[c] = <<>>
      BY <1>2 DEF DeliveryTyped
    <3> HIDE DEF to, longer
    <3>3. queue' = [queue EXCEPT ![to] = longer] => queue'[c] = queue[c]
      BY <3>1, <3>2
    <3> QED
      BY <3>1, <3>2, <3>3
  <2>5. \A i \in DOMAIN AfterFirst(outbox[x]) : AfterFirst(outbox[x])[i].to # c
    <3>1. \A i \in DOMAIN AfterFirst(outbox[x]) : \E j \in DOMAIN outbox[x] :
            AfterFirst(outbox[x])[i].to = outbox[x][j].to
      BY <2>1, AfterFirstLeaves
    <3> QED
      BY <1>2, <3>1
  <2>6. \A d \in Conn : outbox'[d] = IF d = x THEN AfterFirst(outbox[x]) ELSE outbox[d]
    BY <2>1 DEF DeliveryTyped
  <2>7. view'[c] = view[c] /\ plan'[c] = plan[c]
    BY <1>4, OthersKeepTheirs
  <2> QED
    BY <1>2, <2>4, <2>5, <2>6, <2>7
<1>5. CASE c # x /\ ~TrySend(x) /\ ~CollectJoin(x) /\ ~CollectLeave(x)
  <2>1. view'[c] = view[c] /\ plan'[c] = plan[c] /\ queue'[c] = queue[c]
    BY <1>5, OthersKeepTheirs
  <2>2. outbox' = outbox
    <3>1. \/ KickIfLobbyFull(x) \/ RegisterCheck(x) \/ RegisterInsert(x) \/ EnterPlay(x)
          \/ PlanJoin(x) \/ Receive(x) \/ Disconnect(x) \/ Unregister(x) \/ RemoveSender(x)
      BY <1>5, UndisturbedSteps
    <3> QED
      BY <3>1 DEF KickIfLobbyFull, RegisterCheck, CheckCapacity, RegisterInsert, EnterPlay,
                  PlanJoin, Receive, Disconnect, Unregister, RemoveSender, delivery
  <2> QED
    BY <1>2, <2>1, <2>2
<1>6. ASSUME NEW from, NEW sending, Collect(x, from, sending), c # x
      PROVE  /\ view'[c] = EmptyView /\ queue'[c] = <<>> /\ plan'[c] = NoPlan
             /\ \A d \in Conn : \A i \in DOMAIN outbox'[d] : outbox'[d][i].to # c
  <2>1. view'[c] = view[c] /\ plan'[c] = plan[c] /\ queue'[c] = queue[c]
    BY <1>6 DEF Collect, DeliveryTyped
  <2>2. c \notin Senders(plan[x].recipients)
    BY <1>1 DEF Senders, Base, TasksInv, SendersInPlay
  <2>3. \A i \in DOMAIN outbox'[x] : outbox'[x][i].to # c
    BY <1>6, <2>2, CollectFills
  <2>4. \A d \in Conn \ {x} : outbox'[d] = outbox[d]
    BY <1>6, CollectFills DEF DeliveryTyped
  <2> QED
    BY <1>2, <2>1, <2>3, <2>4
<1> QED
  BY <1>1, <1>3, <1>4, <1>5, <1>6 DEF CollectJoin, CollectLeave

(* A task comes to carry only what it has just planned.                    *)
LEMMA OnlyOwnPlans ==
  ASSUME Base, EntitiesIssued, DeliveryTyped, NEW x \in Conn, Step(x) \/ Input(x),
         NEW c \in Conn, NEW p \in Packets, Carries(c, p)'
  PROVE  \/ Carries(c, p) /\ (c # x \/ ~Unregister(x))
         \/ /\ c = x /\ Here(x)
            /\ \/ PlanJoin(x) /\ p \in Members(SpawnPackets(Info(x)))
               \/ Unregister(x) /\ p \in Members(LeavePackets(Info(x)))
<1> HIDE DEF Packets, PacketBatch
<1>1. CASE c # x
  BY <1>1, OthersKeepTheirs DEF Carries
<1>2. CASE c = x /\ PlanJoin(x)
  <2>1. outbox' = outbox /\ (Registered(x) => plan'[x] = JoinPlan(x)) /\ ~Unregister(x)
    BY <1>2 DEF PlanJoin, Unregister, At, DeliveryTyped
  <2>2. ~Registered(x) => plan' = plan
    BY <1>2 DEF PlanJoin
  <2> QED
    BY <1>2, <2>1, <2>2, RegisteredIsHere, JoinPlanReaches DEF Carries
<1>3. CASE c = x /\ Unregister(x)
  <2>1. outbox' = outbox /\ outbox[x] = <<>>
        /\ (plan'[x] = NoPlan \/ (Registered(x) /\ plan'[x] = LeavePlan(x)))
    BY <1>3 DEF Unregister, At, DeliveryTyped
  <2>2. Registered(x) /\ p \in Members(LeavePlan(x).packets)
    BY <1>3, <2>1 DEF Carries, NoPlan, Members
  <2> QED
    BY <1>3, <2>2, RegisteredIsHere, LeavePlanTyped
<1>4. ASSUME NEW from, NEW sending, Collect(x, from, sending), c = x
      PROVE  Carries(c, p)
  <2>1. plan'[x] = NoPlan
    BY <1>4 DEF Collect, DeliveryTyped
  <2>2. \A i \in DOMAIN outbox'[x] : outbox'[x][i].packets = plan[x].packets
    BY <1>4, CollectFills
  <2>3. p \notin Members(NoPlan.packets)
    BY DEF NoPlan, Members
  <2> QED
    BY <1>4, <2>1, <2>2, <2>3 DEF Carries
<1>5. CASE c = x /\ TrySend(x)
  <2>1. /\ plan' = plan /\ outbox[x] # <<>> /\ outbox[x] \in Seq(PacketBatch)
        /\ outbox'[x] = AfterFirst(outbox[x])
    BY <1>5 DEF TrySend, DeliveryTyped
  <2>2. \A i \in DOMAIN AfterFirst(outbox[x]) : \E j \in DOMAIN outbox[x] :
          Members(AfterFirst(outbox[x])[i].packets) \subseteq Members(outbox[x][j].packets)
    BY <2>1, AfterFirstLeaves
  <2>3. ~Unregister(x)
    BY <1>5 DEF TrySend, Unregister, At
  <2> QED
    BY <1>5, <2>1, <2>2, <2>3 DEF Carries
<1>6. CASE \/ RegisterCheck(x) \/ RegisterInsert(x) \/ EnterPlay(x) \/ KickIfLobbyFull(x)
           \/ RenderFails(x) \/ RemoveSender(x) \/ ToggleFlag(x) \/ ToggleView(x)
           \/ Receive(x) \/ Disconnect(x)
  <2>1. UNCHANGED <<plan, outbox>>
    BY <1>6 DEF RegisterCheck, RegisterInsert, EnterPlay, KickIfLobbyFull, CheckCapacity, RenderFails,
                RemoveSender, ToggleFlag, ToggleView, Receive, Disconnect, delivery
  <2> QED
    BY <1>3, <2>1 DEF Carries
<1>7. CASE CollectJoin(x) \/ CollectLeave(x)
  BY <1>1, <1>3, <1>4, <1>7 DEF CollectJoin, CollectLeave
<1> QED
  BY <1>1, <1>2, <1>3, <1>5, <1>6, <1>7 DEF Step, Input

(* What a task has still to tell the others is about its own player:       *)
(* that it is there while it is, that it has gone once it has.             *)
LEMMA NewsStaysOwn ==
  ASSUME OneEach, Base, EntitiesIssued, DeliveryTyped, Orderly, Undisturbed,
         NEW x \in Conn, Step(x) \/ Input(x)
  PROVE  OwnNews'
<1> HIDE DEF Packets
<1> SUFFICES ASSUME NEW c \in Conn, NEW p \in Packets, Carries(c, p)'
             PROVE  IF p.kind \in BothKinds
                      THEN Attached(c)' /\ Here(c)' /\ p = Packet(p.kind, Info(c)')
                      ELSE ~Attached(c)'
  BY DEF OwnNews, Packet
<1>1. Attached(c) /\ ~Attached(c)' => c = x /\ Unregister(x)
  BY UndisturbedMoves DEF Orderly, Attached
<1>2. CASE Carries(c, p) /\ (c # x \/ ~Unregister(x))
  <2>1. CASE p.kind \in BothKinds
    <3>1. Attached(c) /\ Here(c) /\ p = Packet(p.kind, Info(c))
      BY <1>2, <2>1 DEF Orderly, OwnNews
    <3>2. Here(c)' /\ Info(c)' = Info(c)
      BY <1>2, <3>1, PlayersStay
    <3> QED
      BY <1>1, <1>2, <2>1, <3>1, <3>2
  <2>2. CASE p.kind \notin BothKinds
    <3>1. ~Attached(c)
      BY <1>2, <2>2 DEF Orderly, OwnNews
    <3> QED
      BY <2>2, <3>1, GoneForGood
  <2> QED
    BY <2>1, <2>2
<1>3. CASE c = x /\ Here(x) /\ PlanJoin(x) /\ p \in Members(SpawnPackets(Info(x)))
  <2>1. Info(x) \in Infos
    BY <1>3, JoinPlanReaches
  <2>2. p.kind \in BothKinds /\ p = Packet(p.kind, Info(x))
    BY <1>3, <2>1, SpawnPacketsTyped DEF Packet, BothKinds
  <2>3. phase[x] = "Planning" /\ ~Unregister(x)
    BY <1>3 DEF PlanJoin, Unregister, At
  <2>4. Here(x)' /\ Info(x)' = Info(x)
    BY <1>3, <2>3, PlayersStay
  <2>5. Attached(x)'
    BY <1>1, <1>3, <2>3 DEF Attached
  <2> QED
    BY <1>3, <2>2, <2>4, <2>5
<1>4. CASE c = x /\ Here(x) /\ Unregister(x) /\ p \in Members(LeavePackets(Info(x)))
  <2>1. Info(x) \in Infos
    BY <1>4, JoinPlanReaches
  <2>2. p.kind \notin BothKinds
    BY <1>4, <2>1, SpawnPacketsTyped DEF Packet, BothKinds
  <2>3. ~Attached(x)'
    BY <1>4 DEF Unregister, At, Attached, Base, TasksInv, TasksTyped
  <2> QED
    BY <1>4, <2>2, <2>3
<1> QED
  BY <1>2, <1>3, <1>4, OnlyOwnPlans

(* Every session is that of a connection.                                  *)
LEMMA SomebodyIsHere ==
  ASSUME Base, NEW u \in DOMAIN sessions_by_uuid
  PROVE  \E b \in Conn : Here(b) /\ UuidOf[b] = u
<1>1. PICK b \in Conn : lobby_session_id[b] = sessions_by_uuid[u].session_id
  BY DEF Base, TasksInv, SessionsAttended
<1>2. sessions_by_uuid[u].session_id \in Nat /\ sessions_by_uuid[u].session_id < next_session_id
      /\ next_session_id <= SessionIdMax /\ SessionIdMax \in Nat /\ next_session_id \in Nat
  BY LobbyConnectionsAssumption
     DEF Base, TasksInv, SessionsIssued, RegistryFacts, Lobby!Session, Lobby!SessionId
<1>3. lobby_session_id[b] \in DOMAIN session_to_uuid /\ session_to_uuid[lobby_session_id[b]] = u
  BY <1>1, <1>2 DEF Base, RegistryFacts
<1>4. UuidOf[b] = u
  BY <1>3 DEF Base, TasksInv, OwnSessions
<1> QED
  BY <1>1, <1>4 DEF Here

(* An appended packet shows itself, or leaves what lasts to last.          *)
LEMMA LastsAppend ==
  ASSUME NEW q \in Seq(Packets), NEW p \in Packets, NEW kind, NEW value,
         NEW longer, longer = Append(q, p)
  PROVE  /\ \A j \in DOMAIN q : j \in DOMAIN longer /\ longer[j] = q[j]
         /\ \A j \in DOMAIN longer : (j \in DOMAIN q /\ longer[j] = q[j]) \/ longer[j] = p
         /\ \E n \in DOMAIN longer : longer[n] = p /\ (\A j \in DOMAIN longer : ~(j > n))
                                      /\ \A j \in DOMAIN q : n > j
<1> HIDE DEF Packets
<1>1. /\ Len(q) \in Nat /\ DOMAIN q = 1..Len(q) /\ DOMAIN longer = 1..Len(q) + 1
      /\ longer[Len(q) + 1] = p /\ \A j \in 1..Len(q) : longer[j] = q[j]
  OBVIOUS
<1>2. Len(q) + 1 \in DOMAIN longer
  BY <1>1
<1> QED
  BY <1>1, <1>2

(* What lasts on a screen after a step lasted before, or lives.            *)
LEMMA LastsBefore ==
  ASSUME OneEach, Base, EntitiesIssued, DeliveryTyped, Orderly, Undisturbed,
         NEW x \in Conn, Step(x) \/ Input(x),
         NEW c \in Conn, phase'[c] \in Looping, Here(c)',
         NEW kind \in BothKinds, NEW value, Lasts(c, kind, value)'
  PROVE  \/ phase[c] \in Looping /\ Here(c) /\ Lasts(c, kind, value)
         \/ Lives(kind, value)'
<1> HIDE DEF Packets, PacketBatch
<1>1. c # x \/ ~RegisterInsert(x)
  BY DEF RegisterInsert, At, Looping, Base, TasksInv, TasksTyped
<1>2. Here(c)
  BY <1>1, IdentityIsKept
<1>3. CASE EnterPlay(x) /\ c = x
  <2>1. view'[c] = EmptyView /\ queue'[c] = <<>> /\ plan'[c] = NoPlan
    BY <1>3 DEF EnterPlay, At, delivery, Orderly, NothingShownYet, Joining
  <2> QED
    BY <2>1 DEF Lasts, EmptyView, NoPlan, ShownIn
<1>4. CASE PlanJoin(x) /\ c = x
  <2>1. /\ Registered(x) /\ plan'[x] = JoinPlan(x) /\ queue' = queue /\ view' = view
        /\ phase[x] = "Planning" /\ UNCHANGED <<sessions_by_uuid, lobby_session_id>>
    BY <1>2, <1>4, RegisteredIsHere DEF PlanJoin, At, DeliveryTyped, lobby, client
  <2>2. ASSUME NEW info \in JoinPlan(x).existing, ValueOf(kind, info) = value
        PROVE  Lives(kind, value)'
    <3>1. PICK u \in DOMAIN sessions_by_uuid :
            info = [uuid |-> u, entity_id |-> sessions_by_uuid[u].entity_id]
      BY <2>2 DEF JoinPlan, Lobby!ExistingSessions, Lobby!SpawnInfo
    <3>2. PICK b \in Conn : Here(b) /\ UuidOf[b] = u
      BY SomebodyIsHere
    <3>3. Here(b)' /\ Info(b)' = info
      BY <2>1, <3>1, <3>2 DEF Here, Info
    <3> QED
      BY <2>2, <3>3 DEF Lives
  <2> QED
    BY <1>2, <1>4, <2>1, <2>2 DEF Lasts, Looping
<1>5. CASE CollectJoin(x) /\ c = x
  <2>1. /\ view'[x] = WithPlayers(view[x], plan[x].existing) /\ plan'[x] = NoPlan /\ queue' = queue
        /\ phase[x] = "CollectingJoin"
    BY <1>5 DEF CollectJoin, Collect, At, DeliveryTyped
  <2>2. value \in ShownIn(view'[x], kind)
          => value \in ShownIn(view[x], kind) \/ \E info \in plan[x].existing : ValueOf(kind, info) = value
    BY <2>1 DEF WithPlayers, ShownIn, ValueOf
  <2>3. plan'[x].existing = {}
    BY <2>1 DEF NoPlan
  <2> QED
    BY <1>2, <1>5, <2>1, <2>2, <2>3 DEF Lasts, Looping
<1>6. CASE Receive(x) /\ c = x
  <2>1. /\ phase[x] = "Play" /\ queue[x] # <<>> /\ queue[x] \in Seq(Packets) /\ plan' = plan
        /\ queue'[x] = Tail(queue[x]) /\ view'[x] = Shown(view[x], queue[x][1])
    BY <1>6 DEF Receive, DeliveryTyped
  <2>2. plan[x].existing = {}
    BY <2>1 DEF Orderly, PlansUsedUp, NoPlan
  <2> DEFINE q == queue[x]
  <2>3. /\ Len(q) \in Nat \ {0} /\ DOMAIN q = 1..Len(q) /\ DOMAIN queue'[x] = 1..Len(q) - 1
        /\ \A j \in 1..Len(q) - 1 : queue'[x][j] = q[j + 1]
        /\ q[1] \in Packets
    BY <2>1
  <2>4. value \in ShownIn(view'[x], kind)
          => /\ value \in ShownIn(view[x], kind) \/ Starts(q[1], kind, value)
             /\ ~Ends(q[1], kind, value)
    BY <2>1 DEF Shown, ShownIn, Starts, Ends, Undo, ValueOf, BothKinds
  <2> HIDE DEF q
  <2>5. ASSUME NEW i \in 0..Len(q) - 1,
               \A j \in DOMAIN queue'[x] : j > i => ~Ends(queue'[x][j], kind, value)
        PROVE  \A j \in DOMAIN q : j > i + 1 => ~Ends(q[j], kind, value)
    <3> SUFFICES ASSUME NEW j \in 1..Len(q), j > i + 1 PROVE ~Ends(q[j], kind, value)
      BY <2>3
    <3>1. j - 1 \in 1..Len(q) - 1 /\ j - 1 > i /\ queue'[x][j - 1] = q[j]
      BY <2>3
    <3> QED
      BY <2>3, <2>5, <3>1
  <2>6. CASE /\ value \in ShownIn(view'[x], kind)
             /\ \A j \in DOMAIN queue'[x] : ~Ends(queue'[x][j], kind, value)
    <3>1. \A j \in DOMAIN q : j > 0 + 1 => ~Ends(q[j], kind, value)
      <4>1. 0 \in 0..Len(q) - 1
        BY <2>3
      <4> QED
        BY <2>5, <2>6, <4>1
    <3>2. \A j \in DOMAIN q : j = 1 \/ j > 0 + 1
      BY <2>3
    <3>3. \A j \in DOMAIN q : ~Ends(q[j], kind, value)
      BY <2>4, <2>6, <3>1, <3>2
    <3>4. 1 \in DOMAIN q
      BY <2>3
    <3>5. value \in ShownIn(view[x], kind) \/ Starts(q[1], kind, value)
      BY <2>4, <2>6
    <3> QED
      BY <1>2, <1>6, <2>1, <3>3, <3>4, <3>5 DEF Lasts, Looping, q
  <2>7. CASE \E i \in DOMAIN queue'[x] :
               /\ Starts(queue'[x][i], kind, value)
               /\ \A j \in DOMAIN queue'[x] : j > i => ~Ends(queue'[x][j], kind, value)
    <3>1. PICK i \in DOMAIN queue'[x] :
            /\ Starts(queue'[x][i], kind, value)
            /\ \A j \in DOMAIN queue'[x] : j > i => ~Ends(queue'[x][j], kind, value)
      BY <2>7
    <3>2. i \in 0..Len(q) - 1 /\ i + 1 \in DOMAIN q /\ queue'[x][i] = q[i + 1]
      BY <2>3
    <3>3. \A j \in DOMAIN q : j > i + 1 => ~Ends(q[j], kind, value)
      BY <2>5, <3>1, <3>2
    <3> QED
      BY <1>2, <1>6, <2>1, <3>1, <3>2, <3>3 DEF Lasts, Looping, q
  <2>8. plan'[x].existing = {}
    BY <2>1, <2>2
  <2> QED
    BY <1>6, <2>6, <2>7, <2>8 DEF Lasts
<1>7. CASE TrySend(x)
  <2>1. /\ phase[x] \in {"Announcing", "Retracting"} /\ plan' = plan /\ view' = view
        /\ outbox[x] # <<>> /\ outbox[x] \in Seq(PacketBatch)
        /\ UNCHANGED <<sessions_by_uuid, lobby_session_id>>
    BY <1>7 DEF TrySend, DeliveryTyped, lobby, client
  <2>2. phase[c] \in Looping
    <3>1. CASE c = x
      <4>1. phase' = phase \/ phase' = [phase EXCEPT ![x] = AfterSending(phase[x])]
        BY <1>7 DEF TrySend
      <4>2. phase'[x] = phase[x] \/ phase'[x] = AfterSending(phase[x])
        BY <4>1 DEF Base, TasksInv, TasksTyped
      <4> QED
        BY <2>1, <3>1, <4>2 DEF AfterSending, Looping
    <3> QED
      BY <3>1, OthersKeepTheirs
  <2> DEFINE to == outbox[x][1].to
             p == outbox[x][1].packets[1]
             longer == Append(queue[c], p)
  <2>3. p \in Packets /\ Carries(x, p)
    <3>1. p \in Packets /\ p \in Members(outbox[x][1].packets) /\ 1 \in DOMAIN outbox[x]
      BY <2>1, AfterFirstLeaves
    <3> QED
      BY <3>1 DEF Carries
  <2>4. queue'[c] = queue[c] \/ queue'[c] = longer
    BY <1>7 DEF TrySend, DeliveryTyped
  <2> HIDE DEF p, longer
  <2>5. CASE queue'[c] = queue[c]
    BY <1>2, <2>1, <2>2, <2>5 DEF Lasts
  <2>6. CASE queue'[c] = longer
    <3>0. queue[c] \in Seq(Packets) /\ longer = Append(queue[c], p)
      BY DEF DeliveryTyped, longer
    <3>1. /\ \A j \in DOMAIN queue[c] : j \in DOMAIN longer /\ longer[j] = queue[c][j]
          /\ \A j \in DOMAIN longer : (j \in DOMAIN queue[c] /\ longer[j] = queue[c][j]) \/ longer[j] = p
      BY <2>3, <3>0, LastsAppend
    <3>2. Starts(p, kind, value) => Lives(kind, value)'
      <4> SUFFICES ASSUME Starts(p, kind, value) PROVE Lives(kind, value)'
        OBVIOUS
      <4>1. Here(x) /\ p = Packet(kind, Info(x))
        BY <2>3 DEF Starts, Orderly, OwnNews
      <4>2. ValueOf(kind, Info(x)) = value
        BY <4>1 DEF Starts, ValueOf, Packet
      <4>3. Here(x)' /\ Info(x)' = Info(x)
        BY <2>1, <4>1 DEF Here, Info
      <4> QED
        BY <4>2, <4>3 DEF Lives
    <3>3. CASE \E i \in DOMAIN longer :
                 /\ Starts(longer[i], kind, value)
                 /\ \A j \in DOMAIN longer : j > i => ~Ends(longer[j], kind, value)
      <4>1. PICK i \in DOMAIN longer :
                 /\ Starts(longer[i], kind, value)
                 /\ \A j \in DOMAIN longer : j > i => ~Ends(longer[j], kind, value)
        BY <3>3
      <4>2. CASE longer[i] = p
        BY <3>2, <4>1, <4>2
      <4>3. CASE i \in DOMAIN queue[c] /\ longer[i] = queue[c][i]
        BY <1>2, <2>2, <3>1, <4>1, <4>3 DEF Lasts
      <4> QED
        BY <3>1, <4>2, <4>3
    <3>4. CASE /\ \/ value \in ShownIn(view'[c], kind)
                  \/ \E info \in plan'[c].existing : ValueOf(kind, info) = value
               /\ \A j \in DOMAIN longer : ~Ends(longer[j], kind, value)
      BY <1>2, <2>1, <2>2, <3>1, <3>4 DEF Lasts
    <3> QED
      BY <2>6, <3>3, <3>4 DEF Lasts
  <2> QED
    BY <2>4, <2>5, <2>6
<1>8. CASE c # x /\ ~TrySend(x)
  <2>1. /\ phase'[c] = phase[c] /\ view'[c] = view[c] /\ plan'[c] = plan[c] /\ queue'[c] = queue[c]
    BY <1>8, OthersKeepTheirs
  <2> QED
    BY <1>2, <2>1 DEF Lasts
<1> QED
  BY <1>3, <1>4, <1>5, <1>6, <1>7, <1>8, UndisturbedMoves DEF Orderly

(* A departure tells everybody who is in the loop of its connection.       *)
LEMMA DeparturesAreTold ==
  ASSUME OneEach, Base, EntitiesIssued, DeliveryTyped, Orderly,
         NEW x \in Conn, Unregister(x), Here(x), NEW c \in Conn \ {x}, Here(c),
         lobby_session_id'[c] = lobby_session_id[c],
         NEW kind \in BothKinds, NEW value, value = ValueOf(kind, Info(x))
  PROVE  RetractedBy(x, c, kind, value)'
<1> HIDE DEF Packets
<1>1. plan'[x] = LeavePlan(x)
  <2>1. phase[x] = "Leaving" /\ Registered(x) /\ was_in_play_state[x]
    BY RegisteredIsHere DEF Unregister, At, Orderly, AllVisible
  <2> QED
    BY <2>1 DEF Unregister, DeliveryTyped
<1>2. lobby_session_id[c] \in LeavePlan(x).recipients
  <2>1. lobby_session_id[c] # lobby_session_id[x]
    BY RegisteredIsHere DEF Base, TasksInv, OwnSessions
  <2>2. sessions_by_uuid[UuidOf[c]].players_visible
    BY RegisteredIsHere DEF Orderly, AllVisible
  <2>3. Lobby!SessionOf(lobby_session_id[x]).session_id = lobby_session_id[x]
    BY RegisteredIsHere DEF Registered, Lobby!KnownSession, Lobby!SessionOf, Base, RegistryFacts
  <2> QED
    BY <2>1, <2>2, <2>3 DEF LeavePlan, Lobby!LeaveRecipients, Lobby!PlanRecipients, Lobby!Sessions, Here
<1>3. Packet(Undo(kind), Info(x)) \in Members(LeavePlan(x).packets)
  <2>1. Info(x) \in Infos
    BY JoinPlanReaches
  <2> QED
    BY <2>1, LeavePlanTyped, SpawnPacketsTyped DEF Undo, BothKinds
<1>4. Ends(Packet(Undo(kind), Info(x)), kind, value)
  BY DEF Ends, Packet, ValueOf
<1> QED
  BY <1>1, <1>2, <1>3, <1>4 DEF RetractedBy

(* What was justified stays so as long as it lasts.                        *)
LEMMA JustifiedStays ==
  ASSUME OneEach, Base, EntitiesIssued, DeliveryTyped, SendersInstalled, Orderly, NothingDropped,
         Undisturbed, NEW x \in Conn, Step(x) \/ Input(x),
         NEW c \in Conn, phase[c] \in Looping, phase'[c] \in Looping, Here(c), Here(c)',
         NEW kind \in BothKinds, NEW value, Justified(c, kind, value), Lasts(c, kind, value)'
  PROVE  Justified(c, kind, value)'
<1> HIDE DEF Packets, PacketBatch
<1>0. lobby_session_id'[c] = lobby_session_id[c] /\ (c = x => ~Unregister(x))
  <2>1. ~(c = x /\ RegisterInsert(x)) /\ (c = x => ~Unregister(x))
    BY DEF RegisterInsert, Unregister, At, Looping
  <2> QED
    BY <2>1, IdentityIsKept
<1>1. CASE Lives(kind, value)
  <2>1. PICK b \in Conn : Here(b) /\ ValueOf(kind, Info(b)) = value
    BY <1>1 DEF Lives
  <2>2. CASE b # x \/ ~Unregister(x)
    <3>1. Here(b)' /\ Info(b)' = Info(b)
      BY <2>1, <2>2, PlayersStay
    <3> QED
      BY <2>1, <3>1 DEF Justified, Lives
  <2>3. CASE b = x /\ Unregister(x)
    <3>1. RetractedBy(x, c, kind, value)'
      BY <1>0, <2>1, <2>3, DeparturesAreTold
    <3> QED
      BY <3>1 DEF Justified
  <2> QED
    BY <2>2, <2>3
<1>2. ASSUME NEW d \in Conn, RetractedBy(d, c, kind, value), d # x
      PROVE  Justified(c, kind, value)'
  <2>1. plan'[d] = plan[d] /\ outbox'[d] = outbox[d]
    BY <1>2, OthersKeepTheirs
  <2> QED
    BY <1>0, <1>2, <2>1 DEF Justified, RetractedBy
<1>3. ASSUME RetractedBy(x, c, kind, value) PROVE RetractedBy(x, c, kind, value)'
  <2>1. PICK p : /\ Ends(p, kind, value)
                 /\ \/ lobby_session_id[c] \in plan[x].recipients /\ p \in Members(plan[x].packets)
                    \/ \E i \in DOMAIN outbox[x] : outbox[x][i].to = c /\ p \in Members(outbox[x][i].packets)
    BY <1>3 DEF RetractedBy
  <2>2. p \in Packets /\ Carries(x, p)
    <3>1. plan[x].packets \in Seq(Packets) /\ outbox[x] \in Seq(PacketBatch)
      BY DEF DeliveryTyped
    <3>2. \A i \in DOMAIN outbox[x] : outbox[x][i].packets \in Seq(Packets)
      <4>1. \A i \in DOMAIN outbox[x] : outbox[x][i] \in PacketBatch
        BY <3>1
      <4> QED
        BY <4>1 DEF PacketBatch
    <3>3. \A q \in Seq(Packets) : Members(q) \subseteq Packets
      BY DEF Members
    <3> QED
      BY <2>1, <3>1, <3>2, <3>3 DEF Carries
  <2>3. ~Attached(x)
    BY <2>1, <2>2 DEF Ends, Undo, BothKinds, Orderly, OwnNews
  <2>4. RemoveSender(x) \/ CollectLeave(x) \/ TrySend(x)
    <3>1. phase[x] \in {"RemovingSender", "CollectingLeave", "Retracting", "Closed"}
      BY <2>3 DEF Attached
    <3> QED
      BY <3>1, UndisturbedSteps DEF Orderly, KickIfLobbyFull, RegisterCheck, CheckCapacity, RegisterInsert,
         EnterPlay, PlanJoin, CollectJoin, Collect, Receive, Disconnect, Unregister, At
  <2>5. CASE RemoveSender(x)
    <3>1. UNCHANGED <<plan, outbox>>
      BY <2>5 DEF RemoveSender, delivery
    <3> QED
      BY <1>0, <1>3, <3>1 DEF RetractedBy
  <2>6. CASE CollectLeave(x)
    <3>1. phase[x] = "CollectingLeave" /\ Collect(x, "CollectingLeave", "Retracting")
      BY <2>6 DEF CollectLeave, Collect, At
    <3>2. outbox[x] = <<>>
      BY <3>1 DEF DeliveryTyped
    <3>3. lobby_session_id[c] \in plan[x].recipients /\ p \in Members(plan[x].packets)
      BY <2>1, <3>2
    <3>4. c \in Senders(plan[x].recipients)
      BY <3>3 DEF SendersInstalled, Senders
    <3>5. PICK i \in DOMAIN outbox'[x] : outbox'[x][i].to = c
      BY <3>1, <3>4, CollectFills
    <3>6. outbox'[x][i].packets = plan[x].packets
      BY <3>1, CollectFills
    <3>7. p \in Members(outbox'[x][i].packets)
      BY <3>3, <3>6
    <3> QED
      BY <2>1, <3>5, <3>7 DEF RetractedBy
  <2>7. CASE TrySend(x)
    <3> DEFINE b == outbox[x]
               to == b[1].to
               q == b[1].packets[1]
               longer == Append(queue[c], q)
    <3>1. /\ phase[x] \in {"Announcing", "Retracting"} /\ b # <<>> /\ b \in Seq(PacketBatch)
          /\ outbox'[x] = AfterFirst(b) /\ plan'[x] = plan[x]
      BY <2>7 DEF TrySend, DeliveryTyped
    <3>2. /\ q \in Packets
          /\ \A j \in DOMAIN b : \A r \in Members(b[j].packets) :
               \/ j = 1 /\ r = q
               \/ \E i \in DOMAIN AfterFirst(b) :
                    AfterFirst(b)[i].to = b[j].to /\ r \in Members(AfterFirst(b)[i].packets)
      BY <3>1, AfterFirstLeaves
    <3>3. CASE lobby_session_id[c] \in plan[x].recipients /\ p \in Members(plan[x].packets)
      BY <1>0, <2>1, <3>1, <3>3 DEF RetractedBy
    <3>4. CASE to = c /\ p = q
      <4>1. Reading(c)
        BY DEF Reading, Looping
      <4>2. Len(queue[c]) < QueueCapacity
        BY <3>1, <3>4, <4>1 DEF NothingDropped
      <4>3. queue' = [queue EXCEPT ![c] = longer]
        BY <2>7, <3>4, <4>1, <4>2 DEF TrySend
      <4>4. queue'[c] = longer /\ queue[c] \in Seq(Packets) /\ plan'[c] = plan[c] /\ view'[c] = view[c]
        <5>1. view' = view /\ plan' = plan
          BY <2>7 DEF TrySend
        <5> QED
          BY <4>3, <5>1 DEF DeliveryTyped
      <4> HIDE DEF b, to, q, longer
      <4>5. \E n \in DOMAIN longer : longer[n] = q /\ (\A j \in DOMAIN longer : ~(j > n))
                                      /\ \A j \in DOMAIN queue[c] : n > j
        BY <3>2, <4>4, LastsAppend DEF longer
      <4>6. \A j \in DOMAIN longer : (j \in DOMAIN queue[c] /\ longer[j] = queue[c][j]) \/ longer[j] = q
        BY <3>2, <4>4, LastsAppend DEF longer
      <4>7. Ends(q, kind, value) /\ ~Starts(q, kind, value)
        BY <2>1, <3>4 DEF Ends, Starts, Undo, BothKinds
      <4>8. \A j \in DOMAIN longer : Starts(longer[j], kind, value) => j \in DOMAIN queue[c]
        BY <4>6, <4>7
      <4> QED
        BY <4>4, <4>5, <4>7, <4>8 DEF Lasts
    <3>5. CASE \E j \in DOMAIN b : b[j].to = c /\ p \in Members(b[j].packets) /\ ~(j = 1 /\ p = q)
      <4> HIDE DEF b, q
      <4>1. PICK i \in DOMAIN AfterFirst(b) :
              AfterFirst(b)[i].to = c /\ p \in Members(AfterFirst(b)[i].packets)
        BY <3>2, <3>5
      <4> QED
        BY <2>1, <3>1, <4>1 DEF RetractedBy
    <3> QED
      BY <2>1, <3>3, <3>4, <3>5
  <2> QED
    BY <2>4, <2>5, <2>6, <2>7
<1>4. ASSUME NEW d \in Conn, RetractedBy(d, c, kind, value) PROVE Justified(c, kind, value)'
  <2>1. CASE d = x
    BY <1>3, <1>4, <2>1 DEF Justified
  <2> QED
    BY <1>2, <1>4, <2>1
<1> QED
  BY <1>1, <1>4 DEF Justified

(* The invariant. *)
GhostInv == DeliveryInv /\ Orderly /\ OnlyTheLivingLast

(* The invariant holds before anybody connects.                            *)
LEMMA InitGhostInv == Init => GhostInv
<1> SUFFICES ASSUME Init PROVE GhostInv
  OBVIOUS
<1>1. DeliveryInv
  BY InitShownInv DEF ShownInv
<1>2. Unregistered /\ NothingShownYet /\ PlansUsedUp
  BY DEF Init, Unregistered, NothingShownYet, PlansUsedUp, Joining, EmptyView, NoPlan
<1>3. AllVisible
  BY DEF Init, AllVisible, Here, Lobby!Init, Lobby!EmptyMap
<1>4. OwnNews
  BY DEF Init, OwnNews, Carries, Members, NoPlan
<1>5. OnlyTheLivingLast
  BY DEF Init, OnlyTheLivingLast, Looping
<1> QED
  BY <1>1, <1>2, <1>3, <1>4, <1>5 DEF GhostInv, Orderly

(* Every step that neither toggles nor fails to render keeps it.           *)
LEMMA NextGhostInv ==
  ASSUME OneEach
  PROVE  Base /\ GhostInv /\ NothingDropped /\ [Next]_vars /\ [Undisturbed]_vars => GhostInv'
<1> SUFFICES ASSUME Base, GhostInv, NothingDropped, [Next]_vars, [Undisturbed]_vars PROVE GhostInv'
  OBVIOUS
<1>1. ASSUME NEW x \in Conn, Step(x) \/ Input(x), Undisturbed PROVE GhostInv'
  <2>1. DeliveryInv'
    BY <1>1, DeliveryStaysTyped, EntitiesStayIssued, SendersStayInstalled, NobodyHereBecomesRemoved
       DEF GhostInv, DeliveryInv
  <2>2. Orderly'
    BY <1>1, SessionsComeWithInsert, NothingIsShownEarly, PlansStayUsedUp, EverybodyStaysVisible,
       NewsStaysOwn DEF GhostInv, DeliveryInv, Orderly
  <2>3. ASSUME NEW c \in Conn, phase'[c] \in Looping, Here(c)', NEW kind \in BothKinds,
               NEW value \in Nat \cup Accounts, Lasts(c, kind, value)'
        PROVE  Justified(c, kind, value)'
    <3>1. CASE Lives(kind, value)'
      BY <3>1 DEF Justified
    <3>2. CASE phase[c] \in Looping /\ Here(c) /\ Lasts(c, kind, value)
      <4>1. Justified(c, kind, value)
        BY <3>2 DEF GhostInv, OnlyTheLivingLast
      <4> QED
        BY <1>1, <2>3, <3>2, <4>1, JustifiedStays DEF GhostInv, DeliveryInv
    <3> QED
      BY <1>1, <2>3, <3>1, <3>2, LastsBefore DEF GhostInv, DeliveryInv
  <2>4. OnlyTheLivingLast'
    BY <2>3 DEF OnlyTheLivingLast, Accounts
  <2> QED
    BY <2>1, <2>2, <2>4 DEF GhostInv
<1>2. CASE UNCHANGED vars
  <2>1. UNCHANGED <<next_entity_id, sessions_by_uuid, lobby_broadcast_senders, phase,
                    lobby_session_id, players_visible, was_in_play_state, plan, outbox, queue, view>>
    BY <1>2 DEF vars, lobby, client, delivery
  <2>2. DeliveryInv'
    BY <2>1 DEF GhostInv, DeliveryInv, DeliveryTyped, EntitiesIssued, SendersInstalled,
                NobodyHereIsRemoved, UnderWay, Attached
  <2>3. Orderly'
    BY <2>1 DEF GhostInv, Orderly, Unregistered, NothingShownYet, PlansUsedUp, AllVisible, OwnNews,
                Carries, Attached, Here, Info
  <2>4. OnlyTheLivingLast'
    BY <2>1 DEF GhostInv, OnlyTheLivingLast, Lasts, Justified, Lives, RetractedBy, Here, Info
  <2> QED
    BY <2>2, <2>3, <2>4 DEF GhostInv
<1> QED
  BY <1>1, <1>2 DEF Next

(* What a client will show, in the words of Settled.                       *)
LEMMA SettledLasts ==
  ASSUME DeliveryTyped, NEW c \in Conn
  PROVE  /\ \A e \in Settled(c).entities : e \in Nat /\ Lasts(c, "SpawnPlayer", e)
         /\ \A u \in Settled(c).tab_list : u \in Accounts /\ Lasts(c, "PlayerInfoAdd", u)
<1> DEFINE n == Len(queue[c])
           Removed(i, kind) == {p \in {queue[c][j] : j \in i + 1 .. n} : p.kind = kind}
           Spawned(i) == IF i = 0 THEN view[c].entities
                         ELSE IF queue[c][i].kind = "SpawnPlayer" THEN {queue[c][i].entity_id} ELSE {}
           Listed(i) == IF i = 0 THEN view[c].tab_list
                        ELSE IF queue[c][i].kind = "PlayerInfoAdd" THEN {queue[c][i].uuid} ELSE {}
<1>1. /\ n \in Nat /\ DOMAIN queue[c] = 1..n /\ \A j \in 1..n : queue[c][j] \in Packets
      /\ view[c].entities \subseteq Nat /\ view[c].tab_list \subseteq Accounts
  BY DEF DeliveryTyped
<1>2. /\ Settled(c).entities
           = UNION {Spawned(i) \ {p.entity_id : p \in Removed(i, "RemoveEntity")} : i \in 0..n}
      /\ Settled(c).tab_list
           = UNION {Listed(i) \ {p.uuid : p \in Removed(i, "PlayerInfoRemove")} : i \in 0..n}
  BY DEF Settled
<1> HIDE DEF n
<1>3. ASSUME NEW e \in Settled(c).entities PROVE e \in Nat /\ Lasts(c, "SpawnPlayer", e)
  <2>1. PICK i \in 0..n : e \in Spawned(i) /\ e \notin {p.entity_id : p \in Removed(i, "RemoveEntity")}
    BY <1>2, <1>3
  <2>2. \A j \in 1..n : j > i => ~Ends(queue[c][j], "SpawnPlayer", e)
    <3> SUFFICES ASSUME NEW j \in 1..n, j > i, Ends(queue[c][j], "SpawnPlayer", e) PROVE FALSE
      OBVIOUS
    <3>1. queue[c][j].kind = "RemoveEntity" /\ queue[c][j].entity_id = e
      BY DEF Ends, Undo, ValueOf
    <3>2. j \in i + 1 .. n
      BY <1>1
    <3> QED
      BY <2>1, <3>1, <3>2
  <2>3. CASE i = 0
    <3>1. \A j \in 1..n : j > i
      BY <1>1, <2>3
    <3> QED
      BY <1>1, <2>1, <2>2, <2>3, <3>1 DEF Lasts, ShownIn
  <2>4. CASE i # 0
    <3>1. i \in 1..n /\ queue[c][i].kind = "SpawnPlayer" /\ e = queue[c][i].entity_id
      BY <1>1, <2>1, <2>4
    <3>2. e \in Nat /\ Starts(queue[c][i], "SpawnPlayer", e)
      BY <1>1, <3>1 DEF Starts, ValueOf, Packets
    <3> QED
      BY <1>1, <2>2, <3>1, <3>2 DEF Lasts
  <2> QED
    BY <2>3, <2>4
<1>4. ASSUME NEW u \in Settled(c).tab_list PROVE u \in Accounts /\ Lasts(c, "PlayerInfoAdd", u)
  <2>1. PICK i \in 0..n : u \in Listed(i) /\ u \notin {p.uuid : p \in Removed(i, "PlayerInfoRemove")}
    BY <1>2, <1>4
  <2>2. \A j \in 1..n : j > i => ~Ends(queue[c][j], "PlayerInfoAdd", u)
    <3> SUFFICES ASSUME NEW j \in 1..n, j > i, Ends(queue[c][j], "PlayerInfoAdd", u) PROVE FALSE
      OBVIOUS
    <3>1. queue[c][j].kind = "PlayerInfoRemove" /\ queue[c][j].uuid = u
      BY DEF Ends, Undo, ValueOf
    <3>2. j \in i + 1 .. n
      BY <1>1
    <3> QED
      BY <2>1, <3>1, <3>2
  <2>3. CASE i = 0
    <3>1. \A j \in 1..n : j > i
      BY <1>1, <2>3
    <3> QED
      BY <1>1, <2>1, <2>2, <2>3, <3>1 DEF Lasts, ShownIn
  <2>4. CASE i # 0
    <3>1. i \in 1..n /\ queue[c][i].kind = "PlayerInfoAdd" /\ u = queue[c][i].uuid
      BY <1>1, <2>1, <2>4
    <3>2. u \in Accounts /\ Starts(queue[c][i], "PlayerInfoAdd", u)
      BY <1>1, <3>1 DEF Starts, ValueOf, Packets
    <3> QED
      BY <1>1, <2>2, <3>1, <3>2 DEF Lasts
  <2> QED
    BY <2>3, <2>4
<1> QED
  BY <1>3, <1>4

(* A packet that retracts is one that is still to be sent.                 *)
LEMMA RetractionIsToSend ==
  ASSUME NEW c \in Conn, NEW d \in Conn, NEW value
  PROVE  /\ RetractedBy(d, c, "SpawnPlayer", value) => StillToSend(c, "RemoveEntity", "entity_id", value)
         /\ RetractedBy(d, c, "PlayerInfoAdd", value) => StillToSend(c, "PlayerInfoRemove", "uuid", value)
BY DEF RetractedBy, StillToSend, Ends, Undo, ValueOf, Members

(* Once a queue is drained, what it left on the screen is alive or a       *)
(* removal of it is still to be sent.                                      *)
LEMMA GhostsWhenDrained == Base /\ GhostInv => GhostsAreRetracted
<1> SUFFICES ASSUME Base, GhostInv, NEW c \in Conn, InPlay(c)
             PROVE  /\ \A e \in Settled(c).entities :
                         \/ \E x \in Lobby!Sessions : x.entity_id = e
                         \/ StillToSend(c, "RemoveEntity", "entity_id", e)
                    /\ \A u \in Settled(c).tab_list :
                         \/ u \in DOMAIN sessions_by_uuid
                         \/ StillToSend(c, "PlayerInfoRemove", "uuid", u)
  BY DEF GhostsAreRetracted
<1>1. phase[c] \in Looping /\ Here(c) /\ DeliveryTyped
  BY RegisteredIsHere DEF InPlay, Looping, GhostInv, DeliveryInv
<1>2. ASSUME NEW e \in Settled(c).entities
      PROVE  \/ \E x \in Lobby!Sessions : x.entity_id = e
             \/ StillToSend(c, "RemoveEntity", "entity_id", e)
  <2>1. "SpawnPlayer" \in BothKinds /\ e \in Nat \cup Accounts /\ Lasts(c, "SpawnPlayer", e)
    BY <1>1, <1>2, SettledLasts DEF BothKinds
  <2>2. Justified(c, "SpawnPlayer", e)
    BY <1>1, <2>1 DEF GhostInv, OnlyTheLivingLast
  <2>3. Lives("SpawnPlayer", e) => \E x \in Lobby!Sessions : x.entity_id = e
    BY DEF Lives, ValueOf, Info, Here, Lobby!Sessions
  <2> QED
    BY <2>2, <2>3, RetractionIsToSend DEF Justified
<1>3. ASSUME NEW u \in Settled(c).tab_list
      PROVE  \/ u \in DOMAIN sessions_by_uuid
             \/ StillToSend(c, "PlayerInfoRemove", "uuid", u)
  <2>1. "PlayerInfoAdd" \in BothKinds /\ u \in Nat \cup Accounts /\ Lasts(c, "PlayerInfoAdd", u)
    BY <1>1, <1>3, SettledLasts DEF BothKinds
  <2>2. Justified(c, "PlayerInfoAdd", u)
    BY <1>1, <2>1 DEF GhostInv, OnlyTheLivingLast
  <2>3. Lives("PlayerInfoAdd", u) => u \in DOMAIN sessions_by_uuid
    BY DEF Lives, ValueOf, Info, Here
  <2> QED
    BY <2>2, <2>3, RetractionIsToSend DEF Justified
<1> QED
  BY <1>2, <1>3

(* Whoever has left is off every screen, or its removal is on its way,     *)
(* however joins and departures interleave: of accounts that connect once, *)
(* with room in the queues, and as long as nobody clicks the visibility    *)
(* toggle and no play packet fails to render.                              *)
THEOREM GhostsAreAlwaysRetracted ==
  ASSUME OneEach
  PROVE  Spec /\ []NothingDropped /\ [][Undisturbed]_vars => []GhostsAreRetracted
<1>1. RegistryFacts /\ TasksInv => Base
  BY DEF Base
<1>2. Base /\ GhostInv /\ NothingDropped /\ [Next]_vars /\ [Undisturbed]_vars => GhostInv'
  BY OneEach, NextGhostInv
<1> QED
  BY <1>1, <1>2, InitGhostInv, GhostsWhenDrained, RegistryHolds, TasksInvariance, PTL DEF Spec
===============================================================================
