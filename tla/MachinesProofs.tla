----------------------------- MODULE MachinesProofs -----------------------------
(***************************************************************************)
(* Proofs about the machines that share no state: the sidebars, for any    *)
(* connections and queues; the interval, for any tasks and any number of   *)
(* intervals; the chunk cache, for any joining players, versions, biomes   *)
(* and spawn position; the conversation, for any intervals, speeds and     *)
(* number of lines.                                                        *)
(***************************************************************************)
EXTENDS Machines, FiniteSets, FiniteSetTheorems, TLAPS

-------------------------------------------------------------------------------
(* The sidebars *)

(* What the sidebars ask of their constants                                *)
LEMMA SidebarAssumption ==
  /\ LobbyModes \subseteq BOOLEAN
  /\ QueueCapacity \in Nat \ {0}
  /\ OtherTraffic \in BOOLEAN
  /\ NoCount \notin Nat /\ OtherPacket \notin Nat /\ NoCount # OtherPacket
BY MachinesAssumption DEF Sidebar!ScoreboardsAssumption

SidebarPacket == Nat \cup {OtherPacket}

VariablesTyped ==
  /\ phase \in [Conn -> Sidebar!Phases] /\ lobbyEnabled \in BOOLEAN
  /\ sessions \subseteq Conn /\ IsFiniteSet(sessions)
  /\ connected \subseteq Conn /\ IsFiniteSet(connected)
  /\ created \in [Conn -> Nat \cup {NoCount}] /\ shown \in [Conn -> Nat \cup {NoCount}]
  /\ queue \in [Conn -> Seq(SidebarPacket)]
  /\ tick.online \in Nat
  /\ lastRenders \in [DOMAIN lastRenders -> Nat] /\ DOMAIN lastRender = Conn
  /\ missed \in [Conn -> BOOLEAN]

TickTyped == tick = [at |-> tick.at, sessions |-> tick.sessions, online |-> tick.online]

(* The lobby's task remembers only in a lobby, of sessions it has seen.    *)
RemembersOnlyLobby ==
  /\ ~lobbyEnabled => senders = {}
  /\ senders \subseteq Conn /\ tick.sessions \subseteq Conn /\ DOMAIN lastRenders \subseteq Conn

(* Until the first batch is written nothing is displayed.                  *)
FirstSidebarIsCreated ==
  \A c \in Conn : phase[c] \in {"login", "registered", "rendered", "joined"} => shown[c] = NoCount

(* What is remembered of a session that had no sender was not sent.        *)
SenderlessMiss ==
  \A c \in DOMAIN lastRenders : phase[c] \in {"login", "registered", "rendered"} => missed[c]

(* Who has a sender has joined and not ended.                              *)
SendersJoined ==
  \A c \in senders : phase[c] \in {"joined", "play", "leaving"}

SidebarInv ==
  VariablesTyped /\ TickTyped /\ RemembersOnlyLobby /\ FirstSidebarIsCreated /\ SenderlessMiss /\ SendersJoined
  /\ Sidebar!MemoryIsDelivered

-------------------------------------------------------------------------------
(* What queues end with                                                    *)

(* A queue with one packet more ...                                        *)
LEMMA Queued ==
  ASSUME NEW q \in Seq(SidebarPacket), NEW n \in SidebarPacket
  PROVE  /\ Append(q, n) \in Seq(SidebarPacket) /\ DOMAIN Append(q, n) = 1 .. Len(q) + 1
         /\ Len(Append(q, n)) = Len(q) + 1 /\ Append(q, n)[Len(q) + 1] = n
         /\ \A i \in 1 .. Len(q) : Append(q, n)[i] = q[i]
OBVIOUS

(* ... and with one packet less                                            *)
LEMMA Read ==
  ASSUME NEW q \in Seq(SidebarPacket), q # <<>>
  PROVE  /\ Tail(q) \in Seq(SidebarPacket) /\ Len(Tail(q)) = Len(q) - 1 /\ Len(q) >= 1
         /\ Head(q) = q[1] /\ Head(q) \in SidebarPacket /\ DOMAIN Tail(q) = 1 .. Len(q) - 1
         /\ \A i \in 1 .. Len(q) - 1 : Tail(q)[i] = q[i + 1]
OBVIOUS

(* Whatever a queue shows, a count sent last is what it shows in the end.  *)
LEMMA CountQueued ==
  ASSUME NEW q \in Seq(SidebarPacket), NEW before, NEW n \in Nat
  PROVE  Sidebar!EndsWith(Append(q, n), before, n)
<1> DEFINE more == Append(q, n)
<1>1. more[Len(q) + 1] = n /\ Len(q) + 1 \in DOMAIN more /\ Len(more) = Len(q) + 1 /\ Len(q) \in Nat
  BY Queued DEF SidebarPacket
<1> HIDE DEF more
<1>2. \A i \in Len(q) + 1 + 1 .. Len(more) : more[i] = OtherPacket
  BY <1>1
<1>3. Sidebar!EndsWith(more, before, n)
  BY <1>1, <1>2 DEF Sidebar!EndsWith
<1> QED
  BY <1>3 DEF more

(* What other traffic leaves of what a queue shows in the end              *)
LEMMA OtherQueued ==
  ASSUME NEW q \in Seq(SidebarPacket), NEW before, NEW n, Sidebar!EndsWith(q, before, n)
  PROVE  Sidebar!EndsWith(Append(q, OtherPacket), before, n)
<1> DEFINE more == Append(q, OtherPacket)
<1>1. /\ more[Len(q) + 1] = OtherPacket /\ Len(more) = Len(q) + 1 /\ Len(q) \in Nat
      /\ DOMAIN more = 1 .. Len(q) + 1 /\ DOMAIN q = 1 .. Len(q)
      /\ \A i \in 1 .. Len(q) : more[i] = q[i]
  BY Queued DEF SidebarPacket
<1> HIDE DEF more
<1>2. ASSUME NEW from \in Nat, from >= 1, \A j \in from .. Len(q) : q[j] = OtherPacket
      PROVE  \A j \in from .. Len(more) : more[j] = OtherPacket
  <2> SUFFICES ASSUME NEW j \in from .. Len(more) PROVE more[j] = OtherPacket
    OBVIOUS
  <2>1. CASE j = Len(q) + 1
    BY <1>1, <2>1
  <2>2. CASE j # Len(q) + 1
    <3>1. j \in from .. Len(q) /\ j \in 1 .. Len(q)
      BY <1>1, <1>2, <2>2
    <3> QED
      BY <1>1, <1>2, <3>1
  <2> QED
    BY <2>1, <2>2
<1>3. CASE \E i \in DOMAIN q : q[i] = n /\ \A j \in i + 1 .. Len(q) : q[j] = OtherPacket
  <2>1. PICK i \in DOMAIN q : q[i] = n /\ \A j \in i + 1 .. Len(q) : q[j] = OtherPacket
    BY <1>3
  <2>2. i \in DOMAIN more /\ more[i] = n /\ \A j \in i + 1 .. Len(more) : more[j] = OtherPacket
    BY <1>1, <1>2, <2>1
  <2> QED
    BY <2>2 DEF Sidebar!EndsWith, more
<1>4. CASE (\A j \in 1 .. Len(q) : q[j] = OtherPacket) /\ n = before
  <2>1. \A j \in 1 .. Len(more) : more[j] = OtherPacket
    BY <1>2, <1>4
  <2> QED
    BY <1>4, <2>1 DEF Sidebar!EndsWith, more
<1> QED
  BY <1>3, <1>4 DEF Sidebar!EndsWith

(* What a queue shows after the packet that was read, it shows as before.  *)
LEMMA PacketRead ==
  ASSUME NEW q \in Seq(SidebarPacket), NEW before, NEW n \in Nat, Sidebar!EndsWith(q, before, n), q # <<>>
  PROVE  Sidebar!EndsWith(Tail(q), IF Head(q) = OtherPacket THEN before ELSE Head(q), n)
<1> DEFINE rest == Tail(q)
<1>1. /\ Len(rest) = Len(q) - 1 /\ Len(q) \in Nat /\ Len(q) >= 1 /\ Head(q) = q[1]
      /\ DOMAIN rest = 1 .. Len(q) - 1 /\ DOMAIN q = 1 .. Len(q)
      /\ \A i \in 1 .. Len(q) - 1 : rest[i] = q[i + 1]
  BY Read
<1> HIDE DEF rest
<1>2. ASSUME NEW from \in Nat, from >= 1, \A j \in from + 1 .. Len(q) : q[j] = OtherPacket
      PROVE  \A j \in from .. Len(rest) : rest[j] = OtherPacket
  BY <1>1, <1>2
<1>3. CASE \E i \in DOMAIN q : q[i] = n /\ \A j \in i + 1 .. Len(q) : q[j] = OtherPacket
  <2>1. PICK i \in DOMAIN q : q[i] = n /\ \A j \in i + 1 .. Len(q) : q[j] = OtherPacket
    BY <1>3
  <2>2. CASE i = 1
    <3>1. Head(q) = n /\ Head(q) # OtherPacket
      BY <1>1, <2>1, <2>2, SidebarAssumption
    <3>2. \A j \in 1 .. Len(rest) : rest[j] = OtherPacket
      BY <1>2, <2>1, <2>2
    <3> QED
      BY <3>1, <3>2 DEF Sidebar!EndsWith, rest
  <2>3. CASE i # 1
    <3>1. i - 1 \in DOMAIN rest /\ rest[i - 1] = n /\ i \in Nat /\ i >= 1
      BY <1>1, <2>1, <2>3
    <3>2. \A j \in i .. Len(rest) : rest[j] = OtherPacket
      BY <1>2, <2>1, <3>1
    <3>3. (i - 1) + 1 = i
      BY <3>1, SMT
    <3>4. \A j \in (i - 1) + 1 .. Len(rest) : rest[j] = OtherPacket
      BY <3>2, <3>3
    <3> QED
      BY <3>1, <3>4 DEF Sidebar!EndsWith, rest
  <2> QED
    BY <2>2, <2>3
<1>4. CASE (\A j \in 1 .. Len(q) : q[j] = OtherPacket) /\ n = before
  <2>1. \A j \in 1 .. Len(rest) : rest[j] = OtherPacket
    BY <1>1, <1>2, <1>4
  <2>2. Head(q) = OtherPacket
    BY <1>1, <1>4
  <2> QED
    BY <1>4, <2>1, <2>2 DEF Sidebar!EndsWith, rest
<1> QED
  BY <1>3, <1>4 DEF Sidebar!EndsWith

-------------------------------------------------------------------------------
(* The steps.                                                              *)

(* The number of players is one: both sets that count them are finite.     *)
LEMMA OnlineIsNat == ASSUME VariablesTyped PROVE Sidebar!Online \in Nat
<1>1. Cardinality(sessions) \in Nat /\ Cardinality(connected) \in Nat
  BY FS_CardinalityType DEF VariablesTyped
<1>2. \A T : Sidebar!Cardinality(T) = Cardinality(T)
  BY DEF Sidebar!Cardinality, Cardinality
<1> QED
  BY <1>1, <1>2 DEF Sidebar!Online

(* Nobody is there and nothing is remembered.                              *)
LEMMA InitSidebar == Sidebar!Init => SidebarInv
<1> SUFFICES ASSUME Sidebar!Init PROVE SidebarInv
  OBVIOUS
<1>1. <<>> \in Seq(SidebarPacket)
  OBVIOUS
<1> QED
  BY <1>1, FS_EmptySet, SidebarAssumption
     DEF Sidebar!Init, SidebarInv, VariablesTyped, RemembersOnlyLobby, FirstSidebarIsCreated, SenderlessMiss,
         SendersJoined, TickTyped, Sidebar!MemoryIsDelivered, Sidebar!Phases, Sidebar!Asleep

(* What a step leaves of the memory as it is, if it leaves the memory, the *)
(* queues and what is displayed.                                           *)
LEMMA MemoryKept ==
  ASSUME Sidebar!MemoryIsDelivered, senders' \subseteq senders,
         UNCHANGED <<shown, created, queue, lastRenders, missed>>
  PROVE  Sidebar!MemoryIsDelivered'
BY DEF Sidebar!MemoryIsDelivered, Sidebar!Displayed

(* Registering touches neither what is remembered nor what is displayed.   *)
LEMMA RegisterSidebarKeeps == ASSUME SidebarInv, NEW c \in Conn, Sidebar!Register(c) PROVE SidebarInv'
<1>1. Sidebar!MemoryIsDelivered'
  BY MemoryKept DEF SidebarInv, Sidebar!Register, Sidebar!lobbyTask
<1> QED
  BY <1>1, FS_AddElement
     DEF Sidebar!Register, Sidebar!Goto, SidebarInv, VariablesTyped, RemembersOnlyLobby, FirstSidebarIsCreated, SenderlessMiss,
         SendersJoined, TickTyped, Sidebar!Phases, Sidebar!lobbyTask

(* Whoever's first sidebar is rendered has no sender yet.                  *)
LEMMA RenderSidebarKeeps == ASSUME SidebarInv, NEW c \in Conn, Sidebar!Render(c) PROVE SidebarInv'
<1>1. c \notin senders
  BY DEF Sidebar!Render, Sidebar!Goto, SidebarInv, SendersJoined
<1>2. Sidebar!MemoryIsDelivered'
  BY <1>1 DEF SidebarInv, Sidebar!Render, Sidebar!lobbyTask, Sidebar!MemoryIsDelivered, Sidebar!Displayed, RemembersOnlyLobby, VariablesTyped
<1>3. Sidebar!Online \in Nat
  BY OnlineIsNat DEF SidebarInv
<1>4. created' \in [Conn -> Nat \cup {NoCount}]
  <2>1. created' \in {created, [created EXCEPT ![c] = Sidebar!Online]}
    BY DEF Sidebar!Render
  <2> QED
    BY <1>3, <2>1 DEF SidebarInv, VariablesTyped
<1> QED
  BY <1>2, <1>4
     DEF Sidebar!Render, Sidebar!Goto, SidebarInv, VariablesTyped, RemembersOnlyLobby, FirstSidebarIsCreated, SenderlessMiss,
         SendersJoined, TickTyped, Sidebar!Phases, Sidebar!lobbyTask

(* What is remembered of a session without a sender counts as missed,      *)
(* until it joins and after.                                               *)
LEMMA JoinSidebarKeeps == ASSUME SidebarInv, NEW c \in Conn, Sidebar!Join(c) PROVE SidebarInv'
<1>1. c \in DOMAIN lastRenders => missed[c]
  BY DEF Sidebar!Join, Sidebar!Goto, SidebarInv, SenderlessMiss
<1>2. Sidebar!MemoryIsDelivered'
  BY <1>1 DEF SidebarInv, Sidebar!Join, Sidebar!lobbyTask, Sidebar!MemoryIsDelivered, Sidebar!Displayed
<1> QED
  BY <1>2, FS_AddElement
     DEF Sidebar!Join, Sidebar!Goto, SidebarInv, VariablesTyped, RemembersOnlyLobby, FirstSidebarIsCreated, SenderlessMiss,
         SendersJoined, TickTyped, Sidebar!Phases, Sidebar!lobbyTask

(* The first sidebar displays what was about to be displayed.              *)
LEMMA WriteBatchSidebarKeeps == ASSUME SidebarInv, NEW c \in Conn, Sidebar!WriteBatch(c) PROVE SidebarInv'
<1>1. shown[c] = NoCount
  BY DEF Sidebar!WriteBatch, Sidebar!Goto, SidebarInv, FirstSidebarIsCreated
<1>2. \A d \in Conn : Sidebar!Displayed(d)' = Sidebar!Displayed(d)
  BY <1>1 DEF Sidebar!WriteBatch, SidebarInv, VariablesTyped, Sidebar!Displayed
<1>3. Sidebar!MemoryIsDelivered'
  BY <1>2 DEF SidebarInv, Sidebar!WriteBatch, Sidebar!lobbyTask, Sidebar!MemoryIsDelivered, RemembersOnlyLobby
<1> QED
  BY <1>3
     DEF Sidebar!WriteBatch, Sidebar!Goto, SidebarInv, VariablesTyped, RemembersOnlyLobby, FirstSidebarIsCreated, SenderlessMiss,
         SendersJoined, TickTyped, Sidebar!Phases, Sidebar!lobbyTask

(* What a player reads was on its way, and what is behind it still is.     *)
LEMMA ReceiveSidebarKeeps == ASSUME SidebarInv, NEW c \in Conn, Sidebar!Receive(c) PROVE SidebarInv'
<1> USE DEF SidebarInv
<1>1. queue[c] \in Seq(SidebarPacket) /\ queue[c] # <<>> /\ phase[c] = "play"
  BY DEF Sidebar!Receive, VariablesTyped
<1>2. Head(queue[c]) \in SidebarPacket /\ Tail(queue[c]) \in Seq(SidebarPacket)
  BY <1>1, Read
<1>3. /\ queue' = [queue EXCEPT ![c] = Tail(queue[c])]
      /\ UNCHANGED <<Sidebar!conns, lastRender, Sidebar!lobbyTask, missed>>
      /\ shown' = IF Head(queue[c]) = OtherPacket THEN shown ELSE [shown EXCEPT ![c] = Head(queue[c])]
  BY DEF Sidebar!Receive
<1>4. Sidebar!Displayed(c)' = IF Head(queue[c]) = OtherPacket THEN Sidebar!Displayed(c) ELSE Head(queue[c])
  BY <1>2, <1>3, SidebarAssumption DEF Sidebar!Displayed, Sidebar!conns, VariablesTyped, SidebarPacket
<1>5. ASSUME NEW d \in senders, d \in DOMAIN lastRenders
      PROVE  missed[d] \/ Sidebar!EndsWith(queue'[d], Sidebar!Displayed(d)', lastRenders[d])
  <2>1. d \in Conn /\ (missed[d] \/ Sidebar!EndsWith(queue[d], Sidebar!Displayed(d), lastRenders[d])) /\ lastRenders[d] \in Nat
    BY <1>5 DEF Sidebar!MemoryIsDelivered, RemembersOnlyLobby, VariablesTyped
  <2>2. CASE d = c
    BY <1>1, <1>3, <1>4, <2>1, <2>2, PacketRead DEF VariablesTyped
  <2>3. CASE d # c
    <3>1. queue'[d] = queue[d] /\ Sidebar!Displayed(d)' = Sidebar!Displayed(d)
      BY <1>3, <2>1, <2>3 DEF VariablesTyped, Sidebar!Displayed, Sidebar!conns
    <3> QED
      BY <2>1, <3>1
  <2> QED
    BY <2>2, <2>3
<1>6. Sidebar!MemoryIsDelivered'
  BY <1>3, <1>5 DEF Sidebar!MemoryIsDelivered, Sidebar!conns, Sidebar!lobbyTask
<1> QED
  BY <1>1, <1>2, <1>3, <1>6
     DEF VariablesTyped, RemembersOnlyLobby, FirstSidebarIsCreated, SenderlessMiss,
         SendersJoined, TickTyped, Sidebar!Phases, Sidebar!conns, Sidebar!lobbyTask, SidebarPacket

(* Without a lobby nobody has a sender.                                    *)
LEMMA RefreshSidebarKeeps == ASSUME SidebarInv, NEW c \in Conn, Sidebar!Refresh(c) PROVE SidebarInv'
<1>1. senders = {}
  BY DEF Sidebar!Refresh, SidebarInv, RemembersOnlyLobby
<1>2. Sidebar!MemoryIsDelivered'
  BY <1>1 DEF Sidebar!Refresh, Sidebar!MemoryIsDelivered, Sidebar!conns
<1> QED
  BY <1>2, OnlineIsNat
     DEF Sidebar!Refresh, SidebarInv, VariablesTyped, RemembersOnlyLobby, FirstSidebarIsCreated, SenderlessMiss,
         SendersJoined, TickTyped, Sidebar!Phases, Sidebar!conns, Sidebar!lobbyTask

(* A session that ends is not counted any more, ...                        *)
LEMMA UnregisterSidebarKeeps == ASSUME SidebarInv, NEW c \in Conn, Sidebar!Unregister(c) PROVE SidebarInv'
<1>1. Sidebar!MemoryIsDelivered'
  BY MemoryKept DEF SidebarInv, Sidebar!Unregister, Sidebar!lobbyTask
<1>2. IsFiniteSet(sessions \ {c}) /\ IsFiniteSet(connected \ {c})
  BY FS_RemoveElement DEF SidebarInv, VariablesTyped
<1> QED
  BY <1>1, <1>2
     DEF Sidebar!Unregister, SidebarInv, VariablesTyped, RemembersOnlyLobby, FirstSidebarIsCreated, SenderlessMiss,
         SendersJoined, TickTyped, Sidebar!Phases, Sidebar!lobbyTask

(* ... and then has no sender.                                             *)
LEMMA RemoveSenderSidebarKeeps == ASSUME SidebarInv, NEW c \in Conn, Sidebar!RemoveSender(c) PROVE SidebarInv'
<1>1. Sidebar!MemoryIsDelivered'
  BY DEF SidebarInv, Sidebar!RemoveSender, Sidebar!lobbyTask, Sidebar!MemoryIsDelivered, Sidebar!Displayed, RemembersOnlyLobby, VariablesTyped
<1>2. <<>> \in Seq(SidebarPacket)
  OBVIOUS
<1> QED
  BY <1>1, <1>2
     DEF Sidebar!RemoveSender, Sidebar!Goto, SidebarInv, VariablesTyped, RemembersOnlyLobby, FirstSidebarIsCreated, SenderlessMiss,
         SendersJoined, TickTyped, Sidebar!Phases, Sidebar!lobbyTask

(* Other traffic counts no players.                                        *)
LEMMA OtherBroadcastSidebarKeeps == ASSUME SidebarInv, NEW c \in Conn, Sidebar!OtherBroadcast(c) PROVE SidebarInv'
<1> USE DEF SidebarInv
<1>1. queue[c] \in Seq(SidebarPacket) /\ Append(queue[c], OtherPacket) \in Seq(SidebarPacket)
  BY Queued DEF VariablesTyped, SidebarPacket
<1>2. /\ queue' = [queue EXCEPT ![c] = Append(queue[c], OtherPacket)]
      /\ UNCHANGED <<Sidebar!conns, shown, lastRender, Sidebar!lobbyTask, missed>>
  BY DEF Sidebar!OtherBroadcast
<1>3. ASSUME NEW d \in senders, d \in DOMAIN lastRenders
      PROVE  missed[d] \/ Sidebar!EndsWith(queue'[d], Sidebar!Displayed(d), lastRenders[d])
  <2>1. d \in Conn /\ (missed[d] \/ Sidebar!EndsWith(queue[d], Sidebar!Displayed(d), lastRenders[d]))
    BY <1>3 DEF Sidebar!MemoryIsDelivered, RemembersOnlyLobby
  <2>2. queue'[d] = IF d = c THEN Append(queue[d], OtherPacket) ELSE queue[d]
    BY <1>2, <2>1 DEF VariablesTyped
  <2> QED
    BY <1>1, <2>1, <2>2, OtherQueued
<1>4. Sidebar!MemoryIsDelivered'
  BY <1>2, <1>3 DEF Sidebar!MemoryIsDelivered, Sidebar!Displayed, Sidebar!conns, Sidebar!lobbyTask
<1> QED
  BY <1>1, <1>2, <1>4
     DEF VariablesTyped, RemembersOnlyLobby, FirstSidebarIsCreated, SenderlessMiss,
         SendersJoined, TickTyped, Sidebar!Phases, Sidebar!conns, Sidebar!lobbyTask

(* The lobby's task looks at sessions and at their number, and sends       *)
(* later.                                                                  *)
LEMMA TickSidebarKeeps == ASSUME SidebarInv, Sidebar!TickSessions \/ Sidebar!TickOnline PROVE SidebarInv'
<1>1. CASE Sidebar!TickSessions
  <2>1. <<>> \in [DOMAIN <<>> -> Nat] /\ DOMAIN <<>> = {}
    OBVIOUS
  <2> QED
    BY <1>1, <2>1 DEF Sidebar!TickSessions, SidebarInv, VariablesTyped, RemembersOnlyLobby, FirstSidebarIsCreated, SenderlessMiss,
              SendersJoined, TickTyped, Sidebar!MemoryIsDelivered, Sidebar!Displayed, Sidebar!Phases, Sidebar!conns
<1>2. CASE Sidebar!TickOnline
  <2>1. /\ tick' \in {Sidebar!Asleep, [tick EXCEPT !.at = "sending", !.online = Sidebar!Online]}
        /\ UNCHANGED <<Sidebar!conns, shown, queue, lastRender, lastRenders, lastPopulation, missed>>
    BY <1>2 DEF Sidebar!TickOnline
  <2>2. Sidebar!Online \in Nat
    BY OnlineIsNat DEF SidebarInv
  <2>3. TickTyped' /\ tick'.online \in Nat /\ tick'.sessions \subseteq Conn
    <3>1. CASE tick' = Sidebar!Asleep
      BY <3>1 DEF Sidebar!Asleep, TickTyped
    <3>2. CASE tick' = [tick EXCEPT !.at = "sending", !.online = Sidebar!Online]
      <4>1. tick' = [at |-> "sending", sessions |-> tick.sessions, online |-> Sidebar!Online]
        BY <3>2 DEF SidebarInv, TickTyped
      <4> QED
        BY <2>2, <4>1 DEF SidebarInv, RemembersOnlyLobby, TickTyped
    <3> QED
      BY <2>1, <3>1, <3>2
  <2> QED
    BY <2>1, <2>3
       DEF SidebarInv, VariablesTyped, RemembersOnlyLobby, FirstSidebarIsCreated, SenderlessMiss,
           SendersJoined, TickTyped, Sidebar!MemoryIsDelivered, Sidebar!Displayed, Sidebar!Phases, Sidebar!conns, Sidebar!Asleep
<1> QED
  BY <1>1, <1>2

(* What is sent arrives, what was the same before is still under way, and  *)
(* what changed without being sent counts as missed.                       *)
LEMMA TickSendSidebarKeeps == ASSUME SidebarInv, Sidebar!TickSend PROVE SidebarInv'
<1> USE DEF SidebarInv
<1>1. tick.online \in Nat /\ tick.online \in SidebarPacket
  BY DEF VariablesTyped, SidebarPacket
<1>2. /\ queue' = [c \in Conn |-> IF c \in Sidebar!Delivered THEN Append(queue[c], tick.online) ELSE queue[c]]
      /\ missed' = [c \in Conn |-> IF c \in Sidebar!Changed THEN c \notin Sidebar!Delivered ELSE missed[c]]
      /\ lastRenders' = [c \in tick.sessions \cap renders |-> tick.online]
      /\ tick' = Sidebar!Asleep
      /\ UNCHANGED <<Sidebar!conns, shown, lastRender>>
  BY DEF Sidebar!TickSend
<1>3. queue' \in [Conn -> Seq(SidebarPacket)]
  BY <1>1, <1>2, Queued DEF VariablesTyped
<1>4. ASSUME NEW d \in senders, d \in DOMAIN lastRenders'
      PROVE  missed'[d] \/ Sidebar!EndsWith(queue'[d], Sidebar!Displayed(d), lastRenders'[d])
  <2>1. d \in Conn /\ d \in tick.sessions \cap renders /\ lastRenders'[d] = tick.online
    BY <1>2, <1>4 DEF RemembersOnlyLobby
  <2>2. CASE d \in Sidebar!Delivered
    BY <1>1, <1>2, <2>1, <2>2, CountQueued DEF VariablesTyped
  <2>3. CASE d \in Sidebar!Changed \ Sidebar!Delivered
    BY <1>2, <2>1, <2>3
  <2>4. CASE d \notin Sidebar!Changed
    <3>1. d \in DOMAIN lastRenders /\ lastRenders[d] = tick.online /\ d \notin Sidebar!Delivered
      BY <2>1, <2>4 DEF Sidebar!Changed, Sidebar!Delivered
    <3> QED
      BY <1>2, <2>1, <2>4, <3>1 DEF Sidebar!MemoryIsDelivered
  <2> QED
    BY <2>2, <2>3, <2>4
<1>5. Sidebar!MemoryIsDelivered'
  BY <1>2, <1>4 DEF Sidebar!MemoryIsDelivered, Sidebar!Displayed, Sidebar!conns
<1>6. SenderlessMiss'
  <2> SUFFICES ASSUME NEW d \in DOMAIN lastRenders', phase[d] \in {"login", "registered", "rendered"}
               PROVE  missed'[d]
    BY <1>2 DEF SenderlessMiss, Sidebar!conns
  <2>1. d \in Conn /\ d \in tick.sessions \cap renders /\ d \notin senders
    BY <1>2 DEF RemembersOnlyLobby, SendersJoined
  <2>2. d \notin Sidebar!Delivered
    BY <2>1 DEF Sidebar!Delivered
  <2>3. CASE d \in Sidebar!Changed
    BY <1>2, <2>1, <2>2, <2>3
  <2>4. CASE d \notin Sidebar!Changed
    <3>1. d \in DOMAIN lastRenders
      BY <2>1, <2>4 DEF Sidebar!Changed
    <3> QED
      BY <1>2, <2>1, <2>4, <3>1 DEF SenderlessMiss
  <2> QED
    BY <2>3, <2>4
<1>7. VariablesTyped' /\ TickTyped'
  BY <1>1, <1>2, <1>3 DEF VariablesTyped, TickTyped, Sidebar!conns, Sidebar!Asleep
<1>8. RemembersOnlyLobby' /\ FirstSidebarIsCreated' /\ SendersJoined'
  BY <1>2 DEF RemembersOnlyLobby, FirstSidebarIsCreated, SendersJoined, Sidebar!conns, Sidebar!Asleep
<1> QED
  BY <1>5, <1>6, <1>7, <1>8

(* Every step keeps the invariant.                                         *)
LEMMA StepSidebar == SidebarInv /\ [Sidebar!Next]_(Sidebar!vars) => SidebarInv'
<1>1. ASSUME SidebarInv, UNCHANGED Sidebar!vars PROVE SidebarInv'
  BY <1>1 DEF Sidebar!vars, Sidebar!conns, Sidebar!lobbyTask, SidebarInv, VariablesTyped, RemembersOnlyLobby, FirstSidebarIsCreated,
              SenderlessMiss, SendersJoined, TickTyped, Sidebar!MemoryIsDelivered, Sidebar!Displayed
<1> QED
  BY <1>1, RegisterSidebarKeeps, RenderSidebarKeeps, JoinSidebarKeeps, WriteBatchSidebarKeeps, ReceiveSidebarKeeps, RefreshSidebarKeeps, UnregisterSidebarKeeps,
     RemoveSenderSidebarKeeps, OtherBroadcastSidebarKeeps, TickSidebarKeeps, TickSendSidebarKeeps
     DEF Sidebar!Next, Sidebar!TickStep, Sidebar!ConnStep

(* What the lobby's task remembers of a session is what its player ends up *)
(* with, unless the sender was not there or the queue was full: with any   *)
(* number of players, any queue and any other traffic.                     *)
THEOREM MemoryIsAlwaysDelivered == Sidebar!Spec => []MemoryIsDelivered
<1>1. SidebarInv => MemoryIsDelivered
  BY DEF SidebarInv, MemoryIsDelivered
<1> QED
  BY InitSidebar, StepSidebar, <1>1, PTL DEF Sidebar!Spec

-------------------------------------------------------------------------------
(* The interval *)

CallLabel == {"idle", "calling", "storing", "notifying", "locking", "looked", "ticking", "waiting"}

(* Where the calls stand, and which tasks may have been notified.          *)
CallsTyped ==
  /\ users \subseteq Task /\ notified \subseteq Task
  /\ pc \in [Task -> CallLabel]
  /\ \A task \in Task : task \notin users => pc[task] = "idle"

(* The mutex of the state is held by the one task that ticks, of an        *)
(* interval.                                                               *)
MutexHeld ==
  /\ lock = {task \in Task : pc[task] = "ticking"}
  /\ \A t, u \in lock : t = u
  /\ lock # {} => interval # Interval!None

(* The mutex of ClientData is held by the only task there is, while its    *)
(* call is under way.                                                      *)
GuardHeld ==
  /\ guard = {} \/ (guard = users /\ \E task \in users : users = {task})
  /\ \A task \in guard : pc[task] \notin {"idle", "calling"}

(* As NoLostWakeup, from the look at the state on: its Notified future     *)
(* exists by then, and the interval may be set before the task waits.      *)
WakeupsArrive ==
  \A task \in Task :
    pc[task] \in {"looked", "waiting"} /\ interval # Interval!None =>
      task \in notified \/ \E other \in Task : pc[other] = "notifying"

IntervalInv == CallsTyped /\ MutexHeld /\ GuardHeld /\ WakeupsArrive

-------------------------------------------------------------------------------
(* Nobody holds a mutex or waits.                                          *)
LEMMA InitInterval == Interval!Init => IntervalInv
BY DEF Interval!Init, IntervalInv, CallsTyped, MutexHeld, GuardHeld, WakeupsArrive, CallLabel, Interval!None

(* Every step keeps the invariant.                                         *)
LEMMA StepInterval == IntervalInv /\ [Interval!Next]_(Interval!vars) => IntervalInv'
<1> SUFFICES ASSUME IntervalInv, [Interval!Next]_(Interval!vars) PROVE IntervalInv'
  OBVIOUS
<1> USE DEF IntervalInv, CallsTyped, MutexHeld, GuardHeld, WakeupsArrive, CallLabel, Interval!None, Interval!Goto
<1>1. ASSUME NEW t \in users, Interval!Call(t) PROVE IntervalInv'
  BY <1>1 DEF Interval!Call
<1>2. ASSUME NEW t \in users, Interval!Reach(t) PROVE IntervalInv'
  BY <1>2 DEF Interval!Reach, Interval!Guarded
<1>3. ASSUME NEW t \in users, Interval!Store(t) PROVE IntervalInv'
  BY <1>3 DEF Interval!Store
<1>4. ASSUME NEW t \in users, Interval!NotifyWaiters(t) PROVE IntervalInv'
  BY <1>4 DEF Interval!NotifyWaiters
<1>5. ASSUME NEW t \in users, Interval!Enlist(t) PROVE IntervalInv'
  BY <1>5 DEF Interval!Enlist, Interval!Guarded
<1>6. ASSUME NEW t \in users, Interval!Lock(t) PROVE IntervalInv'
  BY <1>6 DEF Interval!Lock
<1>7. ASSUME NEW t \in users, Interval!Wait(t) PROVE IntervalInv'
  BY <1>7 DEF Interval!Wait
<1>8. ASSUME NEW t \in users, Interval!Tick(t) PROVE IntervalInv'
  BY <1>8 DEF Interval!Tick
<1>9. ASSUME NEW t \in users, Interval!Restart(t) PROVE IntervalInv'
  BY <1>9 DEF Interval!Restart
<1>10. ASSUME NEW t \in users, Interval!Wake(t) PROVE IntervalInv'
  BY <1>10 DEF Interval!Wake
<1>11. ASSUME NEW t \in users, Interval!Drop(t) PROVE IntervalInv'
  BY <1>11 DEF Interval!Drop
<1>12. CASE Interval!Elapse
  BY <1>12 DEF Interval!Elapse
<1>13. CASE UNCHANGED Interval!vars
  BY <1>13 DEF Interval!vars
<1> QED
  BY <1>1, <1>2, <1>3, <1>4, <1>5, <1>6, <1>7, <1>8, <1>9, <1>10, <1>11, <1>12, <1>13
     DEF Interval!Next, Interval!TickStep, Interval!ControlStep

(* The inductive invariant: who holds the mutexes, waits or is about to    *)
(* wake others, in every interleaving of the tasks.                        *)
THEOREM IntervalInvariance == Interval!Spec => []IntervalInv
BY InitInterval, StepInterval, PTL DEF Interval!Spec

-------------------------------------------------------------------------------
(* The task of a connection, which has the interval for itself, finds both *)
(* mutexes free when it is to set or clear it: whatever its tick() held,   *)
(* it gave up when select! dropped the call.                               *)
OwnMutexesAreFree ==
  \A task \in Task : users = {task} /\ pc[task] = "calling" => guard = {} /\ lock = {}

(* So enable_keep_alive_if_needed does not wait for the tick() of its own  *)
(* task, which would never return: the safety half of SettingReturns.      *)
THEOREM NobodyWaitsForItself == Interval!Spec => []OwnMutexesAreFree
<1>1. IntervalInv => OwnMutexesAreFree
  BY DEF IntervalInv, CallsTyped, MutexHeld, GuardHeld, OwnMutexesAreFree
<1> QED
  BY IntervalInvariance, <1>1, PTL

(* A task that waits for an interval, while there is one, has its          *)
(* notification or another task about to give it, however set_interval,    *)
(* clear_interval and tick of tasks that share the interval interleave.    *)
THEOREM NoWakeupIsLost == Interval!Spec => []Interval!NoLostWakeup
<1>1. IntervalInv => Interval!NoLostWakeup
  BY DEF IntervalInv, WakeupsArrive, Interval!NoLostWakeup
<1> QED
  BY IntervalInvariance, <1>1, PTL

(* While a task ticks, nobody replaces or clears the interval it awaits:   *)
(* set_interval waits for the whole period.                                *)
TickerKeepsInterval ==
  \A task \in Task : pc[task] = "ticking" => interval' = interval

(* No task replaces or clears the interval of one that ticks: it needs the *)
(* mutex, and that one holds it.                                           *)
THEOREM TickersKeepTheirInterval == Interval!Spec => [][TickerKeepsInterval]_(Interval!vars)
<1>1. IntervalInv /\ [Interval!Next]_(Interval!vars) => [TickerKeepsInterval]_(Interval!vars)
  <2> SUFFICES ASSUME IntervalInv, Interval!Next, NEW task \in Task, pc[task] = "ticking"
               PROVE  interval' = interval
    BY DEF TickerKeepsInterval, Interval!vars
  <2>1. ASSUME NEW t \in users, Interval!Store(t) PROVE FALSE
    BY <2>1 DEF Interval!Store, IntervalInv, MutexHeld
  <2> QED
    BY <2>1 DEF Interval!Next, Interval!TickStep, Interval!ControlStep, Interval!Call, Interval!Reach, Interval!NotifyWaiters,
                Interval!Enlist, Interval!Lock, Interval!Wait, Interval!Tick, Interval!Restart, Interval!Wake, Interval!Drop, Interval!Elapse
<1> QED
  BY IntervalInvariance, <1>1, PTL DEF Interval!Spec

(* What is stored and requested is the number of an interval that was      *)
(* made.                                                                   *)
IntervalsTyped ==
  /\ interval \in 0 .. MaxSets /\ made \in 0 .. MaxSets /\ due \in BOOLEAN
  /\ request \in [Task -> 0 .. MaxSets]

(* Intervals are numbered.                                                 *)
LEMMA StepIntervalsTyped ==
  ASSUME MaxSets \in Nat, IntervalInv, IntervalsTyped, [Interval!Next]_(Interval!vars)
  PROVE  IntervalsTyped'
<1> USE DEF IntervalInv, CallsTyped, IntervalsTyped, Interval!None, Interval!Goto
<1>1. ASSUME NEW t \in users, Interval!Call(t) PROVE IntervalsTyped'
  BY <1>1 DEF Interval!Call
<1>2. ASSUME NEW t \in users, Interval!Store(t) PROVE IntervalsTyped'
  BY <1>2 DEF Interval!Store
<1>3. ASSUME NEW t \in users, Interval!Reach(t) \/ Interval!NotifyWaiters(t) PROVE IntervalsTyped'
  BY <1>3 DEF Interval!Reach, Interval!NotifyWaiters
<1>4. ASSUME NEW t \in users, Interval!Enlist(t) \/ Interval!TickStep(t) \/ Interval!Tick(t) \/ Interval!Drop(t) PROVE IntervalsTyped'
  BY <1>4 DEF Interval!Enlist, Interval!TickStep, Interval!Lock, Interval!Wait, Interval!Tick, Interval!Restart, Interval!Wake, Interval!Drop
<1>5. CASE Interval!Elapse
  BY <1>5 DEF Interval!Elapse
<1>6. CASE UNCHANGED Interval!vars
  BY <1>6 DEF Interval!vars
<1> QED
  BY <1>1, <1>2, <1>3, <1>4, <1>5, <1>6 DEF Interval!Next, Interval!ControlStep

(* A set of one element at most                                            *)
LEMMA Singletons ==
  ASSUME NEW S, S = {} \/ \E x : S = {x}
  PROVE  Interval!Cardinality(S) <= 1
<1>1. CASE S = {}
  <2>1. Cardinality(S) = 0
    BY <1>1, FS_EmptySet
  <2> QED
    BY <2>1 DEF Interval!Cardinality, Cardinality
<1>2. ASSUME NEW x, S = {x} PROVE Interval!Cardinality(S) <= 1
  <2>1. Cardinality(S) = 1
    BY <1>2, FS_Singleton
  <2>2. Interval!Cardinality(S) = Cardinality(S)
    BY DEF Interval!Cardinality, Cardinality
  <2> QED
    BY <2>1, <2>2
<1> QED
  BY <1>1, <1>2

(* Every variable keeps its type, and one task at most holds each mutex.   *)
THEOREM IntervalTypeCorrect == Interval!Spec => []Interval!TypeOK
<1> USE MachinesAssumption
<1>1. Interval!Init => IntervalsTyped
  <2> SUFFICES ASSUME Interval!Init PROVE IntervalsTyped
    OBVIOUS
  <2>1. 0 \in 0 .. MaxSets
    OBVIOUS
  <2>2. request \in [Task -> 0 .. MaxSets]
    BY <2>1 DEF Interval!Init, Interval!None
  <2> QED
    BY <2>1, <2>2 DEF Interval!Init, IntervalsTyped, Interval!None
<1>2. IntervalInv /\ IntervalsTyped => Interval!TypeOK
  <2> SUFFICES ASSUME IntervalInv, IntervalsTyped PROVE Interval!TypeOK
    OBVIOUS
  <2>1. lock = {} \/ \E task \in Task : lock = {task}
    BY DEF IntervalInv, MutexHeld
  <2>2. Interval!Cardinality(lock) <= 1
    BY <2>1, Singletons
  <2>3. Interval!Cardinality(guard) <= 1
    BY Singletons DEF IntervalInv, GuardHeld
  <2> QED
    BY <2>2, <2>3 DEF Interval!TypeOK, IntervalInv, CallsTyped, MutexHeld, GuardHeld, IntervalsTyped, Interval!Ticking, Interval!Setting, CallLabel
<1>3. IntervalInv /\ IntervalsTyped /\ [Interval!Next]_(Interval!vars) => IntervalsTyped'
  BY StepIntervalsTyped
<1> QED
  BY IntervalInvariance, <1>1, <1>2, <1>3, PTL DEF Interval!Spec


-------------------------------------------------------------------------------
(* The chunk cache *)

TaskLabel == {"lookup", "insert", "cell", "encoding", "done", "dead"}
Cell == {Cache!Empty} \cup {Cache!Filling(t) : t \in Joiner} \cup {Cache!Full(Cache!Encoded(v)) : v \in Version}

TasksTyped ==
  /\ at \in [Joiner -> TaskLabel] /\ version \in [Joiner -> Version]
  /\ DOMAIN found = Joiner /\ DOMAIN answer = Joiner
  /\ cells \in Seq(Cell) /\ encoded \in Seq({Cache!Key(v) : v \in Version})

(* Every key has a cell of its own.                                        *)
MapResolves ==
  /\ \A k \in DOMAIN packets : packets[k] \in DOMAIN cells /\ \E v \in Version : k = Cache!Key(v)
  /\ \A k, l \in DOMAIN packets : packets[k] = packets[l] => k = l

(* A task that is past the map has the cell of its client's key.           *)
CellsAreOnesOwn ==
  \A t \in Joiner : at[t] \in {"cell", "encoding", "done"} =>
    Cache!Key(version[t]) \in DOMAIN packets /\ found[t] = packets[Cache!Key(version[t])]

(* A cell is being filled by one task, which is encoding.                  *)
FillersEncode ==
  /\ \A c \in DOMAIN cells : \A t \in Joiner : cells[c] = Cache!Filling(t) => at[t] = "encoding" /\ found[t] = c
  /\ \A t \in Joiner : at[t] = "encoding" => cells[found[t]] = Cache!Filling(t)

(* What a cell holds belongs to its key, and a key that was encoded has a  *)
(* full cell: nobody encodes it again.                                     *)
ResultsStay ==
  /\ \A v, w \in Version :
       Cache!Key(v) \in DOMAIN packets /\ cells[packets[Cache!Key(v)]] = Cache!Full(Cache!Encoded(w)) => Cache!Encoded(w) = Cache!Encoded(v)
  /\ \A i \in DOMAIN encoded :
       encoded[i] \in DOMAIN packets /\ cells[packets[encoded[i]]].is = "full"
  /\ \A i, j \in DOMAIN encoded : encoded[i] = encoded[j] => i = j
  /\ \A t \in Joiner : at[t] = "done" => answer[t] = Cache!Encoded(version[t])

CacheInv == TasksTyped /\ MapResolves /\ CellsAreOnesOwn /\ FillersEncode /\ ResultsStay

-------------------------------------------------------------------------------
(* The key tells versions apart.                                           *)
LEMMA KeysDiffer == ASSUME NEW v, NEW w, Cache!Key(v) = Cache!Key(w) PROVE v = w
BY DEF Cache!Key

(* A cell is in one of three states.                                       *)
LEMMA CellStates ==
  /\ Cache!Empty.is = "empty"
  /\ \A t : Cache!Filling(t).is = "filling" /\ Cache!Filling(t).by = t
  /\ \A r : Cache!Full(r).is = "full" /\ Cache!Full(r).result = r
  /\ \A c \in Cell : c.is = "filling" => \E t \in Joiner : c = Cache!Filling(t)
  /\ \A c \in Cell : c.is = "full" => \E v \in Version : c = Cache!Full(Cache!Encoded(v))
  /\ \A c \in Cell : c.is = "empty" => c = Cache!Empty
BY DEF Cache!Empty, Cache!Filling, Cache!Full, Cell

(* There is no cell.                                                       *)
LEMMA InitCache == Cache!Init => CacheInv
BY DEF Cache!Init, CacheInv, TasksTyped, MapResolves, CellsAreOnesOwn, FillersEncode, ResultsStay, TaskLabel

(* A key that is found names a cell.                                       *)
LEMMA LookupKeeps == ASSUME CacheInv, NEW t \in Joiner, Cache!Lookup(t) PROVE CacheInv'
BY DEF Cache!Lookup, Cache!Goto, CacheInv, TasksTyped, MapResolves, CellsAreOnesOwn, FillersEncode, ResultsStay, TaskLabel

(* A new cell is nobody's yet.                                             *)
LEMMA InsertKeeps == ASSUME CacheInv, NEW t \in Joiner, Cache!Insert(t) PROVE CacheInv'
<1> DEFINE key == Cache!Key(version[t])
<1> USE DEF CacheInv, TasksTyped
<1>1. CASE key \in DOMAIN packets
  BY <1>1 DEF Cache!Insert, Cache!Goto, MapResolves, CellsAreOnesOwn, FillersEncode, ResultsStay, TaskLabel
<1>2. CASE key \notin DOMAIN packets
  <2>1. /\ cells' = Append(cells, Cache!Empty)
        /\ packets' = Cache!Put(packets, key, Len(cells) + 1)
        /\ found' = [found EXCEPT ![t] = Len(cells) + 1]
        /\ at' = [at EXCEPT ![t] = "cell"] /\ at[t] = "insert"
        /\ UNCHANGED <<version, answer, encoded>>
    BY <1>2 DEF Cache!Insert, Cache!Goto
  <2>2. /\ cells' \in Seq(Cell) /\ DOMAIN cells' = DOMAIN cells \cup {Len(cells) + 1}
        /\ Len(cells) + 1 \notin DOMAIN cells
        /\ \A c \in DOMAIN cells : cells'[c] = cells[c]
        /\ cells'[Len(cells) + 1] = Cache!Empty
    BY <2>1 DEF Cell
  <2>3. /\ DOMAIN packets' = DOMAIN packets \cup {key}
        /\ packets'[key] = Len(cells) + 1
        /\ \A k \in DOMAIN packets : packets'[k] = packets[k]
    BY <2>1, <1>2 DEF Cache!Put
  <2>4. TasksTyped'
    BY <2>1, <2>2 DEF TaskLabel
  <2> HIDE DEF key
  <2>5. MapResolves'
    <3>1. \A k \in DOMAIN packets' : packets'[k] \in DOMAIN cells' /\ \E v \in Version : k = Cache!Key(v)
      <4>1. \E v \in Version : key = Cache!Key(v)
        BY DEF key
      <4> QED
        BY <4>1, <2>2, <2>3 DEF MapResolves
    <3>2. ASSUME NEW k \in DOMAIN packets', NEW l \in DOMAIN packets', packets'[k] = packets'[l]
          PROVE  k = l
      BY <3>2, <2>2, <2>3 DEF MapResolves
    <3> QED
      BY <3>1, <3>2, <2>1 DEF MapResolves
  <2>6. CellsAreOnesOwn'
    BY <2>1, <2>3 DEF key, CellsAreOnesOwn
  <2>7. FillersEncode'
    BY <2>1, <2>2, CellStates DEF FillersEncode, MapResolves, CellsAreOnesOwn
  <2>8. ResultsStay'
    <3>1. ASSUME NEW v \in Version, NEW w \in Version, Cache!Key(v) \in DOMAIN packets',
                 cells'[packets'[Cache!Key(v)]] = Cache!Full(Cache!Encoded(w))
          PROVE  Cache!Encoded(w) = Cache!Encoded(v)
      <4>1. CASE Cache!Key(v) = key
        BY <3>1, <4>1, <2>2, <2>3, CellStates
      <4>2. CASE Cache!Key(v) # key
        BY <3>1, <4>2, <2>2, <2>3 DEF MapResolves, ResultsStay
      <4> QED
        BY <4>1, <4>2
    <3>2. ASSUME NEW i \in DOMAIN encoded
          PROVE  encoded[i] \in DOMAIN packets' /\ cells'[packets'[encoded[i]]].is = "full"
      BY <2>2, <2>3 DEF MapResolves, ResultsStay
    <3> QED
      BY <3>1, <3>2, <2>1 DEF ResultsStay
  <2> QED
    BY <2>4, <2>5, <2>6, <2>7, <2>8
<1> QED
  BY <1>1, <1>2

(* Whoever finds the cell empty has it to itself from then on.             *)
LEMMA EnterKeeps == ASSUME CacheInv, NEW t \in Joiner, Cache!Enter(t) PROVE CacheInv'
<1> DEFINE c == found[t]
<1> USE DEF CacheInv, TasksTyped
<1>1. /\ at[t] = "cell" /\ Cache!Key(version[t]) \in DOMAIN packets /\ c = packets[Cache!Key(version[t])]
      /\ c \in DOMAIN cells /\ cells[c] \in Cell
  BY DEF Cache!Enter, CellsAreOnesOwn, MapResolves
<1>2. CASE cells[c] = Cache!Empty
  <2>1. /\ cells' = [cells EXCEPT ![c] = Cache!Filling(t)] /\ at' = [at EXCEPT ![t] = "encoding"]
        /\ UNCHANGED <<packets, version, found, answer, encoded>>
    BY <1>2 DEF Cache!Enter, Cache!Goto
  <2>2. /\ cells' \in Seq(Cell) /\ DOMAIN cells' = DOMAIN cells
        /\ \A d \in DOMAIN cells : d # c => cells'[d] = cells[d]
        /\ cells'[c] = Cache!Filling(t)
    BY <1>1, <2>1 DEF Cell
  <2> HIDE DEF c
  <2>3. FillersEncode'
    BY <1>1, <1>2, <2>1, <2>2, CellStates DEF c, FillersEncode, CellsAreOnesOwn, MapResolves
  <2>4. ResultsStay'
    BY <1>1, <1>2, <2>1, <2>2, CellStates DEF ResultsStay, MapResolves
  <2>5. TasksTyped' /\ MapResolves' /\ CellsAreOnesOwn'
    BY <1>1, <2>1, <2>2 DEF MapResolves, CellsAreOnesOwn, TaskLabel
  <2> QED
    BY <2>3, <2>4, <2>5
<1>3. CASE cells[c] # Cache!Empty
  <2>1. /\ answer' = [answer EXCEPT ![t] = cells[c].result] /\ at' = [at EXCEPT ![t] = "done"]
        /\ cells[c].is # "filling"
        /\ UNCHANGED <<packets, cells, version, found, encoded>>
    BY <1>3 DEF Cache!Enter, Cache!Goto
  <2>2. cells[c].result = Cache!Encoded(version[t])
    <3>1. PICK w \in Version : cells[c] = Cache!Full(Cache!Encoded(w))
      BY <1>1, <1>3, <2>1, CellStates DEF Cell
    <3>2. Cache!Encoded(w) = Cache!Encoded(version[t])
      BY <1>1, <3>1 DEF ResultsStay
    <3> QED
      BY <3>1, <3>2, CellStates
  <2> HIDE DEF c
  <2>3. ResultsStay'
    BY <2>1, <2>2 DEF ResultsStay, Cache!Encoded, Cache!CenterChunk
  <2>4. TasksTyped' /\ MapResolves' /\ CellsAreOnesOwn' /\ FillersEncode'
    BY <1>1, <2>1 DEF MapResolves, CellsAreOnesOwn, FillersEncode, TaskLabel
  <2> QED
    BY <2>3, <2>4
<1> QED
  BY <1>2, <1>3

(* What the cell of a task that encodes is, and that it is no other's.     *)
LEMMA OwnCell ==
  ASSUME CacheInv, NEW t \in Joiner, at[t] = "encoding"
  PROVE  /\ found[t] \in DOMAIN cells /\ cells[found[t]] = Cache!Filling(t)
         /\ Cache!Key(version[t]) \in DOMAIN packets /\ found[t] = packets[Cache!Key(version[t])]
         /\ \A u \in Joiner : u # t /\ at[u] = "encoding" => found[u] # found[t]
BY CellStates DEF CacheInv, CellsAreOnesOwn, MapResolves, FillersEncode

(* A chunk is encoded for its own cell, once.                              *)
LEMMA EncodeKeeps == ASSUME CacheInv, NEW t \in Joiner, Cache!Encode(t) PROVE CacheInv'
<1> DEFINE c == found[t]
           result == Cache!Encoded(version[t])
<1> USE DEF CacheInv, TasksTyped
<1>1. /\ cells' = [cells EXCEPT ![c] = Cache!Full(result)] /\ at' = [at EXCEPT ![t] = "done"]
      /\ at[t] = "encoding" /\ answer' = [answer EXCEPT ![t] = result]
      /\ encoded' = Append(encoded, Cache!Key(version[t]))
      /\ UNCHANGED <<packets, version, found>>
  BY DEF Cache!Encode, Cache!Goto
<1>2. /\ c \in DOMAIN cells /\ cells[c] = Cache!Filling(t)
      /\ Cache!Key(version[t]) \in DOMAIN packets /\ c = packets[Cache!Key(version[t])]
      /\ \A u \in Joiner : u # t /\ at[u] = "encoding" => found[u] # c
  BY <1>1, OwnCell
<1>3. /\ cells' \in Seq(Cell) /\ DOMAIN cells' = DOMAIN cells
      /\ \A d \in DOMAIN cells : d # c => cells'[d] = cells[d]
      /\ cells'[c] = Cache!Full(result)
  BY <1>1, <1>2 DEF Cell
<1>4. /\ encoded' \in Seq({Cache!Key(v) : v \in Version})
      /\ DOMAIN encoded' = DOMAIN encoded \cup {Len(encoded) + 1}
      /\ \A i \in DOMAIN encoded : encoded'[i] = encoded[i] /\ i # Len(encoded) + 1
      /\ encoded'[Len(encoded) + 1] = Cache!Key(version[t])
  BY <1>1
<1>5. Cache!Key(version[t]) \notin {encoded[i] : i \in DOMAIN encoded}
  BY <1>2, CellStates DEF ResultsStay
<1> HIDE DEF c, result
<1>6. FillersEncode'
  BY <1>1, <1>2, <1>3, CellStates DEF c, FillersEncode, CellsAreOnesOwn, MapResolves
<1>7. ASSUME NEW v \in Version, NEW w \in Version, Cache!Key(v) \in DOMAIN packets,
             cells'[packets[Cache!Key(v)]] = Cache!Full(Cache!Encoded(w))
      PROVE  Cache!Encoded(w) = Cache!Encoded(v)
  <2>1. CASE Cache!Key(v) = Cache!Key(version[t])
    <3>1. v = version[t]
      BY <2>1, KeysDiffer
    <3>2. Cache!Full(Cache!Encoded(w)) = Cache!Full(result)
      BY <1>2, <1>3, <1>7, <2>1
    <3> QED
      BY <3>1, <3>2, CellStates DEF result
  <2>2. CASE Cache!Key(v) # Cache!Key(version[t])
    <3>1. packets[Cache!Key(v)] \in DOMAIN cells /\ packets[Cache!Key(v)] # c
      BY <1>2, <1>7, <2>2 DEF MapResolves
    <3> QED
      BY <1>3, <1>7, <3>1 DEF ResultsStay
  <2> QED
    BY <2>1, <2>2
<1>8. ASSUME NEW i \in DOMAIN encoded'
      PROVE  encoded'[i] \in DOMAIN packets /\ cells'[packets[encoded'[i]]].is = "full"
  <2>1. CASE i = Len(encoded) + 1
    BY <1>2, <1>3, <1>4, <2>1, CellStates
  <2>2. CASE i \in DOMAIN encoded
    BY <1>2, <1>3, <1>4, <1>5, <2>2, CellStates DEF ResultsStay, MapResolves
  <2> QED
    BY <1>4, <2>1, <2>2
<1>9. \A i, j \in DOMAIN encoded' : encoded'[i] = encoded'[j] => i = j
  BY <1>4, <1>5 DEF ResultsStay
<1>10. \A u \in Joiner : at'[u] = "done" => answer'[u] = Cache!Encoded(version[u])
  BY <1>1 DEF ResultsStay, result
<1>11. ResultsStay'
  BY <1>1, <1>7, <1>8, <1>9, <1>10 DEF ResultsStay
<1>12. TasksTyped' /\ MapResolves' /\ CellsAreOnesOwn'
  BY <1>1, <1>2, <1>3, <1>4 DEF MapResolves, CellsAreOnesOwn, TaskLabel
<1> QED
  BY <1>6, <1>11, <1>12

(* Whoever panics leaves the cell empty, for others to fill.               *)
LEMMA PanicKeeps == ASSUME CacheInv, NEW t \in Joiner, Cache!Panic(t) PROVE CacheInv'
<1> DEFINE c == found[t]
<1> USE DEF CacheInv, TasksTyped
<1>1. /\ cells' = [cells EXCEPT ![c] = Cache!Empty] /\ at' = [at EXCEPT ![t] = "dead"] /\ at[t] = "encoding"
      /\ UNCHANGED <<packets, version, found, answer, encoded>>
  BY DEF Cache!Panic, Cache!Goto
<1>2. /\ c \in DOMAIN cells /\ cells[c] = Cache!Filling(t)
      /\ \A u \in Joiner : u # t /\ at[u] = "encoding" => found[u] # c
  BY <1>1, OwnCell
<1>3. /\ cells' \in Seq(Cell) /\ DOMAIN cells' = DOMAIN cells
      /\ \A d \in DOMAIN cells : d # c => cells'[d] = cells[d]
      /\ cells'[c] = Cache!Empty
  BY <1>1, <1>2 DEF Cell
<1> HIDE DEF c
<1>4. FillersEncode'
  BY <1>1, <1>2, <1>3, CellStates DEF c, FillersEncode, CellsAreOnesOwn, MapResolves
<1>5. ResultsStay'
  BY <1>1, <1>2, <1>3, CellStates DEF ResultsStay, MapResolves
<1>6. TasksTyped' /\ MapResolves' /\ CellsAreOnesOwn'
  BY <1>1, <1>2, <1>3 DEF MapResolves, CellsAreOnesOwn, TaskLabel
<1> QED
  BY <1>4, <1>5, <1>6

(* Every step keeps the invariant.                                         *)
LEMMA StepCache == CacheInv /\ [Cache!Next]_(Cache!vars) => CacheInv'
<1>1. ASSUME CacheInv, UNCHANGED Cache!vars PROVE CacheInv'
  BY <1>1 DEF Cache!vars, CacheInv, TasksTyped, MapResolves, CellsAreOnesOwn, FillersEncode, ResultsStay
<1> QED
  BY <1>1, LookupKeeps, InsertKeeps, EnterKeeps, EncodeKeeps, PanicKeeps DEF Cache!Next, Cache!Step

(* However the tasks of the players who join interleave, and whoever of    *)
(* them panics: no key is encoded twice, every player gets what encoding   *)
(* for their own client gives, and who waits for a cell waits for a task   *)
(* that fills it.                                                          *)
THEOREM ChunksAreAlwaysEncodedOnce == Cache!Spec => []ChunksAreEncodedOnce
<1>1. CacheInv => ChunksAreEncodedOnce
  <2> SUFFICES ASSUME CacheInv PROVE ChunksAreEncodedOnce
    OBVIOUS
  <2>1. ASSUME NEW c \in DOMAIN cells, cells[c].is = "filling"
        PROVE  at[cells[c].by] = "encoding" /\ found[cells[c].by] = c
    <3>1. PICK t \in Joiner : cells[c] = Cache!Filling(t)
      BY <2>1, CellStates DEF CacheInv, TasksTyped
    <3> QED
      BY <3>1, CellStates DEF CacheInv, FillersEncode
  <2> QED
    BY <2>1 DEF CacheInv, ResultsStay, ChunksAreEncodedOnce, Cache!ChunksAreEncodedOnce
<1> QED
  BY InitCache, StepCache, <1>1, PTL DEF Cache!Spec

-------------------------------------------------------------------------------
(* The conversation *)

AbilitiesPacket == [is : {"abilities"}, allow_flying : BOOLEAN, flying : BOOLEAN, flying_speed : Speed]
Flight == [allowed : BOOLEAN, flying : BOOLEAN, speed : Speed]
Sent == Talk!Line \cup [kind : {"abilities"}, flying : BOOLEAN]

ConversationTyped ==
  /\ server \in Flight /\ client \in Flight
  /\ to_server \in Seq(Sent) /\ to_client \in Seq(AbilitiesPacket \cup {Talk!Feedback, Talk!Other})
  /\ ages \in [chat : Nat, command : Nat, heard : Nat]

(* What the client will have once it has read everything: the last         *)
(* abilities under way, or those it has.                                   *)
IsLast(j) == to_client[j].is = "abilities" /\ \A i \in DOMAIN to_client : i > j => to_client[i].is # "abilities"
LastAgrees ==
  /\ \A j \in DOMAIN to_client : IsLast(j) => to_client[j].allow_flying = server.allowed /\ to_client[j].flying_speed = server.speed
  /\ (\A j \in DOMAIN to_client : to_client[j].is # "abilities") =>
       client.allowed = server.allowed /\ client.speed = server.speed

(* The attempt that was heard counted as well.                             *)
HeardCounts == antispam => ages.chat <= ages.heard

TalkInv == ConversationTyped /\ LastAgrees /\ HeardCounts

(* Packets about flight are told from others, and say what they are of.    *)
LEMMA PacketsOfTalk ==
  /\ Talk!Feedback.is # "abilities" /\ Talk!Other.is # "abilities"
  /\ \A a \in AbilitiesPacket : a.is = "abilities" /\ a.allow_flying \in BOOLEAN /\ a.flying \in BOOLEAN /\ a.flying_speed \in Speed
  /\ \A a, f \in BOOLEAN, s \in Speed :
       /\ Talk!Abilities(a, f, s) \in AbilitiesPacket /\ Talk!Abilities(a, f, s).is = "abilities"
       /\ Talk!Abilities(a, f, s).allow_flying = a /\ Talk!Abilities(a, f, s).flying = f /\ Talk!Abilities(a, f, s).flying_speed = s
BY DEF Talk!Feedback, Talk!Other, AbilitiesPacket, Talk!Abilities

(* The first abilities under way are those the server has.                 *)
LEMMA InitTalk == ASSUME Talk!ConversationAssumption, Talk!Init PROVE TalkInv
<1>1. PICK allow \in BOOLEAN, spectator \in BOOLEAN :
        LET abilities == Talk!Abilities(allow \/ spectator, spectator, DefaultSpeed) IN
          /\ server = [allowed |-> abilities.allow_flying, flying |-> abilities.flying, speed |-> DefaultSpeed]
          /\ client = [allowed |-> FALSE, flying |-> FALSE, speed |-> DefaultSpeed]
          /\ to_client = <<abilities>>
  BY DEF Talk!Init
<1>2. PICK a : a = Talk!Abilities(allow \/ spectator, spectator, DefaultSpeed)
  OBVIOUS
<1>3. a \in AbilitiesPacket /\ a.is = "abilities" /\ a.allow_flying \in BOOLEAN /\ a.flying \in BOOLEAN /\ a.flying_speed = DefaultSpeed
  <2>1. (allow \/ spectator) \in BOOLEAN /\ DefaultSpeed \in Speed
    BY DEF Talk!ConversationAssumption
  <2> QED
    BY <1>2, <2>1, PacketsOfTalk
<1>4. /\ server = [allowed |-> a.allow_flying, flying |-> a.flying, speed |-> DefaultSpeed]
      /\ client = [allowed |-> FALSE, flying |-> FALSE, speed |-> DefaultSpeed]
      /\ to_client = <<a>>
  BY <1>1, <1>2
<1>5. to_server = <<>> /\ ages = [chat |-> Talk!Longest, command |-> Talk!Longest, heard |-> Talk!Longest]
  BY DEF Talk!Init, Talk!Fresh
<1>6. ConversationTyped
  <2>1. server \in Flight /\ client \in Flight
    BY <1>3, <1>4 DEF Flight, Talk!ConversationAssumption
  <2>2. to_server \in Seq(Sent) /\ to_client \in Seq(AbilitiesPacket \cup {Talk!Feedback, Talk!Other})
    BY <1>3, <1>4, <1>5
  <2>3. Talk!Longest \in Nat
    BY DEF Talk!Longest, Talk!ConversationAssumption
  <2> QED
    BY <1>5, <2>1, <2>2, <2>3 DEF ConversationTyped
<1>7. LastAgrees
  <2>1. DOMAIN to_client = {1} /\ to_client[1] = a
    BY <1>4
  <2> QED
    BY <1>3, <1>4, <2>1 DEF LastAgrees
<1>8. HeardCounts
  BY <1>5, <1>6 DEF HeardCounts, ConversationTyped
<1> QED
  BY <1>6, <1>7, <1>8 DEF TalkInv

(* A packet that is not about flight changes nothing of it.                *)
LEMMA SendOther ==
  ASSUME TalkInv, NEW packet \in {Talk!Feedback, Talk!Other}, to_client' = Append(to_client, packet), UNCHANGED <<server, client>>
  PROVE  to_client' \in Seq(AbilitiesPacket \cup {Talk!Feedback, Talk!Other}) /\ LastAgrees'
<1>1. to_client \in Seq(AbilitiesPacket \cup {Talk!Feedback, Talk!Other})
  BY DEF TalkInv, ConversationTyped
<1>2. PICK n : n = Len(to_client)
  OBVIOUS
<1>3. /\ to_client' \in Seq(AbilitiesPacket \cup {Talk!Feedback, Talk!Other}) /\ n \in Nat
      /\ DOMAIN to_client' = 1 .. n + 1 /\ DOMAIN to_client = 1 .. n
      /\ to_client'[n + 1] = packet /\ \A i \in 1 .. n : to_client'[i] = to_client[i]
  BY <1>1, <1>2
<1>4. packet.is # "abilities"
  BY PacketsOfTalk
<1>5. ASSUME NEW j \in DOMAIN to_client', IsLast(j)'
      PROVE  to_client'[j].allow_flying = server.allowed /\ to_client'[j].flying_speed = server.speed
  <2>1. j \in 1 .. n
    BY <1>3, <1>4, <1>5 DEF IsLast
  <2>2. IsLast(j)
    BY <1>3, <1>5, <2>1 DEF IsLast
  <2> QED
    BY <1>3, <2>1, <2>2 DEF TalkInv, LastAgrees
<1>6. ASSUME \A j \in DOMAIN to_client' : to_client'[j].is # "abilities"
      PROVE  client.allowed = server.allowed /\ client.speed = server.speed
  <2>1. \A j \in DOMAIN to_client : to_client[j].is # "abilities"
    <3>1. \A j \in 1 .. n : j \in 1 .. n + 1
      BY <1>3
    <3> QED
      BY <1>3, <1>6, <3>1
  <2> QED
    BY <2>1 DEF TalkInv, LastAgrees
<1> QED
  BY <1>3, <1>5, <1>6 DEF LastAgrees

(* Abilities that say what the server has from now on                      *)
LEMMA SendAbilities ==
  ASSUME TalkInv, NEW a \in AbilitiesPacket, to_client' = Append(to_client, a),
         a.allow_flying = server.allowed', a.flying_speed = server.speed'
  PROVE  to_client' \in Seq(AbilitiesPacket \cup {Talk!Feedback, Talk!Other}) /\ LastAgrees'
<1>1. to_client \in Seq(AbilitiesPacket \cup {Talk!Feedback, Talk!Other})
  BY DEF TalkInv, ConversationTyped
<1>2. PICK n : n = Len(to_client)
  OBVIOUS
<1>3. /\ to_client' \in Seq(AbilitiesPacket \cup {Talk!Feedback, Talk!Other}) /\ n \in Nat
      /\ DOMAIN to_client' = 1 .. n + 1 /\ to_client'[n + 1] = a
  BY <1>1, <1>2
<1>4. a.is = "abilities" /\ n + 1 \in 1 .. n + 1
  BY <1>3, PacketsOfTalk
<1>5. ASSUME NEW j \in DOMAIN to_client', IsLast(j)' PROVE j = n + 1
  <2>1. ASSUME j # n + 1 PROVE FALSE
    <3>1. n + 1 > j
      BY <1>3, <2>1
    <3> QED
      BY <1>3, <1>4, <1>5, <3>1 DEF IsLast
  <2> QED
    BY <2>1
<1> QED
  BY <1>3, <1>4, <1>5 DEF LastAgrees

(* A client takes on what the abilities it reads say, and they were the    *)
(* last or others are behind them.                                         *)
LEMMA ReceiveKeeps == ASSUME TalkInv, Talk!Receive PROVE TalkInv'
<1>1. /\ to_client # <<>> /\ to_client' = Tail(to_client)
      /\ client' = IF Head(to_client).is = "abilities"
                   THEN [allowed |-> Head(to_client).allow_flying, flying |-> Head(to_client).flying, speed |-> Head(to_client).flying_speed]
                   ELSE client
      /\ UNCHANGED <<antispam, to_server, server, ages>>
  BY DEF Talk!Receive
<1>2. to_client \in Seq(AbilitiesPacket \cup {Talk!Feedback, Talk!Other}) /\ client \in Flight
  BY DEF TalkInv, ConversationTyped
<1>3. PICK n : n = Len(to_client)
  OBVIOUS
<1>4. PICK head : head = Head(to_client)
  OBVIOUS
<1>5. /\ n \in Nat \ {0} /\ head = to_client[1] /\ head \in AbilitiesPacket \cup {Talk!Feedback, Talk!Other}
      /\ to_client' \in Seq(AbilitiesPacket \cup {Talk!Feedback, Talk!Other})
      /\ DOMAIN to_client = 1 .. n /\ DOMAIN to_client' = 1 .. n - 1
      /\ \A i \in 1 .. n - 1 : to_client'[i] = to_client[i + 1]
  BY <1>1, <1>2, <1>3, <1>4
<1>6. client' \in Flight
  <2>1. CASE head.is = "abilities"
    <3>1. head \in AbilitiesPacket
      BY <1>5, <2>1, PacketsOfTalk
    <3>2. head.allow_flying \in BOOLEAN /\ head.flying \in BOOLEAN /\ head.flying_speed \in Speed
      BY <3>1, PacketsOfTalk
    <3> QED
      BY <1>1, <1>4, <2>1, <3>2 DEF Flight
  <2>2. CASE head.is # "abilities"
    BY <1>1, <1>2, <1>4, <2>2
  <2> QED
    BY <2>1, <2>2
<1>7. ConversationTyped'
  BY <1>1, <1>5, <1>6 DEF TalkInv, ConversationTyped
<1>8. ASSUME NEW j \in DOMAIN to_client', IsLast(j)'
      PROVE  to_client'[j].allow_flying = server.allowed /\ to_client'[j].flying_speed = server.speed
  <2>1. j \in 1 .. n - 1 /\ j + 1 \in 1 .. n /\ to_client'[j] = to_client[j + 1]
    BY <1>5
  <2>2. IsLast(j + 1)
    <3>1. ASSUME NEW i \in 1 .. n, i > j + 1 PROVE to_client[i].is # "abilities"
      <4>1. i - 1 \in 1 .. n - 1 /\ i - 1 > j /\ (i - 1) + 1 = i
        BY <1>5, <2>1, <3>1
      <4>2. to_client'[i - 1].is # "abilities"
        BY <1>5, <1>8, <4>1 DEF IsLast
      <4>3. to_client'[i - 1] = to_client[i]
        BY <1>5, <4>1
      <4> QED
        BY <4>2, <4>3
    <3>2. to_client[j + 1].is = "abilities"
      BY <1>8, <2>1 DEF IsLast
    <3> QED
      BY <1>5, <3>1, <3>2 DEF IsLast
  <2> QED
    BY <1>5, <2>1, <2>2 DEF TalkInv, LastAgrees
<1>9. ASSUME \A j \in DOMAIN to_client' : to_client'[j].is # "abilities"
      PROVE  client'.allowed = server.allowed /\ client'.speed = server.speed
  <2>1. ASSUME NEW i \in 1 .. n, i # 1 PROVE to_client[i].is # "abilities"
    <3>1. i - 1 \in 1 .. n - 1 /\ (i - 1) + 1 = i
      BY <1>5, <2>1
    <3>2. to_client'[i - 1] = to_client[i]
      BY <1>5, <3>1
    <3> QED
      BY <1>5, <1>9, <3>1, <3>2
  <2>2. CASE head.is = "abilities"
    <3>1. 1 \in 1 .. n /\ IsLast(1)
      BY <1>5, <2>1, <2>2 DEF IsLast
    <3>2. head.allow_flying = server.allowed /\ head.flying_speed = server.speed
      BY <1>5, <3>1 DEF TalkInv, LastAgrees
    <3> QED
      BY <1>1, <1>4, <2>2, <3>2
  <2>3. CASE head.is # "abilities"
    <3>1. \A j \in DOMAIN to_client : to_client[j].is # "abilities"
      BY <1>5, <2>1, <2>3
    <3> QED
      BY <1>1, <1>4, <2>3, <3>1 DEF TalkInv, LastAgrees
  <2> QED
    BY <2>2, <2>3
<1>10. LastAgrees'
  BY <1>1, <1>8, <1>9 DEF LastAgrees
<1>11. HeardCounts'
  BY <1>1 DEF TalkInv, HeardCounts
<1> QED
  BY <1>7, <1>10, <1>11 DEF TalkInv

(* A packet is taken off the head of what the client sent.                 *)
LEMMA Handled ==
  ASSUME TalkInv, NEW kinds, Talk!Handle(kinds)
  PROVE  /\ to_server' \in Seq(Sent) /\ Head(to_server) \in Sent /\ Head(to_server).kind \in kinds
         /\ UNCHANGED <<antispam, client, lines>>
<1>1. to_server \in Seq(Sent) /\ to_server # <<>> /\ to_server' = Tail(to_server)
  BY DEF TalkInv, ConversationTyped, Talk!Handle
<1> QED
  BY <1>1 DEF Talk!Handle

(* No handler but that of a message makes one heard, and all of them keep  *)
(* what has counted.                                                       *)
LEMMA AgesTyped ==
  ASSUME TalkInv, NEW kind
  PROVE  /\ Talk!AfterCommand(kind) \in [chat : Nat, command : Nat, heard : Nat]
         /\ Talk!AfterCommand(kind).chat = ages.chat /\ Talk!AfterCommand(kind).heard = ages.heard
         /\ Talk!ConsumeChat(Talk!AfterCommand(kind)) \in [chat : Nat, command : Nat, heard : Nat]
         /\ Talk!ConsumeChat(Talk!AfterCommand(kind)).heard = ages.heard
         /\ antispam => Talk!ConsumeChat(Talk!AfterCommand(kind)).chat = 0
<1>1. ages \in [chat : Nat, command : Nat, heard : Nat]
  BY DEF TalkInv, ConversationTyped
<1>2. PICK now : now = Talk!AfterCommand(kind)
  OBVIOUS
<1>3. now \in [chat : Nat, command : Nat, heard : Nat] /\ now.chat = ages.chat /\ now.heard = ages.heard
  BY <1>1, <1>2 DEF Talk!AfterCommand
<1>4. /\ Talk!ConsumeChat(now) \in [chat : Nat, command : Nat, heard : Nat]
      /\ Talk!ConsumeChat(now).heard = ages.heard /\ (antispam => Talk!ConsumeChat(now).chat = 0)
  BY <1>3 DEF Talk!ConsumeChat
<1> QED
  BY <1>2, <1>3, <1>4

(* A client says something.                                                *)
LEMMA SayKeeps == ASSUME TalkInv, Talk!Say PROVE TalkInv'
<1>1. PICK line \in Talk!Line : to_server' = Append(to_server, line)
  BY DEF Talk!Say
<1>2. to_server' \in Seq(Sent)
  BY <1>1 DEF TalkInv, ConversationTyped, Sent
<1>3. UNCHANGED <<antispam, to_client, server, client, ages>>
  BY DEF Talk!Say
<1> QED
  BY <1>2, <1>3 DEF TalkInv, ConversationTyped, LastAgrees, IsLast, HeardCounts

(* A client changes its mind about flying, and the server hears of it.     *)
LEMMA ToggleFlightKeeps == ASSUME TalkInv, Talk!ToggleFlight PROVE TalkInv'
<1>1. /\ client' = [client EXCEPT !.flying = ~@]
      /\ to_server' = Append(to_server, [kind |-> "abilities", flying |-> ~client.flying])
      /\ UNCHANGED <<antispam, to_client, server, ages>>
  BY DEF Talk!ToggleFlight
<1>2. client \in Flight
  BY DEF TalkInv, ConversationTyped
<1>3. (~client.flying) \in BOOLEAN
  OBVIOUS
<1>4. client' \in Flight /\ client'.allowed = client.allowed /\ client'.speed = client.speed
  BY <1>1, <1>2, <1>3 DEF Flight
<1>5. [kind |-> "abilities", flying |-> ~client.flying] \in Sent
  BY <1>3 DEF Sent
<1>6. to_server' \in Seq(Sent)
  BY <1>1, <1>5 DEF TalkInv, ConversationTyped
<1> QED
  BY <1>1, <1>4, <1>6 DEF TalkInv, ConversationTyped, LastAgrees, IsLast, HeardCounts

(* Time goes by for all ages alike, up to the longest that is told apart.  *)
LEMMA TickKeeps == ASSUME TalkInv, Talk!ConversationAssumption, Talk!Tick PROVE TalkInv'
<1>1. ages' = [k \in DOMAIN ages |-> Talk!Older(ages[k])] /\ UNCHANGED <<antispam, to_server, to_client, server, client>>
  BY DEF Talk!Tick
<1>2. ages \in [chat : Nat, command : Nat, heard : Nat]
  BY DEF TalkInv, ConversationTyped
<1>3. Talk!Longest \in Nat
  BY DEF Talk!Longest, Talk!ConversationAssumption
<1>4. \A a \in Nat : Talk!Older(a) \in Nat /\ (a = Talk!Longest => Talk!Older(a) = a) /\ (a < Talk!Longest => Talk!Older(a) = a + 1) /\ (a > Talk!Longest => Talk!Older(a) = a)
  BY <1>3 DEF Talk!Older
<1>5. \A a, b \in Nat : a <= b => Talk!Older(a) <= Talk!Older(b)
  BY <1>3 DEF Talk!Older
<1>6. DOMAIN ages = {"chat", "command", "heard"} /\ ages["chat"] \in Nat /\ ages["command"] \in Nat /\ ages["heard"] \in Nat
  BY <1>2
<1>7. ages' = [chat |-> Talk!Older(ages.chat), command |-> Talk!Older(ages.command), heard |-> Talk!Older(ages.heard)]
  BY <1>1, <1>6
<1>8. ages' \in [chat : Nat, command : Nat, heard : Nat]
  BY <1>4, <1>6, <1>7
<1>9. HeardCounts'
  BY <1>1, <1>5, <1>6, <1>7 DEF TalkInv, HeardCounts
<1> QED
  BY <1>1, <1>8, <1>9 DEF TalkInv, ConversationTyped, LastAgrees, IsLast

(* A command too soon after another is dropped.                            *)
LEMMA DropCommandKeeps == ASSUME TalkInv, Talk!DropCommand PROVE TalkInv'
<1>1. to_server' \in Seq(Sent) /\ UNCHANGED <<antispam, client, to_client, server, ages>>
  BY Handled DEF Talk!DropCommand
<1> QED
  BY <1>1 DEF TalkInv, ConversationTyped, LastAgrees, IsLast, HeardCounts

(* A message that is refused or held back                                  *)
LEMMA TellKeeps ==
  ASSUME TalkInv, NEW kinds, Talk!Handle(kinds), Talk!Send(Talk!Feedback), UNCHANGED server,
         ages' \in [chat : Nat, command : Nat, heard : Nat], HeardCounts'
  PROVE  TalkInv'
<1>1. to_server' \in Seq(Sent) /\ UNCHANGED <<antispam, client>>
  BY Handled
<1>2. to_client' = Append(to_client, Talk!Feedback)
  BY DEF Talk!Send
<1>3. to_client' \in Seq(AbilitiesPacket \cup {Talk!Feedback, Talk!Other}) /\ LastAgrees'
  BY <1>1, <1>2, SendOther
<1> QED
  BY <1>1, <1>3 DEF TalkInv, ConversationTyped

(* A handler that counts an attempt leaves the invariant of the ages.      *)
LEMMA AgesCount ==
  ASSUME TalkInv, NEW kind, UNCHANGED antispam,
         ages' = Talk!AfterCommand(kind) \/ ages' = Talk!ConsumeChat(Talk!AfterCommand(kind))
  PROVE  ages' \in [chat : Nat, command : Nat, heard : Nat] /\ HeardCounts'
<1>1. ages.chat \in Nat /\ ages.heard \in Nat
  BY DEF TalkInv, ConversationTyped
<1>2. ages' \in [chat : Nat, command : Nat, heard : Nat]
  BY AgesTyped
<1>3. ages'.heard = ages.heard /\ (ages'.chat = ages.chat \/ (antispam => ages'.chat = 0))
  BY AgesTyped
<1> QED
  BY <1>1, <1>2, <1>3 DEF TalkInv, HeardCounts

(* A text that may not be said is refused, ...                             *)
LEMMA RefuseTextKeeps == ASSUME TalkInv, Talk!RefuseText PROVE TalkInv'
<1>1. UNCHANGED antispam
  BY Handled DEF Talk!RefuseText
<1>2. ages' \in [chat : Nat, command : Nat, heard : Nat] /\ HeardCounts'
  BY <1>1, AgesCount DEF Talk!RefuseText
<1> QED
  BY <1>2, TellKeeps DEF Talk!RefuseText

(* ... so is a reply to nobody, ...                                        *)
LEMMA RefuseReplyKeeps == ASSUME TalkInv, Talk!RefuseReply PROVE TalkInv'
<1>1. UNCHANGED antispam
  BY Handled DEF Talk!RefuseReply
<1>2. ages' \in [chat : Nat, command : Nat, heard : Nat] /\ HeardCounts'
  BY <1>1, AgesCount DEF Talk!RefuseReply
<1> QED
  BY <1>2, TellKeeps DEF Talk!RefuseReply

(* ... and a message too soon after another.                               *)
LEMMA LimitMessageKeeps == ASSUME TalkInv, Talk!LimitMessage PROVE TalkInv'
<1>1. UNCHANGED antispam
  BY Handled DEF Talk!LimitMessage
<1>2. ages' \in [chat : Nat, command : Nat, heard : Nat] /\ HeardCounts'
  BY <1>1, AgesCount DEF Talk!LimitMessage
<1> QED
  BY <1>2, TellKeeps DEF Talk!LimitMessage

(* A message that is heard is the newest attempt.                          *)
LEMMA PlanMessageKeeps == ASSUME TalkInv, Talk!PlanMessage PROVE TalkInv'
<1>1. PICK now : now = Talk!ConsumeChat(Talk!AfterCommand(Head(to_server).kind))
  OBVIOUS
<1>2. /\ now \in [chat : Nat, command : Nat, heard : Nat] /\ now.heard = ages.heard
      /\ antispam => now.chat = 0
  BY <1>1, AgesTyped
<1>3. Talk!Handle(Talk!MessageKinds) /\ UNCHANGED server
  BY DEF Talk!PlanMessage
<1>4. to_server' \in Seq(Sent) /\ UNCHANGED <<antispam, client>>
  BY <1>3, Handled
<1>5. \/ ages' = [now EXCEPT !.heard = 0] /\ UNCHANGED to_client
      \/ ages' = now /\ (UNCHANGED to_client \/ Talk!Send(Talk!Feedback))
  BY <1>1 DEF Talk!PlanMessage
<1>6. CASE ages' = [now EXCEPT !.heard = 0] /\ UNCHANGED to_client
  <2>1. ages' \in [chat : Nat, command : Nat, heard : Nat] /\ ages'.heard = 0 /\ ages'.chat = now.chat
    BY <1>2, <1>6
  <2>2. HeardCounts'
    BY <1>2, <1>4, <2>1 DEF HeardCounts
  <2> QED
    BY <1>3, <1>4, <1>6, <2>1, <2>2 DEF TalkInv, ConversationTyped, LastAgrees, IsLast
<1>7. ASSUME ages' = now
      PROVE  ages' \in [chat : Nat, command : Nat, heard : Nat] /\ HeardCounts'
  BY <1>1, <1>4, <1>7, AgesCount
<1>8. CASE ages' = now /\ UNCHANGED to_client
  BY <1>3, <1>4, <1>7, <1>8 DEF TalkInv, ConversationTyped, LastAgrees, IsLast
<1>9. CASE ages' = now /\ Talk!Send(Talk!Feedback)
  BY <1>3, <1>7, <1>9, TellKeeps
<1> QED
  BY <1>5, <1>6, <1>8, <1>9

(* The server sends what it made of /fly, ...                              *)
LEMMA FlyKeeps == ASSUME TalkInv, Talk!Fly PROVE TalkInv'
<1>1. PICK allow : allow = ~server.allowed
  OBVIOUS
<1>2. /\ to_client' = Append(to_client, Talk!Abilities(allow, allow /\ server.flying, server.speed))
      /\ server' = [server EXCEPT !.allowed = allow, !.flying = allow]
      /\ ages' = Talk!AfterCommand("fly") /\ Talk!Handle({"fly"})
  BY <1>1 DEF Talk!Fly, Talk!Send
<1>3. server \in Flight /\ allow \in BOOLEAN /\ (allow /\ server.flying) \in BOOLEAN
  <2>1. server \in Flight
    BY DEF TalkInv, ConversationTyped
  <2>2. allow \in BOOLEAN /\ (allow /\ server.flying) \in BOOLEAN
    BY <1>1
  <2> QED
    BY <2>1, <2>2
<1>4. server.speed \in Speed /\ server' \in Flight /\ server'.allowed = allow /\ server'.speed = server.speed
  BY <1>2, <1>3 DEF Flight
<1>5. PICK a : a = Talk!Abilities(allow, allow /\ server.flying, server.speed)
  OBVIOUS
<1>6. a \in AbilitiesPacket /\ a.allow_flying = server'.allowed /\ a.flying_speed = server'.speed
  <2>1. PICK flying \in BOOLEAN : flying = (allow /\ server.flying)
    BY <1>3
  <2>2. a = Talk!Abilities(allow, flying, server.speed)
    BY <1>5, <2>1
  <2>3. \A speed \in Speed :
          /\ Talk!Abilities(allow, flying, speed) \in AbilitiesPacket
          /\ Talk!Abilities(allow, flying, speed).allow_flying = allow
          /\ Talk!Abilities(allow, flying, speed).flying_speed = speed
    BY <1>3, <2>1 DEF AbilitiesPacket, Talk!Abilities
  <2> QED
    BY <1>4, <2>2, <2>3
<1>7. to_server' \in Seq(Sent) /\ UNCHANGED <<antispam, client>>
  BY <1>2, Handled
<1>8. to_client' \in Seq(AbilitiesPacket \cup {Talk!Feedback, Talk!Other}) /\ LastAgrees'
  BY <1>2, <1>5, <1>6, SendAbilities
<1>9. ages' \in [chat : Nat, command : Nat, heard : Nat] /\ HeardCounts'
  BY <1>2, <1>7, AgesCount
<1> QED
  BY <1>4, <1>7, <1>8, <1>9 DEF TalkInv, ConversationTyped

(* ... and of /flyspeed.                                                   *)
LEMMA FlySpeedKeeps == ASSUME TalkInv, Talk!FlySpeed PROVE TalkInv'
<1>1. PICK speed : speed = Head(to_server).speed
  OBVIOUS
<1>2. /\ to_client' = Append(to_client, Talk!Abilities(server.allowed, server.flying, speed))
      /\ server' = [server EXCEPT !.speed = speed]
      /\ ages' = Talk!AfterCommand("flyspeed") /\ Talk!Handle({"flyspeed"})
  BY <1>1 DEF Talk!FlySpeed, Talk!Send
<1>3. speed \in Speed
  <2>1. PICK line : line = Head(to_server)
    OBVIOUS
  <2>2. line \in Sent /\ line.kind = "flyspeed"
    BY <1>2, <2>1, Handled
  <2>3. line \in [kind : {"flyspeed"}, speed : Speed]
    BY <2>2 DEF Sent, Talk!Line
  <2> QED
    BY <1>1, <2>1, <2>3
<1>4. server \in Flight /\ server.allowed \in BOOLEAN /\ server.flying \in BOOLEAN
  BY DEF TalkInv, ConversationTyped, Flight
<1>5. server' \in Flight /\ server'.allowed = server.allowed /\ server'.speed = speed
  BY <1>2, <1>3, <1>4 DEF Flight
<1>6. PICK a : a = Talk!Abilities(server.allowed, server.flying, speed)
  OBVIOUS
<1>7. a \in AbilitiesPacket /\ a.allow_flying = server'.allowed /\ a.flying_speed = server'.speed
  <2>1. PICK allowed \in BOOLEAN, flying \in BOOLEAN : allowed = server.allowed /\ flying = server.flying
    BY <1>4
  <2>2. a = Talk!Abilities(allowed, flying, speed)
    BY <1>6, <2>1
  <2>3. a \in AbilitiesPacket /\ a.allow_flying = allowed /\ a.flying_speed = speed
    BY <1>3, <2>2, PacketsOfTalk
  <2> QED
    BY <1>5, <2>1, <2>3
<1>8. to_server' \in Seq(Sent) /\ UNCHANGED <<antispam, client>>
  BY <1>2, Handled
<1>9. to_client' \in Seq(AbilitiesPacket \cup {Talk!Feedback, Talk!Other}) /\ LastAgrees'
  BY <1>2, <1>6, <1>7, SendAbilities
<1>10. ages' \in [chat : Nat, command : Nat, heard : Nat] /\ HeardCounts'
  BY <1>2, <1>8, AgesCount
<1> QED
  BY <1>5, <1>8, <1>9, <1>10 DEF TalkInv, ConversationTyped

(* Other commands answer at most, and only change when they were used.     *)
LEMMA OtherCommandKeeps == ASSUME TalkInv, Talk!OtherCommand PROVE TalkInv'
<1>1. PICK parcel \in {<<>>, <<Talk!Other>>, <<Talk!Feedback>>} : to_client' = to_client \o parcel
  BY DEF Talk!OtherCommand
<1>2. PICK kind : kind = Head(to_server).kind
  OBVIOUS
<1>3. PICK kinds : Talk!Handle(kinds)
  BY DEF Talk!OtherCommand
<1>4. to_server' \in Seq(Sent) /\ UNCHANGED <<antispam, client, server>>
  BY <1>3, Handled DEF Talk!OtherCommand
<1>5. ages' \in [chat : Nat, command : Nat, heard : Nat] /\ HeardCounts'
  BY <1>4, AgesCount DEF Talk!OtherCommand
<1>6. to_client \in Seq(AbilitiesPacket \cup {Talk!Feedback, Talk!Other})
  BY DEF TalkInv, ConversationTyped
<1>7. CASE parcel = <<>>
  <2>1. to_client' = to_client
    BY <1>1, <1>6, <1>7
  <2> QED
    BY <1>4, <1>5, <2>1 DEF TalkInv, ConversationTyped, LastAgrees, IsLast
<1>8. ASSUME NEW packet \in {Talk!Feedback, Talk!Other}, parcel = <<packet>> PROVE TalkInv'
  <2>1. to_client' = Append(to_client, packet)
    BY <1>1, <1>6, <1>8
  <2>2. to_client' \in Seq(AbilitiesPacket \cup {Talk!Feedback, Talk!Other}) /\ LastAgrees'
    BY <1>4, <2>1, SendOther
  <2> QED
    BY <1>4, <1>5, <2>2 DEF TalkInv, ConversationTyped
<1> QED
  BY <1>1, <1>7, <1>8

(* What the client says of flying changes nothing that its last abilities  *)
(* said.                                                                   *)
LEMMA HearFlightKeeps == ASSUME TalkInv, Talk!HearFlight PROVE TalkInv'
<1>1. PICK line : line = Head(to_server)
  OBVIOUS
<1>2. Talk!Handle({"abilities"}) /\ server' = [server EXCEPT !.flying = line.flying] /\ UNCHANGED <<to_client, ages>>
  BY <1>1 DEF Talk!HearFlight
<1>3. to_server' \in Seq(Sent) /\ UNCHANGED <<antispam, client>> /\ line \in Sent /\ line.kind = "abilities"
  BY <1>1, <1>2, Handled
<1>4. line.flying \in BOOLEAN
  BY <1>3 DEF Sent, Talk!Line
<1>5. server \in Flight
  BY DEF TalkInv, ConversationTyped
<1>6. server' \in Flight /\ server'.allowed = server.allowed /\ server'.speed = server.speed
  BY <1>2, <1>4, <1>5 DEF Flight
<1> QED
  BY <1>2, <1>3, <1>6 DEF TalkInv, ConversationTyped, LastAgrees, IsLast, HeardCounts

(* Every step keeps the invariant.                                         *)
LEMMA StepTalk == ASSUME TalkInv, Talk!ConversationAssumption, [Talk!Next]_(Talk!vars) PROVE TalkInv'
<1>1. CASE UNCHANGED Talk!vars
  BY <1>1 DEF Talk!vars, TalkInv, ConversationTyped, LastAgrees, IsLast, HeardCounts
<1>2. CASE Talk!Next
  BY <1>2, SayKeeps, ToggleFlightKeeps, ReceiveKeeps, TickKeeps, DropCommandKeeps, RefuseTextKeeps, RefuseReplyKeeps,
     LimitMessageKeeps, PlanMessageKeeps, FlyKeeps, FlySpeedKeeps, OtherCommandKeeps, HearFlightKeeps DEF Talk!Next
<1> QED
  BY <1>1, <1>2

(* A step that makes a message heard comes a cooldown after the last one.  *)
LEMMA StepSpaced ==
  ASSUME TalkInv, Talk!ConversationAssumption, [Talk!Next]_(Talk!vars)
  PROVE  antispam /\ Len(to_server') < Len(to_server) /\ outcome' = "heard" => ages.heard >= Cooldown
<1> SUFFICES ASSUME antispam, Len(to_server') < Len(to_server), outcome' = "heard" PROVE ages.heard >= Cooldown
  OBVIOUS
<1>1. to_server \in Seq(Sent) /\ Len(to_server) \in Nat
  BY DEF TalkInv, ConversationTyped
<1>2. ~ UNCHANGED to_server
  BY <1>1
<1>3. ~ Talk!Say /\ ~ Talk!ToggleFlight
  <2>1. ASSUME NEW line, to_server' = Append(to_server, line) PROVE FALSE
    <3>1. Len(to_server') = Len(to_server) + 1
      BY <1>1, <2>1
    <3> QED
      BY <1>1, <3>1
  <2> QED
    BY <2>1 DEF Talk!Say, Talk!ToggleFlight
<1>5. ~ Talk!Receive /\ ~ Talk!Tick /\ ~ UNCHANGED Talk!vars
  BY <1>2 DEF Talk!Receive, Talk!Tick, Talk!vars
<1>6. ~ Talk!DropCommand /\ ~ Talk!RefuseText /\ ~ Talk!RefuseReply /\ ~ Talk!LimitMessage
  BY DEF Talk!DropCommand, Talk!RefuseText, Talk!RefuseReply, Talk!LimitMessage
<1>7. ~ Talk!Fly /\ ~ Talk!FlySpeed /\ ~ Talk!OtherCommand /\ ~ Talk!HearFlight
  BY DEF Talk!Fly, Talk!FlySpeed, Talk!OtherCommand, Talk!HearFlight
<1>8. Talk!PlanMessage
  BY <1>3, <1>5, <1>6, <1>7 DEF Talk!Next
<1>9. ages.chat >= Cooldown
  BY <1>8 DEF Talk!PlanMessage, Talk!Limited, Talk!ChatPasses
<1> QED
  BY <1>9 DEF TalkInv, HeardCounts, ConversationTyped, Talk!ConversationAssumption

(* Once no abilities are under way, the client has what the server has.    *)
LEMMA FlightAgreesKept == ASSUME TalkInv PROVE Talk!FlightAgrees
BY DEF TalkInv, LastAgrees, Talk!FlightAgrees

(* Of a player who chats, writes to others and flies: with the antispam,   *)
(* messages that others hear are a cooldown apart, since the attempt that  *)
(* was heard counted as one; and whenever nothing is under way, client and *)
(* server agree on whether the player may fly and how fast, since the last *)
(* abilities under way say what the server has.  Not on whether it flies.  *)
THEOREM MessagesAreSpacedAndFlightAgrees == Talk!Spec => Conversing
<1> USE MachinesAssumption
<1>1. Talk!Init => TalkInv
  BY InitTalk
<1>2. TalkInv /\ [Talk!Next]_(Talk!vars) => TalkInv'
  BY StepTalk
<1>3. TalkInv => Talk!FlightAgrees
  BY FlightAgreesKept
<1>4. TalkInv /\ [Talk!Next]_(Talk!vars) =>
        [antispam /\ Len(to_server') < Len(to_server) /\ outcome' = "heard" => ages.heard >= Cooldown]_(Talk!vars)
  BY StepSpaced
<1> QED
  BY <1>1, <1>2, <1>3, <1>4, PTL DEF Talk!Spec, Conversing, Talk!Conversing, Talk!Spaced
=================================================================================
