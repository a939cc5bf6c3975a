---------------------------- MODULE Connection ---------------------------
(***************************************************************************)
(* One connection from its handshake to the release of its task             *)
(* (server/network.rs handle_client, read, process_packet, kick_client;     *)
(* server/client_data.rs; the handlers of the states before play), against  *)
(* a client that follows the protocol of its version.                       *)
(*                                                                          *)
(* The task waits in read()'s select!; a packet is decoded and handled in   *)
(* one step, for the connection's own state is locked meanwhile, and its    *)
(* answers are then written one by one.  The socket holds SocketBuffer      *)
(* packets the client has not read; a write into a full socket waits.       *)
(* What the other players see of a player is in LobbyConnections, the       *)
(* bytes of a packet are in PacketStream.                                   *)
(***************************************************************************)
EXTENDS PacketIds

CONSTANTS
  Versions,      \* the versions of the clients
  Settings,      \* the server's settings, see SettingsOf
  Intents,       \* what a client may come for: "status", "login", "transfer"
  MayBeFull,     \* whether other players can fill the lobby
  MayBeIdle,     \* whether the idle timeout can pass
  SocketBuffer,  \* packets the socket holds
  MaxMoves       \* packets a player sends in play

SettingsOf == [lobby : BOOLEAN, forwarding : {"none", "legacy", "modern"}, compression : BOOLEAN,
               features : BOOLEAN, replyToStatus : BOOLEAN, acceptTransfers : BOOLEAN]

ASSUME ConnectionAssumption ==
  /\ Versions \subseteq SupportedVersions
  /\ Settings \subseteq SettingsOf
  /\ Intents \subseteq {"status", "login", "transfer"}
  /\ MayBeFull \in BOOLEAN /\ MayBeIdle \in BOOLEAN
  /\ SocketBuffer \in Nat \ {0}
  /\ MaxMoves \in Nat

VARIABLES
  \* the client
  version, intent,
  proxied,       \* whether it comes through a proxy
  renders,       \* whether the text templates render with its name
  client,        \* the state it reads packets in, "closed" when it left
  reads,         \* whether it still reads and answers
  unpacks,       \* whether it expects the compressed format
  confused,      \* it read a packet that means nothing to it
  moves,
  \* the socket: what is under way, [name, packed]
  up, down,
  \* the task
  settings,
  pc,            \* where it is: "select", "write", "close" or "released"
  batch,         \* the packets still to be written
  ticking,       \* the batch is a keep-alive, not an answer
  state, kick, keepAlive, packs,          \* of the ClientState and the PacketStream
  wasInPlayState, counted, registered,    \* the count and the lobby's session
  idle,          \* 30 s have passed since the last packet
  told,          \* a disconnect packet was written
  othersFill     \* the other players fill the lobby

clientVars == <<version, intent, proxied, renders, client, reads, unpacks, confused, moves>>
stateVars == <<state, kick, keepAlive, wasInPlayState, counted, registered>>
vars == <<clientVars, up, down, settings, pc, batch, ticking, stateVars, packs, idle, told, othersFill>>

NoKick == "none"

----------------------------------------------------------------------------
(* What the handlers answer *)

(* ProtocolVersion::supports_configuration_state: 1.20.2 *)
Configures == version >= 764

When(condition, packets) == IF condition THEN packets ELSE <<>>

SendMessage == <<IF version >= 759 THEN "SystemChatMessage" ELSE "LegacyChatMessage">>

(* The title and the subtitle together *)
TitleTextPackets ==
  IF version >= 755 THEN <<"SetTitlesAnimation", "SetTitleText", "SetSubtitleText">>
  ELSE <<"LegacySetTitle", "LegacySetTitle", "LegacySetTitle">>

ActionBarPacket ==
  <<IF version >= 755 THEN "SetActionBarText"
    ELSE IF version >= 315 THEN "LegacySetTitle" ELSE "LegacyChatMessage">>

(* As VisualPackets, with the boss bar for every version *)
VisualPackets_AlwaysBossBar ==
  When(version >= 47, <<"PlayerInfoUpdate", "SetEntityMetadata">>)
    \o When(settings.features, <<"BossBar">>)

(* A scoreboard of one line *)
ScoreboardPackets == <<"SetObjective", "SetDisplayObjective", "SetPlayerTeam", "SetScore">>

VisualPackets ==
  When(version >= 47,
       When(settings.features, ActionBarPacket) \o <<"PlayerInfoUpdate", "SetEntityMetadata">>
         \o When(settings.features, <<"TabList">> \o TitleTextPackets))
    \o When(version >= 107 /\ settings.features, <<"BossBar">>)

(* A single chunk *)
ChunkPackets ==
  <<"ChunkDataAndUpdateLight">> \o When(version \in 477..756, <<"LightUpdate">>)

PlayPackets ==
  <<"Login">>
    \o When(version \in 759..760, <<"ServerData">>)
    \o <<"ClientBoundPlayerAbilities">>
    \o When(version >= 759, <<"SetDefaultSpawnPosition">>)
    \o <<"SynchronizePlayerPosition">>
    \o When(version >= 393, <<"Commands">>)
    \o When(version \in 393..763, <<"PlayClientBoundPluginMessage">>)
    \o When(settings.features, SendMessage)
    \o <<"UpdateTime">>
    \o When(settings.features, ScoreboardPackets)
    \o VisualPackets
    \o When(version >= 765, <<"GameEvent">>)
    \o When(version >= 759, <<"SetCenterChunk">>)
    \o ChunkPackets
    \o When(settings.lobby /\ settings.features, <<"SetContainerSlot", "SetContainerSlot">>)

LoginPackets ==
  When(version >= 47 /\ settings.compression, <<"SetCompression">>)
    \o <<IF version >= 768 THEN "LoginSuccess" ELSE "GameProfile">>

(* As RegistryPackets, with the end of the configuration only after tags *)
RegistryPackets_NoFinish ==
  <<"RegistryData">> \o When(version >= 771, <<"UpdateTags", "FinishConfiguration">>)

(* Since 1.20.5 a packet for each registry; one stands for them *)
RegistryPackets ==
  <<"RegistryData">> \o When(version >= 771, <<"UpdateTags">>) \o <<"FinishConfiguration">>

ConfigurationPackets ==
  <<"ConfigurationClientBoundPluginMessage">>
    \o (IF version >= 767 THEN <<"ClientBoundKnownPacks">> ELSE RegistryPackets)

(* Which of these packets the tables number, and from which version on.  No
   constant occurs in it: TLC evaluates it for every version there is. *)
PacketsAreNumbered ==
  \A v \in SupportedVersions :
    /\ {"StatusResponse", "PongResponse", "CustomQuery", "Login", "ClientBoundPlayerAbilities",
        "SynchronizePlayerPosition", "UpdateTime", "SetObjective", "SetDisplayObjective", "SetPlayerTeam",
        "SetScore", "ChunkDataAndUpdateLight", "SetContainerSlot", "ClientBoundKeepAlive"} \subseteq Numbered[v]
    /\ v >= 47 => {"SetCompression", "PlayerInfoUpdate", "SetEntityMetadata", "TabList"} \subseteq Numbered[v]
    /\ v \in 47..754 => "LegacySetTitle" \in Numbered[v]
    /\ v < 759 => "LegacyChatMessage" \in Numbered[v]
    /\ v < 768 => "GameProfile" \in Numbered[v]
    /\ v >= 107 => "BossBar" \in Numbered[v]
    /\ v >= 393 => "Commands" \in Numbered[v]
    /\ v \in 393..763 => "PlayClientBoundPluginMessage" \in Numbered[v]
    /\ v \in 477..756 => "LightUpdate" \in Numbered[v]
    /\ v >= 755 => {"SetTitlesAnimation", "SetTitleText", "SetSubtitleText", "SetActionBarText"} \subseteq Numbered[v]
    /\ v >= 759 => {"SystemChatMessage", "SetDefaultSpawnPosition", "SetCenterChunk"} \subseteq Numbered[v]
    /\ v \in 759..760 => "ServerData" \in Numbered[v]
    /\ v >= 764 => {"ConfigurationClientBoundPluginMessage", "RegistryData", "FinishConfiguration"} \subseteq Numbered[v]
    /\ v >= 765 => "GameEvent" \in Numbered[v]
    /\ v >= 767 => "ClientBoundKnownPacks" \in Numbered[v]
    /\ v >= 768 => "LoginSuccess" \in Numbered[v]
    /\ v >= 771 => "UpdateTags" \in Numbered[v]
    /\ "ServerBoundKnownPacks" \in Numbered[v] => v >= 764
ASSUME NumbersAssumption == PacketsAreNumbered

----------------------------------------------------------------------------
(* The client: [name, packed] for a packet in the format it uses *)

Says(names) == up' = up \o [i \in DOMAIN names |-> [name |-> names[i], packed |-> unpacks']]

Init ==
  /\ version \in Versions
  /\ settings \in Settings
  /\ intent \in Intents
  /\ intent = "transfer" => version >= 766
  /\ proxied \in BOOLEAN /\ renders \in BOOLEAN
  /\ client = IF intent = "status" THEN "status" ELSE "login"
  /\ reads = TRUE /\ unpacks = FALSE /\ confused = FALSE /\ moves = 0
  /\ up = [i \in 1..2 |-> [name |-> IF i = 1 THEN "Handshake"
                                    ELSE IF intent = "status" THEN "StatusRequest" ELSE "LoginStart",
                           packed |-> FALSE]]
  /\ down = <<>>
  /\ pc = "select" /\ batch = <<>> /\ ticking = FALSE
  /\ state = "handshake" /\ kick = NoKick /\ keepAlive = "off" /\ packs = FALSE
  /\ wasInPlayState = FALSE /\ counted = FALSE /\ registered = FALSE
  /\ idle = FALSE /\ told = FALSE /\ othersFill = FALSE

Disconnects == {"LoginDisconnect", "ConfigurationDisconnect", "PlayDisconnect"}

(* What the client answers to a packet, and the state it reads the next in *)
Answers(name) ==
  CASE name = "StatusResponse" -> <<"PingRequest">>
    [] name = "CustomQuery" -> <<"CustomQueryAnswer">>
    [] name \in {"LoginSuccess", "GameProfile"} /\ Configures -> <<"LoginAcknowledged">>
    [] name = "ClientBoundKnownPacks" -> <<"ServerBoundKnownPacks">>
    [] name = "FinishConfiguration" -> <<"AcknowledgeConfiguration">>
    [] name = "ClientBoundKeepAlive" -> <<"KeepAlive">>
    [] OTHER -> <<>>
StateAfter(name) ==
  CASE name \in {"LoginSuccess", "GameProfile"} -> IF Configures THEN "configuration" ELSE "play"
    [] name = "FinishConfiguration" -> "play"
    [] name \in Disconnects \cup {"PongResponse"} -> "closed"
    [] OTHER -> client

(* The packet has a meaning in the state and the format the client is in *)
Understands(packet) ==
  /\ packet.name \in ToSet(Clientbound[client])
  /\ packet.packed = unpacks

ClientReadsPacket ==
  /\ down # <<>> /\ reads /\ client # "closed"
  /\ down' = Tail(down)
  /\ LET packet == Head(down)
     IN  IF Understands(packet)
         THEN /\ client' = StateAfter(packet.name)
              /\ unpacks' = (unpacks \/ packet.name = "SetCompression")
              /\ Says(Answers(packet.name))
              /\ UNCHANGED confused
         ELSE /\ client' = "closed"
              /\ confused' = TRUE
              /\ UNCHANGED <<unpacks, up>>
  /\ UNCHANGED <<version, intent, proxied, renders, reads, moves, settings, pc, batch, ticking, stateVars, packs,
                 idle, told, othersFill>>

(* A player moves *)
ClientMoves ==
  /\ client = "play" /\ reads /\ moves < MaxMoves
  /\ moves' = moves + 1
  /\ UNCHANGED unpacks
  /\ Says(<<"SetPlayerPosition">>)
  /\ UNCHANGED <<version, intent, proxied, renders, client, reads, confused, down, settings, pc, batch, ticking,
                 stateVars, packs, idle, told, othersFill>>

(* The client goes away, or neither reads nor writes for a timeout or more *)
ClientLeaves ==
  /\ client # "closed"
  /\ client' = "closed"
  /\ UNCHANGED <<version, intent, proxied, renders, reads, unpacks, confused, moves, up, down, settings, pc, batch,
                 ticking, stateVars, packs, idle, told, othersFill>>

ClientStalls ==
  /\ reads
  /\ reads' = FALSE
  /\ UNCHANGED <<version, intent, proxied, renders, client, unpacks, confused, moves, up, down, settings, pc, batch,
                 ticking, stateVars, packs, idle, told, othersFill>>

OthersComeOrGo ==
  /\ MayBeFull
  /\ othersFill' = ~othersFill
  /\ UNCHANGED <<clientVars, up, down, settings, pc, batch, ticking, stateVars, packs, idle, told>>

----------------------------------------------------------------------------
(* The handlers *)

(* The packets decode_packet finds in the state *)
Decodable == ToSet(Serverbound[state]) \cap Numbered[version]

(* A whole packet is read and found in the tables; the deadline moves *)
Takes(name) ==
  /\ pc = "select" /\ up # <<>> /\ Head(up).name = name
  /\ name \in Decodable
  /\ up' = Tail(up)
  /\ idle' = FALSE
  /\ ticking' = FALSE
  /\ UNCHANGED <<clientVars, down, settings, packs, told, othersFill>>

(* The handler's batch is written next *)
Answer(packets) == pc' = "write" /\ batch' = packets

(* PacketHandlerError::InvalidState: the connection ends, whatever the
   handler has put into the state *)
Refuse == pc' = "close" /\ UNCHANGED batch

(* HandshakePacket, begin_login: a client without the data of the proxy is
   refused *)
Handshake ==
  /\ Takes("Handshake")
  /\ state' = IF intent = "status" THEN "status" ELSE "login"
  /\ \/ /\ IF intent = "status" THEN settings.replyToStatus
           ELSE /\ intent = "transfer" => settings.acceptTransfers
                /\ settings.forwarding = "legacy" => proxied
        /\ Answer(<<>>)
        /\ UNCHANGED kick
     \/ /\ \/ intent = "status" /\ ~settings.replyToStatus
           \/ intent = "transfer" /\ ~settings.acceptTransfers
        /\ Refuse
        /\ UNCHANGED kick
     \/ /\ intent # "status" /\ (intent = "transfer" => settings.acceptTransfers)
        /\ settings.forwarding = "legacy" /\ ~proxied
        /\ kick' = "You must connect through a proxy."
        /\ Refuse
  /\ UNCHANGED <<keepAlive, wasInPlayState, counted, registered>>

StatusRequest ==
  /\ Takes("StatusRequest")
  /\ Answer(<<"StatusResponse">>)
  /\ UNCHANGED stateVars

PingRequest ==
  /\ Takes("PingRequest")
  /\ Answer(<<"PongResponse">>)
  /\ UNCHANGED stateVars

(* send_play_packets after `before`, with the first part of process_packet
   that follows every handler: the player is counted when its state is play
   for the first time.  A template that fails does so after the session is
   registered, and the error takes the whole batch with it. *)
EnterPlay(before) ==
  \/ /\ settings.lobby /\ othersFill
     /\ kick' = "The lobby is full."
     /\ Answer(before)
     /\ UNCHANGED <<state, keepAlive, wasInPlayState, counted, registered>>
  \/ /\ ~(settings.lobby /\ othersFill)
     /\ state' = "play" /\ wasInPlayState' = TRUE
     /\ keepAlive' = "should"
     /\ registered' = settings.lobby
     /\ counted' = ~settings.lobby
     /\ settings.features => renders
     /\ Answer(before \o PlayPackets)
     /\ UNCHANGED kick
  \/ /\ ~(settings.lobby /\ othersFill)
     /\ settings.features /\ ~renders
     /\ registered' = settings.lobby
     /\ pc' = "select"
     /\ UNCHANGED <<batch, state, kick, keepAlive, wasInPlayState, counted>>

(* fire_login_success *)
LogIn == 
  IF Configures THEN Answer(LoginPackets) /\ UNCHANGED stateVars ELSE EnterPlay(LoginPackets)

(* As LoginStart, with the kick of an old client as an error, the way the
   handshake does it *)
LoginStart_Refuses ==
  /\ Takes("LoginStart")
  /\ \/ settings.forwarding # "modern" /\ LogIn
     \/ /\ settings.forwarding = "modern" /\ version >= 393
        /\ Answer(<<"CustomQuery">>)
        /\ UNCHANGED stateVars
     \/ /\ settings.forwarding = "modern" /\ version < 393
        /\ kick' = "This server is only compatible with Minecraft 1.13 and above."
        /\ Refuse
        /\ UNCHANGED <<state, keepAlive, wasInPlayState, counted, registered>>

(* LoginStartPacket; is_modern: 1.13 *)
LoginStart ==
  /\ Takes("LoginStart")
  /\ \/ settings.forwarding # "modern" /\ LogIn
     \/ /\ settings.forwarding = "modern" /\ version >= 393
        /\ Answer(<<"CustomQuery">>)
        /\ UNCHANGED stateVars
     \/ /\ settings.forwarding = "modern" /\ version < 393
        /\ kick' = "This server is only compatible with Minecraft 1.13 and above."
        /\ Answer(<<>>)
        /\ UNCHANGED <<state, keepAlive, wasInPlayState, counted, registered>>

(* CustomQueryAnswerPacket: only a proxy that knows the secret signs it *)
CustomQueryAnswer ==
  /\ Takes("CustomQueryAnswer")
  /\ \/ proxied /\ LogIn
     \/ /\ ~proxied
        /\ kick' = "You must connect through a proxy."
        /\ Answer(<<>>)
        /\ UNCHANGED <<state, keepAlive, wasInPlayState, counted, registered>>

LoginAcknowledged ==
  /\ Takes("LoginAcknowledged")
  /\ state' = "configuration"
  /\ Answer(ConfigurationPackets)
  /\ UNCHANGED <<kick, keepAlive, wasInPlayState, counted, registered>>

ServerBoundKnownPacks ==
  /\ Takes("ServerBoundKnownPacks")
  /\ Answer(RegistryPackets)
  /\ UNCHANGED stateVars

AcknowledgeConfiguration ==
  /\ Takes("AcknowledgeConfiguration")
  /\ EnterPlay(<<>>)

(* A player's move: what the others see of it is in Movement *)
SetPlayerPosition ==
  /\ Takes("SetPlayerPosition")
  /\ Answer(<<>>)
  /\ UNCHANGED stateVars

(* DecodePacketError: the packet is dropped, but it was a sign of life *)
Unknown ==
  /\ pc = "select" /\ up # <<>>
  /\ Head(up).name \notin Decodable
  /\ up' = Tail(up)
  /\ idle' = FALSE
  /\ UNCHANGED <<clientVars, down, settings, pc, batch, ticking, stateVars, packs, told, othersFill>>

----------------------------------------------------------------------------
(* The rest of process_packet, and the other arms of read()'s select! *)

taskRest == <<clientVars, up, settings, ticking, state, kick, wasInPlayState, counted, registered, idle,
              othersFill>>

(* As WritePacket, with the stream packing from SetCompression itself on *)
WritePacket_PacksFirst ==
  /\ pc = "write" /\ batch # <<>> /\ Len(down) < SocketBuffer
  /\ packs' = (packs \/ Head(batch) = "SetCompression")
  /\ down' = Append(down, [name |-> Head(batch), packed |-> packs'])
  /\ batch' = Tail(batch)
  /\ UNCHANGED <<taskRest, pc, keepAlive, told>>

(* The next packet of the batch; after SetCompression the stream packs.  A
   packet that cannot be encoded is PacketRegistryEncodeError: the rest of
   process_packet is left out. *)
WritePacket ==
  /\ pc = "write" /\ batch # <<>>
  /\ IF CanEncode(Head(batch), version)
     THEN /\ Len(down) < SocketBuffer
          /\ down' = Append(down, [name |-> Head(batch), packed |-> packs])
          /\ packs' = (packs \/ Head(batch) = "SetCompression")
          /\ batch' = Tail(batch)
          /\ UNCHANGED pc
     ELSE /\ batch' = <<>>
          /\ pc' = "select"
          /\ UNCHANGED <<down, packs>>
  /\ UNCHANGED <<taskRest, keepAlive, told>>

(* A write to a client that left: a reset ends the connection, any other
   error (a broken pipe) only this packet *)
WriteFails ==
  /\ pc = "write" /\ batch # <<>> /\ client = "closed"
  /\ pc' \in {"close", "select"} /\ batch' = <<>>
  /\ UNCHANGED <<taskRest, down, packs, keepAlive, told>>

(* ClientData::write_packet: 30 s in one write *)
WriteTimesOut ==
  /\ pc = "write" /\ batch # <<>> /\ Len(down) = SocketBuffer /\ ~reads
  /\ pc' = "close" /\ batch' = <<>>
  /\ UNCHANGED <<taskRest, down, packs, keepAlive, told>>

(* kick_client: the disconnect packet of the task's state.  The write may
   fail or time out, and then the connection ends as well. *)
DisconnectPacket ==
  CASE state = "login" -> <<"LoginDisconnect">>
    [] state = "configuration" -> <<"ConfigurationDisconnect">>
    [] state = "play" -> <<"PlayDisconnect">>
    [] OTHER -> <<>>
KickClient ==
  /\ pc = "write" /\ batch = <<>> /\ ~ticking /\ kick # NoKick
  /\ \/ /\ DisconnectPacket # <<>> /\ Len(down) < SocketBuffer
        /\ down' = Append(down, [name |-> DisconnectPacket[1], packed |-> packs])
        /\ told' = TRUE
     \/ /\ client = "closed" \/ (~reads /\ Len(down) = SocketBuffer) \/ DisconnectPacket = <<>>
        /\ UNCHANGED <<down, told>>
  /\ pc' = "close"
  /\ UNCHANGED <<taskRest, batch, packs, keepAlive>>

(* As FinishPacket, with the keep-alive enabled by ticks only *)
FinishPacket_LateKeepAlive ==
  /\ pc = "write" /\ batch = <<>> /\ (ticking \/ kick = NoKick)
  /\ pc' = "select"
  /\ keepAlive' = IF keepAlive = "should" /\ ticking THEN "on" ELSE keepAlive
  /\ UNCHANGED <<taskRest, down, batch, packs, told>>

(* The packet is done: enable_keep_alive_if_needed *)
FinishPacket ==
  /\ pc = "write" /\ batch = <<>> /\ (ticking \/ kick = NoKick)
  /\ pc' = "select"
  /\ keepAlive' = IF keepAlive = "should" /\ ~ticking THEN "on" ELSE keepAlive
  /\ UNCHANGED <<taskRest, down, batch, packs, told>>

(* keep_alive_tick, send_keep_alive.  The ticks are 15 s apart: what was
   under way has arrived unless the client stalls. *)
KeepAliveTick ==
  /\ pc = "select" /\ keepAlive = "on"
  /\ up = <<>> /\ (down = <<>> \/ ~reads \/ client = "closed")
  /\ ticking' = TRUE
  /\ Answer(When(state = "play", <<"ClientBoundKeepAlive">>))
  /\ UNCHANGED <<clientVars, up, down, settings, stateVars, packs, idle, told, othersFill>>

(* CLIENT_IDLE_TIMEOUT passes while there is nothing to read, or while the
   task is busy: each write may take as long as the whole timeout *)
TimePasses ==
  /\ pc = "write" \/ (pc = "select" /\ up = <<>>)
  /\ MayBeIdle /\ ~idle
  /\ idle' = TRUE
  /\ UNCHANGED <<clientVars, up, down, settings, pc, batch, ticking, stateVars, packs, told, othersFill>>

(* select! takes any arm that is ready, this one as well as a packet *)
IdleTimeout ==
  /\ pc = "select" /\ idle
  /\ pc' = "close"
  /\ UNCHANGED <<taskRest, down, batch, packs, keepAlive, told>>

(* The end of the stream, after what the client sent before *)
EndOfStream ==
  /\ pc = "select" /\ up = <<>> /\ client = "closed"
  /\ pc' = "close"
  /\ UNCHANGED <<taskRest, down, batch, packs, keepAlive, told>>

(* As Release, for players who were in play only *)
Release_OnlyInPlay ==
  /\ pc = "close"
  /\ pc' = "released"
  /\ keepAlive' = "off"
  /\ registered' = (registered /\ ~wasInPlayState)
  /\ counted' = (counted /\ ~wasInPlayState)
  /\ UNCHANGED <<clientVars, up, down, settings, batch, ticking, state, kick, wasInPlayState, packs, idle,
                 told, othersFill>>

(* handle_client after its loop *)
Release ==
  /\ pc = "close"
  /\ pc' = "released"
  /\ keepAlive' = "off"
  /\ registered' = FALSE
  /\ counted' = (counted /\ ~wasInPlayState)
  /\ UNCHANGED <<clientVars, up, down, settings, batch, ticking, state, kick, wasInPlayState, packs, idle,
                 told, othersFill>>

ClientStep == ClientReadsPacket \/ ClientMoves \/ ClientLeaves \/ ClientStalls \/ OthersComeOrGo
HandleStep ==
  \/ Handshake \/ StatusRequest \/ PingRequest \/ LoginStart \/ CustomQueryAnswer \/ LoginAcknowledged
  \/ ServerBoundKnownPacks \/ AcknowledgeConfiguration \/ SetPlayerPosition \/ Unknown
WriteStep == WritePacket \/ WriteFails \/ WriteTimesOut \/ KickClient \/ FinishPacket
SelectStep == KeepAliveTick \/ TimePasses \/ IdleTimeout \/ EndOfStream \/ Release

Next == ClientStep \/ HandleStep \/ WriteStep \/ SelectStep

Spec == Init /\ [][Next]_vars

(* The task runs whenever it can; a client that has not stalled reads what
   it is sent; a full socket whose client does not read runs into the
   timeout, and time passes.  select! picks among the arms that are ready at
   random, so that none is passed over for ever. *)
Fairness ==
  /\ WF_vars(WritePacket \/ WriteFails \/ KickClient \/ FinishPacket)
  /\ WF_vars(WriteTimesOut)
  /\ WF_vars(ClientReadsPacket)
  /\ SF_vars(HandleStep) /\ SF_vars(IdleTimeout) /\ SF_vars(EndOfStream) /\ WF_vars(Release)
  /\ WF_vars(TimePasses)

LiveSpec == Spec /\ Fairness

----------------------------------------------------------------------------
TypeOK ==
  /\ client \in {"status", "login", "configuration", "play", "closed"}
  /\ state \in DOMAIN Serverbound
  /\ pc \in {"select", "write", "close", "released"}
  /\ Len(down) <= SocketBuffer
  /\ batch # <<>> => pc = "write"
  /\ keepAlive \in {"off", "should", "on"}

(* Every packet the server sends belongs to the state the client is in when
   it reads it, and comes in the format the client expects then.  Only the
   kick out of a full lobby may cross: it takes the packet of the state the
   server is in, behind the one that takes the client to the next. *)
Understood == confused => kick = "The lobby is full."

(* A version's handlers only send packets that the version has: an answer
   that cannot be encoded would cut the rest of the batch off, and with it
   the keep-alive, and leave a player half in play. *)
EverythingEncodes == \A i \in DOMAIN batch : CanEncode(batch[i], version)

(* A player who waits in play is kept alive, whatever came before; and who is
   in play is counted once, as a session or in the counter. *)
KeptAlive ==
  /\ pc = "select" /\ state = "play" /\ client # "closed" => keepAlive = "on" /\ wasInPlayState
  /\ pc # "released" /\ state = "play" => counted # registered

(* test_handshake_handler_should_kick_when_bungee_cord_handshake_is_invalid:
   who is refused is kicked, so it is told why, unless it left or stalled
   before. *)
RefusalIsTold == pc = "released" /\ kick # NoKick => told \/ client = "closed" \/ ~reads

(* A login that begin_login refuses because it came past the legacy proxy:
   the handshake's handler leaves a kick in the state and returns an error,
   and process_packet returns the error before it looks at the kick. *)
PastLegacyProxy == settings.forwarding = "legacy" /\ ~proxied

(* Whoever is kicked by any other handler, with or without a proxy, is told
   so, unless it left or stalled before. *)
KickIsSent == ~PastLegacyProxy => RefusalIsTold

(* A client that came to play, with a name the templates take, is in play in
   the end, with its packets written and the keep-alive running.  Otherwise
   it was kicked, left or stalled, or the deadline passed while something was
   still under way: the server never waits for a client that waits for it. *)
LoginCompletes ==
  (intent = "login" /\ renders /\ state = "handshake")
    ~> \/ keepAlive = "on" \/ kick # NoKick
       \/ client = "closed" \/ ~reads
       \/ pc = "released" /\ (up # <<>> \/ down # <<>>)

(* The task of a client that left or stalled is released, and nobody is
   counted or registered for it any more, although a session is registered
   before the player is in play. *)
EventuallyReleased == (client = "closed" \/ ~reads) ~> (pc = "released" /\ ~counted /\ ~registered)
==========================================================================
