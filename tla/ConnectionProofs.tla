---------------------------- MODULE ConnectionProofs ---------------------------
(***************************************************************************)
(* Proofs about a connection and its task, for any versions, settings, size *)
(* of the socket's buffer and number of moves.                             *)
(*                                                                          *)
(* That the tables of PacketIds number what the handlers of a version send *)
(* is an assumption without constants, PacketsAreNumbered, which TLC        *)
(* evaluates: the provers cannot compute with the tables.                  *)
(***************************************************************************)
EXTENDS Connection, TLAPS

States == {"handshake", "status", "login", "configuration", "play"}
Gone == client = "closed" \/ ~reads

(* The packets that the answers of a state are made of                      *)
StatusAnswers == {"StatusResponse", "PongResponse"}
LoginAnswers == {"CustomQuery", "SetCompression", "LoginSuccess", "GameProfile"}
ConfigurationAnswers ==
  {"ConfigurationClientBoundPluginMessage", "ClientBoundKnownPacks", "RegistryData", "UpdateTags", "FinishConfiguration"}
PlayAnswers ==
  {"Login", "ServerData", "ClientBoundPlayerAbilities", "SetDefaultSpawnPosition", "SynchronizePlayerPosition",
   "Commands", "PlayClientBoundPluginMessage", "SystemChatMessage", "LegacyChatMessage", "UpdateTime",
   "SetObjective", "SetDisplayObjective", "SetPlayerTeam", "SetScore", "SetActionBarText", "LegacySetTitle",
   "PlayerInfoUpdate", "SetEntityMetadata", "TabList", "SetTitlesAnimation", "SetTitleText", "SetSubtitleText",
   "BossBar", "GameEvent", "SetCenterChunk", "ChunkDataAndUpdateLight", "LightUpdate", "SetContainerSlot",
   "ClientBoundKeepAlive"}
Answered == StatusAnswers \cup LoginAnswers \cup ConfigurationAnswers \cup PlayAnswers

TaskTyped ==
  /\ state \in States /\ pc \in {"select", "write", "close", "released"}
  /\ registered \in BOOLEAN /\ counted \in BOOLEAN /\ settings \in Settings
  /\ batch \in Seq(Answered) /\ (batch # <<>> => pc = "write")

(* The players' count: while the task of a player in play runs, the count   *)
(* and the lobby's registry hold it once between them, and the keep-alive   *)
(* is on, or will be when the packet that brought the player into play is   *)
(* done.                                                                   *)
InPlayOnce ==
  state = "play" /\ pc # "released" =>
    /\ wasInPlayState /\ counted # registered
    /\ \/ keepAlive = "on" \/ pc = "close" \/ client = "closed"
       \/ keepAlive = "should" /\ pc = "write" /\ ~ticking

(* A kick that is decided but not yet told is being dealt with: the batch   *)
(* is an answer, and the state has a disconnect packet.                     *)
KickUnderWay ==
  kick # NoKick => \/ told \/ Gone \/ PastLegacyProxy
                   \/ pc = "write" /\ ~ticking /\ state \in {"login", "configuration", "play"}

-------------------------------------------------------------------------------
(* What is sent                                                            *)

LEMMA Joins == ASSUME NEW S, NEW q \in Seq(S), NEW p \in Seq(S) PROVE q \o p \in Seq(S)
OBVIOUS

LEMMA NoneTyped == ASSUME NEW S PROVE <<>> \in Seq(S)
OBVIOUS

LEMMA OneName == ASSUME NEW S, NEW name \in S PROVE <<name>> \in Seq(S)
OBVIOUS

LEMMA VisualPacketsTyped == VisualPackets \in Seq(PlayAnswers)
<1>1. /\ ActionBarPacket \in Seq(PlayAnswers) /\ <<"TabList">> \in Seq(PlayAnswers) /\ <<"BossBar">> \in Seq(PlayAnswers)
  BY OneName DEF ActionBarPacket, PlayAnswers
<1>2. <<"PlayerInfoUpdate", "SetEntityMetadata">> \in Seq(PlayAnswers) /\ TitleTextPackets \in Seq(PlayAnswers)
  <2>1. <<"SetTitlesAnimation", "SetTitleText", "SetSubtitleText">> \in Seq(PlayAnswers)
    BY DEF PlayAnswers
  <2>2. <<"LegacySetTitle", "LegacySetTitle", "LegacySetTitle">> \in Seq(PlayAnswers)
    BY DEF PlayAnswers
  <2>3. <<"PlayerInfoUpdate", "SetEntityMetadata">> \in Seq(PlayAnswers)
    BY DEF PlayAnswers
  <2> QED
    BY <2>1, <2>2, <2>3 DEF TitleTextPackets
<1> DEFINE bar == When(settings.features, ActionBarPacket)
           list == When(settings.features, <<"TabList">> \o TitleTextPackets)
           boss == When(version >= 107 /\ settings.features, <<"BossBar">>)
<1>3. bar \in Seq(PlayAnswers) /\ list \in Seq(PlayAnswers) /\ boss \in Seq(PlayAnswers)
  BY <1>1, <1>2, Joins, NoneTyped DEF When
<1>4. VisualPackets = When(version >= 47, bar \o <<"PlayerInfoUpdate", "SetEntityMetadata">> \o list) \o boss
  BY DEF VisualPackets
<1> HIDE DEF bar, list, boss
<1>5. bar \o <<"PlayerInfoUpdate", "SetEntityMetadata">> \o list \in Seq(PlayAnswers)
  BY <1>2, <1>3, Joins
<1> QED
  BY <1>3, <1>4, <1>5, Joins, NoneTyped DEF When

LEMMA ChunkPacketsTyped == ChunkPackets \in Seq(PlayAnswers)
<1>1. <<"ChunkDataAndUpdateLight">> \in Seq(PlayAnswers) /\ <<"LightUpdate">> \in Seq(PlayAnswers)
  BY OneName DEF PlayAnswers
<1> QED
  BY <1>1, Joins, NoneTyped DEF ChunkPackets, When

LEMMA PlayPacketsTyped == PlayPackets \in Seq(PlayAnswers)
<1>1. /\ <<"Login">> \in Seq(PlayAnswers) /\ <<"ServerData">> \in Seq(PlayAnswers)
      /\ <<"ClientBoundPlayerAbilities">> \in Seq(PlayAnswers) /\ <<"SetDefaultSpawnPosition">> \in Seq(PlayAnswers)
      /\ <<"SynchronizePlayerPosition">> \in Seq(PlayAnswers) /\ <<"Commands">> \in Seq(PlayAnswers)
      /\ <<"PlayClientBoundPluginMessage">> \in Seq(PlayAnswers) /\ <<"UpdateTime">> \in Seq(PlayAnswers)
      /\ <<"GameEvent">> \in Seq(PlayAnswers) /\ <<"SetCenterChunk">> \in Seq(PlayAnswers)
  BY OneName DEF PlayAnswers
<1>2. SendMessage \in Seq(PlayAnswers)
  BY OneName DEF SendMessage, PlayAnswers
<1>3. ScoreboardPackets \in Seq(PlayAnswers)
  BY DEF ScoreboardPackets, PlayAnswers
<1>4. <<"SetContainerSlot", "SetContainerSlot">> \in Seq(PlayAnswers)
  BY DEF PlayAnswers
<1> HIDE DEF PlayAnswers
<1> QED
  BY <1>1, <1>2, <1>3, <1>4, Joins, NoneTyped, VisualPacketsTyped, ChunkPacketsTyped DEF PlayPackets, When

LEMMA LoginPacketsTyped == LoginPackets \in Seq(LoginAnswers)
<1>1. <<"SetCompression">> \in Seq(LoginAnswers)
  BY OneName DEF LoginAnswers
<1>2. <<IF version >= 768 THEN "LoginSuccess" ELSE "GameProfile">> \in Seq(LoginAnswers)
  BY OneName DEF LoginAnswers
<1> QED
  BY <1>1, <1>2, Joins, NoneTyped DEF LoginPackets, When

LEMMA RegistryPacketsTyped == RegistryPackets \in Seq(ConfigurationAnswers)
<1>1. /\ <<"RegistryData">> \in Seq(ConfigurationAnswers) /\ <<"UpdateTags">> \in Seq(ConfigurationAnswers)
      /\ <<"FinishConfiguration">> \in Seq(ConfigurationAnswers)
  BY OneName DEF ConfigurationAnswers
<1> QED
  BY <1>1, Joins, NoneTyped DEF RegistryPackets, When

LEMMA ConfigurationPacketsTyped == ConfigurationPackets \in Seq(ConfigurationAnswers)
<1>1. /\ <<"ConfigurationClientBoundPluginMessage">> \in Seq(ConfigurationAnswers)
      /\ <<"ClientBoundKnownPacks">> \in Seq(ConfigurationAnswers)
  BY OneName DEF ConfigurationAnswers
<1> QED
  BY <1>1, Joins, RegistryPacketsTyped DEF ConfigurationPackets

-------------------------------------------------------------------------------
(* What the client's version has                                           *)

Has == Numbered[version]

LEMMA WhenHas == ASSUME NEW S, NEW condition, NEW packets, condition => packets \in Seq(S) PROVE When(condition, packets) \in Seq(S)
BY NoneTyped DEF When

LEMMA VersionHas ==
  ASSUME version \in SupportedVersions
  PROVE  /\ {"StatusResponse", "PongResponse", "CustomQuery", "Login", "ClientBoundPlayerAbilities",
             "SynchronizePlayerPosition", "UpdateTime", "SetObjective", "SetDisplayObjective", "SetPlayerTeam",
             "SetScore", "ChunkDataAndUpdateLight", "SetContainerSlot", "ClientBoundKeepAlive"} \subseteq Has
         /\ version >= 47 => {"SetCompression", "PlayerInfoUpdate", "SetEntityMetadata", "TabList"} \subseteq Has
         /\ version \in 47..754 => "LegacySetTitle" \in Has
         /\ version < 759 => "LegacyChatMessage" \in Has
         /\ version < 768 => "GameProfile" \in Has
         /\ version >= 107 => "BossBar" \in Has
         /\ version >= 393 => "Commands" \in Has
         /\ version \in 393..763 => "PlayClientBoundPluginMessage" \in Has
         /\ version \in 477..756 => "LightUpdate" \in Has
         /\ version >= 755 => {"SetTitlesAnimation", "SetTitleText", "SetSubtitleText", "SetActionBarText"} \subseteq Has
         /\ version >= 759 => {"SystemChatMessage", "SetDefaultSpawnPosition", "SetCenterChunk"} \subseteq Has
         /\ version \in 759..760 => "ServerData" \in Has
         /\ version >= 764 => {"ConfigurationClientBoundPluginMessage", "RegistryData", "FinishConfiguration"} \subseteq Has
         /\ version >= 765 => "GameEvent" \in Has
         /\ version >= 767 => "ClientBoundKnownPacks" \in Has
         /\ version >= 768 => "LoginSuccess" \in Has
         /\ version >= 771 => "UpdateTags" \in Has
         /\ "ServerBoundKnownPacks" \in Has => version >= 764
         /\ version \in Nat
<1>1. version \in Nat
  BY DEF SupportedVersions
<1> QED
  BY <1>1, NumbersAssumption DEF PacketsAreNumbered, Has

LEMMA VisualPacketsEncode == ASSUME version \in SupportedVersions PROVE VisualPackets \in Seq(Has)
<1> DEFINE bar == When(settings.features, ActionBarPacket)
           info == <<"PlayerInfoUpdate", "SetEntityMetadata">>
           list == When(settings.features, <<"TabList">> \o TitleTextPackets)
           boss == When(version >= 107 /\ settings.features, <<"BossBar">>)
<1>1. boss \in Seq(Has)
  <2>1. version >= 107 => <<"BossBar">> \in Seq(Has)
    BY VersionHas, OneName
  <2> QED
    BY <2>1, WhenHas
<1>2. ASSUME version >= 47 PROVE bar \o info \o list \in Seq(Has)
  <2>1. version >= 759 \/ version < 759
    BY VersionHas
  <2>2. ActionBarPacket \in Seq(Has)
    <3>1. (IF version >= 755 THEN "SetActionBarText"
           ELSE IF version >= 315 THEN "LegacySetTitle" ELSE "LegacyChatMessage") \in Has
      BY <1>2, VersionHas
    <3> QED
      BY <3>1, OneName DEF ActionBarPacket
  <2>3. TitleTextPackets \in Seq(Has)
    <3>1. CASE version >= 755
      <4>1. "SetTitlesAnimation" \in Has /\ "SetTitleText" \in Has /\ "SetSubtitleText" \in Has
        BY <3>1, VersionHas
      <4>2. <<"SetTitlesAnimation", "SetTitleText", "SetSubtitleText">> \in Seq(Has)
        BY <4>1
      <4> QED
        BY <3>1, <4>2 DEF TitleTextPackets
    <3>2. CASE ~(version >= 755)
      <4>1. "LegacySetTitle" \in Has
        BY <1>2, <3>2, VersionHas
      <4>2. <<"LegacySetTitle", "LegacySetTitle", "LegacySetTitle">> \in Seq(Has)
        BY <4>1
      <4> QED
        BY <3>2, <4>2 DEF TitleTextPackets
    <3> QED
      BY <3>1, <3>2
  <2>4. <<"TabList">> \in Seq(Has) /\ info \in Seq(Has)
    <3>1. "TabList" \in Has /\ "PlayerInfoUpdate" \in Has /\ "SetEntityMetadata" \in Has
      BY <1>2, VersionHas
    <3> QED
      BY <3>1
  <2>5. bar \in Seq(Has)
    BY <2>2, WhenHas
  <2>6. <<"TabList">> \o TitleTextPackets \in Seq(Has)
    BY <2>3, <2>4, Joins
  <2>7. list \in Seq(Has)
    BY <2>6, WhenHas
  <2> HIDE DEF bar, info, list
  <2> QED
    BY <2>4, <2>5, <2>7, Joins
<1>3. VisualPackets = When(version >= 47, bar \o info \o list) \o boss
  BY DEF VisualPackets
<1> HIDE DEF bar, info, list, boss
<1>4. When(version >= 47, bar \o info \o list) \in Seq(Has)
  BY <1>2, WhenHas
<1> QED
  BY <1>1, <1>3, <1>4, Joins

LEMMA PlayPacketsEncode == ASSUME version \in SupportedVersions PROVE PlayPackets \in Seq(Has)
<1>1. /\ <<"Login">> \in Seq(Has) /\ <<"ClientBoundPlayerAbilities">> \in Seq(Has)
      /\ <<"SynchronizePlayerPosition">> \in Seq(Has) /\ <<"UpdateTime">> \in Seq(Has)
  <2>1. "Login" \in Has /\ "ClientBoundPlayerAbilities" \in Has /\ "SynchronizePlayerPosition" \in Has /\ "UpdateTime" \in Has
    BY VersionHas
  <2> QED
    BY <2>1, OneName
<1> DEFINE data == When(version \in 759..760, <<"ServerData">>)
           spawn == When(version >= 759, <<"SetDefaultSpawnPosition">>)
           commands == When(version >= 393, <<"Commands">>)
           plugin == When(version \in 393..763, <<"PlayClientBoundPluginMessage">>)
           message == When(settings.features, SendMessage)
           scoreboard == When(settings.features, ScoreboardPackets)
           event == When(version >= 765, <<"GameEvent">>)
           center == When(version >= 759, <<"SetCenterChunk">>)
           slots == When(settings.lobby /\ settings.features, <<"SetContainerSlot", "SetContainerSlot">>)
<1>2. data \in Seq(Has) /\ spawn \in Seq(Has) /\ commands \in Seq(Has) /\ plugin \in Seq(Has)
  <2>1. /\ version \in 759..760 => <<"ServerData">> \in Seq(Has)
        /\ version >= 759 => <<"SetDefaultSpawnPosition">> \in Seq(Has)
        /\ version >= 393 => <<"Commands">> \in Seq(Has)
        /\ version \in 393..763 => <<"PlayClientBoundPluginMessage">> \in Seq(Has)
    BY VersionHas, OneName
  <2> QED
    BY <2>1, NoneTyped DEF When
<1>3. event \in Seq(Has) /\ center \in Seq(Has)
  <2>1. /\ version >= 765 => <<"GameEvent">> \in Seq(Has)
        /\ version >= 759 => <<"SetCenterChunk">> \in Seq(Has)
    BY VersionHas, OneName
  <2> QED
    BY <2>1, NoneTyped DEF When
<1>4. message \in Seq(Has)
  <2>1. (IF version >= 759 THEN "SystemChatMessage" ELSE "LegacyChatMessage") \in Has
    BY VersionHas
  <2>2. SendMessage \in Seq(Has)
    BY <2>1, OneName DEF SendMessage
  <2> QED
    BY <2>2, WhenHas
<1>5. scoreboard \in Seq(Has) /\ slots \in Seq(Has)
  <2>1. /\ "SetObjective" \in Has /\ "SetDisplayObjective" \in Has /\ "SetPlayerTeam" \in Has /\ "SetScore" \in Has
        /\ "SetContainerSlot" \in Has
    BY VersionHas
  <2>2. ScoreboardPackets \in Seq(Has)
    BY <2>1 DEF ScoreboardPackets
  <2>3. <<"SetContainerSlot", "SetContainerSlot">> \in Seq(Has)
    BY <2>1
  <2> QED
    BY <2>2, <2>3, WhenHas
<1>6. ChunkPackets \in Seq(Has)
  <2>1. <<"ChunkDataAndUpdateLight">> \in Seq(Has) /\ (version \in 477..756 => <<"LightUpdate">> \in Seq(Has))
    BY VersionHas, OneName
  <2>2. When(version \in 477..756, <<"LightUpdate">>) \in Seq(Has)
    BY <2>1, NoneTyped DEF When
  <2> QED
    BY <2>1, <2>2, Joins DEF ChunkPackets
<1>7. VisualPackets \in Seq(Has)
  BY VisualPacketsEncode
<1>8. PlayPackets =
        <<"Login">> \o data \o <<"ClientBoundPlayerAbilities">> \o spawn \o <<"SynchronizePlayerPosition">> \o commands \o plugin
          \o message \o <<"UpdateTime">> \o scoreboard \o VisualPackets \o event \o center \o ChunkPackets \o slots
  BY DEF PlayPackets
<1> HIDE DEF data, spawn, commands, plugin, message, scoreboard, event, center, slots
<1>9. <<"Login">> \o data \o <<"ClientBoundPlayerAbilities">> \o spawn \o <<"SynchronizePlayerPosition">> \o commands \o plugin
        \in Seq(Has)
  BY <1>1, <1>2, Joins
<1> QED
  BY <1>1, <1>3, <1>4, <1>5, <1>6, <1>7, <1>8, <1>9, Joins

LEMMA LoginPacketsEncode == ASSUME version \in SupportedVersions PROVE LoginPackets \in Seq(Has)
<1>1. version >= 47 => <<"SetCompression">> \in Seq(Has)
  BY VersionHas, OneName
<1>2. When(version >= 47 /\ settings.compression, <<"SetCompression">>) \in Seq(Has)
  BY <1>1, WhenHas
<1>3. (IF version >= 768 THEN "LoginSuccess" ELSE "GameProfile") \in Has
  BY VersionHas
<1>4. <<IF version >= 768 THEN "LoginSuccess" ELSE "GameProfile">> \in Seq(Has)
  BY <1>3, OneName
<1> QED
  BY <1>2, <1>4, Joins DEF LoginPackets

LEMMA ConfigurationEncodes ==
  ASSUME version \in SupportedVersions, Configures
  PROVE  RegistryPackets \in Seq(Has) /\ ConfigurationPackets \in Seq(Has)
<1>1. version >= 764
  BY DEF Configures
<1>2. /\ <<"RegistryData">> \in Seq(Has) /\ <<"FinishConfiguration">> \in Seq(Has)
      /\ <<"ConfigurationClientBoundPluginMessage">> \in Seq(Has)
      /\ version >= 767 => <<"ClientBoundKnownPacks">> \in Seq(Has)
      /\ version >= 771 => <<"UpdateTags">> \in Seq(Has)
  BY <1>1, VersionHas, OneName
<1>3. When(version >= 771, <<"UpdateTags">>) \in Seq(Has)
  BY <1>2, WhenHas
<1>4. RegistryPackets \in Seq(Has)
  BY <1>2, <1>3, Joins DEF RegistryPackets
<1>5. (IF version >= 767 THEN <<"ClientBoundKnownPacks">> ELSE RegistryPackets) \in Seq(Has)
  BY <1>2, <1>4
<1> QED
  BY <1>2, <1>4, <1>5, Joins DEF ConfigurationPackets

-------------------------------------------------------------------------------
(* Only a client that has a configuration state acknowledges the login: the *)
(* number of that packet is known for all versions.                        *)
Sayable ==
  {name \in {"Handshake", "StatusRequest", "PingRequest", "LoginStart", "CustomQueryAnswer", "LoginAcknowledged",
             "ServerBoundKnownPacks", "AcknowledgeConfiguration", "SetPlayerPosition", "KeepAlive"} :
     name = "LoginAcknowledged" => Configures}
Said == [name : Sayable, packed : BOOLEAN]

EncodesInv ==
  /\ version \in Versions /\ unpacks \in BOOLEAN
  /\ batch \in Seq(Has) /\ up \in Seq(Said)

LEMMA EncodesInitially == Init => EncodesInv
<1> SUFFICES ASSUME Init PROVE EncodesInv
  OBVIOUS
<1> DEFINE second == IF intent = "status" THEN "StatusRequest" ELSE "LoginStart"
<1>1. /\ version \in Versions /\ unpacks = FALSE /\ batch = <<>>
      /\ up = [i \in 1..2 |-> [name |-> IF i = 1 THEN "Handshake" ELSE second, packed |-> FALSE]]
  BY DEF Init
<1>2. "Handshake" \in Sayable /\ second \in Sayable
  BY DEF Sayable
<1> HIDE DEF second
<1>3. \A i \in 1..2 : [name |-> IF i = 1 THEN "Handshake" ELSE second, packed |-> FALSE] \in Said
  BY <1>2 DEF Said
<1>4. up \in Seq(Said)
  BY <1>1, <1>3
<1> QED
  BY <1>1, <1>4, NoneTyped DEF EncodesInv

LEMMA SaysOnly ==
  ASSUME EncodesInv, unpacks' \in BOOLEAN, NEW names \in Seq(Sayable), Says(names)
  PROVE  up' \in Seq(Said)
<1>1. Len(names) \in Nat /\ DOMAIN names = 1..Len(names) /\ \A i \in DOMAIN names : names[i] \in Sayable
  OBVIOUS
<1>2. \A i \in DOMAIN names : [name |-> names[i], packed |-> unpacks'] \in Said
  BY <1>1 DEF Said
<1>3. [i \in DOMAIN names |-> [name |-> names[i], packed |-> unpacks']] \in Seq(Said)
  BY <1>1, <1>2
<1>4. up \in Seq(Said)
  BY DEF EncodesInv
<1> QED
  BY <1>3, <1>4, Joins DEF Says

LEMMA SameVersion == ASSUME UNCHANGED version PROVE Has' = Has /\ Said' = Said /\ (Configures' <=> Configures)
BY DEF Has, Said, Sayable, Configures

LEMMA AnswersSayable == ASSUME NEW name PROVE Answers(name) \in Seq(Sayable)
<1>1. \/ Answers(name) = <<"PingRequest">> \/ Answers(name) = <<"CustomQueryAnswer">>
      \/ (Configures /\ Answers(name) = <<"LoginAcknowledged">>) \/ Answers(name) = <<"ServerBoundKnownPacks">>
      \/ Answers(name) = <<"AcknowledgeConfiguration">> \/ Answers(name) = <<"KeepAlive">> \/ Answers(name) = <<>>
  BY DEF Answers
<1>2. \A word \in Sayable : <<word>> \in Seq(Sayable)
  BY OneName
<1>3. /\ {"PingRequest", "CustomQueryAnswer", "ServerBoundKnownPacks", "AcknowledgeConfiguration", "KeepAlive"} \subseteq Sayable
      /\ Configures => "LoginAcknowledged" \in Sayable
  BY DEF Sayable
<1> HIDE DEF Sayable
<1> QED
  BY <1>1, <1>2, <1>3, NoneTyped

LEMMA ClientEncodes == ASSUME EncodesInv, ClientStep PROVE EncodesInv'
<1>1. UNCHANGED <<version, batch>> /\ Has' = Has /\ Said' = Said
  <2>1. UNCHANGED <<version, batch>>
    BY DEF ClientStep, ClientReadsPacket, ClientMoves, ClientLeaves, ClientStalls, OthersComeOrGo, clientVars
  <2> QED
    BY <2>1, SameVersion
<1>2. unpacks' \in BOOLEAN /\ up' \in Seq(Said)
  <2>1. CASE ClientReadsPacket
    <3>1. CASE Understands(Head(down))
      <4>1. unpacks' = (unpacks \/ Head(down).name = "SetCompression") /\ Says(Answers(Head(down).name))
        BY <2>1, <3>1 DEF ClientReadsPacket
      <4>2. unpacks' \in BOOLEAN
        BY <4>1 DEF EncodesInv
      <4> QED
        BY <4>1, <4>2, AnswersSayable, SaysOnly
    <3>2. CASE ~Understands(Head(down))
      BY <2>1, <3>2 DEF ClientReadsPacket, EncodesInv
    <3> QED
      BY <3>1, <3>2
  <2>2. CASE ClientMoves
    <3>1. unpacks' \in BOOLEAN /\ Says(<<"SetPlayerPosition">>)
      BY <2>2 DEF ClientMoves, EncodesInv
    <3>2. <<"SetPlayerPosition">> \in Seq(Sayable)
      BY OneName DEF Sayable
    <3> QED
      BY <3>1, <3>2, SaysOnly
  <2>3. CASE ClientLeaves \/ ClientStalls \/ OthersComeOrGo
    BY <2>3 DEF ClientLeaves, ClientStalls, OthersComeOrGo, clientVars, EncodesInv
  <2> QED
    BY <2>1, <2>2, <2>3 DEF ClientStep
<1> QED
  BY <1>1, <1>2 DEF EncodesInv

LEMMA EnterPlayEncodes ==
  ASSUME EncodesInv, NEW before \in Seq(Has), EnterPlay(before)
  PROVE  batch' \in Seq(Has)
<1>1. version \in SupportedVersions
  BY ConnectionAssumption DEF EncodesInv
<1>2. batch' = before \/ batch' = before \o PlayPackets \/ batch' = batch
  BY DEF EnterPlay, Answer
<1>3. before \o PlayPackets \in Seq(Has)
  BY <1>1, PlayPacketsEncode, Joins
<1> QED
  BY <1>2, <1>3 DEF EncodesInv

LEMMA LogInEncodes == ASSUME EncodesInv, LogIn PROVE batch' \in Seq(Has)
<1>1. version \in SupportedVersions
  BY ConnectionAssumption DEF EncodesInv
<1>2. LoginPackets \in Seq(Has)
  BY <1>1, LoginPacketsEncode
<1> QED
  BY <1>2, EnterPlayEncodes DEF LogIn, Answer

LEMMA HandlersEncode == ASSUME EncodesInv, HandleStep PROVE EncodesInv'
<1>1. /\ up # <<>> /\ up' = Tail(up) /\ UNCHANGED <<version, unpacks>>
  <2>1. ASSUME NEW name, Takes(name) PROVE up # <<>> /\ up' = Tail(up) /\ UNCHANGED <<version, unpacks>>
    BY <2>1 DEF Takes, clientVars
  <2>2. (\E name : Takes(name)) \/ Unknown
    BY DEF HandleStep, Handshake, StatusRequest, PingRequest, LoginStart, CustomQueryAnswer, LoginAcknowledged,
       ServerBoundKnownPacks, AcknowledgeConfiguration, SetPlayerPosition
  <2> QED
    BY <2>1, <2>2 DEF Unknown, clientVars
<1>2. Has' = Has /\ Said' = Said
  BY <1>1, SameVersion
<1>3. up' \in Seq(Said)
  BY <1>1 DEF EncodesInv
<1>4. version \in SupportedVersions
  BY ConnectionAssumption DEF EncodesInv
<1>5. /\ <<>> \in Seq(Has) /\ <<"StatusResponse">> \in Seq(Has) /\ <<"PongResponse">> \in Seq(Has)
      /\ <<"CustomQuery">> \in Seq(Has)
  BY <1>4, VersionHas, OneName, NoneTyped
<1>6. batch' \in Seq(Has)
  <2>1. CASE Handshake \/ StatusRequest \/ PingRequest \/ SetPlayerPosition \/ Unknown
    <3>1. \/ batch' = <<>> \/ batch' = batch \/ batch' = <<"StatusResponse">> \/ batch' = <<"PongResponse">>
      BY <2>1 DEF Handshake, StatusRequest, PingRequest, SetPlayerPosition, Unknown, Answer, Refuse
    <3> QED
      BY <1>5, <3>1 DEF EncodesInv
  <2>2. CASE LoginStart \/ CustomQueryAnswer
    <3>1. LogIn \/ batch' = <<"CustomQuery">> \/ batch' = <<>>
      BY <2>2 DEF LoginStart, CustomQueryAnswer, Answer
    <3> QED
      BY <1>5, <3>1, LogInEncodes
  <2>3. CASE LoginAcknowledged
    <3>1. Takes("LoginAcknowledged") /\ batch' = ConfigurationPackets
      BY <2>3 DEF LoginAcknowledged, Answer
    <3>2. Head(up) \in Said /\ Head(up).name = "LoginAcknowledged"
      BY <1>1, <3>1 DEF EncodesInv, Takes
    <3>3. Configures
      BY <3>2 DEF Said, Sayable
    <3> QED
      BY <1>4, <3>1, <3>3, ConfigurationEncodes
  <2>4. CASE ServerBoundKnownPacks
    <3>1. Takes("ServerBoundKnownPacks") /\ batch' = RegistryPackets
      BY <2>4 DEF ServerBoundKnownPacks, Answer
    <3>2. "ServerBoundKnownPacks" \in Has
      BY <3>1 DEF Takes, Decodable, Has
    <3>3. Configures
      BY <1>4, <3>2, VersionHas DEF Configures
    <3> QED
      BY <1>4, <3>1, <3>3, ConfigurationEncodes
  <2>5. CASE AcknowledgeConfiguration
    <3>1. EnterPlay(<<>>)
      BY <2>5 DEF AcknowledgeConfiguration
    <3> QED
      BY <1>5, <3>1, EnterPlayEncodes
  <2> QED
    BY <2>1, <2>2, <2>3, <2>4, <2>5 DEF HandleStep
<1> QED
  BY <1>1, <1>2, <1>3, <1>6 DEF EncodesInv

LEMMA TaskEncodes == ASSUME EncodesInv, WriteStep \/ SelectStep PROVE EncodesInv'
<1>1. UNCHANGED <<version, unpacks, up>>
  BY DEF WriteStep, WritePacket, WriteFails, WriteTimesOut, KickClient, FinishPacket, SelectStep, KeepAliveTick, TimePasses,
     IdleTimeout, EndOfStream, Release, taskRest, clientVars
<1>2. Has' = Has /\ Said' = Said
  BY <1>1, SameVersion
<1>3. version \in SupportedVersions
  BY ConnectionAssumption DEF EncodesInv
<1>4. \/ batch' = batch \/ batch' = <<>> \/ (batch # <<>> /\ batch' = Tail(batch)) \/ batch' = <<"ClientBoundKeepAlive">>
  <2>1. CASE WritePacket
    BY <2>1 DEF WritePacket
  <2>2. CASE KeepAliveTick
    BY <2>2 DEF KeepAliveTick, Answer, When
  <2>3. CASE WriteFails \/ WriteTimesOut \/ KickClient \/ FinishPacket \/ TimePasses \/ IdleTimeout \/ EndOfStream \/ Release
    BY <2>3 DEF WriteFails, WriteTimesOut, KickClient, FinishPacket, TimePasses, IdleTimeout, EndOfStream, Release
  <2> QED
    BY <2>1, <2>2, <2>3 DEF WriteStep, SelectStep
<1>5. <<"ClientBoundKeepAlive">> \in Seq(Has)
  <2>1. "ClientBoundKeepAlive" \in Has
    BY <1>3, VersionHas
  <2> QED
    BY <2>1, OneName
<1>6. batch' \in Seq(Has)
  <2>1. batch \in Seq(Has) /\ <<>> \in Seq(Has) /\ (batch # <<>> => Tail(batch) \in Seq(Has))
    BY NoneTyped DEF EncodesInv
  <2> QED
    BY <1>4, <1>5, <2>1
<1> QED
  BY <1>1, <1>2, <1>6 DEF EncodesInv

LEMMA EncodesStep == EncodesInv /\ [Next]_vars => EncodesInv'
<1> SUFFICES ASSUME EncodesInv, [Next]_vars PROVE EncodesInv'
  OBVIOUS
<1>1. CASE UNCHANGED vars
  <2>1. UNCHANGED <<version, unpacks, batch, up>>
    BY <1>1 DEF vars, clientVars
  <2> QED
    BY <2>1, SameVersion DEF EncodesInv
<1> QED
  BY <1>1, ClientEncodes, HandlersEncode, TaskEncodes DEF Next

LEMMA InvEncodes == EncodesInv => EverythingEncodes
<1> SUFFICES ASSUME EncodesInv, NEW i \in DOMAIN batch PROVE CanEncode(batch[i], version)
  BY DEF EverythingEncodes
<1>1. batch[i] \in Has
  BY DEF EncodesInv
<1> QED
  BY <1>1 DEF CanEncode, Has

(* Whatever its version, settings and way to the game, a client is sent     *)
(* only packets that its version has: no answer is cut off half way, which *)
(* would leave a player in play whom nobody keeps alive.                   *)
THEOREM EverythingIsEncoded == Spec => []EverythingEncodes
BY EncodesInitially, EncodesStep, InvEncodes, PTL DEF Spec

-------------------------------------------------------------------------------
(* Which packets a state takes                                             *)

LEMMA TakesInState ==
  ASSUME TaskTyped, NEW name, Takes(name)
  PROVE  /\ name = "Handshake" => state = "handshake"
         /\ name \in {"LoginStart", "CustomQueryAnswer", "LoginAcknowledged"} => state = "login"
         /\ name \in {"StatusRequest", "PingRequest"} => state = "status"
         /\ name \in {"ServerBoundKnownPacks", "AcknowledgeConfiguration"} => state = "configuration"
<1>1. name \in ToSet(Serverbound[state])
  BY DEF Takes, Decodable
<1>2. ToSet(Serverbound["handshake"]) = {"Handshake"}
  BY DEF ToSet, Serverbound
<1>3. ToSet(Serverbound["status"]) = {"StatusRequest", "PingRequest"}
  BY DEF ToSet, Serverbound
<1>4. ToSet(Serverbound["login"]) = {"LoginStart", "LoginAcknowledged", "CustomQueryAnswer"}
  BY DEF ToSet, Serverbound
<1>5. ToSet(Serverbound["configuration"]) = {"AcknowledgeConfiguration", "ServerBoundKnownPacks", "ConfigurationClientInformation"}
  BY DEF ToSet, Serverbound
<1>6. ToSet(Serverbound["play"]) \cap {"Handshake", "LoginStart", "CustomQueryAnswer", "LoginAcknowledged",
                                       "AcknowledgeConfiguration", "ServerBoundKnownPacks", "StatusRequest",
                                       "PingRequest"} = {}
  BY DEF ToSet, Serverbound
<1> QED
  BY <1>1, <1>2, <1>3, <1>4, <1>5, <1>6 DEF TaskTyped, States

-------------------------------------------------------------------------------
(* The client's steps change nothing of the task, and a client that is gone *)
(* does not come back.                                                     *)
LEMMA ClientStepKeeps ==
  ASSUME ClientStep
  PROVE  /\ UNCHANGED <<settings, proxied, pc, batch, ticking, stateVars, packs, told>>
         /\ client = "closed" => client' = "closed"
         /\ Gone => Gone'
BY DEF ClientStep, ClientReadsPacket, ClientMoves, ClientLeaves, ClientStalls, OthersComeOrGo, clientVars, Gone

(* Every handler answers from the select!, and with an answer.             *)
LEMMA TakesKeeps ==
  ASSUME NEW name, Takes(name)
  PROVE  pc = "select" /\ ticking' = FALSE /\ UNCHANGED <<client, reads, proxied, settings, told>>
BY DEF Takes, clientVars

LEMMA SettingsTyped == ASSUME TaskTyped PROVE settings.lobby \in BOOLEAN
BY ConnectionAssumption DEF TaskTyped, SettingsOf

(* What entering play does to the state, whichever way it goes.            *)
LEMMA EnterPlayDoes ==
  ASSUME TaskTyped, pc = "select", ~ticking', UNCHANGED settings, state \in {"login", "configuration"},
         NEW before \in Seq(Answered), EnterPlay(before)
  PROVE  /\ TaskTyped' /\ InPlayOnce' /\ state' \in {"login", "configuration", "play"}
         /\ UNCHANGED kick \/ pc' = "write"
<1>1. before \o PlayPackets \in Seq(Answered)
  <2>1. PlayAnswers \subseteq Answered
    BY DEF Answered
  <2>2. PlayPackets \in Seq(Answered)
    BY <2>1, PlayPacketsTyped
  <2> QED
    BY <2>2, Joins
<1>2. settings.lobby \in BOOLEAN
  BY SettingsTyped
<1>3. CASE /\ kick' = "The lobby is full." /\ Answer(before)
           /\ UNCHANGED <<state, keepAlive, wasInPlayState, counted, registered>>
  BY <1>3 DEF TaskTyped, InPlayOnce, Answer
<1>4. CASE /\ state' = "play" /\ wasInPlayState' = TRUE /\ keepAlive' = "should"
           /\ registered' = settings.lobby /\ counted' = ~settings.lobby
           /\ Answer(before \o PlayPackets) /\ UNCHANGED kick
  BY <1>1, <1>2, <1>4 DEF TaskTyped, InPlayOnce, Answer, States
<1>5. CASE /\ registered' = settings.lobby /\ pc' = "select"
           /\ UNCHANGED <<batch, state, kick, keepAlive, wasInPlayState, counted>>
  BY <1>2, <1>5 DEF TaskTyped, InPlayOnce
<1> QED
  BY <1>3, <1>4, <1>5 DEF EnterPlay

LEMMA LogInDoes ==
  ASSUME TaskTyped, pc = "select", ~ticking', UNCHANGED settings, state = "login", LogIn
  PROVE  /\ TaskTyped' /\ InPlayOnce' /\ state' \in {"login", "configuration", "play"}
         /\ UNCHANGED kick \/ pc' = "write"
<1>1. LoginPackets \in Seq(Answered)
  <2>1. LoginAnswers \subseteq Answered
    BY DEF Answered
  <2> QED
    BY <2>1, LoginPacketsTyped
<1>2. CASE Configures
  <2>1. Answer(LoginPackets) /\ UNCHANGED stateVars
    BY <1>2 DEF LogIn
  <2> QED
    BY <1>1, <2>1 DEF Answer, stateVars, TaskTyped, InPlayOnce
<1>3. CASE ~Configures
  BY <1>1, <1>3, EnterPlayDoes DEF LogIn
<1> QED
  BY <1>2, <1>3

(* A handler leaves the task typed and a player in play counted; and a kick *)
(* is one it has found, or one that will be sent.                          *)
HandledWell ==
  /\ TaskTyped' /\ InPlayOnce'
  /\ \/ UNCHANGED kick
     \/ pc' = "write" /\ ~ticking' /\ state' \in {"login", "configuration", "play"}
     \/ PastLegacyProxy

LEMMA Refused ==
  ASSUME TaskTyped, InPlayOnce, pc = "select", ~ticking', UNCHANGED <<settings, client>>,
         NEW answer \in Seq(Answered), Answer(answer), UNCHANGED <<state, keepAlive, wasInPlayState, counted, registered>>,
         UNCHANGED kick \/ state \in {"login", "configuration", "play"}
  PROVE  HandledWell
BY DEF HandledWell, Answer, TaskTyped, InPlayOnce

LEMMA AnsweredTyped ==
  /\ <<>> \in Seq(Answered)
  /\ \A name \in Answered : <<name>> \in Seq(Answered)
  /\ {"StatusResponse", "PongResponse", "CustomQuery", "ClientBoundKeepAlive"} \subseteq Answered
  /\ ConfigurationPackets \in Seq(Answered) /\ RegistryPackets \in Seq(Answered)
<1>1. ConfigurationAnswers \subseteq Answered
  BY DEF Answered
<1>2. ConfigurationPackets \in Seq(Answered) /\ RegistryPackets \in Seq(Answered)
  BY <1>1, ConfigurationPacketsTyped, RegistryPacketsTyped
<1>3. {"StatusResponse", "PongResponse", "CustomQuery", "ClientBoundKeepAlive"} \subseteq Answered
  BY DEF Answered, StatusAnswers, LoginAnswers, PlayAnswers
<1> QED
  BY <1>2, <1>3, OneName, NoneTyped

LEMMA HandlersWell ==
  ASSUME TaskTyped, InPlayOnce, HandleStep
  PROVE  HandledWell
<1>1. CASE Handshake
  <2>1. state = "handshake" /\ pc = "select" /\ ~ticking' /\ UNCHANGED <<client, settings>>
    BY <1>1, TakesInState, TakesKeeps DEF Handshake
  <2>2. /\ state' \in {"status", "login"} /\ UNCHANGED <<keepAlive, wasInPlayState, counted, registered>>
        /\ UNCHANGED kick \/ PastLegacyProxy
        /\ Answer(<<>>) \/ Refuse
    BY <1>1 DEF Handshake, PastLegacyProxy
  <2>3. batch' \in Seq(Answered) /\ pc' \in {"write", "close"} /\ (batch' # <<>> => pc' = "write")
    BY <2>1, <2>2, AnsweredTyped DEF Answer, Refuse, TaskTyped
  <2> QED
    BY <2>1, <2>2, <2>3 DEF HandledWell, TaskTyped, InPlayOnce, States
<1>2. CASE StatusRequest \/ PingRequest \/ ServerBoundKnownPacks \/ SetPlayerPosition
  <2>1. pc = "select" /\ ~ticking' /\ UNCHANGED <<client, settings>> /\ UNCHANGED stateVars
    BY <1>2, TakesKeeps DEF StatusRequest, PingRequest, ServerBoundKnownPacks, SetPlayerPosition
  <2>2. \/ Answer(<<"StatusResponse">>) \/ Answer(<<"PongResponse">>) \/ Answer(RegistryPackets) \/ Answer(<<>>)
    BY <1>2 DEF StatusRequest, PingRequest, ServerBoundKnownPacks, SetPlayerPosition
  <2>3. \E answer \in Seq(Answered) : Answer(answer)
    BY <2>2, AnsweredTyped
  <2> QED
    BY <2>1, <2>3, Refused DEF stateVars
<1>3. CASE LoginStart
  <2>1. state = "login" /\ pc = "select" /\ ~ticking' /\ UNCHANGED <<client, settings>>
    BY <1>3, TakesInState, TakesKeeps DEF LoginStart
  <2>2. CASE LogIn
    BY <2>1, <2>2, LogInDoes DEF HandledWell
  <2>3. CASE Answer(<<"CustomQuery">>) /\ UNCHANGED stateVars
    BY <2>1, <2>3, AnsweredTyped, Refused DEF stateVars
  <2>4. CASE Answer(<<>>) /\ UNCHANGED <<state, keepAlive, wasInPlayState, counted, registered>>
    BY <2>1, <2>4, AnsweredTyped, Refused
  <2> QED
    BY <1>3, <2>2, <2>3, <2>4 DEF LoginStart
<1>4. CASE CustomQueryAnswer
  <2>1. state = "login" /\ pc = "select" /\ ~ticking' /\ UNCHANGED <<client, settings>>
    BY <1>4, TakesInState, TakesKeeps DEF CustomQueryAnswer
  <2>2. CASE LogIn
    BY <2>1, <2>2, LogInDoes DEF HandledWell
  <2>3. CASE Answer(<<>>) /\ UNCHANGED <<state, keepAlive, wasInPlayState, counted, registered>>
    BY <2>1, <2>3, AnsweredTyped, Refused
  <2> QED
    BY <1>4, <2>2, <2>3 DEF CustomQueryAnswer
<1>5. CASE LoginAcknowledged
  <2>1. state = "login" /\ pc = "select" /\ ~ticking' /\ UNCHANGED <<client, settings>>
    BY <1>5, TakesInState, TakesKeeps DEF LoginAcknowledged
  <2>2. /\ state' = "configuration" /\ Answer(ConfigurationPackets)
        /\ UNCHANGED <<kick, keepAlive, wasInPlayState, counted, registered>>
    BY <1>5 DEF LoginAcknowledged
  <2> QED
    BY <2>1, <2>2, AnsweredTyped DEF HandledWell, Answer, TaskTyped, InPlayOnce, States
<1>6. CASE AcknowledgeConfiguration
  <2>1. state = "configuration" /\ pc = "select" /\ ~ticking' /\ UNCHANGED <<client, settings>>
    BY <1>6, TakesInState, TakesKeeps DEF AcknowledgeConfiguration
  <2> QED
    BY <1>6, <2>1, AnsweredTyped, EnterPlayDoes DEF AcknowledgeConfiguration, HandledWell
<1>7. CASE Unknown
  <2>1. UNCHANGED <<pc, batch, ticking, client, settings>> /\ UNCHANGED stateVars
    BY <1>7 DEF Unknown, clientVars
  <2> QED
    BY <2>1 DEF HandledWell, TaskTyped, InPlayOnce, stateVars
<1> QED
  BY <1>1, <1>2, <1>3, <1>4, <1>5, <1>6, <1>7 DEF HandleStep

-------------------------------------------------------------------------------
(* The batch is written, and the other arms of select!                     *)

LEMMA BatchHead ==
  ASSUME TaskTyped, EverythingEncodes, batch # <<>>
  PROVE  CanEncode(Head(batch), version) /\ Tail(batch) \in Seq(Answered)
BY DEF TaskTyped, EverythingEncodes

LEMMA WriteStepWell ==
  ASSUME TaskTyped, EverythingEncodes, WriteStep
  PROVE  /\ TaskTyped' /\ (InPlayOnce => InPlayOnce') /\ (KickUnderWay => KickUnderWay')
<1>1. CASE WritePacket
  <2>1. batch' = Tail(batch) /\ batch' \in Seq(Answered) /\ pc = "write" /\ UNCHANGED <<pc, taskRest, keepAlive, told>>
    BY <1>1, BatchHead DEF WritePacket
  <2> QED
    BY <2>1 DEF TaskTyped, InPlayOnce, KickUnderWay, Gone, PastLegacyProxy, taskRest, clientVars
<1>2. CASE WriteFails
  <2>1. /\ client = "closed" /\ pc' \in {"close", "select"} /\ batch' = <<>> /\ pc = "write"
        /\ UNCHANGED <<taskRest, keepAlive, told>>
    BY <1>2 DEF WriteFails
  <2> QED
    BY <2>1, NoneTyped DEF TaskTyped, InPlayOnce, KickUnderWay, Gone, PastLegacyProxy, taskRest, clientVars
<1>3. CASE WriteTimesOut
  <2>1. ~reads /\ pc' = "close" /\ batch' = <<>> /\ pc = "write" /\ UNCHANGED <<taskRest, keepAlive, told>>
    BY <1>3 DEF WriteTimesOut
  <2> QED
    BY <2>1, NoneTyped DEF TaskTyped, InPlayOnce, KickUnderWay, Gone, PastLegacyProxy, taskRest, clientVars
<1>4. CASE KickClient
  <2>1. /\ pc = "write" /\ pc' = "close" /\ batch = <<>> /\ UNCHANGED <<taskRest, batch, keepAlive>>
        /\ told' \/ (UNCHANGED told /\ (Gone \/ DisconnectPacket = <<>>))
    BY <1>4 DEF KickClient, Gone
  <2>2. state \in {"login", "configuration", "play"} => DisconnectPacket # <<>>
    BY DEF DisconnectPacket
  <2> QED
    BY <2>1, <2>2 DEF TaskTyped, InPlayOnce, KickUnderWay, Gone, PastLegacyProxy, taskRest, clientVars
<1>5. CASE FinishPacket
  <2>1. /\ pc = "write" /\ pc' = "select" /\ batch = <<>> /\ (ticking \/ kick = NoKick)
        /\ keepAlive' = (IF keepAlive = "should" /\ ~ticking THEN "on" ELSE keepAlive)
        /\ UNCHANGED <<taskRest, batch, told>>
    BY <1>5 DEF FinishPacket
  <2> QED
    BY <2>1 DEF TaskTyped, InPlayOnce, KickUnderWay, Gone, PastLegacyProxy, taskRest, clientVars
<1> QED
  BY <1>1, <1>2, <1>3, <1>4, <1>5 DEF WriteStep

LEMMA SelectStepWell ==
  ASSUME TaskTyped, SelectStep
  PROVE  /\ TaskTyped' /\ (InPlayOnce => InPlayOnce') /\ (KickUnderWay => KickUnderWay')
<1>1. CASE KeepAliveTick
  <2>1. /\ pc = "select" /\ keepAlive = "on" /\ pc' = "write"
        /\ UNCHANGED <<clientVars, settings, stateVars, told>>
        /\ batch' = IF state = "play" THEN <<"ClientBoundKeepAlive">> ELSE <<>>
    BY <1>1 DEF KeepAliveTick, Answer, When
  <2>2. batch' \in Seq(Answered)
    BY <2>1, AnsweredTyped
  <2> QED
    BY <2>1, <2>2 DEF TaskTyped, InPlayOnce, KickUnderWay, Gone, PastLegacyProxy, clientVars, stateVars
<1>2. CASE TimePasses
  BY <1>2 DEF TimePasses, TaskTyped, InPlayOnce, KickUnderWay, Gone, PastLegacyProxy, clientVars, stateVars
<1>3. CASE IdleTimeout \/ EndOfStream
  <2>1. pc = "select" /\ pc' = "close" /\ UNCHANGED <<taskRest, batch, keepAlive, told>>
    BY <1>3 DEF IdleTimeout, EndOfStream
  <2> QED
    BY <2>1 DEF TaskTyped, InPlayOnce, KickUnderWay, Gone, PastLegacyProxy, taskRest, clientVars
<1>4. CASE Release
  <2>1. /\ pc = "close" /\ pc' = "released" /\ registered' = FALSE /\ counted' = (counted /\ ~wasInPlayState)
        /\ UNCHANGED <<clientVars, settings, batch, ticking, state, kick, told>>
    BY <1>4 DEF Release
  <2>2. counted' \in BOOLEAN
    BY <2>1 DEF TaskTyped
  <2> QED
    BY <2>1, <2>2 DEF TaskTyped, InPlayOnce, KickUnderWay, Gone, PastLegacyProxy, clientVars
<1> QED
  BY <1>1, <1>2, <1>3, <1>4 DEF SelectStep

LEMMA ClientStepWell ==
  ASSUME TaskTyped, ClientStep
  PROVE  /\ TaskTyped' /\ (InPlayOnce => InPlayOnce') /\ (KickUnderWay => KickUnderWay')
BY ClientStepKeeps DEF TaskTyped, InPlayOnce, KickUnderWay, PastLegacyProxy, stateVars

LEMMA HandleStepKicks ==
  ASSUME TaskTyped, InPlayOnce, KickUnderWay, HandleStep
  PROVE  KickUnderWay'
<1>1. \/ UNCHANGED kick \/ PastLegacyProxy
      \/ pc' = "write" /\ ~ticking' /\ state' \in {"login", "configuration", "play"}
  BY HandlersWell DEF HandledWell, TaskTyped
<1>2. pc = "select" /\ UNCHANGED <<client, reads, told, proxied, settings>>
  BY TakesKeeps DEF HandleStep, Handshake, StatusRequest, PingRequest, LoginStart, CustomQueryAnswer,
     LoginAcknowledged, ServerBoundKnownPacks, AcknowledgeConfiguration, SetPlayerPosition, Unknown, clientVars
<1> QED
  BY <1>1, <1>2 DEF KickUnderWay, Gone, PastLegacyProxy

-------------------------------------------------------------------------------
InPlayInv == TaskTyped /\ InPlayOnce

LEMMA InPlayInitially == Init => InPlayInv /\ KickUnderWay
<1> SUFFICES ASSUME Init PROVE InPlayInv /\ KickUnderWay
  OBVIOUS
<1>1. /\ state = "handshake" /\ pc = "select" /\ registered = FALSE /\ counted = FALSE /\ settings \in Settings
      /\ batch = <<>> /\ kick = NoKick
  BY DEF Init
<1> QED
  BY <1>1, NoneTyped DEF InPlayInv, TaskTyped, InPlayOnce, KickUnderWay, States

LEMMA InPlayStep == InPlayInv /\ EverythingEncodes /\ [Next]_vars => InPlayInv'
<1> SUFFICES ASSUME InPlayInv, EverythingEncodes, [Next]_vars PROVE InPlayInv'
  OBVIOUS
<1> USE DEF InPlayInv
<1>1. CASE HandleStep
  BY <1>1, HandlersWell DEF HandledWell
<1>2. CASE ClientStep \/ WriteStep \/ SelectStep
  BY <1>2, ClientStepWell, WriteStepWell, SelectStepWell
<1>3. CASE UNCHANGED vars
  BY <1>3 DEF TaskTyped, InPlayOnce, vars, clientVars, stateVars
<1> QED
  BY <1>1, <1>2, <1>3 DEF Next

LEMMA KickStep == InPlayInv /\ KickUnderWay /\ EverythingEncodes /\ [Next]_vars => KickUnderWay'
<1> SUFFICES ASSUME InPlayInv, KickUnderWay, EverythingEncodes, [Next]_vars PROVE KickUnderWay'
  OBVIOUS
<1> USE DEF InPlayInv
<1>1. CASE HandleStep
  BY <1>1, HandleStepKicks
<1>2. CASE ClientStep \/ WriteStep \/ SelectStep
  BY <1>2, ClientStepWell, WriteStepWell, SelectStepWell
<1>3. CASE UNCHANGED vars
  BY <1>3 DEF KickUnderWay, Gone, PastLegacyProxy, vars, clientVars, stateVars
<1> QED
  BY <1>1, <1>2, <1>3 DEF Next

(* A player in play is kept alive whenever its task waits, and is counted   *)
(* once, in the counter or as a session of the lobby, until the task is     *)
(* released: whatever arrives, fails, times out or is tried again.          *)
THEOREM PlayersAreKeptAlive == Spec => []KeptAlive
<1>1. InPlayInv => KeptAlive
  BY DEF InPlayInv, InPlayOnce, KeptAlive
<1> QED
  BY <1>1, InPlayInitially, InPlayStep, EverythingIsEncoded, PTL DEF Spec

(* Who is kicked reads why before its connection ends, unless it is gone:   *)
(* a decided kick survives everything that can happen while the answer is   *)
(* written.  Only the handshake of a client that comes past a legacy proxy  *)
(* loses its text, which KickIsSent leaves out.                            *)
THEOREM KicksAreSent == Spec => []KickIsSent
<1>1. InPlayInv /\ KickUnderWay => KickIsSent
  BY DEF KickUnderWay, KickIsSent, RefusalIsTold, Gone
<1>2. InPlayInv /\ KickUnderWay /\ EverythingEncodes /\ [Next]_vars => KickUnderWay'
  BY KickStep
<1> QED
  BY <1>1, <1>2, InPlayInitially, InPlayStep, EverythingIsEncoded, PTL DEF Spec

-------------------------------------------------------------------------------
(* What is under way                                                       *)

(* What a client of a state is told, what it says in it, and the packets    *)
(* that move it from the login on.                                         *)
Welcomes == {"LoginSuccess", "GameProfile"}
Told ==
  [status |-> StatusAnswers, login |-> LoginAnswers \cup {"LoginDisconnect"},
   configuration |-> ConfigurationAnswers, play |-> PlayAnswers]
Words ==
  [status |-> {"Handshake", "StatusRequest", "PingRequest"},
   login |-> {"Handshake", "LoginStart", "CustomQueryAnswer"},
   configuration |-> {"LoginAcknowledged", "ServerBoundKnownPacks"},
   play |-> {"AcknowledgeConfiguration", "SetPlayerPosition", "KeepAlive"}]

Name == Answered \cup Disconnects \cup UNION {Words[reader] : reader \in DOMAIN Words}
Packet == [name : Name, packed : BOOLEAN]
WireTyped ==
  /\ up \in Seq(Packet) /\ down \in Seq(Packet) /\ unpacks \in BOOLEAN /\ packs \in BOOLEAN
  /\ client \in {"status", "login", "configuration", "play", "closed"}

(* The names of what the client has still to read: in the socket, and then *)
(* in the batch.                                                           *)
ToRead(socket, written) ==
  [i \in 1..Len(socket) + Len(written) |-> IF i <= Len(socket) THEN socket[i].name ELSE written[i - Len(socket)]]
Coming == ToRead(down, batch)

(* Both ends change the format after the same packet.                      *)
FormatsMatch ==
  /\ \A i \in 1..Len(down) :
       down[i].packed <=> (unpacks \/ \E j \in 1..i-1 : down[j].name = "SetCompression")
  /\ packs <=> (unpacks \/ \E j \in 1..Len(down) : down[j].name = "SetCompression")

(* Every packet is told in the state the client is in when it comes to it.  *)
ComingFits(coming, reader) ==
  \A i \in 1..Len(coming) :
    coming[i] \in Told[IF \E j \in 1..i-1 : coming[j] \in Welcomes THEN "play" ELSE reader]

(* Before the game one side speaks at a time: a packet that is answered or  *)
(* changes the client's state is the last one.                             *)
Ends == Welcomes \cup {"CustomQuery", "ClientBoundKnownPacks", "FinishConfiguration"}
OneSpeaks(coming, words, reader) ==
  /\ words # <<>> => Len(coming) = 0
  /\ \A i \in 1..Len(coming) : coming[i] \in Ends => i = Len(coming)
  /\ reader \in {"login", "configuration"} => Len(words) <= 1

(* The states of both sides                                                *)
WelcomeComes(coming) == \E i \in 1..Len(coming) : coming[i] \in Welcomes
StatesAgree(coming, words, reader) ==
  /\ reader = "status" <=> intent = "status"
  /\ reader = "status" => ~WelcomeComes(coming)
  /\ state = "handshake" => reader \in {"status", "login"} /\ Len(coming) = 0 /\ Len(words) <= 2
  /\ state = "status" => reader = "status"
  /\ state = "login" => /\ OneSpeaks(coming, words, reader)
                        /\ reader = "login" \/ (reader = "configuration" /\ Len(coming) = 0)
  /\ state = "configuration" => /\ OneSpeaks(coming, words, reader)
                                /\ reader = "configuration" \/ (reader = "play" /\ Len(coming) = 0)
  /\ state = "play" => \/ reader = "play"
                       \/ /\ reader = "login" /\ words = <<>> /\ WelcomeComes(coming)
                          /\ \A i \in 1..Len(coming) : coming[i] # "CustomQuery"
  /\ reader = "login" /\ WelcomeComes(coming) => state = IF Configures THEN "login" ELSE "play"

(* A kick is decided before the game, when it is the server's turn.        *)
KicksInTurn ==
  kick # NoKick =>
    \/ pc \in {"close", "released"}
    \/ /\ pc = "write" /\ ~ticking /\ state = "login" /\ client = "login"
       /\ up = <<>> /\ Len(Coming) = 0

(* All of this holds while the client reads.                               *)
InStep ==
  /\ FormatsMatch
  /\ ComingFits(Coming, client)
  /\ \A i \in 1..Len(up) : up[i].name \in Words[client]
  /\ StatesAgree(Coming, up, client)
  /\ KicksInTurn
UnderstoodInv == ~confused /\ WireTyped /\ (~Gone => InStep)

(* A full lobby's kick is written behind the welcome that takes the client  *)
(* to the game, or after the configuration that did: until then the client *)
(* understands, and nothing comes that it answers.                         *)
Full == "The lobby is full."
FullStream ==
  /\ FormatsMatch /\ ComingFits(Coming, client)
  /\ \A i \in 1..Len(Coming) : Coming[i] \in Welcomes \cup {"SetCompression"}
  /\ Configures => Len(Coming) = 0
FullInv ==
  /\ kick = Full
  /\ \/ pc \in {"close", "released"}
     \/ pc = "write" /\ ~ticking /\ ~confused /\ WireTyped /\ (~Gone => FullStream)
UnderstandsInv == UnderstoodInv \/ FullInv

-------------------------------------------------------------------------------
(* What is coming, place by place                                          *)

LEMMA FunctionIsSequence ==
  ASSUME NEW S, NEW n \in Nat, NEW f \in [1..n -> S]
  PROVE  f \in Seq(S) /\ Len(f) = n
OBVIOUS

(* What is to be read is what the socket holds, followed by the batch.     *)
LEMMA ToReadIs ==
  ASSUME NEW socket \in Seq(Packet), NEW written \in Seq(Answered)
  PROVE  /\ Len(ToRead(socket, written)) = Len(socket) + Len(written)
         /\ \A i \in 1..Len(socket) + Len(written) :
              ToRead(socket, written)[i] = IF i <= Len(socket) THEN socket[i].name ELSE written[i - Len(socket)]
         /\ ToRead(socket, written) \in Seq(Name)
<1> DEFINE n == Len(socket) + Len(written)
<1>1. n \in Nat
  OBVIOUS
<1>2. ASSUME NEW i \in 1..Len(socket) PROVE socket[i].name \in Name
  <2>1. socket[i] \in Packet
    OBVIOUS
  <2> QED
    BY <2>1, Zenon DEF Packet
<1>3. \A i \in 1..Len(written) : written[i] \in Name
  BY DEF Name
<1>4. \A i \in 1..n : (IF i <= Len(socket) THEN socket[i].name ELSE written[i - Len(socket)]) \in Name
  BY <1>1, <1>2, <1>3
<1>5. ToRead(socket, written) \in [1..n -> Name]
  BY <1>4 DEF ToRead
<1>6. ToRead(socket, written) \in Seq(Name) /\ Len(ToRead(socket, written)) = n
  <2> HIDE DEF n
  <2> QED
    BY <1>1, <1>5, Zenon, FunctionIsSequence
<1> QED
  BY <1>6 DEF ToRead

(* A packet that is written was to be read before.                         *)
LEMMA WritingKeepsToRead ==
  ASSUME NEW socket \in Seq(Packet), NEW written \in Seq(Answered), written # <<>>,
         NEW packet \in Packet, packet.name = Head(written)
  PROVE  ToRead(Append(socket, packet), Tail(written)) = ToRead(socket, written)
<1> DEFINE s == Append(socket, packet)
           w == Tail(written)
<1>1. /\ s \in Seq(Packet) /\ w \in Seq(Answered) /\ Len(s) = Len(socket) + 1 /\ Len(w) = Len(written) - 1
      /\ Len(written) > 0
  OBVIOUS
<1>2. ASSUME NEW i \in 1..Len(socket) + Len(written)
      PROVE  (IF i <= Len(s) THEN s[i].name ELSE w[i - Len(s)])
                = IF i <= Len(socket) THEN socket[i].name ELSE written[i - Len(socket)]
  <2>1. CASE i <= Len(socket)
    BY <2>1
  <2>2. CASE i = Len(socket) + 1
    BY <2>2
  <2>3. CASE i > Len(socket) + 1
    <3>1. w[i - Len(s)] = written[i - Len(s) + 1]
      BY <1>1, <2>3
    <3> QED
      BY <1>1, <2>3, <3>1
  <2> QED
    BY <2>1, <2>2, <2>3
<1>3. Len(s) + Len(w) = Len(socket) + Len(written)
  BY <1>1
<1> HIDE DEF s, w
<1>4. ToRead(s, w) = ToRead(socket, written)
  BY <1>2, <1>3 DEF ToRead
<1> QED
  BY <1>4 DEF s, w

(* A packet that is read was the first one.                                *)
LEMMA ReadingShifts ==
  ASSUME NEW socket \in Seq(Packet), NEW written \in Seq(Answered), socket # <<>>
  PROVE  LET before == ToRead(socket, written)
             after  == ToRead(Tail(socket), written)
         IN  /\ Len(before) = Len(after) + 1 /\ Len(after) \in Nat
             /\ before[1] = Head(socket).name
             /\ \A i \in 1..Len(after) : after[i] = before[i + 1]
<1> DEFINE s == Tail(socket)
<1>1. s \in Seq(Packet) /\ Len(s) = Len(socket) - 1 /\ Len(socket) > 0
  OBVIOUS
<1>2. /\ Len(ToRead(socket, written)) = Len(socket) + Len(written)
      /\ Len(ToRead(s, written)) = Len(s) + Len(written)
      /\ \A i \in 1..Len(socket) + Len(written) :
           ToRead(socket, written)[i] = IF i <= Len(socket) THEN socket[i].name ELSE written[i - Len(socket)]
      /\ \A i \in 1..Len(s) + Len(written) :
           ToRead(s, written)[i] = IF i <= Len(s) THEN s[i].name ELSE written[i - Len(s)]
  BY <1>1, ToReadIs
<1>3. \A i \in 1..Len(s) : s[i] = socket[i + 1]
  BY <1>1
<1> HIDE DEF s
<1>4. ASSUME NEW i \in 1..Len(s) + Len(written)
      PROVE  ToRead(s, written)[i] = ToRead(socket, written)[i + 1]
  <2>1. i + 1 \in 1..Len(socket) + Len(written)
    BY <1>1
  <2>2. i + 1 <= Len(socket) <=> i <= Len(s)
    BY <1>1
  <2>3. i - Len(s) = i + 1 - Len(socket)
    BY <1>1
  <2> QED
    BY <1>2, <1>3, <2>1, <2>2, <2>3
<1>5. ToRead(socket, written)[1] = Head(socket).name
  BY <1>1, <1>2
<1> QED
  BY <1>1, <1>2, <1>4, <1>5 DEF s

(* A new batch comes after what is in the socket.                          *)
LEMMA AnswerIsToRead ==
  ASSUME NEW socket \in Seq(Packet), NEW written \in Seq(Answered)
  PROVE  LET before == ToRead(socket, <<>>)
             after  == ToRead(socket, written)
         IN  /\ Len(after) = Len(before) + Len(written) /\ Len(before) \in Nat
             /\ \A i \in 1..Len(before) : after[i] = before[i]
             /\ \A i \in 1..Len(written) : after[Len(before) + i] = written[i]
<1> DEFINE none == <<>>
<1>1. none \in Seq(Answered) /\ Len(none) = 0
  OBVIOUS
<1> HIDE DEF none
<1>2. /\ Len(ToRead(socket, none)) = Len(socket) + Len(none)
      /\ \A i \in 1..Len(socket) + Len(none) :
           ToRead(socket, none)[i] = IF i <= Len(socket) THEN socket[i].name ELSE none[i - Len(socket)]
  BY <1>1, ToReadIs
<1>3. /\ Len(ToRead(socket, written)) = Len(socket) + Len(written)
      /\ \A i \in 1..Len(socket) + Len(written) :
           ToRead(socket, written)[i] = IF i <= Len(socket) THEN socket[i].name ELSE written[i - Len(socket)]
  BY ToReadIs
<1>4. \A i \in 1..Len(socket) : ToRead(socket, none)[i] = socket[i].name
  BY <1>1, <1>2
<1>5. \A i \in 1..Len(socket) : ToRead(socket, written)[i] = socket[i].name
  BY <1>3
<1>6. ASSUME NEW i \in 1..Len(written) PROVE ToRead(socket, written)[Len(socket) + i] = written[i]
  <2>1. Len(socket) + i \in 1..Len(socket) + Len(written) /\ ~(Len(socket) + i <= Len(socket))
    OBVIOUS
  <2>2. Len(socket) + i - Len(socket) = i
    OBVIOUS
  <2> QED
    BY <1>3, <2>1, <2>2
<1>7. Len(ToRead(socket, none)) = Len(socket) /\ Len(socket) \in Nat
  BY <1>1, <1>2
<1>8. /\ Len(ToRead(socket, written)) = Len(ToRead(socket, none)) + Len(written) /\ Len(ToRead(socket, none)) \in Nat
      /\ \A i \in 1..Len(ToRead(socket, none)) : ToRead(socket, written)[i] = ToRead(socket, none)[i]
      /\ \A i \in 1..Len(written) : ToRead(socket, written)[Len(ToRead(socket, none)) + i] = written[i]
  BY <1>3, <1>4, <1>5, <1>6, <1>7
<1> QED
  BY <1>8, Zenon DEF none

-------------------------------------------------------------------------------
(* The two ends stay in step                                               *)

LEMMA FormatsAfterReading ==
  ASSUME WireTyped, FormatsMatch, down # <<>>, down' = Tail(down), UNCHANGED packs,
         unpacks' = (unpacks \/ Head(down).name = "SetCompression")
  PROVE  FormatsMatch'
<1>1. /\ down \in Seq(Packet) /\ Len(down) > 0 /\ Len(down) \in Nat /\ Len(down') = Len(down) - 1
      /\ Head(down) = down[1] /\ \A i \in 1..Len(down') : down'[i] = down[i + 1]
  BY DEF WireTyped
<1>2. unpacks' <=> (unpacks \/ down[1].name = "SetCompression")
  BY <1>1
<1>3. ASSUME NEW i \in 1..Len(down') + 1
      PROVE  (\E j \in 1..i-1 : down'[j].name = "SetCompression") <=> (\E j \in 2..i : down[j].name = "SetCompression")
  <2>1. ASSUME NEW j \in 1..i-1, down'[j].name = "SetCompression" PROVE \E k \in 2..i : down[k].name = "SetCompression"
    <3>1. j + 1 \in 2..i /\ j \in 1..Len(down')
      BY <1>1
    <3> QED
      BY <1>1, <2>1, <3>1
  <2>2. ASSUME NEW j \in 2..i, down[j].name = "SetCompression" PROVE \E k \in 1..i-1 : down'[k].name = "SetCompression"
    <3>1. j - 1 \in 1..i-1 /\ j - 1 \in 1..Len(down') /\ (j - 1) + 1 = j
      BY <1>1
    <3>2. down'[j - 1] = down[j]
      BY <1>1, <3>1
    <3> QED
      BY <2>2, <3>1, <3>2
  <2> QED
    BY <2>1, <2>2
<1>4. ASSUME NEW i \in 1..Len(down)
      PROVE  (\E j \in 1..i : down[j].name = "SetCompression")
               <=> (down[1].name = "SetCompression" \/ \E j \in 2..i : down[j].name = "SetCompression")
  <2>1. \A j \in 1..i : j = 1 \/ j \in 2..i
    OBVIOUS
  <2>2. 1 \in 1..i /\ \A j \in 2..i : j \in 1..i
    OBVIOUS
  <2> QED
    BY <2>1, <2>2
<1>5. ASSUME NEW i \in 1..Len(down')
      PROVE  down'[i].packed <=> (unpacks' \/ \E j \in 1..i-1 : down'[j].name = "SetCompression")
  <2>1. i + 1 \in 1..Len(down) /\ i \in 1..Len(down) /\ i \in 1..Len(down') + 1 /\ (i + 1) - 1 = i
    BY <1>1
  <2>2. down[i + 1].packed <=> (unpacks \/ \E j \in 1..(i + 1) - 1 : down[j].name = "SetCompression")
    BY <2>1 DEF FormatsMatch
  <2>3. down[i + 1].packed <=> (unpacks \/ \E j \in 1..i : down[j].name = "SetCompression")
    BY <2>1, <2>2
  <2>4. down'[i] = down[i + 1]
    BY <1>1
  <2> QED
    BY <1>2, <1>3, <1>4, <2>1, <2>3, <2>4, Zenon
<1>6. packs' <=> (unpacks' \/ \E j \in 1..Len(down') : down'[j].name = "SetCompression")
  <2>1. packs <=> (unpacks \/ \E j \in 1..Len(down) : down[j].name = "SetCompression")
    BY DEF FormatsMatch
  <2>2. Len(down) \in 1..Len(down) /\ Len(down') + 1 \in 1..Len(down') + 1 /\ (Len(down') + 1) - 1 = Len(down') /\ Len(down') + 1 = Len(down)
    BY <1>1
  <2>3. (\E j \in 1..Len(down') : down'[j].name = "SetCompression") <=> (\E j \in 2..Len(down) : down[j].name = "SetCompression")
    BY <1>3, <2>2
  <2> QED
    BY <1>2, <1>4, <2>1, <2>2, <2>3, Zenon
<1> QED
  BY <1>5, <1>6 DEF FormatsMatch

LEMMA FormatsAfterWriting ==
  ASSUME WireTyped, FormatsMatch, NEW name \in Name, down' = Append(down, [name |-> name, packed |-> packs]),
         packs' = (packs \/ name = "SetCompression"), UNCHANGED unpacks
  PROVE  FormatsMatch'
<1> DEFINE packet == [name |-> name, packed |-> packs]
<1>1. packet \in Packet /\ packet.name = name /\ packet.packed = packs
  BY DEF Packet, WireTyped
<1>2. down' = Append(down, packet)
  OBVIOUS
<1> HIDE DEF packet
<1>3. /\ down \in Seq(Packet) /\ Len(down) \in Nat /\ Len(down') = Len(down) + 1
      /\ down'[Len(down) + 1] = packet /\ \A i \in 1..Len(down) : down'[i] = down[i]
  BY <1>1, <1>2 DEF WireTyped
<1>4. \A i \in 1..Len(down') : i \in 1..Len(down) \/ i = Len(down) + 1
  BY <1>3
<1>5. ASSUME NEW i \in 1..Len(down') 
      PROVE  (\E j \in 1..i-1 : down'[j].name = "SetCompression") <=> (\E j \in 1..i-1 : down[j].name = "SetCompression")
  <2>1. \A j \in 1..i-1 : j \in 1..Len(down)
    BY <1>3
  <2> QED
    BY <1>3, <2>1
<1>6. ASSUME NEW i \in 1..Len(down')
      PROVE  down'[i].packed <=> (unpacks' \/ \E j \in 1..i-1 : down'[j].name = "SetCompression")
  <2>1. CASE i \in 1..Len(down)
    <3>1. down[i].packed <=> (unpacks \/ \E j \in 1..i-1 : down[j].name = "SetCompression")
      BY <2>1 DEF FormatsMatch
    <3> QED
      BY <1>3, <1>5, <2>1, <3>1, Zenon
  <2>2. CASE i = Len(down) + 1
    <3>1. packs <=> (unpacks \/ \E j \in 1..Len(down) : down[j].name = "SetCompression")
      BY DEF FormatsMatch
    <3>2. i - 1 = Len(down)
      BY <1>3, <2>2
    <3>3. down'[i].packed <=> packs
      BY <1>1, <1>3, <2>2, Zenon
    <3> QED
      BY <1>5, <3>1, <3>2, <3>3, Zenon
  <2> QED
    BY <1>4, <2>1, <2>2
<1>7. packs' <=> (unpacks' \/ \E j \in 1..Len(down') : down'[j].name = "SetCompression")
  <2>1. packs <=> (unpacks \/ \E j \in 1..Len(down) : down[j].name = "SetCompression")
    BY DEF FormatsMatch
  <2>2. (\E j \in 1..Len(down') : down'[j].name = "SetCompression")
          <=> (name = "SetCompression" \/ \E j \in 1..Len(down) : down[j].name = "SetCompression")
    <3>1. \A j \in 1..Len(down) : j \in 1..Len(down') /\ down'[j] = down[j]
      BY <1>3
    <3>2. Len(down) + 1 \in 1..Len(down') /\ down'[Len(down) + 1].name = name
      BY <1>1, <1>3
    <3> QED
      BY <1>4, <3>1, <3>2, Zenon
  <2> QED
    BY <2>1, <2>2, Zenon
<1> QED
  BY <1>6, <1>7 DEF FormatsMatch

(* The client understands what it is told in its state.                    *)
LEMMA ToldIsUnderstood ==
  ASSUME NEW s \in {"status", "login", "configuration", "play"}
  PROVE  Told[s] \subseteq ToSet(Clientbound[s])
<1>1. Told["status"] \subseteq ToSet(Clientbound["status"])
  BY DEF Told, StatusAnswers, ToSet, Clientbound
<1>2. Told["login"] \subseteq ToSet(Clientbound["login"])
  BY DEF Told, LoginAnswers, ToSet, Clientbound
<1>3. Told["configuration"] \subseteq ToSet(Clientbound["configuration"])
  BY DEF Told, ConfigurationAnswers, ToSet, Clientbound
<1>4. Told["play"] \subseteq ToSet(Clientbound["play"])
  BY DEF Told, PlayAnswers, ToSet, Clientbound
<1> QED
  BY <1>1, <1>2, <1>3, <1>4

(* What the client answers, and where it goes, case by case.               *)
LEMMA AnswersOf ==
  ASSUME NEW name
  PROVE  /\ name = "StatusResponse" => Answers(name) = <<"PingRequest">>
         /\ name = "CustomQuery" => Answers(name) = <<"CustomQueryAnswer">>
         /\ name \in Welcomes => Answers(name) = IF Configures THEN <<"LoginAcknowledged">> ELSE <<>>
         /\ name = "ClientBoundKnownPacks" => Answers(name) = <<"ServerBoundKnownPacks">>
         /\ name = "FinishConfiguration" => Answers(name) = <<"AcknowledgeConfiguration">>
         /\ name = "ClientBoundKeepAlive" => Answers(name) = <<"KeepAlive">>
         /\ name \notin Ends \cup {"StatusResponse", "ClientBoundKeepAlive"} => Answers(name) = <<>>
BY DEF Answers, Welcomes, Ends

LEMMA StatesAfter ==
  ASSUME NEW name
  PROVE  /\ name \in Welcomes => StateAfter(name) = IF Configures THEN "configuration" ELSE "play"
         /\ name = "FinishConfiguration" => StateAfter(name) = "play"
         /\ name \in Disconnects \cup {"PongResponse"} => StateAfter(name) = "closed"
         /\ name \notin Welcomes \cup {"FinishConfiguration", "PongResponse"} \cup Disconnects => StateAfter(name) = client
BY DEF StateAfter, Welcomes, Disconnects

LEMMA WordsAreNames ==
  ASSUME NEW reader \in {"status", "login", "configuration", "play"}
  PROVE  Words[reader] \subseteq Name
<1>1. DOMAIN Words = {"status", "login", "configuration", "play"}
  BY DEF Words
<1> QED
  BY <1>1 DEF Name

(* The types of what is under way                                          *)
LEMMA ClientReadsTyped ==
  ASSUME WireTyped, ClientReadsPacket
  PROVE  /\ WireTyped' /\ down' = Tail(down) /\ down # <<>> /\ ~Gone
         /\ UNCHANGED <<batch, state, kick, pc, ticking, packs, version, intent, settings, reads>>
<1>1. /\ down # <<>> /\ down' = Tail(down) /\ down' \in Seq(Packet) /\ ~Gone
      /\ UNCHANGED <<batch, state, kick, pc, ticking, packs, version, intent, settings, reads>>
  BY DEF ClientReadsPacket, WireTyped, stateVars, Gone
<1>2. CASE Understands(Head(down))
  <2>1. /\ client' = StateAfter(Head(down).name) /\ unpacks' = (unpacks \/ Head(down).name = "SetCompression")
        /\ Says(Answers(Head(down).name))
    BY <1>2 DEF ClientReadsPacket
  <2>2. client' \in {"status", "login", "configuration", "play", "closed"} /\ unpacks' \in BOOLEAN
    BY <2>1 DEF StateAfter, WireTyped
  <2>3. Answers(Head(down).name) \in Seq(Name)
    <3> DEFINE name == Head(down).name
    <3> HIDE DEF name
    <3>1. \/ Answers(name) = <<"PingRequest">> \/ Answers(name) = <<"CustomQueryAnswer">>
          \/ Answers(name) = <<"LoginAcknowledged">> \/ Answers(name) = <<"ServerBoundKnownPacks">>
          \/ Answers(name) = <<"AcknowledgeConfiguration">> \/ Answers(name) = <<"KeepAlive">> \/ Answers(name) = <<>>
      BY AnswersOf DEF Ends
    <3>2. \A word \in {"PingRequest", "CustomQueryAnswer", "LoginAcknowledged", "ServerBoundKnownPacks",
                       "AcknowledgeConfiguration", "KeepAlive"} : <<word>> \in Seq(Name)
      BY WordsAreNames, OneName DEF Words
    <3>3. Answers(name) \in Seq(Name)
      BY <3>1, <3>2, NoneTyped
    <3> QED
      BY <3>3 DEF name
  <2>4. [i \in DOMAIN Answers(Head(down).name) |-> [name |-> Answers(Head(down).name)[i], packed |-> unpacks']] \in Seq(Packet)
    <3> DEFINE names == Answers(Head(down).name)
    <3>1. names \in Seq(Name)
      BY <2>3
    <3> HIDE DEF names
    <3>2. [i \in DOMAIN names |-> [name |-> names[i], packed |-> unpacks']] \in Seq(Packet)
      <4>1. Len(names) \in Nat /\ DOMAIN names = 1..Len(names) /\ \A i \in DOMAIN names : names[i] \in Name
        BY <3>1
      <4>2. [i \in DOMAIN names |-> [name |-> names[i], packed |-> unpacks']] \in [1..Len(names) -> Packet]
        BY <2>2, <4>1 DEF Packet
      <4> QED
        BY <4>1, <4>2, FunctionIsSequence
    <3> QED
      BY <3>2 DEF names
  <2>5. up' \in Seq(Packet)
    BY <2>1, <2>4 DEF Says, WireTyped
  <2> QED
    BY <1>1, <2>2, <2>5 DEF WireTyped
<1>3. CASE ~Understands(Head(down))
  <2>1. client' = "closed" /\ UNCHANGED <<unpacks, up>>
    BY <1>3 DEF ClientReadsPacket
  <2> QED
    BY <1>1, <2>1 DEF WireTyped
<1> QED
  BY <1>1, <1>2, <1>3

(* The first packet is one the client understands.                         *)
LEMMA FirstIsUnderstood ==
  ASSUME WireTyped, TaskTyped, FormatsMatch, ComingFits(Coming, client), ~Gone, down # <<>>
  PROVE  Head(down).name = Coming[1] /\ Coming[1] \in Told[client] /\ Understands(Head(down)) /\ Len(Coming) > 0
<1>1. down \in Seq(Packet) /\ batch \in Seq(Answered) /\ Len(down) > 0 /\ Head(down) = down[1]
  BY DEF WireTyped, TaskTyped
<1>2. Head(down).name = Coming[1] /\ Len(Coming) > 0 /\ Len(Coming) \in Nat
  BY <1>1, ReadingShifts DEF Coming
<1>3. Coming[1] \in Told[client]
  <2>1. 1 \in 1..Len(Coming) /\ ~\E j \in 1..1-1 : Coming[j] \in Welcomes
    BY <1>2
  <2> QED
    BY <2>1 DEF ComingFits
<1>4. Head(down).name \in ToSet(Clientbound[client])
  <2>1. client \in {"status", "login", "configuration", "play"}
    BY DEF WireTyped, Gone
  <2> QED
    BY <1>2, <1>3, <2>1, ToldIsUnderstood, Zenon
<1>5. Head(down).packed = unpacks
  <2>1. 1 \in 1..Len(down) /\ ~\E j \in 1..1-1 : down[j].name = "SetCompression"
    BY <1>1
  <2>2. down[1].packed <=> unpacks
    BY <2>1 DEF FormatsMatch
  <2>3. down[1] \in Packet
    BY <1>1
  <2>4. down[1].packed \in BOOLEAN /\ unpacks \in BOOLEAN
    BY <2>3 DEF Packet, WireTyped
  <2> QED
    BY <1>1, <2>2, <2>4
<1> QED
  BY <1>2, <1>3, <1>4, <1>5 DEF Understands

(* What is said or told moves on by one packet that neither changes the     *)
(* client's state nor ends the server's turn.                              *)
LEMMA ComingAfterReading ==
  ASSUME WireTyped, TaskTyped, ComingFits(Coming, client), ~Gone, down # <<>>, down' = Tail(down), UNCHANGED batch
  PROVE  /\ Len(Coming) = Len(Coming') + 1 /\ Len(Coming') \in Nat
         /\ \A i \in 1..Len(Coming') : Coming'[i] = Coming[i + 1]
         /\ ComingFits(Coming', IF Coming[1] \in Welcomes THEN "play" ELSE client)
         /\ Coming[1] \notin Welcomes => (WelcomeComes(Coming') <=> WelcomeComes(Coming))
<1>1. down \in Seq(Packet) /\ batch \in Seq(Answered)
  BY DEF WireTyped, TaskTyped
<1>2. /\ Len(Coming) = Len(Coming') + 1 /\ Len(Coming') \in Nat
      /\ \A i \in 1..Len(Coming') : Coming'[i] = Coming[i + 1]
  <2>1. Coming = ToRead(down, batch) /\ Coming' = ToRead(Tail(down), batch)
    BY DEF Coming
  <2> QED
    BY <1>1, <2>1, ReadingShifts
<1> DEFINE reader == IF Coming[1] \in Welcomes THEN "play" ELSE client
<1>3. ASSUME NEW i \in 1..Len(Coming')
      PROVE  Coming'[i] \in Told[IF \E j \in 1..i-1 : Coming'[j] \in Welcomes THEN "play" ELSE reader]
  <2>1. i + 1 \in 1..Len(Coming)
    BY <1>2
  <2>2. Coming[i + 1] \in Told[IF \E j \in 1..(i + 1)-1 : Coming[j] \in Welcomes THEN "play" ELSE client]
    BY <2>1 DEF ComingFits
  <2>3. (\E j \in 1..(i + 1)-1 : Coming[j] \in Welcomes)
           <=> (Coming[1] \in Welcomes \/ \E j \in 1..i-1 : Coming'[j] \in Welcomes)
    <3>1. ASSUME NEW j \in 1..(i + 1)-1, Coming[j] \in Welcomes, Coming[1] \notin Welcomes
          PROVE  \E k \in 1..i-1 : Coming'[k] \in Welcomes
      <4>1. j # 1
        BY <3>1
      <4>2. j - 1 \in 1..i-1 /\ j - 1 \in 1..Len(Coming') /\ (j - 1) + 1 = j
        BY <1>2, <4>1
      <4>3. Coming'[j - 1] = Coming[j]
        BY <1>2, <4>2
      <4> QED
        BY <3>1, <4>2, <4>3
    <3>2. ASSUME NEW j \in 1..i-1, Coming'[j] \in Welcomes
          PROVE  \E k \in 1..(i + 1)-1 : Coming[k] \in Welcomes
      <4>1. j + 1 \in 1..(i + 1)-1 /\ j \in 1..Len(Coming')
        BY <1>2
      <4> QED
        BY <1>2, <3>2, <4>1
    <3>3. 1 \in 1..(i + 1)-1
      BY <1>2
    <3> QED
      BY <3>1, <3>2, <3>3
  <2>4. Coming'[i] = Coming[i + 1]
    BY <1>2
  <2> QED
    BY <2>2, <2>3, <2>4
<1>4. Coming[1] \notin Welcomes => (WelcomeComes(Coming') <=> WelcomeComes(Coming))
  <2>1. ASSUME NEW i \in 1..Len(Coming), Coming[i] \in Welcomes, Coming[1] \notin Welcomes
        PROVE  \E k \in 1..Len(Coming') : Coming'[k] \in Welcomes
    <3>1. i # 1
      BY <2>1
    <3>2. i - 1 \in 1..Len(Coming') /\ (i - 1) + 1 = i
      BY <1>2, <3>1
    <3>3. Coming'[i - 1] = Coming[i]
      BY <1>2, <3>2
    <3> QED
      BY <2>1, <3>2, <3>3
  <2>2. ASSUME NEW i \in 1..Len(Coming'), Coming'[i] \in Welcomes
        PROVE  \E k \in 1..Len(Coming) : Coming[k] \in Welcomes
    <3>1. i + 1 \in 1..Len(Coming)
      BY <1>2
    <3> QED
      BY <1>2, <2>2, <3>1
  <2> QED
    BY <2>1, <2>2 DEF WelcomeComes
<1>5. ComingFits(Coming', reader)
  BY <1>3 DEF ComingFits
<1> QED
  BY <1>2, <1>4, <1>5

LEMMA SaysOf ==
  ASSUME WireTyped
  PROVE  /\ Says(<<>>) => up' = up
         /\ \A word : Says(<<word>>) => /\ Len(up') = Len(up) + 1 /\ up'[Len(up) + 1].name = word
                                        /\ \A i \in 1..Len(up) : up'[i] = up[i]
<1>1. up \in Seq(Packet)
  BY DEF WireTyped
<1>2. ASSUME Says(<<>>) PROVE up' = up
  <2>1. [i \in DOMAIN <<>> |-> [name |-> <<>>[i], packed |-> unpacks']] = <<>>
    OBVIOUS
  <2> QED
    BY <1>1, <1>2, <2>1 DEF Says
<1>3. ASSUME NEW word, Says(<<word>>)
      PROVE  /\ Len(up') = Len(up) + 1 /\ up'[Len(up) + 1].name = word
             /\ \A i \in 1..Len(up) : up'[i] = up[i]
  <2> DEFINE packet == [name |-> word, packed |-> unpacks']
  <2>1. [i \in DOMAIN <<word>> |-> [name |-> <<word>>[i], packed |-> unpacks']] = <<packet>>
    OBVIOUS
  <2>2. up' = up \o <<packet>>
    BY <1>3, <2>1 DEF Says
  <2>3. packet.name = word
    OBVIOUS
  <2> HIDE DEF packet
  <2> QED
    BY <1>1, <2>2, <2>3
<1> QED
  BY <1>2, <1>3

(* Which names are told in one state only.                                 *)
LEMMA WhereTold ==
  ASSUME NEW name, client \in {"status", "login", "configuration", "play"}, name \in Told[client]
  PROVE  /\ name \in Welcomes \cup {"CustomQuery"} => client = "login"
         /\ name \in {"FinishConfiguration", "ClientBoundKnownPacks"} => client = "configuration"
         /\ name = "ClientBoundKeepAlive" => client = "play"
         /\ name = "StatusResponse" => client = "status"
         /\ name \notin {"ConfigurationDisconnect", "PlayDisconnect"}
<1>1. Told["status"] = {"StatusResponse", "PongResponse"}
  BY DEF Told, StatusAnswers
<1>2. Told["login"] = {"CustomQuery", "SetCompression", "LoginSuccess", "GameProfile", "LoginDisconnect"}
  BY DEF Told, LoginAnswers
<1>3. Told["configuration"] = ConfigurationAnswers
  BY DEF Told
<1>4. Told["play"] = PlayAnswers
  BY DEF Told
<1>5. CASE client = "status"
  BY <1>1, <1>5 DEF Welcomes
<1>6. CASE client = "login"
  BY <1>2, <1>6 DEF Welcomes
<1>7. CASE client = "configuration"
  BY <1>3, <1>7 DEF Welcomes, ConfigurationAnswers
<1>8. CASE client = "play"
  BY <1>4, <1>8 DEF Welcomes, PlayAnswers
<1> QED
  BY <1>5, <1>6, <1>7, <1>8

(* A client that reads what comes stays in step, and answers in time.      *)
LEMMA ReadingStaysInStep ==
  ASSUME WireTyped, TaskTyped, InStep, ClientReadsPacket
  PROVE  UNCHANGED confused /\ (~Gone' => InStep')
<1> DEFINE name == Coming[1]
<1>1. /\ WireTyped' /\ down' = Tail(down) /\ down # <<>> /\ ~Gone
      /\ UNCHANGED <<batch, state, kick, pc, ticking, packs, version, intent, settings, reads>>
  BY ClientReadsTyped
<1>2. Head(down).name = name /\ name \in Told[client] /\ Understands(Head(down)) /\ Len(Coming) > 0
  BY <1>1, FirstIsUnderstood DEF InStep
<1>3. /\ client' = StateAfter(name) /\ unpacks' = (unpacks \/ Head(down).name = "SetCompression")
      /\ Says(Answers(name)) /\ UNCHANGED confused
  BY <1>2 DEF ClientReadsPacket
<1>4. client \in {"status", "login", "configuration", "play"}
  BY <1>1 DEF WireTyped, Gone
<1>5. /\ Len(Coming) = Len(Coming') + 1 /\ Len(Coming') \in Nat
      /\ \A i \in 1..Len(Coming') : Coming'[i] = Coming[i + 1]
      /\ ComingFits(Coming', IF name \in Welcomes THEN "play" ELSE client)
      /\ name \notin Welcomes => (WelcomeComes(Coming') <=> WelcomeComes(Coming))
  BY <1>1, ComingAfterReading DEF InStep
<1>6. FormatsMatch'
  BY <1>1, <1>3, FormatsAfterReading DEF InStep
<1>7. KicksInTurn'
  <2>1. kick # NoKick => pc \in {"close", "released"}
    BY <1>2 DEF InStep, KicksInTurn
  <2> QED
    BY <1>1, <2>1 DEF KicksInTurn
<1>8. (Configures' <=> Configures) /\ StatesAgree(Coming, up, client)
  BY <1>1 DEF Configures, InStep
<1>9. \A i \in 1..Len(up) : up[i].name \in Words[client]
  BY DEF InStep
<1> HIDE DEF name
<1>10. up \in Seq(Packet) /\ up' \in Seq(Packet) /\ Len(up) \in Nat /\ (up = <<>> <=> Len(up) = 0) /\ (up' = <<>> <=> Len(up') = 0)
  BY <1>1 DEF WireTyped
<1>11. OneSpeaks(Coming, up, client) => up = <<>> /\ (name \in Ends => Len(Coming') = 0)
  <2>1. 1 \in 1..Len(Coming)
    BY <1>2, <1>5
  <2> QED
    BY <1>2, <1>5, <2>1 DEF OneSpeaks, name
<1>12. OneSpeaks(Coming, up, client) => \A i \in 1..Len(Coming') : Coming'[i] \in Ends => i = Len(Coming')
  <2> SUFFICES ASSUME OneSpeaks(Coming, up, client), NEW i \in 1..Len(Coming'), Coming'[i] \in Ends PROVE i = Len(Coming')
    OBVIOUS
  <2>1. i + 1 \in 1..Len(Coming) /\ Coming[i + 1] \in Ends
    BY <1>5
  <2> QED
    BY <1>5, <2>1 DEF OneSpeaks
<1>13. Len(Coming') = 0 => ~WelcomeComes(Coming')
  BY DEF WelcomeComes
<1>20. CASE name \in Welcomes
  <2>1. client = "login" /\ intent # "status"
    BY <1>2, <1>4, <1>8, <1>20, WhereTold DEF StatesAgree
  <2>2. WelcomeComes(Coming)
    BY <1>2, <1>5, <1>20 DEF WelcomeComes, name
  <2>3. CASE Configures
    <3>1. client' = "configuration" /\ Says(<<"LoginAcknowledged">>) /\ state = "login"
      BY <1>3, <1>8, <1>20, <2>1, <2>2, <2>3, AnswersOf, StatesAfter DEF StatesAgree
    <3>2. up = <<>> /\ Len(Coming') = 0
      BY <1>8, <1>11, <1>20, <3>1 DEF StatesAgree, Ends
    <3>3. Len(up') = 1 /\ up'[1].name = "LoginAcknowledged"
      BY <1>1, <1>10, <3>1, <3>2, SaysOf
    <3>4. \A i \in 1..Len(up') : up'[i].name \in Words[client']
      BY <3>1, <3>3 DEF Words
    <3>5. ComingFits(Coming', client')
      BY <3>2 DEF ComingFits
    <3>6. StatesAgree(Coming, up, client)'
      BY <1>1, <1>13, <2>1, <3>1, <3>2, <3>3 DEF StatesAgree, OneSpeaks
    <3> QED
      BY <1>3, <1>6, <1>7, <3>4, <3>5, <3>6 DEF InStep
  <2>4. CASE ~Configures
    <3>1. client' = "play" /\ Says(<<>>) /\ state = "play"
      BY <1>3, <1>8, <1>20, <2>1, <2>2, <2>4, AnswersOf, StatesAfter DEF StatesAgree
    <3>2. up' = up /\ up = <<>>
      BY <1>1, <1>8, <2>1, <3>1, SaysOf DEF StatesAgree
    <3>3. \A i \in 1..Len(up') : up'[i].name \in Words[client']
      BY <3>2
    <3>4. ComingFits(Coming', client')
      BY <1>5, <1>20, <3>1
    <3>5. StatesAgree(Coming, up, client)'
      BY <1>1, <2>1, <3>1 DEF StatesAgree
    <3> QED
      BY <1>3, <1>6, <1>7, <3>3, <3>4, <3>5 DEF InStep
  <2> QED
    BY <2>3, <2>4
<1>21. CASE name \in {"FinishConfiguration", "ClientBoundKnownPacks"}
  <2>1. client = "configuration" /\ intent # "status"
    BY <1>2, <1>4, <1>8, <1>21, WhereTold DEF StatesAgree
  <2>2. state = "configuration"
    BY <1>1, <1>2, <1>8, <2>1 DEF StatesAgree, TaskTyped, States
  <2>3. up = <<>> /\ Len(Coming') = 0
    BY <1>8, <1>11, <1>21, <2>2 DEF StatesAgree, Ends
  <2>4. \/ client' = "play" /\ Says(<<"AcknowledgeConfiguration">>)
        \/ client' = "configuration" /\ Says(<<"ServerBoundKnownPacks">>)
    <3>1. name \notin Welcomes /\ name \notin Disconnects
      BY <1>21 DEF Welcomes, Disconnects
    <3> QED
      BY <1>3, <1>21, <2>1, <3>1, AnswersOf, StatesAfter
  <2>5. /\ Len(up') = 1
        /\ \/ client' = "play" /\ up'[1].name = "AcknowledgeConfiguration"
           \/ client' = "configuration" /\ up'[1].name = "ServerBoundKnownPacks"
    BY <1>1, <1>10, <2>3, <2>4, SaysOf
  <2>6. \A i \in 1..Len(up') : up'[i].name \in Words[client']
    BY <2>5 DEF Words
  <2>7. ComingFits(Coming', client')
    BY <2>3 DEF ComingFits
  <2>8. StatesAgree(Coming, up, client)'
    BY <1>1, <1>13, <2>1, <2>2, <2>3, <2>5 DEF StatesAgree, OneSpeaks
  <2> QED
    BY <1>3, <1>6, <1>7, <2>6, <2>7, <2>8 DEF InStep
<1>22. CASE name = "CustomQuery"
  <2>1. client = "login" /\ intent # "status"
    BY <1>2, <1>4, <1>8, <1>22, WhereTold DEF StatesAgree
  <2>2. state = "login"
    <3>1. 1 \in 1..Len(Coming) /\ Coming[1] = "CustomQuery"
      BY <1>2, <1>5, <1>22 DEF name
    <3> QED
      BY <1>2, <1>8, <2>1, <3>1 DEF StatesAgree, TaskTyped, States
  <2>3. up = <<>> /\ Len(Coming') = 0
    BY <1>8, <1>11, <1>22, <2>2 DEF StatesAgree, Ends
  <2>4. client' = "login" /\ Says(<<"CustomQueryAnswer">>)
    BY <1>3, <1>22, <2>1, AnswersOf, StatesAfter DEF Welcomes, Disconnects
  <2>5. Len(up') = 1 /\ up'[1].name = "CustomQueryAnswer"
    BY <1>1, <1>10, <2>3, <2>4, SaysOf
  <2>6. \A i \in 1..Len(up') : up'[i].name \in Words[client']
    BY <2>4, <2>5 DEF Words
  <2>7. ComingFits(Coming', client')
    BY <2>3 DEF ComingFits
  <2>8. StatesAgree(Coming, up, client)'
    BY <1>1, <1>13, <2>1, <2>2, <2>3, <2>4, <2>5 DEF StatesAgree, OneSpeaks
  <2> QED
    BY <1>3, <1>6, <1>7, <2>6, <2>7, <2>8 DEF InStep
<1>23. CASE name \in {"ClientBoundKeepAlive", "StatusResponse"}
  <2>1. /\ name = "ClientBoundKeepAlive" => client = "play" /\ intent # "status"
        /\ name = "StatusResponse" => client = "status" /\ intent = "status"
    BY <1>2, <1>4, <1>8, <1>23, WhereTold DEF StatesAgree
  <2>2. client' = client /\ \E word : Says(<<word>>) /\ word \in Words[client]
    <3>1. name \notin Welcomes /\ name \notin Disconnects
      BY <1>23 DEF Welcomes, Disconnects
    <3>2. "KeepAlive" \in Words["play"] /\ "PingRequest" \in Words["status"]
      BY DEF Words
    <3> QED
      BY <1>3, <1>23, <2>1, <3>1, <3>2, AnswersOf, StatesAfter
  <2>3. state \in {"status", "play"}
    BY <1>2, <1>8, <1>23, <2>1 DEF StatesAgree, TaskTyped, States
  <2>4. \A i \in 1..Len(up') : up'[i].name \in Words[client']
    <3>1. PICK word : Says(<<word>>) /\ word \in Words[client]
      BY <2>2
    <3>2. /\ Len(up') = Len(up) + 1 /\ up'[Len(up) + 1].name = word
          /\ \A i \in 1..Len(up) : up'[i] = up[i]
      BY <1>1, <3>1, SaysOf
    <3>3. \A i \in 1..Len(up') : i \in 1..Len(up) \/ i = Len(up) + 1
      BY <1>10, <3>2
    <3> QED
      BY <1>9, <2>2, <3>1, <3>2, <3>3
  <2>5. ComingFits(Coming', client')
    BY <1>5, <1>23, <2>2 DEF Welcomes
  <2>6. StatesAgree(Coming, up, client)'
    <3>1. (WelcomeComes(Coming))' <=> WelcomeComes(Coming)
      BY <1>5, <1>23 DEF WelcomeComes, Welcomes
    <3>2. CASE client = "play"
      BY <1>1, <1>8, <1>23, <2>1, <2>2, <2>3, <3>2 DEF StatesAgree
    <3>3. CASE client = "status"
      BY <1>1, <1>8, <1>23, <2>1, <2>2, <2>3, <3>1, <3>3 DEF StatesAgree
    <3> QED
      BY <1>23, <2>1, <3>2, <3>3
  <2> QED
    BY <1>3, <1>6, <1>7, <2>4, <2>5, <2>6 DEF InStep
<1>24. CASE name \in {"PongResponse", "LoginDisconnect"}
  <2>1. client' = "closed"
    BY <1>3, <1>24, StatesAfter DEF Disconnects
  <2> QED
    BY <1>3, <2>1 DEF Gone
<1>25. CASE name \notin Ends \cup {"ClientBoundKeepAlive", "StatusResponse", "PongResponse", "LoginDisconnect"}
  <2>1. name \notin Welcomes /\ name \notin Disconnects /\ name # "FinishConfiguration" /\ name # "PongResponse"
    BY <1>2, <1>4, <1>25, WhereTold DEF Disconnects, Ends
  <2>2. client' = client /\ Says(<<>>)
    BY <1>3, <1>25, <2>1, AnswersOf, StatesAfter
  <2>3. up' = up
    BY <1>1, <2>2, SaysOf
  <2>4. ComingFits(Coming', client')
    BY <1>5, <2>1, <2>2
  <2>5. OneSpeaks(Coming, up, client) => OneSpeaks(Coming', up', client')
    BY <1>10, <1>11, <1>12, <2>2, <2>3 DEF OneSpeaks
  <2>6. \A i \in 1..Len(Coming') : Coming[i + 1] = Coming'[i] /\ i + 1 \in 1..Len(Coming)
    BY <1>5
  <2>7. StatesAgree(Coming, up, client)'
    <3>1. OneSpeaks(Coming, up, client) => OneSpeaks(Coming, up, client)'
      BY <2>5 DEF OneSpeaks
    <3>2. state \in States /\ Len(Coming) # 0
      BY <1>2 DEF TaskTyped
    <3>3. (WelcomeComes(Coming))' <=> WelcomeComes(Coming)
      BY <1>5, <2>1 DEF WelcomeComes
    <3>4. CASE state = "play"
      BY <1>1, <1>8, <2>2, <2>3, <2>6, <3>3, <3>4 DEF StatesAgree
    <3>5. CASE state \in {"login", "configuration"}
      BY <1>1, <1>8, <2>2, <3>1, <3>2, <3>3, <3>5 DEF StatesAgree
    <3>6. CASE state \in {"handshake", "status"}
      BY <1>1, <1>8, <2>2, <3>2, <3>3, <3>6 DEF StatesAgree
    <3> QED
      BY <3>2, <3>4, <3>5, <3>6 DEF States
  <2> QED
    BY <1>3, <1>6, <1>7, <1>9, <2>2, <2>3, <2>4, <2>7 DEF InStep
<1> QED
  BY <1>20, <1>21, <1>22, <1>23, <1>24, <1>25 DEF Ends

(* What the answers end with.                                              *)
EndsLast(packets) == \A i \in 1..Len(packets) : packets[i] \in Ends => i = Len(packets)

LEMMA JoinedIs ==
  ASSUME NEW S, NEW p \in Seq(S), NEW q \in Seq(S)
  PROVE  /\ Len(p \o q) = Len(p) + Len(q) /\ Len(p) \in Nat /\ Len(q) \in Nat
         /\ \A i \in 1..Len(p) : (p \o q)[i] = p[i]
         /\ \A i \in 1..Len(q) : (p \o q)[Len(p) + i] = q[i]
OBVIOUS

LEMMA PairIs ==
  ASSUME NEW S, NEW p \in Seq(S), NEW q \in Seq(S), Len(p) = 1, Len(q) = 1
  PROVE  Len(p \o q) = 2 /\ (p \o q)[1] = p[1] /\ (p \o q)[2] = q[1]
<1>1. 1 \in 1..Len(p) /\ 1 \in 1..Len(q) /\ Len(p) + 1 = 2
  OBVIOUS
<1> QED
  BY <1>1, JoinedIs

LEMMA EndsLastJoined ==
  ASSUME NEW p \in Seq(Answered), NEW q \in Seq(Answered), \A i \in 1..Len(p) : p[i] \notin Ends, EndsLast(q)
  PROVE  EndsLast(p \o q)
<1> SUFFICES ASSUME NEW i \in 1..Len(p \o q), (p \o q)[i] \in Ends PROVE i = Len(p \o q)
  BY DEF EndsLast
<1>1. Len(p \o q) = Len(p) + Len(q)
  OBVIOUS
<1>2. CASE i <= Len(p)
  BY <1>1, <1>2
<1>3. CASE i > Len(p)
  <2>1. i - Len(p) \in 1..Len(q) /\ (p \o q)[i] = q[i - Len(p)]
    BY <1>1, <1>3
  <2> QED
    BY <1>1, <2>1 DEF EndsLast
<1> QED
  BY <1>2, <1>3

LEMMA OneEnds ==
  ASSUME NEW name \in Answered
  PROVE  <<name>> \in Seq(Answered) /\ EndsLast(<<name>>)
BY DEF EndsLast

LEMMA RegistryPacketsEnd == EndsLast(RegistryPackets) /\ EndsLast(ConfigurationPackets)
<1>1. /\ <<"RegistryData">> \in Seq(Answered) /\ <<"UpdateTags">> \in Seq(Answered) /\ <<"FinishConfiguration">> \in Seq(Answered)
      /\ <<"ConfigurationClientBoundPluginMessage">> \in Seq(Answered) /\ <<"ClientBoundKnownPacks">> \in Seq(Answered)
  BY OneName DEF Answered, ConfigurationAnswers
<1>2. /\ \A i \in 1..Len(<<"RegistryData">>) : <<"RegistryData">>[i] \notin Ends
      /\ \A i \in 1..Len(<<"UpdateTags">>) : <<"UpdateTags">>[i] \notin Ends
      /\ \A i \in 1..Len(<<"ConfigurationClientBoundPluginMessage">>) : <<"ConfigurationClientBoundPluginMessage">>[i] \notin Ends
  BY DEF Ends, Welcomes
<1>3. EndsLast(<<"FinishConfiguration">>) /\ EndsLast(<<"ClientBoundKnownPacks">>)
  BY DEF EndsLast
<1> DEFINE tags == When(version >= 771, <<"UpdateTags">>)
<1>4. tags \in Seq(Answered) /\ \A i \in 1..Len(tags) : tags[i] \notin Ends
  <2>1. CASE version >= 771
    BY <1>1, <1>2, <2>1 DEF When
  <2>2. CASE ~(version >= 771)
    BY <2>2 DEF When
  <2> QED
    BY <2>1, <2>2
<1>5. RegistryPackets = <<"RegistryData">> \o (tags \o <<"FinishConfiguration">>)
  <2>1. RegistryPackets = <<"RegistryData">> \o tags \o <<"FinishConfiguration">>
    BY DEF RegistryPackets
  <2> HIDE DEF tags
  <2> QED
    BY <1>1, <1>4, <2>1
<1> HIDE DEF tags
<1>6. EndsLast(tags \o <<"FinishConfiguration">>)
  BY <1>1, <1>3, <1>4, EndsLastJoined
<1>7. tags \o <<"FinishConfiguration">> \in Seq(Answered)
  BY <1>1, <1>4, Joins
<1>8. EndsLast(RegistryPackets)
  BY <1>1, <1>2, <1>5, <1>6, <1>7, EndsLastJoined
<1>9. RegistryPackets \in Seq(Answered)
  BY AnsweredTyped
<1>10. EndsLast(ConfigurationPackets)
  BY <1>1, <1>2, <1>3, <1>8, <1>9, EndsLastJoined DEF ConfigurationPackets
<1> QED
  BY <1>8, <1>10

(* The login ends with the packet that moves the client on.                *)
LEMMA LoginPacketsEnd ==
  /\ LoginPackets \in Seq(LoginAnswers) /\ Len(LoginPackets) > 0
  /\ LoginPackets[Len(LoginPackets)] \in Welcomes
  /\ \A i \in 1..Len(LoginPackets) : i # Len(LoginPackets) => LoginPackets[i] = "SetCompression"
<1> DEFINE switch == When(version >= 47 /\ settings.compression, <<"SetCompression">>)
           welcome == IF version >= 768 THEN "LoginSuccess" ELSE "GameProfile"
<1>1. welcome \in Welcomes /\ LoginPackets = switch \o <<welcome>>
  BY DEF Welcomes, LoginPackets
<1>2. switch = <<>> \/ switch = <<"SetCompression">>
  BY DEF When
<1> HIDE DEF switch, welcome
<1>3. CASE switch = <<>>
  <2>1. LoginPackets = <<welcome>>
    BY <1>1, <1>3
  <2> QED
    BY <1>1, <2>1, LoginPacketsTyped
<1>4. CASE switch = <<"SetCompression">>
  <2> DEFINE last == <<welcome>>
  <2>1. /\ switch \in Seq(LoginAnswers) /\ Len(switch) = 1 /\ switch[1] = "SetCompression"
        /\ last \in Seq(LoginAnswers) /\ Len(last) = 1 /\ last[1] = welcome
        /\ LoginPackets = switch \o last
    BY <1>1, <1>4, OneName DEF Welcomes, LoginAnswers
  <2> HIDE DEF last
  <2>2. Len(LoginPackets) = 2 /\ LoginPackets[1] = switch[1] /\ LoginPackets[2] = last[1]
    BY <2>1, PairIs, Zenon
  <2>3. \A i \in 1..2 : i # 2 => i = 1
    OBVIOUS
  <2> QED
    BY <1>1, <2>1, <2>2, <2>3, LoginPacketsTyped
<1> QED
  BY <1>2, <1>3, <1>4

-------------------------------------------------------------------------------
(* The task stays in step                                                  *)

(* A handler starts with a word of the client's state, and nothing left to *)
(* write.                                                                  *)
LEMMA TakesInStep ==
  ASSUME WireTyped, TaskTyped, InStep, ~Gone, NEW name, Takes(name)
  PROVE  /\ WireTyped' /\ FormatsMatch' /\ ~Gone' /\ \A i \in 1..Len(up') : up'[i].name \in Words[client']
         /\ up # <<>> /\ Len(up') = Len(up) - 1 /\ Len(up) \in Nat
         /\ name \in Words[client] /\ kick = NoKick /\ batch = <<>> /\ pc = "select" /\ ~ticking'
         /\ Coming = ToRead(down, <<>>) /\ Coming' = ToRead(down, batch')
         /\ UNCHANGED <<client, intent, version, confused, settings, down>>
<1>1. /\ up # <<>> /\ Head(up).name = name /\ up' = Tail(up) /\ pc = "select" /\ ~ticking'
      /\ UNCHANGED <<client, intent, version, reads, unpacks, confused, down, settings, packs>>
  BY DEF Takes, clientVars
<1>2. up \in Seq(Packet)
  BY DEF WireTyped
<1>3. /\ up' \in Seq(Packet) /\ Len(up') = Len(up) - 1 /\ Len(up) \in Nat /\ Len(up) > 0 /\ Head(up) = up[1]
      /\ \A i \in 1..Len(up') : i + 1 \in 1..Len(up) /\ up'[i] = up[i + 1]
  BY <1>1, <1>2
<1>4. \A i \in 1..Len(up) : up[i].name \in Words[client]
  BY DEF InStep
<1>5. name \in Words[client] /\ \A i \in 1..Len(up') : up'[i].name \in Words[client']
  BY <1>1, <1>3, <1>4
<1>6. kick = NoKick
  BY <1>1 DEF InStep, KicksInTurn
<1>7. batch = <<>>
  BY <1>1 DEF TaskTyped
<1>8. Coming = ToRead(down, <<>>) /\ Coming' = ToRead(down, batch')
  BY <1>1, <1>7 DEF Coming
<1>9. FormatsMatch'
  BY <1>1 DEF InStep, FormatsMatch
<1> QED
  BY <1>1, <1>3, <1>5, <1>6, <1>7, <1>8, <1>9 DEF WireTyped, Gone

(* What is to be read when a batch follows nothing.                        *)
LEMMA AnswerToNothing ==
  ASSUME WireTyped, TaskTyped', Len(Coming) = 0, Coming = ToRead(down, <<>>), Coming' = ToRead(down, batch')
  PROVE  Len(Coming') = Len(batch') /\ \A i \in 1..Len(Coming') : Coming'[i] = batch'[i]
<1>1. down \in Seq(Packet) /\ batch' \in Seq(Answered)
  BY DEF WireTyped, TaskTyped
<1>2. /\ Len(Coming') = Len(Coming) + Len(batch') /\ Len(Coming) \in Nat
      /\ \A i \in 1..Len(batch') : Coming'[Len(Coming) + i] = batch'[i]
  BY <1>1, AnswerIsToRead
<1>3. Len(batch') \in Nat
  BY <1>1
<1>4. \A i \in 1..Len(batch') : Len(Coming) + i = i
  BY <1>3
<1> QED
  BY <1>2, <1>3, <1>4

LEMMA AnswerToSome ==
  ASSUME WireTyped, TaskTyped', Coming = ToRead(down, <<>>), Coming' = ToRead(down, batch')
  PROVE  /\ Len(Coming') = Len(Coming) + Len(batch') /\ Len(Coming) \in Nat /\ Len(batch') \in Nat
         /\ \A i \in 1..Len(Coming) : Coming'[i] = Coming[i]
         /\ \A i \in 1..Len(batch') : Coming'[Len(Coming) + i] = batch'[i]
         /\ \A i \in 1..Len(Coming') : i \in 1..Len(Coming) \/ (i - Len(Coming) \in 1..Len(batch') /\ i = Len(Coming) + (i - Len(Coming)))
<1>1. down \in Seq(Packet) /\ batch' \in Seq(Answered)
  BY DEF WireTyped, TaskTyped
<1>2. /\ Len(Coming') = Len(Coming) + Len(batch') /\ Len(Coming) \in Nat
      /\ \A i \in 1..Len(Coming) : Coming'[i] = Coming[i]
      /\ \A i \in 1..Len(batch') : Coming'[Len(Coming) + i] = batch'[i]
  BY <1>1, AnswerIsToRead
<1>3. Len(batch') \in Nat
  BY <1>1
<1> QED
  BY <1>2, <1>3

LEMMA FitsWithoutWelcome ==
  ASSUME NEW coming, NEW reader, \A i \in 1..Len(coming) : coming[i] \in Told[reader] /\ coming[i] \notin Welcomes,
         Len(coming) \in Nat
  PROVE  ComingFits(coming, reader) /\ ~WelcomeComes(coming)
<1>1. ~WelcomeComes(coming)
  BY DEF WelcomeComes
<1>2. ASSUME NEW i \in 1..Len(coming)
      PROVE  coming[i] \in Told[IF \E j \in 1..i-1 : coming[j] \in Welcomes THEN "play" ELSE reader]
  <2>1. ~\E j \in 1..i-1 : coming[j] \in Welcomes
    <3>1. \A j \in 1..i-1 : j \in 1..Len(coming)
      OBVIOUS
    <3> QED
      BY <3>1
  <2> QED
    BY <2>1
<1> QED
  BY <1>1, <1>2 DEF ComingFits

LEMMA NotWelcomes ==
  /\ PlayAnswers \cap Welcomes = {} /\ ConfigurationAnswers \cap Welcomes = {}
  /\ {"CustomQuery", "StatusResponse", "PongResponse", "SetCompression"} \cap Welcomes = {}
BY DEF PlayAnswers, ConfigurationAnswers, Welcomes

(* A packet that moves nothing: less is under way from the client.         *)
LEMMA QuietInStep ==
  ASSUME WireTyped, TaskTyped, InStep, up # <<>>, up' = Tail(up), pc = "select",
         UNCHANGED <<client, intent, version, unpacks, packs, down, batch, state, kick>>
  PROVE  WireTyped' /\ InStep'
<1>1. up \in Seq(Packet) /\ up' \in Seq(Packet) /\ Len(up) > 0 /\ Len(up') = Len(up) - 1
      /\ \A i \in 1..Len(up') : i + 1 \in 1..Len(up) /\ up'[i] = up[i + 1]
  BY DEF WireTyped
<1>2. WireTyped'
  BY <1>1 DEF WireTyped
<1>3. Coming' = Coming
  BY DEF Coming
<1>4. \A i \in 1..Len(up') : up'[i].name \in Words[client']
  BY <1>1 DEF InStep
<1>5. KicksInTurn'
  BY DEF InStep, KicksInTurn
<1>6. OneSpeaks(Coming, up, client) => OneSpeaks(Coming, up, client)'
  BY <1>1, <1>3 DEF OneSpeaks
<1>7. StatesAgree(Coming, up, client)'
  BY <1>3, <1>6 DEF InStep, StatesAgree, WelcomeComes, Configures
<1>8. FormatsMatch' /\ ComingFits(Coming, client)'
  BY <1>3 DEF InStep, FormatsMatch, ComingFits
<1> QED
  BY <1>2, <1>4, <1>5, <1>7, <1>8 DEF InStep

(* The words of a state                                                    *)
LEMMA WordsIn ==
  ASSUME WireTyped, ~Gone, NEW name, name \in Words[client]
  PROVE  /\ name \in {"StatusRequest", "PingRequest"} => client = "status"
         /\ name \in {"LoginStart", "CustomQueryAnswer"} => client = "login"
         /\ name \in {"LoginAcknowledged", "ServerBoundKnownPacks"} => client = "configuration"
         /\ name \in {"AcknowledgeConfiguration", "SetPlayerPosition"} => client = "play"
<1>1. client \in {"status", "login", "configuration", "play"}
  BY DEF WireTyped, Gone
<1> QED
  BY <1>1 DEF Words

(* Entering the game from nothing: the client is there already, or is moved *)
(* there first.                                                            *)
LEMMA EnterPlayInStep ==
  ASSUME WireTyped, TaskTyped, TaskTyped', InStep, ~Gone, NEW name, Takes(name), kick' # Full,
         NEW before \in Seq(Answered), EnterPlay(before), Len(Coming) = 0, state \in {"login", "configuration"},
         \/ before = <<>> /\ client = "play"
         \/ before = LoginPackets /\ client = "login" /\ ~Configures /\ Len(up) <= 1
  PROVE  InStep'
<1>1. /\ WireTyped' /\ FormatsMatch' /\ ~Gone' /\ \A i \in 1..Len(up') : up'[i].name \in Words[client']
      /\ up # <<>> /\ Len(up') = Len(up) - 1 /\ Len(up) \in Nat
      /\ kick = NoKick /\ batch = <<>> /\ ~ticking'
      /\ Coming = ToRead(down, <<>>) /\ Coming' = ToRead(down, batch')
      /\ UNCHANGED <<client, intent, version, settings, down>>
  BY TakesInStep
<1>2. Len(Coming') = Len(batch') /\ (\A i \in 1..Len(Coming') : Coming'[i] = batch'[i]) /\ Len(batch') \in Nat
  <2>1. batch' \in Seq(Answered)
    BY DEF TaskTyped
  <2> QED
    BY <1>1, <2>1, AnswerToNothing
<1>3. /\ kick' = kick
      /\ \/ state' = "play" /\ batch' = before \o PlayPackets
         \/ state' = state /\ batch' = batch
  BY <1>1 DEF EnterPlay, Answer, Full
<1>4. KicksInTurn'
  BY <1>1, <1>3 DEF KicksInTurn
<1>5. intent # "status"
  BY DEF InStep, StatesAgree
<1>6. CASE state' = state /\ batch' = batch
  <2>1. Len(Coming') = 0
    BY <1>1, <1>2, <1>6
  <2>2. ComingFits(Coming', client') /\ ~WelcomeComes(Coming')
    BY <2>1 DEF ComingFits, WelcomeComes
  <2>3. OneSpeaks(Coming', up', client')
    BY <1>1, <2>1 DEF OneSpeaks, InStep, StatesAgree
  <2>4. StatesAgree(Coming, up, client)'
    BY <1>1, <1>6, <2>1, <2>2, <2>3 DEF InStep, StatesAgree, OneSpeaks, Configures, WelcomeComes
  <2> QED
    BY <1>1, <1>4, <2>2, <2>4 DEF InStep
<1>7. CASE state' = "play" /\ batch' = before \o PlayPackets
  <2>1. PlayPackets \in Seq(Answered) /\ PlayPackets \in Seq(PlayAnswers)
    <3>1. PlayAnswers \subseteq Answered
      BY DEF Answered
    <3> QED
      BY <3>1, PlayPacketsTyped
  <2>2. /\ Len(batch') = Len(before) + Len(PlayPackets) /\ Len(before) \in Nat /\ Len(PlayPackets) \in Nat
        /\ \A i \in 1..Len(before) : batch'[i] = before[i]
        /\ \A i \in 1..Len(PlayPackets) : batch'[Len(before) + i] = PlayPackets[i]
    <3> DEFINE both == before \o PlayPackets
    <3>1. /\ Len(both) = Len(before) + Len(PlayPackets) /\ Len(before) \in Nat /\ Len(PlayPackets) \in Nat
          /\ \A i \in 1..Len(before) : both[i] = before[i]
          /\ \A i \in 1..Len(PlayPackets) : both[Len(before) + i] = PlayPackets[i]
      BY <2>1, JoinedIs
    <3>2. batch' = both
      BY <1>7
    <3> HIDE DEF both
    <3> QED
      BY <3>1, <3>2
  <2>3. \A i \in 1..Len(PlayPackets) : PlayPackets[i] \in PlayAnswers
    BY <2>1
  <2>4. ASSUME NEW i \in 1..Len(Coming'), i > Len(before) PROVE Coming'[i] \in PlayAnswers
    <3>1. i - Len(before) \in 1..Len(PlayPackets) /\ Len(before) + (i - Len(before)) = i
      BY <1>2, <2>2, <2>4
    <3>2. batch'[i] = PlayPackets[i - Len(before)]
      BY <2>2, <3>1
    <3> QED
      BY <1>2, <2>3, <3>1, <3>2
  <2>5. Told["play"] = PlayAnswers /\ LoginAnswers \subseteq Told["login"]
    BY DEF Told
  <2>6. CASE before = <<>> /\ client = "play"
    <3>1. \A i \in 1..Len(Coming') : i > Len(before)
      BY <2>6
    <3>2. ComingFits(Coming', client')
      BY <1>1, <1>2, <2>4, <2>5, <2>6, <3>1, NotWelcomes, FitsWithoutWelcome
    <3>3. StatesAgree(Coming, up, client)'
      BY <1>1, <1>5, <1>7, <2>6 DEF StatesAgree
    <3> QED
      BY <1>1, <1>4, <3>2, <3>3 DEF InStep
  <2>7. CASE before = LoginPackets /\ client = "login" /\ ~Configures /\ Len(up) <= 1
    <3>1. /\ Len(before) > 0 /\ before[Len(before)] \in Welcomes
          /\ \A i \in 1..Len(before) : before[i] \in LoginAnswers /\ (i # Len(before) => before[i] = "SetCompression")
      BY <2>7, LoginPacketsEnd
    <3>2. Len(before) \in 1..Len(Coming') /\ Coming'[Len(before)] \in Welcomes
      <4>1. Len(before) \in 1..Len(before) /\ Len(before) \in 1..Len(Coming')
        BY <1>2, <2>2, <3>1
      <4> QED
        BY <1>2, <2>2, <3>1, <4>1
    <3>3. \A i \in 1..Len(Coming') : i < Len(before) => Coming'[i] = "SetCompression" /\ Coming'[i] \notin Welcomes
      <4>1. ASSUME NEW i \in 1..Len(Coming'), i < Len(before) PROVE Coming'[i] = "SetCompression"
        <5>1. i \in 1..Len(before) /\ i # Len(before)
          BY <1>2, <2>2, <4>1
        <5> QED
          BY <1>2, <2>2, <3>1, <5>1
      <4> QED
        BY <4>1, NotWelcomes
    <3>4. ASSUME NEW i \in 1..Len(Coming')
          PROVE  Coming'[i] \in Told[IF \E j \in 1..i-1 : Coming'[j] \in Welcomes THEN "play" ELSE client']
      <4>1. CASE i <= Len(before)
        <5>1. ~\E j \in 1..i-1 : Coming'[j] \in Welcomes
          <6>1. \A j \in 1..i-1 : j \in 1..Len(Coming') /\ j < Len(before)
            BY <1>2, <2>2, <4>1
          <6> QED
            BY <3>3, <6>1
        <5>2. Coming'[i] \in LoginAnswers
          <6>1. i \in 1..Len(before)
            BY <1>2, <2>2, <4>1
          <6> QED
            BY <1>2, <2>2, <3>1, <6>1
        <5> QED
          BY <1>1, <2>5, <2>7, <5>1, <5>2
      <4>2. CASE i > Len(before)
        <5>1. \E j \in 1..i-1 : Coming'[j] \in Welcomes
          <6>1. Len(before) \in 1..i-1
            BY <1>2, <2>2, <3>1, <4>2
          <6> QED
            BY <3>2, <6>1
        <5> QED
          BY <2>4, <2>5, <4>2, <5>1
      <4> QED
        BY <1>2, <2>2, <4>1, <4>2
    <3>5. ComingFits(Coming', client')
      BY <3>4 DEF ComingFits
    <3>6. up' = <<>>
      BY <1>1, <2>7 DEF WireTyped
    <3>7. \A i \in 1..Len(Coming') : Coming'[i] # "CustomQuery"
      <4>1. \A i \in 1..Len(Coming') : i < Len(before) \/ i = Len(before) \/ i > Len(before)
        BY <1>2, <2>2
      <4>2. "CustomQuery" \notin Welcomes /\ "CustomQuery" \notin PlayAnswers
        BY DEF Welcomes, PlayAnswers
      <4> QED
        BY <2>4, <3>2, <3>3, <4>1, <4>2
    <3>8. StatesAgree(Coming, up, client)'
      BY <1>1, <1>5, <1>7, <2>7, <3>2, <3>6, <3>7 DEF StatesAgree, WelcomeComes, Configures
    <3> QED
      BY <1>1, <1>4, <3>5, <3>8 DEF InStep
  <2> QED
    BY <2>6, <2>7
<1> QED
  BY <1>3, <1>6, <1>7

LEMMA FitsWithLast ==
  ASSUME NEW coming, NEW reader, Len(coming) \in Nat, EndsLast(coming), \A i \in 1..Len(coming) : coming[i] \in Told[reader]
  PROVE  ComingFits(coming, reader)
<1> SUFFICES ASSUME NEW i \in 1..Len(coming)
             PROVE  coming[i] \in Told[IF \E j \in 1..i-1 : coming[j] \in Welcomes THEN "play" ELSE reader]
  BY DEF ComingFits
<1>1. \A j \in 1..i-1 : j \in 1..Len(coming) /\ j # Len(coming)
  OBVIOUS
<1>2. ~\E j \in 1..i-1 : coming[j] \in Welcomes
  BY <1>1 DEF EndsLast, Ends
<1> QED
  BY <1>2

(* The server answers in its turn, with what the client is waiting for.     *)
LEMMA AnswersInTurn ==
  ASSUME WireTyped, TaskTyped, TaskTyped', InStep, ~Gone, NEW name, Takes(name), UNCHANGED kick,
         Len(Coming) = 0, Len(up) <= 1, client \in {"login", "configuration"}, state' = client,
         EndsLast(batch'), \A i \in 1..Len(batch') : batch'[i] \in Told[client],
         client = "login" => Configures \/ \A i \in 1..Len(batch') : batch'[i] \notin Welcomes
  PROVE  InStep'
<1>1. /\ WireTyped' /\ FormatsMatch' /\ ~Gone' /\ \A i \in 1..Len(up') : up'[i].name \in Words[client']
      /\ Len(up') = Len(up) - 1 /\ Len(up) \in Nat /\ up # <<>> /\ kick = NoKick
      /\ Coming = ToRead(down, <<>>) /\ Coming' = ToRead(down, batch')
      /\ UNCHANGED <<client, intent, version, settings>>
  BY TakesInStep
<1>2. Len(Coming') = Len(batch') /\ \A i \in 1..Len(Coming') : Coming'[i] = batch'[i]
  BY <1>1, AnswerToNothing
<1>3. Len(batch') \in Nat /\ up \in Seq(Packet) /\ up' \in Seq(Packet)
  BY <1>1 DEF TaskTyped, WireTyped
<1>4. up' = <<>>
  BY <1>1, <1>3
<1>5. EndsLast(Coming') /\ \A i \in 1..Len(Coming') : Coming'[i] \in Told[client']
  BY <1>1, <1>2 DEF EndsLast
<1>6. ComingFits(Coming', client')
  BY <1>2, <1>3, <1>5, FitsWithLast
<1>7. OneSpeaks(Coming', up', client')
  BY <1>4, <1>5 DEF OneSpeaks, EndsLast
<1>8. WelcomeComes(Coming') => client # "login" \/ Configures
  BY <1>2 DEF WelcomeComes
<1>9. StatesAgree(Coming, up, client)'
  <2>1. intent # "status" /\ (Configures' <=> Configures)
    BY <1>1 DEF InStep, StatesAgree, Configures
  <2>2. (WelcomeComes(Coming))' <=> WelcomeComes(Coming')
    BY DEF WelcomeComes
  <2>3. (OneSpeaks(Coming, up, client))' <=> OneSpeaks(Coming', up', client')
    BY DEF OneSpeaks
  <2> QED
    BY <1>1, <1>7, <1>8, <2>1, <2>2, <2>3 DEF StatesAgree
<1>10. KicksInTurn'
  BY <1>1 DEF KicksInTurn
<1> QED
  BY <1>1, <1>6, <1>9, <1>10 DEF InStep

LEMMA HandshakeInStep ==
  ASSUME WireTyped, TaskTyped, TaskTyped', InStep, ~Gone, Handshake
  PROVE  InStep'
<1>1. Takes("Handshake") /\ state = "handshake"
  BY TakesInState DEF Handshake
<1>2. /\ WireTyped' /\ FormatsMatch' /\ \A i \in 1..Len(up') : up'[i].name \in Words[client']
      /\ Len(up') = Len(up) - 1 /\ Len(up) \in Nat /\ kick = NoKick /\ batch = <<>>
      /\ Coming = ToRead(down, <<>>) /\ Coming' = ToRead(down, batch')
      /\ UNCHANGED <<client, intent, version>>
  BY <1>1, TakesInStep
<1>3. /\ batch' = <<>> /\ state' = (IF intent = "status" THEN "status" ELSE "login") /\ (kick' = kick \/ pc' = "close")
  BY <1>2 DEF Handshake, Answer, Refuse
<1>4. Coming' = Coming /\ Len(Coming) = 0 /\ Len(up') <= 1 /\ client \in {"status", "login"} /\ (client = "status" <=> intent = "status")
  BY <1>1, <1>2, <1>3 DEF InStep, StatesAgree
<1>5. ComingFits(Coming', client') /\ ~WelcomeComes(Coming')
  BY <1>4 DEF ComingFits, WelcomeComes
<1>6. OneSpeaks(Coming', up', client')
  BY <1>4 DEF OneSpeaks
<1>7. StatesAgree(Coming, up, client)'
  <2>1. (WelcomeComes(Coming))' <=> WelcomeComes(Coming')
    BY DEF WelcomeComes
  <2>2. (OneSpeaks(Coming, up, client))' <=> OneSpeaks(Coming', up', client')
    BY DEF OneSpeaks
  <2> QED
    BY <1>2, <1>3, <1>4, <1>5, <1>6, <2>1, <2>2 DEF StatesAgree
<1>8. KicksInTurn'
  BY <1>2, <1>3 DEF KicksInTurn
<1> QED
  BY <1>2, <1>5, <1>7, <1>8 DEF InStep

LEMMA StatusInStep ==
  ASSUME WireTyped, TaskTyped, TaskTyped', InStep, ~Gone, StatusRequest \/ PingRequest
  PROVE  InStep'
<1>1. PICK name \in {"StatusRequest", "PingRequest"} : Takes(name)
  BY DEF StatusRequest, PingRequest
<1>2. /\ WireTyped' /\ FormatsMatch' /\ \A i \in 1..Len(up') : up'[i].name \in Words[client']
      /\ kick = NoKick /\ name \in Words[client]
      /\ Coming = ToRead(down, <<>>) /\ Coming' = ToRead(down, batch')
      /\ UNCHANGED <<client, intent, version>>
  BY <1>1, TakesInStep
<1>3. state = "status" /\ client = "status"
  BY <1>1, <1>2, TakesInState, WordsIn
<1>4. (batch' = <<"StatusResponse">> \/ batch' = <<"PongResponse">>) /\ UNCHANGED <<state, kick>>
  BY DEF StatusRequest, PingRequest, Answer, stateVars
<1>5. /\ Len(Coming') = Len(Coming) + Len(batch') /\ Len(Coming) \in Nat /\ Len(batch') \in Nat
      /\ \A i \in 1..Len(Coming) : Coming'[i] = Coming[i]
      /\ \A i \in 1..Len(batch') : Coming'[Len(Coming) + i] = batch'[i]
      /\ \A i \in 1..Len(Coming') : i \in 1..Len(Coming) \/ (i - Len(Coming) \in 1..Len(batch') /\ i = Len(Coming) + (i - Len(Coming)))
  BY <1>2, AnswerToSome
<1>6. \A i \in 1..Len(Coming) : Coming[i] \in Told["status"]
  <2>1. \A i \in 1..Len(Coming) : Coming[i] \notin Welcomes
    BY <1>3 DEF InStep, StatesAgree, WelcomeComes
  <2>2. \A i \in 1..Len(Coming) : \A j \in 1..i-1 : j \in 1..Len(Coming)
    BY <1>5
  <2> QED
    BY <1>3, <2>1, <2>2 DEF InStep, ComingFits
<1>7. \A i \in 1..Len(batch') : batch'[i] \in Told["status"]
  BY <1>4 DEF Told, StatusAnswers
<1>8. \A i \in 1..Len(Coming') : Coming'[i] \in Told["status"]
  <2> TAKE i \in 1..Len(Coming')
  <2>1. CASE i \in 1..Len(Coming)
    BY <1>5, <1>6, <2>1
  <2>2. CASE i - Len(Coming) \in 1..Len(batch') /\ i = Len(Coming) + (i - Len(Coming))
    BY <1>5, <1>7, <2>2
  <2> QED
    BY <1>5, <2>1, <2>2
<1>9. Told["status"] \cap Welcomes = {}
  BY DEF Told, StatusAnswers, Welcomes
<1>10. Len(Coming') \in Nat
  BY <1>5
<1>11. ComingFits(Coming', client') /\ ~WelcomeComes(Coming')
  BY <1>2, <1>3, <1>8, <1>9, <1>10, FitsWithoutWelcome
<1>12. StatesAgree(Coming, up, client)'
  <2>1. (WelcomeComes(Coming))' <=> WelcomeComes(Coming')
    BY DEF WelcomeComes
  <2>2. intent = "status"
    BY <1>3 DEF InStep, StatesAgree
  <2> QED
    BY <1>2, <1>3, <1>4, <1>11, <2>1, <2>2 DEF StatesAgree
<1>13. KicksInTurn'
  BY <1>2, <1>4 DEF KicksInTurn
<1> QED
  BY <1>2, <1>11, <1>12, <1>13 DEF InStep

LEMMA LogInStaysInStep ==
  ASSUME WireTyped, TaskTyped, TaskTyped', InStep, ~Gone, kick' # Full, NEW name, Takes(name), LogIn,
         Len(Coming) = 0, Len(up) <= 1, state = "login", client = "login"
  PROVE  InStep'
<1>1. LoginPackets \in Seq(Answered) /\ LoginPackets \in Seq(LoginAnswers)
  <2>1. LoginAnswers \subseteq Answered
    BY DEF Answered
  <2> QED
    BY <2>1, LoginPacketsTyped
<1>2. CASE Configures
  <2>1. batch' = LoginPackets /\ UNCHANGED <<kick, state>>
    BY <1>2 DEF LogIn, Answer, stateVars
  <2>2. EndsLast(LoginPackets)
    <3>1. "SetCompression" \notin Ends
      BY DEF Ends, Welcomes
    <3> QED
      BY <3>1, LoginPacketsEnd DEF EndsLast
  <2>3. LoginAnswers \subseteq Told["login"]
    BY DEF Told
  <2>4. \A i \in 1..Len(LoginPackets) : LoginPackets[i] \in Told["login"]
    BY <1>1, <2>3
  <2> QED
    BY <1>2, <2>1, <2>2, <2>4, AnswersInTurn
<1>3. CASE ~Configures
  BY <1>1, <1>3, EnterPlayInStep DEF LogIn
<1> QED
  BY <1>2, <1>3

(* A kick that is decided in the login waits for nothing.                   *)
LEMMA KicksInStep ==
  ASSUME WireTyped, TaskTyped, TaskTyped', InStep, ~Gone, NEW name, Takes(name), Answer(<<>>), UNCHANGED state,
         Len(Coming) = 0, Len(up) <= 1, state = "login", client = "login"
  PROVE  InStep'
<1>1. /\ WireTyped' /\ FormatsMatch' /\ \A i \in 1..Len(up') : up'[i].name \in Words[client']
      /\ Len(up') = Len(up) - 1 /\ Len(up) \in Nat /\ up # <<>> /\ ~ticking' /\ batch = <<>>
      /\ Coming = ToRead(down, <<>>) /\ Coming' = ToRead(down, batch')
      /\ UNCHANGED <<client, intent, version>>
  BY TakesInStep
<1>2. batch' = <<>> /\ pc' = "write"
  BY DEF Answer
<1>3. Coming' = Coming /\ up' = <<>>
  BY <1>1, <1>2 DEF WireTyped
<1>4. ComingFits(Coming', client') /\ ~WelcomeComes(Coming')
  BY <1>3 DEF ComingFits, WelcomeComes
<1>5. StatesAgree(Coming, up, client)'
  <2>1. (WelcomeComes(Coming))' <=> WelcomeComes(Coming')
    BY DEF WelcomeComes
  <2>2. (OneSpeaks(Coming, up, client))'
    BY <1>3 DEF OneSpeaks
  <2>3. intent # "status"
    BY DEF InStep, StatesAgree
  <2> QED
    BY <1>1, <1>3, <1>4, <2>1, <2>2, <2>3 DEF StatesAgree
<1>6. KicksInTurn'
  BY <1>1, <1>2, <1>3 DEF KicksInTurn
<1> QED
  BY <1>1, <1>4, <1>5, <1>6 DEF InStep

LEMMA LoginInStep ==
  ASSUME WireTyped, TaskTyped, TaskTyped', InStep, ~Gone, kick' # Full, LoginStart \/ CustomQueryAnswer
  PROVE  InStep'
<1>1. PICK name \in {"LoginStart", "CustomQueryAnswer"} : Takes(name)
  BY DEF LoginStart, CustomQueryAnswer
<1>2. state = "login" /\ client = "login" /\ up # <<>>
  BY <1>1, TakesInState, TakesInStep, WordsIn
<1>3. Len(Coming) = 0 /\ Len(up) <= 1
  BY <1>2 DEF InStep, StatesAgree, OneSpeaks
<1>4. \/ LogIn
      \/ Answer(<<"CustomQuery">>) /\ UNCHANGED stateVars
      \/ Answer(<<>>) /\ UNCHANGED state
  BY DEF LoginStart, CustomQueryAnswer
<1>5. CASE LogIn
  BY <1>1, <1>2, <1>3, <1>5, LogInStaysInStep
<1>6. CASE Answer(<<"CustomQuery">>) /\ UNCHANGED stateVars
  <2>1. batch' = <<"CustomQuery">> /\ UNCHANGED <<kick, state>>
    BY <1>6 DEF Answer, stateVars
  <2>2. EndsLast(<<"CustomQuery">>) /\ <<"CustomQuery">>[1] = "CustomQuery" /\ Len(<<"CustomQuery">>) = 1
    BY DEF EndsLast
  <2>3. "CustomQuery" \in Told["login"] /\ "CustomQuery" \notin Welcomes
    BY DEF Told, LoginAnswers, Welcomes
  <2>4. EndsLast(batch') /\ \A i \in 1..Len(batch') : batch'[i] \in Told[client] /\ batch'[i] \notin Welcomes
    BY <1>2, <2>1, <2>2, <2>3
  <2> QED
    BY <1>1, <1>2, <1>3, <2>1, <2>4, AnswersInTurn
<1>7. CASE Answer(<<>>) /\ UNCHANGED state
  BY <1>1, <1>2, <1>3, <1>7, KicksInStep
<1> QED
  BY <1>4, <1>5, <1>6, <1>7

LEMMA ConfigurationInStep ==
  ASSUME WireTyped, TaskTyped, TaskTyped', InStep, ~Gone, LoginAcknowledged \/ ServerBoundKnownPacks
  PROVE  InStep'
<1>1. PICK name \in {"LoginAcknowledged", "ServerBoundKnownPacks"} :
        Takes(name) /\ state = IF name = "LoginAcknowledged" THEN "login" ELSE "configuration"
  BY TakesInState DEF LoginAcknowledged, ServerBoundKnownPacks
<1>2. client = "configuration" /\ up # <<>>
  BY <1>1, TakesInStep, WordsIn
<1>3. Len(Coming) = 0 /\ Len(up) <= 1
  BY <1>1, <1>2 DEF InStep, StatesAgree, OneSpeaks
<1>4. /\ batch' = ConfigurationPackets \/ batch' = RegistryPackets
      /\ UNCHANGED kick /\ state' = "configuration"
  <2>1. CASE LoginAcknowledged
    BY <2>1 DEF LoginAcknowledged, Answer
  <2>2. CASE ServerBoundKnownPacks
    <3>1. Takes("ServerBoundKnownPacks") /\ Answer(RegistryPackets) /\ UNCHANGED stateVars
      BY <2>2 DEF ServerBoundKnownPacks
    <3>2. state = "configuration"
      BY <3>1, TakesInState
    <3> QED
      BY <3>1, <3>2 DEF Answer, stateVars
  <2> QED
    BY <2>1, <2>2
<1>5. EndsLast(batch')
  BY <1>4, RegistryPacketsEnd
<1>6. \A i \in 1..Len(batch') : batch'[i] \in Told[client]
  <2>1. batch' \in Seq(ConfigurationAnswers) /\ Told["configuration"] = ConfigurationAnswers
    BY <1>4, ConfigurationPacketsTyped, RegistryPacketsTyped DEF Told
  <2> QED
    BY <1>2, <2>1
<1> QED
  BY <1>1, <1>2, <1>3, <1>4, <1>5, <1>6, AnswersInTurn

LEMMA HandlersStayInStep ==
  ASSUME WireTyped, TaskTyped, TaskTyped', InStep, ~Gone, kick' # Full, HandleStep
  PROVE  WireTyped' /\ InStep' /\ UNCHANGED confused
<1>1. UNCHANGED confused
  BY DEF HandleStep, Handshake, StatusRequest, PingRequest, LoginStart, CustomQueryAnswer, LoginAcknowledged,
     ServerBoundKnownPacks, AcknowledgeConfiguration, SetPlayerPosition, Unknown, Takes, clientVars
<1>2. WireTyped' /\ (SetPlayerPosition \/ Unknown => InStep')
  <2>1. ASSUME NEW name, Takes(name) PROVE WireTyped'
    BY <2>1, TakesInStep
  <2>2. CASE SetPlayerPosition
    <3>1. PICK name : Takes(name)
      BY <2>2 DEF SetPlayerPosition
    <3>2. batch' = <<>> /\ batch = <<>> /\ UNCHANGED <<state, kick>>
      BY <2>2, <3>1, TakesInStep DEF SetPlayerPosition, Answer, stateVars
    <3> QED
      BY <3>1, <3>2, QuietInStep DEF Takes, clientVars
  <2>3. CASE Unknown
    BY <2>3, QuietInStep DEF Unknown, clientVars, stateVars
  <2>4. (\E name : Takes(name)) \/ Unknown
    BY DEF HandleStep, Handshake, StatusRequest, PingRequest, LoginStart, CustomQueryAnswer, LoginAcknowledged,
       ServerBoundKnownPacks, AcknowledgeConfiguration, SetPlayerPosition
  <2> QED
    BY <2>1, <2>2, <2>3, <2>4
<1>3. CASE AcknowledgeConfiguration
  <2>1. Takes("AcknowledgeConfiguration") /\ EnterPlay(<<>>)
    BY <1>3 DEF AcknowledgeConfiguration
  <2>2. state = "configuration"
    BY <2>1, TakesInState
  <2>3. client = "play" /\ up # <<>>
    BY <2>1, TakesInStep, WordsIn
  <2>4. Len(Coming) = 0
    BY <2>2, <2>3 DEF InStep, StatesAgree
  <2>5. PICK before \in Seq(Answered) : before = <<>> /\ EnterPlay(before)
    BY <2>1, AnsweredTyped
  <2>6. PICK name : Takes(name)
    BY <2>1
  <2>7. state \in {"login", "configuration"}
    BY <2>2
  <2> QED
    BY <1>1, <1>2, <2>3, <2>4, <2>5, <2>6, <2>7, EnterPlayInStep
<1> QED
  BY <1>1, <1>2, <1>3, HandshakeInStep, StatusInStep, LoginInStep, ConfigurationInStep DEF HandleStep

(* A lobby that has filled up: the welcome, if there is one, and the kick    *)
(* behind it.                                                              *)
LEMMA FullIsAnswered ==
  ASSUME WireTyped, TaskTyped, TaskTyped', InStep, ~Gone, ~confused, NEW name, Takes(name),
         NEW before \in Seq(Answered), Answer(before), kick' = Full, Len(Coming) = 0,
         before = <<>> \/ (before = LoginPackets /\ client = "login" /\ ~Configures)
  PROVE  FullInv'
<1>1. /\ WireTyped' /\ FormatsMatch' /\ ~ticking' /\ Coming = ToRead(down, <<>>) /\ Coming' = ToRead(down, batch')
      /\ UNCHANGED <<client, version, confused>>
  BY TakesInStep
<1>2. batch' = before /\ pc' = "write" /\ Len(before) \in Nat
  BY DEF Answer
<1>3. Len(Coming') = Len(before) /\ \A i \in 1..Len(Coming') : Coming'[i] = before[i]
  BY <1>1, <1>2, AnswerToNothing
<1>4. /\ ComingFits(Coming', client') /\ (Configures' => Len(Coming') = 0)
      /\ \A i \in 1..Len(Coming') : Coming'[i] \in Welcomes \cup {"SetCompression"}
  <2>1. CASE before = <<>>
    <3>1. Len(Coming') = 0
      BY <1>3, <2>1
    <3> QED
      BY <3>1 DEF ComingFits
  <2>2. CASE before = LoginPackets /\ client = "login" /\ ~Configures
    <3>1. /\ \A i \in 1..Len(before) : before[i] \in LoginAnswers
          /\ before[Len(before)] \in Welcomes
          /\ \A i \in 1..Len(before) : i # Len(before) => before[i] = "SetCompression"
      BY <2>2, LoginPacketsEnd
    <3>2. LoginAnswers \subseteq Told["login"] /\ "SetCompression" \notin Ends
      BY DEF Told, Ends, Welcomes
    <3>3. EndsLast(Coming') /\ \A i \in 1..Len(Coming') : Coming'[i] \in Told[client']
      BY <1>1, <1>3, <2>2, <3>1, <3>2 DEF EndsLast
    <3>4. ComingFits(Coming', client')
      BY <1>2, <1>3, <3>3, FitsWithLast
    <3>5. \A i \in 1..Len(Coming') : Coming'[i] \in Welcomes \cup {"SetCompression"}
      BY <1>3, <3>1
    <3> QED
      BY <1>1, <2>2, <3>4, <3>5 DEF Configures
  <2> QED
    BY <2>1, <2>2
<1>5. FullStream'
  BY <1>1, <1>4 DEF FullStream
<1> QED
  BY <1>1, <1>2, <1>5 DEF FullInv

LEMMA FullIsTold ==
  ASSUME WireTyped, TaskTyped, TaskTyped', InStep, ~Gone, ~confused, HandleStep, kick' = Full
  PROVE  FullInv'
<1>1. ASSUME NEW name, Takes(name) PROVE kick = NoKick
  BY <1>1, TakesInStep
<1>2. kick' # NoKick
  BY DEF Full, NoKick
<1>3. ASSUME kick = NoKick, NEW before, EnterPlay(before) PROVE Answer(before)
  BY <1>2, <1>3 DEF EnterPlay
<1>4. CASE AcknowledgeConfiguration
  <2>1. Takes("AcknowledgeConfiguration") /\ EnterPlay(<<>>)
    BY <1>4 DEF AcknowledgeConfiguration
  <2>2. state = "configuration"
    BY <2>1, TakesInState
  <2>3. client = "play"
    BY <2>1, TakesInStep, WordsIn
  <2>4. Len(Coming) = 0
    BY <2>2, <2>3 DEF InStep, StatesAgree
  <2>5. PICK before \in Seq(Answered) : before = <<>> /\ Answer(before)
    BY <1>1, <1>3, <2>1, AnsweredTyped
  <2>6. PICK name : Takes(name)
    BY <2>1
  <2> QED
    BY <2>4, <2>5, <2>6, FullIsAnswered
<1>5. CASE LoginStart \/ CustomQueryAnswer
  <2>1. PICK name \in {"LoginStart", "CustomQueryAnswer"} : Takes(name)
    BY <1>5 DEF LoginStart, CustomQueryAnswer
  <2>2. state = "login" /\ client = "login" /\ up # <<>>
    BY <2>1, TakesInState, TakesInStep, WordsIn
  <2>3. Len(Coming) = 0
    BY <2>2 DEF InStep, StatesAgree, OneSpeaks
  <2>4. LogIn
    <3>1. kick = NoKick
      BY <1>1, <2>1
    <3> QED
      BY <1>2, <1>5, <3>1 DEF LoginStart, CustomQueryAnswer, stateVars, Full
  <2>5. ~Configures /\ EnterPlay(LoginPackets)
    <3>1. kick = NoKick
      BY <1>1, <2>1
    <3> QED
      BY <1>2, <2>4, <3>1 DEF LogIn, stateVars
  <2>6. LoginPackets \in Seq(Answered)
    <3>1. LoginAnswers \subseteq Answered
      BY DEF Answered
    <3> QED
      BY <3>1, LoginPacketsTyped
  <2>7. PICK before \in Seq(Answered) : before = LoginPackets /\ Answer(before)
    BY <1>1, <1>3, <2>1, <2>5, <2>6
  <2> QED
    BY <2>1, <2>2, <2>3, <2>5, <2>7, FullIsAnswered
<1>6. CASE Handshake
  <2>1. kick = NoKick
    BY <1>1, <1>6 DEF Handshake
  <2> QED
    BY <1>2, <1>6, <2>1 DEF Handshake, Full
<1>7. CASE \/ StatusRequest \/ PingRequest \/ LoginAcknowledged
           \/ ServerBoundKnownPacks \/ SetPlayerPosition
  <2>1. PICK name : Takes(name)
    BY <1>7 DEF StatusRequest, PingRequest, LoginAcknowledged, ServerBoundKnownPacks, SetPlayerPosition
  <2>2. UNCHANGED kick
    BY <1>7 DEF StatusRequest, PingRequest, LoginAcknowledged, ServerBoundKnownPacks, SetPlayerPosition, stateVars
  <2> QED
    BY <1>1, <1>2, <2>1, <2>2
<1>8. CASE Unknown
  <2>1. UNCHANGED kick /\ pc = "select"
    BY <1>8 DEF Unknown, stateVars
  <2> QED
    BY <1>2, <2>1 DEF InStep, KicksInTurn
<1> QED
  BY <1>4, <1>5, <1>6, <1>7, <1>8 DEF HandleStep

-------------------------------------------------------------------------------
(* The other steps                                                         *)

LEMMA StillInStep ==
  ASSUME InStep, UNCHANGED <<client, intent, version, up, state>>, Coming' = Coming, FormatsMatch', KicksInTurn'
  PROVE  InStep'
<1>1. ComingFits(Coming, client)' /\ \A i \in 1..Len(up') : up'[i].name \in Words[client']
  BY DEF InStep, ComingFits
<1>2. (OneSpeaks(Coming, up, client))' <=> OneSpeaks(Coming, up, client)
  BY DEF OneSpeaks
<1>3. (WelcomeComes(Coming))' <=> WelcomeComes(Coming)
  BY DEF WelcomeComes
<1>4. Configures' <=> Configures
  BY DEF Configures
<1>5. StatesAgree(Coming, up, client)'
  BY <1>2, <1>3, <1>4 DEF InStep, StatesAgree
<1> QED
  BY <1>1, <1>5 DEF InStep

LEMMA NothingMoves ==
  ASSUME InStep, UNCHANGED <<client, intent, version, unpacks, packs, up, down, batch, state>>, KicksInTurn'
  PROVE  InStep'
<1>1. Coming' = Coming
  BY DEF Coming
<1>2. FormatsMatch'
  BY DEF InStep, FormatsMatch
<1> QED
  BY <1>1, <1>2, StillInStep

LEMMA NothingHappens ==
  ASSUME UnderstoodInv,
         UNCHANGED <<client, reads, intent, version, confused, unpacks, packs, up, down, batch, state, kick, ticking, pc>>
  PROVE  UnderstoodInv'
<1>1. InStep => KicksInTurn'
  BY DEF InStep, KicksInTurn, Coming
<1>2. InStep => InStep'
  BY <1>1, NothingMoves
<1> QED
  BY <1>2 DEF UnderstoodInv, WireTyped, Gone

(* A player who moves is in the game, where both sides speak at any time.   *)
LEMMA MovingStaysInStep ==
  ASSUME WireTyped, TaskTyped, ClientMoves
  PROVE  WireTyped' /\ UNCHANGED confused /\ (InStep => InStep')
<1>1. /\ client = "play" /\ UNCHANGED unpacks /\ Says(<<"SetPlayerPosition">>)
      /\ UNCHANGED <<client, intent, version, confused, unpacks, packs, down, batch, state, pc, kick, ticking>>
  BY DEF ClientMoves, stateVars
<1> DEFINE packet == [name |-> "SetPlayerPosition", packed |-> unpacks]
<1>2. packet \in Packet /\ packet.name = "SetPlayerPosition"
  <2>1. "SetPlayerPosition" \in Words["play"]
    BY DEF Words
  <2>2. "SetPlayerPosition" \in Name
    BY <2>1, WordsAreNames
  <2> QED
    BY <2>2 DEF Packet, WireTyped
<1>3. up' = up \o <<packet>>
  <2>1. [i \in DOMAIN <<"SetPlayerPosition">> |-> [name |-> <<"SetPlayerPosition">>[i], packed |-> unpacks']] = <<packet>>
    BY <1>1
  <2> QED
    BY <1>1, <2>1 DEF Says
<1> HIDE DEF packet
<1>4. up \in Seq(Packet)
  BY DEF WireTyped
<1>5. /\ up' \in Seq(Packet) /\ Len(up') = Len(up) + 1 /\ Len(up) \in Nat /\ up'[Len(up) + 1] = packet
      /\ \A i \in 1..Len(up) : up'[i] = up[i]
  BY <1>2, <1>3, <1>4
<1>6. WireTyped'
  BY <1>1, <1>5 DEF WireTyped
<1>7. ASSUME InStep PROVE InStep'
  <2>1. Coming' = Coming
    BY <1>1 DEF Coming
  <2>2. \A i \in 1..Len(up') : up'[i].name \in Words[client']
    <3>1. "SetPlayerPosition" \in Words["play"]
      BY DEF Words
    <3>2. \A i \in 1..Len(up') : i \in 1..Len(up) \/ i = Len(up) + 1
      BY <1>5
    <3> QED
      BY <1>1, <1>2, <1>5, <1>7, <3>1, <3>2 DEF InStep
  <2>3. FormatsMatch' /\ ComingFits(Coming, client)'
    BY <1>1, <1>7, <2>1 DEF InStep, FormatsMatch, ComingFits
  <2>4. KicksInTurn'
    BY <1>1, <1>7 DEF InStep, KicksInTurn
  <2>5. StatesAgree(Coming, up, client)'
    <3>1. StatesAgree(Coming, up, client) /\ state \in States /\ (Configures' <=> Configures)
      BY <1>1, <1>7 DEF InStep, TaskTyped, Configures
    <3>2. CASE state = "play"
      BY <1>1, <3>1, <3>2 DEF StatesAgree
    <3>3. CASE state = "configuration"
      <4>1. Len(Coming) = 0
        BY <1>1, <3>1, <3>3 DEF StatesAgree
      <4>2. (OneSpeaks(Coming, up, client))'
        BY <1>1, <2>1, <4>1 DEF OneSpeaks
      <4> QED
        BY <1>1, <2>1, <3>1, <3>3, <4>1, <4>2 DEF StatesAgree
    <3>4. CASE state \in {"handshake", "status", "login"}
      BY <1>1, <3>1, <3>4 DEF StatesAgree
    <3> QED
      BY <3>1, <3>2, <3>3, <3>4 DEF States
  <2> QED
    BY <2>2, <2>3, <2>4, <2>5 DEF InStep
<1> QED
  BY <1>1, <1>6, <1>7

LEMMA ClientStaysInStep == ASSUME TaskTyped, UnderstoodInv, ClientStep PROVE UnderstoodInv'
<1>1. WireTyped /\ ~confused /\ (~Gone => InStep)
  BY DEF UnderstoodInv
<1>2. CASE ClientReadsPacket
  <2>1. WireTyped' /\ ~Gone
    BY <1>1, <1>2, ClientReadsTyped
  <2>2. UNCHANGED confused /\ (~Gone' => InStep')
    BY <1>1, <1>2, <2>1, ReadingStaysInStep
  <2> QED
    BY <1>1, <2>1, <2>2 DEF UnderstoodInv
<1>3. CASE ClientMoves
  <2>1. WireTyped' /\ UNCHANGED confused /\ (InStep => InStep')
    BY <1>1, <1>3, MovingStaysInStep
  <2>2. ~Gone
    BY <1>3 DEF ClientMoves, Gone
  <2> QED
    BY <1>1, <2>1, <2>2 DEF UnderstoodInv
<1>4. CASE ClientLeaves \/ ClientStalls
  <2>1. /\ client' = "closed" \/ (~reads' /\ client' = client)
        /\ UNCHANGED <<up, down, unpacks, packs, confused>>
    BY <1>4 DEF ClientLeaves, ClientStalls
  <2>2. WireTyped' /\ Gone'
    BY <1>1, <2>1 DEF WireTyped, Gone
  <2> QED
    BY <1>1, <2>1, <2>2 DEF UnderstoodInv
<1>5. CASE OthersComeOrGo
  <2>1. UNCHANGED <<client, reads, intent, version, confused, unpacks, packs, up, down, batch, state, kick, ticking, pc>>
    BY <1>5 DEF OthersComeOrGo, clientVars, stateVars
  <2> QED
    BY <1>1, <2>1, NothingHappens
<1> QED
  BY <1>2, <1>3, <1>4, <1>5 DEF ClientStep

(* A handler reads one packet of the client, whether it is still there.     *)
LEMMA HandlersTyped ==
  ASSUME WireTyped, HandleStep
  PROVE  WireTyped' /\ UNCHANGED <<client, reads, confused>>
<1>1. /\ up # <<>> /\ up' = Tail(up)
      /\ UNCHANGED <<client, reads, confused, unpacks, packs, down>>
  <2>1. ASSUME NEW name, Takes(name)
        PROVE  /\ up # <<>> /\ up' = Tail(up)
               /\ UNCHANGED <<client, reads, confused, unpacks, packs, down>>
    BY <2>1 DEF Takes, clientVars
  <2>2. (\E name : Takes(name)) \/ Unknown
    BY DEF HandleStep, Handshake, StatusRequest, PingRequest, LoginStart, CustomQueryAnswer, LoginAcknowledged,
       ServerBoundKnownPacks, AcknowledgeConfiguration, SetPlayerPosition
  <2> QED
    BY <2>1, <2>2 DEF Unknown, clientVars
<1>2. up' \in Seq(Packet)
  BY <1>1 DEF WireTyped
<1> QED
  BY <1>1, <1>2 DEF WireTyped

LEMMA HandlersKeepUnderstanding ==
  ASSUME TaskTyped, TaskTyped', UnderstoodInv, HandleStep
  PROVE  UnderstandsInv'
<1>1. WireTyped /\ ~confused /\ (~Gone => InStep)
  BY DEF UnderstoodInv
<1>2. WireTyped' /\ UNCHANGED <<client, reads, confused>>
  BY <1>1, HandlersTyped
<1>3. ~Gone /\ kick' # Full => InStep'
  BY <1>1, HandlersStayInStep
<1>4. ~Gone /\ kick' = Full => FullInv'
  BY <1>1, FullIsTold
<1> QED
  BY <1>1, <1>2, <1>3, <1>4 DEF UnderstandsInv, UnderstoodInv, Gone

(* Writing moves a packet from the batch to the socket, in the format that  *)
(* the client has come to when it reads it.                                *)
LEMMA WritingStaysInStep ==
  ASSUME TaskTyped, UnderstoodInv, EverythingEncodes, WritePacket
  PROVE  UnderstoodInv'
<1> DEFINE packet == [name |-> Head(batch), packed |-> packs]
<1>1. /\ batch # <<>> /\ batch \in Seq(Answered) /\ CanEncode(Head(batch), version)
      /\ WireTyped /\ ~confused /\ (~Gone => InStep)
  BY BatchHead DEF WritePacket, TaskTyped, UnderstoodInv
<1>2. /\ down' = Append(down, packet) /\ packs' = (packs \/ Head(batch) = "SetCompression") /\ batch' = Tail(batch)
      /\ UNCHANGED <<client, reads, intent, version, unpacks, confused, up, state, kick, ticking, pc>>
  BY <1>1 DEF WritePacket, taskRest, clientVars
<1>3. Head(batch) \in Answered
  BY <1>1
<1>4. Head(batch) \in Name /\ packet \in Packet /\ packet.name = Head(batch)
  BY <1>1, <1>3 DEF Name, Packet, WireTyped
<1>5. WireTyped'
  <2>1. down' \in Seq(Packet)
    BY <1>1, <1>2, <1>4 DEF WireTyped
  <2> QED
    BY <1>1, <1>2, <2>1 DEF WireTyped
<1>6. ASSUME ~Gone PROVE InStep'
  <2>1. FormatsMatch'
    BY <1>1, <1>2, <1>4, <1>6, FormatsAfterWriting DEF InStep
  <2>2. Coming' = Coming
    <3>1. down \in Seq(Packet)
      BY <1>1 DEF WireTyped
    <3> HIDE DEF packet
    <3>2. ToRead(Append(down, packet), Tail(batch)) = ToRead(down, batch)
      BY <1>1, <1>4, <3>1, WritingKeepsToRead
    <3> QED
      BY <1>2, <3>2 DEF Coming
  <2>3. KicksInTurn'
    BY <1>1, <1>2, <1>6, <2>2 DEF InStep, KicksInTurn
  <2> QED
    BY <1>1, <1>2, <1>6, <2>1, <2>2, <2>3, StillInStep
<1> QED
  BY <1>1, <1>2, <1>5, <1>6 DEF UnderstoodInv, Gone

(* A kick is told in the login, where the client waits for an answer.       *)
LEMMA KickingStaysInStep ==
  ASSUME TaskTyped, UnderstoodInv, KickClient
  PROVE  UnderstoodInv'
<1>1. /\ WireTyped /\ ~confused /\ (~Gone => InStep) /\ batch = <<>> /\ pc = "write" /\ kick # NoKick /\ pc' = "close"
      /\ UNCHANGED <<client, reads, intent, version, unpacks, confused, up, state, kick, ticking, batch, packs>>
  BY DEF KickClient, UnderstoodInv, taskRest, clientVars
<1>2. DisconnectPacket # <<>> => DisconnectPacket[1] \in Disconnects
  BY DEF DisconnectPacket, Disconnects
<1>3. \/ /\ DisconnectPacket # <<>>
         /\ down' = Append(down, [name |-> DisconnectPacket[1], packed |-> packs])
      \/ UNCHANGED down /\ (Gone \/ DisconnectPacket = <<>>)
  BY DEF KickClient, Gone
<1>4. WireTyped'
  <2>1. ASSUME NEW name \in Disconnects PROVE [name |-> name, packed |-> packs] \in Packet
    BY <1>1, <2>1 DEF Name, Packet, WireTyped
  <2>2. down' \in Seq(Packet)
    BY <1>1, <1>2, <1>3, <2>1 DEF WireTyped
  <2> QED
    BY <1>1, <2>2 DEF WireTyped
<1>5. ASSUME ~Gone PROVE InStep'
  <2>1. state = "login" /\ client = "login" /\ up = <<>> /\ Len(Coming) = 0 /\ InStep
    BY <1>1, <1>5 DEF InStep, KicksInTurn
  <2> DEFINE packet == [name |-> "LoginDisconnect", packed |-> packs]
  <2>2. DisconnectPacket[1] = "LoginDisconnect" /\ DisconnectPacket # <<>>
    BY <2>1 DEF DisconnectPacket
  <2>3. down' = Append(down, packet)
    BY <1>3, <1>5, <2>2
  <2>4. packet.name = "LoginDisconnect" /\ "LoginDisconnect" \in Name
    BY DEF Name, Disconnects
  <2>5. FormatsMatch'
    <3>1. PICK name \in Name : name = "LoginDisconnect"
      BY <2>4
    <3>2. packs' = (packs \/ name = "SetCompression")
      BY <1>1, <3>1 DEF WireTyped
    <3>3. down' = Append(down, [name |-> name, packed |-> packs])
      BY <2>3, <3>1
    <3>4. WireTyped /\ FormatsMatch /\ UNCHANGED unpacks
      BY <1>1, <2>1 DEF InStep
    <3> QED
      BY <3>2, <3>3, <3>4, FormatsAfterWriting
  <2>6. down = <<>>
    <3>1. down \in Seq(Packet) /\ batch \in Seq(Answered)
      BY <1>1 DEF WireTyped, TaskTyped
    <3>2. Len(Coming) = Len(down) + Len(batch)
      BY <3>1, ToReadIs DEF Coming
    <3>3. Len(down) \in Nat /\ Len(batch) = 0
      BY <1>1, <3>1
    <3>4. Len(down) = 0
      BY <2>1, <3>2, <3>3
    <3> QED
      BY <3>1, <3>4
  <2> HIDE DEF packet
  <2>7. Len(Coming') = 1 /\ Coming'[1] = "LoginDisconnect"
    <3>1. down' \in Seq(Packet) /\ batch' \in Seq(Answered) /\ Len(down') = 1 /\ Len(batch') = 0 /\ down'[1] = packet
      BY <1>1, <1>4, <2>3, <2>6 DEF WireTyped, TaskTyped
    <3>2. /\ Len(Coming') = Len(down') + Len(batch')
          /\ \A i \in 1..Len(down') + Len(batch') :
               Coming'[i] = IF i <= Len(down') THEN down'[i].name ELSE batch'[i - Len(down')]
      BY <3>1, ToReadIs DEF Coming
    <3> QED
      BY <2>4, <3>1, <3>2
  <2>8. "LoginDisconnect" \notin Ends /\ "LoginDisconnect" \in Told["login"] /\ "LoginDisconnect" \notin Welcomes
    BY DEF Ends, Welcomes, Told
  <2>9. ComingFits(Coming', client') /\ ~WelcomeComes(Coming')
    <3>1. \A i \in 1..Len(Coming') : Coming'[i] \in Told[client'] /\ Coming'[i] \notin Welcomes
      BY <1>1, <2>1, <2>7, <2>8
    <3> QED
      BY <2>7, <3>1, FitsWithoutWelcome
  <2>10. StatesAgree(Coming, up, client)'
    <3>1. (WelcomeComes(Coming))' <=> WelcomeComes(Coming')
      BY DEF WelcomeComes
    <3>2. (OneSpeaks(Coming, up, client))'
      BY <1>1, <2>1, <2>7, <2>8 DEF OneSpeaks
    <3>3. intent # "status"
      BY <2>1 DEF InStep, StatesAgree
    <3> QED
      BY <1>1, <2>1, <2>9, <3>1, <3>2, <3>3 DEF StatesAgree
  <2>11. KicksInTurn'
    BY <1>1 DEF KicksInTurn
  <2>12. \A i \in 1..Len(up') : up'[i].name \in Words[client']
    BY <1>1, <2>1
  <2> QED
    BY <2>5, <2>9, <2>10, <2>11, <2>12 DEF InStep
<1> QED
  BY <1>1, <1>4, <1>5 DEF UnderstoodInv, Gone

LEMMA WritersKeepUnderstanding ==
  ASSUME TaskTyped, UnderstoodInv, EverythingEncodes, WriteStep
  PROVE  UnderstoodInv'
<1>1. CASE WritePacket
  BY <1>1, WritingStaysInStep
<1>2. CASE KickClient
  BY <1>2, KickingStaysInStep
<1>3. CASE WriteFails \/ WriteTimesOut
  <2>1. Gone /\ UNCHANGED <<client, reads, confused, unpacks, packs, up, down>>
    BY <1>3 DEF WriteFails, WriteTimesOut, taskRest, clientVars, Gone
  <2> QED
    BY <2>1 DEF UnderstoodInv, WireTyped, Gone
<1>4. CASE FinishPacket
  <2>1. /\ pc = "write" /\ (ticking \/ kick = NoKick)
        /\ UNCHANGED <<client, reads, intent, version, confused, unpacks, packs, up, down, batch, state, kick>>
    BY <1>4 DEF FinishPacket, taskRest, clientVars
  <2>2. InStep => KicksInTurn'
    BY <2>1 DEF InStep, KicksInTurn
  <2>3. InStep => InStep'
    BY <2>1, <2>2, NothingMoves
  <2> QED
    BY <2>1, <2>3 DEF UnderstoodInv, WireTyped, Gone
<1> QED
  BY <1>1, <1>2, <1>3, <1>4 DEF WriteStep

(* The keep-alive comes when nothing else is under way.                     *)
LEMMA TickStaysInStep ==
  ASSUME TaskTyped, TaskTyped', UnderstoodInv, KeepAliveTick
  PROVE  UnderstoodInv'
<1>1. /\ pc = "select" /\ up = <<>> /\ (down = <<>> \/ Gone) /\ batch' = When(state = "play", <<"ClientBoundKeepAlive">>)
      /\ UNCHANGED <<client, reads, intent, version, confused, unpacks, packs, up, down, state, kick>>
  BY DEF KeepAliveTick, Answer, clientVars, stateVars, Gone
<1>2. WireTyped /\ ~confused /\ (~Gone => InStep) /\ batch = <<>>
  BY <1>1 DEF UnderstoodInv, TaskTyped
<1>3. WireTyped'
  BY <1>1, <1>2 DEF WireTyped
<1>4. ASSUME ~Gone PROVE InStep'
  <2>1. InStep /\ kick = NoKick /\ Coming = ToRead(down, <<>>) /\ Coming' = ToRead(down, batch')
    BY <1>1, <1>2, <1>4 DEF InStep, KicksInTurn, Coming
  <2>2. Len(Coming) = 0
    <3>1. down \in Seq(Packet) /\ batch \in Seq(Answered)
      BY <1>2 DEF WireTyped, TaskTyped
    <3>2. Len(Coming) = Len(down) + Len(batch)
      BY <3>1, ToReadIs DEF Coming
    <3> QED
      BY <1>1, <1>2, <1>4, <3>2
  <2>3. KicksInTurn'
    BY <1>1, <2>1 DEF KicksInTurn
  <2>4. CASE state # "play"
    <3>1. batch' = batch
      BY <1>1, <1>2, <2>4 DEF When
    <3> QED
      BY <1>1, <2>1, <2>3, <3>1, NothingMoves
  <2>5. CASE state = "play"
    <3>1. client = "play" /\ intent # "status"
      BY <2>1, <2>2, <2>5 DEF InStep, StatesAgree, WelcomeComes
    <3>2. Len(Coming') = Len(batch') /\ \A i \in 1..Len(Coming') : Coming'[i] = batch'[i]
      BY <1>2, <2>1, <2>2, AnswerToNothing
    <3>3. batch' = <<"ClientBoundKeepAlive">>
      BY <1>1, <2>5 DEF When
    <3>4. "ClientBoundKeepAlive" \in PlayAnswers /\ Told["play"] = PlayAnswers
      BY DEF Told, PlayAnswers
    <3>5. Len(Coming') = 1 /\ \A i \in 1..Len(Coming') : Coming'[i] \in Told["play"] /\ Coming'[i] \notin Welcomes
      BY <3>2, <3>3, <3>4, NotWelcomes
    <3>6. ComingFits(Coming', client')
      BY <1>1, <3>1, <3>5, FitsWithoutWelcome
    <3>7. StatesAgree(Coming, up, client)'
      BY <1>1, <2>5, <3>1 DEF StatesAgree
    <3>8. FormatsMatch' /\ \A i \in 1..Len(up') : up'[i].name \in Words[client']
      BY <1>1, <2>1 DEF InStep, FormatsMatch
    <3> QED
      BY <2>3, <3>6, <3>7, <3>8 DEF InStep
  <2> QED
    BY <2>4, <2>5
<1> QED
  BY <1>1, <1>2, <1>3, <1>4 DEF UnderstoodInv, Gone

LEMMA SelectKeepsUnderstanding ==
  ASSUME TaskTyped, TaskTyped', UnderstoodInv, SelectStep
  PROVE  UnderstoodInv'
<1>1. CASE KeepAliveTick
  BY <1>1, TickStaysInStep
<1>2. CASE TimePasses \/ IdleTimeout \/ EndOfStream \/ Release
  <2>1. /\ UNCHANGED <<client, reads, intent, version, confused, unpacks, packs, up, down, batch, state, kick, ticking>>
        /\ pc' = pc \/ pc' \in {"close", "released"}
    BY <1>2 DEF TimePasses, IdleTimeout, EndOfStream, Release, taskRest, clientVars, stateVars
  <2>2. InStep => KicksInTurn'
    BY <2>1 DEF InStep, KicksInTurn, Coming
  <2>3. InStep => InStep'
    BY <2>1, <2>2, NothingMoves
  <2> QED
    BY <2>1, <2>3 DEF UnderstoodInv, WireTyped, Gone
<1> QED
  BY <1>1, <1>2 DEF SelectStep

-------------------------------------------------------------------------------
(* The kick of a full lobby is on its way                                  *)

(* The client reads the welcome, and is in the game the kick is told in.    *)
LEMMA FullIsRead ==
  ASSUME WireTyped, TaskTyped, FullStream, ClientReadsPacket
  PROVE  WireTyped' /\ FullStream' /\ UNCHANGED confused
<1>1. /\ WireTyped' /\ down # <<>> /\ down' = Tail(down) /\ ~Gone
      /\ UNCHANGED <<batch, packs, version>>
  BY ClientReadsTyped
<1>2. FormatsMatch /\ ComingFits(Coming, client)
  BY DEF FullStream
<1>3. Head(down).name = Coming[1] /\ Understands(Head(down)) /\ Len(Coming) > 0
  BY <1>1, <1>2, FirstIsUnderstood
<1>4. /\ client' = StateAfter(Coming[1]) /\ UNCHANGED confused
      /\ unpacks' = (unpacks \/ Head(down).name = "SetCompression")
  BY <1>3 DEF ClientReadsPacket
<1>5. /\ Len(Coming) = Len(Coming') + 1 /\ Len(Coming') \in Nat
      /\ \A i \in 1..Len(Coming') : Coming'[i] = Coming[i + 1]
      /\ ComingFits(Coming', IF Coming[1] \in Welcomes THEN "play" ELSE client)
  BY <1>1, <1>2, ComingAfterReading
<1>6. Coming[1] \in Welcomes \cup {"SetCompression"} /\ ~Configures
  <2>1. 1 \in 1..Len(Coming)
    BY <1>5
  <2> QED
    BY <1>5, <2>1 DEF FullStream
<1>7. client' = IF Coming[1] \in Welcomes THEN "play" ELSE client
  <2>1. "SetCompression" \notin Welcomes \cup {"FinishConfiguration", "PongResponse"} \cup Disconnects
    BY DEF Welcomes, Disconnects
  <2> QED
    BY <1>4, <1>6, <2>1, StatesAfter
<1>8. ComingFits(Coming', client')
  BY <1>5, <1>7
<1>9. FormatsMatch'
  BY <1>1, <1>2, <1>4, FormatsAfterReading
<1>10. \A i \in 1..Len(Coming') : Coming'[i] \in Welcomes \cup {"SetCompression"}
  <2>1. \A i \in 1..Len(Coming') : i + 1 \in 1..Len(Coming)
    BY <1>5
  <2> QED
    BY <1>5, <2>1 DEF FullStream
<1>11. ~Configures'
  BY <1>1, <1>6 DEF Configures
<1> QED
  BY <1>1, <1>4, <1>8, <1>9, <1>10, <1>11 DEF FullStream

LEMMA StillFull ==
  ASSUME FullStream, UNCHANGED <<client, version>>, Coming' = Coming, FormatsMatch'
  PROVE  FullStream'
<1>1. Configures' <=> Configures
  BY DEF Configures
<1> QED
  BY <1>1 DEF FullStream, ComingFits

LEMMA NothingOfTheKick ==
  ASSUME FullStream, UNCHANGED <<client, version, unpacks, packs, down, batch>>
  PROVE  FullStream'
<1>1. Coming' = Coming
  BY DEF Coming
<1>2. FormatsMatch'
  BY DEF FullStream, FormatsMatch
<1> QED
  BY <1>1, <1>2, StillFull

LEMMA ClientAwaitsKick == ASSUME TaskTyped, FullInv, ClientStep PROVE FullInv'
<1>1. UNCHANGED <<kick, pc, ticking, batch, packs>>
  BY ClientStepKeeps DEF stateVars
<1>2. CASE pc \in {"close", "released"}
  BY <1>1, <1>2 DEF FullInv
<1>3. CASE pc = "write" /\ ~ticking /\ ~confused /\ WireTyped /\ (~Gone => FullStream)
  <2>1. CASE ClientReadsPacket
    <3>1. FullStream
      BY <1>3, <2>1 DEF ClientReadsPacket, Gone
    <3>2. WireTyped' /\ FullStream' /\ UNCHANGED confused
      BY <1>3, <2>1, <3>1, FullIsRead
    <3> QED
      BY <1>1, <1>3, <3>2 DEF FullInv
  <2>2. CASE ClientMoves
    <3>1. WireTyped' /\ UNCHANGED confused /\ FullStream
      BY <1>3, <2>2, MovingStaysInStep DEF ClientMoves, Gone
    <3>2. UNCHANGED <<client, version, unpacks, down>>
      BY <2>2 DEF ClientMoves
    <3>3. FullStream'
      BY <1>1, <3>1, <3>2, NothingOfTheKick
    <3> QED
      BY <1>1, <1>3, <3>1, <3>3 DEF FullInv
  <2>3. CASE ClientLeaves \/ ClientStalls
    <3>1. /\ client' = "closed" \/ (~reads' /\ client' = client)
          /\ UNCHANGED <<up, down, unpacks, packs, confused>>
      BY <2>3 DEF ClientLeaves, ClientStalls
    <3>2. WireTyped' /\ Gone'
      BY <1>3, <3>1 DEF WireTyped, Gone
    <3> QED
      BY <1>1, <1>3, <3>1, <3>2 DEF FullInv
  <2>4. CASE OthersComeOrGo
    <3>1. UNCHANGED <<client, reads, version, confused, unpacks, packs, up, down, batch>>
      BY <2>4 DEF OthersComeOrGo, clientVars
    <3>2. FullStream => FullStream'
      BY <3>1, NothingOfTheKick
    <3> QED
      BY <1>1, <1>3, <3>1, <3>2 DEF FullInv, WireTyped, Gone
  <2> QED
    BY <2>1, <2>2, <2>3, <2>4 DEF ClientStep
<1> QED
  BY <1>2, <1>3 DEF FullInv

(* What the kick waits for is written, and the kick ends the connection.    *)
LEMMA WritersTellKick ==
  ASSUME TaskTyped, FullInv, EverythingEncodes, WriteStep
  PROVE  UnderstandsInv'
<1>1. /\ pc = "write" /\ kick = Full /\ kick # NoKick /\ ~ticking /\ ~confused /\ WireTyped
      /\ ~Gone => FullStream
  <2>1. pc = "write"
    BY DEF WriteStep, WritePacket, WriteFails, WriteTimesOut, KickClient, FinishPacket
  <2> QED
    BY <2>1 DEF FullInv, Full, NoKick
<1>2. CASE WritePacket
  <2> DEFINE packet == [name |-> Head(batch), packed |-> packs]
  <2>1. /\ batch # <<>> /\ batch \in Seq(Answered) /\ CanEncode(Head(batch), version)
    BY <1>2, BatchHead DEF WritePacket, TaskTyped
  <2>2. /\ down' = Append(down, packet) /\ packs' = (packs \/ Head(batch) = "SetCompression") /\ batch' = Tail(batch)
        /\ UNCHANGED <<client, reads, version, unpacks, confused, up, kick, ticking, pc>>
    BY <1>2, <2>1 DEF WritePacket, taskRest, clientVars
  <2>3. Head(batch) \in Answered
    BY <2>1
  <2>4. Head(batch) \in Name /\ packet \in Packet /\ packet.name = Head(batch)
    BY <1>1, <2>3 DEF Name, Packet, WireTyped
  <2>5. WireTyped'
    <3>1. down' \in Seq(Packet)
      BY <1>1, <2>2, <2>4 DEF WireTyped
    <3> QED
      BY <1>1, <2>2, <3>1 DEF WireTyped
  <2>6. ASSUME FullStream PROVE FullStream'
    <3>1. FormatsMatch'
      BY <1>1, <2>2, <2>4, <2>6, FormatsAfterWriting DEF FullStream
    <3>2. Coming' = Coming
      <4>1. down \in Seq(Packet)
        BY <1>1 DEF WireTyped
      <4> HIDE DEF packet
      <4>2. ToRead(Append(down, packet), Tail(batch)) = ToRead(down, batch)
        BY <2>1, <2>4, <4>1, WritingKeepsToRead
      <4> QED
        BY <2>2, <4>2 DEF Coming
    <3> QED
      BY <2>2, <2>6, <3>1, <3>2, StillFull
  <2> QED
    BY <1>1, <2>2, <2>5, <2>6 DEF UnderstandsInv, FullInv, Gone
<1>3. CASE WriteFails
  <2>1. Gone /\ UNCHANGED <<client, reads, confused, unpacks, packs, up, down>>
    BY <1>3 DEF WriteFails, taskRest, clientVars, Gone
  <2> QED
    BY <1>1, <2>1 DEF UnderstandsInv, UnderstoodInv, WireTyped, Gone
<1>4. CASE WriteTimesOut \/ KickClient
  <2>1. pc' = "close" /\ UNCHANGED kick
    BY <1>4 DEF WriteTimesOut, KickClient, taskRest
  <2> QED
    BY <1>1, <2>1 DEF UnderstandsInv, FullInv
<1>5. ~FinishPacket
  BY <1>1 DEF FinishPacket
<1> QED
  BY <1>2, <1>3, <1>4, <1>5 DEF WriteStep

LEMMA TaskEndsKick == ASSUME FullInv, HandleStep \/ SelectStep PROVE FullInv'
<1>1. pc # "select" /\ kick = Full
  BY DEF FullInv
<1>2. ~HandleStep
  BY <1>1 DEF HandleStep, Handshake, StatusRequest, PingRequest, LoginStart, CustomQueryAnswer, LoginAcknowledged,
     ServerBoundKnownPacks, AcknowledgeConfiguration, SetPlayerPosition, Unknown, Takes
<1>3. TimePasses \/ Release
  BY <1>1, <1>2 DEF SelectStep, KeepAliveTick, IdleTimeout, EndOfStream
<1>4. CASE TimePasses
  <2>1. UNCHANGED <<client, reads, version, confused, unpacks, packs, up, down, batch, kick, ticking, pc>>
    BY <1>4 DEF TimePasses, clientVars, stateVars
  <2>2. FullStream => FullStream'
    BY <2>1, NothingOfTheKick
  <2> QED
    BY <2>1, <2>2 DEF FullInv, WireTyped, Gone
<1>5. CASE Release
  BY <1>1, <1>5 DEF Release, FullInv
<1> QED
  BY <1>3, <1>4, <1>5

-------------------------------------------------------------------------------
LEMMA UnderstoodInitially == Init => UnderstandsInv
<1> SUFFICES ASSUME Init PROVE UnderstandsInv
  OBVIOUS
<1>1. /\ client = (IF intent = "status" THEN "status" ELSE "login") /\ unpacks = FALSE /\ packs = FALSE /\ ~confused
      /\ down = <<>> /\ batch = <<>> /\ state = "handshake" /\ kick = NoKick
      /\ intent \in Intents
  BY DEF Init
<1> DEFINE second == IF intent = "status" THEN "StatusRequest" ELSE "LoginStart"
<1>2. /\ up = [i \in 1..2 |-> [name |-> IF i = 1 THEN "Handshake" ELSE second, packed |-> FALSE]]
  BY DEF Init
<1>3. "Handshake" \in Words[client] /\ second \in Words[client] /\ client \in {"status", "login"}
  BY <1>1 DEF Words
<1>4. \A i \in 1..2 : up[i].name \in Words[client] /\ up[i] \in Packet
  <2>1. "Handshake" \in Name /\ second \in Name
    BY <1>3, WordsAreNames
  <2> HIDE DEF second
  <2> QED
    BY <1>2, <1>3, <2>1 DEF Packet
<1>5. up \in Seq(Packet) /\ Len(up) = 2
  <2>1. up \in [1..2 -> Packet]
    BY <1>2, <1>4
  <2> QED
    BY <2>1, FunctionIsSequence
<1>6. down \in Seq(Packet) /\ Len(Coming) = 0
  <2>1. down \in Seq(Packet) /\ batch \in Seq(Answered) /\ Len(down) = 0 /\ Len(batch) = 0
    BY <1>1, NoneTyped
  <2>2. Len(Coming) = Len(down) + Len(batch)
    BY <2>1, ToReadIs DEF Coming
  <2> QED
    BY <2>1, <2>2
<1>7. WireTyped
  BY <1>1, <1>3, <1>5, <1>6 DEF WireTyped
<1>8. FormatsMatch
  BY <1>1 DEF FormatsMatch
<1>9. ComingFits(Coming, client) /\ ~WelcomeComes(Coming)
  BY <1>6 DEF ComingFits, WelcomeComes
<1>10. StatesAgree(Coming, up, client)
  BY <1>1, <1>3, <1>5, <1>6, <1>9 DEF StatesAgree
<1>11. KicksInTurn
  BY <1>1 DEF KicksInTurn
<1> QED
  BY <1>1, <1>4, <1>5, <1>7, <1>8, <1>9, <1>10, <1>11 DEF UnderstandsInv, UnderstoodInv, InStep

LEMMA UnderstoodStep ==
  InPlayInv /\ InPlayInv' /\ UnderstandsInv /\ EverythingEncodes /\ [Next]_vars => UnderstandsInv'
<1> SUFFICES ASSUME InPlayInv, InPlayInv', UnderstandsInv, EverythingEncodes, [Next]_vars PROVE UnderstandsInv'
  OBVIOUS
<1>1. TaskTyped /\ TaskTyped'
  BY DEF InPlayInv
<1>2. CASE UNCHANGED vars
  <2>1. UNCHANGED <<client, reads, intent, version, confused, unpacks, packs, up, down, batch, state, kick, ticking, pc>>
    BY <1>2 DEF vars, clientVars, stateVars
  <2>2. UnderstoodInv => UnderstoodInv'
    BY <2>1, NothingHappens
  <2>3. FullStream => FullStream'
    BY <2>1, NothingOfTheKick
  <2>4. FullInv => FullInv'
    BY <2>1, <2>3 DEF FullInv, WireTyped, Gone
  <2> QED
    BY <2>2, <2>4 DEF UnderstandsInv
<1>3. CASE Next /\ UnderstoodInv
  BY <1>1, <1>3, ClientStaysInStep, HandlersKeepUnderstanding, WritersKeepUnderstanding, SelectKeepsUnderstanding
  DEF Next, UnderstandsInv
<1>4. CASE Next /\ FullInv
  BY <1>1, <1>4, ClientAwaitsKick, WritersTellKick, TaskEndsKick DEF Next, UnderstandsInv
<1> QED
  BY <1>2, <1>3, <1>4 DEF UnderstandsInv

(* Whatever the server sends, the client reads in the state and in the      *)
(* format it was sent for: the compression, the login's answers, the end of *)
(* the configuration and the keep-alives never cross, however the socket    *)
(* delays them.  Only the kick of a lobby that has filled up may.           *)
THEOREM EverythingIsUnderstood == Spec => []Understood
<1>1. UnderstandsInv => Understood
  BY DEF UnderstandsInv, UnderstoodInv, FullInv, Full, Understood
<1> QED
  BY <1>1, EverythingIsEncoded, InPlayInitially, InPlayStep, UnderstoodInitially, UnderstoodStep, PTL DEF Spec

==============================================================================
