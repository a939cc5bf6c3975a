---------------------------- MODULE PacketIds ----------------------------
(***************************************************************************)
(* The packet numbers of the protocol versions: derive(PacketReport) over   *)
(* enum PacketRegistry (crates/macros/src/packet_reports.rs,                *)
(* server/packet_registry.rs).  A packet's number is the one of the report  *)
(* its version uses or, when that report does not name the packet, the      *)
(* override written into the macro.                                         *)
(*                                                                          *)
(* A table gives a packet the sequence <<r1, id1, r2, id2, ...>>: from the  *)
(* report r1 on it has the number id1, from r2 on id2; NA is no number.     *)
(***************************************************************************)
EXTENDS Integers, Sequences, FiniteSets, FiniteSetsExt, SequencesExt

NA == -1

(* ProtocolVersion: the supported protocol numbers *)
SupportedVersions ==
  {4, 5, 47, 210, 315, 316, 335, 338, 340, 393, 401, 404, 477, 480, 485, 490, 498, 573, 575, 578,
   735, 736, 751} \cup 107..110 \cup 753..777

(* data/generated: the versions that have a packet report *)
Reports == {4, 47, 107, 210, 315, 335, 338, 393, 477, 573, 735, 751, 755, 757, 773, 775, 776, 777}
             \cup 759..771

(* ProtocolVersion::packets(): the report a version uses, its own or the
   last one before it; 1.9.3 (110) uses the one of 1.10 *)
Report(v) == IF v = 110 THEN 210 ELSE Max({r \in Reports : r <= v})

(* The reports: the packets before play *)
ReportedBeforePlay ==
  [Handshake |-> <<4,0>>,
   StatusRequest |-> <<4,0>>,
   StatusResponse |-> <<4,0>>,
   PingRequest |-> <<4,1>>,
   PongResponse |-> <<4,1>>,
   LoginStart |-> <<4,0>>,
   LoginAcknowledged |-> <<4,3>>,
   CustomQueryAnswer |-> <<4,2>>,
   CustomQuery |-> <<4,4>>,
   LoginSuccess |-> <<768,2>>,
   GameProfile |-> <<4,2, 768,NA>>,
   LoginDisconnect |-> <<4,0>>,
   SetCompression |-> <<47,3>>,
   AcknowledgeConfiguration |-> <<764,2, 766,3>>,
   ConfigurationClientBoundPluginMessage |-> <<764,0, 766,1>>,
   ClientBoundKnownPacks |-> <<766,14, 777,15>>,
   ServerBoundKnownPacks |-> <<767,7>>,
   ConfigurationClientInformation |-> <<767,0>>,
   RegistryData |-> <<764,5, 766,7>>,
   UpdateTags |-> <<767,13, 777,14>>,
   FinishConfiguration |-> <<764,2, 766,3>>,
   ConfigurationDisconnect |-> <<764,1, 766,2>>]

(* The reports: the packets of play to the client *)
ReportedClientbound ==
  [Login |-> <<4,1, 107,35, 393,37, 573,38, 735,37, 751,36, 755,38, 759,35, 760,37, 761,36, 762,40,
      764,41, 766,43, 768,44, 770,43, 773,48, 775,49, 777,50>>,
   SynchronizePlayerPosition |-> <<4,8, 107,46, 338,47, 393,50, 477,53, 573,54, 735,53, 751,52,
      755,56, 759,54, 760,57, 761,56, 762,60, 764,62, 766,64, 768,66, 770,65, 773,70, 775,72,
      777,73>>,
   SetDefaultSpawnPosition |-> <<751,66, 755,75, 759,74, 760,77, 761,76, 762,80, 764,82, 765,84,
      766,86, 768,91, 770,90, 773,95, 775,97, 777,99>>,
   Commands |-> <<393,17, 573,18, 735,17, 751,16, 755,18, 759,15, 761,14, 762,16, 764,17, 770,16>>,
   GameEvent |-> <<765,32, 766,34, 768,35, 770,34, 773,38, 777,39>>,
   SetCenterChunk |-> <<759,72, 760,75, 761,74, 762,78, 764,80, 765,82, 766,84, 768,88, 770,87,
      773,92, 775,94, 777,96>>,
   ChunkDataAndUpdateLight |-> <<4,33, 107,32, 393,34, 477,33, 573,34, 735,33, 751,32, 755,34,
      759,31, 760,33, 761,32, 762,36, 764,37, 766,39, 768,40, 770,39, 773,44, 775,45, 777,46>>,
   LightUpdate |-> <<735,36, 751,35, 755,37, 757,NA, 767,42, 768,43, 770,42, 773,47, 775,48,
      777,49>>,
   PlayClientBoundPluginMessage |-> <<393,25, 477,24, 573,25, 735,24, 751,23, 755,24, 759,21,
      760,22, 761,21, 762,23, 764,24, 766,25, 770,24>>,
   SystemChatMessage |-> <<759,95, 760,98, 761,96, 762,100, 764,103, 765,105, 766,108, 768,115,
      770,114, 773,119, 775,121, 777,124>>,
   ServerData |-> <<759,63, 760,66, 761,NA, 767,75, 768,80, 770,79, 773,84, 775,86, 777,88>>,
   LegacyChatMessage |-> <<4,2, 107,15, 393,14, 573,15, 735,14, 755,15, 759,NA>>,
   ClientBoundKeepAlive |-> <<4,0, 107,31, 393,33, 477,32, 573,33, 735,32, 751,31, 755,33, 759,30,
      760,32, 761,31, 762,35, 764,36, 766,38, 768,39, 770,38, 773,43, 775,44, 777,45>>,
   PlayDisconnect |-> <<4,64, 107,26, 393,27, 477,26, 573,27, 735,26, 751,27, 755,26, 759,23,
      760,25, 761,23, 762,26, 764,27, 766,29, 770,28, 773,32>>,
   UpdateTime |-> <<4,3, 107,68, 335,70, 338,71, 393,74, 477,78, 573,79, 735,78, 755,88, 757,89,
      760,92, 761,90, 762,94, 764,96, 765,98, 766,100, 768,107, 770,106, 773,111, 775,113, 777,115>>,
   SetObjective |-> <<767,94, 768,100, 770,99, 773,104, 775,106, 777,108>>,
   SetDisplayObjective |-> <<767,87, 768,92, 770,91, 773,96, 775,98, 777,100>>,
   SetScore |-> <<767,97, 768,104, 770,103, 773,108, 775,110, 777,112>>,
   SetPlayerTeam |-> <<767,96, 768,103, 770,102, 773,107, 775,109, 777,111>>,
   TabList |-> <<47,71, 107,72, 210,71, 335,73, 338,74, 393,78, 477,83, 573,84, 735,83, 755,94,
      757,95, 759,96, 760,99, 761,97, 762,101, 764,104, 765,106, 766,109, 768,116, 770,115, 773,120,
      775,122, 777,125>>,
   PlayerInfoUpdate |-> <<4,56, 107,45, 338,46, 393,48, 477,51, 573,52, 735,51, 751,50, 755,54,
      759,52, 760,55, 761,54, 762,58, 764,60, 766,62, 768,64, 770,63, 773,68, 775,70, 777,71>>,
   PlayerInfoRemove |-> <<767,61, 768,63, 770,62, 773,67, 775,69, 777,70>>,
   RemoveEntities |-> <<767,66, 768,71, 770,70, 773,75, 775,77, 777,78>>,
   DestroyEntities |-> <<4,19, 107,48, 335,49, 338,50, 393,53, 477,55, 573,56, 735,55, 751,54,
      755,58, 762,62, 763,64, 766,66, 767,NA>>,
   MoveEntityPos |-> <<4,21, 107,37, 335,38, 393,40, 573,41, 735,40, 751,39, 755,41, 759,38,
      760,40, 761,39, 762,43, 764,44, 766,46, 768,47, 770,46, 773,51, 775,53, 777,54>>,
   MoveEntityPosRot |-> <<4,23, 107,38, 335,39, 393,41, 573,42, 735,41, 751,40, 755,42, 759,39,
      760,41, 761,40, 762,44, 764,45, 766,47, 768,48, 770,47, 773,52, 775,54, 777,55>>,
   MoveEntityRot |-> <<4,22, 107,39, 335,40, 393,42, 573,43, 735,42, 751,41, 755,43, 759,40,
      760,42, 761,41, 762,45, 764,46, 766,48, 768,50, 770,49, 773,54, 775,56, 777,57>>,
   RotateHead |-> <<4,25, 107,52, 335,53, 338,54, 393,57, 477,59, 573,60, 735,59, 751,58, 755,62,
      759,60, 760,63, 761,62, 762,66, 764,68, 765,70, 766,72, 768,77, 770,76, 773,81, 775,83,
      777,85>>,
   Animate |-> <<767,3, 770,2>>,
   SwingAnimation |-> <<777,123>>,
   SetEntityMetadata |-> <<4,28, 107,57, 335,59, 338,60, 393,63, 477,67, 573,68, 755,77, 760,80,
      761,78, 762,82, 764,84, 765,86, 766,88, 768,93, 770,92, 773,97, 775,99, 777,101>>,
   SpawnEntity |-> <<764,1>>,
   SpawnPlayer |-> <<4,12, 107,5, 735,4, 759,2, 762,3, 764,NA>>,
   EntityPositionSync |-> <<768,32, 770,31, 773,35>>,
   TeleportEntity |-> <<4,24, 107,74, 210,73, 335,75, 338,76, 393,80, 477,86, 573,87, 735,86,
      755,97, 757,98, 759,99, 760,102, 761,100, 762,104, 764,107, 765,109, 766,112, 768,119, 770,118,
      773,123, 775,125, 777,128>>,
   BossBar |-> <<107,12, 573,13, 735,12, 755,13, 759,10, 762,11, 764,10, 770,9>>,
   SetTitleText |-> <<755,89, 757,90, 760,93, 761,91, 762,95, 764,97, 765,99, 766,101, 768,108,
      770,107, 773,112, 775,114, 777,116>>,
   SetTitlesAnimation |-> <<755,90, 757,91, 760,94, 761,92, 762,96, 764,98, 765,100, 766,102,
      768,109, 770,108, 773,113, 775,115, 777,117>>,
   SetSubtitleText |-> <<755,87, 757,88, 760,91, 761,89, 762,93, 764,95, 765,97, 766,99, 768,106,
      770,105, 773,110, 775,112, 777,114>>,
   LegacySetTitle |-> <<47,69, 335,71, 338,72, 393,75, 477,79, 573,80, 735,79, 755,NA>>,
   SetActionBarText |-> <<755,65, 759,64, 760,67, 761,66, 762,70, 764,72, 765,74, 766,76, 768,81,
      770,80, 773,85, 775,87, 777,89>>,
   Transfer |-> <<766,115, 768,122, 773,127, 775,129, 777,132>>,
   ClientBoundPlayerAbilities |-> <<4,57, 107,43, 338,44, 393,46, 477,49, 573,50, 735,49, 751,48,
      755,50, 759,47, 760,49, 761,48, 762,52, 764,54, 766,56, 768,58, 770,57, 773,62, 775,64,
      777,65>>,
   SetContainerSlot |-> <<767,21, 770,20>>,
   OpenScreen |-> <<767,51, 768,53, 770,52, 773,57, 775,59, 777,60>>,
   SetContainerContent |-> <<767,19, 770,18>>,
   ClientBoundCloseContainer |-> <<767,18, 770,17>>]

(* The reports: the packets of play to the server *)
ReportedServerbound ==
  [SetPlayerPosition |-> <<4,4, 107,12, 335,14, 338,13, 393,16, 477,17, 735,18, 755,17, 759,19,
      760,20, 761,19, 762,20, 764,22, 765,23, 766,26, 768,28, 771,29, 775,30>>,
   SetPlayerPositionAndRotation |-> <<4,6, 107,13, 335,15, 338,14, 393,17, 477,18, 735,19, 755,18,
      759,20, 760,21, 761,20, 762,21, 764,23, 765,24, 766,27, 768,29, 771,30, 775,31>>,
   SetPlayerRotation |-> <<767,28, 768,30, 771,31, 775,32>>,
   ChatCommand |-> <<759,3, 760,4, 768,5, 771,6, 775,7>>,
   ChatMessage |-> <<4,1, 107,2, 335,3, 338,2, 477,3, 759,4, 760,5, 766,6, 768,7, 771,8, 775,9>>,
   PlayClientInformation |-> <<767,10, 768,12, 771,13, 775,14>>,
   ServerBoundPlayerAbilities |-> <<4,19, 107,18, 335,19, 393,23, 477,19, 573,25, 735,26, 755,25,
      759,27, 760,28, 761,27, 762,28, 764,31, 765,32, 766,35, 768,37, 769,38, 771,39, 775,40>>,
   PlayerCommand |-> <<4,11, 107,NA, 335,21, 393,NA, 762,30, 763,NA, 766,37, 768,39, 769,40,
      771,41, 775,42>>,
   PlayerInput |-> <<767,38, 768,40, 769,41, 771,42, 775,43>>,
   ClickContainer |-> <<767,14, 768,16, 771,17, 775,18>>,
   CloseContainer |-> <<767,15, 768,17, 771,18, 775,19>>,
   PlayerAction |-> <<767,36, 768,38, 769,39, 771,40, 775,41>>,
   Interact |-> <<767,22, 768,24, 771,25, 775,26>>,
   Attack |-> <<775,1>>,
   Swing |-> <<767,54, 768,56, 769,58, 770,59, 771,60, 775,63, 777,NA>>,
   Punch |-> <<777,46>>,
   ServerBoundSetHeldItem |-> <<767,47, 768,49, 769,51, 771,52, 775,53, 777,54>>,
   UseItem |-> <<767,57, 768,59, 769,61, 770,63, 771,64, 775,67>>]

(* clientbound_packet_id_override; it looks at the name only, so the
   plugin message of the configuration state has the number as well *)
ClientboundOverride ==
  [LightUpdate |-> <<477,36, 573,37, 735,NA>>,
   PlayClientBoundPluginMessage |-> <<4,63, 107,24, 393,NA>>,
   ConfigurationClientBoundPluginMessage |-> <<4,63, 107,24, 393,NA>>,
   SetObjective |-> <<4,59, 107,63, 335,65, 338,66, 393,69, 477,73, 573,74, 755,83, 759,88, 764,90,
      765,92, 766,94, 767,NA>>,
   SetDisplayObjective |-> <<4,61, 107,56, 335,58, 338,59, 393,62, 477,66, 573,67, 755,76, 759,81,
      764,83, 765,85, 766,87, 767,NA>>,
   SetScore |-> <<4,60, 107,66, 335,68, 338,69, 393,72, 477,76, 573,77, 755,86, 759,91, 764,93,
      765,95, 766,97, 767,NA>>,
   SetPlayerTeam |-> <<4,62, 107,65, 335,67, 338,68, 393,71, 477,75, 573,76, 755,85, 759,90,
      764,92, 765,94, 766,96, 767,NA>>,
   PlayerInfoRemove |-> <<761,53, 762,57, 764,59, 766,61, 767,NA>>,
   Animate |-> <<4,11, 107,6, 393,4, 764,3, 767,NA>>,
   SetContainerSlot |-> <<4,47, 107,22, 393,23, 477,22, 573,23, 735,22, 751,21, 755,22, 759,19,
      761,18, 762,20, 764,21, 767,NA>>,
   OpenScreen |-> <<4,45, 107,19, 393,20, 477,46, 573,47, 735,46, 751,45, 755,46, 759,43, 760,45,
      761,44, 762,48, 764,49, 766,51, 767,NA>>,
   SetContainerContent |-> <<4,48, 107,20, 393,21, 477,20, 573,21, 735,20, 751,19, 755,20, 759,17,
      761,16, 762,18, 764,19, 767,NA>>,
   ClientBoundCloseContainer |-> <<4,46, 107,18, 393,19, 573,20, 735,19, 751,18, 755,19, 759,16,
      761,15, 762,17, 764,18, 767,NA>>,
   ClientBoundConfirmTransaction |-> <<4,50, 107,17, 393,NA>>]

(* serverbound_packet_id_override *)
ServerboundOverride ==
  [SetPlayerRotation |-> <<4,5, 107,14, 335,16, 338,15, 393,18, 477,19, 735,20, 755,19, 759,21,
      760,22, 761,21, 762,22, 764,24, 765,25, 766,28, 767,NA>>,
   ClickContainer |-> <<4,14, 107,7, 335,8, 338,7, 393,8, 477,9, 755,8, 759,10, 760,11, 761,10,
      762,11, 764,13, 766,14, 767,NA>>,
   CloseContainer |-> <<4,13, 107,8, 335,9, 338,8, 393,9, 477,10, 755,9, 759,11, 760,12, 761,11,
      762,12, 764,14, 766,15, 767,NA>>,
   ServerBoundConfirmTransaction |-> <<4,15, 107,5, 393,NA>>,
   PlayerAction |-> <<4,7, 107,19, 335,20, 393,24, 477,26, 735,27, 755,26, 759,28, 762,29, 764,32,
      765,33, 766,36, 767,NA>>,
   Interact |-> <<4,2, 107,10, 393,13, 477,14, 755,13, 759,15, 760,16, 761,15, 762,16, 764,18,
      765,19, 766,22, 767,NA>>,
   Swing |-> <<4,10, 107,26, 210,29, 393,30, 477,42, 735,43, 751,44, 759,46, 760,47, 764,NA,
      766,54, 767,NA>>,
   ServerBoundSetHeldItem |-> <<4,9, 107,23, 335,26, 393,33, 477,35, 735,36, 751,37, 759,39,
      760,40, 764,43, 765,44, 766,47, 767,NA>>,
   UseItem |-> <<107,29, 335,32, 393,42, 477,45, 735,46, 751,47, 759,49, 760,50, 764,53, 765,54,
      766,57, 767,NA>>,
   LegacyUseItem |-> <<4,8, 107,NA>>]

Reported == ReportedBeforePlay @@ ReportedClientbound @@ ReportedServerbound
Override == ClientboundOverride @@ ServerboundOverride

(* The number a table gives a packet at the report r *)
Lookup(table, p, r) ==
  IF p \notin DOMAIN table THEN NA
  ELSE LET from == {i \in 1..Len(table[p]) : i % 2 = 1 /\ table[p][i] <= r}
       IN  IF from = {} THEN NA ELSE table[p][Max(from) + 1]

(* As PacketId, with overrides nobody brought up to date for the report *)
PacketId_StaleOverride(p, v) ==
  LET reported == Lookup(Reported, p, Report(v))
  IN  IF reported # NA THEN reported ELSE Lookup(Override, p, Report(v) - 1)

(* The number of packet p for a client of version v *)
PacketId(p, v) ==
  LET reported == Lookup(Reported, p, Report(v))
  IN  IF reported # NA THEN reported ELSE Lookup(Override, p, Report(v))

(* The variants of enum PacketRegistry with their states, in its order *)
Serverbound ==
  [handshake |-> <<"Handshake">>,
   status |-> <<"StatusRequest", "PingRequest">>,
   login |-> <<"LoginStart", "LoginAcknowledged", "CustomQueryAnswer">>,
   configuration |-> <<"AcknowledgeConfiguration", "ServerBoundKnownPacks", "ConfigurationClientInformation">>,
   play |-> <<"SetPlayerPosition", "SetPlayerPositionAndRotation", "SetPlayerRotation", "ChatCommand",
      "ChatMessage", "PlayClientInformation", "ServerBoundPlayerAbilities", "PlayerCommand",
      "PlayerInput", "ClickContainer", "CloseContainer", "ServerBoundConfirmTransaction",
      "PlayerAction", "Interact", "Attack", "Swing", "Punch", "ServerBoundSetHeldItem",
      "UseItem", "LegacyUseItem">>]
Clientbound ==
  [handshake |-> <<>>,
   status |-> <<"StatusResponse", "PongResponse">>,
   login |-> <<"CustomQuery", "LoginSuccess", "GameProfile", "LoginDisconnect", "SetCompression">>,
   configuration |-> <<"ConfigurationClientBoundPluginMessage", "ClientBoundKnownPacks", "RegistryData",
      "UpdateTags", "FinishConfiguration", "ConfigurationDisconnect">>,
   play |-> <<"Login", "SynchronizePlayerPosition", "SetDefaultSpawnPosition", "Commands", "GameEvent",
      "SetCenterChunk", "ChunkDataAndUpdateLight", "LightUpdate",
      "PlayClientBoundPluginMessage", "SystemChatMessage", "ServerData", "LegacyChatMessage",
      "ClientBoundKeepAlive", "PlayDisconnect", "UpdateTime", "SetObjective",
      "SetDisplayObjective", "SetScore", "SetPlayerTeam", "TabList", "PlayerInfoUpdate",
      "PlayerInfoRemove", "RemoveEntities", "DestroyEntities", "MoveEntityPos",
      "MoveEntityPosRot", "MoveEntityRot", "RotateHead", "Animate", "SwingAnimation",
      "SetEntityMetadata", "SpawnEntity", "SpawnPlayer", "EntityPositionSync", "TeleportEntity",
      "BossBar", "SetTitleText", "SetTitlesAnimation", "SetSubtitleText", "LegacySetTitle",
      "SetActionBarText", "Transfer", "ClientBoundPlayerAbilities", "SetContainerSlot",
      "OpenScreen", "SetContainerContent", "ClientBoundCloseContainer",
      "ClientBoundConfirmTransaction">>]
(* The packets a version has a number for *)
Numbered == [v \in SupportedVersions |->
               {p \in DOMAIN Reported \cup DOMAIN Override : PacketId(p, v) # NA}]

(* encode_packet: nothing when the version has no number for the packet *)
CanEncode(p, v) == p \in Numbered[v]

(* decode_packet: the first arm of the state that matches the number.
   Serverbound packets that nothing matches are not found. *)
DecodesTo(state, id, v) ==
  LET arms == SelectSeq(Serverbound[state], LAMBDA p : PacketId(p, v) = id)
  IN  IF arms = <<>> THEN {} ELSE {arms[1]}

(* A client gives each number the meanings it has in its version *)
ClientReads(state, id, v) == {p \in ToSet(Clientbound[state]) : PacketId(p, v) = id}
==========================================================================
