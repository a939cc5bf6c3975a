-------------------------------- MODULE Startup --------------------------------
(***************************************************************************)
(* What a process makes of its configuration (server/start_server.rs,      *)
(* configuration/, ServerStateBuilder): the file is read, or written with  *)
(* the defaults when there is none, each section is deserialized, and the  *)
(* builder refuses what the handlers could not rely on.                    *)
(*                                                                         *)
(* A document has tables by section, and a table has values by key; the    *)
(* keys outside of any section are in "root".  A text is a sequence of     *)
(* pieces, and of its pieces only these count: one MiniMessage rejects,    *)
(* and placeholders for variables of the environment.  An Option is a set  *)
(* of at most one element.                                                 *)
(***************************************************************************)
EXTENDS Integers, Sequences, SequencesExt, FiniteSets, TLC

CONSTANTS
  Placeholders,  \* pieces ${NAME}
  Environment,   \* the text of those whose variable is set
  Escaped,       \* pieces \${NAME}, and the piece ${NAME} each stands for
  Edits,         \* what the operator may write: pairs of a section and a table
  MaxEdits,      \* bound: how often the operator edits the file
  Item           \* the items that validate_lobby_item knows

Broken == "broken"
Parses(text) == Broken \notin ToSet(text)
NoFile == [is |-> "no file"]
BlankFile == [is |-> "blank file"]
Document(d) == [is |-> "document", document |-> d]
Error == [variant |-> "Error"]

-------------------------------------------------------------------------------
(* Sections *)

(* As Toggle, without require_true.                                        *)
Toggle_Unchecked(table, keys) ==
  IF DOMAIN table = keys THEN [variant |-> "Enabled", table |-> table]
  ELSE IF "enabled" \in DOMAIN table THEN [variant |-> "Disabled", table |-> table] ELSE Error

(* An untagged enum of an Enabled and a Disabled variant: the first that   *)
(* takes the table.  Enabled wants `enabled` true and all of its keys and  *)
(* no other, Disabled only `enabled` false.                                *)
Toggle(table, keys) ==
  LET enabled == {"enabled"} \cap DOMAIN table
  IN CASE enabled # {} /\ table.enabled /\ DOMAIN table = keys -> [variant |-> "Enabled", table |-> table]
       [] enabled # {} /\ ~table.enabled -> [variant |-> "Disabled", table |-> table]
       [] OTHER -> Error

(* serde(default), deny_unknown_fields *)
Partial(table, default) ==
  IF DOMAIN table \subseteq DOMAIN default
  THEN [variant |-> "Enabled",
        table |-> [k \in DOMAIN default |-> IF k \in DOMAIN table THEN table[k] ELSE default[k]]]
  ELSE Error

(* A struct without serde(default) *)
Whole(table, default) ==
  IF DOMAIN table = DOMAIN default THEN [variant |-> "Enabled", table |-> table] ELSE Error

(* ForwardingConfig: untagged, the structured form first.                  *)
Forwarding(table) ==
  LET tagged == "method" \in DOMAIN table
      has(k) == k \in DOMAIN table
      mode(name) == [variant |-> "Enabled", table |-> table, mode |-> name]
  IN CASE has("velocity") /\ has("bungee_cord") ->
            mode(IF table.velocity.enabled THEN "Modern"
                 ELSE IF ~table.bungee_cord.enabled THEN "Disabled"
                 ELSE IF table.bungee_cord.bungee_guard THEN "BungeeGuard" ELSE "Legacy")
       [] ~(has("velocity") /\ has("bungee_cord")) /\ tagged ->
            CASE table.method = "NONE" -> mode("Disabled")
              [] table.method = "LEGACY" -> mode("Legacy")
              [] table.method = "BUNGEE_GUARD" /\ has("tokens") -> mode("BungeeGuard")
              [] table.method = "MODERN" /\ has("secret") -> mode("Modern")
              [] OTHER -> Error
       [] OTHER -> Error

Defaults ==
  [root |-> [welcome_message |-> <<"text">>, action_bar |-> <<"text">>],
   forwarding |-> [method |-> "NONE"],
   server_list |-> [message_of_the_day |-> <<"text">>, max_players |-> 20],
   world |-> [spawn_y |-> 320],
   experimental |-> [view_distance |-> 2, schematic_file |-> "", lock_time |-> FALSE],
   boundaries |-> [enabled |-> TRUE, min_y |-> -64, teleport_message |-> <<"text">>],
   compression |-> [threshold |-> -1, level |-> 6],
   tab_list |-> [enabled |-> TRUE, header |-> <<"text">>, footer |-> <<"text">>, player_listed |-> TRUE],
   boss_bar |-> [enabled |-> FALSE, title |-> <<"text">>, health |-> 1],
   title |-> [enabled |-> FALSE, title |-> <<"text">>, subtitle |-> <<"text">>],
   scoreboard |-> [enabled |-> "lobby", title |-> <<"text">>, update_interval_ms |-> 1000,
                   lines |-> <<<<"text">>, <<"text">>, <<"text">>>>],
   lobby |-> [enabled |-> FALSE, join_message |-> <<"text">>,
              servers |-> <<[id |-> "survival", server |-> "survival", display_name |-> "Survival",
                             item |-> "paper", slot |-> {0}]>>,
              selector |-> [slot |-> 4, item |-> "compass", display_name |-> <<"text">>],
              visibility_toggle |-> [slot |-> 8, item |-> "ender_eye", display_name |-> <<"text">>],
              npcs |-> <<[id |-> "survival-npc", destination |-> "survival", name |-> "Survival"]>>,
              antispam |-> [enabled |-> TRUE, chat_cooldown_ms |-> 750]]]

Sections == DOMAIN Defaults
Toggles == {"boundaries", "tab_list", "boss_bar", "title"}

(* The Deserialize of a section that is in the document *)
Section(s, table) ==
  CASE s = "tab_list" /\ "player_listed" \notin DOMAIN table -> Error
    [] s \in Toggles /\ (s = "tab_list" => "player_listed" \in DOMAIN table) -> Toggle(table, DOMAIN Defaults[s])
    [] s = "forwarding" -> Forwarding(table)
    [] s = "experimental" -> Whole(table, Defaults[s])
    [] OTHER -> Partial(table, Defaults[s])

(* Config::default: the Default of every section, which is its first       *)
(* variant whatever its `enabled` says.                                    *)
DefaultOf(s) == IF s = "forwarding" THEN Forwarding(Defaults[s]) ELSE [variant |-> "Enabled", table |-> Defaults[s]]
DefaultConfig == [s \in Sections |-> DefaultOf(s)]

-------------------------------------------------------------------------------
(* The file *)

(* expand_env_placeholders, in a single pass *)
Expanded(text) ==
  FlattenSeq([i \in DOMAIN text |->
    IF text[i] \in DOMAIN Environment THEN Environment[text[i]]
    ELSE IF text[i] \in DOMAIN Escaped THEN <<Escaped[text[i]]>> ELSE <<text[i]>>])
Texts == {"welcome_message", "action_bar", "message_of_the_day", "title", "subtitle"}
TextsOf(document) == {at \in (DOMAIN document) \X Texts : at[2] \in DOMAIN document[at[1]]}
Expand(document) ==
  [s \in DOMAIN document |-> [k \in DOMAIN document[s] |->
    IF k \in Texts THEN Expanded(document[s][k]) ELSE document[s][k]]]
Unset(document) ==
  \E at \in TextsOf(document) : ToSet(document[at[1]][at[2]]) \cap (Placeholders \ DOMAIN Environment) # {}

(* toml::from_str *)
Read(document) ==
  [s \in Sections |-> IF s \in DOMAIN document THEN Section(s, document[s]) ELSE DefaultOf(s)]
IsError(config) == \E s \in Sections : config[s].variant = "Error"

(* create_default_config: toml::to_string_pretty writes the tables, of     *)
(* either variant; inline_npc_skins changes the form of a table only.      *)
Written(config) == [s \in Sections |-> config[s].table]

(* load_or_create: the file afterwards, and the configuration              *)
IsCreated(f) == f \in {NoFile, BlankFile}
LoadOrCreate(f) ==
  CASE IsCreated(f) -> [file |-> Document(Written(DefaultConfig)), config |-> DefaultConfig]
    [] ~IsCreated(f) /\ Unset(f.document) -> [file |-> f, config |-> [s \in Sections |-> Error]]
    [] OTHER -> [file |-> f, config |-> Read(Expand(f.document))]

-------------------------------------------------------------------------------
(* The builder *)

ShouldSend(mode, lobby_enabled) == mode = "always" \/ (mode = "lobby" /\ lobby_enabled)
Shown(section) == IF section.variant = "Enabled" THEN {section.table} ELSE {}
Optional(text) == IF text = <<>> THEN {} ELSE {text}
IdsOf(things) == {things[i].id : i \in DOMAIN things}
AreDistinct(things) == Cardinality(IdsOf(things)) = Len(things)
SlotsOf(servers) == FlattenSeq([i \in DOMAIN servers |-> SetToSeq(servers[i].slot)])

(* Blank is a text with nothing but white space.                           *)
Blank == " "
IsHotbarItem(item) == item.slot <= 8 /\ item.item \in Item /\ Parses(item.display_name)

(* set_lobby_destinations *)
DestinationsAccepted(servers) ==
  /\ AreDistinct(servers) /\ IsInjective(SlotsOf(servers))
  /\ \A i \in DOMAIN servers :
       /\ Blank \notin {servers[i].id, servers[i].display_name, servers[i].server}
       /\ servers[i].item \in Item
       /\ servers[i].slot \subseteq 0..26

(* set_lobby_npcs, validate_npcs, and what build looks up *)
NpcsAccepted(npcs, servers) ==
  /\ AreDistinct(npcs)
  /\ \A i \in DOMAIN npcs :
       /\ Blank \notin {npcs[i].id, npcs[i].name}
       /\ npcs[i].destination \in IdsOf(servers)

(* apply_lobby_options, and the two items in build.  A file cannot leave   *)
(* the items out: a missing key takes the default, which is Some.          *)
LobbyAccepted(lobby) ==
  lobby.enabled =>
    /\ Parses(lobby.join_message)
    /\ DestinationsAccepted(lobby.servers)
    /\ NpcsAccepted(lobby.npcs, lobby.servers)
    /\ IsHotbarItem(lobby.selector) /\ IsHotbarItem(lobby.visibility_toggle)
    /\ lobby.selector.slot # lobby.visibility_toggle.slot

(* Scoreboard::new *)
ScoreboardAccepted(scoreboard, lobby_enabled) ==
  ShouldSend(scoreboard.enabled, lobby_enabled) =>
    Len(scoreboard.lines) <= 15 /\ Parses(scoreboard.title) /\ \A i \in DOMAIN scoreboard.lines : Parses(scoreboard.lines[i])

(* apply_world_and_visual_options: what is shown must be MiniMessage, and  *)
(* nobody spawns where boundaries bring players back.                      *)
VisualsAccepted(config) ==
  /\ \A b \in Shown(config["boundaries"]) :
       config["world"].table.spawn_y >= b.min_y /\ Parses(b.teleport_message)
  /\ \A t \in Shown(config["tab_list"]) : Parses(t.header) /\ Parses(t.footer)
  /\ \A b \in Shown(config["boss_bar"]) : Parses(b.title)
  /\ \A t \in Shown(config["title"]) : Parses(t.title) /\ Parses(t.subtitle)
  /\ ScoreboardAccepted(config["scoreboard"].table, config["lobby"].table.enabled)
  /\ Parses(config["root"].table.action_bar) /\ Parses(config["root"].table.welcome_message)
  /\ Parses(config["server_list"].table.message_of_the_day)

(* build_state: an icon that exists must be read, and in build a schematic *)
(* that is named must be read and give a world.                            *)
HasSchematic(config) == config["experimental"].table.schematic_file # ""
Accepted(config, icon, loads) ==
  /\ icon # "unreadable"
  /\ VisualsAccepted(config) /\ LobbyAccepted(config["lobby"].table)
  /\ HasSchematic(config) => loads

NonNegative(n) == IF n < 0 THEN 0 ELSE n
Clamp(n, low, high) == IF n < low THEN low ELSE IF n > high THEN high ELSE n

(* enable_compression *)
Compression(c) == IF c.threshold >= 0 THEN {[threshold |-> c.threshold, level |-> Clamp(c.level, 0, 9)]} ELSE {}

(* ServerStateBuilder::title *)
Titles(section) == {t \in Shown(section) : Optional(t.title) \cup Optional(t.subtitle) # {}}

(* ServerState *)
ServerOf(config, icon) ==
  LET lobby == config["lobby"].table
      inLobby(things) == IF lobby.enabled THEN things ELSE <<>>
  IN [forwarding_mode |-> config["forwarding"].mode,
      boundaries |-> Shown(config["boundaries"]), tab_list |-> Shown(config["tab_list"]),
      boss_bar |-> {[b EXCEPT !.health = Clamp(@, 0, 1)] : b \in Shown(config["boss_bar"])},
      title |-> Titles(config["title"]),
      scoreboard |-> IF ShouldSend(config["scoreboard"].table.enabled, lobby.enabled)
                     THEN {[config["scoreboard"].table EXCEPT !.update_interval_ms = IF @ < 50 THEN 50 ELSE @]}
                     ELSE {},
      fav_icon |-> icon = "readable",
      spawn_y |-> config["world"].table.spawn_y, world |-> HasSchematic(config),
      view_distance |-> NonNegative(config["experimental"].table.view_distance),
      compression |-> Compression(config["compression"].table),
      welcome_message |-> Optional(config["root"].table.welcome_message),
      action_bar |-> Optional(config["root"].table.action_bar),
      motd |-> config["server_list"].table.message_of_the_day,
      lobby_enabled |-> lobby.enabled,
      antispam |-> lobby.enabled /\ lobby.antispam.enabled,
      destinations |-> inLobby(lobby.servers), npcs |-> inLobby(lobby.npcs),
      items |-> inLobby(<<lobby.selector, lobby.visibility_toggle>>)]

-------------------------------------------------------------------------------
(* The process *)

VARIABLES
  file,     \* server.toml
  process,  \* down, running or exited with a code
  edits     \* made so far

vars == <<file, process, edits>>
Down == [is |-> "down"]

Init ==
  /\ file \in {NoFile, BlankFile, Document(<<>>)}
  /\ process = Down /\ edits = 0

(* start_server, with the server icon that is there by then, and with a    *)
(* schematic that loads or does not; the file, the icon and whether the    *)
(* file was written are kept for the properties.  A builder that refuses   *)
(* ends the process with SUCCESS.                                          *)
Start ==
  /\ process = Down
  /\ \E icon \in {"none", "readable", "unreadable"}, loads \in BOOLEAN :
       LET loaded == LoadOrCreate(file)
           outcome(is) == [is |-> is, created |-> IsCreated(file), file |-> loaded.file.document, icon |-> icon]
           running == [server |-> ServerOf(loaded.config, icon)] @@ outcome("running")
       IN /\ file' = loaded.file
          /\ process' = CASE IsError(loaded.config) -> outcome("failure")
                          [] ~IsError(loaded.config) /\ ~Accepted(loaded.config, icon, loads) -> outcome("success")
                          [] OTHER -> running
  /\ UNCHANGED edits

(* The cancellation token, or the exit *)
Stop ==
  /\ process # Down /\ process' = Down
  /\ UNCHANGED <<file, edits>>

(* The operator writes one section.  What is written while a process runs  *)
(* is only seen by the next.                                               *)
Edit ==
  /\ process = Down /\ edits < MaxEdits /\ edits' = edits + 1
  /\ file.is = "document"
  /\ \E edit \in Edits :
       file' = Document([s \in (DOMAIN file.document \cup {edit.section}) |->
                           IF s = edit.section THEN edit.table ELSE file.document[s]])
  /\ UNCHANGED process

Next == Start \/ Stop \/ Edit

-------------------------------------------------------------------------------
(* What a running server shows is what its file says, for the sections the *)
(* file has: a section that is switched off is not shown, and one that is  *)
(* switched on is, unless its texts are empty or become so with the        *)
(* variables of the environment in them.  Of a file that is refused this   *)
(* says nothing: `[tab_list] enabled = false` by itself, which tab-list.md *)
(* offers to switch the tab list off, lacks player_listed and is.          *)
Obeyed(section, shown) ==
  IF section.enabled THEN shown # {} \/ ("subtitle" \in DOMAIN section /\ section.title = <<>> /\ section.subtitle = <<>>)
  ELSE shown = {}
FileIsObeyed ==
  process.is = "running" =>
    \A s \in Toggles \cap DOMAIN process.file : Obeyed(Expand(process.file)[s], process.server[s])

(* As FileIsObeyed, except for the process that wrote the file.            *)
FileIsObeyedNext == process.is = "running" /\ ~process.created => FileIsObeyed

(* Nothing of the lobby is left in a server without one; in a lobby the    *)
(* NPCs, the entries of the menu and the two items lead somewhere and are  *)
(* not in each other's place; who falls out of the world is brought back   *)
(* inside.                                                                 *)
ServerIsUsable ==
  process.is = "running" =>
    LET server == process.server IN
    /\ ~server.lobby_enabled => server.destinations \o server.npcs \o server.items = <<>> /\ ~server.antispam
    /\ \A i \in DOMAIN server.npcs : \E d \in DOMAIN server.destinations :
         server.destinations[d].id = server.npcs[i].destination
    /\ \A i, j \in DOMAIN server.items : i # j => server.items[i].slot # server.items[j].slot
    /\ \A i, j \in DOMAIN server.destinations :
         i # j => server.destinations[i].slot \cap server.destinations[j].slot = {}
    /\ \A b \in server.boundaries : ~(server.spawn_y < b.min_y)

(* The file that is written by default is accepted by the next process.    *)
DefaultsAreAccepted ==
  process.is \in {"failure", "success"} => process.file # Written(DefaultConfig) \/ process.icon = "unreadable"

StartsAsConfigured == FileIsObeyedNext /\ ServerIsUsable /\ DefaultsAreAccepted
===============================================================================
