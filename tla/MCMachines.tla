------------------------------ MODULE MCMachines ------------------------------
(***************************************************************************)
(* Values to check the machines with.  Each is checked by itself: a        *)
(* behaviour runs the one that part names, and the others stay as they     *)
(* begin.                                                                  *)
(***************************************************************************)
EXTENDS Machines

CONSTANTS a, b, t1, t2, t3

VARIABLE part

(* Packets whose bytes pass for a length, for a longer VarInt and for a    *)
(* frame, in VarInts of two value bits a byte.                             *)
TrickyPackets == {<<1>>, <<2, 0, 1>>}

(* Versions with the same number for the plains, and one whose packets do  *)
(* not encode.                                                             *)
SharedBiome == <<1, 1, 2>>
LastVersion == {3}
AcrossOrigin == <<-1, 17>>

(* Two variables of the environment that are set, one to a text and one to *)
(* nothing, and the files of an operator.                                  *)
SetVariables == [x \in {"${A}", "${C}"} |-> IF x = "${A}" THEN <<"text">> ELSE <<>>]
EscapedPieces == [x \in {"\\${B}"} |-> "text"]

In(section, tables) == {[section |-> section, table |-> t] : t \in tables}
Destination(id, item, slot) == [id |-> id, server |-> id, display_name |-> id, item |-> item, slot |-> slot]
Npc(id, destination) == [id |-> id, destination |-> destination, name |-> id]
HotbarItem(slot, item) == [slot |-> slot, item |-> item, display_name |-> <<"text">>]
Switches == {[enabled |-> on] : on \in BOOLEAN}
Documents ==
  In("root", {[welcome_message |-> t] : t \in {<<>>, <<"broken">>, <<"${A}">>, <<"${B}">>, <<"\\${B}">>}} \cup {[unknown |-> 1]})
  \cup In("boss_bar", Switches \cup {[enabled |-> on, title |-> <<t>>, health |-> 2] : on \in BOOLEAN, t \in {"broken", "${A}"}})
  \cup In("title", Switches \cup {[enabled |-> TRUE, title |-> <<>>, subtitle |-> u] : u \in {<<>>, <<"broken">>, <<"text">>, <<"${C}">>}})
  \cup In("tab_list", {[enabled |-> on, player_listed |-> TRUE] : on \in BOOLEAN}
       \cup {[enabled |-> on, header |-> <<>>, footer |-> <<"text">>, player_listed |-> FALSE] : on \in BOOLEAN}
       \cup {[enabled |-> FALSE]})
  \cup In("boundaries", Switches \cup {[enabled |-> TRUE, min_y |-> 100, teleport_message |-> <<>>]})
  \cup In("world", {[spawn_y |-> y] : y \in {99, 100}})
  \cup In("experimental", {[view_distance |-> -1]}
       \cup {[view_distance |-> -1, schematic_file |-> f, lock_time |-> TRUE] : f \in {"", "lobby.schem"}})
  \cup In("compression", {[threshold |-> 0, level |-> 10]})
  \cup In("scoreboard", {[enabled |-> "never"], [enabled |-> "always", lines |-> [i \in 1..16 |-> <<"text">>]]})
  \cup In("forwarding", {[method |-> m] : m \in {"LEGACY", "MODERN"}} \cup {[method |-> "BUNGEE_GUARD", tokens |-> <<>>]}
       \cup {[velocity |-> [enabled |-> FALSE], bungee_cord |-> [enabled |-> TRUE, bungee_guard |-> TRUE]]})
  \cup In("lobby", {[enabled |-> on] : on \in BOOLEAN}
       \cup {[enabled |-> TRUE, npcs |-> <<Npc("n", "survival")>>, servers |-> s] :
             s \in {<<Destination("survival", "paper", {}), Destination("x", "paper", {26})>>,
                    <<Destination("survival", "paper", {3}), Destination("x", "paper", {3})>>,
                    <<Destination("survival", "paper", {27})>>, <<Destination("x", "paper", {})>>}}
       \cup {[enabled |-> TRUE, npcs |-> <<Npc("n", "survival"), Npc("n", "survival")>>]}
       \cup {[enabled |-> TRUE, selector |-> HotbarItem(s, "compass")] : s \in {0, 8, 9}}
       \cup {[enabled |-> TRUE, antispam |-> [enabled |-> FALSE, chat_cooldown_ms |-> 0]]})

-------------------------------------------------------------------------------
sidebar == <<lobbyEnabled, renders, phase, sessions, senders, connected, created, shown, queue, lastRender,
             lastRenders, lastPopulation, tick, missed>>
keep_alive == <<users, interval, due, guard, lock, pc, notified, made, request>>
cache == <<packets, cells, version, at, found, answer, encoded>>
talk == <<antispam, to_server, to_client, server, client, ages, outcome, lines>>
startup == <<file, process, edits>>
MCvars == <<part, vars, sidebar, keep_alive, cache, talk, startup>>

(* The machines that do not run are in one of their initial states.        *)
MCInit ==
  /\ part \in {"stream", "scoreboard", "interval", "cache", "talk", "startup"}
  /\ Init /\ Sidebar!Init /\ Interval!Init /\ Cache!Init /\ Talk!Init /\ Config!Init
  /\ part # "scoreboard" => ~lobbyEnabled /\ renders = {}
  /\ part # "interval" => users = Task
  /\ part # "cache" => \A t \in DOMAIN version : version[t] = 1
  /\ part # "talk" => ~antispam /\ ~server.allowed /\ ~server.flying
  /\ part # "startup" => file = Config!NoFile

MCNext ==
  /\ UNCHANGED part
  /\ \/ part = "stream" /\ Next /\ UNCHANGED <<sidebar, keep_alive, cache, talk, startup>>
     \/ part = "scoreboard" /\ Sidebar!Next /\ UNCHANGED <<vars, keep_alive, cache, talk, startup>>
     \/ part = "interval" /\ Interval!Next /\ UNCHANGED <<vars, sidebar, cache, talk, startup>>
     \/ part = "cache" /\ Cache!Next /\ UNCHANGED <<vars, sidebar, keep_alive, talk, startup>>
     \/ part = "talk" /\ Talk!Next /\ UNCHANGED <<vars, sidebar, keep_alive, cache, startup>>
     \/ part = "startup" /\ Config!Next /\ UNCHANGED <<vars, sidebar, keep_alive, cache, talk>>

MCSpec ==
  /\ MCInit /\ [][MCNext]_MCvars
  /\ Fairness /\ Sidebar!Fairness /\ Interval!Fairness /\ Interval!TimelyTicks
===============================================================================
