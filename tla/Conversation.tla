----------------------------- MODULE Conversation -----------------------------
(***************************************************************************)
(* A player in play who chats, writes to others and flies (handlers/play/  *)
(* commands.rs, player_abilities.rs, the limits in client_state.rs).       *)
(*                                                                         *)
(* The client sends lines and its own changes of flight; the server sends  *)
(* abilities and feedback.  Time passes in ticks; of every point in time   *)
(* that is remembered only the age counts, up to the longest interval.     *)
(* Whom a message reaches is LobbyState's; here a plan may come out in any *)
(* way it can.                                                             *)
(***************************************************************************)
EXTENDS Integers, Sequences, FiniteSets

CONSTANTS
  Cooldown,              \* antispam.chat_cooldown_ms, in ticks
  COMMAND_MIN_INTERVAL,  \* in ticks
  Speed,                 \* flying speeds
  DefaultSpeed,
  MaxLines               \* bound: what the client sends

ConversationAssumption ==
  Cooldown \in Nat /\ COMMAND_MIN_INTERVAL \in Nat /\ DefaultSpeed \in Speed

Text == {"empty", "fine", "too long"}
Line ==
  [kind : {"chat", "msg", "reply"}, text : Text] \cup [kind : {"flyspeed"}, speed : Speed]
  \cup [kind : {"fly", "transfer", "server", "spawn", "invalid", "unknown"}]
MessageKinds == {"chat", "msg", "reply"}

VARIABLES
  antispam,     \* chat_antispam.enabled, which is off without a lobby
  up, down,     \* packets under way to the server and to the client
  server,       \* ClientState: is_flight_allowed, is_flying, flying_speed
  client,       \* the same, as the client has it
  ages,         \* of last_chat_message_at, last_command_at, and of the last message that reached others
  outcome,      \* what became of the last packet
  lines
vars == <<antispam, up, down, server, client, ages, outcome, lines>>

Longest == IF Cooldown > COMMAND_MIN_INTERVAL THEN Cooldown ELSE COMMAND_MIN_INTERVAL
Fresh == [chat |-> Longest, command |-> Longest, heard |-> Longest]

(* ClientBoundPlayerAbilitiesPacket: the flags and the speed               *)
Abilities(allow_flying, flying, flying_speed) ==
  [is |-> "abilities", allow_flying |-> allow_flying, flying |-> flying, flying_speed |-> flying_speed]
Feedback == [is |-> "feedback"]
Other == [is |-> "other"]

(* send_play_packets: a spectator flies, and others may if allow_flight    *)
Init ==
  /\ antispam \in BOOLEAN
  /\ \E allow \in BOOLEAN, spectator \in BOOLEAN :
       LET abilities == Abilities(allow \/ spectator, spectator, DefaultSpeed) IN
       /\ server = [allowed |-> abilities.allow_flying, flying |-> abilities.flying, speed |-> DefaultSpeed]
       /\ client = [allowed |-> FALSE, flying |-> FALSE, speed |-> DefaultSpeed]
       /\ down = <<abilities>>
  /\ up = <<>> /\ ages = Fresh /\ outcome = "none" /\ lines = 0

-------------------------------------------------------------------------------
(* The client, external *)

Say ==
  /\ lines < MaxLines /\ lines' = lines + 1
  /\ \E line \in Line : up' = Append(up, line)
  /\ UNCHANGED <<antispam, down, server, client, ages, outcome>>

ToggleFlight ==
  /\ lines < MaxLines /\ lines' = lines + 1
  /\ client.allowed
  /\ client' = [client EXCEPT !.flying = ~@]
  /\ up' = Append(up, [kind |-> "abilities", flying |-> ~client.flying])
  /\ UNCHANGED <<antispam, down, server, ages, outcome>>

Receive ==
  /\ down # <<>> /\ down' = Tail(down)
  /\ client' = IF Head(down).is = "abilities"
               THEN [allowed |-> Head(down).allow_flying, flying |-> Head(down).flying, speed |-> Head(down).flying_speed]
               ELSE client
  /\ UNCHANGED <<antispam, up, server, ages, outcome, lines>>

Older(age) == IF age < Longest THEN age + 1 ELSE age
Tick ==
  /\ \E k \in DOMAIN ages : ages[k] < Longest
  /\ ages' = [k \in DOMAIN ages |-> Older(ages[k])]
  /\ UNCHANGED <<antispam, up, down, server, client, outcome, lines>>

-------------------------------------------------------------------------------
(* The handlers.  Each takes the packet at the head of up.                 *)

Handle(kinds) == up # <<>> /\ Head(up).kind \in kinds /\ up' = Tail(up) /\ UNCHANGED <<antispam, client, lines>>
Send(packet) == down' = Append(down, packet)

(* run_command, before the command is parsed: the ages afterwards          *)
CommandPasses == ages.command >= COMMAND_MIN_INTERVAL
AfterCommand(kind) == IF kind = "chat" THEN ages ELSE [ages EXCEPT !.command = 0]

(* check_chat_rate_limit *)
ChatPasses == ~antispam \/ ages.chat >= Cooldown
ConsumeChat(now) == IF antispam THEN [now EXCEPT !.chat = 0] ELSE now

(* A command that comes too early is dropped without a word.               *)
DropCommand ==
  /\ Handle({"msg", "reply", "fly", "flyspeed", "transfer", "server", "spawn", "invalid", "unknown"})
  /\ ~CommandPasses
  /\ outcome' = "dropped"
  /\ UNCHANGED <<down, server, ages>>

Passes(kind) == kind = "chat" \/ CommandPasses

(* An empty message, which chat may be, or one that is too long: refused,  *)
(* and the attempt counts.                                                 *)
RefuseText ==
  /\ Handle(MessageKinds) /\ Passes(Head(up).kind)
  /\ Head(up).text = "too long" \/ (Head(up).text = "empty" /\ Head(up).kind # "chat")
  /\ ages' = ConsumeChat(AfterCommand(Head(up).kind))
  /\ Send(Feedback) /\ outcome' = "told"
  /\ UNCHANGED server

IsSayable(line) == line.text = "fine" \/ (line.text = "empty" /\ line.kind = "chat")

(* As Limited, without a limit for private messages.                       *)
Limited_ChatOnly(kind) == kind = "chat" /\ ~ChatPasses

(* Whether the cooldown holds a message back                               *)
Limited(kind) == ~ChatPasses

(* A reply without a partner, which is found out before the cooldown is    *)
(* looked at, and does not count.                                          *)
RefuseReply ==
  /\ Handle({"reply"}) /\ CommandPasses /\ IsSayable(Head(up))
  /\ ages' = AfterCommand("reply")
  /\ Send(Feedback) /\ outcome' = "told"
  /\ UNCHANGED server

LimitMessage ==
  /\ Handle(MessageKinds) /\ Passes(Head(up).kind) /\ IsSayable(Head(up))
  /\ Limited(Head(up).kind)
  /\ ages' = AfterCommand(Head(up).kind)
  /\ Send(Feedback) /\ outcome' = "told"
  /\ UNCHANGED server

(* plan_lobby_chat_broadcast, plan_lobby_private_message,                  *)
(* plan_lobby_reply_message: the message reaches others, or it has no      *)
(* recipient, which chat passes over in silence.                           *)
PlanMessage ==
  /\ Handle(MessageKinds) /\ Passes(Head(up).kind) /\ IsSayable(Head(up))
  /\ ~Limited(Head(up).kind)
  /\ LET now == ConsumeChat(AfterCommand(Head(up).kind)) IN
       \/ outcome' = "heard" /\ ages' = [now EXCEPT !.heard = 0] /\ UNCHANGED down
       \/ /\ outcome' = (IF Head(up).kind = "chat" THEN "none" ELSE "told") /\ ages' = now
          /\ IF Head(up).kind = "chat" THEN UNCHANGED down ELSE Send(Feedback)
  /\ UNCHANGED server

(* Command::Fly: the server takes the player to fly as soon as it may.     *)
Fly ==
  /\ Handle({"fly"}) /\ CommandPasses
  /\ LET allow == ~server.allowed IN
       /\ Send(Abilities(allow, allow /\ server.flying, server.speed))
       /\ server' = [server EXCEPT !.allowed = allow, !.flying = allow]
  /\ ages' = AfterCommand("fly") /\ outcome' = "done"

(* Command::FlySpeed *)
FlySpeed ==
  /\ Handle({"flyspeed"}) /\ CommandPasses
  /\ Send(Abilities(server.allowed, server.flying, Head(up).speed))
  /\ server' = [server EXCEPT !.speed = Head(up).speed]
  /\ ages' = AfterCommand("flyspeed") /\ outcome' = "done"

(* The other commands: a packet, feedback, or nothing at all for a line    *)
(* nobody knows and a transfer the client does not know.                   *)
OtherCommand ==
  /\ Handle({"transfer", "server", "spawn", "invalid", "unknown"}) /\ CommandPasses
  /\ \E packets \in CASE Head(up).kind = "unknown" -> {<<>>}
                      [] Head(up).kind = "transfer" -> {<<>>, <<Other>>}
                      [] Head(up).kind = "spawn" -> {<<Other>>}
                      [] Head(up).kind = "server" -> {<<Other>>, <<Feedback>>}
                      [] OTHER -> {<<Feedback>>} :
       down' = down \o packets
  /\ ages' = AfterCommand(Head(up).kind) /\ outcome' = "done"
  /\ UNCHANGED server

(* ServerBoundPlayerAbilitiesPacket *)
HearFlight ==
  /\ Handle({"abilities"})
  /\ server' = [server EXCEPT !.flying = Head(up).flying]
  /\ outcome' = "done"
  /\ UNCHANGED <<down, ages>>

Next ==
  \/ Say \/ ToggleFlight \/ Receive \/ Tick
  \/ DropCommand \/ RefuseText \/ RefuseReply \/ LimitMessage \/ PlanMessage
  \/ Fly \/ FlySpeed \/ OtherCommand \/ HearFlight

Spec == Init /\ [][Next]_vars

-------------------------------------------------------------------------------
(* With the antispam, whatever a player sends and however, two of its      *)
(* messages that reach others are a cooldown apart, in the chat or not.    *)
Spaced == [][antispam /\ Len(up') < Len(up) /\ outcome' = "heard" => ages.heard >= Cooldown]_vars

(* When nothing is under way, client and server agree on whether the       *)
(* player may fly and how fast.  Not on whether it flies: /fly tells the   *)
(* client the flag from before the command and has the server take the     *)
(* player for flying (commands.rs:105-113), and the two differ until one   *)
(* of them sends its own again; so the flag `flying` is left out.          *)
FlightAgrees ==
  up = <<>> /\ down = <<>> => client.allowed = server.allowed /\ client.speed = server.speed

Conversing == []FlightAgrees /\ Spaced
===============================================================================
