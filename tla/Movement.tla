----------------------------- MODULE Movement ----------------------------
(***************************************************************************)
(* One player who moves, falls and crouches, and what the others' clients   *)
(* show of it (handlers/play/set_player_position_and_rotation.rs,           *)
(* player_command.rs, player_input.rs; server/network.rs broadcast_movement,*)
(* broadcast_metadata; server/lobby_visibility.rs).                         *)
(*                                                                          *)
(* Positions are heights, in units finer than the 1/32 of a block that      *)
(* clients before 1.9 know.  Movement packets are relative: a client adds   *)
(* them to the position it holds.  The player's own task handles a packet   *)
(* and broadcasts its plan before it reads the next; the observers' tasks   *)
(* run at any time.                                                         *)
(***************************************************************************)
EXTENDS Integers, Sequences, FiniteSets

CONSTANTS
  Observer,
  Quantum,        \* per observer: the units of its client's smallest step
  RelativeRange,  \* the steps a relative packet can take
  QueueCapacity,
  Bottom, MinY, SpawnY, Top,
  FallSpeed,      \* the server's limit for a fall into the void
  MaxFall,        \* how far a client falls between two packets
  MinDelta,       \* MIN_POSITION_DELTA
  Crouches,       \* whether the player crouches
  MaxInFlight     \* packets on their way to the server

ASSUME MovementAssumption ==
  /\ Quantum \in [Observer -> Nat \ {0}]
  /\ {Bottom, MinY, SpawnY, Top} \subseteq Int
  /\ Bottom < MinY /\ MinY <= SpawnY /\ SpawnY <= Top
  /\ {FallSpeed, MaxFall, MinDelta, RelativeRange, QueueCapacity, MaxInFlight} \subseteq Nat \ {0}
  /\ Crouches \in BOOLEAN

VARIABLES
  \* the player's client
  y, up,         \* where it is, and its packets under way
  down,          \* SynchronizePlayerPosition packets under way
  \* its task
  position,      \* ClientState::position
  limited,       \* MOVEMENT_BROADCAST_MIN_INTERVAL has not passed yet
  pending,       \* the plan of the packet being handled
  \* its session in the registry
  session,       \* the position it was last broadcast with
  crouching,
  \* the observers
  present,       \* who was in play before the player moved
  phase,         \* "out", "registered", "sending", "planned" or "play"
  spawn,         \* the position and pose in the join plan
  view,          \* what the client shows
  queue,
  dropped        \* a packet did not fit into the queue

player == <<y, up, down>>
task == <<position, limited, pending>>
lobby == <<session, crouching>>
observers == <<present, phase, spawn, view, queue, dropped>>
vars == <<player, task, lobby, observers>>

NoPlan == [kind |-> "none", from |-> 0, to |-> 0, recipients |-> {}]

Init ==
  /\ y = SpawnY /\ up = <<>> /\ down = <<>>
  /\ position = SpawnY /\ limited = FALSE /\ pending = NoPlan
  /\ session = SpawnY /\ crouching = 0
  /\ present \in SUBSET Observer
  /\ phase = [o \in Observer |-> IF o \in present THEN "play" ELSE "out"]
  /\ spawn = [o \in Observer |-> [y |-> SpawnY, crouching |-> 0]]
  /\ view = spawn
  /\ queue = [o \in Observer |-> <<>>]
  /\ dropped = [o \in Observer |-> FALSE]

----------------------------------------------------------------------------
(* The player's client *)

Send(kind, value) == Len(up) < MaxInFlight /\ up' = Append(up, [kind |-> kind, value |-> value])

(* A step, or a turn on the spot *)
Walk(to) ==
  /\ y >= MinY /\ to \in MinY..Top /\ to # y
  /\ y' = to
  /\ Send("move", to)
  /\ UNCHANGED <<down, task, lobby, observers>>

Turn ==
  /\ Send("turn", y)
  /\ UNCHANGED <<y, down, task, lobby, observers>>

Fall(by) ==
  /\ y > Bottom
  /\ y' = IF y - by < Bottom THEN Bottom ELSE y - by
  /\ Send("move", y')
  /\ UNCHANGED <<down, task, lobby, observers>>

Crouch ==
  /\ Crouches
  /\ \E value \in {0, 1} : Send("crouch", value)
  /\ UNCHANGED <<y, down, task, lobby, observers>>

(* The client goes where it is told and reports that *)
Synchronize ==
  /\ down # <<>>
  /\ y' = Head(down) /\ down' = Tail(down)
  /\ Send("move", y')
  /\ UNCHANGED <<task, lobby, observers>>

----------------------------------------------------------------------------
(* The player's task *)

(* LobbyState::plan_recipients: the sessions registered now *)
Recipients == {o \in Observer : phase[o] # "out"}

Takes(kinds) ==
  /\ pending = NoPlan /\ up # <<>> /\ Head(up).kind \in kinds
  /\ up' = Tail(up)

(* update_lobby_position_with_movement_plan *)
Plan(to) ==
  /\ session' = to
  /\ pending' = [kind |-> "movement", from |-> session, to |-> to, recipients |-> Recipients]

(* As PreviousY, the position the lobby knows *)
PreviousY_Broadcast == session

(* ClientState::get_y_position, before this packet *)
PreviousY == position

Distance(from, to) == IF from < to THEN to - from ELSE from - to

(* teleport_player_to_spawn_out_of_bounds below the boundary: once, when it
   is crossed at a player's speed.  The message that goes with the teleport
   is taken to render: the builder has parsed its template.  Were the text
   with the player's name in it rejected, the handler would fail after the
   position was reset and the plan set, and the teleport with it be dropped. *)
FallsOut(to) ==
  /\ to < MinY
  /\ IF PreviousY >= MinY /\ Distance(PreviousY, to) <= FallSpeed
     THEN /\ down' = Append(down, SpawnY)
          /\ position' = SpawnY
          /\ Plan(SpawnY)
     ELSE /\ position' = to
          /\ UNCHANGED <<down, session, pending>>
  /\ UNCHANGED limited

(* As Moves, with the lobby's position kept up to date all the time *)
Moves_Unlimited(to, turned) ==
  /\ to >= MinY
  /\ position' = to
  /\ IF (Distance(position, to) >= MinDelta \/ turned) /\ ~limited
     THEN Plan(to) /\ limited' = TRUE
     ELSE session' = to /\ UNCHANGED <<limited, pending>>
  /\ UNCHANGED down

(* should_broadcast_movement, check_movement_broadcast_rate_limit *)
Moves(to, turned) ==
  /\ to >= MinY
  /\ position' = to
  /\ IF (Distance(position, to) >= MinDelta \/ turned) /\ ~limited
     THEN Plan(to) /\ limited' = TRUE
     ELSE UNCHANGED <<limited, session, pending>>
  /\ UNCHANGED down

(* SetPlayerPosition, SetPlayerPositionAndRotation, SetPlayerRotation *)
HandleMove ==
  /\ Takes({"move", "turn"})
  /\ LET turned == Head(up).kind = "turn"
         to == IF turned THEN position ELSE Head(up).value
     IN  FallsOut(to) \/ Moves(to, turned)
  /\ UNCHANGED <<y, crouching, observers>>

(* PlayerCommand, PlayerInput: update_crouching_with_metadata_plan *)
HandleCrouch ==
  /\ Takes({"crouch"})
  /\ crouching' = Head(up).value
  /\ pending' = IF crouching' = crouching THEN NoPlan
                ELSE [kind |-> "metadata", from |-> crouching, to |-> crouching', recipients |-> Recipients]
  /\ UNCHANGED <<y, down, position, limited, session, observers>>

(* 50 ms after the last broadcast *)
IntervalPasses ==
  /\ limited
  /\ limited' = FALSE
  /\ UNCHANGED <<player, position, pending, lobby, observers>>

(* To the next step of the client's grid, halves away from zero *)
Rounded(delta, quantum) ==
  LET steps == (2 * Distance(delta, 0) + quantum) \div (2 * quantum)
  IN  IF delta < 0 THEN -steps ELSE steps

Floored(height, quantum) == (height \div quantum) * quantum

(* movement_visibility_packets, metadata_visibility_packets *)
Packets(plan, quantum) ==
  LET steps == Rounded(plan.to - plan.from, quantum)
  IN  IF plan.kind = "metadata" THEN <<[kind |-> "crouch", value |-> plan.to]>>
      ELSE IF plan.to = plan.from THEN <<>>
      ELSE IF Distance(steps, 0) > RelativeRange
           THEN <<[kind |-> "absolute", value |-> Floored(plan.to, quantum)]>>
      ELSE <<[kind |-> "relative", value |-> steps * quantum]>>

Senders == {o \in Observer : phase[o] \in {"sending", "planned", "play"}}

(* broadcast_movement, broadcast_metadata: to the recipients whose sender is
   there by now.  An observer who misses a packet is not followed further:
   its view would drift without a bound. *)
Broadcast ==
  /\ pending # NoPlan
  /\ LET To(o) == IF o \in pending.recipients \cap Senders /\ ~dropped[o]
                  THEN Packets(pending, Quantum[o]) ELSE <<>>
         Fits(o) == Len(queue[o]) + Len(To(o)) <= QueueCapacity
     IN  /\ queue' = [o \in Observer |-> IF Fits(o) THEN queue[o] \o To(o) ELSE <<>>]
         /\ dropped' = [o \in Observer |-> dropped[o] \/ ~Fits(o)]
  /\ pending' = NoPlan
  /\ UNCHANGED <<present, player, position, limited, lobby, phase, spawn, view>>

----------------------------------------------------------------------------
(* An observer's task *)

Goto(o, from, to) == phase[o] = from /\ phase' = [phase EXCEPT ![o] = to]

(* register_lobby_session *)
Register(o) ==
  /\ Goto(o, "out", "registered")
  /\ UNCHANGED <<present, player, task, lobby, spawn, view, queue, dropped>>

(* set_lobby_broadcast_sender *)
SetSender(o) ==
  /\ Goto(o, "registered", "sending")
  /\ UNCHANGED <<present, player, task, lobby, spawn, view, queue, dropped>>

(* As PlanJoin, before the sender is there *)
PlanJoin_Early(o) ==
  /\ phase[o] \in {"registered", "sending"}
  /\ phase' = [phase EXCEPT ![o] = IF phase[o] = "registered" THEN "registered" ELSE "planned"]
  /\ spawn' = IF phase[o] = "registered"
              THEN [spawn EXCEPT ![o] = [y |-> session, crouching |-> crouching]] ELSE spawn
  /\ UNCHANGED <<present, player, task, lobby, view, queue, dropped>>

(* plan_lobby_join *)
PlanJoin(o) ==
  /\ Goto(o, "sending", "planned")
  /\ spawn' = [spawn EXCEPT ![o] = [y |-> session, crouching |-> crouching]]
  /\ UNCHANGED <<present, player, task, lobby, view, queue, dropped>>

(* join_visibility_packets_for_newcomer are written *)
WriteSpawn(o) ==
  /\ Goto(o, "planned", "play")
  /\ view' = [view EXCEPT ![o] = [spawn[o] EXCEPT !.y = Floored(@, Quantum[o])]]
  /\ UNCHANGED <<present, player, task, lobby, spawn, queue, dropped>>

(* What a packet does to what a client shows *)
Shown(shown, packet) ==
  CASE packet.kind = "relative" -> [shown EXCEPT !.y = @ + packet.value]
    [] packet.kind = "absolute" -> [shown EXCEPT !.y = packet.value]
    [] packet.kind = "crouch" -> [shown EXCEPT !.crouching = packet.value]

(* read(): broadcast_rx, and the packet reaches the client *)
Receive(o) ==
  /\ phase[o] = "play" /\ queue[o] # <<>>
  /\ view' = [view EXCEPT ![o] = Shown(@, Head(queue[o]))]
  /\ queue' = [queue EXCEPT ![o] = Tail(@)]
  /\ UNCHANGED <<present, player, task, lobby, phase, spawn, dropped>>

PlayerStep == (\E to \in {y - 1, y + 1} : Walk(to)) \/ Turn \/ (\E by \in 1..MaxFall : Fall(by)) \/ Crouch \/ Synchronize
TaskStep == HandleMove \/ HandleCrouch \/ Broadcast \/ IntervalPasses
ObserverStep(o) == Register(o) \/ SetSender(o) \/ PlanJoin(o) \/ WriteSpawn(o) \/ Receive(o)

Next == PlayerStep \/ TaskStep \/ \E o \in Observer : ObserverStep(o)

Spec == Init /\ [][Next]_vars

(* The tasks run, intervals pass, a client obeys; nobody has to move *)
Fairness ==
  /\ WF_vars(HandleMove \/ HandleCrouch \/ Broadcast) /\ SF_vars(IntervalPasses) /\ SF_vars(Synchronize)
  /\ \A o \in Observer : SF_vars(Receive(o)) /\ WF_vars(SetSender(o) \/ PlanJoin(o) \/ WriteSpawn(o))

(* A player in the void goes on falling *)
FallingFairness == Fairness /\ WF_vars(y < MinY /\ \E by \in 1..MaxFall : Fall(by))
FallingSpec == Spec /\ FallingFairness

----------------------------------------------------------------------------
Height == Bottom..Top

TypeOK ==
  /\ y \in Height /\ position \in Height /\ session \in Height
  /\ crouching \in {0, 1}
  /\ \A o \in Observer : Len(queue[o]) <= QueueCapacity
  /\ pending.recipients \subseteq Observer

(* What a client shows when the packets so far have arrived, and when all of
   its queue has *)
Showing(shown, packets) ==
  LET after[i \in 0..Len(packets)] == IF i = 0 THEN shown ELSE Shown(after[i - 1], packets[i])
  IN  after
After(o) == Showing(view[o], queue[o])[Len(queue[o])]

Hears(o) == phase[o] = "play" /\ ~dropped[o]

(* Movement is relative to the position the observers hold: whoever was
   there before sees the player where it was last broadcast, whatever the
   rate limit and the boundary suppress. *)
PresentHoldBase ==
  pending = NoPlan => \A o \in present : Hears(o) => After(o).y = session

(* The pose is never lost, whenever an observer joins: it is in the spawn
   packets or comes after them. *)
PoseIsShown ==
  pending = NoPlan => \A o \in Observer : Hears(o) => After(o).crouching = crouching

(* Players who fall below the boundary, no faster than the server expects
   and with a teleport message that renders, are teleported back. *)
FallersReturn == (y < MinY) ~> (y >= MinY)

==========================================================================
