------------------------------ MODULE Selector -----------------------------
(***************************************************************************)
(* The hotbar items and the menu of the server selector                     *)
(* (handlers/play/selector.rs, click_container.rs, close_container.rs,      *)
(* player_action.rs, visibility_toggle.rs; server_state/selector.rs).       *)
(*                                                                          *)
(* A client moves items on its own and tells the server afterwards; the     *)
(* server keeps no inventory, it answers by sending what should be there.   *)
(* Packets of both directions are under way meanwhile.  A place of a window *)
(* stands for its slot number: 36 + n for slot n of the hotbar in the       *)
(* player's own window, 54 + n below the menu.                              *)
(***************************************************************************)
EXTENDS Integers, Sequences, FiniteSets

CONSTANTS
  Hotbar, SelectorSlot, ToggleSlot,
  Pack,           \* the rest of the player's inventory
  Menu,           \* MENU_SIZE places
  Offers,         \* for each server, the places of the menu that slot_map knows
  Protocol,       \* what the client's version has: [stateIds, confirms : BOOLEAN]
  MaxWindowId,
  MaxInputs,      \* what the player does
  Outside         \* slot -999

ASSUME SelectorAssumption ==
  /\ {SelectorSlot, ToggleSlot} \subseteq Hotbar /\ SelectorSlot # ToggleSlot
  /\ Menu \cap (Hotbar \cup Pack) = {} /\ Outside \notin Menu \cup Hotbar \cup Pack
  /\ Offers \subseteq SUBSET Menu
  /\ Protocol \subseteq [stateIds : BOOLEAN, confirms : BOOLEAN]
  /\ MaxWindowId \in Nat \ {0} /\ MaxInputs \in Nat

VARIABLES
  \* the client
  window, stateId,  \* the window it shows (0: none but its own) and that window's state
  items, cursor,
  held,             \* the selected slot of its hotbar
  \* ClientState
  open,             \* open_selector: a set of at most one [window, state]
  nextWindow,
  selected,         \* selected_hotbar_slot
  visible,          \* players_visible
  \* the packets under way
  up, down,
  \* history
  protocol,         \* the client's version
  destinations,     \* the server's
  inputs,           \* how often the player did something
  unanswered,       \* a click on a lobby item reached the server after its menu was gone, and
                    \* the contents of the inventory were not sent since
  blind             \* a click on a destination's place that showed another item

client == <<window, stateId, items, cursor, held>>
server == <<open, nextWindow, selected, visible>>
chosen == <<protocol, destinations>>
history == <<chosen, inputs, unanswered, blind>>
vars == <<client, server, up, down, history>>

(* 1.17.1 and later: state ids, and a cursor in SetContainerContent.        *)
(* 1.12.2 and before: ConfirmTransaction                                    *)
HasStateIds == protocol.stateIds
Confirms == protocol.confirms

Inventory == Hotbar \union Pack
Places == Inventory \union Menu

(* build_hotbar_packet of both items, and empty slots *)
LobbyItem(place, shows) ==
  CASE place = SelectorSlot -> "selector"
    [] place = ToggleSlot -> IF shows THEN "visible" ELSE "hidden"
    [] OTHER -> "none"

MenuItem(place) == IF place \in destinations THEN "destination" ELSE "filler"

(* send_selector_item_packet, send_visibility_toggle_item_packet *)
Init ==
  /\ window = 0 /\ stateId = 0 /\ cursor = "none" /\ held \in Hotbar
  /\ items = [place \in Places |-> IF place \in Inventory THEN LobbyItem(place, TRUE) ELSE "none"]
  /\ open = {} /\ nextWindow = 1 /\ selected = held /\ visible = TRUE
  /\ up = <<>> /\ down = <<>>
  /\ protocol \in Protocol /\ destinations \in Offers
  /\ inputs = 0 /\ unanswered = FALSE /\ blind = FALSE

----------------------------------------------------------------------------
(* The client *)

Does(packets) ==
  /\ inputs < MaxInputs
  /\ inputs' = inputs + 1
  /\ up' = up \o packets
  /\ UNCHANGED <<chosen, server, down, unanswered, blind>>

Packet(kind) == [kind |-> kind]

UseItem ==
  /\ window = 0 /\ items[held] # "none"
  /\ Does(<<Packet("use")>>)
  /\ UNCHANGED client

HoldItem(slot) ==
  /\ window = 0 /\ slot # held
  /\ held' = slot
  /\ Does(<<[kind |-> "hold", slot |-> slot]>>)
  /\ UNCHANGED <<window, stateId, items, cursor>>

DropSelected ==
  /\ window = 0 /\ items[held] # "none"
  /\ items' = [items EXCEPT ![held] = "none"]
  /\ Does(<<Packet("drop")>>)
  /\ UNCHANGED <<window, stateId, cursor, held>>

CloseMenu ==
  /\ window # 0
  /\ Does(<<[kind |-> "close", window |-> window]>>)
  /\ window' = 0 /\ cursor' = "none"
  /\ UNCHANGED <<stateId, items, held>>

(* A click: the mode, the place, the number key, and what the place showed *)
Click(mode, place, button) ==
  [kind |-> "click", window |-> window, state |-> stateId, mode |-> mode, place |-> place, button |-> button,
   shown |-> IF place = Outside THEN "none" ELSE items[place]]

Shown == IF window = 0 THEN Inventory ELSE Places
NoKey == Outside

PickUp(place) ==
  /\ items' = [items EXCEPT ![place] = cursor] /\ cursor' = items[place]
  /\ Does(<<Click("pickup", place, NoKey)>>)

DropOutside ==
  /\ cursor' = "none" /\ UNCHANGED items
  /\ Does(<<Click("pickup", Outside, NoKey)>>)

(* To a free place of the other part of the window *)
ShiftClick(place) ==
  /\ items[place] # "none"
  /\ \E to \in {free \in Shown : items[free] = "none"} :
       /\ CASE window # 0 -> place \in Menu <=> to \in Inventory
            [] OTHER -> place \in Hotbar <=> to \in Pack
       /\ items' = [items EXCEPT ![place] = "none", ![to] = items[place]]
  /\ UNCHANGED cursor
  /\ Does(<<Click("shift", place, NoKey)>>)

NumberKey(place, slot) ==
  /\ place # slot
  /\ items' = [items EXCEPT ![place] = items[slot], ![slot] = items[place]]
  /\ UNCHANGED cursor
  /\ Does(<<Click("number", place, slot)>>)

Throw(place) ==
  /\ items[place] # "none" /\ cursor = "none"
  /\ items' = [items EXCEPT ![place] = "none"]
  /\ UNCHANGED cursor
  /\ Does(<<Click("throw", place, NoKey)>>)

(* Start, place and end are sent when the button is let go *)
Drag(place) ==
  /\ cursor # "none" /\ items[place] = "none"
  /\ items' = [items EXCEPT ![place] = cursor] /\ cursor' = "none"
  /\ Does(<<Click("drag", Outside, NoKey), Click("drag", place, NoKey), Click("drag", Outside, NoKey)>>)

(* A double click takes everything like the item on the cursor *)
Collect(place) ==
  /\ cursor # "none"
  /\ items' = [other \in Places |-> IF other \in Shown /\ items[other] = cursor THEN "none" ELSE items[other]]
  /\ UNCHANGED cursor
  /\ Does(<<Click("collect", place, NoKey)>>)

ClickWindow ==
  /\ \/ \E place \in Shown : \/ PickUp(place) \/ ShiftClick(place) \/ Throw(place) \/ Drag(place) \/ Collect(place)
                             \/ \E slot \in Hotbar : NumberKey(place, slot)
     \/ DropOutside
  /\ UNCHANGED <<window, stateId, held>>

(* What a packet does: a content for the player's own window holds in every
   window, and clears the cursor of the window it is for *)
Content(places, shows) ==
  [place \in Places |-> IF place \notin places THEN items[place]
                        ELSE IF place \in Menu THEN MenuItem(place) ELSE LobbyItem(place, shows)]

Clears == cursor' = IF HasStateIds THEN "none" ELSE cursor

Receives ==
  /\ down # <<>> /\ down' = Tail(down)
  /\ LET packet == Head(down) IN
     CASE packet.kind = "open" ->
            /\ window' = packet.window /\ stateId' = 0 /\ cursor' = "none"
            /\ items' = [place \in Places |-> IF place \in Menu THEN "none" ELSE items[place]]
            /\ UNCHANGED up
       [] packet.kind = "content" /\ packet.window = 0 ->
            /\ items' = Content(packet.places, packet.visible)
            /\ IF window = 0 THEN Clears ELSE UNCHANGED cursor
            /\ UNCHANGED <<window, stateId, up>>
       [] packet.kind = "content" /\ packet.window # 0 ->
            /\ IF packet.window = window
               THEN items' = Content(packet.places, packet.visible) /\ stateId' = packet.state /\ Clears
               ELSE UNCHANGED <<items, stateId, cursor>>
            /\ UNCHANGED <<window, up>>
       [] packet.kind = "close" ->
            /\ window' = 0 /\ cursor' = "none"
            /\ UNCHANGED <<stateId, items, up>>
       [] packet.kind = "confirm" ->
            /\ up' = Append(up, packet)
            /\ UNCHANGED <<window, stateId, items, cursor>>
       [] OTHER -> UNCHANGED <<window, stateId, items, cursor, up>>
  /\ UNCHANGED <<held, server, history>>

----------------------------------------------------------------------------
(* The server *)

Takes(kind) == up # <<>> /\ Head(up).kind = kind /\ up' = Tail(up)
Queue(packets) == down' = down \o packets

ContentOf(id, state, places) ==
  [kind |-> "content", window |-> id, state |-> state, places |-> places, visible |-> visible]

(* resync_lobby_inventory *)
ResyncInventory(needed) == IF needed THEN <<ContentOf(0, 0, Inventory)>> ELSE <<>>

SetHeldItem ==
  /\ Takes("hold")
  /\ selected' = Head(up).slot
  /\ UNCHANGED <<client, open, nextWindow, visible, down, history>>

AllocateWindowId == nextWindow' = IF nextWindow >= MaxWindowId THEN 1 ELSE nextWindow + 1

CloseContainerPackets == {[kind |-> "close", window |-> old.window] : old \in open}

(* open_selector_for_selected_slot: the old menu is closed, the new one is sent *)
OpenSelector ==
  /\ Takes("use") /\ selected = SelectorSlot /\ destinations # {}
  /\ AllocateWindowId
  /\ open' = {[window |-> nextWindow, state |-> 1]}
  /\ Queue((IF open = {} THEN <<>> ELSE <<CHOOSE packet \in CloseContainerPackets : TRUE>>)
           \o <<[kind |-> "open", window |-> nextWindow], ContentOf(nextWindow, 1, Menu)>>)
  /\ UNCHANGED <<chosen, client, selected, visible, inputs, unanswered, blind>>

(* handle_visibility_toggle: what it shows and hides is LobbyConnections' *)
ToggleVisibility ==
  /\ Takes("use") /\ selected = ToggleSlot
  /\ visible' = ~visible
  /\ Queue(<<[ContentOf(0, 0, {ToggleSlot}) EXCEPT !.visible = visible']>>)
  /\ UNCHANGED <<client, open, nextWindow, selected, history>>

UseOther ==
  /\ Takes("use") /\ \/ selected \notin {SelectorSlot, ToggleSlot}
                     \/ selected = SelectorSlot /\ destinations = {}
  /\ UNCHANGED <<client, server, down, history>>

PlayerAction ==
  /\ Takes("drop")
  /\ Queue(ResyncInventory(selected \in {SelectorSlot, ToggleSlot}))
  /\ unanswered' = (unanswered /\ selected \notin {SelectorSlot, ToggleSlot})
  /\ UNCHANGED <<chosen, client, server, inputs, blind>>

(* As CloseContainer, whichever window it is *)
CloseContainer_Any ==
  /\ Takes("close")
  /\ open' = {}
  /\ UNCHANGED <<client, nextWindow, selected, visible, down, history>>

CloseContainer ==
  /\ Takes("close")
  /\ open' = {old \in open : old.window # Head(up).window}
  /\ UNCHANGED <<client, nextWindow, selected, visible, down, history>>

ConfirmTransaction ==
  /\ Takes("confirm")
  /\ UNCHANGED <<client, server, down, history>>

Opens(click) == {old \in open : old.window = click.window}

(* protected_container_slot, of any window that shows the slot *)
TouchesLobbyItem(click) == click.mode \in {"drag", "collect"} \/ click.place \in {SelectorSlot, ToggleSlot}

(* As AffectsLobbyItem, without the number keys *)
AffectsLobbyItem_NoNumberKey(click) == (click.window = 0 \/ Opens(click) # {}) /\ TouchesLobbyItem(click)

(* click_affects_lobby_hotbar_item: in the player's own window and in the
   menu that is open *)
AffectsLobbyItem(click) ==
  \/ click.mode = "number" /\ click.button \in {SelectorSlot, ToggleSlot}
  \/ (click.window = 0 \/ Opens(click) # {}) /\ TouchesLobbyItem(click)

Confirm(click) == IF Confirms THEN <<[kind |-> "confirm", window |-> click.window]>> ELSE <<>>

(* The windows that are not the open menu *)
ClickElsewhere ==
  /\ Takes("click")
  /\ LET click == Head(up) IN
     /\ Opens(click) = {}
     /\ Queue(IF AffectsLobbyItem(click) THEN Confirm(click) \o ResyncInventory(TRUE) ELSE <<>>)
     /\ unanswered' = (~AffectsLobbyItem(click) /\ (unanswered \/ TouchesLobbyItem(click)))
  /\ UNCHANGED <<chosen, client, server, inputs, blind>>

(* As Selects, by the place alone *)
Selects_AnyState(menu, click) ==
  click.mode = "pickup" /\ click.place \in destinations

(* SelectorClick::Select *)
Selects(menu, click) ==
  /\ click.mode = "pickup" /\ click.place \in destinations
  /\ HasStateIds => click.state = menu.state

Select ==
  /\ Takes("click")
  /\ \E menu \in Opens(Head(up)) : Selects(menu, Head(up))
  /\ open' = {}
  /\ Queue(Confirm(Head(up)) \o <<Packet("connect"), [kind |-> "close", window |-> Head(up).window]>>)
  /\ blind' = (blind \/ Head(up).shown # "destination")
  /\ UNCHANGED <<chosen, client, nextWindow, selected, visible, inputs, unanswered>>

(* full_selector_window_slots *)
FullWindow == Places

(* SelectorClick::RequiresResync *)
Resync ==
  /\ Takes("click")
  /\ LET click == Head(up) IN
     \E menu \in Opens(click) :
       /\ click.place # Outside /\ ~Selects(menu, click)
       /\ open' = {[menu EXCEPT !.state = @ + 1]}
       /\ Queue(Confirm(click) \o <<ContentOf(menu.window, menu.state + 1, FullWindow)>>
                \o ResyncInventory(AffectsLobbyItem(click)))
       /\ unanswered' = (unanswered /\ ~AffectsLobbyItem(click))
  /\ UNCHANGED <<chosen, client, nextWindow, selected, visible, inputs, blind>>

(* SelectorClick::Ignored *)
Ignore ==
  /\ Takes("click") /\ Opens(Head(up)) # {} /\ Head(up).place = Outside
  /\ UNCHANGED <<client, server, down, history>>

PlayerStep == UseItem \/ (\E slot \in Hotbar : HoldItem(slot)) \/ DropSelected \/ CloseMenu \/ ClickWindow
ClickStep == ClickElsewhere \/ Select \/ Resync \/ Ignore
TaskStep == SetHeldItem \/ OpenSelector \/ ToggleVisibility \/ UseOther \/ PlayerAction \/ CloseContainer
            \/ ConfirmTransaction \/ ClickStep

Next == PlayerStep \/ Receives \/ TaskStep

Spec == Init /\ [][Next]_vars

----------------------------------------------------------------------------
Item == {"none", "selector", "visible", "hidden", "destination", "filler"}

TypeOK ==
  /\ window \in 0..MaxWindowId /\ nextWindow \in 1..MaxWindowId
  /\ items \in [Places -> Item] /\ cursor \in Item
  /\ held \in Hotbar /\ selected \in Hotbar
  /\ Cardinality(open) <= 1

Quiet == up = <<>> /\ down = <<>>

(* The server takes the clicks of the window the client shows for that
   window's and nothing for an older one's. *)
WindowsAgree ==
  Quiet => {menu.window : menu \in open} = {window} \ {0}

(* Who is sent to a server clicked on its item: not on a place from which
   the client has already taken the item.  Only state ids can tell. *)
SelectsWhatIsShown == HasStateIds => ~blind

(* The items of the lobby are in their places, and show whether players are
   visible, whatever the player did with them in its own window and in a menu
   that was still open when the click arrived.  A click on an item below a
   menu that was gone by then is not answered: protected_container_slot knows
   only the two windows.  The client keeps what it predicted, until the next
   click or drop that the server does answer brings everything back. *)
ItemsAreInPlace ==
  Quiet /\ ~unanswered => \A slot \in {SelectorSlot, ToggleSlot} : items[slot] = LobbyItem(slot, visible)

============================================================================
