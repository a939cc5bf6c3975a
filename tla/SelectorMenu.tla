---------------------------- MODULE SelectorMenu ---------------------------
(***************************************************************************)
(* Which destinations the selector menu shows, and where:                   *)
(* set_lobby_destinations takes the configured entries one by one or        *)
(* refuses them all, build_selector_menu lays out what it took for the      *)
(* version of one player.                                                   *)
(***************************************************************************)
EXTENDS Integers, Sequences, FiniteSets, SequencesExt

CONSTANTS
  Id, MENU_SIZE,
  Auto,           \* an entry without a slot
  Known,          \* the destinations whose item the player's version knows
  Filler,         \* the filler the version knows, or Empty
  Empty, Paper

Slots == 0..MENU_SIZE - 1
Destination == [id : Id, slot : (0..MENU_SIZE) \union {Auto}]

(* set_lobby_destinations: every entry against those before it.             *)
Accepted(destinations) ==
  \A i \in DOMAIN destinations :
    /\ \A j \in 1..i - 1 : destinations[j].id # destinations[i].id
    /\ destinations[i].slot # Auto =>
         /\ destinations[i].slot \in Slots
         /\ \A j \in 1..i - 1 : destinations[j].slot # destinations[i].slot

----------------------------------------------------------------------------
(* build_destination_slot *)
ItemOf(entry) == [of |-> entry.id, item |-> IF entry.id \in Known THEN entry.id ELSE Paper]

Background == [of |-> Empty, item |-> Filler]

(* A menu: the item of each slot, and slot_map *)
NoMenu == [slots |-> [i \in Slots |-> Background], map |-> [i \in Slots |-> Empty]]

Place(menu, slot, entry) ==
  [slots |-> [menu.slots EXCEPT ![slot] = ItemOf(entry)], map |-> [menu.map EXCEPT ![slot] = entry.id]]

(* The first pass: an explicit slot, if it is free *)
PlaceExplicit(menu, entry) ==
  IF entry.slot \in Slots /\ menu.map[entry.slot] = Empty THEN Place(menu, entry.slot, entry) ELSE menu

(* The second pass: the first free slot *)
PlaceAuto(menu, entry) ==
  LET free == {i \in Slots : menu.map[i] = Empty}
  IN  IF entry.slot # Auto \/ free = {} THEN menu
      ELSE Place(menu, CHOOSE i \in free : \A j \in free : i <= j, entry)

(* As build_selector_menu, in one pass *)
build_selector_menu_OnePass(destinations) ==
  FoldLeft(LAMBDA menu, entry : IF entry.slot = Auto THEN PlaceAuto(menu, entry) ELSE PlaceExplicit(menu, entry),
           NoMenu, destinations)

build_selector_menu(destinations) ==
  FoldLeft(PlaceAuto, FoldLeft(PlaceExplicit, NoMenu, destinations), destinations)
============================================================================
