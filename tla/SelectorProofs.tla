------------------------------ MODULE SelectorProofs -----------------------------
(***************************************************************************)
(* Proofs about the hotbar and the menu, for any slots, menus, versions and *)
(* number of inputs.                                                       *)
(***************************************************************************)
EXTENDS Selector, SequenceTheorems, TLAPS

Kept == {SelectorSlot, ToggleSlot}

(* The slot the server takes for the selected one when it comes to place i *)
(* of what the client sent, if it starts from first.                       *)
SelectedAt(sent, first, i, slot) ==
  \/ \E j \in 1..i-1 : /\ sent[j].kind = "hold" /\ sent[j].slot = slot
                       /\ \A k \in j+1..i-1 : sent[k].kind # "hold"
  \/ (\A k \in 1..i-1 : sent[k].kind # "hold") /\ slot = first

(* A click after which the server sends the items of the lobby again, or   *)
(* which is for a window that is gone.                                     *)
Protected(click) ==
  /\ click.place # Outside
  /\ \/ click.mode = "number" /\ click.button \in Kept
     \/ click.mode \in {"drag", "collect"}
     \/ click.place \in Kept

(* The packet at place i will make the server send the items again.        *)
Repairs(sent, first, i) ==
  \/ sent[i].kind = "click" /\ Protected(sent[i])
  \/ sent[i].kind = "drop" /\ \E slot \in Kept : SelectedAt(sent, first, i, slot)

(* Once it has read what was queued, the client shows the lobby's item: it *)
(* does already, or the content that says so is among it.                  *)
Covers(packet, slot) == packet.kind = "content" /\ slot \in packet.places
WillShow(queued, shown, slot, item) ==
  \E i \in 0..Len(queued) :
    /\ IF i = 0 THEN shown = item ELSE Covers(queued[i], slot) /\ queued[i].window = 0
    /\ \A j \in 1..Len(queued) :
         j >= i /\ Covers(queued[j], slot) => LobbyItem(slot, queued[j].visible) = item

SelectionFollows == SelectedAt(up, selected, Len(up) + 1, held)

ItemsComeBack ==
  \A slot \in Kept :
    \/ unanswered
    \/ \E i \in DOMAIN up : Repairs(up, selected, i)
    \/ WillShow(down, items[slot], slot, LobbyItem(slot, visible))

Mode == {"pickup", "shift", "number", "throw", "drag", "collect"}
Sent ==
  [kind : {"use", "drop"}] \cup [kind : {"hold"}, slot : Hotbar]
  \cup [kind : {"close", "confirm"}, window : Nat]
  \cup [kind : {"click"}, window : Nat, state : Nat, mode : Mode, place : Places \cup {Outside},
        button : Hotbar \cup {Outside}, shown : Item]
Queued ==
  [kind : {"connect"}] \cup [kind : {"open", "close", "confirm"}, window : Nat]
  \cup [kind : {"content"}, window : Nat, state : Nat, places : SUBSET Places, visible : BOOLEAN]

VariablesTyped ==
  /\ window \in Nat /\ stateId \in Nat /\ items \in [Places -> Item] /\ cursor \in Item /\ held \in Hotbar
  /\ open \in SUBSET [window : Nat \ {0}, state : Nat]
  /\ nextWindow \in 1..MaxWindowId /\ selected \in Hotbar /\ visible \in BOOLEAN
  /\ up \in Seq(Sent) /\ down \in Seq(Queued)
  /\ destinations \subseteq Menu /\ protocol \in Protocol
  /\ inputs \in Nat /\ unanswered \in BOOLEAN

-------------------------------------------------------------------------------
(* Sequences of packets                                                    *)

LEMMA Joined ==
  ASSUME NEW S, NEW q \in Seq(S), NEW p \in Seq(S)
  PROVE  /\ q \o p \in Seq(S) /\ Len(q \o p) = Len(q) + Len(p) /\ Len(q) \in Nat /\ Len(p) \in Nat
         /\ DOMAIN (q \o p) = 1..Len(q) + Len(p) /\ DOMAIN q = 1..Len(q) /\ DOMAIN p = 1..Len(p)
         /\ \A i \in 1..Len(q) : (q \o p)[i] = q[i]
         /\ \A k \in 1..Len(p) : (q \o p)[Len(q) + k] = p[k]
OBVIOUS

LEMMA Shifted ==
  ASSUME NEW S, NEW q \in Seq(S), q # <<>>
  PROVE  /\ Tail(q) \in Seq(S) /\ Len(Tail(q)) = Len(q) - 1 /\ Len(q) \in Nat /\ Len(q) >= 1
         /\ Head(q) = q[1] /\ Head(q) \in S /\ DOMAIN Tail(q) = 1..Len(q) - 1 /\ DOMAIN q = 1..Len(q)
         /\ \A i \in 1..Len(q) - 1 : Tail(q)[i] = q[i + 1]
OBVIOUS

(* What is sent later changes nothing about what was sent.                 *)
LEMMA SelectedBefore ==
  ASSUME NEW q \in Seq(Sent), NEW p \in Seq(Sent), NEW first, NEW slot,
         NEW i \in 1..Len(q) + 1
  PROVE  SelectedAt(q \o p, first, i, slot) <=> SelectedAt(q, first, i, slot)
<1>1. \A j \in 1..i - 1 : (q \o p)[j] = q[j]
  BY Joined
<1> QED
  BY <1>1 DEF SelectedAt

LEMMA RepairsBefore ==
  ASSUME NEW q \in Seq(Sent), NEW p \in Seq(Sent), NEW first, NEW i \in DOMAIN q, Repairs(q, first, i)
  PROVE  i \in DOMAIN (q \o p) /\ Repairs(q \o p, first, i)
<1>1. i \in 1..Len(q) /\ i \in 1..Len(q) + 1 /\ (q \o p)[i] = q[i] /\ i \in DOMAIN (q \o p)
  BY Joined
<1> QED
  BY <1>1, SelectedBefore DEF Repairs

(* When the first packet has been taken, the others are a place nearer.    *)
LEMMA SelectedAfter ==
  ASSUME NEW q \in Seq(Sent), q # <<>>, NEW first, NEW slot, NEW i \in 1..Len(q),
         SelectedAt(q, first, i + 1, slot)
  PROVE  SelectedAt(Tail(q), IF Head(q).kind = "hold" THEN Head(q).slot ELSE first, i, slot)
<1> DEFINE rest == Tail(q)
           next == IF Head(q).kind = "hold" THEN Head(q).slot ELSE first
<1>1. Len(q) \in Nat /\ Head(q) = q[1] /\ \A j \in 1..i - 1 : rest[j] = q[j + 1]
  BY Shifted
<1> HIDE DEF rest
<1>2. CASE \E j \in 1..i : q[j].kind = "hold" /\ q[j].slot = slot /\ \A k \in j+1..i : q[k].kind # "hold"
  <2>1. PICK j \in 1..i : q[j].kind = "hold" /\ q[j].slot = slot /\ \A k \in j+1..i : q[k].kind # "hold"
    BY <1>2
  <2>2. CASE j = 1
    <3>1. \A k \in 1..i - 1 : rest[k].kind # "hold"
      BY <1>1, <2>1, <2>2
    <3> QED
      BY <1>1, <2>1, <2>2, <3>1 DEF SelectedAt, rest
  <2>3. CASE j # 1
    <3>1. j - 1 \in 1..i - 1 /\ rest[j - 1] = q[j]
      BY <1>1, <2>3
    <3>2. \A k \in (j - 1) + 1..i - 1 : rest[k].kind # "hold"
      BY <1>1, <2>1
    <3> QED
      BY <2>1, <3>1, <3>2 DEF SelectedAt, rest
  <2> QED
    BY <2>2, <2>3
<1>3. CASE (\A k \in 1..i : q[k].kind # "hold") /\ slot = first
  <2>1. \A k \in 1..i - 1 : rest[k].kind # "hold"
    BY <1>1, <1>3
  <2> QED
    BY <1>1, <1>3, <2>1 DEF SelectedAt, rest
<1>4. (i + 1) - 1 = i
  OBVIOUS
<1> QED
  BY <1>2, <1>3, <1>4 DEF SelectedAt

LEMMA RepairsAfter ==
  ASSUME NEW q \in Seq(Sent), NEW first, NEW i \in DOMAIN q, i # 1, Repairs(q, first, i)
  PROVE  \E j \in DOMAIN Tail(q) : Repairs(Tail(q), IF Head(q).kind = "hold" THEN Head(q).slot ELSE first, j)
<1>1. q # <<>> /\ i - 1 \in DOMAIN Tail(q) /\ Tail(q)[i - 1] = q[i] /\ i - 1 \in 1..Len(q) /\ (i - 1) + 1 = i
  BY Shifted
<1>2. ASSUME NEW slot, SelectedAt(q, first, i, slot)
      PROVE  SelectedAt(Tail(q), IF Head(q).kind = "hold" THEN Head(q).slot ELSE first, i - 1, slot)
  BY <1>1, <1>2, SelectedAfter
<1> QED
  BY <1>1, <1>2 DEF Repairs

-------------------------------------------------------------------------------
(* What the client will show                                               *)

(* More packets that say the same, or nothing of the slot.                 *)
LEMMA StillShows ==
  ASSUME NEW q \in Seq(Queued), NEW p \in Seq(Queued), NEW shown, NEW slot, NEW item,
         WillShow(q, shown, slot, item),
         \A k \in 1..Len(p) : Covers(p[k], slot) => LobbyItem(slot, p[k].visible) = item
  PROVE  WillShow(q \o p, shown, slot, item)
<1> DEFINE all == q \o p
<1>1. PICK i \in 0..Len(q) :
        /\ IF i = 0 THEN shown = item ELSE Covers(q[i], slot) /\ q[i].window = 0
        /\ \A j \in 1..Len(q) : j >= i /\ Covers(q[j], slot) => LobbyItem(slot, q[j].visible) = item
  BY DEF WillShow
<1>2. /\ Len(all) = Len(q) + Len(p) /\ Len(q) \in Nat /\ Len(p) \in Nat
      /\ \A j \in 1..Len(q) : all[j] = q[j]
      /\ \A k \in 1..Len(p) : all[Len(q) + k] = p[k]
  BY Joined
<1> HIDE DEF all
<1>3. ASSUME NEW j \in 1..Len(all), j >= i, Covers(all[j], slot)
      PROVE  LobbyItem(slot, all[j].visible) = item
  <2>1. CASE j \in 1..Len(q)
    BY <1>1, <1>2, <1>3, <2>1
  <2>2. CASE j \notin 1..Len(q)
    <3>1. j - Len(q) \in 1..Len(p) /\ Len(q) + (j - Len(q)) = j
      BY <1>2, <2>2
    <3> QED
      BY <1>2, <1>3, <3>1
  <2> QED
    BY <2>1, <2>2
<1>4. IF i = 0 THEN shown = item ELSE Covers(all[i], slot) /\ all[i].window = 0
  BY <1>1, <1>2
<1> QED
  BY <1>2, <1>3, <1>4 DEF WillShow, all

(* A content of the player's own window, and nothing else after it.        *)
LEMMA ShowsAgain ==
  ASSUME NEW q \in Seq(Queued), NEW p \in Seq(Queued), NEW shown, NEW slot, NEW item,
         NEW last \in 1..Len(p), Covers(p[last], slot), p[last].window = 0,
         \A k \in 1..Len(p) : Covers(p[k], slot) => LobbyItem(slot, p[k].visible) = item
  PROVE  WillShow(q \o p, shown, slot, item)
<1> DEFINE all == q \o p
           i == Len(q) + last
<1>1. /\ Len(all) = Len(q) + Len(p) /\ Len(q) \in Nat /\ Len(p) \in Nat
      /\ \A k \in 1..Len(p) : all[Len(q) + k] = p[k]
  BY Joined
<1> HIDE DEF all
<1>2. i \in 1..Len(all) /\ all[i] = p[last] /\ i # 0
  BY <1>1
<1>3. ASSUME NEW j \in 1..Len(all), j >= i, Covers(all[j], slot)
      PROVE  LobbyItem(slot, all[j].visible) = item
  <2>1. j - Len(q) \in 1..Len(p) /\ Len(q) + (j - Len(q)) = j
    BY <1>1, <1>3
  <2> QED
    BY <1>1, <1>3, <2>1
<1> QED
  BY <1>2, <1>3 DEF WillShow, all

(* What is queued decides, where the client shows another item.            *)
LEMMA ShowsWhateverNow ==
  ASSUME NEW q, NEW shown, NEW other, NEW slot, NEW item, shown # item, WillShow(q, shown, slot, item)
  PROVE  WillShow(q, other, slot, item)
BY DEF WillShow

(* A packet is read.                                                       *)
LEMMA ShowsAfterReading ==
  ASSUME NEW q \in Seq(Queued), q # <<>>, NEW shown, NEW next, NEW slot, NEW item,
         WillShow(q, shown, slot, item),
         next \in {shown} \cup IF Covers(q[1], slot) THEN {LobbyItem(slot, q[1].visible)} ELSE {},
         Covers(q[1], slot) /\ q[1].window = 0 => next = LobbyItem(slot, q[1].visible)
  PROVE  WillShow(Tail(q), next, slot, item)
<1> DEFINE rest == Tail(q)
<1>1. PICK i \in 0..Len(q) :
        /\ IF i = 0 THEN shown = item ELSE Covers(q[i], slot) /\ q[i].window = 0
        /\ \A j \in 1..Len(q) : j >= i /\ Covers(q[j], slot) => LobbyItem(slot, q[j].visible) = item
  BY DEF WillShow
<1>2. /\ Len(rest) = Len(q) - 1 /\ Len(q) \in Nat /\ Len(q) >= 1
      /\ \A j \in 1..Len(rest) : rest[j] = q[j + 1]
  BY Shifted
<1> HIDE DEF rest
<1>3. CASE i \in {0, 1}
  <2>1. next = item
    BY <1>1, <1>2, <1>3
  <2>2. \A j \in 1..Len(rest) : Covers(rest[j], slot) => LobbyItem(slot, rest[j].visible) = item
    BY <1>1, <1>2, <1>3
  <2>3. 0 \in 0..Len(rest)
    BY <1>2
  <2> QED
    BY <2>1, <2>2, <2>3 DEF WillShow, rest
<1>4. CASE i \notin {0, 1}
  <2>1. i - 1 \in 1..Len(rest) /\ rest[i - 1] = q[i] /\ i - 1 # 0
    BY <1>1, <1>2, <1>4
  <2>2. \A j \in 1..Len(rest) :
          j >= i - 1 /\ Covers(rest[j], slot) => LobbyItem(slot, rest[j].visible) = item
    BY <1>1, <1>2
  <2>3. Covers(rest[i - 1], slot) /\ rest[i - 1].window = 0
    BY <1>1, <1>4, <2>1
  <2> QED
    BY <2>1, <2>2, <2>3 DEF WillShow, rest
<1> QED
  BY <1>3, <1>4

-------------------------------------------------------------------------------
(* The player's steps                                                      *)

LEMMA KeptItems ==
  /\ Kept \subseteq Hotbar /\ Kept \subseteq Inventory /\ Kept \cap Menu = {} /\ Outside \notin Places
  /\ \A slot \in Kept : \A shows : LobbyItem(slot, shows) # "none"
  /\ \A place, shows : LobbyItem(place, shows) \in Item
  /\ \A shows, other : LobbyItem(SelectorSlot, shows) = LobbyItem(SelectorSlot, other)
BY SelectorAssumption DEF Kept, LobbyItem, Inventory, Places, Item

(* A player who takes a lobby item out of its slot sends something that    *)
(* brings it back.                                                         *)
LEMMA DoesItemsComeBack ==
  ASSUME VariablesTyped, ItemsComeBack, NEW p \in Seq(Sent), up' = up \o p,
         UNCHANGED <<selected, visible, down, unanswered>>,
         \A slot \in Kept : \/ items'[slot] = items[slot] \/ items[slot] = "none"
                            \/ \E k \in 1..Len(p) : Repairs(up \o p, selected, Len(up) + k)
  PROVE  ItemsComeBack'
<1> SUFFICES ASSUME NEW slot \in Kept
             PROVE  \/ unanswered
                    \/ \E i \in DOMAIN (up \o p) : Repairs(up \o p, selected, i)
                    \/ WillShow(down, items'[slot], slot, LobbyItem(slot, visible))
  BY DEF ItemsComeBack
<1> USE DEF VariablesTyped
<1>1. CASE \E i \in DOMAIN up : Repairs(up, selected, i)
  BY <1>1, RepairsBefore
<1>2. CASE \E k \in 1..Len(p) : Repairs(up \o p, selected, Len(up) + k)
  <2>1. \A k \in 1..Len(p) : Len(up) + k \in DOMAIN (up \o p)
    BY Joined
  <2> QED
    BY <1>2, <2>1
<1>3. CASE items[slot] = "none" /\ WillShow(down, items[slot], slot, LobbyItem(slot, visible))
  BY <1>3, KeptItems, ShowsWhateverNow
<1> QED
  BY <1>1, <1>2, <1>3 DEF ItemsComeBack

(* What Does leaves alone, and the types of what it changes.               *)
LEMMA DoesTyped ==
  ASSUME VariablesTyped, NEW p \in Seq(Sent), Does(p)
  PROVE  /\ up' = up \o p /\ up' \in Seq(Sent) /\ inputs' \in Nat
         /\ UNCHANGED <<protocol, destinations, open, nextWindow, selected, visible, down, unanswered, blind>>
BY Joined DEF Does, VariablesTyped, chosen, server

LEMMA OnePacket ==
  ASSUME NEW packet \in Sent
  PROVE  <<packet>> \in Seq(Sent) /\ Len(<<packet>>) = 1 /\ <<packet>>[1] = packet
OBVIOUS

(* A packet that selects nothing leaves the selection of the server to be  *)
(* what the client's will be.                                              *)
LEMMA SelectionKept ==
  ASSUME VariablesTyped, SelectionFollows, NEW p \in Seq(Sent), up' = up \o p,
         \A k \in 1..Len(p) : p[k].kind # "hold", UNCHANGED <<selected, held>>
  PROVE  SelectionFollows'
<1> DEFINE all == up \o p
<1> USE DEF VariablesTyped
<1>1. /\ Len(all) = Len(up) + Len(p) /\ Len(up) \in Nat /\ Len(p) \in Nat
      /\ \A j \in 1..Len(up) : all[j] = up[j]
      /\ \A k \in 1..Len(p) : all[Len(up) + k] = p[k]
  BY Joined
<1> HIDE DEF all
<1>2. \A j \in Len(up) + 1..Len(all) : all[j].kind # "hold"
  <2> SUFFICES ASSUME NEW j \in Len(up) + 1..Len(all) PROVE all[j].kind # "hold"
    OBVIOUS
  <2>1. j - Len(up) \in 1..Len(p) /\ Len(up) + (j - Len(up)) = j
    BY <1>1
  <2> QED
    BY <1>1, <2>1
<1>3. SelectedAt(up, selected, Len(up) + 1, held)
  BY DEF SelectionFollows
<1>4. SelectedAt(all, selected, Len(all) + 1, held)
  <2>1. (Len(up) + 1) - 1 = Len(up) /\ (Len(all) + 1) - 1 = Len(all)
    BY <1>1
  <2>2. CASE \E j \in 1..Len(up) : /\ up[j].kind = "hold" /\ up[j].slot = held
                                   /\ \A k \in j+1..Len(up) : up[k].kind # "hold"
    <3>1. PICK j \in 1..Len(up) : /\ up[j].kind = "hold" /\ up[j].slot = held
                                  /\ \A k \in j+1..Len(up) : up[k].kind # "hold"
      BY <2>2
    <3>2. ASSUME NEW k \in j+1..Len(all) PROVE all[k].kind # "hold"
      <4>1. k \in j+1..Len(up) \/ k \in Len(up) + 1..Len(all)
        BY <1>1
      <4>2. k \in 1..Len(up) \/ k \in Len(up) + 1..Len(all)
        BY <1>1
      <4> QED
        BY <1>1, <1>2, <3>1, <4>1, <4>2
    <3>3. j \in 1..Len(all) /\ all[j] = up[j]
      BY <1>1
    <3> QED
      BY <2>1, <3>1, <3>2, <3>3 DEF SelectedAt
  <2>3. CASE (\A k \in 1..Len(up) : up[k].kind # "hold") /\ held = selected
    <3>1. ASSUME NEW k \in 1..Len(all) PROVE all[k].kind # "hold"
      <4>1. k \in 1..Len(up) \/ k \in Len(up) + 1..Len(all)
        BY <1>1
      <4> QED
        BY <1>1, <1>2, <2>3, <4>1
    <3> QED
      BY <2>1, <2>3, <3>1 DEF SelectedAt
  <2> QED
    BY <1>3, <2>1, <2>2, <2>3 DEF SelectedAt
<1> QED
  BY <1>4 DEF SelectionFollows, all

ItemsInv == VariablesTyped /\ SelectionFollows /\ ItemsComeBack

(* One packet that selects nothing, sent while the items stay in place or  *)
(* the packet brings them back.                                            *)
LEMMA SendsOne ==
  ASSUME ItemsInv, NEW packet \in Sent, packet.kind # "hold", Does(<<packet>>),
         window' \in Nat, stateId' \in Nat, items' \in [Places -> Item], cursor' \in Item, held' = held,
         \A slot \in Kept : \/ items'[slot] = items[slot] \/ items[slot] = "none"
                            \/ packet.kind = "click" /\ Protected(packet)
                            \/ packet.kind = "drop" /\ slot = held
  PROVE  ItemsInv'
<1> DEFINE p == <<packet>>
<1>1. p \in Seq(Sent) /\ Len(p) = 1 /\ p[1] = packet
  BY OnePacket
<1>2. /\ up' = up \o p /\ up' \in Seq(Sent) /\ inputs' \in Nat
      /\ UNCHANGED <<protocol, destinations, open, nextWindow, selected, visible, down, unanswered, blind>>
  BY <1>1, DoesTyped DEF ItemsInv
<1>3. /\ Len(up) \in Nat /\ Len(up) + 1 \in DOMAIN (up \o p) /\ (up \o p)[Len(up) + 1] = packet
      /\ Len(up) + 1 \in 1..Len(up) + 1
  BY <1>1, Joined DEF ItemsInv, VariablesTyped
<1> HIDE DEF p
<1>4. ASSUME NEW slot \in Kept, packet.kind = "drop", slot = held
      PROVE  Repairs(up \o p, selected, Len(up) + 1)
  <2>1. SelectedAt(up \o p, selected, Len(up) + 1, held)
    BY <1>1, <1>3, SelectedBefore DEF ItemsInv, VariablesTyped, SelectionFollows
  <2> QED
    BY <1>3, <1>4, <2>1 DEF Repairs
<1>5. packet.kind = "click" /\ Protected(packet) => Repairs(up \o p, selected, Len(up) + 1)
  BY <1>3 DEF Repairs
<1>6. ItemsComeBack'
  <2>1. \A slot \in Kept : \/ items'[slot] = items[slot] \/ items[slot] = "none"
                           \/ \E k \in 1..Len(p) : Repairs(up \o p, selected, Len(up) + k)
    BY <1>1, <1>4, <1>5
  <2> QED
    BY <1>1, <1>2, <2>1, DoesItemsComeBack DEF ItemsInv
<1>7. SelectionFollows'
  <2>1. \A k \in 1..Len(p) : p[k].kind # "hold"
    BY <1>1
  <2> QED
    BY <1>1, <1>2, <2>1, SelectionKept DEF ItemsInv
<1>8. VariablesTyped'
  BY <1>2 DEF ItemsInv, VariablesTyped
<1> QED
  BY <1>6, <1>7, <1>8 DEF ItemsInv

LEMMA ClickTyped ==
  ASSUME VariablesTyped, NEW mode \in Mode, NEW place \in Places \cup {Outside},
         NEW button \in Hotbar \cup {Outside}
  PROVE  /\ Click(mode, place, button) \in Sent /\ Click(mode, place, button).kind = "click"
         /\ Click(mode, place, button).place = place /\ Click(mode, place, button).mode = mode
         /\ Click(mode, place, button).button = button
<1>1. (IF place = Outside THEN "none" ELSE items[place]) \in Item
  BY DEF VariablesTyped, Item
<1> QED
  BY <1>1 DEF Click, Sent, VariablesTyped

LEMMA UseItemInv == ASSUME ItemsInv, UseItem PROVE ItemsInv'
<1>1. Packet("use") \in Sent /\ Packet("use").kind = "use"
  BY DEF Packet, Sent
<1> QED
  BY <1>1, SendsOne DEF UseItem, client, ItemsInv, VariablesTyped

LEMMA DropSelectedInv == ASSUME ItemsInv, DropSelected PROVE ItemsInv'
<1>1. Packet("drop") \in Sent /\ Packet("drop").kind = "drop"
  BY DEF Packet, Sent
<1>2. items' = [items EXCEPT ![held] = "none"] /\ UNCHANGED <<window, stateId, cursor, held>> /\ Does(<<Packet("drop")>>)
  BY DEF DropSelected
<1>3. items' \in [Places -> Item] /\ \A slot \in Kept : items'[slot] = items[slot] \/ slot = held
  BY <1>2, KeptItems DEF ItemsInv, VariablesTyped, Item, Places, Inventory
<1> QED
  BY <1>1, <1>2, <1>3, SendsOne DEF ItemsInv, VariablesTyped

LEMMA CloseMenuInv == ASSUME ItemsInv, CloseMenu PROVE ItemsInv'
<1> DEFINE packet == [kind |-> "close", window |-> window]
<1>1. packet \in Sent /\ packet.kind = "close"
  BY DEF Sent, ItemsInv, VariablesTyped
<1>2. Does(<<packet>>) /\ window' = 0 /\ cursor' = "none" /\ UNCHANGED <<stateId, items, held>>
  BY DEF CloseMenu
<1> HIDE DEF packet
<1> QED
  BY <1>1, <1>2, SendsOne DEF ItemsInv, VariablesTyped, Item

LEMMA HoldItemInv == ASSUME ItemsInv, NEW slot \in Hotbar, HoldItem(slot) PROVE ItemsInv'
<1> DEFINE packet == [kind |-> "hold", slot |-> slot]
           p == <<packet>>
<1>1. packet \in Sent /\ packet.kind = "hold" /\ packet.slot = slot
  BY DEF Sent
<1>2. p \in Seq(Sent) /\ Len(p) = 1 /\ p[1] = packet
  BY <1>1, OnePacket
<1>3. Does(p) /\ held' = slot /\ UNCHANGED <<window, stateId, items, cursor>>
  BY DEF HoldItem
<1>4. /\ up' = up \o p /\ up' \in Seq(Sent) /\ inputs' \in Nat
      /\ UNCHANGED <<protocol, destinations, open, nextWindow, selected, visible, down, unanswered, blind>>
  BY <1>2, <1>3, DoesTyped DEF ItemsInv
<1>5. Len(up') = Len(up) + 1 /\ Len(up) \in Nat /\ up'[Len(up) + 1] = packet
  BY <1>2, <1>4, Joined DEF ItemsInv, VariablesTyped
<1> HIDE DEF p, packet
<1>6. SelectedAt(up', selected', Len(up') + 1, held')
  <2>1. /\ Len(up) + 1 \in 1..(Len(up') + 1) - 1 /\ up'[Len(up) + 1].kind = "hold"
        /\ up'[Len(up) + 1].slot = held'
    BY <1>1, <1>3, <1>5
  <2>2. \A k \in Len(up) + 1 + 1..(Len(up') + 1) - 1 : up'[k].kind # "hold"
    BY <1>5
  <2> QED
    BY <2>1, <2>2 DEF SelectedAt
<1>7. ItemsComeBack'
  BY <1>2, <1>3, <1>4, DoesItemsComeBack DEF ItemsInv
<1>8. VariablesTyped'
  BY <1>3, <1>4 DEF ItemsInv, VariablesTyped
<1> QED
  BY <1>6, <1>7, <1>8 DEF ItemsInv, SelectionFollows

(* A click with one packet.                                                *)
LEMMA ClicksOnce ==
  ASSUME ItemsInv, NEW mode \in Mode, NEW place \in Places \cup {Outside}, NEW button \in Hotbar \cup {Outside},
         Does(<<Click(mode, place, button)>>), UNCHANGED <<window, stateId, held>>,
         items' \in [Places -> Item], cursor' \in Item,
         \A slot \in Kept : \/ items'[slot] = items[slot] \/ items[slot] = "none"
                            \/ /\ place # Outside
                               /\ \/ place = slot \/ mode = "collect"
                                  \/ mode = "number" /\ button = slot
  PROVE  ItemsInv'
<1> DEFINE packet == Click(mode, place, button)
<1>1. /\ packet \in Sent /\ packet.kind = "click" /\ packet.place = place /\ packet.mode = mode
      /\ packet.button = button
  BY ClickTyped DEF ItemsInv
<1> HIDE DEF packet
<1>2. \A slot \in Kept : \/ items'[slot] = items[slot] \/ items[slot] = "none"
                         \/ packet.kind = "click" /\ Protected(packet)
  BY <1>1 DEF Protected
<1>3. Does(<<packet>>)
  BY DEF packet
<1> QED
  BY <1>1, <1>2, <1>3, SendsOne DEF ItemsInv, VariablesTyped

(* Start, place and end of a drag.                                         *)
LEMMA DragInv ==
  ASSUME ItemsInv, NEW place \in Shown, Drag(place), UNCHANGED <<window, stateId, held>>
  PROVE  ItemsInv'
<1> DEFINE outer == Click("drag", Outside, NoKey)
           inner == Click("drag", place, NoKey)
           p == <<outer, inner, outer>>
<1>1. place \in Places /\ place # Outside
  BY KeptItems DEF Shown, Places, Inventory
<1>2. /\ outer \in Sent /\ outer.kind = "click"
      /\ inner \in Sent /\ inner.kind = "click" /\ inner.place = place /\ inner.mode = "drag"
  BY <1>1, ClickTyped DEF ItemsInv, Mode, NoKey
<1>3. /\ items[place] = "none" /\ items' = [items EXCEPT ![place] = cursor] /\ cursor' = "none" /\ Does(p)
      /\ UNCHANGED <<window, stateId, held>>
  BY DEF Drag
<1> HIDE DEF outer, inner
<1>4. p \in Seq(Sent) /\ Len(p) = 3 /\ p[1] = outer /\ p[2] = inner /\ p[3] = outer
  BY <1>2
<1> HIDE DEF p
<1>5. /\ up' = up \o p /\ up' \in Seq(Sent) /\ inputs' \in Nat
      /\ UNCHANGED <<protocol, destinations, open, nextWindow, selected, visible, down, unanswered, blind>>
  BY <1>3, <1>4, DoesTyped DEF ItemsInv
<1>6. ItemsComeBack'
  <2>1. \A slot \in Kept : items'[slot] = items[slot] \/ items[slot] = "none"
    BY <1>3, KeptItems DEF ItemsInv, VariablesTyped, Places
  <2> QED
    BY <1>4, <1>5, <2>1, DoesItemsComeBack DEF ItemsInv
<1>7. SelectionFollows'
  <2>1. \A k \in 1..Len(p) : p[k].kind # "hold"
    BY <1>2, <1>4
  <2> QED
    BY <1>3, <1>4, <1>5, <2>1, SelectionKept DEF ItemsInv
<1>8. VariablesTyped'
  <2>1. items' \in [Places -> Item] /\ cursor' \in Item
    BY <1>1, <1>3 DEF ItemsInv, VariablesTyped, Item
  <2> QED
    BY <1>3, <1>5, <2>1 DEF ItemsInv, VariablesTyped
<1> QED
  BY <1>6, <1>7, <1>8 DEF ItemsInv

LEMMA ClickWindowInv == ASSUME ItemsInv, ClickWindow PROVE ItemsInv'
<1>1. /\ Shown \subseteq Places /\ Outside \notin Places /\ Kept \subseteq Places /\ Hotbar \subseteq Places
      /\ Inventory \subseteq Places
  BY KeptItems DEF Shown, Places, Inventory
<1>2. /\ UNCHANGED <<window, stateId, held>> /\ items \in [Places -> Item] /\ cursor \in Item /\ "none" \in Item
      /\ Mode = {"pickup", "shift", "number", "throw", "drag", "collect"} /\ NoKey = Outside
  BY DEF ClickWindow, ItemsInv, VariablesTyped, Item, Mode, NoKey
<1>3. ASSUME NEW place \in Shown, PickUp(place) PROVE ItemsInv'
  <2>1. items' = [items EXCEPT ![place] = cursor] /\ cursor' = items[place] /\ Does(<<Click("pickup", place, NoKey)>>)
    BY <1>3 DEF PickUp
  <2>2. /\ items' \in [Places -> Item] /\ cursor' \in Item /\ place \in Places /\ place # Outside
        /\ \A slot \in Kept : items'[slot] = items[slot] \/ place = slot
    BY <1>1, <1>2, <2>1
  <2> QED
    BY <1>2, <2>1, <2>2, ClicksOnce
<1>4. ASSUME NEW place \in Shown, ShiftClick(place) PROVE ItemsInv'
  <2>1. PICK to \in {free \in Shown : items[free] = "none"} :
          items' = [items EXCEPT ![place] = "none", ![to] = items[place]]
    BY <1>4 DEF ShiftClick
  <2>2. UNCHANGED cursor /\ Does(<<Click("shift", place, NoKey)>>)
    BY <1>4 DEF ShiftClick
  <2>3. /\ items' \in [Places -> Item] /\ place \in Places /\ place # Outside
        /\ \A slot \in Kept : items'[slot] = items[slot] \/ place = slot \/ items[slot] = "none"
    BY <1>1, <1>2, <2>1
  <2> QED
    BY <1>2, <2>2, <2>3, ClicksOnce
<1>5. ASSUME NEW place \in Shown, Throw(place) PROVE ItemsInv'
  <2>1. items' = [items EXCEPT ![place] = "none"] /\ UNCHANGED cursor /\ Does(<<Click("throw", place, NoKey)>>)
    BY <1>5 DEF Throw
  <2>2. /\ items' \in [Places -> Item] /\ place \in Places /\ place # Outside
        /\ \A slot \in Kept : items'[slot] = items[slot] \/ place = slot
    BY <1>1, <1>2, <2>1
  <2> QED
    BY <1>2, <2>1, <2>2, ClicksOnce
<1>6. ASSUME NEW place \in Shown, Collect(place) PROVE ItemsInv'
  <2>1. /\ items' = [other \in Places |-> IF other \in Shown /\ items[other] = cursor THEN "none" ELSE items[other]]
        /\ UNCHANGED cursor /\ Does(<<Click("collect", place, NoKey)>>)
    BY <1>6 DEF Collect
  <2>2. items' \in [Places -> Item] /\ place \in Places /\ place # Outside
    BY <1>1, <1>2, <2>1
  <2> QED
    BY <1>2, <2>1, <2>2, ClicksOnce
<1>7. ASSUME NEW place \in Shown, NEW slot \in Hotbar, NumberKey(place, slot) PROVE ItemsInv'
  <2>1. /\ items' = [items EXCEPT ![place] = items[slot], ![slot] = items[place]]
        /\ UNCHANGED cursor /\ Does(<<Click("number", place, slot)>>)
    BY <1>7 DEF NumberKey
  <2>2. /\ items' \in [Places -> Item] /\ place \in Places /\ place # Outside
        /\ \A kept \in Kept : items'[kept] = items[kept] \/ place = kept \/ slot = kept
    BY <1>1, <1>2, <2>1
  <2>3. /\ Click("number", place, slot) \in Sent /\ Click("number", place, slot).kind = "click"
        /\ Click("number", place, slot).place = place /\ Click("number", place, slot).mode = "number"
        /\ Click("number", place, slot).button = slot
    BY <1>2, <2>2, ClickTyped DEF ItemsInv
  <2>4. \A kept \in Kept : items'[kept] = items[kept] \/ Protected(Click("number", place, slot))
    BY <2>2, <2>3 DEF Protected
  <2> QED
    BY <1>2, <2>1, <2>2, <2>3, <2>4, SendsOne DEF ItemsInv, VariablesTyped
<1>8. ASSUME DropOutside PROVE ItemsInv'
  <2>1. cursor' = "none" /\ UNCHANGED items /\ Does(<<Click("pickup", Outside, NoKey)>>)
    BY <1>8 DEF DropOutside
  <2>2. /\ items' \in [Places -> Item] /\ cursor' \in Item /\ \A slot \in Kept : items'[slot] = items[slot]
        /\ "pickup" \in Mode /\ Outside \in Places \cup {Outside} /\ NoKey \in Hotbar \cup {Outside}
    BY <1>2, <2>1 DEF Mode, NoKey
  <2>3. Does(<<Click("pickup", Outside, NoKey)>>) /\ UNCHANGED <<window, stateId, held>>
    BY <1>2, <2>1
  <2> QED
    BY <2>2, <2>3, ClicksOnce, Zenon
<1> QED
  BY <1>3, <1>4, <1>5, <1>6, <1>7, <1>8, DragInv DEF ClickWindow

LEMMA PlayerStepInv == ASSUME ItemsInv, PlayerStep PROVE ItemsInv'
BY UseItemInv, HoldItemInv, DropSelectedInv, CloseMenuInv, ClickWindowInv DEF PlayerStep

-------------------------------------------------------------------------------
(* The client reads                                                        *)

(* What a packet does to the items, the window and what is sent.           *)
LEMMA ReadingTyped ==
  ASSUME VariablesTyped, Receives
  PROVE  /\ down # <<>> /\ down' = Tail(down) /\ Head(down) \in Queued
         /\ window' \in Nat /\ stateId' \in Nat /\ cursor' \in Item /\ items' \in [Places -> Item]
         /\ \/ up' = up
            \/ up' = Append(up, Head(down)) /\ Head(down) \in Sent /\ Head(down).kind = "confirm"
         /\ \A slot \in Kept :
              /\ Covers(Head(down), slot) /\ Head(down).window = 0
                   => items'[slot] = LobbyItem(slot, Head(down).visible)
              /\ \/ items'[slot] = items[slot]
                 \/ Covers(Head(down), slot) /\ items'[slot] = LobbyItem(slot, Head(down).visible)
         /\ UNCHANGED <<held, server, history>>
<1> DEFINE packet == Head(down)
<1> USE DEF VariablesTyped
<1>1. down # <<>> /\ down' = Tail(down) /\ packet \in Queued /\ UNCHANGED <<held, server, history>>
  BY Shifted DEF Receives
<1>2. \A place : MenuItem(place) \in Item /\ "none" \in Item
  BY DEF MenuItem, Item
<1>3. Kept \subseteq Places /\ Kept \cap Menu = {}
  BY KeptItems DEF Places
<1>4. /\ \A shows : Content(packet.places, shows) \in [Places -> Item]
      /\ \A slot \in Kept : \A shows :
           Content(packet.places, shows)[slot]
             = IF slot \in packet.places THEN LobbyItem(slot, shows) ELSE items[slot]
  BY <1>2, <1>3, KeptItems DEF Content
<1>5. CASE packet.kind = "open"
  <2>1. /\ window' = packet.window /\ stateId' = 0 /\ cursor' = "none" /\ UNCHANGED up
        /\ items' = [place \in Places |-> IF place \in Menu THEN "none" ELSE items[place]]
    BY <1>5 DEF Receives
  <2>2. packet.window \in Nat
    BY <1>1, <1>5 DEF Queued
  <2> QED
    BY <1>1, <1>2, <1>3, <1>5, <2>1, <2>2 DEF Covers
<1>6. CASE packet.kind = "content" /\ packet.window = 0
  <2>1. /\ items' = Content(packet.places, packet.visible) /\ cursor' \in {"none", cursor}
        /\ UNCHANGED <<window, stateId, up>>
    BY <1>6 DEF Receives, Clears
  <2> QED
    BY <1>1, <1>2, <1>4, <1>6, <2>1 DEF Covers
<1>7. CASE packet.kind = "content" /\ packet.window # 0
  <2>1. /\ \/ items' = Content(packet.places, packet.visible) /\ stateId' = packet.state
           \/ UNCHANGED <<items, stateId>>
        /\ cursor' \in {"none", cursor} /\ UNCHANGED <<window, up>>
    BY <1>7 DEF Receives, Clears
  <2>2. packet.state \in Nat
    BY <1>1, <1>7 DEF Queued
  <2> QED
    BY <1>1, <1>2, <1>4, <1>7, <2>1, <2>2 DEF Covers
<1>8. CASE packet.kind = "close"
  <2>1. window' = 0 /\ cursor' = "none" /\ UNCHANGED <<stateId, items, up>>
    BY <1>8 DEF Receives
  <2> QED
    BY <1>1, <1>2, <1>8, <2>1 DEF Covers
<1>9. CASE packet.kind = "confirm"
  <2>1. up' = Append(up, packet) /\ UNCHANGED <<window, stateId, items, cursor>>
    BY <1>9 DEF Receives
  <2>2. packet \in Sent
    BY <1>1, <1>9 DEF Queued, Sent
  <2> QED
    BY <1>1, <1>9, <2>1, <2>2 DEF Covers
<1>10. CASE packet.kind \notin {"open", "content", "close", "confirm"}
  <2>1. UNCHANGED <<window, stateId, items, cursor, up>>
    BY <1>10 DEF Receives
  <2> QED
    BY <1>1, <1>10, <2>1 DEF Covers
<1> QED
  BY <1>5, <1>6, <1>7, <1>8, <1>9, <1>10

LEMMA AppendJoins == ASSUME NEW S, NEW q \in Seq(S), NEW x \in S PROVE Append(q, x) = q \o <<x>>
OBVIOUS

LEMMA ReceivesInv == ASSUME ItemsInv, Receives PROVE ItemsInv'
<1> DEFINE packet == Head(down)
<1> USE DEF ItemsInv
<1>1. /\ down # <<>> /\ down' = Tail(down) /\ packet \in Queued /\ packet = down[1] /\ down \in Seq(Queued)
      /\ down' \in Seq(Queued)
  <2>1. VariablesTyped /\ down \in Seq(Queued)
    BY DEF VariablesTyped
  <2>2. down # <<>> /\ down' = Tail(down) /\ packet \in Queued
    BY <2>1, ReadingTyped
  <2> QED
    BY <2>1, <2>2, Shifted
<1>2. /\ window' \in Nat /\ stateId' \in Nat /\ cursor' \in Item /\ items' \in [Places -> Item]
      /\ up' = up \/ (up' = Append(up, packet) /\ packet \in Sent /\ packet.kind = "confirm")
      /\ UNCHANGED <<held, server, history>>
  BY ReadingTyped
<1>3. UNCHANGED <<open, nextWindow, selected, visible, protocol, destinations, inputs, unanswered>>
  BY <1>2 DEF server, history, chosen
<1>4. up \in Seq(Sent)
  BY DEF VariablesTyped
<1>5. up' \in Seq(Sent) /\ SelectionFollows' /\ \A i \in DOMAIN up : Repairs(up, selected, i) =>
                                                  i \in DOMAIN up' /\ Repairs(up', selected, i)
  <2>1. CASE up' = up
    BY <1>2, <1>3, <1>4, <2>1 DEF SelectionFollows
  <2>2. CASE up' = Append(up, packet) /\ packet \in Sent /\ packet.kind = "confirm"
    <3>1. <<packet>> \in Seq(Sent) /\ Len(<<packet>>) = 1 /\ <<packet>>[1] = packet /\ up' = up \o <<packet>>
      BY <1>4, <2>2, OnePacket, AppendJoins
    <3>2. SelectionFollows'
      <4>1. \A k \in 1..Len(<<packet>>) : <<packet>>[k].kind # "hold"
        BY <2>2, <3>1
      <4>2. VariablesTyped /\ SelectionFollows /\ UNCHANGED <<selected, held>>
        BY <1>2, <1>3
      <4> HIDE DEF packet, ItemsInv
      <4> QED
        BY <3>1, <4>1, <4>2, SelectionKept
    <3> QED
      BY <1>4, <3>1, <3>2, Joined, RepairsBefore
  <2> QED
    BY <1>2, <2>1, <2>2
<1>6. ASSUME NEW slot \in Kept, WillShow(down, items[slot], slot, LobbyItem(slot, visible))
      PROVE  WillShow(down', items'[slot], slot, LobbyItem(slot, visible))
  <2>1. /\ Covers(packet, slot) /\ packet.window = 0 => items'[slot] = LobbyItem(slot, packet.visible)
        /\ \/ items'[slot] = items[slot]
           \/ Covers(packet, slot) /\ items'[slot] = LobbyItem(slot, packet.visible)
    BY ReadingTyped
  <2>2. items'[slot] \in {items[slot]} \cup IF Covers(down[1], slot) THEN {LobbyItem(slot, down[1].visible)} ELSE {}
    BY <1>1, <2>1
  <2> HIDE DEF packet
  <2> QED
    BY <1>1, <1>6, <2>1, <2>2, ShowsAfterReading
<1>7. ItemsComeBack'
  BY <1>3, <1>5, <1>6 DEF ItemsComeBack
<1>8. VariablesTyped'
  BY <1>1, <1>2, <1>3, <1>5 DEF VariablesTyped
<1> QED
  BY <1>5, <1>7, <1>8

-------------------------------------------------------------------------------
(* The server's steps                                                      *)

(* A packet is taken and others are sent: all of them say what the items   *)
(* show now, and one of them if the packet taken was to bring them back.   *)
LEMMA TakesItemsBack ==
  ASSUME ItemsInv, up # <<>>, up' = Tail(up),
         selected' = (IF Head(up).kind = "hold" THEN Head(up).slot ELSE selected),
         UNCHANGED <<items, held>>,
         NEW p \in Seq(Queued), down' = down \o p,
         \A slot \in Kept : \A k \in 1..Len(p) :
           Covers(p[k], slot) => LobbyItem(slot, p[k].visible) = LobbyItem(slot, visible'),
         \A slot \in Kept :
           \/ /\ LobbyItem(slot, visible') = LobbyItem(slot, visible)
              /\ unanswered \/ Repairs(up, selected, 1) => unanswered'
           \/ \E k \in 1..Len(p) : Covers(p[k], slot) /\ p[k].window = 0
  PROVE  ItemsComeBack' /\ SelectionFollows'
<1> DEFINE next == IF Head(up).kind = "hold" THEN Head(up).slot ELSE selected
<1>1. /\ up \in Seq(Sent) /\ down \in Seq(Queued) /\ Len(up) \in Nat /\ Len(up) >= 1 /\ 1 \in DOMAIN up
      /\ Len(up') + 1 = Len(up) /\ Len(up) \in 1..Len(up) /\ Len(up) + 1 \in Nat
  BY Shifted DEF ItemsInv, VariablesTyped
<1>2. SelectionFollows'
  <2>1. SelectedAt(up, selected, Len(up) + 1, held)
    BY DEF ItemsInv, SelectionFollows
  <2>2. SelectedAt(Tail(up), next, Len(up), held)
    BY <1>1, <2>1, SelectedAfter
  <2> QED
    BY <1>1, <2>2 DEF SelectionFollows
<1>3. ASSUME NEW slot \in Kept
      PROVE  \/ unanswered'
             \/ \E i \in DOMAIN up' : Repairs(up', selected', i)
             \/ WillShow(down', items[slot], slot, LobbyItem(slot, visible'))
  <2>1. CASE \E k \in 1..Len(p) : Covers(p[k], slot) /\ p[k].window = 0
    BY <1>1, <2>1, ShowsAgain
  <2>2. CASE /\ LobbyItem(slot, visible') = LobbyItem(slot, visible)
             /\ unanswered \/ Repairs(up, selected, 1) => unanswered'
    <3>1. CASE \E i \in DOMAIN up : Repairs(up, selected, i)
      <4>1. PICK i \in DOMAIN up : Repairs(up, selected, i)
        BY <3>1
      <4>2. CASE i # 1
        BY <1>1, <4>1, <4>2, RepairsAfter
      <4> QED
        BY <2>2, <4>1, <4>2
    <3>2. CASE WillShow(down, items[slot], slot, LobbyItem(slot, visible))
      BY <1>1, <2>2, <3>2, StillShows
    <3> QED
      BY <2>2, <3>1, <3>2 DEF ItemsInv, ItemsComeBack
  <2> QED
    BY <2>1, <2>2
<1>4. ItemsComeBack'
  BY <1>3 DEF ItemsComeBack
<1> QED
  BY <1>2, <1>4

(* The first packet brings the items back when it is such a click or when  *)
(* it drops the selected item.                                             *)
LEMMA RepairsFirst ==
  ASSUME NEW q, NEW first
  PROVE  Repairs(q, first, 1) <=> \/ q[1].kind = "click" /\ Protected(q[1])
                                  \/ q[1].kind = "drop" /\ first \in Kept
BY DEF Repairs, SelectedAt

(* Packets that show nothing in a lobby item's slot but that item.         *)
Truthful(shows) ==
  {packet \in Queued :
     \A slot \in Kept : Covers(packet, slot) => LobbyItem(slot, packet.visible) = LobbyItem(slot, shows)}

(* The lobby's items are among what a sequence of packets says.            *)
Brings(packets) ==
  \A slot \in Kept : \E k \in 1..Len(packets) : Covers(packets[k], slot) /\ packets[k].window = 0

LEMMA TruthfulQueued ==
  ASSUME NEW shows, NEW p \in Seq(Truthful(shows))
  PROVE  /\ p \in Seq(Queued)
         /\ \A slot \in Kept : \A k \in 1..Len(p) :
              Covers(p[k], slot) => LobbyItem(slot, p[k].visible) = LobbyItem(slot, shows)
<1>1. Truthful(shows) \subseteq Queued
  BY DEF Truthful
<1>2. p \in Seq(Queued) /\ \A k \in 1..Len(p) : p[k] \in Truthful(shows)
  BY <1>1
<1> QED
  BY <1>2 DEF Truthful

LEMMA StillBrings ==
  ASSUME NEW S, NEW q \in Seq(S), NEW p \in Seq(S), Brings(p)
  PROVE  Brings(q \o p)
<1> SUFFICES ASSUME NEW slot \in Kept
             PROVE  \E i \in 1..Len(q \o p) : Covers((q \o p)[i], slot) /\ (q \o p)[i].window = 0
  BY DEF Brings
<1>1. PICK k \in 1..Len(p) : Covers(p[k], slot) /\ p[k].window = 0
  BY DEF Brings
<1>2. Len(q) + k \in 1..Len(q \o p) /\ (q \o p)[Len(q) + k] = p[k]
  BY Joined
<1> QED
  BY <1>1, <1>2

LEMMA OneTruth ==
  ASSUME NEW shows, NEW packet \in Truthful(shows)
  PROVE  <<packet>> \in Seq(Truthful(shows)) /\ Len(<<packet>>) = 1 /\ <<packet>>[1] = packet
OBVIOUS

(* What the server sends is true, when it says what the items show now.    *)
LEMMA ContentTruthful ==
  ASSUME VariablesTyped, NEW id \in Nat, NEW state \in Nat, NEW places \in SUBSET Places
  PROVE  /\ ContentOf(id, state, places) \in Truthful(visible)
         /\ \A slot \in Kept : slot \in places => Covers(ContentOf(id, state, places), slot)
         /\ ContentOf(id, state, places).window = id
BY DEF VariablesTyped, ContentOf, Truthful, Covers, Queued

LEMMA ResyncTruthful ==
  ASSUME VariablesTyped, NEW needed \in BOOLEAN
  PROVE  /\ ResyncInventory(needed) \in Seq(Truthful(visible))
         /\ needed => Brings(ResyncInventory(needed))
<1>1. /\ ContentOf(0, 0, Inventory) \in Truthful(visible) /\ ContentOf(0, 0, Inventory).window = 0
      /\ \A slot \in Kept : Covers(ContentOf(0, 0, Inventory), slot)
  BY ContentTruthful, KeptItems DEF Places
<1> QED
  BY <1>1, OneTruth DEF ResyncInventory, Brings

LEMMA ControlTruthful ==
  ASSUME NEW shows
  PROVE  /\ \A id \in Nat : /\ [kind |-> "open", window |-> id] \in Truthful(shows)
                            /\ [kind |-> "close", window |-> id] \in Truthful(shows)
                            /\ [kind |-> "confirm", window |-> id] \in Truthful(shows)
         /\ Packet("connect") \in Truthful(shows)
BY DEF Truthful, Queued, Covers, Packet

LEMMA ConfirmTruthful ==
  ASSUME NEW shows, NEW click, click.window \in Nat
  PROVE  Confirm(click) \in Seq(Truthful(shows))
<1>1. [kind |-> "confirm", window |-> click.window] \in Truthful(shows)
  BY ControlTruthful
<1>2. <<>> \in Seq(Truthful(shows))
  OBVIOUS
<1>3. CASE Confirms
  BY <1>1, <1>3, OneTruth DEF Confirm
<1>4. CASE ~Confirms
  BY <1>2, <1>4 DEF Confirm
<1> QED
  BY <1>3, <1>4

(* The server takes a packet and answers.                                  *)
LEMMA Answers ==
  ASSUME ItemsInv, VariablesTyped', up # <<>>, up' = Tail(up),
         selected' = (IF Head(up).kind = "hold" THEN Head(up).slot ELSE selected),
         UNCHANGED <<items, held, visible>>,
         NEW p \in Seq(Truthful(visible)), down' = down \o p,
         unanswered \/ Repairs(up, selected, 1) => unanswered' \/ Brings(p)
  PROVE  ItemsInv'
<1>1. p \in Seq(Queued) /\ \A slot \in Kept : \A k \in 1..Len(p) :
                             Covers(p[k], slot) => LobbyItem(slot, p[k].visible) = LobbyItem(slot, visible)
  BY TruthfulQueued
<1>2. CASE Brings(p)
  BY <1>1, <1>2, TakesItemsBack DEF ItemsInv, Brings
<1>3. CASE unanswered \/ Repairs(up, selected, 1) => unanswered'
  BY <1>1, <1>3, TakesItemsBack DEF ItemsInv
<1> QED
  BY <1>2, <1>3

LEMMA NothingQueued ==
  ASSUME VariablesTyped
  PROVE  /\ down = down \o <<>> /\ \A shows : <<>> \in Seq(Truthful(shows))
BY DEF VariablesTyped

LEMMA TakesTyped ==
  ASSUME VariablesTyped, NEW kind, Takes(kind)
  PROVE  /\ up # <<>> /\ up' = Tail(up) /\ up' \in Seq(Sent) /\ Head(up).kind = kind
         /\ Head(up) = up[1] /\ Head(up) \in Sent
BY Shifted DEF Takes, VariablesTyped

LEMMA SetHeldItemInv == ASSUME ItemsInv, SetHeldItem PROVE ItemsInv'
<1>1. /\ up # <<>> /\ up' = Tail(up) /\ up' \in Seq(Sent) /\ up[1].kind = "hold" /\ Head(up) = up[1]
      /\ Head(up) \in Sent
  BY TakesTyped DEF ItemsInv, SetHeldItem
<1>2. selected' = Head(up).slot /\ UNCHANGED <<client, open, nextWindow, visible, down, history>>
  BY DEF SetHeldItem
<1>3. Head(up).slot \in Hotbar
  BY <1>1 DEF Sent
<1>4. VariablesTyped'
  BY <1>1, <1>2, <1>3 DEF ItemsInv, VariablesTyped, client, history, chosen
<1>5. ~Repairs(up, selected, 1)
  BY <1>1, RepairsFirst
<1>6. UNCHANGED <<items, held, visible, unanswered>> /\ down' = down \o <<>>
  BY <1>2, NothingQueued DEF ItemsInv, client, history
<1> QED
  BY <1>1, <1>2, <1>4, <1>5, <1>6, Answers, NothingQueued DEF ItemsInv

(* The packets the server takes and leaves without an answer.              *)
LEMMA SilentInv ==
  ASSUME ItemsInv, NEW kind, kind # "hold", Takes(kind), ~Repairs(up, selected, 1),
         open' \subseteq open, UNCHANGED <<client, nextWindow, selected, visible, down, history>>
  PROVE  ItemsInv'
<1>1. up # <<>> /\ up' = Tail(up) /\ up' \in Seq(Sent) /\ Head(up).kind # "hold"
  BY TakesTyped DEF ItemsInv
<1>2. VariablesTyped'
  BY <1>1 DEF ItemsInv, VariablesTyped, client, history, chosen
<1>3. UNCHANGED <<items, held, visible, unanswered>> /\ down' = down \o <<>>
  BY NothingQueued DEF ItemsInv, client, history
<1> QED
  BY <1>1, <1>2, <1>3, Answers, NothingQueued DEF ItemsInv

LEMMA QuietlyInv ==
  ASSUME ItemsInv, UseOther \/ CloseContainer \/ ConfirmTransaction \/ Ignore PROVE ItemsInv'
<1>1. ASSUME NEW kind \in {"use", "close", "confirm"}, Takes(kind) PROVE ~Repairs(up, selected, 1)
  BY <1>1, TakesTyped, RepairsFirst DEF ItemsInv
<1>2. CASE UseOther
  BY <1>1, <1>2, SilentInv DEF UseOther, server
<1>3. CASE CloseContainer
  BY <1>1, <1>3, SilentInv DEF CloseContainer
<1>4. CASE ConfirmTransaction
  BY <1>1, <1>4, SilentInv DEF ConfirmTransaction, server
<1>5. CASE Ignore
  <2>1. ~Repairs(up, selected, 1)
    BY <1>5, TakesTyped, RepairsFirst DEF ItemsInv, Ignore, Protected
  <2> QED
    BY <1>5, <2>1, SilentInv DEF Ignore, server
<1> QED
  BY <1>2, <1>3, <1>4, <1>5

LEMMA PlayerActionInv == ASSUME ItemsInv, PlayerAction PROVE ItemsInv'
<1> DEFINE p == ResyncInventory(selected \in {SelectorSlot, ToggleSlot})
<1>1. up # <<>> /\ up' = Tail(up) /\ up' \in Seq(Sent) /\ up[1].kind = "drop" /\ Head(up) = up[1]
  BY TakesTyped DEF ItemsInv, PlayerAction
<1>2. /\ down' = down \o p /\ UNCHANGED <<chosen, client, server, inputs, blind>>
      /\ unanswered' = (unanswered /\ selected \notin Kept)
  BY DEF PlayerAction, Queue, Kept
<1>3. p \in Seq(Truthful(visible)) /\ (selected \in Kept => Brings(p))
  <2>1. (selected \in {SelectorSlot, ToggleSlot}) \in BOOLEAN
    OBVIOUS
  <2>2. selected \in Kept <=> selected \in {SelectorSlot, ToggleSlot}
    BY DEF Kept
  <2> QED
    BY <2>1, <2>2, ResyncTruthful DEF ItemsInv
<1> HIDE DEF p
<1>4. VariablesTyped'
  BY <1>1, <1>2, <1>3, TruthfulQueued, Joined DEF ItemsInv, VariablesTyped, client, server, history, chosen
<1>5. unanswered \/ Repairs(up, selected, 1) => unanswered' \/ Brings(p)
  BY <1>1, <1>2, <1>3, RepairsFirst
<1>6. UNCHANGED <<items, held, visible, selected>>
  BY <1>2 DEF client, server
<1> QED
  BY <1>1, <1>2, <1>3, <1>4, <1>5, <1>6, Answers

LEMMA ClickElsewhereInv == ASSUME ItemsInv, ClickElsewhere PROVE ItemsInv'
<1> DEFINE click == Head(up)
           p == IF AffectsLobbyItem(click) THEN Confirm(click) \o ResyncInventory(TRUE) ELSE <<>>
<1>1. /\ up # <<>> /\ up' = Tail(up) /\ up' \in Seq(Sent) /\ click.kind = "click" /\ click = up[1]
      /\ click \in Sent
  BY TakesTyped DEF ItemsInv, ClickElsewhere
<1>2. /\ Opens(click) = {} /\ down' = down \o p /\ unanswered' = (~AffectsLobbyItem(click) /\ (unanswered \/ TouchesLobbyItem(click)))
      /\ UNCHANGED <<chosen, client, server, inputs, blind>>
  BY DEF ClickElsewhere, Queue
<1>3. click.window \in Nat
  BY <1>1 DEF Sent
<1>4. p \in Seq(Truthful(visible)) /\ (AffectsLobbyItem(click) => Brings(p))
  BY <1>3, ConfirmTruthful, ResyncTruthful, NothingQueued, StillBrings, Joined DEF ItemsInv
<1> HIDE DEF p
<1>5. unanswered \/ Repairs(up, selected, 1) => unanswered' \/ Brings(p)
  BY <1>1, <1>2, <1>4, RepairsFirst DEF Protected, AffectsLobbyItem, TouchesLobbyItem, Kept
<1>6. UNCHANGED <<items, held, visible, selected>>
  BY <1>2 DEF client, server
<1>7. unanswered' \in BOOLEAN
  BY <1>2 DEF ItemsInv, VariablesTyped
<1>8. VariablesTyped'
  BY <1>1, <1>2, <1>4, <1>7, TruthfulQueued, Joined DEF ItemsInv, VariablesTyped, client, server, chosen
<1> QED
  BY <1>1, <1>2, <1>4, <1>5, <1>6, <1>8, Answers

LEMMA SelectInv == ASSUME ItemsInv, Select PROVE ItemsInv'
<1> DEFINE click == Head(up)
           p == Confirm(click) \o <<Packet("connect"), [kind |-> "close", window |-> click.window]>>
<1>1. /\ up # <<>> /\ up' = Tail(up) /\ up' \in Seq(Sent) /\ click.kind = "click" /\ click = up[1]
      /\ click \in Sent
  BY TakesTyped DEF ItemsInv, Select
<1>2. /\ \E menu \in Opens(click) : Selects(menu, click)
      /\ open' = {} /\ down' = down \o p
      /\ UNCHANGED <<chosen, client, nextWindow, selected, visible, inputs, unanswered>>
  BY DEF Select, Queue
<1>3. click.window \in Nat
  BY <1>1 DEF Sent
<1>4. p \in Seq(Truthful(visible))
  <2>1. <<Packet("connect"), [kind |-> "close", window |-> click.window]>> \in Seq(Truthful(visible))
    <3>1. Packet("connect") \in Truthful(visible) /\ [kind |-> "close", window |-> click.window] \in Truthful(visible)
      BY <1>3, ControlTruthful
    <3> QED
      BY <3>1
  <2> QED
    BY <1>3, <2>1, ConfirmTruthful, Joined
<1> HIDE DEF p
<1>5. ~Repairs(up, selected, 1)
  <2>1. click.mode = "pickup" /\ click.place \in Menu
    BY <1>2 DEF Selects, ItemsInv, VariablesTyped
  <2> QED
    BY <1>1, <2>1, KeptItems, RepairsFirst DEF Protected
<1>6. VariablesTyped'
  BY <1>1, <1>2, <1>4, TruthfulQueued, Joined DEF ItemsInv, VariablesTyped, client, chosen
<1>7. UNCHANGED <<items, held, visible, selected, unanswered>>
  BY <1>2 DEF client
<1> QED
  BY <1>1, <1>2, <1>4, <1>5, <1>6, <1>7, Answers

LEMMA ResyncInv == ASSUME ItemsInv, Resync PROVE ItemsInv'
<1> DEFINE click == Head(up)
<1>1. /\ up # <<>> /\ up' = Tail(up) /\ up' \in Seq(Sent) /\ click.kind = "click" /\ click = up[1]
      /\ click \in Sent
  BY TakesTyped DEF ItemsInv, Resync
<1>2. PICK menu \in Opens(click) :
        /\ click.place # Outside /\ ~Selects(menu, click)
        /\ open' = {[menu EXCEPT !.state = @ + 1]}
        /\ Queue(Confirm(click) \o <<ContentOf(menu.window, menu.state + 1, FullWindow)>>
                   \o ResyncInventory(AffectsLobbyItem(click)))
        /\ unanswered' = (unanswered /\ ~AffectsLobbyItem(click))
  BY DEF Resync
<1>3. UNCHANGED <<chosen, client, nextWindow, selected, visible, inputs, blind>>
  BY DEF Resync
<1> DEFINE p == Confirm(click) \o <<ContentOf(menu.window, menu.state + 1, FullWindow)>>
                  \o ResyncInventory(AffectsLobbyItem(click))
<1>4. /\ click.window \in Nat /\ menu \in open /\ menu \in [window : Nat \ {0}, state : Nat]
      /\ open' \in SUBSET [window : Nat \ {0}, state : Nat]
  BY <1>1, <1>2 DEF Sent, Opens, ItemsInv, VariablesTyped
<1>5. AffectsLobbyItem(click) \in BOOLEAN
  BY DEF AffectsLobbyItem
<1>6. p \in Seq(Truthful(visible)) /\ (AffectsLobbyItem(click) => Brings(p))
  <2>1. <<ContentOf(menu.window, menu.state + 1, FullWindow)>> \in Seq(Truthful(visible))
    BY <1>4, ContentTruthful, OneTruth DEF ItemsInv, FullWindow
  <2>2. Confirm(click) \o <<ContentOf(menu.window, menu.state + 1, FullWindow)>> \in Seq(Truthful(visible))
    BY <1>4, <2>1, ConfirmTruthful, Joined
  <2>3. /\ ResyncInventory(AffectsLobbyItem(click)) \in Seq(Truthful(visible))
        /\ AffectsLobbyItem(click) => Brings(ResyncInventory(AffectsLobbyItem(click)))
    BY <1>5, ResyncTruthful DEF ItemsInv
  <2> QED
    BY <2>2, <2>3, Joined, StillBrings
<1>7. down' = down \o p
  BY <1>2 DEF Queue
<1> HIDE DEF p
<1>8. unanswered \/ Repairs(up, selected, 1) => unanswered' \/ Brings(p)
  BY <1>1, <1>2, <1>6, RepairsFirst DEF Protected, AffectsLobbyItem, TouchesLobbyItem, Kept
<1>9. VariablesTyped'
  BY <1>1, <1>2, <1>3, <1>4, <1>5, <1>6, <1>7, TruthfulQueued, Joined DEF ItemsInv, VariablesTyped, client, chosen
<1>10. UNCHANGED <<items, held, visible, selected>>
  BY <1>3 DEF client
<1> QED
  BY <1>1, <1>6, <1>7, <1>8, <1>9, <1>10, Answers

LEMMA OpenSelectorInv == ASSUME ItemsInv, OpenSelector PROVE ItemsInv'
<1> DEFINE closing == IF open = {} THEN <<>> ELSE <<CHOOSE packet \in CloseContainerPackets : TRUE>>
           opening == <<[kind |-> "open", window |-> nextWindow], ContentOf(nextWindow, 1, Menu)>>
           p == closing \o opening
<1>1. /\ up # <<>> /\ up' = Tail(up) /\ up' \in Seq(Sent) /\ Head(up).kind = "use" /\ Head(up) = up[1]
  BY TakesTyped DEF ItemsInv, OpenSelector
<1>2. /\ AllocateWindowId /\ open' = {[window |-> nextWindow, state |-> 1]} /\ down' = down \o p
      /\ UNCHANGED <<chosen, client, selected, visible, inputs, unanswered>>
  BY DEF OpenSelector, Queue
<1>3. nextWindow \in Nat \ {0} /\ nextWindow' \in 1..MaxWindowId
  BY <1>2, SelectorAssumption DEF AllocateWindowId, ItemsInv, VariablesTyped
<1>4. closing \in Seq(Truthful(visible))
  <2>1. ASSUME open # {} PROVE (CHOOSE packet \in CloseContainerPackets : TRUE) \in Truthful(visible)
    <3>1. \A packet \in CloseContainerPackets : packet \in Truthful(visible)
      BY ControlTruthful DEF CloseContainerPackets, ItemsInv, VariablesTyped
    <3>2. \E packet \in CloseContainerPackets : TRUE
      BY <2>1 DEF CloseContainerPackets
    <3> QED
      BY <3>1, <3>2
  <2>2. <<>> \in Seq(Truthful(visible))
    OBVIOUS
  <2> QED
    BY <2>1, <2>2, OneTruth
<1>5. opening \in Seq(Truthful(visible))
  <2>1. [kind |-> "open", window |-> nextWindow] \in Truthful(visible)
    BY <1>3, ControlTruthful
  <2>2. ContentOf(nextWindow, 1, Menu) \in Truthful(visible)
    BY <1>3, ContentTruthful DEF ItemsInv, Places
  <2> QED
    BY <2>1, <2>2
<1>6. p \in Seq(Truthful(visible))
  BY <1>4, <1>5, Joined
<1> HIDE DEF p, closing, opening
<1>7. ~Repairs(up, selected, 1)
  BY <1>1, RepairsFirst
<1>8. VariablesTyped'
  <2>1. open' \in SUBSET [window : Nat \ {0}, state : Nat]
    BY <1>2, <1>3
  <2> QED
    BY <1>1, <1>2, <1>3, <1>6, <2>1, TruthfulQueued, Joined DEF ItemsInv, VariablesTyped, client, chosen
<1>9. UNCHANGED <<items, held, visible, selected, unanswered>>
  BY <1>2 DEF client
<1> QED
  BY <1>1, <1>2, <1>6, <1>7, <1>8, <1>9, Answers

LEMMA ToggleVisibilityInv == ASSUME ItemsInv, ToggleVisibility PROVE ItemsInv'
<1> DEFINE packet == [ContentOf(0, 0, {ToggleSlot}) EXCEPT !.visible = visible']
<1>1. /\ up # <<>> /\ up' = Tail(up) /\ up' \in Seq(Sent) /\ Head(up).kind = "use" /\ Head(up) = up[1]
  BY TakesTyped DEF ItemsInv, ToggleVisibility
<1>2. visible' = ~visible /\ down' = down \o <<packet>> /\ UNCHANGED <<client, open, nextWindow, selected, history>>
  BY DEF ToggleVisibility, Queue
<1>3. packet = [kind |-> "content", window |-> 0, state |-> 0, places |-> {ToggleSlot}, visible |-> visible']
  BY DEF ContentOf
<1>4. visible' \in BOOLEAN /\ {ToggleSlot} \in SUBSET Places
  BY <1>2, KeptItems DEF ItemsInv, VariablesTyped, Kept, Places
<1> HIDE DEF packet
<1>5. packet \in Queued
  BY <1>3, <1>4 DEF Queued
<1>6. <<packet>> \in Seq(Queued) /\ Len(<<packet>>) = 1 /\ <<packet>>[1] = packet
  BY <1>5
<1>7. \A slot \in Kept : /\ Covers(packet, slot) => LobbyItem(slot, packet.visible) = LobbyItem(slot, visible')
                         /\ slot = ToggleSlot => Covers(packet, slot) /\ packet.window = 0
  BY <1>3 DEF Covers
<1>8. LobbyItem(SelectorSlot, visible') = LobbyItem(SelectorSlot, visible)
  BY KeptItems
<1>9. ~Repairs(up, selected, 1)
  BY <1>1, RepairsFirst
<1>10. VariablesTyped'
  BY <1>1, <1>2, <1>4, <1>6, Joined DEF ItemsInv, VariablesTyped, client, history, chosen
<1>11. UNCHANGED <<items, held, selected, unanswered>>
  BY <1>2 DEF client, history
<1>12. \A slot \in Kept :
         \/ LobbyItem(slot, visible') = LobbyItem(slot, visible)
         \/ \E k \in 1..Len(<<packet>>) : Covers(<<packet>>[k], slot) /\ <<packet>>[k].window = 0
  BY <1>6, <1>7, <1>8 DEF Kept
<1>13. \A slot \in Kept : \A k \in 1..Len(<<packet>>) :
         Covers(<<packet>>[k], slot) => LobbyItem(slot, <<packet>>[k].visible) = LobbyItem(slot, visible')
  BY <1>6, <1>7
<1> DEFINE p == <<packet>>
<1> HIDE DEF p
<1>14. ItemsComeBack' /\ SelectionFollows'
  BY <1>1, <1>2, <1>6, <1>9, <1>11, <1>12, <1>13, TakesItemsBack DEF p
<1> QED
  BY <1>10, <1>14 DEF ItemsInv

-------------------------------------------------------------------------------
LEMMA ItemsInitially == ASSUME Init PROVE ItemsInv
<1>1. VariablesTyped
  <2>1. items \in [Places -> Item] /\ cursor \in Item
    BY KeptItems DEF Init, Item
  <2>2. destinations \subseteq Menu
    BY SelectorAssumption DEF Init
  <2>3. nextWindow \in 1..MaxWindowId
    BY SelectorAssumption DEF Init
  <2>4. visible \in BOOLEAN /\ unanswered \in BOOLEAN
    BY DEF Init
  <2>5. /\ window \in Nat /\ stateId \in Nat /\ held \in Hotbar /\ selected \in Hotbar /\ inputs \in Nat
        /\ open \in SUBSET [window : Nat \ {0}, state : Nat] /\ protocol \in Protocol
        /\ up \in Seq(Sent) /\ down \in Seq(Queued)
    BY DEF Init
  <2> QED
    BY <2>1, <2>2, <2>3, <2>4, <2>5 DEF VariablesTyped
<1>2. SelectionFollows
  BY DEF Init, SelectionFollows, SelectedAt
<1>3. ItemsComeBack
  <2>1. \A slot \in Kept : items[slot] = LobbyItem(slot, visible)
    BY KeptItems DEF Init, Places
  <2>2. down = <<>> /\ Len(down) = 0
    BY DEF Init
  <2> QED
    BY <2>1, <2>2 DEF ItemsComeBack, WillShow
<1> QED
  BY <1>1, <1>2, <1>3 DEF ItemsInv

LEMMA ItemsStep == ASSUME ItemsInv, [Next]_vars PROVE ItemsInv'
<1>1. CASE PlayerStep
  BY <1>1, PlayerStepInv
<1>2. CASE Receives
  BY <1>2, ReceivesInv
<1>3. CASE TaskStep
  BY <1>3, SetHeldItemInv, OpenSelectorInv, ToggleVisibilityInv, QuietlyInv, PlayerActionInv, ClickElsewhereInv,
     SelectInv, ResyncInv DEF TaskStep, ClickStep
<1>4. CASE UNCHANGED vars
  BY <1>4 DEF ItemsInv, VariablesTyped, SelectionFollows, ItemsComeBack, vars, client, server, history, chosen
<1> QED
  BY <1>1, <1>2, <1>3, <1>4 DEF Next

LEMMA ItemsInvariant == Spec => []ItemsInv
<1>1. Init => ItemsInv
  BY ItemsInitially
<1>2. ItemsInv /\ [Next]_vars => ItemsInv'
  BY ItemsStep
<1> QED
  BY <1>1, <1>2, PTL DEF Spec

(* Once the server has handled everything and the client has read what it   *)
(* sent, the two items are in their slots and the toggle shows what it is   *)
(* set to, unless a click on an item came for a menu that was gone and      *)
(* nothing that the player did since was answered: whatever the player      *)
(* takes, drops, throws, drags or swaps, any number of times.               *)
THEOREM ItemsAreAlwaysInPlace == Spec => []ItemsAreInPlace
<1>1. ItemsInv => ItemsAreInPlace
  <2> SUFFICES ASSUME ItemsInv, up = <<>>, down = <<>>, ~unanswered, NEW slot \in Kept
               PROVE  items[slot] = LobbyItem(slot, visible)
    BY DEF ItemsAreInPlace, Quiet, Kept
  <2>1. DOMAIN up = {} /\ Len(down) = 0
    OBVIOUS
  <2>2. WillShow(down, items[slot], slot, LobbyItem(slot, visible))
    BY <2>1 DEF ItemsInv, ItemsComeBack
  <2> QED
    BY <2>1, <2>2 DEF WillShow
<1> QED
  BY <1>1, ItemsInvariant, PTL
-------------------------------------------------------------------------------
(* Which window the client shows                                           *)

(* A packet names the window                                               *)
Names(packet, id) == packet.kind \in {"open", "content", "close", "click"} /\ packet.window = id

(* The id of the next menu is free: no packet under way and no window of    *)
(* the client has it any more.                                             *)
NextIdIsFree ==
  /\ window # nextWindow
  /\ \A i \in DOMAIN up : ~Names(up[i], nextWindow)
  /\ \A i \in DOMAIN down : ~Names(down[i], nextWindow)

(* The window the client shows once it has read what was queued: what the   *)
(* last packet says that opens or closes one                                *)
Switches(packet) == packet.kind \in {"open", "close"}
SwitchesTo(packet, id) == IF packet.kind = "open" THEN packet.window = id ELSE packet.kind = "close" /\ id = 0
WillShowWindow(queued, shown, id) ==
  \/ \E i \in 1..Len(queued) : SwitchesTo(queued[i], id) /\ \A j \in i+1..Len(queued) : ~Switches(queued[j])
  \/ (\A i \in 1..Len(queued) : ~Switches(queued[i])) /\ id = shown

Closing(sent, id) == \E i \in 1..Len(sent) : sent[i].kind = "close" /\ sent[i].window = id

OneMenu == \A a, b \in open : a = b

(* The client comes to the server's menu or to none,                        *)
ComesToMenu == \A id \in Nat \ {0} : WillShowWindow(down, window, id) => \E menu \in open : menu.window = id

(* and it does come to it unless it has closed it and the server has still  *)
(* to hear of that.                                                        *)
MenuComes == \A menu \in open : WillShowWindow(down, window, menu.window) \/ Closing(up, menu.window)

(* No menu that was left comes back, and none is opened twice.              *)
ClosedForGood ==
  \A i \in 1..Len(up) : up[i].kind = "close" =>
    /\ up[i].window # 0 /\ up[i].window # window
    /\ \A j \in 1..Len(down) : down[j].kind = "open" => down[j].window # up[i].window
OpensOnce ==
  \A i \in 1..Len(down) : down[i].kind = "open" =>
    /\ down[i].window # 0 /\ down[i].window # window
    /\ \A j \in 1..Len(down) : down[j].kind = "open" /\ j # i => down[j].window # down[i].window

WindowsFollow == OneMenu /\ ComesToMenu /\ MenuComes /\ ClosedForGood /\ OpensOnce

LEMMA QueueStill ==
  ASSUME NEW q \in Seq(Queued), NEW p \in Seq(Queued), \A k \in 1..Len(p) : ~Switches(p[k]), NEW shown, NEW id
  PROVE  WillShowWindow(q \o p, shown, id) <=> WillShowWindow(q, shown, id)
<1> DEFINE all == q \o p
<1>1. /\ Len(all) = Len(q) + Len(p) /\ Len(q) \in Nat /\ Len(p) \in Nat
      /\ \A j \in 1..Len(q) : all[j] = q[j]
      /\ \A k \in 1..Len(p) : all[Len(q) + k] = p[k]
  BY Joined
<1> HIDE DEF all
<1>2. \A j \in Len(q) + 1..Len(all) : ~Switches(all[j])
  <2> SUFFICES ASSUME NEW j \in Len(q) + 1..Len(all) PROVE ~Switches(all[j])
    OBVIOUS
  <2>1. j - Len(q) \in 1..Len(p) /\ Len(q) + (j - Len(q)) = j
    BY <1>1
  <2> QED
    BY <1>1, <2>1
<1>3. ASSUME WillShowWindow(q, shown, id) PROVE WillShowWindow(all, shown, id)
  <2>1. ASSUME NEW i \in 1..Len(q), SwitchesTo(q[i], id), \A j \in i+1..Len(q) : ~Switches(q[j])
        PROVE  WillShowWindow(all, shown, id)
    <3>1. \A j \in i+1..Len(all) : ~Switches(all[j])
      <4> TAKE j \in i+1..Len(all)
      <4>1. (j \in i+1..Len(q) /\ j \in 1..Len(q)) \/ j \in Len(q) + 1..Len(all)
        BY <1>1
      <4> QED
        BY <1>1, <1>2, <2>1, <4>1
    <3>2. i \in 1..Len(all) /\ all[i] = q[i]
      BY <1>1
    <3> QED
      BY <2>1, <3>1, <3>2 DEF WillShowWindow
  <2>2. ASSUME \A i \in 1..Len(q) : ~Switches(q[i]) PROVE \A i \in 1..Len(all) : ~Switches(all[i])
    <3> TAKE i \in 1..Len(all)
    <3>1. i \in 1..Len(q) \/ i \in Len(q) + 1..Len(all)
      BY <1>1
    <3> QED
      BY <1>1, <1>2, <2>2, <3>1
  <2> QED
    BY <1>3, <2>1, <2>2 DEF WillShowWindow
<1>4. ASSUME WillShowWindow(all, shown, id) PROVE WillShowWindow(q, shown, id)
  <2>1. ASSUME NEW i \in 1..Len(all), SwitchesTo(all[i], id), \A j \in i+1..Len(all) : ~Switches(all[j])
        PROVE  WillShowWindow(q, shown, id)
    <3>1. Switches(all[i])
      BY <2>1 DEF SwitchesTo, Switches
    <3>2. i \in 1..Len(q)
      BY <1>1, <1>2, <3>1
    <3>3. \A j \in i+1..Len(q) : ~Switches(q[j])
      BY <1>1, <2>1, <3>2
    <3> QED
      BY <1>1, <2>1, <3>2, <3>3 DEF WillShowWindow
  <2>2. ASSUME \A i \in 1..Len(all) : ~Switches(all[i]) PROVE \A i \in 1..Len(q) : ~Switches(q[i])
    BY <1>1, <2>2
  <2> QED
    BY <1>4, <2>1, <2>2 DEF WillShowWindow
<1> QED
  BY <1>3, <1>4 DEF all

LEMMA QueueSwitch ==
  ASSUME NEW q \in Seq(Queued), NEW p \in Seq(Queued), NEW k \in 1..Len(p), Switches(p[k]),
         \A j \in k+1..Len(p) : ~Switches(p[j]), NEW shown, NEW id
  PROVE  WillShowWindow(q \o p, shown, id) <=> SwitchesTo(p[k], id)
<1> DEFINE all == q \o p
           n == Len(q) + k
<1>1. /\ Len(all) = Len(q) + Len(p) /\ Len(q) \in Nat /\ Len(p) \in Nat
      /\ \A j \in 1..Len(p) : all[Len(q) + j] = p[j]
  BY Joined
<1> HIDE DEF all
<1>2. n \in 1..Len(all) /\ all[n] = p[k]
  BY <1>1
<1>3. \A j \in n+1..Len(all) : ~Switches(all[j])
  <2> SUFFICES ASSUME NEW j \in n+1..Len(all) PROVE ~Switches(all[j])
    OBVIOUS
  <2>1. j - Len(q) \in k+1..Len(p) /\ j - Len(q) \in 1..Len(p) /\ Len(q) + (j - Len(q)) = j
    BY <1>1
  <2> QED
    BY <1>1, <2>1
<1> HIDE DEF n
<1>4. ASSUME NEW i \in 1..Len(all), SwitchesTo(all[i], id), \A j \in i+1..Len(all) : ~Switches(all[j])
      PROVE  SwitchesTo(p[k], id)
  <2>1. Switches(all[i])
    BY <1>4 DEF SwitchesTo, Switches
  <2>2. i = n
    BY <1>1, <1>2, <1>3, <1>4, <2>1
  <2> QED
    BY <1>2, <1>4, <2>2
<1>5. SwitchesTo(p[k], id) => WillShowWindow(all, shown, id)
  BY <1>2, <1>3 DEF WillShowWindow
<1>6. WillShowWindow(all, shown, id) => SwitchesTo(p[k], id)
  BY <1>2, <1>4 DEF WillShowWindow
<1> QED
  BY <1>5, <1>6 DEF all

LEMMA ReadSwitch ==
  ASSUME NEW q \in Seq(Queued), q # <<>>, NEW shown, NEW next, NEW id,
         next = IF Head(q).kind = "open" THEN Head(q).window ELSE IF Head(q).kind = "close" THEN 0 ELSE shown,
         WillShowWindow(Tail(q), next, id)
  PROVE  WillShowWindow(q, shown, id)
<1> DEFINE rest == Tail(q)
<1>1. Len(q) \in Nat /\ Len(q) >= 1 /\ Len(rest) = Len(q) - 1 /\ Head(q) = q[1] /\ \A i \in 1..Len(q) - 1 : rest[i] = q[i + 1]
  BY Shifted
<1> HIDE DEF rest
<1>2. ASSUME NEW i \in 1..Len(rest), SwitchesTo(rest[i], id), \A j \in i+1..Len(rest) : ~Switches(rest[j])
      PROVE  WillShowWindow(q, shown, id)
  <2>1. i + 1 \in 1..Len(q) /\ rest[i] = q[i + 1]
    BY <1>1
  <2>2. \A j \in i+1+1..Len(q) : ~Switches(q[j])
    <3> TAKE j \in i+1+1..Len(q)
    <3>1. j - 1 \in i+1..Len(rest) /\ rest[j - 1] = q[j]
      BY <1>1
    <3> QED
      BY <1>2, <3>1
  <2> QED
    BY <1>2, <2>1, <2>2 DEF WillShowWindow
<1>3. ASSUME \A i \in 1..Len(rest) : ~Switches(rest[i]), id = next
      PROVE  WillShowWindow(q, shown, id)
  <2>1. \A j \in 1+1..Len(q) : ~Switches(q[j])
    <3> TAKE j \in 1+1..Len(q)
    <3>1. j - 1 \in 1..Len(rest) /\ rest[j - 1] = q[j]
      BY <1>1
    <3> QED
      BY <1>3, <3>1
  <2>2. CASE Switches(q[1])
    <3>1. SwitchesTo(q[1], id) /\ 1 \in 1..Len(q)
      BY <1>1, <1>3, <2>2 DEF Switches, SwitchesTo
    <3> QED
      BY <2>1, <3>1 DEF WillShowWindow
  <2>3. CASE ~Switches(q[1])
    <3>1. \A j \in 1..Len(q) : ~Switches(q[j])
      <4> TAKE j \in 1..Len(q)
      <4>1. j = 1 \/ j \in 1+1..Len(q)
        BY <1>1
      <4> QED
        BY <2>1, <2>3, <4>1
    <3>2. id = shown
      BY <1>1, <1>3, <2>3 DEF Switches
    <3> QED
      BY <3>1, <3>2 DEF WillShowWindow
  <2> QED
    BY <2>2, <2>3
<1> QED
  BY <1>2, <1>3 DEF WillShowWindow, rest

(* The other way: what will be shown will still be after one packet.        *)
LEMMA SwitchRead ==
  ASSUME NEW q \in Seq(Queued), q # <<>>, NEW shown, NEW next, NEW id,
         next = IF Head(q).kind = "open" THEN Head(q).window ELSE IF Head(q).kind = "close" THEN 0 ELSE shown,
         WillShowWindow(q, shown, id)
  PROVE  WillShowWindow(Tail(q), next, id)
<1> DEFINE rest == Tail(q)
<1>1. Len(q) \in Nat /\ Len(q) >= 1 /\ Len(rest) = Len(q) - 1 /\ Head(q) = q[1] /\ \A i \in 1..Len(q) - 1 : rest[i] = q[i + 1]
  BY Shifted
<1> HIDE DEF rest
<1>2. ASSUME NEW i \in 1..Len(q), SwitchesTo(q[i], id), \A j \in i+1..Len(q) : ~Switches(q[j])
      PROVE  WillShowWindow(rest, next, id)
  <2>1. \A j \in i..Len(rest) : ~Switches(rest[j])
    <3> TAKE j \in i..Len(rest)
    <3>1. j + 1 \in i+1..Len(q) /\ rest[j] = q[j + 1]
      BY <1>1
    <3> QED
      BY <1>2, <3>1
  <2>2. CASE i = 1
    <3>1. id = next
      BY <1>1, <1>2, <2>2 DEF SwitchesTo
    <3> QED
      BY <2>1, <2>2, <3>1 DEF WillShowWindow
  <2>3. CASE i # 1
    <3>1. i - 1 \in 1..Len(rest) /\ rest[i - 1] = q[i] /\ (i - 1) + 1 = i
      BY <1>1, <2>3
    <3> QED
      BY <1>2, <2>1, <3>1 DEF WillShowWindow
  <2> QED
    BY <2>2, <2>3
<1>3. ASSUME \A i \in 1..Len(q) : ~Switches(q[i]), id = shown
      PROVE  WillShowWindow(rest, next, id)
  <2>1. next = shown
    BY <1>1, <1>3 DEF Switches
  <2>2. \A i \in 1..Len(rest) : ~Switches(rest[i])
    BY <1>1, <1>3
  <2> QED
    BY <1>3, <2>1, <2>2 DEF WillShowWindow
<1> QED
  BY <1>2, <1>3 DEF WillShowWindow, rest

(* A player's steps but for closing the menu, and the client's answers      *)
LEMMA SendsNoClose ==
  ASSUME VariablesTyped, WindowsFollow, NEW p \in Seq(Sent), up' = up \o p, \A k \in 1..Len(p) : p[k].kind # "close",
         UNCHANGED <<window, open, down>>
  PROVE  WindowsFollow'
<1>1. /\ Len(up') = Len(up) + Len(p) /\ Len(up) \in Nat /\ Len(p) \in Nat
      /\ \A j \in 1..Len(up) : up'[j] = up[j]
      /\ \A k \in 1..Len(p) : up'[Len(up) + k] = p[k]
  BY Joined DEF VariablesTyped
<1>2. ASSUME NEW i \in 1..Len(up'), up'[i].kind = "close" PROVE i \in 1..Len(up) /\ up'[i] = up[i]
  <2>1. i \in 1..Len(up) \/ (i - Len(up) \in 1..Len(p) /\ Len(up) + (i - Len(up)) = i)
    BY <1>1
  <2>2. i - Len(up) \in 1..Len(p) => Len(up) + (i - Len(up)) # i
    BY <1>1, <1>2
  <2> QED
    BY <1>1, <2>1, <2>2
<1>3. \A id : Closing(up, id) => Closing(up', id)
  BY <1>1 DEF Closing
<1>4. ClosedForGood'
  BY <1>2 DEF WindowsFollow, ClosedForGood
<1> QED
  BY <1>3, <1>4 DEF WindowsFollow, OneMenu, ComesToMenu, MenuComes, OpensOnce

LEMMA ClosesMenu == ASSUME VariablesTyped, WindowsFollow, CloseMenu PROVE WindowsFollow'
<1> DEFINE packet == [kind |-> "close", window |-> window]
           p == <<packet>>
<1>1. packet \in Sent /\ packet.kind = "close" /\ packet.window = window
  BY DEF Sent, VariablesTyped
<1>2. p \in Seq(Sent) /\ Len(p) = 1 /\ p[1] = packet
  BY <1>1, OnePacket
<1>3. Does(p) /\ window # 0 /\ window' = 0
  BY DEF CloseMenu
<1>4. up' = up \o p /\ UNCHANGED <<open, down>>
  BY <1>2, <1>3, DoesTyped
<1>5. /\ Len(up') = Len(up) + 1 /\ Len(up) \in Nat /\ up'[Len(up) + 1] = packet
      /\ \A j \in 1..Len(up) : up'[j] = up[j]
  BY <1>2, <1>4, Joined DEF VariablesTyped
<1> HIDE DEF p, packet
<1>6. ComesToMenu'
  <2>1. \A id \in Nat \ {0} : WillShowWindow(down, 0, id) => WillShowWindow(down, window, id)
    BY DEF WillShowWindow
  <2> QED
    BY <1>3, <1>4, <2>1 DEF WindowsFollow, ComesToMenu
<1>7. MenuComes'
  <2> SUFFICES ASSUME NEW menu \in open
               PROVE  WillShowWindow(down, 0, menu.window) \/ Closing(up', menu.window)
    BY <1>3, <1>4 DEF MenuComes
  <2>1. Closing(up, menu.window) => Closing(up', menu.window)
    BY <1>5 DEF Closing
  <2>2. menu.window = window => Closing(up', menu.window)
    BY <1>1, <1>5 DEF Closing
  <2>3. menu.window # window /\ WillShowWindow(down, window, menu.window) => WillShowWindow(down, 0, menu.window)
    BY DEF WillShowWindow
  <2> QED
    BY <2>1, <2>2, <2>3 DEF WindowsFollow, MenuComes
<1>8. ClosedForGood'
  <2> SUFFICES ASSUME NEW i \in 1..Len(up'), up'[i].kind = "close"
               PROVE  /\ up'[i].window # 0
                      /\ \A j \in 1..Len(down) : down[j].kind = "open" => down[j].window # up'[i].window
    BY <1>3, <1>4 DEF ClosedForGood
  <2>1. CASE i \in 1..Len(up)
    BY <1>5, <2>1 DEF WindowsFollow, ClosedForGood
  <2>2. CASE i = Len(up) + 1
    BY <1>1, <1>3, <1>5, <2>2 DEF WindowsFollow, OpensOnce
  <2> QED
    BY <1>5, <2>1, <2>2
<1>9. OpensOnce'
  BY <1>3, <1>4 DEF WindowsFollow, OpensOnce
<1> QED
  BY <1>4, <1>6, <1>7, <1>8, <1>9 DEF WindowsFollow, OneMenu

(* The client reads a packet.                                               *)
LEMMA ReadsWindow ==
  ASSUME VariablesTyped, Receives
  PROVE  /\ down # <<>> /\ down' = Tail(down) /\ Head(down) = down[1] /\ UNCHANGED open
         /\ window' = IF Head(down).kind = "open" THEN Head(down).window ELSE IF Head(down).kind = "close" THEN 0 ELSE window
<1>1. down # <<>> /\ down' = Tail(down) /\ UNCHANGED open
  BY DEF Receives, server
<1>2. Head(down) = down[1]
  BY <1>1, Shifted DEF VariablesTyped
<1> QED
  BY <1>1, <1>2 DEF Receives

LEMMA ReceivesWindow == ASSUME VariablesTyped, WindowsFollow, Receives PROVE WindowsFollow'
<1>1. /\ down # <<>> /\ down' = Tail(down) /\ Head(down) = down[1] /\ UNCHANGED open
      /\ window' = IF Head(down).kind = "open" THEN Head(down).window ELSE IF Head(down).kind = "close" THEN 0 ELSE window
  BY ReadsWindow
<1>2. /\ Len(down) \in Nat /\ Len(down) >= 1 /\ Len(down') = Len(down) - 1 /\ \A i \in 1..Len(down) - 1 : down'[i] = down[i + 1]
      /\ down \in Seq(Queued)
  BY <1>1, Shifted DEF VariablesTyped
<1>3. \A id : WillShowWindow(down', window', id) <=> WillShowWindow(down, window, id)
  BY <1>1, <1>2, ReadSwitch, SwitchRead
<1>4. PICK p \in Seq(Sent) : up' = up \o p /\ \A k \in 1..Len(p) : p[k].kind # "close"
  <2>1. CASE up' = up
    <3> DEFINE none == <<>>
    <3>1. up' = up \o none /\ none \in Seq(Sent) /\ Len(none) = 0
      BY <2>1 DEF VariablesTyped
    <3>2. \A k \in 1..Len(none) : none[k].kind # "close"
      BY <3>1
    <3> HIDE DEF none
    <3> QED
      BY <3>1, <3>2
  <2>2. CASE up' = Append(up, Head(down)) /\ Head(down) \in Sent /\ Head(down).kind = "confirm"
    <3>1. <<Head(down)>> \in Seq(Sent) /\ Len(<<Head(down)>>) = 1 /\ <<Head(down)>>[1] = Head(down)
      BY <2>2, OnePacket
    <3>2. up' = up \o <<Head(down)>>
      BY <2>2, AppendJoins DEF VariablesTyped
    <3>3. \A k \in 1..Len(<<Head(down)>>) : <<Head(down)>>[k].kind # "close"
      BY <2>2, <3>1
    <3> QED
      BY <3>1, <3>2, <3>3
  <2> QED
    BY <2>1, <2>2, ReadingTyped
<1>5. /\ Len(up') = Len(up) + Len(p) /\ Len(up) \in Nat /\ Len(p) \in Nat
      /\ \A j \in 1..Len(up) : up'[j] = up[j]
      /\ \A k \in 1..Len(p) : up'[Len(up) + k] = p[k]
  BY <1>4, Joined DEF VariablesTyped
<1>6. ASSUME NEW i \in 1..Len(up'), up'[i].kind = "close" PROVE i \in 1..Len(up) /\ up'[i] = up[i]
  <2>1. i \in 1..Len(up) \/ (i - Len(up) \in 1..Len(p) /\ Len(up) + (i - Len(up)) = i)
    BY <1>5
  <2>2. i - Len(up) \in 1..Len(p) => Len(up) + (i - Len(up)) # i
    BY <1>4, <1>5, <1>6
  <2> QED
    BY <1>5, <2>1, <2>2
<1>7. \A id : Closing(up, id) => Closing(up', id)
  BY <1>5 DEF Closing
<1>8. window' = window \/ window' = 0 \/ (down[1].kind = "open" /\ window' = down[1].window)
  BY <1>1
<1>9. ClosedForGood'
  <2> SUFFICES ASSUME NEW i \in 1..Len(up'), up'[i].kind = "close"
               PROVE  /\ up'[i].window # 0 /\ up'[i].window # window'
                      /\ \A j \in 1..Len(down') : down'[j].kind = "open" => down'[j].window # up'[i].window
    BY DEF ClosedForGood
  <2>1. i \in 1..Len(up) /\ up'[i] = up[i]
    BY <1>6
  <2>2. /\ up[i].window # 0 /\ up[i].window # window
        /\ \A j \in 1..Len(down) : down[j].kind = "open" => down[j].window # up[i].window
    BY <2>1 DEF WindowsFollow, ClosedForGood
  <2>3. \A j \in 1..Len(down') : down'[j].kind = "open" => down'[j].window # up[i].window
    BY <1>2, <2>2
  <2>4. up[i].window # window'
    BY <1>2, <1>8, <2>2
  <2> QED
    BY <2>1, <2>2, <2>3, <2>4
<1>10. OpensOnce'
  <2> SUFFICES ASSUME NEW i \in 1..Len(down'), down'[i].kind = "open"
               PROVE  /\ down'[i].window # 0 /\ down'[i].window # window'
                      /\ \A j \in 1..Len(down') : down'[j].kind = "open" /\ j # i => down'[j].window # down'[i].window
    BY DEF OpensOnce
  <2>1. i + 1 \in 1..Len(down) /\ down'[i] = down[i + 1] /\ i + 1 # 1 /\ 1 \in 1..Len(down)
    BY <1>2
  <2>2. /\ down[i + 1].window # 0 /\ down[i + 1].window # window
        /\ \A j \in 1..Len(down) : down[j].kind = "open" /\ j # i + 1 => down[j].window # down[i + 1].window
    BY <2>1 DEF WindowsFollow, OpensOnce
  <2>3. \A j \in 1..Len(down') : j # i => j + 1 \in 1..Len(down) /\ down'[j] = down[j + 1] /\ j + 1 # i + 1
    BY <1>2
  <2>4. down[i + 1].window # window'
    BY <1>8, <2>1, <2>2
  <2> QED
    BY <2>1, <2>2, <2>3, <2>4
<1>11. OneMenu'
  BY <1>1 DEF WindowsFollow, OneMenu
<1>12. ComesToMenu'
  BY <1>1, <1>3 DEF WindowsFollow, ComesToMenu
<1>13. MenuComes'
  BY <1>1, <1>3, <1>7 DEF WindowsFollow, MenuComes
<1> QED
  BY <1>9, <1>10, <1>11, <1>12, <1>13 DEF WindowsFollow

-------------------------------------------------------------------------------
(* The server's answers and the windows                                     *)

(* What is sent closes nothing and opens at most one menu, with an id that  *)
(* no close packet under way has: nothing that was closed is there again.   *)
LEMMA AnswersClosed ==
  ASSUME VariablesTyped, WindowsFollow, up # <<>>, up' = Tail(up), UNCHANGED window,
         NEW p \in Seq(Queued), down' = down \o p,
         \A k \in 1..Len(p) : p[k].kind = "open" =>
           /\ p[k].window = nextWindow /\ NextIdIsFree /\ nextWindow # 0
           /\ \A l \in 1..Len(p) : p[l].kind = "open" => l = k
  PROVE  ClosedForGood' /\ OpensOnce'
<1>1. Len(up) \in Nat /\ Len(up) >= 1 /\ Len(up') = Len(up) - 1 /\ \A i \in 1..Len(up) - 1 : up'[i] = up[i + 1]
  BY Shifted DEF VariablesTyped
<1>2. /\ Len(down') = Len(down) + Len(p) /\ Len(down) \in Nat /\ Len(p) \in Nat
      /\ \A j \in 1..Len(down) : down'[j] = down[j]
      /\ \A k \in 1..Len(p) : down'[Len(down) + k] = p[k]
      /\ DOMAIN up = 1..Len(up) /\ DOMAIN down = 1..Len(down)
  BY Joined, Shifted DEF VariablesTyped
<1>3. ASSUME NEW j \in 1..Len(down'), down'[j].kind = "open"
      PROVE  \/ j \in 1..Len(down) /\ down'[j] = down[j]
             \/ /\ j \notin 1..Len(down) /\ down'[j].window = nextWindow /\ NextIdIsFree /\ nextWindow # 0
                /\ \A l \in 1..Len(down') : l \notin 1..Len(down) /\ down'[l].kind = "open" => l = j
  <2>1. CASE j \in 1..Len(down)
    BY <1>2, <2>1
  <2>2. CASE j \notin 1..Len(down)
    <3>1. ASSUME NEW l \in 1..Len(down'), l \notin 1..Len(down)
          PROVE  l - Len(down) \in 1..Len(p) /\ Len(down) + (l - Len(down)) = l /\ down'[l] = p[l - Len(down)]
      <4>1. l - Len(down) \in 1..Len(p) /\ Len(down) + (l - Len(down)) = l
        BY <1>2, <3>1
      <4> QED
        BY <1>2, <4>1
    <3>2. /\ p[j - Len(down)].window = nextWindow /\ NextIdIsFree /\ nextWindow # 0
          /\ \A l \in 1..Len(p) : p[l].kind = "open" => l = j - Len(down)
      BY <1>3, <2>2, <3>1
    <3>3. \A l \in 1..Len(down') : l \notin 1..Len(down) /\ down'[l].kind = "open" => l - Len(down) = j - Len(down)
      BY <3>1, <3>2
    <3>4. \A l \in 1..Len(down') : l - Len(down) = j - Len(down) => l = j
      BY <1>2
    <3> QED
      BY <2>2, <3>1, <3>2, <3>3, <3>4
  <2> QED
    BY <2>1, <2>2
<1>4. NextIdIsFree => /\ nextWindow # window
                      /\ \A i \in 1..Len(up) : up[i].kind = "close" => up[i].window # nextWindow
                      /\ \A i \in 1..Len(down) : down[i].kind = "open" => down[i].window # nextWindow
  BY <1>2 DEF NextIdIsFree, Names
<1>5. ClosedForGood'
  <2> SUFFICES ASSUME NEW i \in 1..Len(up'), up'[i].kind = "close"
               PROVE  /\ up'[i].window # 0 /\ up'[i].window # window
                      /\ \A j \in 1..Len(down') : down'[j].kind = "open" => down'[j].window # up'[i].window
    BY DEF ClosedForGood
  <2>1. i + 1 \in 1..Len(up) /\ up'[i] = up[i + 1]
    BY <1>1
  <2>2. /\ up[i + 1].window # 0 /\ up[i + 1].window # window
        /\ \A j \in 1..Len(down) : down[j].kind = "open" => down[j].window # up[i + 1].window
    BY <2>1 DEF WindowsFollow, ClosedForGood
  <2> QED
    BY <1>3, <1>4, <2>1, <2>2
<1>6. OpensOnce'
  <2> SUFFICES ASSUME NEW i \in 1..Len(down'), down'[i].kind = "open"
               PROVE  /\ down'[i].window # 0 /\ down'[i].window # window
                      /\ \A j \in 1..Len(down') : down'[j].kind = "open" /\ j # i => down'[j].window # down'[i].window
    BY DEF OpensOnce
  <2>1. \A j \in 1..Len(down) : down[j].kind = "open" =>
          /\ down[j].window # 0 /\ down[j].window # window
          /\ \A l \in 1..Len(down) : down[l].kind = "open" /\ l # j => down[l].window # down[j].window
    BY DEF WindowsFollow, OpensOnce
  <2>2. CASE i \in 1..Len(down) /\ down'[i] = down[i]
    BY <1>3, <1>4, <2>1, <2>2
  <2>3. CASE /\ i \notin 1..Len(down) /\ down'[i].window = nextWindow /\ NextIdIsFree /\ nextWindow # 0
             /\ \A l \in 1..Len(down') : l \notin 1..Len(down) /\ down'[l].kind = "open" => l = i
    <3>1. ASSUME NEW j \in 1..Len(down'), down'[j].kind = "open", j # i PROVE down'[j].window # nextWindow
      BY <1>3, <1>4, <2>3, <3>1
    <3> QED
      BY <1>4, <2>3, <3>1
  <2> QED
    BY <1>3, <2>2, <2>3
<1> QED
  BY <1>5, <1>6

(* A packet other than a close is taken, the menu stays and nothing that    *)
(* opens or closes one is sent.                                             *)
LEMMA AnswersStill ==
  ASSUME VariablesTyped, WindowsFollow, up # <<>>, up' = Tail(up), Head(up).kind # "close", UNCHANGED window,
         NEW p \in Seq(Queued), down' = down \o p, \A k \in 1..Len(p) : ~Switches(p[k]),
         OneMenu', \A menu \in open' : \E old \in open : old.window = menu.window,
         \A old \in open : \E menu \in open' : old.window = menu.window
  PROVE  WindowsFollow'
<1>1. Len(up) \in Nat /\ Len(up) >= 1 /\ Len(up') = Len(up) - 1 /\ (\A i \in 1..Len(up) - 1 : up'[i] = up[i + 1]) /\ Head(up) = up[1]
  BY Shifted DEF VariablesTyped
<1>2. \A id : WillShowWindow(down', window', id) <=> WillShowWindow(down, window, id)
  BY QueueStill DEF VariablesTyped
<1>3. ASSUME NEW id, Closing(up, id) PROVE Closing(up', id)
  <2>1. PICK i \in 1..Len(up) : up[i].kind = "close" /\ up[i].window = id
    BY <1>3 DEF Closing
  <2>2. i # 1
    BY <1>1, <2>1
  <2>3. i - 1 \in 1..Len(up') /\ up'[i - 1] = up[i]
    BY <1>1, <2>2
  <2> QED
    BY <2>1, <2>3 DEF Closing
<1>4. ClosedForGood' /\ OpensOnce'
  BY AnswersClosed DEF Switches
<1>5. ComesToMenu'
  BY <1>2 DEF WindowsFollow, ComesToMenu
<1>6. MenuComes'
  BY <1>2, <1>3 DEF WindowsFollow, MenuComes
<1> QED
  BY <1>4, <1>5, <1>6 DEF WindowsFollow

-------------------------------------------------------------------------------
(* What the clicks know of the menu                                         *)

(* A click after which the menu has another state, or is gone               *)
Disturbs(packet, id) == packet.kind = "click" /\ packet.window = id /\ packet.place # Outside

(* A click on a destination's place that showed something else              *)
Misses(packet, menu) ==
  /\ packet.kind = "click" /\ packet.window = menu.window /\ packet.state = menu.state
  /\ packet.mode = "pickup" /\ packet.place \in destinations /\ packet.shown # "destination"

(* No content or click is newer than the menu, and a content is complete.   *)
MenuIsNewest(menu) ==
  /\ menu.state >= 1
  /\ window = menu.window => stateId <= menu.state
  /\ \A i \in 1..Len(down) : down[i].kind = "content" /\ down[i].window = menu.window =>
       down[i].state <= menu.state /\ Menu \subseteq down[i].places
  /\ \A i \in 1..Len(up) : up[i].kind = "click" /\ up[i].window = menu.window => up[i].state <= menu.state

(* While the client's menu is in the state the server knows, its            *)
(* destinations are in their places or a click is under way that ends that  *)
(* state;                                                                  *)
MenuIsWhole(menu) ==
  window = menu.window /\ stateId = menu.state =>
    \/ \A place \in destinations : items[place] = "destination"
    \/ \E i \in 1..Len(up) : Disturbs(up[i], menu.window)

(* and so it was when the clicks were sent that are under way.              *)
MissesAreLate(menu) ==
  \A i \in 1..Len(up) : Misses(up[i], menu) => \E j \in 1..i - 1 : Disturbs(up[j], menu.window)

MenuIsKnown(menu) == MenuIsNewest(menu) /\ MenuIsWhole(menu) /\ MissesAreLate(menu)
InventoryIsApart == \A i \in 1..Len(down) : down[i].kind = "content" /\ down[i].window = 0 => down[i].places \cap Menu = {}

MenusAreKnown == (\A menu \in open : MenuIsKnown(menu)) /\ InventoryIsApart

LEMMA MenuTyped ==
  ASSUME VariablesTyped, NEW menu \in open
  PROVE  menu.window \in Nat \ {0} /\ menu.state \in Nat
BY DEF VariablesTyped

LEMMA PacketsTyped ==
  ASSUME VariablesTyped
  PROVE  /\ \A i \in 1..Len(up) : up[i] \in Sent /\ (up[i].kind = "click" => up[i].state \in Nat)
         /\ \A i \in 1..Len(down) : down[i] \in Queued /\ (down[i].kind = "content" => down[i].state \in Nat)
<1>1. /\ \A packet \in Sent : packet.kind = "click" => packet.state \in Nat
      /\ \A packet \in Queued : packet.kind = "content" => packet.state \in Nat
  BY DEF Sent, Queued
<1>2. (\A i \in 1..Len(up) : up[i] \in Sent) /\ \A i \in 1..Len(down) : down[i] \in Queued
  BY DEF VariablesTyped
<1> QED
  BY <1>1, <1>2

(* The client sends clicks that say what it showed, and one of them         *)
(* disturbs the menu if the client changes it.                              *)
LEMMA SendsKnown ==
  ASSUME VariablesTyped, MenusAreKnown, NEW p \in Seq(Sent), up' = up \o p,
         UNCHANGED <<stateId, open, down, destinations>>, window' \in {window, 0},
         \A k \in 1..Len(p) : p[k].kind = "click" =>
           /\ p[k].window = window /\ p[k].state = stateId
           /\ p[k].mode = "pickup" /\ p[k].place \in destinations => p[k].shown = items[p[k].place],
         \/ \A place \in destinations : items'[place] = items[place]
         \/ window = 0
         \/ \E k \in 1..Len(p) : Disturbs(p[k], window)
  PROVE  MenusAreKnown'
<1>1. /\ Len(up') = Len(up) + Len(p) /\ Len(up) \in Nat /\ Len(p) \in Nat
      /\ \A j \in 1..Len(up) : up'[j] = up[j]
      /\ \A k \in 1..Len(p) : up'[Len(up) + k] = p[k]
  BY Joined DEF VariablesTyped
<1>2. \A i \in 1..Len(up') : i \in 1..Len(up) \/ (i - Len(up) \in 1..Len(p) /\ up'[i] = p[i - Len(up)] /\ i > Len(up))
  <2> TAKE i \in 1..Len(up')
  <2>1. i \in 1..Len(up) \/ (i - Len(up) \in 1..Len(p) /\ Len(up) + (i - Len(up)) = i /\ i > Len(up))
    BY <1>1
  <2> QED
    BY <1>1, <2>1
<1>3. InventoryIsApart'
  BY DEF MenusAreKnown, InventoryIsApart
<1> SUFFICES ASSUME NEW menu \in open PROVE MenuIsKnown(menu)'
  BY <1>3 DEF MenusAreKnown
<1>4. MenuIsKnown(menu) /\ menu.window # 0 /\ menu.state \in Nat
  BY MenuTyped DEF MenusAreKnown
<1>5. MenuIsNewest(menu)'
  <2>1. window' = menu.window => window = menu.window
    BY <1>4
  <2>2. ASSUME NEW i \in 1..Len(up'), up'[i].kind = "click", up'[i].window = menu.window
        PROVE  up'[i].state <= menu.state
    BY <1>1, <1>2, <1>4, <2>2 DEF MenuIsKnown, MenuIsNewest
  <2> QED
    BY <1>4, <2>1, <2>2 DEF MenuIsKnown, MenuIsNewest
<1>6. (\E i \in 1..Len(up) : Disturbs(up[i], menu.window)) => \E i \in 1..Len(up') : Disturbs(up'[i], menu.window)
  BY <1>1
<1>7. (\E k \in 1..Len(p) : Disturbs(p[k], menu.window)) => \E i \in 1..Len(up') : Disturbs(up'[i], menu.window)
  <2> SUFFICES ASSUME NEW k \in 1..Len(p), Disturbs(p[k], menu.window)
               PROVE  \E i \in 1..Len(up') : Disturbs(up'[i], menu.window)
    OBVIOUS
  <2>1. Len(up) + k \in 1..Len(up') /\ up'[Len(up) + k] = p[k]
    BY <1>1
  <2> QED
    BY <2>1
<1>8. MenuIsWhole(menu)'
  BY <1>4, <1>6, <1>7 DEF MenuIsKnown, MenuIsWhole
<1>9. MissesAreLate(menu)'
  <2> SUFFICES ASSUME NEW i \in 1..Len(up'), Misses(up[i], menu)'
               PROVE  \E j \in 1..i - 1 : Disturbs(up'[j], menu.window)
    BY DEF MissesAreLate
  <2>0. Misses(up'[i], menu)
    BY DEF Misses
  <2>1. CASE i \in 1..Len(up)
    <3>1. PICK j \in 1..i - 1 : Disturbs(up[j], menu.window)
      BY <1>1, <1>4, <2>0, <2>1 DEF MenuIsKnown, MissesAreLate
    <3>2. j \in 1..Len(up)
      BY <1>1, <2>1
    <3> QED
      BY <1>1, <3>1, <3>2
  <2>2. CASE i - Len(up) \in 1..Len(p) /\ up'[i] = p[i - Len(up)] /\ i > Len(up)
    <3> DEFINE click == p[i - Len(up)]
    <3>1. /\ click.kind = "click" /\ click.window = menu.window /\ click.state = menu.state
          /\ click.mode = "pickup" /\ click.place \in destinations /\ click.shown # "destination"
      BY <2>0, <2>2 DEF Misses
    <3>2. window = menu.window /\ stateId = menu.state /\ items[click.place] # "destination"
      BY <2>2, <3>1
    <3>3. PICK j \in 1..Len(up) : Disturbs(up[j], menu.window)
      BY <1>4, <3>1, <3>2 DEF MenuIsKnown, MenuIsWhole
    <3>4. j \in 1..i - 1
      BY <1>1, <2>2
    <3> QED
      BY <1>1, <3>3, <3>4
  <2> QED
    BY <1>2, <2>1, <2>2
<1> QED
  BY <1>5, <1>8, <1>9 DEF MenuIsKnown

(* What the server may send beside its menus                                *)
Fitting(menus) ==
  {packet \in Queued :
     packet.kind = "content" =>
       IF packet.window = 0 THEN packet.places \cap Menu = {}
       ELSE \A menu \in menus : packet.window = menu.window => packet.state <= menu.state /\ Menu \subseteq packet.places}

(* A packet is taken: a menu that stays as it was is not disturbed by it,   *)
(* one that is disturbed has another state, and one that is opened has an   *)
(* id that nothing names.                                                   *)
LEMMA AnswersKnown ==
  ASSUME VariablesTyped, MenusAreKnown, up # <<>>, up' = Tail(up),
         UNCHANGED <<window, stateId, items, destinations>>,
         NEW p \in Seq(Fitting(open')), down' = down \o p,
         \A menu \in open' :
           \/ menu \in open /\ ~Disturbs(Head(up), menu.window)
           \/ \E old \in open : menu.window = old.window /\ menu.state = old.state + 1
           \/ menu.window = nextWindow /\ menu.state = 1 /\ NextIdIsFree
  PROVE  MenusAreKnown'
<1>1. /\ Len(up) \in Nat /\ Len(up) >= 1 /\ Len(up') = Len(up) - 1 /\ (\A i \in 1..Len(up) - 1 : up'[i] = up[i + 1])
      /\ Head(up) = up[1]
  BY Shifted DEF VariablesTyped
<1>2. p \in Seq(Queued) /\ \A k \in 1..Len(p) : p[k] \in Fitting(open')
  <2>1. Fitting(open') \subseteq Queued
    BY DEF Fitting
  <2> QED
    BY <2>1
<1>3. /\ Len(down') = Len(down) + Len(p) /\ Len(down) \in Nat /\ Len(p) \in Nat
      /\ \A j \in 1..Len(down) : down'[j] = down[j]
      /\ \A k \in 1..Len(p) : down'[Len(down) + k] = p[k]
      /\ DOMAIN up = 1..Len(up) /\ DOMAIN down = 1..Len(down)
  BY <1>2, Joined, Shifted DEF VariablesTyped
<1>4. ASSUME NEW i \in 1..Len(down')
      PROVE  (i \in 1..Len(down) /\ down'[i] = down[i]) \/ down'[i] \in Fitting(open')
  <2>1. i \in 1..Len(down) \/ (i - Len(down) \in 1..Len(p) /\ Len(down) + (i - Len(down)) = i)
    BY <1>3
  <2> QED
    BY <1>2, <1>3, <2>1
<1>5. InventoryIsApart'
  <2> SUFFICES ASSUME NEW i \in 1..Len(down'), down'[i].kind = "content", down'[i].window = 0
               PROVE  down'[i].places \cap Menu = {}
    BY DEF InventoryIsApart
  <2>1. down'[i] \in Fitting(open') => down'[i].places \cap Menu = {}
    BY DEF Fitting
  <2> QED
    BY <1>4, <2>1 DEF MenusAreKnown, InventoryIsApart
<1> SUFFICES ASSUME NEW menu \in open' PROVE MenuIsKnown(menu)'
  BY <1>5 DEF MenusAreKnown
<1>6. ASSUME NEW i \in 1..Len(down'), down'[i] \in Fitting(open'), down'[i].kind = "content", down'[i].window = menu.window,
             menu.window # 0
      PROVE  down'[i].state <= menu.state /\ Menu \subseteq down'[i].places
  BY <1>6 DEF Fitting
<1>7. \A i \in 1..Len(up') : i + 1 \in 1..Len(up) /\ up'[i] = up[i + 1]
  BY <1>1
<1>8. CASE menu \in open /\ ~Disturbs(Head(up), menu.window)
  <2>1. MenuIsKnown(menu) /\ menu.window # 0 /\ menu.state \in Nat
    BY <1>8, MenuTyped DEF MenusAreKnown
  <2>2. MenuIsNewest(menu)'
    <3>1. \A i \in 1..Len(down') : down'[i].kind = "content" /\ down'[i].window = menu.window =>
            down'[i].state <= menu.state /\ Menu \subseteq down'[i].places
      BY <1>4, <1>6, <2>1 DEF MenuIsKnown, MenuIsNewest
    <3>2. \A i \in 1..Len(up') : up'[i].kind = "click" /\ up'[i].window = menu.window => up'[i].state <= menu.state
      BY <1>7, <2>1 DEF MenuIsKnown, MenuIsNewest
    <3> QED
      BY <2>1, <3>1, <3>2 DEF MenuIsKnown, MenuIsNewest
  <2>3. ASSUME NEW j \in 1..Len(up), Disturbs(up[j], menu.window)
        PROVE  j - 1 \in 1..Len(up') /\ up'[j - 1] = up[j]
    <3>1. j # 1
      BY <1>1, <1>8, <2>3
    <3> QED
      BY <1>1, <3>1
  <2>4. MenuIsWhole(menu)'
    BY <2>1, <2>3 DEF MenuIsKnown, MenuIsWhole
  <2>5. MissesAreLate(menu)'
    <3> SUFFICES ASSUME NEW i \in 1..Len(up'), Misses(up[i], menu)'
                 PROVE  \E j \in 1..i - 1 : Disturbs(up'[j], menu.window)
      BY DEF MissesAreLate
    <3>1. Misses(up[i + 1], menu) /\ i + 1 \in 1..Len(up)
      BY <1>7 DEF Misses
    <3>2. PICK j \in 1..(i + 1) - 1 : Disturbs(up[j], menu.window)
      BY <2>1, <3>1 DEF MenuIsKnown, MissesAreLate
    <3>3. j \in 1..Len(up)
      BY <1>1, <3>1
    <3>4. j - 1 \in 1..i - 1 /\ up'[j - 1] = up[j]
      BY <1>1, <2>3, <3>2, <3>3
    <3> QED
      BY <3>2, <3>4
  <2> QED
    BY <2>2, <2>4, <2>5 DEF MenuIsKnown
<1>9. ASSUME NEW old \in open, menu.window = old.window, menu.state = old.state + 1
      PROVE  MenuIsKnown(menu)'
  <2>1. MenuIsKnown(old) /\ old.window # 0 /\ old.state \in Nat /\ stateId \in Nat
    BY MenuTyped DEF MenusAreKnown, VariablesTyped
  <2>2. \A i \in 1..Len(up') : up'[i].kind = "click" /\ up'[i].window = menu.window => up'[i].state <= old.state
    BY <1>7, <1>9, <2>1 DEF MenuIsKnown, MenuIsNewest
  <2>3. \A i \in 1..Len(down) : down[i].kind = "content" /\ down[i].window = menu.window =>
          down[i].state <= old.state /\ down[i].state \in Nat /\ Menu \subseteq down[i].places
    <3>1. \A i \in 1..Len(down) : down[i].kind = "content" => down[i].state \in Nat
      BY PacketsTyped
    <3> QED
      BY <1>9, <2>1, <3>1 DEF MenuIsKnown, MenuIsNewest
  <2>4. \A i \in 1..Len(down') : down'[i].kind = "content" /\ down'[i].window = menu.window =>
          down'[i].state <= menu.state /\ Menu \subseteq down'[i].places
    <3>1. \A n \in Nat : n <= old.state => n <= menu.state
      BY <1>9, <2>1
    <3> QED
      BY <1>4, <1>6, <1>9, <2>1, <2>3, <3>1
  <2>5. \A i \in 1..Len(up') : up'[i].kind = "click" => up'[i].state \in Nat
    BY <1>7, PacketsTyped
  <2>6. window = menu.window => stateId <= old.state
    BY <1>9, <2>1 DEF MenuIsKnown, MenuIsNewest
  <2>7. MenuIsNewest(menu)'
    <3>1. menu.state >= 1 /\ \A n \in Nat : n <= old.state => n <= menu.state /\ n # menu.state
      BY <1>9, <2>1
    <3> QED
      BY <2>1, <2>2, <2>4, <2>5, <2>6, <3>1 DEF MenuIsNewest
  <2>8. MenuIsWhole(menu)'
    BY <1>9, <2>1, <2>6 DEF MenuIsWhole
  <2>9. MissesAreLate(menu)'
    <3>1. ASSUME NEW i \in 1..Len(up'), Misses(up[i], menu)' PROVE FALSE
      <4>1. up'[i].kind = "click" /\ up'[i].window = menu.window /\ up'[i].state = menu.state
        BY <3>1 DEF Misses
      <4>2. menu.state <= old.state
        BY <2>2, <4>1
      <4> QED
        BY <1>9, <2>1, <4>2
    <3> QED
      BY <3>1 DEF MissesAreLate
  <2> QED
    BY <2>7, <2>8, <2>9 DEF MenuIsKnown
<1>10. CASE menu.window = nextWindow /\ menu.state = 1 /\ NextIdIsFree
  <2>1. /\ window # menu.window /\ menu.window # 0
        /\ \A i \in 1..Len(up) : up[i].kind = "click" => up[i].window # menu.window
        /\ \A i \in 1..Len(down) : down[i].kind = "content" => down[i].window # menu.window
    <3>1. nextWindow # 0
      BY SelectorAssumption DEF VariablesTyped
    <3>2. window # nextWindow /\ (\A i \in 1..Len(up) : ~Names(up[i], nextWindow)) /\ \A i \in 1..Len(down) : ~Names(down[i], nextWindow)
      BY <1>3, <1>10 DEF NextIdIsFree
    <3> QED
      BY <1>10, <3>1, <3>2 DEF Names
  <2>2. \A i \in 1..Len(up') : up'[i].kind = "click" => up'[i].window # menu.window
    BY <1>7, <2>1
  <2>3. \A i \in 1..Len(down') : down'[i].kind = "content" /\ down'[i].window = menu.window =>
          down'[i].state <= menu.state /\ Menu \subseteq down'[i].places
    BY <1>4, <1>6, <2>1
  <2>4. MenuIsNewest(menu)'
    BY <1>10, <2>1, <2>2, <2>3 DEF MenuIsNewest
  <2>5. MenuIsWhole(menu)'
    BY <2>1 DEF MenuIsWhole
  <2>6. MissesAreLate(menu)'
    BY <2>2 DEF MissesAreLate, Misses
  <2> QED
    BY <2>4, <2>5, <2>6 DEF MenuIsKnown
<1> QED
  BY <1>8, <1>9, <1>10

-------------------------------------------------------------------------------
(* The player and the windows                                               *)

SelectionInv == VariablesTyped /\ WindowsFollow /\ MenusAreKnown

(* One click, which says what the client shows, or another packet           *)
LEMMA SendsOneKnown ==
  ASSUME SelectionInv, NEW packet \in Sent, Does(<<packet>>), packet.kind # "close",
         UNCHANGED <<window, stateId>>,
         packet.kind = "click" =>
           /\ packet.window = window /\ packet.state = stateId
           /\ packet.mode = "pickup" /\ packet.place \in destinations => packet.shown = items[packet.place],
         \/ \A place \in destinations : items'[place] = items[place]
         \/ window = 0
         \/ Disturbs(packet, window)
  PROVE  WindowsFollow' /\ MenusAreKnown'
<1> DEFINE p == <<packet>>
<1>1. p \in Seq(Sent) /\ Len(p) = 1 /\ p[1] = packet
  BY OnePacket
<1>2. up' = up \o p /\ UNCHANGED <<open, down, destinations>>
  BY <1>1, DoesTyped DEF SelectionInv
<1> HIDE DEF p
<1>3. \A k \in 1..Len(p) : p[k] = packet
  BY <1>1
<1>4. WindowsFollow'
  <2>1. \A k \in 1..Len(p) : p[k].kind # "close"
    BY <1>3
  <2> QED
    BY <1>1, <1>2, <2>1, SendsNoClose DEF SelectionInv
<1>5. MenusAreKnown'
  <2>1. \A k \in 1..Len(p) : p[k].kind = "click" =>
          /\ p[k].window = window /\ p[k].state = stateId
          /\ p[k].mode = "pickup" /\ p[k].place \in destinations => p[k].shown = items[p[k].place]
    BY <1>3
  <2>2. \/ \A place \in destinations : items'[place] = items[place]
        \/ window = 0
        \/ \E k \in 1..Len(p) : Disturbs(p[k], window)
    BY <1>1
  <2> QED
    BY <1>1, <1>2, <2>1, <2>2, SendsKnown DEF SelectionInv
<1> QED
  BY <1>4, <1>5

LEMMA ClickSays ==
  ASSUME VariablesTyped, NEW mode \in Mode, NEW place \in Places \cup {Outside}, NEW button \in Hotbar \cup {Outside}
  PROVE  LET packet == Click(mode, place, button) IN
         /\ packet \in Sent /\ packet.kind = "click" /\ packet.window = window /\ packet.state = stateId
         /\ packet.mode = mode /\ packet.place = place
         /\ place \in destinations => packet.shown = items[place]
         /\ place # Outside => Disturbs(packet, window)
<1>1. Click(mode, place, button) \in Sent
  BY ClickTyped
<1>2. destinations \subseteq Places /\ Outside \notin Places
  BY KeptItems DEF VariablesTyped, Places
<1> QED
  BY <1>1, <1>2 DEF Click, Disturbs

LEMMA ClickKnown ==
  ASSUME SelectionInv, NEW mode \in Mode, NEW place \in Places \cup {Outside}, NEW button \in Hotbar \cup {Outside},
         Does(<<Click(mode, place, button)>>), UNCHANGED <<window, stateId>>, place # Outside \/ UNCHANGED items
  PROVE  WindowsFollow' /\ MenusAreKnown'
<1> DEFINE packet == Click(mode, place, button)
<1>1. /\ packet \in Sent /\ packet.kind = "click" /\ packet.window = window /\ packet.state = stateId
      /\ packet.mode = mode /\ packet.place = place
      /\ place \in destinations => packet.shown = items[place]
      /\ place # Outside => Disturbs(packet, window)
  BY ClickSays DEF SelectionInv
<1>2. Does(<<packet>>)
  OBVIOUS
<1> HIDE DEF packet
<1> QED
  BY <1>1, <1>2, SendsOneKnown

LEMMA DragKnown ==
  ASSUME SelectionInv, NEW place \in Shown, Drag(place), UNCHANGED <<window, stateId>>
  PROVE  WindowsFollow' /\ MenusAreKnown'
<1> DEFINE outer == Click("drag", Outside, NoKey)
           inner == Click("drag", place, NoKey)
           p == <<outer, inner, outer>>
<1>1. place \in Places /\ place # Outside /\ "drag" \in Mode /\ NoKey \in Hotbar \cup {Outside}
  BY KeptItems DEF Shown, Places, Inventory, Mode, NoKey
<1>2. /\ outer \in Sent /\ outer.kind = "click" /\ outer.window = window /\ outer.state = stateId /\ outer.mode = "drag"
      /\ inner \in Sent /\ inner.kind = "click" /\ inner.window = window /\ inner.state = stateId /\ inner.mode = "drag"
      /\ Disturbs(inner, window)
  BY <1>1, ClickSays DEF SelectionInv
<1>3. Does(p)
  BY DEF Drag
<1> HIDE DEF outer, inner
<1>4. p \in Seq(Sent) /\ Len(p) = 3 /\ p[1] = outer /\ p[2] = inner /\ p[3] = outer
  BY <1>2
<1> HIDE DEF p
<1>5. up' = up \o p /\ UNCHANGED <<open, down, destinations>>
  BY <1>3, <1>4, DoesTyped DEF SelectionInv
<1>6. \A k \in 1..Len(p) : p[k] = outer \/ p[k] = inner
  BY <1>4
<1>7. WindowsFollow'
  <2>1. \A k \in 1..Len(p) : p[k].kind # "close"
    BY <1>2, <1>6
  <2> QED
    BY <1>4, <1>5, <2>1, SendsNoClose DEF SelectionInv
<1>8. MenusAreKnown'
  <2>1. /\ \A k \in 1..Len(p) : p[k].kind = "click" =>
             /\ p[k].window = window /\ p[k].state = stateId
             /\ p[k].mode = "pickup" /\ p[k].place \in destinations => p[k].shown = items[p[k].place]
        /\ \E k \in 1..Len(p) : Disturbs(p[k], window)
    <3>1. 2 \in 1..Len(p)
      BY <1>4
    <3> QED
      BY <1>2, <1>4, <1>6, <3>1
  <2> QED
    BY <1>4, <1>5, <2>1, SendsKnown DEF SelectionInv
<1> QED
  BY <1>7, <1>8

LEMMA ClickWindowKnown == ASSUME SelectionInv, ClickWindow PROVE WindowsFollow' /\ MenusAreKnown'
<1>1. \A place \in Shown : place \in Places /\ place # Outside /\ place \in Places \cup {Outside}
  BY KeptItems DEF Shown, Places, Inventory
<1>2. /\ UNCHANGED <<window, stateId, held>> /\ NoKey \in Hotbar \cup {Outside} /\ Hotbar \subseteq Hotbar \cup {Outside}
      /\ "pickup" \in Mode /\ "shift" \in Mode /\ "number" \in Mode /\ "throw" \in Mode /\ "collect" \in Mode
  BY DEF ClickWindow, NoKey, Mode
<1>3. ASSUME NEW place \in Shown, PickUp(place) \/ ShiftClick(place) \/ Throw(place) \/ Collect(place)
      PROVE  WindowsFollow' /\ MenusAreKnown'
  <2>1. \E mode \in {"pickup", "shift", "throw", "collect"} : Does(<<Click(mode, place, NoKey)>>)
    BY <1>3 DEF PickUp, ShiftClick, Throw, Collect
  <2>2. PICK mode \in Mode : Does(<<Click(mode, place, NoKey)>>)
    BY <2>1 DEF Mode
  <2> QED
    BY <1>1, <1>2, <2>2, ClickKnown
<1>4. ASSUME NEW place \in Shown, NEW slot \in Hotbar, NumberKey(place, slot)
      PROVE  WindowsFollow' /\ MenusAreKnown'
  <2>1. Does(<<Click("number", place, slot)>>)
    BY <1>4 DEF NumberKey
  <2> QED
    BY <1>1, <1>2, <2>1, ClickKnown
<1>5. ASSUME DropOutside PROVE WindowsFollow' /\ MenusAreKnown'
  <2>1. Does(<<Click("pickup", Outside, NoKey)>>) /\ UNCHANGED items
    BY <1>5 DEF DropOutside
  <2>2. Outside \in Places \cup {Outside} /\ UNCHANGED <<window, stateId>>
    BY <1>2
  <2> QED
    BY <1>2, <2>1, <2>2, ClickKnown
<1> QED
  BY <1>2, <1>3, <1>4, <1>5, DragKnown DEF ClickWindow

LEMMA PlayerKnown == ASSUME SelectionInv, PlayerStep PROVE WindowsFollow' /\ MenusAreKnown'
<1>1. CASE UseItem
  <2>1. Packet("use") \in Sent /\ Packet("use").kind = "use"
    BY DEF Packet, Sent
  <2>2. Does(<<Packet("use")>>) /\ UNCHANGED <<window, stateId, items>>
    BY <1>1 DEF UseItem, client
  <2> QED
    BY <2>1, <2>2, SendsOneKnown
<1>2. ASSUME NEW slot \in Hotbar, HoldItem(slot) PROVE WindowsFollow' /\ MenusAreKnown'
  <2> DEFINE packet == [kind |-> "hold", slot |-> slot]
  <2>1. packet \in Sent /\ packet.kind = "hold"
    BY DEF Sent
  <2>2. Does(<<packet>>) /\ UNCHANGED <<window, stateId, items>>
    BY <1>2 DEF HoldItem
  <2> HIDE DEF packet
  <2> QED
    BY <2>1, <2>2, SendsOneKnown
<1>3. CASE DropSelected
  <2>1. Packet("drop") \in Sent /\ Packet("drop").kind = "drop"
    BY DEF Packet, Sent
  <2>2. Does(<<Packet("drop")>>) /\ UNCHANGED <<window, stateId>> /\ window = 0
    BY <1>3 DEF DropSelected
  <2> QED
    BY <2>1, <2>2, SendsOneKnown
<1>4. CASE CloseMenu
  <2> DEFINE packet == [kind |-> "close", window |-> window]
             p == <<packet>>
  <2>1. packet \in Sent /\ packet.kind = "close"
    BY DEF Sent, SelectionInv, VariablesTyped
  <2>2. p \in Seq(Sent) /\ Len(p) = 1 /\ p[1] = packet
    BY <2>1, OnePacket
  <2>3. Does(p) /\ window' = 0 /\ UNCHANGED <<stateId, items>>
    BY <1>4 DEF CloseMenu
  <2>4. up' = up \o p /\ UNCHANGED <<open, down, destinations>>
    BY <2>2, <2>3, DoesTyped DEF SelectionInv
  <2> HIDE DEF p, packet
  <2>5. \A k \in 1..Len(p) : p[k].kind # "click"
    BY <2>1, <2>2
  <2>6. MenusAreKnown'
    BY <2>2, <2>3, <2>4, <2>5, SendsKnown DEF SelectionInv
  <2> QED
    BY <1>4, <2>6, ClosesMenu DEF SelectionInv
<1>5. CASE ClickWindow
  BY <1>5, ClickWindowKnown
<1> QED
  BY <1>1, <1>2, <1>3, <1>4, <1>5 DEF PlayerStep

-------------------------------------------------------------------------------
(* The client reads                                                         *)

LEMMA ReadsMenu ==
  ASSUME VariablesTyped, MenusAreKnown, Receives
  PROVE  \/ window' = 0
         \/ stateId' = 0
         \/ UNCHANGED <<window, stateId>> /\ \A place \in Menu : items'[place] = items[place]
         \/ /\ Head(down).kind = "content" /\ Head(down).window = window
            /\ window' = window /\ stateId' = Head(down).state
            /\ \A place \in destinations : place \in Head(down).places => items'[place] = "destination"
<1> DEFINE packet == Head(down)
<1>1. down # <<>> /\ packet = down[1] /\ 1 \in 1..Len(down) /\ packet \in Queued
  BY ReadsWindow, ReadingTyped, Shifted DEF VariablesTyped
<1>2. Menu \subseteq Places /\ destinations \subseteq Menu
  BY DEF Places, VariablesTyped
<1>3. CASE packet.kind = "open"
  BY <1>3 DEF Receives
<1>4. CASE packet.kind = "content" /\ packet.window = 0
  <2>1. items' = Content(packet.places, packet.visible) /\ UNCHANGED <<window, stateId>>
    BY <1>4 DEF Receives
  <2>2. packet.places \cap Menu = {}
    BY <1>1, <1>4 DEF MenusAreKnown, InventoryIsApart
  <2>3. \A place \in Menu : items'[place] = items[place]
    BY <1>2, <2>1, <2>2 DEF Content
  <2> QED
    BY <2>1, <2>3
<1>5. CASE packet.kind = "content" /\ packet.window # 0 /\ packet.window = window
  <2>1. items' = Content(packet.places, packet.visible) /\ stateId' = packet.state /\ window' = window
    BY <1>5 DEF Receives
  <2>2. \A place \in destinations : place \in packet.places => items'[place] = "destination"
    BY <1>2, <2>1 DEF Content, MenuItem
  <2> QED
    BY <1>5, <2>1, <2>2
<1>6. CASE packet.kind = "content" /\ packet.window # 0 /\ packet.window # window
  BY <1>6 DEF Receives
<1>7. CASE packet.kind = "close"
  BY <1>7 DEF Receives
<1>8. CASE packet.kind \notin {"open", "content", "close"}
  BY <1>8 DEF Receives
<1> QED
  BY <1>3, <1>4, <1>5, <1>6, <1>7, <1>8

(* The client sends nothing but a confirmation when it reads.               *)
LEMMA ReadsSending ==
  ASSUME VariablesTyped, Receives
  PROVE  /\ Len(up) \in Nat /\ Len(up') \in Nat /\ Len(up') >= Len(up)
         /\ \A i \in 1..Len(up) : up'[i] = up[i]
         /\ \A i \in 1..Len(up') : i \in 1..Len(up) \/ up'[i].kind = "confirm"
<1>1. up' = up \/ (up' = Append(up, Head(down)) /\ Head(down) \in Sent /\ Head(down).kind = "confirm")
  BY ReadingTyped
<1>2. CASE up' = up
  BY <1>2 DEF VariablesTyped
<1>3. CASE up' = Append(up, Head(down)) /\ Head(down) \in Sent /\ Head(down).kind = "confirm"
  <2>1. /\ Len(up) \in Nat /\ Len(up') = Len(up) + 1 /\ up'[Len(up) + 1] = Head(down)
        /\ \A i \in 1..Len(up) : up'[i] = up[i]
    BY <1>3 DEF VariablesTyped
  <2> QED
    BY <1>3, <2>1
<1> QED
  BY <1>1, <1>2, <1>3

LEMMA ReceivesKnown == ASSUME VariablesTyped, MenusAreKnown, Receives PROVE MenusAreKnown'
<1>1. down # <<>> /\ down' = Tail(down) /\ Head(down) = down[1] /\ UNCHANGED open
  BY ReadsWindow
<1>2. /\ Len(down) \in Nat /\ Len(down) >= 1 /\ Len(down') = Len(down) - 1
      /\ \A i \in 1..Len(down) - 1 : down'[i] = down[i + 1]
  BY <1>1, Shifted DEF VariablesTyped
<1>3. \A i \in 1..Len(down') : i + 1 \in 1..Len(down) /\ down'[i] = down[i + 1]
  BY <1>2
<1>4. /\ Len(up) \in Nat /\ Len(up') \in Nat /\ Len(up') >= Len(up)
      /\ \A i \in 1..Len(up) : up'[i] = up[i]
      /\ \A i \in 1..Len(up') : i \in 1..Len(up) \/ up'[i].kind = "confirm"
  BY ReadsSending
<1>5. UNCHANGED destinations /\ destinations \subseteq Menu
  BY DEF Receives, history, chosen, VariablesTyped
<1>6. InventoryIsApart'
  BY <1>3 DEF MenusAreKnown, InventoryIsApart
<1> SUFFICES ASSUME NEW menu \in open PROVE MenuIsKnown(menu)'
  BY <1>1, <1>6 DEF MenusAreKnown
<1>7. MenuIsKnown(menu) /\ menu.window # 0 /\ menu.state \in Nat
  BY MenuTyped DEF MenusAreKnown
<1>8. Head(down).kind = "content" /\ Head(down).window = menu.window =>
        Head(down).state <= menu.state /\ Menu \subseteq Head(down).places
  <2>1. 1 \in 1..Len(down)
    BY <1>2
  <2> QED
    BY <1>1, <1>7, <2>1 DEF MenuIsKnown, MenuIsNewest
<1>9. window' = menu.window => stateId' <= menu.state
  <2>1. 0 <= menu.state
    BY <1>7
  <2> QED
    BY <1>7, <1>8, <2>1, ReadsMenu DEF MenuIsKnown, MenuIsNewest
<1>10. MenuIsNewest(menu)'
  <2>1. \A i \in 1..Len(down') : down'[i].kind = "content" /\ down'[i].window = menu.window =>
          down'[i].state <= menu.state /\ Menu \subseteq down'[i].places
    BY <1>3, <1>7 DEF MenuIsKnown, MenuIsNewest
  <2>2. \A i \in 1..Len(up') : up'[i].kind = "click" /\ up'[i].window = menu.window => up'[i].state <= menu.state
    BY <1>4, <1>7 DEF MenuIsKnown, MenuIsNewest
  <2> QED
    BY <1>7, <1>9, <2>1, <2>2 DEF MenuIsKnown, MenuIsNewest
<1>11. (\E i \in 1..Len(up) : Disturbs(up[i], menu.window)) => \E i \in 1..Len(up') : Disturbs(up'[i], menu.window)
  BY <1>4
<1>12. MenuIsWhole(menu)'
  <2> SUFFICES ASSUME window' = menu.window, stateId' = menu.state
               PROVE  \/ \A place \in destinations : items'[place] = "destination"
                      \/ \E i \in 1..Len(up') : Disturbs(up'[i], menu.window)
    BY <1>5 DEF MenuIsWhole
  <2>1. stateId' # 0
    <3>1. menu.state >= 1
      BY <1>7 DEF MenuIsKnown, MenuIsNewest
    <3> QED
      BY <1>7, <3>1
  <2>2. CASE UNCHANGED <<window, stateId>> /\ \A place \in Menu : items'[place] = items[place]
    BY <1>5, <1>7, <1>11, <2>2 DEF MenuIsKnown, MenuIsWhole
  <2>3. CASE /\ Head(down).kind = "content" /\ Head(down).window = window /\ window' = window
             /\ \A place \in destinations : place \in Head(down).places => items'[place] = "destination"
    BY <1>5, <1>8, <2>3
  <2> QED
    BY <1>7, <2>1, <2>2, <2>3, ReadsMenu
<1>13. MissesAreLate(menu)'
  <2> SUFFICES ASSUME NEW i \in 1..Len(up'), Misses(up[i], menu)'
               PROVE  \E j \in 1..i - 1 : Disturbs(up'[j], menu.window)
    BY DEF MissesAreLate
  <2>1. up'[i].kind = "click"
    BY DEF Misses
  <2>2. i \in 1..Len(up) /\ up'[i] = up[i]
    BY <1>4, <2>1
  <2>3. Misses(up[i], menu)
    BY <1>5, <2>2 DEF Misses
  <2>4. PICK j \in 1..i - 1 : Disturbs(up[j], menu.window)
    BY <1>7, <2>2, <2>3 DEF MenuIsKnown, MissesAreLate
  <2>5. j \in 1..Len(up)
    BY <1>4, <2>2
  <2> QED
    BY <1>4, <2>4, <2>5
<1> QED
  BY <1>10, <1>12, <1>13 DEF MenuIsKnown

-------------------------------------------------------------------------------
(* What the server answers                                                  *)

Plain(menus) == {packet \in Fitting(menus) : ~Switches(packet)}

LEMMA PlainPackets ==
  ASSUME NEW menus
  PROVE  /\ Plain(menus) \subseteq Queued /\ Plain(menus) \subseteq Fitting(menus)
         /\ \A packet \in Plain(menus) : ~Switches(packet)
         /\ [kind |-> "connect"] \in Plain(menus)
         /\ \A id \in Nat : [kind |-> "confirm", window |-> id] \in Plain(menus)
<1>1. /\ Plain(menus) \subseteq Queued /\ Plain(menus) \subseteq Fitting(menus)
      /\ \A packet \in Plain(menus) : ~Switches(packet)
  BY DEF Plain, Fitting
<1>2. [kind |-> "connect"] \in Plain(menus)
  BY DEF Plain, Fitting, Queued, Switches
<1>3. ASSUME NEW id \in Nat PROVE [kind |-> "confirm", window |-> id] \in Plain(menus)
  <2> DEFINE packet == [kind |-> "confirm", window |-> id]
  <2>1. packet \in Queued /\ packet.kind = "confirm"
    BY DEF Queued
  <2> HIDE DEF packet
  <2>2. packet \in Plain(menus)
    BY <2>1 DEF Plain, Fitting, Switches
  <2> QED
    BY <2>2 DEF packet
<1> QED
  BY <1>1, <1>2, <1>3

LEMMA OneContent ==
  ASSUME NEW menus, NEW id \in Nat, NEW state \in Nat, NEW places \in SUBSET Places, NEW shows \in BOOLEAN,
         IF id = 0 THEN places \cap Menu = {}
         ELSE \A menu \in menus : id = menu.window => state <= menu.state /\ Menu \subseteq places
  PROVE  [kind |-> "content", window |-> id, state |-> state, places |-> places, visible |-> shows] \in Plain(menus)
<1> DEFINE packet == [kind |-> "content", window |-> id, state |-> state, places |-> places, visible |-> shows]
<1>1. /\ packet \in Queued /\ packet.kind = "content" /\ packet.window = id /\ packet.state = state
      /\ packet.places = places
  BY DEF Queued
<1> HIDE DEF packet
<1>2. packet \in Plain(menus)
  BY <1>1 DEF Plain, Fitting, Switches
<1> QED
  BY <1>2 DEF packet

LEMMA OneOf == ASSUME NEW S, NEW x \in S PROVE <<x>> \in Seq(S) /\ Len(<<x>>) = 1 /\ <<x>>[1] = x
OBVIOUS

LEMMA InventoryPlaces == Inventory \subseteq Places /\ Inventory \cap Menu = {} /\ ToggleSlot \in Inventory
BY SelectorAssumption DEF Inventory, Places

LEMMA ResyncPlain ==
  ASSUME VariablesTyped, NEW menus, NEW needed \in BOOLEAN
  PROVE  ResyncInventory(needed) \in Seq(Plain(menus))
<1>1. ContentOf(0, 0, Inventory) \in Plain(menus)
  <2>1. Inventory \in SUBSET Places /\ visible \in BOOLEAN /\ Inventory \cap Menu = {}
    BY InventoryPlaces DEF VariablesTyped
  <2> QED
    BY <2>1, OneContent DEF ContentOf
<1>2. <<ContentOf(0, 0, Inventory)>> \in Seq(Plain(menus)) /\ <<>> \in Seq(Plain(menus))
  BY <1>1, OneOf
<1> QED
  BY <1>2 DEF ResyncInventory

LEMMA ConfirmPlain ==
  ASSUME NEW menus, NEW click, click.window \in Nat
  PROVE  Confirm(click) \in Seq(Plain(menus))
<1>1. [kind |-> "confirm", window |-> click.window] \in Plain(menus)
  BY PlainPackets
<1>2. <<[kind |-> "confirm", window |-> click.window]>> \in Seq(Plain(menus)) /\ <<>> \in Seq(Plain(menus))
  BY <1>1, OneOf
<1> QED
  BY <1>2 DEF Confirm

(* An answer that opens and closes nothing, while the menu stays as it is   *)
LEMMA AnswersPlain ==
  ASSUME SelectionInv, NEW kind, Takes(kind), kind # "close", UNCHANGED <<window, stateId, items, destinations, open>>,
         \A menu \in open : ~Disturbs(Head(up), menu.window),
         NEW p \in Seq(Plain(open)), down' = down \o p
  PROVE  WindowsFollow' /\ MenusAreKnown'
<1>1. up # <<>> /\ up' = Tail(up) /\ Head(up).kind # "close"
  BY DEF Takes
<1>2. p \in Seq(Queued) /\ p \in Seq(Fitting(open))
  BY PlainPackets
<1>3. \A k \in 1..Len(p) : ~Switches(p[k])
  <2>1. \A k \in 1..Len(p) : p[k] \in Plain(open)
    OBVIOUS
  <2> QED
    BY <2>1, PlainPackets
<1>4. OneMenu'
  BY DEF SelectionInv, WindowsFollow, OneMenu
<1>5. WindowsFollow'
  BY <1>1, <1>2, <1>3, <1>4, AnswersStill DEF SelectionInv
<1>6. MenusAreKnown'
  BY <1>1, <1>2, AnswersKnown DEF SelectionInv
<1> QED
  BY <1>5, <1>6

LEMMA SilentKnown ==
  ASSUME SelectionInv, SetHeldItem \/ UseOther \/ ConfirmTransaction \/ Ignore
  PROVE  WindowsFollow' /\ MenusAreKnown'
<1>1. UNCHANGED <<window, stateId, items, destinations, open, down>>
  BY DEF SetHeldItem, UseOther, ConfirmTransaction, Ignore, client, server, history, chosen
<1>2. <<>> \in Seq(Plain(open)) /\ down' = down \o <<>>
  BY <1>1, NothingQueued DEF SelectionInv
<1>3. CASE Ignore
  <2>1. Takes("click") /\ \A menu \in open : ~Disturbs(Head(up), menu.window)
    BY <1>3 DEF Ignore, Disturbs
  <2> QED
    BY <1>1, <1>2, <2>1, AnswersPlain
<1>4. CASE SetHeldItem \/ UseOther \/ ConfirmTransaction
  <2>1. PICK kind \in {"hold", "use", "confirm"} : Takes(kind)
    BY <1>4 DEF SetHeldItem, UseOther, ConfirmTransaction
  <2>2. kind # "close" /\ \A menu \in open : ~Disturbs(Head(up), menu.window)
    BY <2>1 DEF Disturbs, Takes
  <2> QED
    BY <1>1, <1>2, <2>1, <2>2, AnswersPlain
<1> QED
  BY <1>3, <1>4

LEMMA PlayerActionKnown == ASSUME SelectionInv, PlayerAction PROVE WindowsFollow' /\ MenusAreKnown'
<1> DEFINE p == ResyncInventory(selected \in {SelectorSlot, ToggleSlot})
<1>1. p \in Seq(Plain(open))
  <2>1. (selected \in {SelectorSlot, ToggleSlot}) \in BOOLEAN
    OBVIOUS
  <2> QED
    BY <2>1, ResyncPlain DEF SelectionInv
<1>2. Takes("drop") /\ down' = down \o p /\ UNCHANGED <<window, stateId, items, destinations, open>>
  BY DEF PlayerAction, Queue, client, server, history, chosen
<1> HIDE DEF p
<1>3. \A menu \in open : ~Disturbs(Head(up), menu.window)
  BY <1>2 DEF Disturbs, Takes
<1> QED
  BY <1>1, <1>2, <1>3, AnswersPlain

LEMMA ToggleKnown == ASSUME SelectionInv, ToggleVisibility PROVE WindowsFollow' /\ MenusAreKnown'
<1> DEFINE packet == [ContentOf(0, 0, {ToggleSlot}) EXCEPT !.visible = visible']
           p == <<packet>>
<1>1. packet \in Plain(open)
  <2>1. packet = [kind |-> "content", window |-> 0, state |-> 0, places |-> {ToggleSlot}, visible |-> visible']
    BY DEF ContentOf
  <2>2. visible' \in BOOLEAN /\ {ToggleSlot} \in SUBSET Places /\ {ToggleSlot} \cap Menu = {}
    BY InventoryPlaces DEF ToggleVisibility, SelectionInv, VariablesTyped
  <2> HIDE DEF packet
  <2> QED
    BY <2>1, <2>2, OneContent
<1>2. Takes("use") /\ down' = down \o p /\ UNCHANGED <<window, stateId, items, destinations, open>>
  BY DEF ToggleVisibility, Queue, client, history, chosen
<1> HIDE DEF packet
<1>3. p \in Seq(Plain(open))
  BY <1>1, OneOf
<1> HIDE DEF p
<1>4. \A menu \in open : ~Disturbs(Head(up), menu.window)
  BY <1>2 DEF Disturbs, Takes
<1> QED
  BY <1>2, <1>3, <1>4, AnswersPlain

LEMMA ElsewhereKnown == ASSUME SelectionInv, ClickElsewhere PROVE WindowsFollow' /\ MenusAreKnown'
<1> DEFINE click == Head(up)
           p == IF AffectsLobbyItem(click) THEN Confirm(click) \o ResyncInventory(TRUE) ELSE <<>>
<1>1. Takes("click") /\ Opens(click) = {} /\ down' = down \o p /\ UNCHANGED <<window, stateId, items, destinations, open>>
  BY DEF ClickElsewhere, Queue, client, server, chosen
<1>2. click.window \in Nat
  BY <1>1, TakesTyped DEF SelectionInv, Sent
<1>3. p \in Seq(Plain(open))
  <2>1. Confirm(click) \in Seq(Plain(open))
    BY <1>2, ConfirmPlain
  <2>2. ResyncInventory(TRUE) \in Seq(Plain(open))
    BY ResyncPlain DEF SelectionInv
  <2>3. <<>> \in Seq(Plain(open))
    OBVIOUS
  <2>4. \A q, r \in Seq(Plain(open)) : q \o r \in Seq(Plain(open))
    BY Joined
  <2> QED
    BY <2>1, <2>2, <2>3, <2>4
<1> HIDE DEF p
<1>4. \A menu \in open : ~Disturbs(click, menu.window)
  BY <1>1 DEF Disturbs, Opens
<1> QED
  BY <1>1, <1>3, <1>4, AnswersPlain

(* The server hears that a window was closed.                               *)
LEMMA CloseKnown == ASSUME SelectionInv, CloseContainer PROVE WindowsFollow' /\ MenusAreKnown'
<1> DEFINE id == Head(up).window
           none == <<>>
<1>1. /\ up # <<>> /\ up' = Tail(up) /\ Head(up).kind = "close" /\ open' = {old \in open : old.window # id}
      /\ UNCHANGED <<window, stateId, items, destinations, down>>
  BY DEF CloseContainer, Takes, client, history, chosen
<1>2. /\ Len(up) \in Nat /\ Len(up) >= 1 /\ Len(up') = Len(up) - 1 /\ (\A i \in 1..Len(up) - 1 : up'[i] = up[i + 1])
      /\ Head(up) = up[1] /\ 1 \in 1..Len(up)
  BY <1>1, Shifted DEF SelectionInv, VariablesTyped
<1>3. none \in Seq(Fitting(open')) /\ none \in Seq(Queued) /\ Len(none) = 0 /\ down' = down \o none
  BY <1>1, NothingQueued DEF SelectionInv
<1> HIDE DEF none
<1>4. id # 0 /\ id # window /\ \A j \in 1..Len(down) : down[j].kind = "open" => down[j].window # id
  BY <1>1, <1>2 DEF SelectionInv, WindowsFollow, ClosedForGood
<1> HIDE DEF id
<1>5. ~WillShowWindow(down, window, id)
  BY <1>4 DEF WillShowWindow, SwitchesTo
<1>6. ComesToMenu'
  BY <1>1, <1>5 DEF SelectionInv, WindowsFollow, ComesToMenu
<1>7. MenuComes'
  <2> SUFFICES ASSUME NEW menu \in open, menu.window # id, Closing(up, menu.window)
               PROVE  Closing(up', menu.window)
    BY <1>1 DEF SelectionInv, WindowsFollow, MenuComes
  <2>1. PICK i \in 1..Len(up) : up[i].kind = "close" /\ up[i].window = menu.window
    BY DEF Closing
  <2>2. i # 1
    BY <1>2, <2>1 DEF id
  <2>3. i - 1 \in 1..Len(up') /\ up'[i - 1] = up[i]
    BY <1>2, <2>2
  <2> QED
    BY <2>1, <2>3 DEF Closing
<1>8. ClosedForGood' /\ OpensOnce'
  <2>1. \A k \in 1..Len(none) : FALSE
    BY <1>3
  <2> QED
    BY <1>1, <1>3, <2>1, AnswersClosed DEF SelectionInv
<1>9. OneMenu'
  BY <1>1 DEF SelectionInv, WindowsFollow, OneMenu
<1>10. MenusAreKnown'
  <2>1. \A menu \in open' : menu \in open /\ ~Disturbs(Head(up), menu.window)
    BY <1>1 DEF Disturbs
  <2> QED
    BY <1>1, <1>3, <2>1, AnswersKnown DEF SelectionInv
<1> QED
  BY <1>6, <1>7, <1>8, <1>9, <1>10 DEF WindowsFollow

(* A destination is taken, and the client had shown it.                     *)
LEMMA SelectKnown ==
  ASSUME SelectionInv, Select
  PROVE  WindowsFollow' /\ MenusAreKnown' /\ (HasStateIds /\ ~blind => ~blind')
<1> DEFINE click == Head(up)
           closing == [kind |-> "close", window |-> click.window]
           rest == <<Packet("connect"), closing>>
           p == Confirm(click) \o rest
<1>1. /\ up # <<>> /\ up' = Tail(up) /\ click.kind = "click" /\ click = up[1] /\ click \in Sent /\ 1 \in 1..Len(up)
      /\ Takes("click")
  BY TakesTyped, Shifted DEF SelectionInv, Select, VariablesTyped
<1>2. /\ \E menu \in Opens(click) : Selects(menu, click)
      /\ open' = {} /\ down' = down \o p /\ blind' = (blind \/ click.shown # "destination")
      /\ UNCHANGED <<window, stateId, items, destinations>>
  BY DEF Select, Queue, client, chosen
<1>3. click.window \in Nat
  BY <1>1 DEF Sent
<1>4. HasStateIds /\ ~blind => ~blind'
  <2> SUFFICES ASSUME HasStateIds, click.shown # "destination" PROVE FALSE
    BY <1>2
  <2>1. PICK menu \in open : click.window = menu.window /\ Selects(menu, click)
    BY <1>2 DEF Opens
  <2>2. Misses(up[1], menu)
    BY <1>1, <2>1 DEF Misses, Selects
  <2>3. MissesAreLate(menu)
    BY <2>1 DEF SelectionInv, MenusAreKnown, MenuIsKnown
  <2>4. \E j \in 1..1 - 1 : Disturbs(up[j], menu.window)
    BY <1>1, <2>2, <2>3 DEF MissesAreLate
  <2> QED
    BY <2>4
<1>5. Confirm(click) \in Seq(Plain({}))
  BY <1>3, ConfirmPlain
<1>6. Packet("connect") \in Plain({}) /\ Packet("connect").kind = "connect"
  BY PlainPackets DEF Packet
<1>7. closing \in Queued /\ closing.kind = "close" /\ closing \in Fitting({})
  BY <1>3 DEF Queued, Fitting
<1> HIDE DEF click, closing
<1>8. rest \in Seq(Fitting({})) /\ Len(rest) = 2 /\ rest[1] = Packet("connect") /\ rest[2] = closing
  BY <1>6, <1>7, PlainPackets
<1> DEFINE first == Confirm(click)
<1> HIDE DEF rest, first
<1>9. /\ p \in Seq(Fitting({})) /\ Len(p) = Len(first) + 2 /\ Len(first) \in Nat
      /\ p[Len(p)] = closing
      /\ \A k \in 1..Len(p) : p[k].kind # "open"
  <2>1. first \in Seq(Fitting({})) /\ \A i \in 1..Len(first) : first[i] \in Plain({})
    BY <1>5, PlainPackets DEF first
  <2>2. /\ p \in Seq(Fitting({})) /\ Len(p) = Len(first) + 2 /\ Len(first) \in Nat
        /\ \A i \in 1..Len(first) : p[i] = first[i]
        /\ \A k \in 1..2 : p[Len(first) + k] = rest[k]
    <3>1. p = first \o rest
      BY DEF first
    <3>2. first \in Seq(Fitting({})) /\ rest \in Seq(Fitting({})) /\ Len(rest) = 2
      BY <1>8, <2>1
    <3> HIDE DEF p
    <3> DEFINE S == Fitting({})
    <3>3. first \in Seq(S) /\ rest \in Seq(S)
      BY <3>2
    <3> HIDE DEF S
    <3>4. /\ first \o rest \in Seq(S) /\ Len(first \o rest) = Len(first) + Len(rest) /\ Len(first) \in Nat
          /\ \A i \in 1..Len(first) : (first \o rest)[i] = first[i]
          /\ \A k \in 1..Len(rest) : (first \o rest)[Len(first) + k] = rest[k]
      BY <3>3, Joined
    <3> QED
      BY <3>1, <3>2, <3>4 DEF S
  <2>3. p[Len(first) + 1] = Packet("connect") /\ p[Len(first) + 2] = closing
    BY <1>8, <2>2
  <2>4. \A k \in 1..Len(p) : k \in 1..Len(first) \/ k = Len(first) + 1 \/ k = Len(first) + 2
    BY <2>2
  <2>5. \A packet \in Plain({}) : packet.kind # "open"
    BY PlainPackets DEF Switches
  <2> QED
    BY <1>6, <1>7, <2>1, <2>2, <2>3, <2>4, <2>5
<1> HIDE DEF p
<1>10. p \in Seq(Queued)
  <2>1. Fitting({}) \subseteq Queued
    BY DEF Fitting
  <2> QED
    BY <1>9, <2>1
<1>11. \A id : WillShowWindow(down', window', id) <=> id = 0
  <2>1. Len(p) \in 1..Len(p) /\ (\A j \in Len(p) + 1..Len(p) : FALSE) /\ Switches(p[Len(p)])
    BY <1>7, <1>9 DEF Switches
  <2>2. \A id : WillShowWindow(down \o p, window', id) <=> SwitchesTo(p[Len(p)], id)
    BY <1>10, <2>1, QueueSwitch DEF SelectionInv, VariablesTyped
  <2> QED
    BY <1>2, <1>7, <1>9, <2>2 DEF SwitchesTo
<1>12. ClosedForGood' /\ OpensOnce'
  BY <1>1, <1>2, <1>9, <1>10, AnswersClosed DEF SelectionInv
<1>13. WindowsFollow'
  BY <1>2, <1>11, <1>12 DEF WindowsFollow, OneMenu, ComesToMenu, MenuComes
<1>14. MenusAreKnown'
  BY <1>1, <1>2, <1>9, AnswersKnown DEF SelectionInv
<1> QED
  BY <1>4, <1>13, <1>14

(* The menu is sent again.                                                  *)
LEMMA ResyncKnown == ASSUME SelectionInv, Resync PROVE WindowsFollow' /\ MenusAreKnown'
<1> DEFINE click == Head(up)
<1>1. Takes("click") /\ UNCHANGED <<window, stateId, items, destinations>>
  BY DEF Resync, client, history, chosen
<1>2. PICK menu \in Opens(click) :
        /\ open' = {[menu EXCEPT !.state = @ + 1]}
        /\ down' = down \o (Confirm(click) \o <<ContentOf(menu.window, menu.state + 1, FullWindow)>>
                            \o ResyncInventory(AffectsLobbyItem(click)))
  BY DEF Resync, Queue
<1>3. /\ up # <<>> /\ up' = Tail(up) /\ click.kind = "click" /\ click.window \in Nat
      /\ menu \in open /\ menu.window \in Nat \ {0} /\ menu.state \in Nat /\ menu \in [window : Nat \ {0}, state : Nat]
  BY <1>1, <1>2, TakesTyped DEF Opens, SelectionInv, VariablesTyped, Sent
<1> DEFINE next == [menu EXCEPT !.state = @ + 1]
           S == Plain({next})
           content == ContentOf(menu.window, menu.state + 1, FullWindow)
           again == ResyncInventory(AffectsLobbyItem(click))
           first == Confirm(click)
           p == first \o <<content>> \o again
<1>4. next.window = menu.window /\ next.state = menu.state + 1
  BY <1>3
<1>5. open' = {next} /\ down' = down \o p
  BY <1>2
<1> HIDE DEF next
<1>6. content \in S
  <2>1. Menu \subseteq Places /\ Places \in SUBSET Places /\ visible \in BOOLEAN
    BY DEF Places, SelectionInv, VariablesTyped
  <2>2. \A other \in {next} : menu.window = other.window => menu.state + 1 <= other.state /\ Menu \subseteq Places
    BY <1>3, <1>4, <2>1
  <2>3. menu.window \in Nat /\ menu.window # 0 /\ menu.state + 1 \in Nat
    BY <1>3
  <2> QED
    BY <2>1, <2>2, <2>3, OneContent DEF ContentOf, FullWindow
<1>7. first \in Seq(S)
  BY <1>3, ConfirmPlain
<1>8. again \in Seq(S)
  <2>1. AffectsLobbyItem(click) \in BOOLEAN
    BY DEF AffectsLobbyItem
  <2> QED
    BY <2>1, ResyncPlain DEF SelectionInv
<1>9. S \subseteq Queued /\ S \subseteq Fitting(open') /\ \A packet \in S : ~Switches(packet)
  BY <1>5, PlainPackets
<1> HIDE DEF content, first, again, S, click
<1>10. p \in Seq(S)
  <2>1. \A q, r \in Seq(S) : q \o r \in Seq(S)
    BY Joined
  <2>2. <<content>> \in Seq(S)
    BY <1>6, OneOf
  <2>3. first \o <<content>> \in Seq(S)
    BY <1>7, <2>1, <2>2
  <2> QED
    BY <1>8, <2>1, <2>3
<1> HIDE DEF p
<1>11. p \in Seq(Queued) /\ p \in Seq(Fitting(open')) /\ \A k \in 1..Len(p) : ~Switches(p[k])
  <2>1. \A k \in 1..Len(p) : p[k] \in S
    BY <1>10
  <2> QED
    BY <1>9, <1>10, <2>1
<1>12. \A old \in open : old = menu
  BY <1>3 DEF SelectionInv, WindowsFollow, OneMenu
<1>13. WindowsFollow'
  <2>1. OneMenu'
    BY <1>5 DEF OneMenu
  <2>2. Head(up).kind # "close"
    BY <1>3 DEF click
  <2>3. /\ \A other \in open' : \E old \in open : old.window = other.window
        /\ \A old \in open : \E other \in open' : old.window = other.window
    BY <1>3, <1>4, <1>5, <1>12
  <2> QED
    BY <1>1, <1>3, <1>5, <1>11, <2>1, <2>2, <2>3, AnswersStill DEF SelectionInv
<1>14. MenusAreKnown'
  <2>1. \A other \in open' : \E old \in open : other.window = old.window /\ other.state = old.state + 1
    BY <1>3, <1>4, <1>5
  <2> QED
    BY <1>1, <1>3, <1>5, <1>11, <2>1, AnswersKnown DEF SelectionInv
<1> QED
  BY <1>13, <1>14

(* A menu is opened, with an id that is free.                               *)
LEMMA OpenKnown == ASSUME SelectionInv, OpenSelector, NextIdIsFree PROVE WindowsFollow' /\ MenusAreKnown'
<1> DEFINE closing == IF open = {} THEN <<>> ELSE <<CHOOSE packet \in CloseContainerPackets : TRUE>>
           opens == [kind |-> "open", window |-> nextWindow]
           content == ContentOf(nextWindow, 1, Menu)
           rest == <<opens, content>>
           next == [window |-> nextWindow, state |-> 1]
           S == Fitting({next})
           p == closing \o rest
<1>1. /\ up # <<>> /\ up' = Tail(up) /\ Head(up).kind = "use" /\ open' = {next} /\ down' = down \o p
      /\ UNCHANGED <<window, stateId, items, destinations>>
  BY DEF OpenSelector, Takes, Queue, client, chosen
<1>2. nextWindow \in Nat /\ nextWindow # 0
  BY SelectorAssumption DEF SelectionInv, VariablesTyped
<1>3. next.window = nextWindow /\ next.state = 1
  OBVIOUS
<1>4. opens \in S /\ opens.kind = "open" /\ opens.window = nextWindow
  BY <1>2 DEF Fitting, Queued
<1>5. content \in S /\ content.kind = "content"
  <2>1. Menu \in SUBSET Places /\ visible \in BOOLEAN
    BY DEF Places, SelectionInv, VariablesTyped
  <2>2. content \in Plain({next})
    BY <1>2, <2>1, OneContent DEF ContentOf
  <2> QED
    BY <2>2, PlainPackets DEF ContentOf
<1>6. closing \in Seq(S) /\ Len(closing) \in Nat /\ \A k \in 1..Len(closing) : closing[k].kind = "close"
  <2>1. CASE open = {}
    BY <2>1
  <2>2. CASE open # {}
    <3> DEFINE packet == CHOOSE packet \in CloseContainerPackets : TRUE
    <3>1. \A some \in CloseContainerPackets : some \in S /\ some.kind = "close"
      <4> SUFFICES ASSUME NEW old \in open
                   PROVE  [kind |-> "close", window |-> old.window] \in S
        BY DEF CloseContainerPackets
      <4>1. old.window \in Nat
        BY MenuTyped DEF SelectionInv
      <4> QED
        BY <4>1 DEF Fitting, Queued
    <3>2. \E some \in CloseContainerPackets : TRUE
      BY <2>2 DEF CloseContainerPackets
    <3>3. packet \in S /\ packet.kind = "close"
      BY <3>1, <3>2
    <3>4. closing = <<packet>>
      BY <2>2
    <3> HIDE DEF packet, closing, S
    <3>5. <<packet>> \in Seq(S) /\ Len(<<packet>>) = 1 /\ <<packet>>[1] = packet
      BY <3>3, OneOf
    <3> QED
      BY <3>3, <3>4, <3>5
  <2> QED
    BY <2>1, <2>2
<1>7. S \subseteq Queued
  BY DEF Fitting
<1> HIDE DEF closing, opens, content, next, S
<1>8. rest \in Seq(S) /\ Len(rest) = 2 /\ rest[1] = opens /\ rest[2] = content
  BY <1>4, <1>5
<1> HIDE DEF rest
<1> DEFINE at == Len(closing) + 1
<1>9. /\ p \in Seq(S) /\ Len(p) = Len(closing) + 2 /\ p[at] = opens /\ p[Len(closing) + 2] = content
      /\ \A k \in 1..Len(closing) : p[k] = closing[k]
  <2>1. /\ closing \o rest \in Seq(S) /\ Len(closing \o rest) = Len(closing) + Len(rest)
        /\ \A i \in 1..Len(closing) : (closing \o rest)[i] = closing[i]
        /\ \A k \in 1..Len(rest) : (closing \o rest)[Len(closing) + k] = rest[k]
    <3>1. closing \in Seq(S) /\ rest \in Seq(S)
      BY <1>6, <1>8
    <3> QED
      BY <3>1, Joined
  <2>2. /\ Len(p) = Len(closing) + 2 /\ p[Len(closing) + 1] = rest[1] /\ p[Len(closing) + 2] = rest[2]
    BY <1>8, <2>1
  <2> QED
    BY <1>8, <2>1, <2>2
<1> HIDE DEF p
<1>10. p \in Seq(Queued) /\ p \in Seq(Fitting(open'))
  <2>1. S = Fitting(open')
    BY <1>1 DEF S
  <2> QED
    BY <1>7, <1>9, <2>1
<1>11. at \in 1..Len(p) /\ Switches(p[at]) /\ \A k \in at + 1..Len(p) : ~Switches(p[k])
  <2>1. at \in 1..Len(p) /\ \A k \in at + 1..Len(p) : k = Len(closing) + 2
    BY <1>6, <1>9
  <2> QED
    BY <1>4, <1>5, <1>9, <2>1 DEF Switches
<1>12. \A k \in 1..Len(p) : p[k].kind = "open" => k = at
  <2>1. \A k \in 1..Len(p) : k \in 1..Len(closing) \/ k = at \/ k = Len(closing) + 2
    BY <1>6, <1>9
  <2> QED
    BY <1>5, <1>6, <1>9, <2>1
<1> HIDE DEF at
<1>13. \A id : WillShowWindow(down', window', id) <=> id = nextWindow
  <2>1. \A id : WillShowWindow(down \o p, window', id) <=> SwitchesTo(p[at], id)
    BY <1>10, <1>11, QueueSwitch DEF SelectionInv, VariablesTyped
  <2> QED
    BY <1>1, <1>4, <1>9, <2>1 DEF SwitchesTo
<1>14. ClosedForGood' /\ OpensOnce'
  <2>1. \A k \in 1..Len(p) : p[k].kind = "open" =>
          p[k].window = nextWindow /\ \A l \in 1..Len(p) : p[l].kind = "open" => l = k
    BY <1>4, <1>9, <1>12
  <2> QED
    BY <1>1, <1>2, <1>10, <2>1, AnswersClosed DEF SelectionInv
<1>15. WindowsFollow'
  BY <1>1, <1>3, <1>13, <1>14 DEF WindowsFollow, OneMenu, ComesToMenu, MenuComes, next
<1>16. MenusAreKnown'
  <2>1. \A menu \in open' : menu.window = nextWindow /\ menu.state = 1
    BY <1>1, <1>3
  <2> QED
    BY <1>1, <1>10, <2>1, AnswersKnown DEF SelectionInv
<1> QED
  BY <1>15, <1>16

-------------------------------------------------------------------------------
NothingMissed == HasStateIds => ~blind

(* A menu's window id is used again after MaxWindowId menus; until then     *)
(* nothing of the old one is under way any more.                            *)
FreshIds == OpenSelector => NextIdIsFree

LEMMA SelectionInitially == ASSUME Init PROVE SelectionInv /\ NothingMissed
<1>1. VariablesTyped
  BY ItemsInitially DEF ItemsInv
<1>2. open = {} /\ window = 0 /\ up = <<>> /\ down = <<>> /\ Len(up) = 0 /\ Len(down) = 0 /\ blind = FALSE
  BY DEF Init
<1>3. WindowsFollow
  BY <1>2 DEF WindowsFollow, OneMenu, ComesToMenu, MenuComes, ClosedForGood, OpensOnce, WillShowWindow
<1>4. MenusAreKnown
  BY <1>2 DEF MenusAreKnown, InventoryIsApart
<1> QED
  BY <1>1, <1>2, <1>3, <1>4 DEF SelectionInv, NothingMissed

LEMMA SelectionStep ==
  ASSUME ItemsInv, SelectionInv, NothingMissed, [Next]_vars, [FreshIds]_vars
  PROVE  SelectionInv' /\ NothingMissed'
<1>1. VariablesTyped'
  BY ItemsStep DEF ItemsInv
<1>2. ASSUME UNCHANGED <<protocol, blind>> PROVE NothingMissed'
  BY <1>2 DEF NothingMissed, HasStateIds
<1>3. CASE PlayerStep
  <2>1. UNCHANGED <<protocol, blind>>
    BY <1>3 DEF PlayerStep, UseItem, HoldItem, DropSelected, CloseMenu, ClickWindow, PickUp, DropOutside, ShiftClick, NumberKey,
       Throw, Drag, Collect, Does, chosen
  <2> QED
    BY <1>1, <1>2, <1>3, <2>1, PlayerKnown DEF SelectionInv
<1>4. CASE Receives
  <2>1. UNCHANGED <<protocol, blind>>
    BY <1>4 DEF Receives, history, chosen
  <2> QED
    BY <1>1, <1>2, <1>4, <2>1, ReceivesWindow, ReceivesKnown DEF SelectionInv
<1>5. CASE TaskStep /\ ~Select
  <2>1. UNCHANGED <<protocol, blind>>
    BY <1>5 DEF TaskStep, ClickStep, SetHeldItem, OpenSelector, ToggleVisibility, UseOther, PlayerAction, CloseContainer,
       ConfirmTransaction, ClickElsewhere, Resync, Ignore, history, chosen
  <2>2. CASE OpenSelector
    <3>1. NextIdIsFree
      <4>1. up # <<>> /\ up' = Tail(up)
        BY <2>2 DEF OpenSelector, Takes
      <4>2. Len(up) \in Nat /\ Len(up') = Len(up) - 1
        BY <4>1, Shifted DEF SelectionInv, VariablesTyped
      <4>3. up' # up
        BY <4>2
      <4> QED
        BY <2>2, <4>3 DEF FreshIds, vars
    <3> QED
      BY <1>1, <1>2, <2>1, <2>2, <3>1, OpenKnown DEF SelectionInv
  <2>3. CASE ~OpenSelector
    <3>1. WindowsFollow' /\ MenusAreKnown'
      BY <1>5, <2>3, SilentKnown, ToggleKnown, PlayerActionKnown, CloseKnown, ElsewhereKnown, ResyncKnown DEF TaskStep, ClickStep
    <3> QED
      BY <1>1, <1>2, <2>1, <3>1 DEF SelectionInv
  <2> QED
    BY <2>2, <2>3
<1>6. CASE Select
  <2>1. UNCHANGED protocol
    BY <1>6 DEF Select, chosen
  <2> QED
    BY <1>1, <1>6, <2>1, SelectKnown DEF SelectionInv, NothingMissed, HasStateIds
<1>7. CASE UNCHANGED vars
  <2>1. UNCHANGED <<window, stateId, items, open, nextWindow, up, down, destinations, protocol, blind>>
    BY <1>7 DEF vars, client, server, history, chosen
  <2>2. WindowsFollow'
    BY <2>1 DEF SelectionInv, WindowsFollow, OneMenu, ComesToMenu, MenuComes, ClosedForGood, OpensOnce
  <2>3. MenusAreKnown'
    <3>1. \A menu : MenuIsKnown(menu)' <=> MenuIsKnown(menu)
      BY <2>1 DEF MenuIsKnown, MenuIsNewest, MenuIsWhole, MissesAreLate, Misses
    <3> QED
      BY <2>1, <3>1 DEF SelectionInv, MenusAreKnown, InventoryIsApart
  <2> QED
    BY <1>1, <1>2, <2>1, <2>2, <2>3 DEF SelectionInv
<1> QED
  BY <1>3, <1>4, <1>5, <1>6, <1>7 DEF Next, TaskStep

LEMMA SelectionInvariant == Spec /\ [][FreshIds]_vars => [](SelectionInv /\ NothingMissed)
<1>1. Init => SelectionInv /\ NothingMissed
  BY SelectionInitially
<1>2. ItemsInv /\ SelectionInv /\ NothingMissed /\ [Next]_vars /\ [FreshIds]_vars => (SelectionInv /\ NothingMissed)'
  BY SelectionStep
<1> QED
  BY <1>1, <1>2, ItemsInvariant, PTL DEF Spec

(* Once everything has been answered and read, the server takes clicks for  *)
(* the window the client shows and for no other, however the player and the *)
(* server closed and opened menus meanwhile.                                *)
THEOREM WindowsAlwaysAgree == Spec /\ [][FreshIds]_vars => []WindowsAgree
<1>1. SelectionInv => WindowsAgree
  <2> SUFFICES ASSUME SelectionInv, up = <<>>, down = <<>>
               PROVE  {menu.window : menu \in open} = {window} \ {0}
    BY DEF WindowsAgree, Quiet
  <2>1. Len(up) = 0 /\ Len(down) = 0 /\ window \in Nat
    BY DEF SelectionInv, VariablesTyped
  <2>2. \A id : WillShowWindow(down, window, id) <=> id = window
    BY <2>1 DEF WillShowWindow
  <2>3. \A menu \in open : menu.window = window /\ menu.window # 0
    BY <2>1, <2>2, MenuTyped DEF SelectionInv, WindowsFollow, MenuComes, Closing
  <2>4. window # 0 => \E menu \in open : menu.window = window
    BY <2>1, <2>2 DEF SelectionInv, WindowsFollow, ComesToMenu
  <2> QED
    BY <2>3, <2>4
<1> QED
  BY <1>1, SelectionInvariant, PTL

(* A client with state ids is sent to a server only by a click on a place    *)
(* that showed it: a click on a menu the client had already changed comes    *)
(* with a state that is over.                                               *)
THEOREM ClicksSelectWhatIsShown == Spec /\ [][FreshIds]_vars => []SelectsWhatIsShown
<1>1. NothingMissed => SelectsWhatIsShown
  BY DEF NothingMissed, SelectsWhatIsShown
<1> QED
  BY <1>1, SelectionInvariant, PTL
==================================================================================
