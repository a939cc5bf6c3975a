--------------------------------- MODULE Items ---------------------------------
(***************************************************************************)
(* The items of the hotbar and the menu on the wire: the number an item    *)
(* has in a version (PrecomputedRegistries::resolve_item_id) and its stack *)
(* (LobbySlot, SetContainerSlotPacket), with the way clients read it.      *)
(*                                                                         *)
(* The wire is a sequence of pairs of a type and what it holds; the NBT of *)
(* a stack is a set of pairs of the path of a tag and what the tag holds.     *)
(***************************************************************************)
EXTENDS Integers, Sequences, SequencesExt, TLC

(* item_id_adjustments!: first and last number, and what is added to them. *)
V1_13_ITEM_ID_ADJUSTMENTS ==
  <<<<1,11,0>>,<<14,20,-2>>,<<23,35,-4>>,<<37,42,-5>>,<<45,50,-7>>,<<53,58,-9>>,
    <<61,66,-11>>,<<69,120,-13>>,<<124,125,-16>>,<<136,143,-26>>,<<146,146,-28>>,
    <<148,148,-29>>,<<150,156,-30>>,<<158,196,-31>>,<<200,201,-34>>,<<202,213,-33>>,
    <<216,219,-35>>,<<224,231,-39>>,<<234,247,-41>>,<<249,257,-42>>,<<260,264,-44>>,
    <<267,282,-46>>,<<285,288,-48>>,<<305,310,-64>>,<<314,325,-67>>,<<327,425,-68>>,
    <<427,511,-69>>,<<517,528,-74>>,<<557,563,-102>>,<<566,568,-104>>,<<570,583,-105>>,
    <<586,605,-107>>,<<610,617,-111>>,<<619,641,-112>>,<<646,651,-116>>,<<660,675,-123>>,
    <<676,693,-121>>,<<696,703,-121>>,<<705,708,-121>>,<<713,759,-125>>,<<761,761,-126>>,
    <<763,774,-127>>,<<776,777,-128>>,<<779,785,-129>>,<<787,789,-130>>,<<792,794,-132>>,
    <<796,805,-133>>,<<808,812,-135>>,<<814,816,-136>>,<<818,819,-137>>,<<820,820,-136>>,
    <<822,841,-137>>,<<843,862,-138>>,<<864,919,-139>>,<<921,924,-140>>>>

V1_13_2_ITEM_ID_ADJUSTMENTS ==
  <<<<1,11,0>>,<<14,20,-2>>,<<23,35,-4>>,<<37,42,-5>>,<<45,50,-7>>,<<53,58,-9>>,
    <<61,66,-11>>,<<69,120,-13>>,<<124,125,-16>>,<<136,143,-26>>,<<146,146,-28>>,
    <<148,148,-29>>,<<150,156,-30>>,<<158,196,-31>>,<<200,201,-34>>,<<202,213,-33>>,
    <<216,219,-35>>,<<224,231,-39>>,<<234,247,-41>>,<<249,257,-42>>,<<260,264,-44>>,
    <<267,282,-46>>,<<285,288,-48>>,<<305,310,-64>>,<<314,325,-67>>,<<327,425,-68>>,
    <<427,528,-69>>,<<557,563,-97>>,<<566,568,-99>>,<<570,583,-100>>,<<586,605,-102>>,
    <<610,617,-106>>,<<619,641,-107>>,<<646,651,-111>>,<<660,675,-118>>,<<676,693,-116>>,
    <<696,703,-116>>,<<705,708,-116>>,<<713,759,-120>>,<<761,761,-121>>,<<763,774,-122>>,
    <<776,777,-123>>,<<779,785,-124>>,<<787,789,-125>>,<<792,794,-127>>,<<796,805,-128>>,
    <<808,812,-130>>,<<814,816,-131>>,<<818,819,-132>>,<<820,820,-131>>,<<822,841,-132>>,
    <<843,862,-133>>,<<864,919,-134>>,<<921,924,-135>>>>

V1_14_ITEM_ID_ADJUSTMENTS ==
  <<<<1,11,0>>,<<14,20,-2>>,<<23,35,-4>>,<<37,42,-5>>,<<45,50,-7>>,<<53,58,-9>>,
    <<61,66,-11>>,<<69,125,-13>>,<<136,143,-23>>,<<146,196,-25>>,<<200,201,-28>>,
    <<202,213,-27>>,<<216,219,-29>>,<<224,231,-33>>,<<234,247,-35>>,<<249,257,-36>>,
    <<260,264,-38>>,<<267,282,-40>>,<<285,300,-42>>,<<305,310,-46>>,<<314,325,-49>>,
    <<327,425,-50>>,<<427,563,-51>>,<<566,569,-53>>,<<570,583,-52>>,<<586,605,-54>>,
    <<610,617,-58>>,<<619,641,-59>>,<<646,657,-63>>,<<660,675,-65>>,<<676,676,-63>>,
    <<677,759,-62>>,<<761,777,-63>>,<<779,789,-64>>,<<791,805,-65>>,<<807,816,-66>>,
    <<818,819,-67>>,<<820,820,-66>>,<<822,841,-67>>,<<843,919,-68>>,<<921,932,-69>>,
    <<935,945,-71>>,<<947,948,-72>>>>

V1_15_ITEM_ID_ADJUSTMENTS ==
  <<<<1,11,0>>,<<14,20,-2>>,<<23,35,-4>>,<<37,42,-5>>,<<45,50,-7>>,<<53,58,-9>>,
    <<61,66,-11>>,<<69,125,-13>>,<<136,143,-23>>,<<146,196,-25>>,<<200,201,-28>>,
    <<202,213,-27>>,<<216,219,-29>>,<<224,231,-33>>,<<234,247,-35>>,<<249,257,-36>>,
    <<260,264,-38>>,<<267,282,-40>>,<<285,300,-42>>,<<305,310,-46>>,<<314,325,-49>>,
    <<327,425,-50>>,<<427,563,-51>>,<<566,569,-53>>,<<570,583,-52>>,<<586,605,-54>>,
    <<610,617,-58>>,<<619,641,-59>>,<<646,657,-63>>,<<660,675,-65>>,<<676,676,-63>>,
    <<677,777,-62>>,<<779,789,-63>>,<<791,805,-64>>,<<807,816,-65>>,<<818,819,-66>>,
    <<820,820,-65>>,<<822,841,-66>>,<<843,919,-67>>,<<921,932,-68>>,<<935,945,-70>>,
    <<947,948,-71>>,<<951,956,-73>>>>

V1_19_3_ITEM_ID_ADJUSTMENTS ==
  <<<<0,29,0>>,<<30,31,1>>,<<32,114,2>>,<<115,132,3>>,<<133,220,4>>,<<221,245,6>>,
    <<246,274,7>>,<<275,344,8>>,<<345,640,10>>,<<641,653,11>>,<<654,663,12>>,<<664,673,13>>,
    <<674,682,14>>,<<683,711,15>>,<<712,810,17>>,<<811,812,18>>,<<813,917,28>>,
    <<918,926,29>>,<<927,938,30>>,<<939,961,31>>,<<962,975,32>>,<<976,1001,33>>,
    <<1002,1151,34>>>>

V1_19_4_ITEM_ID_ADJUSTMENTS ==
  <<<<0,27,0>>,<<28,29,1>>,<<30,31,2>>,<<32,36,3>>,<<37,40,4>>,<<41,108,5>>,<<109,114,6>>,
    <<115,119,7>>,<<120,128,8>>,<<129,132,9>>,<<133,137,10>>,<<138,146,11>>,<<147,195,12>>,
    <<196,208,13>>,<<209,218,14>>,<<219,220,15>>,<<221,245,17>>,<<246,272,19>>,
    <<273,274,20>>,<<275,342,21>>,<<343,344,22>>,<<345,638,24>>,<<639,640,25>>,
    <<641,651,26>>,<<652,653,27>>,<<654,661,28>>,<<662,663,29>>,<<664,671,30>>,
    <<672,673,31>>,<<674,680,32>>,<<681,682,33>>,<<683,707,34>>,<<708,711,36>>,
    <<712,808,38>>,<<809,810,39>>,<<811,812,40>>,<<813,917,51>>,<<918,926,52>>,
    <<927,938,53>>,<<939,961,54>>,<<962,975,56>>,<<976,1001,57>>,<<1002,1043,58>>,
    <<1044,1151,59>>>>

V1_20_3_ITEM_ID_ADJUSTMENTS ==
  <<<<0,12,0>>,<<13,81,13>>,<<82,97,17>>,<<98,172,21>>,<<174,699,21>>,<<700,711,29>>,
    <<712,940,37>>,<<941,971,38>>,<<972,1254,39>>>>

V1_20_5_ITEM_ID_ADJUSTMENTS ==
  <<<<0,12,0>>,<<13,71,13>>,<<72,81,14>>,<<82,97,18>>,<<98,172,22>>,<<174,699,22>>,
    <<700,711,30>>,<<712,756,38>>,<<758,940,40>>,<<941,966,41>>,<<967,971,42>>,
    <<972,1045,44>>,<<1046,1047,45>>,<<1048,1151,46>>,<<1152,1234,48>>,<<1235,1242,50>>,
    <<1243,1243,51>>,<<1244,1250,52>>,<<1251,1254,53>>>>

(* The numbers from which on something is added: V1_21_4 and V1_21_6 *)
V1_21_4_STEPS == <<<<0,225,0>>, <<226,373,2>>, <<374,1157,9>>, <<1158,9999,10>>>>
V1_21_6_STEPS == <<<<0,618,0>>, <<619,800,1>>, <<801,1093,17>>, <<1094,1249,18>>, <<1250,9999,19>>>>
UNCHANGED_IDS == <<<<0,9999,0>>>>

(* item_registry_bucket: the versions with a report of their own items *)
Buckets == <<777, 776, 775, 774, 773, 770, 768, 767, 763, 759, 757, 755>>
item_registry_bucket(version) ==
  LET found == SelectInSeq(Buckets, LAMBDA b : version >= b)
  IN IF found = 0 THEN 735 ELSE Buckets[found]

Adjustments(version) ==
  CASE version = 393 -> V1_13_ITEM_ID_ADJUSTMENTS
    [] version \in {401, 404} -> V1_13_2_ITEM_ID_ADJUSTMENTS
    [] version \in {477, 480, 485, 490, 498} -> V1_14_ITEM_ID_ADJUSTMENTS
    [] version \in {573, 575, 578} -> V1_15_ITEM_ID_ADJUSTMENTS
    [] version = 761 -> V1_19_3_ITEM_ID_ADJUSTMENTS
    [] version = 762 -> V1_19_4_ITEM_ID_ADJUSTMENTS
    [] version = 765 -> V1_20_3_ITEM_ID_ADJUSTMENTS
    [] version = 766 -> V1_20_5_ITEM_ID_ADJUSTMENTS
    [] version = 769 -> V1_21_4_STEPS
    [] version \in {771, 772} -> V1_21_6_STEPS
    [] OTHER -> UNCHANGED_IDS

(* The numbers an item of the bucket has in the version: one or none *)
apply_adjustments(item_id, adjustments) ==
  LET found == SelectInSeq(adjustments, LAMBDA a : item_id \in a[1]..a[2])
  IN IF found = 0 THEN {} ELSE {item_id + adjustments[found][3]}
adjust_item_id_for_missing_registry(version, item_id) ==
  apply_adjustments(item_id, Adjustments(version))

(* resolve_item and resolve_paper_id, for an item with a number in the     *)
(* table of its version and with a number and a damage before 1.13; no     *)
(* number is an empty set.                                                 *)
resolve_item(item, version) ==
  IF version <= 340 THEN item.legacy
  ELSE {<<id, 0>> : id \in UNION {adjust_item_id_for_missing_registry(version, n) : n \in item.ids}}
ItemOrPaper(item, paper, version) ==
  LET found == resolve_item(item, version)
      papers == resolve_item(paper, version)
      paper_id == IF papers = {} THEN 339 ELSE (CHOOSE p \in papers : TRUE)[1]
  IN IF found = {} THEN <<paper_id, 0>> ELSE CHOOSE f \in found : TRUE

-------------------------------------------------------------------------------
(* LobbySlot: [item_id, count, name, lore, damage, glint], where name is   *)
(* in a sequence that is empty without one.                                *)
Json(text) == <<"json", text>>
Legacy(text) == <<"legacy text", text>>

build_display_nbt_modern(slot, version) ==
  LET written(text) == IF version <= 404 THEN Legacy(text) ELSE Json(text)
  IN {<<"display.Name", Json(slot.name[1])>> : n \in DOMAIN slot.name}
     \cup (IF slot.lore = <<>> THEN {}
          ELSE {<<"display.Lore", [i \in DOMAIN slot.lore |-> written(slot.lore[i])]>>})
     \cup (IF slot.glint THEN {<<"Enchantments", "unbreaking">>, <<"HideFlags", 1>>} ELSE {})
build_display_nbt_legacy(slot) ==
  {<<"display.Name", Legacy(slot.name[1])>> : n \in DOMAIN slot.name}
  \cup (IF slot.lore = <<>> THEN {}
       ELSE {<<"display.Lore", [i \in DOMAIN slot.lore |-> Legacy(slot.lore[i])]>>})
  \cup (IF slot.glint THEN {<<"ench", 0>>, <<"HideFlags", 1>>} ELSE {})
opt_nbt(tags) == IF tags = {} THEN <<"u8", 0>> ELSE <<"nbt", tags>>

custom_name_component_id(version) == IF version >= 774 THEN 6 ELSE 5
lore_component_id(version) == IF version >= 774 THEN 11 ELSE IF version >= 768 THEN 8 ELSE 7
glint_override_component_id(version) ==
  IF version >= 774 THEN 21 ELSE IF version >= 770 THEN 18 ELSE IF version >= 768 THEN 19 ELSE 18

VarInt(n) == <<"var_int", n>>
I8(n) == <<"i8", IF n > 127 THEN n - 256 ELSE n>>
I16(n) == <<"i16", IF n > 32767 THEN n - 65536 ELSE n>>

encode_structured(slot, version) ==
  LET name == IF slot.name = <<>> THEN <<>>
              ELSE <<VarInt(custom_name_component_id(version)), <<"nbt", slot.name[1]>>>>
      lore == IF slot.lore = <<>> THEN <<>>
              ELSE <<VarInt(lore_component_id(version)), VarInt(Len(slot.lore))>>
                   \o [i \in DOMAIN slot.lore |-> <<"nbt", slot.lore[i]>>]
      glint == IF slot.glint THEN <<VarInt(glint_override_component_id(version)), <<"bool", TRUE>>>> ELSE <<>>
      components == SelectSeq(<<name, lore, glint>>, LAMBDA c : c # <<>>)
  IN IF slot.item_id < 0 \/ slot.count = 0 THEN <<VarInt(0)>>
     ELSE <<VarInt(slot.count), VarInt(slot.item_id), VarInt(Len(components)), VarInt(0)>>
          \o FlattenSeq(components)
encode_legacy_var_int(slot, version) ==
  IF slot.item_id < 0 THEN <<<<"bool", FALSE>>>>
  ELSE <<<<"bool", TRUE>>, VarInt(slot.item_id), I8(slot.count),
         opt_nbt(build_display_nbt_modern(slot, version))>>
encode_flat_short(slot, version) ==
  IF slot.item_id < 0 THEN <<I16(-1)>>
  ELSE <<I16(slot.item_id), I8(slot.count), opt_nbt(build_display_nbt_modern(slot, version))>>
encode_legacy_short(slot) ==
  IF slot.item_id < 0 THEN <<I16(-1)>>
  ELSE <<I16(slot.item_id), I8(slot.count), I16(slot.damage), opt_nbt(build_display_nbt_legacy(slot))>>

EncodeSlot(slot, version) ==
  CASE version >= 766 -> encode_structured(slot, version)
    [] version \in 404..765 -> encode_legacy_var_int(slot, version)
    [] version \in 393..403 -> encode_flat_short(slot, version)
    [] version < 393 -> encode_legacy_short(slot)

(* SetContainerSlotPacket::hotbar *)
EncodeSetContainerSlot(hotbar_slot, slot, version) ==
  <<IF version <= 47 THEN I8(0) ELSE VarInt(0)>>
  \o (IF version >= 756 THEN <<VarInt(0)>> ELSE <<>>)
  \o <<I16(36 + hotbar_slot)>> \o EncodeSlot(slot, version)

-------------------------------------------------------------------------------
(* The clients.  ClientComponents: the numbers of the components that the  *)
(* stacks use, in the versions since 1.20.5.                               *)
ClientComponents(version) ==
  CASE version >= 774 -> (6 :> "name" @@ 11 :> "lore" @@ 21 :> "glint")
    [] version \in 770..773 -> (5 :> "name" @@ 8 :> "lore" @@ 18 :> "glint")
    [] version \in 768..769 -> (5 :> "name" @@ 8 :> "lore" @@ 19 :> "glint")
    [] version \in 766..767 -> (5 :> "name" @@ 7 :> "lore" @@ 18 :> "glint")

(* What is seen of a stack: nothing, or the item with its looks *)
Nothing == [item_id |-> -1]
Seen(slot, version) ==
  IF slot.item_id < 0 THEN Nothing
  ELSE [item_id |-> slot.item_id, count |-> slot.count, name |-> slot.name, lore |-> slot.lore,
        glint |-> slot.glint, damage |-> IF version < 393 THEN slot.damage ELSE 0]

After(wire, n) == SubSeq(wire, n + 1, Len(wire))
Types(wire) == [i \in DOMAIN wire |-> wire[i][1]]
Hold(wire, i) == wire[i][2]

Bare == [name |-> <<>>, lore |-> <<>>, glint |-> FALSE]
Garbled == [item_id |-> -2]

(* The components, one after the other; one the client does not know ends  *)
(* the connection.                                                         *)
RECURSIVE Components(_, _, _)
Components(wire, n, version) ==
  LET kinds == ClientComponents(version)
      kind == IF wire # <<>> /\ Hold(wire, 1) \in DOMAIN kinds THEN kinds[Hold(wire, 1)] ELSE "unknown"
      lines == Hold(wire, 2)
      others(read) == Components(After(wire, read), n - 1, version)
  IN IF n = 0 THEN IF wire = <<>> THEN Bare ELSE Garbled
     ELSE CASE kind = "name" -> [others(2) EXCEPT !.name = <<Hold(wire, 2)>>]
            [] kind = "lore" -> [others(2 + lines) EXCEPT !.lore = [i \in 1..lines |-> Hold(wire, 2 + i)]]
            [] kind = "glint" -> [others(2) EXCEPT !.glint = Hold(wire, 2)]
            [] kind = "unknown" -> Garbled

(* The tag of a stack before 1.20.5: names are JSON since 1.13, lore since *)
(* 1.14, and what is not in the form of the version is shown as it stands. *)
Shown(text, form) == IF text[1] = form THEN text[2] ELSE "as it stands"
TagLooks(wire, version) ==
  LET tags == IF wire[1] = "nbt" THEN wire[2] ELSE {}
      at(path) == {t[2] : t \in {t \in tags : t[1] = path}}
      nameForm == IF version >= 393 THEN "json" ELSE "legacy text"
      loreForm == IF version >= 477 THEN "json" ELSE "legacy text"
  IN [name |-> SetToSeq({Shown(t, nameForm) : t \in at("display.Name")}),
      lore |-> FlattenSeq(SetToSeq({[i \in DOMAIN l |-> Shown(l[i], loreForm)] : l \in at("display.Lore")})),
      glint |-> at(IF version >= 393 THEN "Enchantments" ELSE "ench") # {}]

Stack(item_id, count, damage, looks) ==
  IF looks = Garbled THEN Garbled
  ELSE [item_id |-> item_id, count |-> count, damage |-> damage] @@ looks
ReadSlot(wire, version) ==
  LET types == Types(wire)
      n(i) == Hold(wire, i)
  IN CASE version >= 766 /\ wire = <<VarInt(0)>> -> Nothing
       [] version >= 766 /\ wire # <<VarInt(0)>> ->
            IF SubSeq(types, 1, 4) = <<"var_int", "var_int", "var_int", "var_int">> /\ n(4) = 0
            THEN Stack(n(2), n(1), 0, Components(After(wire, 4), n(3), version)) ELSE Garbled
       [] version \in 404..765 ->
            CASE types = <<"bool">> /\ ~n(1) -> Nothing
              [] Len(wire) = 4 /\ types[1] = "bool" /\ types[2] = "var_int" /\ types[3] = "i8" ->
                   Stack(n(2), n(3), 0, TagLooks(wire[4], version))
              [] OTHER -> Garbled
       [] version \in 393..403 ->
            CASE types = <<"i16">> /\ n(1) = -1 -> Nothing
              [] Len(wire) = 3 /\ types[1] = "i16" /\ types[2] = "i8" ->
                   Stack(n(1), n(2), 0, TagLooks(wire[3], version))
              [] OTHER -> Garbled
       [] version < 393 ->
            CASE types = <<"i16">> /\ n(1) = -1 -> Nothing
              [] Len(wire) = 4 /\ types[1] = "i16" /\ types[2] = "i8" /\ types[3] = "i16" ->
                   Stack(n(1), n(2), n(3), TagLooks(wire[4], version))
              [] OTHER -> Garbled

(* The packet: a byte for the window, a number since 1.9; a state since    *)
(* 1.17.1; the place of the stack and the stack.                           *)
ReadSetContainerSlot(wire, version) ==
  LET header == (IF version < 107 THEN <<"i8">> ELSE <<"var_int">>)
                \o (IF version >= 756 THEN <<"var_int">> ELSE <<>>) \o <<"i16">>
      n == Len(header)
  IN IF SubSeq(Types(wire), 1, n) # header \/ Hold(wire, 1) # 0 THEN <<-1, Garbled>>
     ELSE <<Hold(wire, n), ReadSlot(After(wire, n), version)>>
===============================================================================
