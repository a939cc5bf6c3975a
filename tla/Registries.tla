------------------------------ MODULE Registries ------------------------------
(***************************************************************************)
(* What a client is told of the game's registries.  pico_registries reads  *)
(* the pack of the version from data/generated; what it makes of it is     *)
(* compiled into the server (pico_precomputed_registries); and login,      *)
(* configuration and chunks take the registries and the numbers of their   *)
(* entries from there.                                                     *)
(*                                                                         *)
(* A version is its protocol number.  A pack has the files of a directory  *)
(* for each registry, the numbers of a report, tags, or all of it captured *)
(* with numbers.  Values are those of Nbt.  An operator that may fail      *)
(* returns a sequence: <<>> for an error.                                  *)
(***************************************************************************)
EXTENDS Integers, Sequences, SequencesExt, FiniteSets, TLC

CONSTANTS ByteMax, ShortMax, IntMax, Single,  \* see Nbt
          FileOrder                           \* names in the order of their files

Nbt == INSTANCE Nbt WITH Digits <- {}, Letters <- {}, Marks <- {}

V1_16 == 735
V1_16_1 == 736
V1_16_2 == 751
V1_18_2 == 758
V1_19 == 759
V1_20 == 763
V1_20_2 == 764
V1_20_3 == 765
V1_20_5 == 766
V1_21_2 == 768
V1_21_4 == 769
V1_21_6 == 771

(* ProtocolVersion::data: versions that read the pack of another. *)
DataOf == 736 :> 735 @@ 753 :> 751 @@ 754 :> 751 @@ 756 :> 755 @@ 760 :> 759 @@ 761 :> 759
          @@ 765 :> 764 @@ 772 :> 771 @@ 773 :> 771
data(version) == IF version \in DOMAIN DataOf THEN DataOf[version] ELSE version

(* ALL_REGISTRIES with the versions that have them; all are mandatory. *)
ALL_REGISTRIES ==
  <<<<"banner_pattern", 775>>, <<"block_transformer", 777>>, <<"decorated_pot_pattern", 777>>,
    <<"cat_sound_variant", 775>>, <<"cat_variant", 770>>, <<"chicken_sound_variant", 775>>,
    <<"chicken_variant", 770>>, <<"cow_sound_variant", 775>>, <<"cow_variant", 770>>,
    <<"damage_type", 762>>, <<"dialog", 771>>, <<"dimension_type", 735>>, <<"frog_variant", 770>>,
    <<"instrument", 768>>, <<"jukebox_song", 767>>, <<"painting_variant", 767>>,
    <<"pig_sound_variant", 775>>, <<"pig_variant", 770>>, <<"timeline", 774>>,
    <<"trim_material", 762>>, <<"wolf_sound_variant", 770>>, <<"wolf_variant", 766>>,
    <<"world_clock", 775>>, <<"worldgen/biome", 751>>, <<"zombie_nautilus_variant", 774>>>>

get_registry_keys(version) ==
  LET known == SelectSeq(ALL_REGISTRIES, LAMBDA r : version >= r[2]) IN [i \in DOMAIN known |-> known[i][1]]

-------------------------------------------------------------------------------
(* Registry::load and from_nbt: entries with a name, a number, a value and *)
(* what the server reads of a dimension; and tags by their names.          *)
Fields(v) == {v[2][i][1] : i \in DOMAIN v[2]}
Field(v, name) == v[2][CHOOSE i \in DOMAIN v[2] : v[2][i][1] = name][2]

DimensionType(v) ==
  IF {"height", "min_y"} \subseteq Fields(v)
  THEN <<[height |-> Field(v, "height")[2], min_y |-> Field(v, "min_y")[2]]>> ELSE <<>>

Entry(key, name, id, raw) ==
  LET dimension == IF key = "dimension_type" /\ raw # <<>> THEN DimensionType(raw[1]) ELSE <<>>
  IN IF raw = <<>> \/ (key = "dimension_type" /\ dimension = <<>>) THEN <<>>
     ELSE <<[name |-> name, id |-> id, raw |-> raw, dimension |-> dimension]>>

Collected(results) ==
  IF \E i \in DOMAIN results : results[i] = <<>> THEN <<>> ELSE <<{results[i][1] : i \in DOMAIN results}>>

load_report_entries(key, pack) ==
  IF key \notin DOMAIN pack.report THEN <<>>
  ELSE <<{[name |-> name, id |-> pack.report[key][name], raw |-> <<>>, dimension |-> <<>>] :
            name \in DOMAIN pack.report[key]}>>

load_entries(key, pack) ==
  LET rank(file) == CHOOSE i \in DOMAIN FileOrder : FileOrder[i] = file.name
      files == SetToSortSeq(pack.files[key], LAMBDA a, b : rank(a) < rank(b))
  IN IF key \notin DOMAIN pack.files THEN load_report_entries(key, pack)
     ELSE Collected([i \in DOMAIN files |->
                       Entry(key, files[i].name, i - 1, Nbt!json_to_nbt(files[i].json))])

(* A member of a tag is an entry, or another tag. *)
load(key, pack) ==
  LET entries == load_entries(key, pack)
  IN IF entries = <<>> THEN <<>>
     ELSE <<[key |-> key, entries |-> entries[1],
             tags |-> IF key \in DOMAIN pack.tags THEN pack.tags[key] ELSE <<>>]>>

from_nbt(key, pack) ==
  LET captured == pack.captured[key]
      entries == Collected([i \in DOMAIN captured.value |->
                   Entry(key, captured.value[i].name, captured.value[i].id, <<captured.value[i].element>>)])
      named(id) == {e \in entries[1] : e.id = id}
      tag(ids) == [i \in DOMAIN ids |-> [is_tag |-> FALSE, name |-> (CHOOSE e \in named(ids[i]) : TRUE).name]]
      tags == captured.tags
  IN IF entries = <<>> \/ (\E t \in DOMAIN tags : \E i \in DOMAIN tags[t] : named(tags[t][i]) = {}) THEN <<>>
     ELSE <<[key |-> key, entries |-> entries[1], tags |-> [t \in DOMAIN tags |-> tag(tags[t])]]>>

load_registry_manager(version, packs) ==
  LET keys == get_registry_keys(version)
      pack == packs[data(version)]
      loaded(key) == IF ~pack.is_captured THEN load(key, pack)
                     ELSE IF key \in DOMAIN pack.captured THEN from_nbt(key, pack) ELSE <<>>
  IN IF \E i \in DOMAIN keys : loaded(keys[i]) = <<>> THEN <<>>
     ELSE <<[key \in ToSet(keys) |-> loaded(key)[1]]>>

get_entries(registry) == SetToSortSeq(registry.entries, LAMBDA a, b : a.id < b.id)
Named(registry, name) == {e \in registry.entries : e.name = name}

-------------------------------------------------------------------------------
(* registry_entry_value_for_protocol: what the reports do not say, the     *)
(* types of numbers, and what older versions call differently.             *)
Replaced(v, name, value) ==
  <<v[1], [i \in DOMAIN v[2] |-> IF v[2][i][1] = name THEN <<name, value>> ELSE v[2][i]]>>

AsInt(n) ==
  IF n[1] \in {Nbt!TByte, Nbt!TShort} \/ (n[1] = Nbt!TLong /\ Nbt!Fits(n[2], IntMax)) THEN <<Nbt!TInt, n[2]>> ELSE n
normalize_i32_field(fields, name) ==
  IF name \in Fields(fields) THEN Replaced(fields, name, AsInt(Field(fields, name))) ELSE fields

HasKind(v, name, kind) == name \in Fields(v) /\ Field(v, name)[1] = kind
normalize_spawn_light(v) ==
  IF ~HasKind(v, "monster_spawn_light_level", Nbt!TCompound) THEN v
  ELSE Replaced(v, "monster_spawn_light_level",
         FoldLeft(normalize_i32_field, Field(v, "monster_spawn_light_level"), <<"min_inclusive", "max_inclusive">>))
normalize_coordinate_scale(v) ==
  IF ~HasKind(v, "coordinate_scale", Nbt!TFloat) THEN v
  ELSE Replaced(v, "coordinate_scale", <<Nbt!TDouble, Field(v, "coordinate_scale")[2]>>)
normalize_dimension_type(v) ==
  normalize_coordinate_scale(normalize_spawn_light(
    FoldLeft(normalize_i32_field, v, <<"height", "logical_height", "min_y", "monster_spawn_block_light_limit">>)))

OrInsert(v, name, value) == IF name \in Fields(v) THEN v ELSE <<v[1], Append(v[2], <<name, value>>)>>
Removed(v, name) == <<v[1], SelectSeq(v[2], LAMBDA entry : entry[1] # name)>>

(* trim_material_ingredient and trim_material_item_model_index. *)
TrimIngredient ==
  "amethyst" :> "amethyst_shard" @@ "copper" :> "copper_ingot" @@ "diamond" :> "diamond" @@ "emerald" :> "emerald"
  @@ "gold" :> "gold_ingot" @@ "iron" :> "iron_ingot" @@ "lapis" :> "lapis_lazuli" @@ "netherite" :> "netherite_ingot"
  @@ "quartz" :> "quartz" @@ "redstone" :> "redstone" @@ "resin" :> "resin_brick"
TrimIndex == "quartz" :> 1 @@ "iron" :> 2 @@ "netherite" :> 3 @@ "redstone" :> 4 @@ "copper" :> 5 @@ "gold" :> 6
             @@ "emerald" :> 7 @@ "diamond" :> 8 @@ "lapis" :> 9 @@ "amethyst" :> 10

with_ingredient(version, name, v) ==
  IF version <= V1_21_4 /\ name \in DOMAIN TrimIngredient
  THEN OrInsert(v, "ingredient", <<Nbt!TString, TrimIngredient[name]>>) ELSE v
with_index(name, v) ==
  IF name \in DOMAIN TrimIndex THEN OrInsert(v, "item_model_index", <<Nbt!TFloat, TrimIndex[name]>>) ELSE v
OverridesMoved(rest, overrides) ==
  IF overrides[2] = <<>> THEN rest ELSE OrInsert(rest, "override_armor_materials", overrides)
with_armor_materials(v) ==
  IF "override_armor_assets" \notin Fields(v) THEN v
  ELSE OverridesMoved(Removed(v, "override_armor_assets"), Removed(Field(v, "override_armor_assets"), "copper"))
normalize_trim_material(version, name, v) ==
  IF version > V1_21_2 THEN with_ingredient(version, name, v)
  ELSE with_armor_materials(with_index(name, with_ingredient(version, name, v)))

registry_entry_value_for_protocol(version, key, entry) ==
  CASE key = "dimension_type" -> normalize_dimension_type(entry.raw[1])
    [] key = "trim_material" -> normalize_trim_material(version, entry.name, entry.raw[1])
    [] OTHER -> entry.raw[1]

-------------------------------------------------------------------------------
(* The registries of a version as one compound, up to 1.20.3, and as lists *)
(* since: an entry without a value is one the client has.                  *)
get_registry_codec_bytes_v1_16(manager) ==
  LET entries == get_entries(manager["dimension_type"])
  IN IF \E i \in DOMAIN entries : entries[i].raw = <<>> \/ ~Nbt!Writable(entries[i].raw[1], FALSE) THEN <<>>
     ELSE <<[dimension |-> [i \in DOMAIN entries |-> [name |-> entries[i].name, element |-> entries[i].raw[1]]]]>>

get_registry_codec_bytes_v1_16_2(manager, version) ==
  LET keys == ToSet(get_registry_keys(version))
      list(key) == LET entries == get_entries(manager[key])
                   IN [i \in DOMAIN entries |->
                         [name |-> entries[i].name, id |-> i - 1,
                          element |-> registry_entry_value_for_protocol(version, key, entries[i])]]
  IN IF \E key \in keys : \E e \in manager[key].entries :
          e.raw = <<>> \/ ~Nbt!Writable(registry_entry_value_for_protocol(version, key, e), FALSE)
     THEN <<>> ELSE <<[key \in keys |-> list(key)]>>

get_registry_codec_v1_16(manager, version) ==
  IF version > V1_20_3 THEN <<>>
  ELSE IF version >= V1_16_2 THEN get_registry_codec_bytes_v1_16_2(manager, version)
  ELSE get_registry_codec_bytes_v1_16(manager)

get_registry_data_v1_20_5(manager, version) ==
  LET keys == get_registry_keys(version)
      data_of(key, e) == [name |-> e.name, element |->
         IF e.raw = <<>> THEN <<>> ELSE <<registry_entry_value_for_protocol(version, key, e)>>]
      sent(e) == \A i \in DOMAIN e.element : Nbt!Writable(e.element[i], TRUE)
      list(key) == LET entries == get_entries(manager[key])
                   IN SelectSeq([i \in DOMAIN entries |-> data_of(key, entries[i])], sent)
  IN IF version < V1_20_5 THEN <<>> ELSE <<[i \in DOMAIN keys |-> [key |-> keys[i], entries |-> list(keys[i])]]>>

get_dimension_codec_v1_16_2(manager, version, dimension) ==
  LET found == Named(manager["dimension_type"], dimension)
  IN IF version \notin V1_16_2 .. V1_18_2 \/ found = {} THEN <<>> ELSE (CHOOSE e \in found : TRUE).raw

get_dimension_info(manager, dimension) ==
  LET found == {e \in Named(manager["dimension_type"], dimension) : e.dimension # <<>>}
  IN {[height |-> e.dimension[1].height, min_y |-> e.dimension[1].min_y, protocol_id |-> e.id] : e \in found}

get_biome_protocol_id(manager, name) ==
  IF "worldgen/biome" \in DOMAIN manager THEN {e.id : e \in Named(manager["worldgen/biome"], name)} ELSE {}

RECURSIVE evaluate_tags(_, _)
evaluate_tags(registry, tag) ==
  LET values == IF tag \in DOMAIN registry.tags THEN registry.tags[tag] ELSE <<>>
  IN FlattenSeq([i \in DOMAIN values |->
       IF values[i].is_tag THEN evaluate_tags(registry, values[i].name)
       ELSE SetToSeq({e.id : e \in Named(registry, values[i].name)})])

get_tagged_registries(manager) ==
  [key \in {"banner_pattern", "damage_type", "dialog", "timeline"} \cap DOMAIN manager |->
     [tag \in DOMAIN manager[key].tags |-> evaluate_tags(manager[key], tag)]]

-------------------------------------------------------------------------------
(* build/main.rs and PrecomputedRegistries: a version has the dimensions   *)
(* if it has all three, and the number of the plains only.                 *)
Dimensions == {"overworld", "the_nether", "the_end"}
BuildPasses(packs, versions) == \A version \in versions : load_registry_manager(version, packs) # <<>>

tables_of(version, manager) ==
  LET codecs == [d \in Dimensions |-> get_dimension_codec_v1_16_2(manager, version, d)]
      infos == [d \in Dimensions |-> get_dimension_info(manager, d)]
  IN [biome |-> get_biome_protocol_id(manager, "plains"),
      codec |-> get_registry_codec_v1_16(manager, version),
      registries |-> get_registry_data_v1_20_5(manager, version),
      dimension_codecs |-> IF \E d \in Dimensions : codecs[d] = <<>> THEN <<>> ELSE <<codecs>>,
      infos |-> IF \E d \in Dimensions : infos[d] = {} THEN <<>>
                ELSE <<[d \in Dimensions |-> CHOOSE info \in infos[d] : TRUE]>>,
      tags |-> <<get_tagged_registries(manager)>>]

precomputed(version, packs) ==
  IF version < V1_16
  THEN [biome |-> {}, codec |-> <<>>, registries |-> <<>>, dimension_codecs |-> <<>>, infos |-> <<>>, tags |-> <<>>]
  ELSE tables_of(version, load_registry_manager(version, packs)[1])

-------------------------------------------------------------------------------
(* build_login_packet and send_configuration_registry_packets: the fields  *)
(* that have to do with registries; the others have their defaults.        *)
LegacyNumber == "overworld" :> 0 @@ "the_nether" :> -1 @@ "the_end" :> 1

build_login_packet(version, dimension, tables) ==
  LET with(fields) == <<fields @@ ("dimension_names" :> <<dimension>>)>>
      needs(parts, fields) == IF \E i \in DOMAIN parts : parts[i] = <<>> THEN <<>> ELSE with(fields)
  IN CASE version < V1_16 -> <<("dimension" :> LegacyNumber[dimension])>>
       [] version \in V1_16 .. V1_16_1 \cup V1_19 .. V1_20 ->
            needs(<<tables.codec>>,
                  "registry_codec" :> tables.codec[1] @@ "world_name" :> dimension
                  @@ "dimension_name" :> dimension @@ "dimension_type" :> dimension)
       [] version \in V1_16_2 .. V1_18_2 ->
            needs(<<tables.codec, tables.dimension_codecs>>,
                  "registry_codec" :> tables.codec[1] @@ "world_name" :> dimension
                  @@ "dimension_codec" :> tables.dimension_codecs[1][dimension][1]
                  @@ "dimension_type" :> dimension)
       [] version \in V1_20_2 .. V1_20_3 -> with("dimension_type" :> dimension @@ "dimension_name" :> dimension)
       [] version >= V1_20_5 ->
            needs(<<tables.infos>>,
                  "dimension_number" :> tables.infos[1][dimension].protocol_id @@ "dimension_name" :> dimension)

(* LoginPacket::encode: those of the fields that a version's packet has;   *)
(* what was not set is the overworld, number 0 or nothing at all.          *)
LoginFields(version) ==
  IF version < V1_16 THEN {"dimension"}
  ELSE {"dimension_names"}
       \cup (IF version <= V1_20 THEN {"registry_codec", "world_name"} ELSE {"dimension_name"})
       \cup (IF version < V1_16_2 THEN {"dimension_name"} ELSE {})
       \cup (IF version \in V1_16_2 .. V1_18_2 THEN {"dimension_codec"} ELSE {})
       \cup (IF version \in V1_19 .. V1_20_3 THEN {"dimension_type"} ELSE {})
       \cup (IF version >= V1_20_5 THEN {"dimension_number"} ELSE {})
Default(field) ==
  CASE field = "dimension_names" -> <<"overworld">>
    [] field \in {"dimension_number", "dimension"} -> 0
    [] field \in {"registry_codec", "dimension_codec"} -> <<>>
    [] OTHER -> "overworld"
EncodeLogin(packet, version) ==
  [field \in LoginFields(version) |-> IF field \in DOMAIN packet THEN packet[field] ELSE Default(field)]

send_configuration_registry_packets(version, tables) ==
  LET tags == IF version < V1_21_6 THEN <<>> ELSE <<[packet |-> "UpdateTags", tags |-> tables.tags[1]]>>
      finish == <<[packet |-> "FinishConfiguration"]>>
  IN IF version >= V1_20_5
     THEN IF tables.registries = <<>> THEN <<>>
          ELSE <<[i \in DOMAIN tables.registries[1] |->
                    [packet |-> "RegistryData", data |-> tables.registries[1][i]]] \o tags \o finish>>
     ELSE IF tables.codec = <<>> THEN <<>>
          ELSE <<<<[packet |-> "RegistryData", data |-> tables.codec[1]]>> \o tags \o finish>>

(* prepare_chunk_packets: the number of the plains, and the height that    *)
(* chunks have in a dimension.                                             *)
legacy_dimension_info == [height |-> 256, min_y |-> 0, protocol_id |-> 0]
BiomeNumber(tables) == IF tables.biome = {} THEN 1 ELSE CHOOSE id \in tables.biome : TRUE
ChunkDimension(dimension, tables) ==
  IF tables.infos = <<>> THEN legacy_dimension_info ELSE tables.infos[1][dimension]

-------------------------------------------------------------------------------
(* The client: it has its registries from the login packet, or from the    *)
(* configuration, where an entry's number is its place; the values it was  *)
(* not sent it has itself.  (A registry as a sequence of names and values.)*)
ClientRegistries(version, login, configuration) ==
  LET listed(list) == [i \in DOMAIN list |-> [name |-> list[i].name, element |-> <<list[i].element>>]]
      codec == IF version <= V1_20 THEN login.registry_codec ELSE configuration[1].data
      packets == SelectSeq(configuration, LAMBDA p : p.packet = "RegistryData")
      of(key) == CHOOSE i \in DOMAIN packets : packets[i].data.key = key
  IN CASE version < V1_16_2 -> "dimension_type" :> listed(codec.dimension)
       [] version \in V1_16_2 .. V1_20_3 -> [key \in DOMAIN codec |-> listed(codec[key])]
       [] OTHER -> [key \in {packets[i].data.key : i \in DOMAIN packets} |-> packets[of(key)].data.entries]

(* The dimension it enters: its value, if it has one by that name or number. *)
ClientDimension(version, login, registries) ==
  LET types == registries["dimension_type"]
      of(name) == {i \in DOMAIN types : types[i].name = name}
      value(places) == UNION {ToSet(types[i].element) : i \in places}
  IN CASE version < V1_16_2 -> value(of(login.dimension_name))
       [] version \in V1_16_2 .. V1_18_2 -> {login.dimension_codec}
       [] version \in V1_19 .. V1_20_3 -> value(of(login.dimension_type))
       [] OTHER -> value({login.dimension_number + 1} \cap DOMAIN types)
===============================================================================
