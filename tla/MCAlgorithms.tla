----------------------------- MODULE MCAlgorithms -----------------------------
(***************************************************************************)
(* The algorithms that compute a result from their input and keep no       *)
(* state, each on every input up to a bound: a behaviour is the choice of  *)
(* one input, and an invariant compares what the code computes from it     *)
(* with what the result is for.                                            *)
(***************************************************************************)
EXTENDS Integers, Sequences, FiniteSets, FiniteSetsExt, SequencesExt, TLC

VARIABLE input

Algorithms == {"VarInt", "PacketIds", "SidebarLines", "SelectorMenu", "Sections", "ChunkColumn",
               "WorldLight", "Schematic", "Signs", "Commands", "ChatText", "Nbt", "Items", "Registries"}
Begin(algorithm) == [of |-> "nothing", for |-> algorithm]
Init == input \in {Begin(algorithm) : algorithm \in Algorithms}
Choose(inputs) == input' \in inputs

(* Sequences of a length up to n *)
UpTo(S, n) == UNION {[1..k -> S] : k \in 0..n}

-------------------------------------------------------------------------------
(* VarInt, with two bits of value in a byte and five in a value: every     *)
(* sequence of bytes a reader can find.                                    *)
Varints == INSTANCE VarInt WITH SegmentBits <- 2, Width <- 5, MaxBytes <- 3

ReadVarInt == Choose([of : {"var_int"}, bytes : UpTo(Varints!Byte, 4)])

(* What write_to writes, read reads back, whatever follows it on the wire. *)
(* The reader accepts longer encodings than the writer uses, never shorter *)
(* ones; and as PacketStream reads on only while it lacks a byte, a prefix *)
(* that has a value keeps it whatever comes next.                          *)
VarIntsAreRead ==
  input.of = "var_int" =>
    LET outcome == Varints!Decode(input.bytes)
    IN /\ \A value \in Varints!Signed :
            LET back == Varints!Decode(Varints!Encode(value) \o input.bytes)
            IN back.error = "none" /\ back.value = value /\ back.read = Len(Varints!Encode(value))
       /\ outcome.error = "none" =>
            /\ outcome.value \in Varints!Signed
            /\ Len(Varints!Encode(outcome.value)) <= outcome.read /\ outcome.read <= 3
       /\ \A n \in 0 .. Len(input.bytes) :
            LET prefix == Varints!Decode(SubSeq(input.bytes, 1, n))
            IN prefix.error # "UnexpectedEof" => outcome = prefix

-------------------------------------------------------------------------------
(* PacketIds: every packet of every state and version whose numbers are    *)
(* unambiguous.                                                            *)
Ids == INSTANCE PacketIds

(* The versions in which a number has two meanings (README, section 5):
   1.9.3 to 1.11.2, 1.14 to 1.14.4, 1.16 to 1.18.2, 1.19 to 1.19.3 *)
Ambiguous == {110, 210, 315, 316, 477, 480, 485, 490, 498, 735, 736, 751} \cup 753..761

Packets(side) ==
  UNION {[of : {"packet"}, to : {IF side = Ids!Serverbound THEN "server" ELSE "client"},
          state : {state}, packet : ToSet(side[state]),
          version : Ids!SupportedVersions \ Ambiguous] : state \in DOMAIN side}

SendPacket == Choose(Packets(Ids!Serverbound) \cup Packets(Ids!Clientbound))

(* A packet is heard as what it was said as: in these versions no two      *)
(* packets of a state share a number, whether it comes from a report or    *)
(* from an override.                                                       *)
HeardAsSaid ==
  input.of = "packet" /\ Ids!CanEncode(input.packet, input.version) =>
    LET id == Ids!PacketId(input.packet, input.version)
    IN {input.packet} = IF input.to = "server" THEN Ids!DecodesTo(input.state, id, input.version)
                        ELSE Ids!ClientReads(input.state, id, input.version)

-------------------------------------------------------------------------------
(* SidebarLines, with parts of six characters: every line of up to six     *)
(* letters and codes.                                                      *)
CONSTANTS sign, reset, white, red, bold, italic, letter
Lines == INSTANCE SidebarLines WITH
           MaxChars <- 6, Colors <- {white, red}, Formats <- {bold, italic}, Letters <- {letter},
           Sign <- sign, Reset <- reset

CutLine ==
  \E tokens \in UpTo({<<sign, code>> : code \in Lines!Codes} \cup {<<letter>>}, 6) :
    Choose({[of |-> "line", text |-> FlattenSeq(tokens)]})

(* Both parts fit into the packet, which cuts what is longer, and neither  *)
(* ends in a section sign that would swallow a character of the next.      *)
(* Together they draw the line's characters from the start, each with the  *)
(* style it has in the line, although the suffix starts a text of its own. *)
SidebarLinesAreCut ==
  input.of = "line" =>
    LET parts == Lines!ScoreboardLineParts(input.text)
    IN /\ \A part \in {parts.prefix, parts.suffix} :
            Len(part) <= 6 /\ (part # <<>> => Last(part) # sign)
       /\ IsPrefix(Lines!Drawn(parts.prefix) \o Lines!Drawn(parts.suffix), Lines!Drawn(input.text))

(* ChatText: formats that parse and that do not, and every message of up   *)
(* to three of the characters that mean something somewhere.               *)
Chat == INSTANCE ChatText WITH
          Colors <- {white, red}, Formats <- {bold, italic}, Sign <- sign, Reset <- reset

Tagged(name) == <<"<", name, ">">>
ChatFormats ==
  {<<"{sender}", letter, "{message}">>, Tagged(red) \o <<"{message}", "<", "/", red, ">", "{sender}">>,
   Tagged(red) \o <<"{sender}">> \o Tagged(bold) \o <<"{message}">> \o Tagged("newline") \o <<"{message}">>,
   <<"&", "lt", ";", "{sender}", "&", "gt", ";", "{target}">>, <<"{message}", "<">>, Tagged("{x}") \o <<"{message}">>}
Special == {"<", ">", "/", "&", ";", "lt", "{message}", red, letter}

SayInChat ==
  \E format \in ChatFormats, message \in UpTo(Special, 3) :
    Choose({[of |-> "chat", format |-> format, message |-> message]})
WriteText == \E text \in UpTo(Special \cup {bold, white}, 4) : Choose({[of |-> "text", text |-> text]})

(* What a format draws, with the characters of a value for a placeholder   *)
(* in the style the placeholder has.                                       *)
DrawnWith(format, values, fallback) ==
  LET parsed == Chat!parse_mini_message(format)
      styled(c) == IF c[1] \in DOMAIN values THEN [i \in DOMAIN values[c[1]] |-> <<values[c[1]][i], c[2]>>]
                   ELSE <<c>>
      drawn == Chat!Drawn(Chat!Fields(parsed.component), Chat!Plain)
  IN IF parsed.error = "none" THEN FlattenSeq([i \in DOMAIN drawn |-> styled(drawn[i])])
     ELSE [i \in DOMAIN fallback |-> <<fallback[i], Chat!Plain>>]

(* What a player writes is shown letter for letter in the format's style,  *)
(* whatever tags, entities or placeholders it spells, in the chat, in the  *)
(* lobby's messages and on both sides of a private message.                *)
ChatIsLiteral ==
  input.of = "chat" =>
    LET sender == <<"<", "sender">>
        message == input.message
        drawn(component) == Chat!Drawn(Chat!Fields(component), Chat!Plain)
        chat == ("{sender}" :> sender @@ "{message}" :> message)
        private == chat @@ ("{target}" :> <<"&">> @@ "{recipient}" :> <<"&">>)
        plan == [sender |-> sender, recipient |-> <<"&">>, message |-> message,
                 sender_format |-> input.format, recipient_format |-> input.format]
    IN /\ drawn(Chat!format_lobby_chat(sender, message, input.format)) =
            DrawnWith(input.format, chat, sender \o <<":">> \o message)
       /\ drawn(Chat!format_lobby_lifecycle_message(message, Tagged(red) \o <<"{player}">>)) =
            DrawnWith(Tagged(red) \o <<"{player}">>, "{player}" :> message, message)
       /\ drawn(Chat!format_private_message_for_sender(plan)) =
            DrawnWith(input.format, private, <<"To", "&", ":">> \o message)
       /\ drawn(Chat!format_private_message_for_recipient(plan)) =
            DrawnWith(input.format, private, <<"From">> \o sender \o <<":">> \o message)

(* An old client draws the section codes as a new one draws the fields. *)
LegacyIsDrawnAlike ==
  input.of = "text" =>
    LET component == Chat!parse_mini_message(input.text).component
    IN Chat!DrawnLegacy(Chat!to_legacy_text(component), Chat!Plain) =
         Chat!Drawn(Chat!Fields(component), Chat!Plain)

(* Texts reach the screen as they are meant, cut, escaped or encoded. *)
TextsAreShown == SidebarLinesAreCut /\ ChatIsLiteral /\ LegacyIsDrawnAlike

-------------------------------------------------------------------------------
(* SelectorMenu: every configuration of up to four destinations, in a menu *)
(* of three slots, for a version that knows two of the items.              *)
CONSTANTS d1, d2, d3, d4, Auto, Filler, Empty, Paper
Menus == INSTANCE SelectorMenu WITH
           Id <- {d1, d2, d3, d4}, MENU_SIZE <- 3, Known <- {d1, d3}

ConfigureMenu ==
  \E ids \in UpTo({d1, d2, d3, d4}, 4) :
    \E slots \in [DOMAIN ids -> (0..3) \cup {Auto}] :
      LET destinations == [i \in DOMAIN ids |-> [id |-> ids[i], slot |-> slots[i]]]
      IN Menus!Accepted(destinations) /\ Choose({[of |-> "menu", destinations |-> destinations]})

(* An entry with a slot is there and nowhere else, whatever stands before  *)
(* it in the configuration.  No other entry is left out while a slot is    *)
(* free, and they come in the order of the configuration.  A click selects *)
(* the destination whose item is in the slot.                              *)
MenuIsLaidOut ==
  input.of = "menu" =>
    LET entries == input.destinations
        menu == Menus!build_selector_menu(entries)
        places(i) == {s \in Menus!Slots : menu.map[s] = entries[i].id}
        autos == {i \in DOMAIN entries : entries[i].slot = Auto}
        shown == {i \in autos : places(i) # {}}
        room == 3 - Cardinality(DOMAIN entries \ autos)
    IN /\ \A i \in DOMAIN entries \ autos : places(i) = {entries[i].slot}
       /\ Cardinality(shown) = Min({Cardinality(autos), room})
       /\ \A i \in shown : Cardinality(places(i)) = 1
       /\ \A i \in shown, j \in autos : j < i => j \in shown /\ Max(places(j)) < Min(places(i))
       /\ \A s \in Menus!Slots : menu.slots[s].of = menu.map[s]

-------------------------------------------------------------------------------
(* Sections, with five blocks in a section, five kinds of blocks, of which *)
(* up to four fit into a palette, and every format: every way in which the *)
(* blocks can be alike, and mappings that are one-to-one or not, one of    *)
(* them of a version that lacks a block.                                   *)
Section == INSTANCE Sections WITH
             Volume <- 5, LongBits <- 5, MinBits <- 2, MaxBits <- 2, DirectBits <- 3, MetaStates <- 2

AlikeOrNot == {blocks \in Section!Blocks(0..4) :
                 \A i \in 1..5 : blocks[i] = 0 \/ \E j \in 1 .. i - 1 : blocks[j] >= blocks[i] - 1}
Mappings == {[id \in 0..4 |-> (id * k) % 5] : k \in 0..4} \cup {[id \in 0..3 |-> 6 - id]}

SendSection ==
  \E blocks \in AlikeOrNot, mapping \in Mappings, format \in Section!Formats :
    Choose({[of |-> "section", blocks |-> blocks, mapping |-> mapping, format |-> format]})

(* A client sees the block of its version in every place.  Before 1.16 the *)
(* code has palettes only, and more than 256 blocks do not fit into one:   *)
(* there the section has to have fewer.                                    *)
SectionsAreShown ==
  input.of = "section" =>
    LET container == Section!from_palette(Section!process_section(input.blocks), input.mapping)
        wire == Section!EncodeSection(container, FALSE, 3, input.format)
        read == Section!ClientReads(wire \o <<"next">>, input.format)
        shown == [i \in 1..5 |-> Section!MapId(input.blocks[i], input.mapping)]
        needsPalette == input.format \in Section!V1_9 .. Section!V1_14
    IN (needsPalette => Cardinality(ToSet(shown)) <= 4) =>
         read.right /\ read.blocks = shown /\ read.rest = <<"next">>

(* ChunkColumn, with sections of two blocks a side and worlds of up to two *)
(* by three by two sections, in dimensions of two and three sections; and  *)
(* BitSet, with bytes and longs of two bits and two bytes.                 *)
Column == INSTANCE ChunkColumn WITH Size <- 2, MaskHeight <- 2
Masks == INSTANCE BitSet WITH ByteBits <- 2, LongBytes <- 2

Dimensions(version) ==
  IF version < Column!V1_18 THEN {[min_y |-> 0, height |-> 2]}
  ELSE {[min_y |-> 0, height |-> 2], [min_y |-> -1, height |-> 3]}

SendColumn ==
  \E x, z \in -1..2, version \in Column!Versions, size \in (1..2) \X (1..3) \X (1..2) :
    \E dimension \in Dimensions(version) :
      Choose({[of |-> "column", x |-> x, z |-> z, version |-> version, size |-> size,
               dimension |-> dimension]})

(* A block entity in every block of the lowest floor, of two types. *)
Signs(size) ==
  [i \in 1 .. 4 * size[1] * size[3] |->
     LET x == i % (2 * size[1])  z == (i - 1) \div (2 * size[1])
     IN [at |-> <<x, 0, z>>, type |-> IF (x + z) % 2 = 0 THEN "known" ELSE "unknown"]]

(* Column: the client of the version knows every field of the packets, has *)
(* as many sections as it reads, and in every place those of the schematic,*)
(* with their block entities, and their light where the dimension begins   *)
(* at zero; below, the code counts the light from the wrong section.       *)
ColumnsAreShown ==
  input.of = "column" =>
    LET x == input.x  z == input.z  version == input.version  size == input.size
        world == Column!from_schematic(size, Signs(size))
        packets == Column!Packets(world, x, z, input.dimension, {"known"}, version)
        column == packets[1]
        light == Column!Value(Last(packets), "light")
        y(i) == input.dimension.min_y + i
        isIn(at) == \A c \in 1..3 : at[c] \in 0 .. size[c] - 1
        expected(of, at, other) == IF isIn(at) THEN [of |-> of, at |-> at] ELSE other
        void == Column!VoidPackets(input.dimension, version)
    IN /\ Column!Names(column) = Column!ClientFields[version]
       /\ Column!Names(void[1]) = Column!ClientFields[version]
       /\ Len(void) = Len(packets)
       /\ version < Column!V1_18 =>
            2^Len(Column!Value(column, "sections")) - 1 = Column!Value(column, "mask")
       /\ Column!Value(column, "sections") =
            [i \in 1 .. input.dimension.height |-> expected("blocks", <<x, y(i - 1), z>>, Column!VoidSection)]
       /\ version >= Column!V1_9_3 =>
            Column!ClientPositions(Column!Value(column, "block entities"), x, z, version) =
              {entity \in ToSet(Signs(size)) :
                 entity.type = "known" /\ entity.at[1] \div 2 = x /\ entity.at[3] \div 2 = z}
       /\ version >= Column!V1_14 /\ input.dimension.min_y = 0 /\ size[2] <= input.dimension.height =>
            /\ light.mask = 2^Len(light.sky) - 1 /\ Len(light.sky) = input.dimension.height + 2
            /\ light.sky = [i \in DOMAIN light.sky |->
                              expected("sky light", <<x, y(i - 2), z>>, Column!FullSky)]
            /\ light.block = [i \in DOMAIN light.sky |->
                                expected("block light", <<x, y(i - 2), z>>, Column!NoBlock)]

SendMask == \E asBytes \in BOOLEAN, longs \in UpTo(Masks!Long, 2) :
              Choose({[of |-> "mask", asBytes |-> asBytes, longs |-> longs]})

(* What is read back has the same bits: only zeros at the end are lost. *)
MasksAreRead ==
  input.of = "mask" =>
    LET back == Masks!decode(Masks!encode(input.longs, input.asBytes), input.asBytes)
    IN /\ ~back.error /\ IsPrefix(back.longs, input.longs)
       /\ \A k \in Len(back.longs) + 1 .. Len(input.longs) : input.longs[k] = 0

(* The spiral visits every column of the square once, no nearer one after  *)
(* one that is farther away.                                               *)
Walk == Choose([of : {"spiral"}, radius : 0..4])
SpiralCovers ==
  input.of = "spiral" =>
    LET spiral == Column!Spiral(input.radius)
        square == (-input.radius .. input.radius) \X (-input.radius .. input.radius)
    IN /\ ToSet(spiral) = square /\ Len(spiral) = Cardinality(square)
       /\ \A n \in 2 .. Len(spiral) : Column!Distance(spiral[n - 1]) <= Column!Distance(spiral[n])

(* What the client shows around the player is the schematic: the sections, *)
(* whatever the version reads them like, in their places with their light. *)
ChunksAreShown == SectionsAreShown /\ ColumnsAreShown /\ MasksAreRead /\ SpiralCovers

-------------------------------------------------------------------------------
(* WorldLight, with sections of two blocks a side and light of up to       *)
(* three: every wall of six blocks that let light through, stop or emit it *)
(* in two sections on top of each other, and every row of three, with up   *)
(* to two sources.                                                         *)
Lit == INSTANCE WorldLight WITH Size <- 2, FullLight <- 3

Abs(n) == IF n < 0 THEN -n ELSE n
Shapes == {<<2, 3, 1>>, <<3, 1, 1>>}
Near ==
  [world \in {Lit!World(shape) : shape \in Shapes} |-> [i \in Lit!Indices(world) |->
     {n \in Lit!Indices(world) :
        LET here == Lit!Position(i, world)  there == Lit!Position(n, world)
        IN Abs(here[1] - there[1]) + Abs(here[2] - there[2]) + Abs(here[3] - there[3]) = 1}]]
Kinds == {[transparent |-> TRUE, emits |-> 0], [transparent |-> FALSE, emits |-> 0],
          [transparent |-> FALSE, emits |-> 3], [transparent |-> TRUE, emits |-> 2]}
LightWorld ==
  \E shape \in Shapes :
    \E blocks \in [(0 .. shape[1] - 1) \X (0 .. shape[2] - 1) \X (0 .. shape[3] - 1) -> Kinds] :
      Cardinality({p \in DOMAIN blocks : blocks[p].emits > 0}) <= 2 /\ Choose({[of |-> "light", schematic |-> [dimensions |-> shape, blocks |-> blocks]]})

(* The light of a block is that of its source or one less than that of its *)
(* brightest neighbour, and it is the least such light: no block is bright *)
(* by itself.  Light of three reaches no farther than two blocks.          *)
WorldIsLit ==
  input.of = "light" =>
    LET schematic == input.schematic
        world == Lit!World(schematic.dimensions)
        result == Lit!calculate_global_light(schematic)
        transparent == Lit!Transparent(schematic, world)
        passOn(light) == [i \in DOMAIN light |->
          IF transparent[i] THEN Max({light[i]} \cup {light[n] - 1 : n \in Near[world][i]}) ELSE light[i]]
        sky == passOn(passOn(Lit!SkySources(schematic, world)))
        block == passOn(passOn(Lit!BlockSources(schematic, world)))
        shown(i, of) == LET at == Lit!Position(i, world)
                        IN Lit!ClientLight(result[[c \in 1..3 |-> at[c] \div 2]][of], at)
    IN \A i \in Lit!Indices(world) : shown(i, "sky") = sky[i] /\ shown(i, "block") = block[i]

(* Schematic: every file with a palette of up to three of air, two blocks  *)
(* and a block the report does not have, in the order of the names or not, *)
(* for two by two blocks, the last of which may be missing.                *)
Names == {"air", "stone", "sand", "gone"}
KnownBlocks == Names \ {"gone"}
File == INSTANCE Schematic WITH
          AIR_IDENTIFIER <- "air", Known <- KnownBlocks, SegmentBits <- 1, Width <- 5
ByteWise == INSTANCE VarInt WITH SegmentBits <- 1, Width <- 5, MaxBytes <- 5

LoadSchematic ==
  \E names \in {s \in UpTo(Names, 3) : s # <<>> /\ Cardinality(ToSet(s)) = Len(s)},
     backwards \in BOOLEAN, version \in {2, 3} :
    \E data \in UpTo(DOMAIN names, 4) :
      LET id(i) == IF backwards THEN Len(names) - i ELSE i - 1
      IN Choose({[of |-> "schematic", ids |-> [n \in DOMAIN data |-> id(data[n])],
                  file |-> [version |-> version, dimensions |-> <<2, 1, 2>>, palette_max |-> Len(names) - 1,
                            palette |-> [i \in DOMAIN names |-> [name |-> names[i], id |-> id(i)]],
                            data |-> FlattenSeq([n \in DOMAIN data |-> ByteWise!Encode(id(data[n]))])]]})

(* A block of the schematic is the one whose number it has, or air when    *)
(* the version lacks it; where the schematic has none there is air, if the *)
(* palette has air: without it the code takes the block with the number 0. *)
SchematicIsLoaded ==
  input.of = "schematic" =>
    LET file == input.file
        entry(id) == CHOOSE e \in ToSet(file.palette) : e.id = id
        named(id) == IF entry(id).name \in KnownBlocks THEN entry(id).name ELSE "air"
        hasAir == \E e \in ToSet(file.palette) : e.name = "air"
        n(at) == File!position_to_index(file, at) + 1
    IN \A at \in (-1..2) \X (-1..1) \X (-1..2) :
         LET block == File!get_block_state_id(file, at)
         IN IF at \in (0..1) \X {0} \X (0..1) /\ n(at) <= Len(input.ids) THEN block = named(input.ids[n(at)])
            ELSE hasAir => block = "air"

(* Signs: every sign whose faces have two texts on their lines. *)
Signboard == INSTANCE Signs WITH
               Color <- {"black", "red"}, Black <- "black", Text <- {"a", "b"}, NoText <- "none"

Faces(forms) ==
  [glowing : {0, 1}, color : {"black", "red"},
   messages : {[i \in 1..4 |-> [as |-> form, text |-> texts[i]]] : form \in forms, texts \in [1..4 -> {"a", "b"}]}]
Blank == [glowing |-> 0, color |-> "black", messages |-> <<>>]

PlaceSign ==
  \E version \in Signboard!Versions :
    Choose([of : {"sign"}, version : {version}, sign :
              [of : {"legacy"}, front : Faces({"json string"})]
              \cup [of : {"modern"}, is_waxed : {0, 1}, front : Faces({"json string", "string"}) \cup {Blank},
                    back : {Blank, CHOOSE face \in Faces({"string"}) : face.color = "red"}]])

(* A client reads the lines of a sign in the form it knows, with its color *)
(* and glow, whichever form the schematic has: those in front before 1.20. *)
SignsAreRead ==
  input.of = "sign" =>
    LET board == input.sign
        sent == Signboard!to_version_value(Signboard!from_nbt(board), input.version)
        written(face) == IF face.messages = <<>> THEN [i \in 1..4 |-> "none"]
                         ELSE [i \in 1..4 |-> face.messages[i].text]
        isShown(of, face) == /\ Signboard!ClientLines(of, input.version) = written(face)
                             /\ of.color = face.color /\ of.glowing = face.glowing
    IN /\ sent.of = Signboard!ClientForm(input.version).of
       /\ isShown(sent.front, board.front)
       /\ sent.of = "modern" => isShown(sent.back, IF board.of = "modern" THEN board.back ELSE Blank)

(* What the file says is what the world has: its blocks, signs and light.  *)
WorldIsLoaded == WorldIsLit /\ SchematicIsLoaded /\ SignsAreRead

-------------------------------------------------------------------------------
(* Commands: every line of up to four words, for servers that have all the *)
(* commands, have switched some off, or call two of them alike.            *)
FloatOf == "2" :> 200 @@ "0" :> 0
Command == INSTANCE Commands WITH
             Space <- " ", Empty <- "", PortOf <- ("2" :> 2 @@ "0" :> 0)

Everything == [spawn |-> "spawn", fly |-> "fly", fly_speed |-> "flyspeed", transfer |-> "transfer",
               server |-> "server", msg |-> "msg", reply |-> "reply", reply_aliases |-> <<"r">>]
Configs == {Everything, [Everything EXCEPT !.spawn = "", !.transfer = ""],
            [Everything EXCEPT !.reply = "", !.reply_aliases = <<"", "r">>],
            [Everything EXCEPT !.fly = "spawn", !.reply_aliases = <<>>]}

TypeCommand ==
  \E config \in Configs, version \in Command!Versions, spaced \in {<<>>, <<" ">>} :
    \E words \in UpTo({"2", "0", "name"}, 3), k \in DOMAIN Command!Kinds :
      \E first \in Command!Aliases(config, Command!Kinds[k]) \cup {"name"} :
        Choose({[of |-> "command", config |-> config, version |-> version,
                 line |-> spaced \o <<first>> \o FlattenSeq([i \in DOMAIN words |-> <<" ", words[i]>>])]})

(* A line the client shows as complete runs on the server, as the command  *)
(* that has the name and with what was typed; and every line that runs     *)
(* with all its arguments is complete on the client, but those of /server, *)
(* which is never offered, those of /msg, whose nodes never end a command, *)
(* and those of /transfer before 1.20.5.                                   *)
CommandsAreOffered ==
  input.of = "command" =>
    LET config == input.config
        words == Command!Words(input.line)
        run == Command!parse(config, input.line)
        complete == Command!ClientAccepts(config, input.version, input.line)
        arity == [spawn |-> 0, fly |-> 0, fly_speed |-> 1, transfer |-> 2, reply |-> 1]
    IN /\ complete => /\ run.error = "none" /\ words[1] \in Command!Aliases(config, run.command)
                      /\ (run.command = "fly_speed" /\ Len(words) = 2) =>
                           run.arguments = <<FloatOf[words[2]]>>
                      /\ run.command = "transfer" => run.arguments[1] = words[2]
                      /\ run.command = "reply" => Command!Words(run.arguments[1]) = Tail(words)
       /\ (/\ run.error = "none" /\ run.command \in DOMAIN arity
           /\ Len(words) = arity[run.command] + 1
           /\ run.command = "transfer" => input.version = Command!V1_20_5
           /\ run.command = "fly_speed" => run.arguments[1] = FloatOf[words[2]]) => complete

(* What the menu and the commands offer is what the server does. *)
OffersAreKept == MenuIsLaidOut /\ CommandsAreOffered

-------------------------------------------------------------------------------
(* Nbt: values up to three levels deep, data of every kind of serde, JSON  *)
(* that has it all, and the names and texts that SNBT may have to quote.   *)
(* The fractions are numbers from 50 on, and 50 is one a float can hold.   *)
Tags == INSTANCE Nbt WITH
          ByteMax <- 1, ShortMax <- 3, IntMax <- 7, Single <- {50},
          Digits <- {"0"}, Letters <- {"a"}, Marks <- {"_", "-"}

Named1(values) == {<<<<<<"a">>, v>>>> : v \in values}
Named2(values) == {<<<<<<"a">>, v>>, <<<<"b">>, w>>>> : v \in values, w \in values}
Leaves == {<<Tags!TByte, 1>>, <<Tags!TInt, 7>>, <<Tags!TDouble, 51>>, <<Tags!TString, <<"a">>>>,
           <<Tags!TByteArray, <<1, 0>>>>, <<Tags!TLongArray, <<>>>>}
Holding(values) ==
  {<<Tags!TList, s>> : s \in UpTo(values, 2)}
  \cup {<<Tags!TCompound, s>> : s \in {<<>>} \cup Named1(values) \cup Named2(values)}
Nested == {<<Tags!TInt, 7>>, <<Tags!TString, <<"a">>>>, <<Tags!TList, <<<<Tags!TInt, 7>>>>>>,
           <<Tags!TList, <<<<Tags!TInt, 7>>, <<Tags!TString, <<"a">>>>>>>>,
           <<Tags!TCompound, <<<<<<"a">>, <<Tags!TByte, 1>>>>>>>>}
NbtValues == Leaves \cup Holding(Leaves) \cup Holding(Nested)

Atoms == {<<"bool", TRUE>>, <<"i32", 7>>, <<"str", <<"a">>>>, <<"unsigned", 7>>, <<"none">>,
          <<"some", <<"i32", 7>>>>, <<"unit variant", <<"b">>>>,
          <<"value", <<Tags!TIntArray, <<7>>>>>>}
Built(atoms) ==
  {<<"seq", s>> : s \in UpTo(atoms, 2)}
  \cup {<<"struct", <<<<"a">>, <<"b">>>>, s>> : s \in [1..2 -> atoms]}
  \cup {<<"newtype variant", <<"b">>, d>> : d \in atoms}
  \cup {<<"tuple variant", <<"b">>, s>> : s \in [1..2 -> atoms]}
  \cup {<<"struct variant", <<"b">>, <<<<"a">>>>, s>> : s \in [1..1 -> atoms]}
SerdeData == Atoms \cup Built(Atoms) \cup Built({<<"newtype variant", <<"b">>, <<"i32", 7>>>>, <<"none">>,
                                            <<"seq", <<<<"bool", FALSE>>>>>>})

JsonAtoms == {<<"null">>, <<"bool", TRUE>>, <<"string", <<"a">>>>, <<"fraction", 50>>, <<"fraction", 51>>}
             \cup {<<"whole", n>> : n \in {-9, -8, -2, -1, 1, 2, 3, 4, 8}}
JsonOf(values) == {<<"array", s>> : s \in UpTo(values, 2)}
                  \cup {<<"object", <<<<"a">>, <<"b">>>>, s>> : s \in [1..2 -> values]}
JsonData == JsonAtoms \cup JsonOf(JsonAtoms) \cup JsonOf({<<"whole", 1>>, <<"array", <<<<"whole", 9>>>>>>, <<"array", <<>>>>})

Texts == UpTo({"a", "0", "_", "-", "\"", "'", "\\", "\n"}, 2)
SnbtValues == {<<Tags!TString, s>> : s \in Texts} \cup {<<Tags!TCompound, s>> : s \in Named1({<<Tags!TInt, 7>>})}
              \cup Leaves \cup {<<t, 7>> : t \in Tags!Numbers \ {Tags!TDouble}}
              \cup {<<Tags!TList, s>> : s \in UpTo(Leaves \ {<<Tags!TDouble, 51>>}, 1)}
              \cup {<<Tags!TList, <<<<Tags!TString, <<c, "a">>>>>>>> : c \in {",", "]", "a"}}

WriteNbt ==
  Choose([of : {"nbt"}, v : NbtValues, dynamic_lists : BOOLEAN, nameless : BOOLEAN]
         \cup [of : {"serde"}, data : SerdeData]
         \cup [of : {"json"}, json : JsonData]
         \cup [of : {"snbt"}, v : SnbtValues])

RECURSIVE HasAny(_, _)
HasAny(kinds, data) ==
  \/ data[1] \in kinds
  \/ data[1] \in {"some"} /\ HasAny(kinds, data[2])
  \/ data[1] = "newtype variant" /\ HasAny(kinds, data[3])
  \/ data[1] \in {"seq", "array", "struct", "object", "tuple variant", "struct variant"}
     /\ \E i \in DOMAIN data[Len(data)] : HasAny(kinds, data[Len(data)][i])

(* The JSON that a value of the reports means *)
RECURSIVE JsonOfNbt(_)
JsonOfNbt(v) ==
  LET part == v[2]
      array(items) == <<"array", items>>
  IN CASE v[1] \in Tags!TByte..Tags!TLong -> <<"whole", part>>
       [] v[1] \in {Tags!TFloat, Tags!TDouble} -> <<"fraction", part>>
       [] v[1] = Tags!TString -> <<"string", part>>
       [] v[1] \in Tags!Arrays -> array([i \in DOMAIN part |-> <<"whole", part[i]>>])
       [] v[1] = Tags!TList -> array([i \in DOMAIN part |-> JsonOfNbt(part[i])])
       [] v[1] = Tags!TCompound ->
            <<"object", [i \in DOMAIN part |-> part[i][1]], [i \in DOMAIN part |-> JsonOfNbt(part[i][2])]>>
RECURSIVE Counted(_)
Counted(json) ==
  CASE json[1] = "bool" -> <<"whole", 1>>
    [] json[1] = "array" -> <<"array", [i \in DOMAIN json[2] |-> Counted(json[2][i])]>>
    [] json[1] = "object" -> <<"object", json[2], [i \in DOMAIN json[3] |-> Counted(json[3][i])]>>
    [] OTHER -> json

(* What is written is read back, whole and no further, by whoever knows    *)
(* mixed lists; without them a mixed list is refused and never garbled.    *)
(* Data comes back from the value serde makes of it, and only numbers      *)
(* without a sign and absent options make none.  The values of JSON mean   *)
(* what it says; and two values that look alike in SNBT are the same.      *)
NbtIsRead ==
  /\ (input.of = "nbt" /\ Tags!Writable(input.v, input.dynamic_lists)) =>
       LET read == Tags!ReadRoot(Tags!Root(<<"a">>, input.v, input.nameless) \o <<0, 3>>, input.nameless)
       IN /\ (IF input.dynamic_lists THEN Tags!Unwrapped(read.value) ELSE read.value) = input.v
          /\ read.rest = <<0, 3>>
          /\ read.name = IF input.nameless THEN <<>> ELSE <<"a">>
  /\ input.of = "serde" =>
       LET made == Tags!Serialize(input.data)
       IN /\ made = <<>> <=> HasAny({"unsigned", "none"}, input.data)
          /\ made # <<>> => Tags!Reads(made[1], input.data)
  /\ input.of = "json" =>
       LET made == Tags!json_to_nbt(input.json)
       IN /\ made = <<>> <=> HasAny({"null"}, input.json)
          /\ made # <<>> => JsonOfNbt(made[1]) = Counted(input.json)
  /\ input.of = "snbt" =>
       \A v \in SnbtValues : Tags!Snbt(v) = Tags!Snbt(input.v) => v = input.v

-------------------------------------------------------------------------------
(* Items: every number an item can have, in every version; and stacks with *)
(* and without a name, lore and a glint.  The readers of 1.7, which expect *)
(* the tag compressed, are left out.                                       *)
Inventory == INSTANCE Items
ItemNumbers == 0..1399

(* data/generated: the number of paper in the reports that have the items  *)
PaperNumbers == 735 :> 677 @@ 755 :> 791 @@ 757 :> 791 @@ 759 :> 829 @@ 763 :> 884 @@ 767 :> 924 @@ 768 :> 948
                @@ 770 :> 966 @@ 773 :> 1028 @@ 774 :> 1028 @@ 775 :> 1029 @@ 776 :> 1057 @@ 777 :> 1145
PaperItem(version) == [legacy |-> {<<339, 0>>}, ids |-> {PaperNumbers[Inventory!item_registry_bucket(version)]}]

Stacks == [item_id : {-1, 0, 255}, count : {1, 64}, name : {<<>>, <<"n">>},
           lore : {<<>>, <<"a">>, <<"a", "b">>}, damage : {0, 3}, glint : BOOLEAN]
PutItem ==
  \E version \in Ids!SupportedVersions :
    Choose([of : {"items"}, version : {version}]
           \cup (IF version < 47 THEN {}
                ELSE [of : {"stack"}, version : {version}, hotbar_slot : {0, 8}, stack : Stacks]))

(* No two items of a version have the same number: what was added to the   *)
(* numbers of the nearest report never makes two meet or one leave the     *)
(* table; what has no number is shown as paper, which always has one.  And *)
(* a client reads a stack and its place as they were meant.                *)
ItemsAreTold ==
  /\ input.of = "items" =>
       LET adjusted == [n \in ItemNumbers |-> Inventory!adjust_item_id_for_missing_registry(input.version, n)]
           known == {n \in ItemNumbers : adjusted[n] # {}}
       IN /\ Cardinality(UNION {adjusted[n] : n \in known}) = Cardinality(known)
          /\ \A n \in known : \A id \in adjusted[n] : id >= 0
          /\ \A n \in ItemNumbers :
               LET paper == PaperItem(input.version)
                   shown == Inventory!ItemOrPaper([legacy |-> {}, ids |-> {n}], paper, input.version)
                   numbers == IF n \in known THEN adjusted[n]
                              ELSE UNION {adjusted[p] : p \in paper.ids}
               IN shown[1] \in IF input.version <= 340 THEN {339} ELSE numbers
  /\ input.of = "stack" =>
       Inventory!ReadSetContainerSlot(
           Inventory!EncodeSetContainerSlot(input.hotbar_slot, input.stack, input.version), input.version)
         = <<36 + input.hotbar_slot, Inventory!Seen(input.stack, input.version)>>

-------------------------------------------------------------------------------
(* Registries: packs of files, of reports and of captured registries in    *)
(* another order, with tags of tags, one with a list of values of several  *)
(* kinds, one without a registry; for every version that tells them in its *)
(* own way.                                                                *)
Known == INSTANCE Registries WITH
           ByteMax <- 1, ShortMax <- 3, IntMax <- 7, Single <- {50},
           FileOrder <- <<"a", "b", "desert", "overworld", "plains", "the_end", "the_nether">>

Heights == "overworld" :> 4 @@ "the_nether" :> 2 @@ "the_end" :> 1
DimensionJson(name) ==
  <<"object", <<"name", "height", "min_y", "coordinate_scale">>,
    <<<<"string", name>>, <<"whole", Heights[name]>>, <<"whole", IF name = "overworld" THEN -2 ELSE 0>>,
      <<"fraction", 50>>>>>>
PlainJson(name) == <<"object", <<"name">>, <<<<"string", name>>>>>>
MixedJson(name) ==
  <<"object", <<"name", "list">>, <<<<"string", name>>, <<"array", <<<<"whole", 1>>, <<"string", "a">>>>>>>>>>

EntryNames(key) ==
  CASE key = "dimension_type" -> <<"the_nether", "overworld", "the_end">>
    [] key = "worldgen/biome" -> <<"plains", "desert">>
    [] OTHER -> <<"b", "a">>
Keys == {Known!ALL_REGISTRIES[i][1] : i \in DOMAIN Known!ALL_REGISTRIES}
EntryJson(key, name, odd) ==
  IF key = "dimension_type" THEN DimensionJson(name)
  ELSE IF key = "damage_type" /\ odd = "mixed" THEN MixedJson(name) ELSE PlainJson(name)
MemberOf(is_tag, name) == [is_tag |-> is_tag, name |-> name]
BothTags == "one" :> <<MemberOf(FALSE, "a")>> @@ "all" :> <<MemberOf(FALSE, "b"), MemberOf(TRUE, "one")>>

ReportId == "plains" :> 1 @@ "desert" :> 0 @@ "a" :> 1 @@ "b" :> 0
Pack(is_captured, odd) ==
  LET names(key) == ToSet(EntryNames(key))
      file(key, name) == [name |-> name, json |-> EntryJson(key, name, odd)]
      listed(key) == [i \in DOMAIN EntryNames(key) |->
                        [name |-> EntryNames(key)[i], id |-> Len(EntryNames(key)) - i,
                         element |-> Known!Nbt!json_to_nbt(EntryJson(key, EntryNames(key)[i], odd))[1]]]
      there == IF odd = "missing" THEN Keys \ {"damage_type"} ELSE Keys
      report == IF odd = "report" THEN {"worldgen/biome", "banner_pattern"} ELSE {}
  IN [is_captured |-> is_captured,
      files |-> [key \in there \ report |-> {file(key, name) : name \in names(key)}],
      report |-> [key \in report |-> [name \in names(key) |-> ReportId[name]]],
      tags |-> [key \in {"banner_pattern", "dialog"} |-> BothTags],
      captured |-> [key \in there |->
        [value |-> listed(key), tags |-> IF key = "dialog" THEN "all" :> <<1, 0>> ELSE <<>>]]]

LoadRegistries ==
  Choose([of : {"registries"}, version : {47, 735, 736, 751, 757, 759, 762, 763, 764, 765, 766, 768, 770, 771, 775, 777},
          dimension : Known!Dimensions, is_captured : BOOLEAN, odd : {"nothing", "mixed", "missing", "report"}])

(* The members of a tag, those of its tags included, by name *)
MembersOf(tags, tag) ==
  LET own(t) == {m.name : m \in {m \in ToSet(tags[t]) : ~m.is_tag}}
  IN own(tag) \cup UNION {own(m.name) : m \in {m \in ToSet(tags[tag]) : m.is_tag}}

(* What a client makes of what it is told: its registries, and for an      *)
(* entry of one the name its number stands for.                            *)
Entered(registries, version, login, chunks) ==
  \E v \in Known!ClientDimension(version, login, registries) :
    /\ Known!Field(v, "name")[2] = input.dimension
    /\ Known!Field(v, "height")[2] = chunks.height /\ Known!Field(v, "min_y")[2] = chunks.min_y
Complete(registries, version, biome) ==
  /\ registries["worldgen/biome"][biome + 1].name = "plains"
  /\ DOMAIN registries = {key \in Keys : \E r \in ToSet(Known!ALL_REGISTRIES) : r[1] = key /\ r[2] <= version}
  /\ \A key \in DOMAIN registries :
       {registries[key][i].name : i \in DOMAIN registries[key]} = ToSet(EntryNames(key))
  /\ \A entry \in ToSet(registries["dimension_type"]) : \A v \in ToSet(entry.element) :
       /\ Known!Field(v, "height")[1] = Known!Nbt!TInt /\ Known!Field(v, "min_y")[1] = Known!Nbt!TInt
       /\ Known!Field(v, "coordinate_scale")[1] = Known!Nbt!TDouble
TagsMean(registries, tags, manager) ==
  \A key \in DOMAIN tags : \A tag \in DOMAIN tags[key] :
    {registries[key][id + 1].name : id \in ToSet(tags[key][tag])} = MembersOf(manager[key].tags, tag)

TellsOfEntering(version, manager, tables, login, packets) ==
  \A registries \in {Known!ClientRegistries(version, login, packets)} :
    /\ Entered(registries, version, login, Known!ChunkDimension(input.dimension, tables))
    /\ version >= 751 => Complete(registries, version, Known!BiomeNumber(tables))
    /\ version >= 771 => TagsMean(registries, packets[Len(packets) - 1].tags, manager)

Tells(version, manager, tables) ==
  \A login \in ToSet(Known!build_login_packet(version, input.dimension, tables)) :
  \A packets \in ToSet(IF version < 764 THEN <<<<>>>> ELSE Known!send_configuration_registry_packets(version, tables)) :
    TellsOfEntering(version, manager, tables, Known!EncodeLogin(login, version), packets)

(* A player who is let in has, by name or number, the dimension where the  *)
(* player spawns, as high and as deep as the chunks that are sent; the     *)
(* number the chunks have for the plains is that of the plains; all        *)
(* mandatory registries are there with the entries of the pack, the tags   *)
(* have their members, and numbers the types the client knows: else the    *)
(* build or the login fails.                                               *)
RegistriesAreKnown ==
  input.of = "registries" /\ input.version >= 735 =>
    \A packs \in {Known!data(input.version) :> Pack(input.is_captured, input.odd)} :
      \A manager \in ToSet(Known!load_registry_manager(input.version, packs)) :
        Tells(input.version, manager, Known!tables_of(input.version, manager))

(* What one side writes is what the other side reads. *)
PacketsAreUnderstood == VarIntsAreRead /\ HeardAsSaid /\ NbtIsRead /\ ItemsAreTold /\ RegistriesAreKnown

-------------------------------------------------------------------------------
Next ==
  \/ input = Begin("VarInt") /\ ReadVarInt
  \/ input = Begin("PacketIds") /\ SendPacket
  \/ input = Begin("SidebarLines") /\ CutLine
  \/ input = Begin("SelectorMenu") /\ ConfigureMenu
  \/ input = Begin("Sections") /\ SendSection
  \/ input = Begin("ChunkColumn") /\ (SendColumn \/ SendMask \/ Walk)
  \/ input = Begin("WorldLight") /\ LightWorld
  \/ input = Begin("Schematic") /\ LoadSchematic
  \/ input = Begin("Signs") /\ PlaceSign
  \/ input = Begin("Commands") /\ TypeCommand
  \/ input = Begin("ChatText") /\ (SayInChat \/ WriteText)
  \/ input = Begin("Nbt") /\ WriteNbt
  \/ input = Begin("Items") /\ PutItem
  \/ input = Begin("Registries") /\ LoadRegistries

Spec == Init /\ [][Next]_input
===============================================================================
