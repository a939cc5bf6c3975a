----------------------------- MODULE ChunkColumn ------------------------------
(***************************************************************************)
(* A column of chunk sections: what World keeps of the schematic for each  *)
(* of them, the packets that CircularChunkPacketIterator makes of one, and *)
(* the order in which it makes them.  A section's blocks and light are one *)
(* value each (Sections has what is in them): here it matters whose they   *)
(* are.  Positions are <<x, y, z>>, in sections where nothing else is said,*)
(* and a packet is a sequence of its fields, each with its name.           *)
(***************************************************************************)
EXTENDS Integers, Sequences, SequencesExt, FiniteSets

CONSTANTS
  Size,        \* 16 blocks along a side of a section
  MaskHeight   \* 16 sections, the bits of the mask a column of the schematic has

(* The versions that read a column alike, each named for the first. *)
V1_7 == 1
V1_8 == 2
V1_9 == 3
V1_9_3 == 4
V1_13 == 5
V1_14 == 6
V1_15 == 7
V1_16 == 8
V1_16_2 == 9
V1_17 == 10
V1_18 == 11
V1_20 == 12
V1_21_5 == 13
Versions == V1_7 .. V1_21_5

-------------------------------------------------------------------------------
(* World: one list for all sections and one for all columns. *)
X(size) == size[1]
Y(size) == size[2]
Z(size) == size[3]

SectionPosition(i, size) ==
  <<i \div (Y(size) * Z(size)), (i \div Z(size)) % Y(size), i % Z(size)>>
ColumnPosition(i, size) == <<i \div Z(size), i % Z(size)>>
ColumnIndex(x, z, size) == z + x * Z(size)

(* The blocks and the light of the section at a position are named for it; *)
(* a block entity has a position in blocks and a type.                     *)
from_schematic(size, entities) ==
  LET columns == X(size) * Z(size)
      light(of, i) == [y \in 1 .. Y(size) |->
        [of |-> of, at |-> <<ColumnPosition(i, size)[1], y - 1, ColumnPosition(i, size)[2]>>]]
  IN [size |-> size,
      world_sections |-> [i \in 0 .. X(size) * Y(size) * Z(size) - 1 |->
        [of |-> "blocks", at |-> SectionPosition(i, size)]],
      block_entities_by_chunk |-> [i \in 0 .. columns - 1 |->
        SelectSeq(entities, LAMBDA entity :
          ColumnIndex(entity.at[1] \div Size, entity.at[3] \div Size, size) = i)],
      sky_light_by_chunk |-> [i \in 0 .. columns - 1 |-> light("sky light", i)],
      block_light_by_chunk |-> [i \in 0 .. columns - 1 |-> light("block light", i)]]

is_chunk_column_in_bounds(world, x, z) ==
  x \in 0 .. X(world.size) - 1 /\ z \in 0 .. Z(world.size) - 1

VoidSection == [of |-> "void"]
get_section_YZX(world, x, y, z) ==  \* mutant: read in the order of the client's sections
  IF is_chunk_column_in_bounds(world, x, z) /\ y \in 0 .. Y(world.size) - 1
  THEN world.world_sections[x + z * X(world.size) + y * X(world.size) * Z(world.size)]
  ELSE VoidSection

get_section(world, x, y, z) ==
  IF is_chunk_column_in_bounds(world, x, z) /\ y \in 0 .. Y(world.size) - 1
  THEN world.world_sections[z + y * Z(world.size) + x * Y(world.size) * Z(world.size)]
  ELSE VoidSection

-------------------------------------------------------------------------------
(* Light: a column of the schematic has an array for the section below it, *)
(* one for each of its own and as many as are missing above.               *)
FullSky == [of |-> "full sky"]
NoBlock == [of |-> "no light"]
NoLight == [mask |-> 0, sky |-> <<>>, block |-> <<>>]

Repeated(value, n) == [i \in 1..n |-> value]
padded_arrays(sections, total, edge) ==
  LET missing == total - Len(sections) - 2
  IN <<edge>> \o sections \o <<edge>> \o Repeated(edge, IF missing > 0 THEN missing ELSE 0)

AllSections(total) == 2^total - 1
new_void(height) ==
  [mask |-> AllSections(height + 2), sky |-> Repeated(FullSky, height + 2),
   block |-> Repeated(NoBlock, height + 2)]
from_light_data(sky, block, height) ==
  [mask |-> AllSections(height + 2), sky |-> padded_arrays(sky, height + 2, FullSky),
   block |-> padded_arrays(block, height + 2, NoBlock)]

Light(world, x, z, height) ==
  IF is_chunk_column_in_bounds(world, x, z)
  THEN LET i == ColumnIndex(x, z, world.size)
       IN from_light_data(world.sky_light_by_chunk[i], world.block_light_by_chunk[i], height)
  ELSE new_void(height)

-------------------------------------------------------------------------------
(* ChunkData: the sections from the bottom of the dimension to its top, an *)
(* heightmap of 256 entries of nine bits, and the block entities whose type*)
(* the version knows.                                                      *)
long_count(version) == IF version < V1_16 THEN 36 ELSE 37

Column(world, x, z, dimension) ==
  LET negative == IF dimension.min_y < 0 THEN -dimension.min_y ELSE dimension.min_y
  IN [i \in 1 .. dimension.height |-> get_section(world, x, i - 1 - negative, z)]

collect_chunk_block_entities(world, x, z, known, version) ==
  LET sent(entity) ==
        IF version >= V1_18
        THEN [packed_xz |-> Size * (entity.at[1] % Size) + (entity.at[3] % Size),
              y |-> entity.at[2], type |-> entity.type]
        ELSE [at |-> entity.at, type |-> entity.type]
      entities == SelectSeq(world.block_entities_by_chunk[ColumnIndex(x, z, world.size)],
                            LAMBDA entity : entity.type \in known)
  IN IF is_chunk_column_in_bounds(world, x, z)
     THEN [i \in DOMAIN entities |-> sent(entities[i])] ELSE <<>>

-------------------------------------------------------------------------------
(* The packets of a column.  Every field a version has is there in the     *)
(* order in which the code writes it.                                      *)
Field(name, value, present) == IF present THEN <<<<name, value>>>> ELSE <<>>

ChunkDataFields(column, entities, version) ==
  IF version < V1_16
  THEN Field("heightmaps", long_count(version), version >= V1_14)
         \o Field("biomes", "1024 ints", version >= V1_15)
         \o Field("sections", column, TRUE)
         \o Field("biomes", "256 ints", version \in {V1_13, V1_14})
         \o Field("biomes", "256 bytes", version < V1_13)
         \o Field("block entities", entities, version >= V1_9_3)
  ELSE Field("heightmaps", long_count(version), TRUE)
         \o Field("biomes", "counted", version \in V1_16_2 .. V1_17)
         \o Field("biomes", "1024 ints", version = V1_16)
         \o Field("sections", column, TRUE)
         \o Field("block entities", entities, TRUE)

ChunkDataAndUpdateLight(mask, column, entities, light, version) ==
  IF version < V1_16
  THEN Field("full chunk", TRUE, TRUE) \o Field("mask", mask, TRUE)
         \o Field("add mask", 0, version = V1_7)
         \o ChunkDataFields(column, entities, version)
  ELSE Field("full chunk", TRUE, version < V1_17)
         \o Field("ignore old data", FALSE, version = V1_16)
         \o Field("mask", mask, version <= V1_17)
         \o ChunkDataFields(column, entities, version)
         \o Field("trust edges", TRUE, version = V1_18)
         \o Field("light", light, version >= V1_18)

LightUpdate(light, version) ==
  Field("trust edges", TRUE, version >= V1_16) \o Field("light", light, TRUE)

(* from_structure and void_for_protocol: one packet, and a LightUpdate     *)
(* after it where the version has light of its own and no room for it.     *)
MinOf(a, b) == IF a < b THEN a ELSE b
Packets(world, x, z, dimension, known, version) ==
  LET light == Light(world, x, z, dimension.height)
  IN <<ChunkDataAndUpdateLight(
         AllSections(MaskHeight), Column(world, x, z, dimension),
         collect_chunk_block_entities(world, x, z, known, version),
         IF version >= V1_18 THEN light ELSE NoLight, version)>>
     \o IF version \in V1_14 .. V1_17 THEN <<LightUpdate(light, version)>> ELSE <<>>

VoidPackets(dimension, version) ==
  <<ChunkDataAndUpdateLight(
      AllSections(MinOf(dimension.height, MaskHeight)), Repeated(VoidSection, dimension.height), <<>>,
      IF version >= V1_18 THEN new_void(dimension.height) ELSE NoLight, version)>>
  \o IF version \in V1_14 .. V1_17 THEN <<LightUpdate(new_void(dimension.height), version)>> ELSE <<>>

-------------------------------------------------------------------------------
(* The client of a version: the fields it reads, and what it makes of them.*)
(* Sections are counted from the bottom of the dimension, the arrays of    *)
(* light from the section below it; block entities come with the position  *)
(* in their column since 1.18.                                             *)
ClientFields ==
  LET old == <<"full chunk", "mask", "sections", "biomes">>
      biomesFirst == <<"mask", "heightmaps", "biomes", "sections", "block entities">>
  IN [v \in Versions |->
        IF v = V1_7 THEN <<"full chunk", "mask", "add mask", "sections", "biomes">>
        ELSE IF v \in {V1_8, V1_9} THEN old
        ELSE IF v \in {V1_9_3, V1_13} THEN old \o <<"block entities">>
        ELSE IF v = V1_14 THEN <<"full chunk", "mask", "heightmaps", "sections", "biomes", "block entities">>
        ELSE IF v \in {V1_15, V1_16_2} THEN <<"full chunk">> \o biomesFirst
        ELSE IF v = V1_16 THEN <<"full chunk", "ignore old data">> \o biomesFirst
        ELSE IF v = V1_17 THEN biomesFirst
        ELSE <<"heightmaps", "sections", "block entities">>
               \o (IF v = V1_18 THEN <<"trust edges">> ELSE <<>>) \o <<"light">>]

Names(packet) == [i \in DOMAIN packet |-> packet[i][1]]
Value(packet, name) == packet[CHOOSE i \in DOMAIN packet : packet[i][1] = name][2]

ClientPositions(entities, x, z, version) ==
  {[at |-> IF version < V1_18 THEN entities[i].at
           ELSE <<Size * x + entities[i].packed_xz \div Size, entities[i].y,
                  Size * z + (entities[i].packed_xz % Size)>>,
    type |-> entities[i].type] : i \in DOMAIN entities}

-------------------------------------------------------------------------------
(* SpiralIterator: the columns in a square around the center, in a spiral  *)
(* whose legs grow by one every other turn.                                *)
turn == [right |-> "up", up |-> "left", left |-> "down", down |-> "right"]
step == [right |-> <<1, 0>>, up |-> <<0, -1>>, left |-> <<-1, 0>>, down |-> <<0, 1>>]

NewSpiral == [at |-> <<0, 0>>, direction |-> "right", leg_length |-> 1,
              steps_remaining_in_leg |-> 1, grow_next_leg |-> FALSE]

NextStep(s) ==
  LET at == <<s.at[1] + step[s.direction][1], s.at[2] + step[s.direction][2]>>
      length == IF s.grow_next_leg THEN s.leg_length + 1 ELSE s.leg_length
  IN IF s.steps_remaining_in_leg > 1
     THEN [s EXCEPT !.at = at, !.steps_remaining_in_leg = @ - 1]
     ELSE [at |-> at, direction |-> turn[s.direction], leg_length |-> length,
           steps_remaining_in_leg |-> length, grow_next_leg |-> ~s.grow_next_leg]

Distance(at) == LET abs(n) == IF n < 0 THEN -n ELSE n
                IN IF abs(at[1]) < abs(at[2]) THEN abs(at[2]) ELSE abs(at[1])

(* The positions it yields, until the next one is too far. *)
Spiral(radius) ==
  LET steps[n \in 1 .. 4 * (radius + 1) * (radius + 1)] ==
        IF n = 1 THEN NewSpiral ELSE NextStep(steps[n - 1])
      last == CHOOSE n \in DOMAIN steps :
                /\ Distance(steps[n].at) > radius
                /\ \A k \in 1 .. n - 1 : Distance(steps[k].at) <= radius
  IN [n \in 1 .. last - 1 |-> steps[n].at]
===============================================================================
