------------------------------- MODULE Sections -------------------------------
(***************************************************************************)
(* The blocks of a 16x16x16 section on their way from the schematic to the *)
(* client: ChunkProcessor packs them once, with the ids blocks_report      *)
(* gives to every block of every version, PaletteContainer translates them *)
(* to the ids of one version, and the packet writes them the way that      *)
(* version reads them: since 1.16 in longs whose entries do not span two   *)
(* longs, from 1.9 to 1.15 in longs whose entries do, and before that as   *)
(* plain states.                                                           *)
(*                                                                         *)
(* The wire is a sequence of numbers, one for each field, and a long is    *)
(* the number its LongBits bits make.  Light is left to ChunkColumn.       *)
(***************************************************************************)
EXTENDS Integers, Sequences, SequencesExt, FiniteSets

CONSTANTS
  Volume,            \* 4096 blocks in a section
  LongBits,          \* 64
  MinBits, MaxBits,  \* 4 and 8, the sizes of an index into a palette
  DirectBits,        \* 15, the size of an id
  MetaStates         \* 16 states of one block id before 1.13

(* The versions that read a section alike, each named for the first. *)
V1_7 == 1
V1_8 == 2
V1_9 == 3
V1_13 == 4
V1_14 == 5
V1_16 == 6
V1_18 == 7
V1_21_5 == 8
V26 == 9
Formats == V1_7 .. V26

AIR_ID == 0

Blocks(Id) == [1..Volume -> Id]
DivCeil(n, d) == (n + d - 1) \div d
Min2(a, b) == IF a < b THEN a ELSE b
Max2(a, b) == IF a < b THEN b ELSE a
Clamp(bits) == Min2(Max2(bits, MinBits), MaxBits)

bits_needed(n) == IF n <= 1 THEN 1 ELSE CHOOSE b \in 1..n : 2^(b - 1) < n /\ n <= 2^b

-------------------------------------------------------------------------------
(* Longs: the first entry is in the lowest bits, and an entry is cut to    *)
(* the bits it has.                                                        *)
Bits(entries, bits) ==
  FoldRight(LAMBDA entry, above : (entry % 2^bits) + above * 2^bits, entries, 0)

EntriesPerLong(bits) == LongBits \div bits

pack_direct(entries, bits) ==
  LET per == EntriesPerLong(bits)
  IN [k \in 1 .. DivCeil(Len(entries), per) |->
        Bits(SubSeq(entries, per * (k - 1) + 1, Min2(per * k, Len(entries))), bits)]

pack_compact(entries, bits) ==
  LET stream == Bits(entries, bits)
  IN [k \in 1 .. DivCeil(Volume * bits, LongBits) |->
        (stream \div 2^(LongBits * (k - 1))) % 2^LongBits]

unpack_padded(longs, bits) ==
  LET per == EntriesPerLong(bits)
  IN [i \in 1..Volume |->
        LET k == (i - 1) \div per
        IN IF k < Len(longs) THEN (longs[k + 1] \div 2^(bits * ((i - 1) % per))) % 2^bits ELSE 0]

-------------------------------------------------------------------------------
(* ChunkProcessor: the palette lists the ids in the order of their first   *)
(* use, and PaletteContainer gives each its id in the version, or air.     *)
build_palette(ids) ==
  FoldLeft(LAMBDA palette, id : IF Contains(palette, id) THEN palette ELSE Append(palette, id),
           <<>>, ids)
Indices(ids, palette) == [i \in DOMAIN ids |-> SelectInSeq(palette, LAMBDA id : id = ids[i]) - 1]

process_section(blocks) ==
  LET palette == build_palette(blocks)
      bits == bits_needed(Len(palette))
  IN IF Len(palette) = 1 THEN [of |-> "single", id |-> blocks[1]]
     ELSE IF bits <= MaxBits
     THEN [of |-> "paletted", bits |-> Clamp(bits), palette |-> palette,
           data |-> pack_direct(Indices(blocks, palette), Clamp(bits))]
     ELSE [of |-> "direct", data |-> blocks]

MapId(id, mapping) == IF id \in DOMAIN mapping THEN mapping[id] ELSE AIR_ID

from_palette(palette, mapping) ==
  LET mapped(ids) == [i \in DOMAIN ids |-> MapId(ids[i], mapping)]
  IN IF palette.of = "single" THEN [palette EXCEPT !.id = MapId(@, mapping)]
     ELSE IF palette.of = "paletted" THEN [palette EXCEPT !.palette = mapped(@)]
     ELSE [of |-> "direct", bits |-> DirectBits, data |-> pack_direct(mapped(palette.data), DirectBits)]

-------------------------------------------------------------------------------
(* PaletteContainer::encode: since 1.21.5 the client knows the number of   *)
(* longs.  Clients of 1.16 and 1.17 know no single value.                  *)
Counted(seq) == <<Len(seq)>> \o seq
Longs(longs, format) == IF format >= V1_21_5 THEN longs ELSE Counted(longs)

EncodeContainer(container, format) ==
  IF container.of = "single" /\ format = V1_16
  THEN <<MinBits>> \o Counted(<<container.id>>)
         \o Counted([k \in 1 .. DivCeil(Volume, EntriesPerLong(MinBits)) |-> 0])
  ELSE IF container.of = "single" THEN <<0, container.id>> \o Longs(<<>>, format)
  ELSE IF container.of = "paletted"
  THEN <<container.bits>> \o Counted(container.palette) \o Longs(container.data, format)
  ELSE <<container.bits>> \o Longs(container.data, format)

(* Before 1.16 the container is unpacked again. *)
section_block_ids(container) ==
  IF container.of = "single" THEN [i \in 1..Volume |-> container.id]
  ELSE LET entries == unpack_padded(container.data, container.bits)
       IN IF container.of = "direct" THEN entries
          ELSE [i \in 1..Volume |-> IF entries[i] + 1 \in DOMAIN container.palette
                                    THEN container.palette[entries[i] + 1] ELSE AIR_ID]

EncodeIndirect(container) ==
  LET ids == section_block_ids(container)
      palette == build_palette(ids)
      bits == Clamp(bits_needed(Len(palette)))
  IN <<bits>> \o Counted(palette) \o Counted(pack_compact(Indices(ids, palette), bits))

EncodeStates(container, format) ==
  LET states == section_block_ids(container)
      metas == [i \in 1..Volume |-> states[i] % MetaStates]
      pack_nibbles == [i \in 1 .. DivCeil(Volume, 2) |->
                         metas[2*i - 1] + MetaStates * IF 2*i <= Volume THEN metas[2*i] ELSE 0]
  IN IF format = V1_8 THEN states
     ELSE [i \in 1..Volume |-> states[i] \div MetaStates] \o pack_nibbles

(* A section of the schematic claims all its blocks, one above or below it *)
(* none.  The biome is a single value since 1.18; 775 adds the fluids.     *)
block_count(isVoid) == IF isVoid THEN 0 ELSE Volume

EncodeSection(container, isVoid, biome, format) ==
  IF format <= V1_8 THEN EncodeStates(container, format)
  ELSE IF format <= V1_13 THEN EncodeIndirect(container)
  ELSE IF format = V1_14 THEN <<block_count(isVoid)>> \o EncodeIndirect(container)
  ELSE <<block_count(isVoid)>> \o (IF format = V26 THEN <<0>> ELSE <<>>)
         \o EncodeContainer(container, format)
         \o IF format >= V1_18 THEN EncodeContainer([of |-> "single", id |-> biome], format)
            ELSE <<>>

-------------------------------------------------------------------------------
(* The client of a version, which reads one field after another. *)
From(wire, n) == SubSeq(wire, n, Len(wire))

StreamEntries(longs, bits) ==
  LET stream == Bits(longs, LongBits)
  IN [i \in 1..Volume |-> (stream \div 2^(bits * (i - 1))) % 2^bits]

(* The entries of a container and what follows it on the wire; a client    *)
(* rejects another number of longs than it has room for.                   *)
ReadEntries(wire, bits, format) ==
  LET compact == format < V1_16
      needed == IF compact THEN DivCeil(Volume * bits, LongBits)
                ELSE DivCeil(Volume, EntriesPerLong(bits))
      body == IF format >= V1_21_5 THEN wire ELSE From(wire, 2)
      longs == SubSeq(body, 1, needed)
  IN [right |-> needed <= Len(body) /\ (format < V1_21_5 => wire[1] = needed),
      entries |-> IF compact THEN StreamEntries(longs, bits) ELSE unpack_padded(longs, bits),
      rest |-> From(body, needed + 1)]

ReadContainer(wire, format) ==
  IF format >= V1_18 /\ wire[1] = 0
  THEN [right |-> format < V1_21_5 => wire[3] = 0, blocks |-> [i \in 1..Volume |-> wire[2]],
        rest |-> From(wire, IF format < V1_21_5 THEN 4 ELSE 3)]
  ELSE IF wire[1] > MaxBits
  THEN LET read == ReadEntries(From(wire, 2), DirectBits, format)
       IN [right |-> read.right, blocks |-> read.entries, rest |-> read.rest]
  ELSE LET palette == SubSeq(wire, 3, 2 + wire[2])
           read == ReadEntries(From(wire, 3 + wire[2]), Max2(wire[1], MinBits), format)
           inPalette == \A i \in 1..Volume : read.entries[i] < Len(palette)
       IN [right |-> read.right /\ inPalette /\ Len(palette) <= 2^MaxBits,
           blocks |-> [i \in 1..Volume |-> IF inPalette THEN palette[read.entries[i] + 1] ELSE AIR_ID],
           rest |-> read.rest]

ReadStates(wire, format) ==
  LET nibble(i) == wire[Volume + DivCeil(i, 2)]
      meta(i) == IF i % 2 = 1 THEN nibble(i) % MetaStates ELSE nibble(i) \div MetaStates
  IN [right |-> TRUE,
      blocks |-> [i \in 1..Volume |-> IF format = V1_8 THEN wire[i] ELSE MetaStates * wire[i] + meta(i)],
      rest |-> From(wire, 1 + Volume + IF format = V1_8 THEN 0 ELSE DivCeil(Volume, 2))]

ClientReads(wire, format) ==
  LET body == From(wire, IF format < V1_14 THEN 1 ELSE IF format = V26 THEN 3 ELSE 2)
      section == ReadContainer(body, format)
  IN IF format <= V1_8 THEN ReadStates(wire, format)
     ELSE IF format < V1_18 THEN section
     ELSE [section EXCEPT !.rest = ReadContainer(@, format).rest]
===============================================================================
