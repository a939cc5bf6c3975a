------------------------------ MODULE Schematic -------------------------------
(***************************************************************************)
(* Schematic: the blocks of a .schem file.  The file has a palette, which  *)
(* gives a number to the name of a block, and the numbers of its blocks as *)
(* VarInts; the code makes of it a list of the blocks it knows and the     *)
(* block at every position, inside the schematic and around it.            *)
(***************************************************************************)
EXTENDS Integers, Sequences, SequencesExt

CONSTANTS
  AIR_IDENTIFIER, Known,  \* the names of the blocks the report lists, air among them
  SegmentBits, Width      \* 7 bits of a byte of a VarInt, and 32

(* deserialize_var_int_array: one VarInt after another, until the bytes end. *)
Continue == 2^SegmentBits
MaxShift == SegmentBits * (Width \div SegmentBits)

Unread == [integers |-> <<>>, value |-> 0, shift |-> 0, error |-> "none"]
ReadByte(state, byte) ==
  LET value == state.value + (byte % Continue) * 2^state.shift
  IN IF state.error # "none" THEN state
     ELSE IF byte < Continue
     THEN [Unread EXCEPT !.integers = Append(state.integers, value % 2^Width)]
     ELSE IF state.shift = MaxShift THEN [state EXCEPT !.error = "var int too large"]
     ELSE [state EXCEPT !.value = value, !.shift = @ + SegmentBits]

deserialize_var_int_array(bytes) ==
  LET read == FoldLeft(ReadByte, Unread, bytes)
  IN IF read.error = "none" /\ read.shift > 0 THEN [read EXCEPT !.error = "var int truncated"] ELSE read

-------------------------------------------------------------------------------
(* get_palette_and_air_index: version 2 says how large its palette is, and *)
(* for version 3 the code takes the number of its entries.  A name that is *)
(* not known and a number that is too large are skipped.                   *)
get_block_palette_max(file) ==
  IF file.version = 3 THEN Len(file.palette) ELSE IF file.palette_max > 0 THEN file.palette_max ELSE 0

get_palette(file) ==
  LET max == get_block_palette_max(file)
      named(id) == {i \in DOMAIN file.palette :
                      file.palette[i].id = id /\ file.palette[i].name \in Known}
  IN [id \in 0..max |-> IF named(id) = {} THEN AIR_IDENTIFIER
                        ELSE file.palette[CHOOSE i \in named(id) : TRUE].name]

air_palette_index(file) ==
  LET airs == {i \in DOMAIN file.palette : file.palette[i].name = AIR_IDENTIFIER}
  IN IF airs = {} THEN 0 ELSE file.palette[CHOOSE i \in airs : TRUE].id

-------------------------------------------------------------------------------
is_out_of_bounds(file, at) == \E c \in 1..3 : at[c] < 0 \/ at[c] >= file.dimensions[c]
position_to_index(file, at) ==
  at[2] * file.dimensions[3] * file.dimensions[1] + at[3] * file.dimensions[1] + at[1]

(* A number the palette does not have ends the program while it loads. *)
Panic == "index out of bounds"
get_block_state_id(file, at) ==
  LET palette == get_palette(file)
      data == deserialize_var_int_array(file.data).integers
      index == position_to_index(file, at) + 1
      id == IF is_out_of_bounds(file, at) \/ index > Len(data) THEN air_palette_index(file)
            ELSE data[index]
  IN IF id \in DOMAIN palette THEN palette[id] ELSE Panic
===============================================================================
