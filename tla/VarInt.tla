-------------------------------- MODULE VarInt --------------------------------
(***************************************************************************)
(* The variable-length integers of pico_binutils: VarInt (32 bits, at most *)
(* 5 bytes) and VarLong (64 bits, at most 10).  Both work alike, so the    *)
(* widths are constants; a byte is a segment of SegmentBits and a continue *)
(* bit, 7 and 1 in the code.                                               *)
(***************************************************************************)
EXTENDS Integers, Sequences, FiniteSetsExt

CONSTANTS
  SegmentBits,  \* bits of value in a byte
  Width,        \* bits of the decoded integer
  MaxBytes      \* bytes the reader accepts

(* The segments of MaxBytes bytes hold the integer.                        *)
Fits ==
  /\ SegmentBits \in Nat \ {0} /\ Width \in Nat \ {0} /\ MaxBytes \in Nat
  /\ Width <= SegmentBits * MaxBytes
ASSUME VarIntAssumption == Fits

CONTINUE_BIT == 2^SegmentBits
Byte == 0 .. 2 * CONTINUE_BIT - 1
Signed == -(2^(Width - 1)) .. 2^(Width - 1) - 1

(* The casts between the signed value and the unsigned word of the loops.  *)
AsUnsigned(value) == value % 2^Width
AsSigned(word) == IF word >= 2^(Width - 1) THEN word - 2^Width ELSE word

(* write_to: segments from the low end, all but the last with the continue *)
(* bit; the shift is logical, so a negative value takes MaxBytes.          *)
Encode(value) ==
  LET bytes[v \in 0 .. 2^Width - 1] ==
        IF v < CONTINUE_BIT THEN <<v>>
        ELSE <<(v % CONTINUE_BIT) + CONTINUE_BIT>> \o bytes[v \div CONTINUE_BIT]
  IN bytes[AsUnsigned(value)]

(* read: bytes are consumed up to the first without the continue bit.  The *)
(* bits of the last byte beyond Width are shifted out.  One byte more than *)
(* MaxBytes is read before the value is found to be too big.               *)
Value(bytes) ==
  LET word[i \in 0 .. Len(bytes)] ==
        IF i = 0 THEN 0 ELSE word[i - 1] + (bytes[i] % CONTINUE_BIT) * 2^(SegmentBits * (i - 1))
  IN AsSigned(word[Len(bytes)] % 2^Width)

Eof == [error |-> "UnexpectedEof", read |-> 0, value |-> 0]
TooBig == [error |-> "VarIntTooBig", read |-> MaxBytes + 1, value |-> 0]

Decode(bytes) ==
  LET last == {i \in DOMAIN bytes : bytes[i] < CONTINUE_BIT}
  IN IF last # {} /\ Min(last) <= MaxBytes
       THEN [error |-> "none", read |-> Min(last), value |-> Value(SubSeq(bytes, 1, Min(last)))]
     ELSE IF Len(bytes) > MaxBytes THEN TooBig ELSE Eof
===============================================================================
