-------------------------------- MODULE BitSet --------------------------------
(***************************************************************************)
(* A set of bits on the wire: as longs up to 26.2, as bytes, without those *)
(* that are zero at the end, since 26.3.  A long is the number its bits    *)
(* make, and the wire is a sequence of numbers.                            *)
(***************************************************************************)
EXTENDS Integers, Sequences, SequencesExt

CONSTANTS ByteBits, LongBytes  \* 8 and 8

LongBits == ByteBits * LongBytes
Long == 0 .. 2^LongBits - 1

Counted(seq) == <<Len(seq)>> \o seq

to_le_bytes(long) == [i \in 1..LongBytes |-> (long \div 2^(ByteBits * (i - 1))) % 2^ByteBits]
from_le_bytes(bytes) == FoldRight(LAMBDA byte, above : byte + above * 2^ByteBits, bytes, 0)

WithoutZeros(bytes) ==
  LET last == SelectLastInSeq(bytes, LAMBDA byte : byte # 0)
  IN SubSeq(bytes, 1, last)

encode(longs, asBytes) ==
  Counted(IF asBytes THEN WithoutZeros(FlattenSeq([k \in DOMAIN longs |-> to_le_bytes(longs[k])]))
          ELSE longs)

(* A count that is not that of a sequence, or one of bytes that are not    *)
(* all there, is an error; the last long may be short.                     *)
NoBitSet == [error |-> TRUE, longs |-> <<>>]
decode(wire, asBytes) ==
  IF wire = <<>> \/ wire[1] < 0 \/ wire[1] > Len(wire) - 1 THEN NoBitSet
  ELSE LET body == SubSeq(wire, 2, 1 + wire[1])
           end(k) == IF LongBytes * k < Len(body) THEN LongBytes * k ELSE Len(body)
           long(k) == from_le_bytes(SubSeq(body, LongBytes * (k - 1) + 1, end(k)))
       IN [error |-> FALSE,
           longs |-> IF asBytes THEN [k \in 1 .. (Len(body) + LongBytes - 1) \div LongBytes |-> long(k)]
                     ELSE body]
===============================================================================
