---------------------------------- MODULE Nbt ----------------------------------
(***************************************************************************)
(* pico_nbt: values and the bytes NbtWriter makes of them, which NbtReader *)
(* and the clients read; the values that serde makes of data, with their   *)
(* way back; those of the JSON of the game's reports; and SNBT, which logs *)
(* show.                                                                   *)
(*                                                                         *)
(* A value is a pair of its tag and its payload: a number, a sequence of   *)
(* numbers, characters or values, or for a compound of pairs of a name and *)
(* a value, in the order in which they were put in.  The wire is a         *)
(* sequence with a place for every number and character.                   *)
(***************************************************************************)
EXTENDS Integers, Sequences, SequencesExt, FiniteSets, TLC

CONSTANTS
  ByteMax, ShortMax, IntMax,     \* the greatest numbers of the types
  Single,                        \* the fractions a float can hold
  Digits, Letters, Marks         \* characters: 0 to 9, a to z, and _ - . +

TByte == 1
TShort == 2
TInt == 3
TLong == 4
TFloat == 5
TDouble == 6
TByteArray == 7
TString == 8
TList == 9
TCompound == 10
TIntArray == 11
TLongArray == 12

Tag(v) == v[1]
Of(v) == v[2]
Numbers == TByte..TDouble
Arrays == {TByteArray, TIntArray, TLongArray}

SetOfTags(list) == {Tag(list[i]) : i \in DOMAIN list}
Heterogeneous(list) == Cardinality(SetOfTags(list)) > 1

-------------------------------------------------------------------------------
(* NbtWriter::write_value, which fails for mixed lists unless they may be  *)
(* written as lists of compounds.                                          *)
RECURSIVE Writable(_, _)
Writable(v, dynamic_lists) ==
  CASE Tag(v) = TList -> /\ Heterogeneous(Of(v)) => dynamic_lists
                        /\ \A i \in DOMAIN Of(v) : Writable(Of(v)[i], dynamic_lists)
    [] Tag(v) = TCompound -> \A i \in DOMAIN Of(v) : Writable(Of(v)[i][2], dynamic_lists)
    [] OTHER -> TRUE

Prefixed(seq) == <<Len(seq)>> \o seq

RECURSIVE Bytes(_)
Bytes(v) ==
  LET entry(name, x) == <<Tag(x)>> \o Prefixed(name) \o Bytes(x)
      items == Of(v)
  IN CASE Tag(v) \in Numbers -> <<Of(v)>>
       [] Tag(v) \in Arrays \cup {TString} -> Prefixed(Of(v))
       [] Tag(v) = TList /\ ~Heterogeneous(items) ->
            <<IF items = <<>> THEN 0 ELSE Tag(items[1]), Len(items)>>
            \o FlattenSeq([i \in DOMAIN items |-> Bytes(items[i])])
       [] Tag(v) = TList /\ Heterogeneous(items) ->
            <<TCompound, Len(items)>>
            \o FlattenSeq([i \in DOMAIN items |-> entry(<<>>, items[i]) \o <<0>>])
       [] Tag(v) = TCompound ->
            FlattenSeq([i \in DOMAIN items |-> entry(items[i][1], items[i][2])]) \o <<0>>

(* write_root and read_root. *)
Root(name, v, nameless) == <<Tag(v)>> \o (IF nameless THEN <<>> ELSE Prefixed(name)) \o Bytes(v)

(* NbtReader::read_value: a value with the given tag, and what follows. *)
After(bytes, n) == SubSeq(bytes, n + 1, Len(bytes))
RECURSIVE Read(_, _), ReadItems(_, _, _), ReadEntries(_)
Read(tag, bytes) ==
  CASE tag \in Numbers -> [value |-> <<tag, Head(bytes)>>, rest |-> Tail(bytes)]
    [] tag \in Arrays \cup {TString} -> [value |-> <<tag, SubSeq(bytes, 2, Head(bytes) + 1)>>,
                                      rest |-> After(bytes, Head(bytes) + 1)]
    [] tag = TList -> LET read == ReadItems(bytes[1], bytes[2], After(bytes, 2))
                     IN [value |-> <<TList, read.items>>, rest |-> read.rest]
    [] tag = TCompound -> LET read == ReadEntries(bytes)
                         IN [value |-> <<TCompound, read.items>>, rest |-> read.rest]
ReadItems(tag, n, bytes) ==
  IF n = 0 THEN [items |-> <<>>, rest |-> bytes]
  ELSE LET first == Read(tag, bytes)
           others == ReadItems(tag, n - 1, first.rest)
       IN [items |-> <<first.value>> \o others.items, rest |-> others.rest]
ReadEntries(bytes) ==
  IF Head(bytes) = 0 THEN [items |-> <<>>, rest |-> Tail(bytes)]
  ELSE LET name == SubSeq(bytes, 3, bytes[2] + 2)
           first == Read(bytes[1], After(bytes, bytes[2] + 2))
           others == ReadEntries(first.rest)
       IN [items |-> <<<<name, first.value>>>> \o others.items, rest |-> others.rest]
ReadRoot(bytes, nameless) ==
  LET start == IF nameless THEN 1 ELSE bytes[2] + 2
      read == Read(bytes[1], After(bytes, start))
  IN [name |-> IF nameless THEN <<>> ELSE SubSeq(bytes, 3, start), value |-> read.value, rest |-> read.rest]

(* A client that knows mixed lists takes the compounds of a single nameless*)
(* value in a list for that value.                                         *)
RECURSIVE Unwrapped(_)
Unwrapped(v) ==
  LET item(x) == IF Tag(x) = TCompound /\ Len(Of(x)) = 1 /\ Of(x)[1][1] = <<>> THEN Of(x)[1][2] ELSE x
  IN CASE Tag(v) = TList -> <<TList, [i \in DOMAIN Of(v) |-> Unwrapped(item(Of(v)[i]))]>>
       [] Tag(v) = TCompound -> <<TCompound, [i \in DOMAIN Of(v) |-> <<Of(v)[i][1], Unwrapped(Of(v)[i][2])>>]>>
       [] OTHER -> v

-------------------------------------------------------------------------------
(* to_value: the value of data, in a sequence that is empty for an error.  *)
(* Data is a tuple of its kind and what the kind has.  A Value is data     *)
(* too, and its arrays of numbers come out as lists.                       *)
RECURSIVE OfValue(_)
OfValue(v) ==
  LET list(tag) == <<TList, [i \in DOMAIN Of(v) |-> <<tag, Of(v)[i]>>]>>
  IN CASE Tag(v) = TIntArray -> list(TInt)
       [] Tag(v) = TLongArray -> list(TLong)
       [] Tag(v) = TList -> <<TList, [i \in DOMAIN Of(v) |-> OfValue(Of(v)[i])]>>
       [] Tag(v) = TCompound -> <<TCompound, [i \in DOMAIN Of(v) |-> <<Of(v)[i][1], OfValue(Of(v)[i][2])>>]>>
       [] OTHER -> v

Named(name, values) == [i \in DOMAIN values |-> <<TCompound, <<<<name, values[i]>>>>>>]
RECURSIVE Serialize(_)
Serialize(data) ==
  LET kind == data[1]
      parts(seq) == [i \in DOMAIN seq |-> Serialize(seq[i])]
      all(seq) == IF \E i \in DOMAIN seq : parts(seq)[i] = <<>> THEN <<>>
                  ELSE <<[i \in DOMAIN seq |-> parts(seq)[i][1]]>>
      list(seq) == [i \in DOMAIN all(seq) |-> <<TList, all(seq)[i]>>]
      fields(names, seq) ==
        [i \in DOMAIN all(seq) |-> <<TCompound, [k \in DOMAIN names |-> <<names[k], all(seq)[i][k]>>]>>]
  IN CASE kind = "bool" -> <<<<TByte, IF data[2] THEN 1 ELSE 0>>>>
       [] kind = "i32" -> <<<<TInt, data[2]>>>>
       [] kind = "str" -> <<<<TString, data[2]>>>>
       [] kind \in {"unsigned", "none"} -> <<>>
       [] kind = "some" -> Serialize(data[2])
       [] kind = "value" -> <<OfValue(data[2])>>
       [] kind = "seq" -> list(data[2])
       [] kind = "struct" -> fields(data[2], data[3])
       [] kind = "unit variant" -> <<<<TString, data[2]>>>>
       [] kind = "newtype variant" -> Named(data[2], Serialize(data[3]))
       [] kind = "tuple variant" -> Named(data[2], list(data[3]))
       [] kind = "struct variant" -> Named(data[2], fields(data[3], data[4]))

(* from_value: a value is read as this data by something of its type.  The *)
(* variant of an enum is a text or the one key of a compound.              *)
RECURSIVE Reads(_, _)
Reads(v, data) ==
  LET kind == data[1]
      items(x, seq) == Tag(x) = TList /\ Len(Of(x)) = Len(seq) /\ \A i \in DOMAIN seq : Reads(Of(x)[i], seq[i])
      has(x, name, part) == \E i \in DOMAIN Of(x) : Of(x)[i][1] = name /\ Reads(Of(x)[i][2], part)
      fields(x, names, seq) == Tag(x) = TCompound /\ \A k \in DOMAIN names : has(x, names[k], seq[k])
      variant(name) == Tag(v) = TCompound /\ Len(Of(v)) = 1 /\ Of(v)[1][1] = name
      inner == Of(v)[1][2]
  IN CASE kind = "bool" -> Tag(v) = TByte /\ (Of(v) # 0) = data[2]
       [] kind = "i32" -> Tag(v) \in TByte..TLong /\ Of(v) = data[2]
       [] kind \in {"str", "unit variant"} -> Tag(v) = TString /\ Of(v) = data[2]
       [] kind = "some" -> Reads(v, data[2])
       [] kind = "value" -> v = OfValue(data[2])
       [] kind = "seq" -> items(v, data[2])
       [] kind = "struct" -> fields(v, data[2], data[3])
       [] kind = "newtype variant" -> variant(data[2]) /\ Reads(inner, data[3])
       [] kind = "tuple variant" -> variant(data[2]) /\ items(inner, data[3])
       [] kind = "struct variant" -> variant(data[2]) /\ fields(inner, data[3], data[4])

-------------------------------------------------------------------------------
(* json_to_nbt: a number has the least type that can hold it, an array of  *)
(* whole numbers is an array.                                              *)
Fits(n, max) == n \in -max - 1 .. max
WholeTag(n) ==
  CASE Fits(n, ByteMax) -> TByte
    [] ~Fits(n, ByteMax) /\ Fits(n, ShortMax) -> TShort
    [] ~Fits(n, ShortMax) /\ Fits(n, IntMax) -> TInt
    [] OTHER -> TLong

RECURSIVE json_to_nbt(_)
json_to_nbt(json) ==
  LET kind == json[1]
      parts(seq) == [i \in DOMAIN seq |-> json_to_nbt(seq[i])]
      fails(seq) == \E i \in DOMAIN seq : parts(seq)[i] = <<>>
      whole == \A i \in DOMAIN json[2] : json[2][i][1] = "whole"
      numbers == [i \in DOMAIN json[2] |-> json[2][i][2]]
      allFit(max) == \A i \in DOMAIN numbers : Fits(numbers[i], max)
      arrayTag == IF allFit(ByteMax) THEN TByteArray ELSE IF allFit(IntMax) THEN TIntArray ELSE TLongArray
  IN CASE kind = "null" -> <<>>
       [] kind = "bool" -> <<<<TByte, IF json[2] THEN 1 ELSE 0>>>>
       [] kind = "whole" -> <<<<WholeTag(json[2]), json[2]>>>>
       [] kind = "fraction" -> <<<<IF json[2] \in Single THEN TFloat ELSE TDouble, json[2]>>>>
       [] kind = "string" -> <<<<TString, json[2]>>>>
       [] kind = "array" -> IF json[2] # <<>> /\ whole THEN <<<<arrayTag, numbers>>>>
                            ELSE IF fails(json[2]) THEN <<>>
                            ELSE <<<<TList, [i \in DOMAIN json[2] |-> parts(json[2])[i][1]]>>>>
       [] kind = "object" -> IF fails(json[3]) THEN <<>>
                             ELSE <<<<TCompound, [i \in DOMAIN json[2] |-> <<json[2][i], parts(json[3])[i][1]>>]>>>>

-------------------------------------------------------------------------------
(* to_snbt: a sequence of characters; the space that lays it out is left   *)
(* out.  A double has no letter that tells it from an integer.             *)
Plain == Digits \cup Letters \cup Marks
needs_quoting(s) ==
  s = <<>> \/ s[1] \in Digits \cup (Marks \ {"_"}) \/ \E i \in DOMAIN s : s[i] \notin Plain
choose_quote_char(s) ==
  IF "\"" \in ToSet(s) /\ "'" \notin ToSet(s) THEN "'" ELSE "\""
escape_string(s, quote) ==
  FlattenSeq([i \in DOMAIN s |-> IF s[i] \in {"\\", quote} THEN <<"\\", s[i]>> ELSE <<s[i]>>])
format_snbt_string(s) ==
  LET quote == choose_quote_char(s)
  IN IF needs_quoting(s) THEN <<quote>> \o escape_string(s, quote) \o <<quote>> ELSE s

Suffix == [t \in TByte..TLongArray |->
             CASE t \in {TByte, TByteArray} -> <<"b">> [] t = TShort -> <<"s">>
               [] t \in {TLong, TLongArray} -> <<"L">> [] t = TFloat -> <<"f">> [] OTHER -> <<>>]
Opening == [t \in Arrays |-> CASE t = TByteArray -> <<"B", ";">> [] t = TIntArray -> <<"I", ";">>
                               [] t = TLongArray -> <<"L", ";">>]
Separated(texts) ==
  FlattenSeq([i \in DOMAIN texts |-> IF i = 1 THEN texts[i] ELSE <<",">> \o texts[i]])

RECURSIVE Snbt(_)
Snbt(v) ==
  LET items == Of(v)
      number(n) == <<ToString(n)>> \o Suffix[Tag(v)]
  IN CASE Tag(v) \in Numbers -> number(items)
       [] Tag(v) = TString -> format_snbt_string(items)
       [] Tag(v) \in Arrays ->
            <<"[">> \o Opening[Tag(v)] \o Separated([i \in DOMAIN items |-> number(items[i])]) \o <<"]">>
       [] Tag(v) = TList -> <<"[">> \o Separated([i \in DOMAIN items |-> Snbt(items[i])]) \o <<"]">>
       [] Tag(v) = TCompound ->
            <<"{">> \o Separated([i \in DOMAIN items |->
                         format_snbt_string(items[i][1]) \o <<":">> \o Snbt(items[i][2])]) \o <<"}">>
===============================================================================
