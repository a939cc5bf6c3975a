--------------------------- MODULE ChunkPacketCache ---------------------------
(***************************************************************************)
(* The chunk packets that players who join share (server/                  *)
(* chunk_packet_cache.rs, prepare_chunk_packets): a map from keys to cells *)
(* behind an RwLock, and in each cell a OnceLock, filled by the first task *)
(* that wants it while the others wait outside of the map's lock.          *)
(***************************************************************************)
EXTENDS Integers, Sequences, FiniteSets, PartialFunctions

CONSTANTS
  Joiner,      \* the tasks of players who join
  Version,     \* the versions their clients may have
  BiomeOf,     \* the number of the plains in each
  Position,    \* of the spawn: x and z, in blocks
  ChunkSize,   \* 16
  Unencodable  \* versions for which a packet does not encode

VARIABLES
  packets,    \* the map: keys to cells
  cells,      \* the cells: empty, filled by a task, or with a result
  version,    \* per task: its client's protocol version
  at,         \* per task: where it is
  found,      \* per task: the cell it has a reference to
  answer,     \* per task: what get_or_encode returned
  encoded     \* the keys that were encoded, in order
vars == <<packets, cells, version, at, found, answer, encoded>>

Empty == [is |-> "empty"]
Filling(task) == [is |-> "filling", by |-> task]
Full(result) == [is |-> "full", result |-> result]
NoAnswer == [is |-> "none"]

(* world_position_to_chunk_position *)
CenterChunk == <<Position[1] \div ChunkSize, Position[2] \div ChunkSize>>

(* ChunkPacketCacheKey::new; the dimension and the view distance are the   *)
(* server's, and the numbers of the dimension follow from the version.     *)
Key(v) == [protocol_version |-> v, center_chunk |-> CenterChunk, biome_id |-> BiomeOf[v]]

(* encode_packets: of a world that does not change                         *)
Encoded(v) ==
  IF v \in Unencodable THEN [is |-> "error"]
  ELSE [is |-> "packets", of |-> v, around |-> CenterChunk, biome |-> BiomeOf[v]]

Init ==
  /\ packets = <<>> /\ cells = <<>> /\ encoded = <<>>
  /\ version \in [Joiner -> Version]
  /\ at = [t \in Joiner |-> "lookup"]
  /\ found = [t \in Joiner |-> 0]
  /\ answer = [t \in Joiner |-> NoAnswer]

Goto(t, label) == at' = [at EXCEPT ![t] = label]

(* get_or_create_cell: under the read lock                                 *)
Lookup(t) ==
  /\ at[t] = "lookup"
  /\ IF Key(version[t]) \in DOMAIN packets
     THEN found' = [found EXCEPT ![t] = packets[Key(version[t])]] /\ Goto(t, "cell")
     ELSE Goto(t, "insert") /\ UNCHANGED found
  /\ UNCHANGED <<packets, cells, version, answer, encoded>>

(* As Insert, with a cell of its own whatever is there.                    *)
Insert_Again(t) ==
  /\ at[t] = "insert" /\ Goto(t, "cell")
  /\ cells' = Append(cells, Empty)
  /\ packets' = Put(packets, Key(version[t]), Len(cells) + 1)
  /\ found' = [found EXCEPT ![t] = Len(cells) + 1]
  /\ UNCHANGED <<version, answer, encoded>>

(* ... and under the write lock: entry(key).or_default()                   *)
Insert(t) ==
  /\ at[t] = "insert" /\ Goto(t, "cell")
  /\ IF Key(version[t]) \in DOMAIN packets
     THEN found' = [found EXCEPT ![t] = packets[Key(version[t])]] /\ UNCHANGED <<packets, cells>>
     ELSE /\ cells' = Append(cells, Empty)
          /\ packets' = Put(packets, Key(version[t]), Len(cells) + 1)
          /\ found' = [found EXCEPT ![t] = Len(cells) + 1]
  /\ UNCHANGED <<version, answer, encoded>>

(* OnceLock::get_or_init: fills the cell, reads it, or waits               *)
Enter(t) ==
  /\ at[t] = "cell" /\ cells[found[t]].is # "filling"
  /\ IF cells[found[t]] = Empty
     THEN cells' = [cells EXCEPT ![found[t]] = Filling(t)] /\ Goto(t, "encoding") /\ UNCHANGED answer
     ELSE answer' = [answer EXCEPT ![t] = cells[found[t]].result] /\ Goto(t, "done") /\ UNCHANGED cells
  /\ UNCHANGED <<packets, version, found, encoded>>

(* Errors stay in the cell as packets do.                                  *)
Encode(t) ==
  /\ at[t] = "encoding" /\ Goto(t, "done")
  /\ cells' = [cells EXCEPT ![found[t]] = Full(Encoded(version[t]))]
  /\ answer' = [answer EXCEPT ![t] = Encoded(version[t])]
  /\ encoded' = Append(encoded, Key(version[t]))
  /\ UNCHANGED <<packets, version, found>>

(* A panic while chunks are built: the task ends, and the cell is empty.   *)
Panic(t) ==
  /\ at[t] = "encoding" /\ Goto(t, "dead")
  /\ cells' = [cells EXCEPT ![found[t]] = Empty]
  /\ UNCHANGED <<packets, version, found, answer, encoded>>

Step(t) == Lookup(t) \/ Insert(t) \/ Enter(t) \/ Encode(t) \/ Panic(t)
Next == \E t \in Joiner : Step(t)

Spec == Init /\ [][Next]_vars

-------------------------------------------------------------------------------
(* A key is encoded once however its tasks interleave, panics aside, and   *)
(* every task gets what encoding for its own client gives.  Nobody waits for  *)
(* a cell that nobody fills.                                               *)
ChunksAreEncodedOnce ==
  /\ \A i, j \in DOMAIN encoded : encoded[i] = encoded[j] => i = j
  /\ \A t \in Joiner : at[t] = "done" => answer[t] = Encoded(version[t])
  /\ \A c \in DOMAIN cells : cells[c].is = "filling" => at[cells[c].by] = "encoding" /\ found[cells[c].by] = c
===============================================================================
