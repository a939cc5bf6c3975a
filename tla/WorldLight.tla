------------------------------ MODULE WorldLight ------------------------------
(***************************************************************************)
(* World::calculate_global_light: the light of the whole schematic, once at*)
(* start.  Sky light falls straight down to the first block that is not    *)
(* transparent and block light starts where it is emitted; then each       *)
(* spreads, one less for every block, to its transparent neighbours.  The  *)
(* world is the schematic in as many whole sections as it takes; a volume  *)
(* is a function of the index of a block.                                  *)
(***************************************************************************)
EXTENDS Integers, Sequences, SequencesExt, FiniteSetsExt

CONSTANTS
  Size,      \* 16 blocks along a side of a section
  FullLight  \* 15

DivCeil(n, d) == (n + d - 1) \div d
InChunks(dimensions) == [c \in 1..3 |-> DivCeil(dimensions[c], Size)]
World(dimensions) == [c \in 1..3 |-> Size * InChunks(dimensions)[c]]

get_light_index(x, y, z, world) == y * world[1] * world[3] + z * world[1] + x
Indices(world) == 0 .. world[1] * world[2] * world[3] - 1
Position(i, world) == <<i % world[1], i \div (world[1] * world[3]), (i \div world[1]) % world[3]>>

(* What the schematic says of a block: air surrounds it. *)
Air == [transparent |-> TRUE, emits |-> 0]
BlockAt(schematic, at) ==
  IF at \in DOMAIN schematic.blocks THEN schematic.blocks[at] ELSE Air

Transparent(schematic, world) ==
  [i \in Indices(world) |-> BlockAt(schematic, Position(i, world)).transparent]

SkySources(schematic, world) ==
  LET transparent == Transparent(schematic, world)
  IN [i \in Indices(world) |->
        LET at == Position(i, world)
        IN IF \A y \in at[2] .. world[2] - 1 : transparent[get_light_index(at[1], y, at[3], world)]
           THEN FullLight ELSE 0]

BlockSources(schematic, world) ==
  [i \in Indices(world) |-> BlockAt(schematic, Position(i, world)).emits]

-------------------------------------------------------------------------------
(* propagate_light_starlight: a queue of the blocks whose light changed,   *)
(* each with the directions it did not come from.                          *)
Directions == 0..5
Opposite(d) == IF d % 2 = 0 THEN d + 1 ELSE d - 1

Offset(d, world) ==
  LET stride == <<1, world[1] * world[3], world[1]>>[(d \div 2) + 1]
  IN IF d % 2 = 0 THEN -stride ELSE stride
InBounds_Linear(i, d, world) ==  \* mutant: light leaves a row for the next one
  i + Offset(d, world) \in Indices(world)
InBounds(i, d, world) ==
  LET c == (d \div 2) + 1
      at == Position(i, world)[c]
  IN IF d % 2 = 0 THEN at > 0 ELSE at < world[c] - 1

(* One block of the queue tells its neighbours, one direction after another. *)
Tell(state, entry, transparent, world) ==
  LET target == entry.level - 1
      tell(s, d) ==
        LET n == entry.at + Offset(d, world)
        IN IF d \notin entry.check \/ ~InBounds(entry.at, d, world) THEN s
           ELSE IF ~transparent[n] \/ s.light[n] >= target THEN s
           ELSE [light |-> [s.light EXCEPT ![n] = target],
                 queue |-> IF target > 1
                           THEN Append(s.queue, [at |-> n, level |-> target,
                                                 check |-> Directions \ {Opposite(d)}])
                           ELSE s.queue]
  IN FoldLeft(tell, state, <<0, 1, 2, 3, 4, 5>>)

RECURSIVE Spread(_, _, _)
Spread(state, transparent, world) ==
  IF state.queue = <<>> THEN state.light
  ELSE Spread(Tell([state EXCEPT !.queue = Tail(@)], Head(state.queue), transparent, world),
              transparent, world)

propagate_light_starlight(sources, transparent, world) ==
  LET source(i) == [at |-> i, level |-> sources[i], check |-> Directions]
      all == [n \in 1 .. world[1] * world[2] * world[3] |-> source(n - 1)]
  IN Spread([light |-> sources, queue |-> SelectSeq(all, LAMBDA entry : entry.level > 1)],
            transparent, world)

-------------------------------------------------------------------------------
(* convert_to_chunk_sections: two blocks share a byte, the first of them   *)
(* its lower half.                                                         *)
SectionLight(light, chunk, world) ==
  LET level(n) == light[get_light_index(chunk[1] * Size + (n % Size), chunk[2] * Size + (n \div (Size * Size)),
                                        chunk[3] * Size + ((n \div Size) % Size), world)]
  IN [byte \in 0 .. ((Size * Size * Size) \div 2) - 1 |->
        level(2 * byte) + (FullLight + 1) * level(2 * byte + 1)]

calculate_global_light(schematic) ==
  LET world == World(schematic.dimensions)
      transparent == Transparent(schematic, world)
      sky == propagate_light_starlight(SkySources(schematic, world), transparent, world)
      block == propagate_light_starlight(BlockSources(schematic, world), transparent, world)
      chunks == [c \in 1..3 |-> 0 .. InChunks(schematic.dimensions)[c] - 1]
  IN [chunk \in chunks[1] \X chunks[2] \X chunks[3] |->
        [sky |-> SectionLight(sky, chunk, world), block |-> SectionLight(block, chunk, world)]]

-------------------------------------------------------------------------------
(* The client: the light of a block in the arrays of its section. *)
ClientLight(array, at) ==
  LET n == (at[2] % Size) * Size * Size + (at[3] % Size) * Size + (at[1] % Size)
      byte == array[n \div 2]
  IN IF n % 2 = 0 THEN byte % (FullLight + 1) ELSE byte \div (FullLight + 1)
===============================================================================
