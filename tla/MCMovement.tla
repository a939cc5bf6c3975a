---------------------------- MODULE MCMovement ---------------------------
(***************************************************************************)
(* Observers and heights to check Movement with: modern clients follow     *)
(* every unit.  Beside it the functions that keep no state, of which a     *)
(* behaviour computes one; part says which of the two it is.               *)
(***************************************************************************)
EXTENDS Movement

CONSTANTS a, b

Modern == [o \in Observer |-> 1]
BelowZero == -2

VARIABLES part, input

CONSTANTS sign, reset, white, red, bold, italic, letter, d1, d2, d3, d4, Auto, Filler, Empty, Paper
Functional == INSTANCE MCAlgorithms

MCInit ==
  \/ part = "movement" /\ Init /\ input = Functional!Begin("VarInt")
  \/ part = "algorithms" /\ Init /\ present = {} /\ Functional!Init

MCNext ==
  /\ UNCHANGED part
  /\ \/ part = "movement" /\ Next /\ UNCHANGED input
     \/ part = "algorithms" /\ Functional!Next /\ UNCHANGED vars

MCSpec == MCInit /\ [][MCNext]_<<part, input, vars>> /\ FallingFairness

(* What one side writes is what the other side reads.                      *)
PacketsAreUnderstood == Functional!PacketsAreUnderstood

(* Texts reach the screen as they are meant.                               *)
TextsAreShown == Functional!TextsAreShown

(* Commands and menu entries that are offered do what they say.            *)
OffersAreKept == Functional!OffersAreKept

(* A client shows the blocks and the light of the chunks it is sent.       *)
ChunksAreShown == Functional!ChunksAreShown

(* The world that is loaded is the one in the file, lit by its lamps.      *)
WorldIsLoaded == Functional!WorldIsLoaded
==========================================================================
