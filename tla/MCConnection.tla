--------------------------- MODULE MCConnection --------------------------
(***************************************************************************)
(* Versions and settings to check Connection with.                          *)
(***************************************************************************)
EXTENDS Connection

FewKinds == {47, 758, 764, 765, 766, 777}

Lobby ==
  [lobby |-> TRUE, forwarding |-> "none", compression |-> TRUE, features |-> TRUE,
   replyToStatus |-> TRUE, acceptTransfers |-> TRUE]
BehindVelocity ==
  [lobby |-> FALSE, forwarding |-> "modern", compression |-> FALSE, features |-> FALSE,
   replyToStatus |-> FALSE, acceptTransfers |-> FALSE]

BehindBungeeCord == [Lobby EXCEPT !.forwarding = "legacy"]

LobbyAndLimbo == {Lobby, BehindVelocity, BehindBungeeCord}
OnlyBungeeCord == {BehindBungeeCord}
==========================================================================
