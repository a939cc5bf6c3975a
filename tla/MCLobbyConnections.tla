-------------------------- MODULE MCLobbyConnections --------------------------
(* Instances of LobbyConnections. *)
EXTENDS LobbyConnections

CONSTANTS c1, c2, c3

TwoConnections == {c1, c2}
ThreeConnections == {c1, c2, c3}

\* Everybody is somebody else: the connections stand for their accounts.
OwnAccount == [c \in Conn |-> c]

\* The account of c1 connects again, as c2, at any time.
FirstTwoShare == [c \in Conn |-> IF c = c2 THEN c1 ELSE c]

OneName == {"steve"}
OnePosition == {"spawn"}
NoChatMode == {}

Symmetric == Permutations(Conn)
===============================================================================
