----------------------------- MODULE LobbyRegistry -----------------------------
(***************************************************************************)
(* What the lobby registry promises its callers, without any index: the    *)
(* players online, each under an id that is issued once.  A caller who     *)
(* holds an id reaches the player it was issued to, or nobody.             *)
(*                                                                         *)
(* LobbyState implements this module operation by operation.  Only the     *)
(* last session id and the last entity id can ever be issued twice: the    *)
(* allocators saturate there.                                              *)
(***************************************************************************)
EXTENDS PartialFunctions

CONSTANTS UUID, SessionIdMax, EntityIdMax

VARIABLES
  online,  \* UUID -> session record
  floor    \* a lower bound of the session ids still to be issued

registryVars == <<online, floor>>

Init == online = EmptyMap /\ floor = 1

Holds(u, s) == u \in DOMAIN online /\ online[u].session_id = s
Embodies(u, e) == u \in DOMAIN online /\ online[u].entity_id = e

(* The player appears under ids nobody else holds, taking the place of an  *)
(* earlier session of the same account.                                    *)
Join(u) ==
  /\ u \in DOMAIN online'
  /\ LET x == online'[u]
     IN /\ online' = Put(online, u, x)
        /\ x.session_id >= floor
        /\ \A v \in DOMAIN online \ {u} :
             /\ Holds(v, x.session_id) => x.session_id = SessionIdMax
             /\ Embodies(v, x.entity_id) => x.entity_id = EntityIdMax
        /\ floor' > x.session_id \/ x.session_id = SessionIdMax
  /\ floor' >= floor

Leave(u) ==
  /\ u \in DOMAIN online
  /\ online' = Without(online, {u})
  /\ UNCHANGED floor

(* One player's record changes; who it is and its ids do not. *)
Update(u) ==
  /\ u \in DOMAIN online
  /\ DOMAIN online' = DOMAIN online
  /\ LET x == online'[u]
     IN /\ online' = [online EXCEPT ![u] = x]
        /\ x.session_id = online[u].session_id
        /\ x.entity_id = online[u].entity_id
        /\ x.username = online[u].username
  /\ UNCHANGED floor

LeaveBySession(s) == \E u \in UUID : Holds(u, s) /\ Leave(u)
LeaveByEntity(e) == \E u \in UUID : Embodies(u, e) /\ Leave(u)
UpdateBySession(s) == \E u \in UUID : Holds(u, s) /\ Update(u)
UpdateByEntity(e) == \E u \in UUID : Embodies(u, e) /\ Update(u)

Next == \E u \in UUID : Join(u) \/ Leave(u) \/ Update(u)

Spec == Init /\ [][Next]_registryVars
================================================================================
