--------------------------- MODULE PartialFunctions ---------------------------
(***************************************************************************)
(* The two updates of a Rust HashMap the lobby uses, on functions whose    *)
(* domain is the set of keys present, and the type of such a map.          *)
(***************************************************************************)
EXTENDS Integers, Functions

(* f maps some of the keys K to values in V. *)
IsMap(f, K, V) == DOMAIN f \in SUBSET K /\ f \in [DOMAIN f -> V]

(* HashMap::insert: the new value wins over the one stored under the key. *)
Put(f, k, v) == [x \in DOMAIN f \cup {k} |-> IF x = k THEN v ELSE f[x]]

(* HashMap::remove of every key in ks; absent keys are ignored. *)
Without(f, ks) == Restrict(f, DOMAIN f \ ks)

EmptyMap == [x \in {} |-> x]
===============================================================================
