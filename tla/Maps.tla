-------------------------------- MODULE Maps --------------------------------
(***************************************************************************)
(* Hash maps as functions on a finite set of keys.                         *)
(***************************************************************************)
EmptyMap == [k \in {} |-> k]

(* HashMap::insert: adds the key or replaces its value.                    *)
Put(f, key, value) ==
    [k \in DOMAIN f \cup {key} |-> IF k = key THEN value ELSE f[k]]

(* HashMap::remove / retain: the map without the keys of S.                *)
Drop(f, S) == [k \in DOMAIN f \ S |-> f[k]]
=============================================================================
