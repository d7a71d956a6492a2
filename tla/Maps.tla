-------------------------------- MODULE Maps --------------------------------
(* Go maps as functions whose domain is the set of keys present.            *)
EmptyMap == [x \in {} |-> x]

(* m[k] = v                                                                 *)
Put(m, k, v) == [x \in DOMAIN m \cup {k} |-> IF x = k THEN v ELSE m[x]]

(* delete(m, k) for every k of ks; a key that is not there is not missed.   *)
Drop(m, ks) == [x \in DOMAIN m \ ks |-> m[x]]

(* m maps some of the keys of K to values of V.                             *)
IsMap(m, K, V) == /\ DOMAIN m \subseteq K
                  /\ m \in [DOMAIN m -> V]
=============================================================================
