-------------------------------- MODULE Maps --------------------------------
(* Go maps as functions *)

(* m[k] = v *)
MapSet(m, k, v) == [x \in DOMAIN m \cup {k} |-> IF x = k THEN v ELSE m[x]]

(* A map with one entry *)
MapOf(k, v) == [x \in {k} |-> v]

(* m[k] = v for every entry of n *)
MapMerge(n, m) == [x \in DOMAIN m \cup DOMAIN n |-> IF x \in DOMAIN n THEN n[x] ELSE m[x]]

=============================================================================
