------------------------------- MODULE StdMap -------------------------------
(***************************************************************************)
(* std::map as the code uses it: a function whose domain is the set of     *)
(* keys that find() finds.                                                 *)
(***************************************************************************)

\* A map with no keys.
EmptyMap == [k \in {} |-> k]

\* m[k] = v, inserting k when it is absent.
Insert(m, k, v) == [x \in DOMAIN m \cup {k} |-> IF x = k THEN v ELSE m[x]]

\* m.erase(k), which leaves a map without k alone.
Erase(m, k) == [x \in DOMAIN m \ {k} |-> m[x]]

\* The maps from keys of K to values of V.
MapOf(K, V) == UNION {[D -> V] : D \in SUBSET K}

\* Every binding of m is a binding of n.
SubMap(m, n) ==
    /\ DOMAIN m \subseteq DOMAIN n
    /\ \A x \in DOMAIN m : m[x] = n[x]
=============================================================================
