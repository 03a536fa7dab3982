--------------------------- MODULE MCPublisherKeys ---------------------------
(***************************************************************************)
(* Two racing PUTs over three key ids with room for two.                   *)
(***************************************************************************)
EXTENDS PublisherKeys, TLC

CONSTANTS p1, p2, k1, k2, k3, m1, m2

\* Every list of one or two keys.  k1 is contested, so it comes with either
\* material; k2 may be retired; k3 comes in one form only.
Key(k, m, state) == [id |-> k, material |-> m, state |-> state]
Catalogue ==
    {Key(k1, m, state) : m \in Materials, state \in {"active", "revoked"}}
    \cup {Key(k2, m1, state) : state \in KeyStates} \cup {Key(k3, m1, "active")}
MCSubmissions ==
    {<<a>> : a \in Catalogue} \cup {<<a, b>> : a, b \in Catalogue}

\* Lists of a client that names each key once.
DistinctSubmissions ==
    {list \in MCSubmissions : \A k \in KeyIds : ~Doubled(list, k)}

Symmetry == Permutations({p1, p2})

=============================================================================
