---------------------------- MODULE MCSignedIndex ----------------------------
(***************************************************************************)
(* Two requests of any kind: PUTs of keys, uploads of an index, publishes. *)
(***************************************************************************)
EXTENDS MCPublisherKeys, SignedIndex

CONSTANTS u1, u2, b1

By(k, m) == [id |-> k, material |-> m]

\* Unsigned, signed by k1, and signed for k1 by another key and for k2.
MCSignatureSets == {{}, {By(k1, m1)}, {By(k1, m2), By(k2, m1)}}

IndexSymmetry == Permutations({p1, p2}) \cup Permutations({u1, u2})

=============================================================================
