-------------------------- MODULE MCArtifactStore --------------------------
(***************************************************************************)
(* Concurrent puts of two contents under two keys; a is longer than b.     *)
(***************************************************************************)
EXTENDS ArtifactStore, TLC

CONSTANTS p1, p2, p3, a, b

MCSize == (a :> 2) @@ (b :> 1) @@ (Foreign :> 1)

Symmetry == Permutations(Puts)

=============================================================================
