--------------------------- MODULE MCPublication ---------------------------
(***************************************************************************)
(* Three requests against one package.  The uploads cover the races the    *)
(* pipeline is exposed to: the same release sent twice with different      *)
(* package metadata, other bytes for the same version, a second version    *)
(* that shares its bytes with the first (and whose tag is no alias path),  *)
(* bytes whose key already holds something else, a client that declares    *)
(* another digest, and tokens that may not publish.                        *)
(***************************************************************************)
EXTENDS Publication, TLC

CONSTANTS r1, r2, r3, ci, reader, stranger, acme, other, v1, v2, a, b,
          tgz, zip, t1, dots, m1, m2

MCScope == (ci :> acme) @@ (reader :> acme) @@ (stranger :> other)
MCRoleOf == (ci :> "publisher") @@ (reader :> "reader") @@ (stranger :> "owner")

Send(t, v, declared, d, f, g, m) ==
    [token |-> t, version |-> v, declared |-> declared, sha |-> d,
     format |-> f, tag |-> g, meta |-> m]

MCUploads ==
    {Send(ci, v1, a, a, tgz, t1, m1), Send(ci, v1, a, a, tgz, t1, m2),
     Send(ci, v1, b, b, tgz, t1, m1), Send(ci, v2, a, a, tgz, dots, m2),
     Send(ci, v2, b, b, zip, t1, m1), Send(ci, v2, a, b, tgz, t1, m1),
     Send(reader, v2, b, b, tgz, t1, m1), Send(stranger, v2, b, b, tgz, t1, m1)}

MCCorrupted == {<<b, zip>>}

\* The package is new, or one publish short of the largest index sequence.
MCSequences == {MaxSequence - 1}

Symmetry == Permutations(Requests)

=============================================================================
