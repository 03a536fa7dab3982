--------------------------- MODULE MCPublicIntake ---------------------------
(***************************************************************************)
(* Two deliveries of up to two signed requests during a rollout of a new   *)
(* consent text.                                                           *)
(***************************************************************************)
EXTENDS PublicIntake, TLC

CONSTANTS r1, r2, r3, i1, i2, lower, upper, other, garbage, k1, old, new

MCMailbox == [m \in Spellings |-> CASE m = garbage -> None
                                     [] m = other -> other
                                     [] OTHER -> lower]

MCConfigs == {[signing |-> k1, revision |-> old, marketing |-> old],
              [signing |-> k1, revision |-> new, marketing |-> old], None}

Document(kind, id, revision, marketing, mail, time) ==
    [kind |-> kind, request_id |-> id, source |-> source_host_wire(kind),
     contact |-> TRUE, revision |-> revision, marketing |-> marketing,
     mail |-> mail, consented_at |-> time, valid |-> TRUE]

\* A registration with marketing, another for the new text under the same key,
\* and a quote from the first mailbox, respelled, under a key of its own.
MCBodies ==
    {Document("pre_interest", i1, old, old, upper, 0),
     Document("pre_interest", i1, new, None, other, 1),
     Document("quote_request", i2, old, None, lower, 0)}

Symmetry == Permutations({r1, r2, r3})

=============================================================================
