------------------------------ MODULE MCTokens ------------------------------
EXTENDS Tokens, TLC

CONSTANTS a, b, c

\* Two revocations beside a migrating replica; a creation and a revocation
\* beside one that does not migrate; the migrate job beside both kinds; three
\* processes that queue on the canonical lock.
MCDeployments ==
    { a :> "automigrate" @@ b :> "revoke" @@ c :> "revoke",
      a :> "serve" @@ b :> "revoke" @@ c :> "create",
      a :> "automigrate" @@ b :> "migrate" @@ c :> "revoke",
      a :> "serve" @@ b :> "migrate" @@ c :> "revoke",
      a :> "automigrate" @@ b :> "migrate" @@ c :> "automigrate" }

=============================================================================
