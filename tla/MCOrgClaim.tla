----------------------------- MODULE MCOrgClaim -----------------------------
(***************************************************************************)
(* A scoped token with quota 1 and an admin token, the scoped token's own  *)
(* org and two free slugs, two racing claims.                              *)
(***************************************************************************)
EXTENDS OrgClaim, TLC

CONSTANTS c1, c2, ci, admin, home, acme, beta

MCScope == (ci :> home) @@ (admin :> NoScope)

=============================================================================
