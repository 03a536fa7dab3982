---------------------------- MODULE MCRateLimiter ----------------------------
(***************************************************************************)
(* Two threads and the sweeper, three credentials and room for two; a      *)
(* spent bucket takes longer to refill than to become idle.                *)
(***************************************************************************)
EXTENDS RateLimiter, TLC

CONSTANTS a, b, c, t1, t2

Symmetry == Permutations({a, b, c}) \cup Permutations({t1, t2})

=============================================================================
