------------------------------ MODULE OrgClaim ------------------------------
(***************************************************************************)
(* Claiming an org namespace: src/routes/orgs.rs.                          *)
(*                                                                         *)
(* "At most K orgs per token" cannot be a database constraint, so the      *)
(* count and the insert must be one critical section.  claim_org nests two *)
(* locks: an outer fiducia lease that is allowed to fail open, and inside  *)
(* it a Postgres advisory lock that lives as long as the transaction.      *)
(* Slugs are protected by a unique index only.                             *)
(*                                                                         *)
(* One element of Claims is one HTTP request.  A client that retries is    *)
(* another element.  Orgs are never deleted by this server.                *)
(***************************************************************************)
EXTENDS Integers, FiniteSets

CONSTANTS
    Claims,             \* claim requests
    Tokens,             \* registry token rows
    Slugs,              \* org slugs
    Scope,              \* Scope[t]: the slug token t is scoped to, or NoScope
    NoScope,            \* the NULL org_id of an admin token
    max_orgs_per_token, \* AppState::max_orgs_per_token
    Operator,           \* owner of an org row the CLI created (NULL token)
    None                \* no holder, no row, no value

ASSUME ScopeAssumption == Scope \in [Tokens -> Slugs \cup {NoScope}]
ASSUME SlugsAssumption == IsFiniteSet(Slugs)
ASSUME QuotaAssumption == max_orgs_per_token \in Nat
ASSUME SentinelAssumption ==
    /\ None \notin Claims \cup Tokens \cup Slugs
    /\ Operator \notin Tokens \cup {None}
    /\ NoScope \notin Slugs

VARIABLES
    pc,       \* where each request is
    token,    \* the authenticated token of each request
    slug,     \* the requested slug
    org,      \* slug -> created_by_token of the row, None without a row
    lease,    \* token -> the claim holding the fiducia lease
    advisory, \* token -> the claim holding pg_advisory_xact_lock
    pending,  \* claim -> slug it has inserted and not yet committed
    response  \* what the client was told

vars == <<pc, token, slug, org, lease, advisory, pending, response>>

\* Answers a handler can give; "rejected" is a bad token or a bad slug,
\* "dropped" a request whose future went away.
Responses == {"created", "exists", "org_taken", "org_quota_exceeded",
              "rejected", "error", "dropped", "waiting"}

Steps == {"idle", "lease", "begin", "count", "insert", "commit",
          "audit", "done"}

\* Steps between BEGIN and COMMIT: the advisory lock is held here.
InTransaction == {"count", "insert", "commit"}

\* A token can only be scoped to an org that exists: create_token made both.
Init ==
    /\ pc = [c \in Claims |-> "idle"]
    /\ token = [c \in Claims |-> None]
    /\ slug = [c \in Claims |-> None]
    /\ org = [s \in Slugs |-> IF \E t \in Tokens : Scope[t] = s
                              THEN Operator ELSE None]
    /\ lease = [t \in Tokens |-> None]
    /\ advisory = [t \in Tokens |-> None]
    /\ pending = [c \in Claims |-> None]
    /\ response = [c \in Claims |-> "waiting"]

\* The orgs a token has claimed: count(CreatedByToken = token.id).
ClaimedBy(t) == {s \in Slugs : org[s] = t}

\* The request returns.  release_fiducia_guard gives back a lease still held;
\* when that call fails the TTL is the backstop.
Finish(c, answer) ==
    /\ pc' = [pc EXCEPT ![c] = "done"]
    /\ response' = [response EXCEPT ![c] = answer]
    /\ \/ lease' = [t \in Tokens |-> IF lease[t] = c THEN None ELSE lease[t]]
       \/ UNCHANGED lease

\* Mutant: a session-scoped advisory lock, which no rollback releases.
RollbackKeepsLock(c) ==
    /\ pending' = [pending EXCEPT ![c] = None]
    /\ UNCHANGED advisory

\* ROLLBACK, explicit or by dropping the transaction: the advisory lock and
\* the uncommitted row go away together.
Rollback(c) ==
    /\ advisory' = [t \in Tokens |-> IF advisory[t] = c THEN None
                                                        ELSE advisory[t]]
    /\ pending' = [pending EXCEPT ![c] = None]

(***************************************************************************)
(* require_token and the slug syntax, which may turn the request away,     *)
(* then the unlocked look at an existing org.                              *)
(***************************************************************************)
claim_org(c) ==
    /\ pc[c] = "idle"
    /\ \E t \in Tokens, s \in Slugs :
          /\ token' = [token EXCEPT ![c] = t]
          /\ slug' = [slug EXCEPT ![c] = s]
          /\ \/ /\ org[s] # None
                /\ Finish(c, IF Scope[t] = s THEN "exists" ELSE "org_taken")
             \/ /\ org[s] = None
                /\ pc' = [pc EXCEPT ![c] = "lease"]
                /\ UNCHANGED <<response, lease>>
             \/ Finish(c, "rejected")
    /\ UNCHANGED <<org, advisory, pending>>

(***************************************************************************)
(* fiducia_org_claim_guard: take the lease, or carry on without it when    *)
(* the service is absent, down, or slower than max_wait.                   *)
(***************************************************************************)
fiducia_org_claim_guard(c) ==
    /\ pc[c] = "lease"
    /\ \/ /\ lease[token[c]] = None
          /\ lease' = [lease EXCEPT ![token[c]] = c]
       \/ UNCHANGED lease
    /\ pc' = [pc EXCEPT ![c] = "begin"]
    /\ UNCHANGED <<token, slug, org, advisory, pending, response>>

\* The lease TTL runs out while its holder is still working.
LeaseExpires(t) ==
    /\ lease[t] # None
    /\ lease' = [lease EXCEPT ![t] = None]
    /\ UNCHANGED <<pc, token, slug, org, advisory, pending, response>>

\* Mutant: the advisory lock is not taken.
BeginWithoutLock(c) ==
    /\ pc[c] = "begin"
    /\ advisory' = [advisory EXCEPT ![token[c]] = c]
    /\ pc' = [pc EXCEPT ![c] = "count"]
    /\ UNCHANGED <<token, slug, org, lease, pending, response>>

\* BEGIN; SELECT pg_advisory_xact_lock(...): blocks while another holds it.
BeginSerialized(c) ==
    /\ pc[c] = "begin"
    /\ advisory[token[c]] = None
    /\ advisory' = [advisory EXCEPT ![token[c]] = c]
    /\ pc' = [pc EXCEPT ![c] = "count"]
    /\ UNCHANGED <<token, slug, org, lease, pending, response>>

\* The quota check; admin tokens are exempt.  The count is a statement of its
\* own, so READ COMMITTED lets it see every claim committed before the lock.
CountClaims(c) ==
    /\ pc[c] = "count"
    /\ IF Scope[token[c]] # NoScope
          /\ Cardinality(ClaimedBy(token[c])) >= max_orgs_per_token
       THEN /\ Finish(c, "org_quota_exceeded")
            /\ Rollback(c)
       ELSE /\ pc' = [pc EXCEPT ![c] = "insert"]
            /\ UNCHANGED <<lease, response, advisory, pending>>
    /\ UNCHANGED <<token, slug, org>>

\* Mutant: the insert ignores the unique index on slug.
UpsertOrg(c) ==
    /\ pc[c] = "insert"
    /\ pending' = [pending EXCEPT ![c] = slug[c]]
    /\ pc' = [pc EXCEPT ![c] = "commit"]
    /\ UNCHANGED <<token, slug, org, lease, advisory, response>>

(***************************************************************************)
(* INSERT INTO org.  The unique index makes a second inserter of the slug  *)
(* wait for the first transaction, and fail if that one has committed.     *)
(***************************************************************************)
InsertOrg(c) ==
    /\ pc[c] = "insert"
    /\ \A d \in Claims \ {c} : pending[d] # slug[c]
    /\ IF org[slug[c]] # None
       THEN /\ Finish(c, "org_taken")
            /\ Rollback(c)
       ELSE /\ pending' = [pending EXCEPT ![c] = slug[c]]
            /\ pc' = [pc EXCEPT ![c] = "commit"]
            /\ UNCHANGED <<lease, response, advisory>>
    /\ UNCHANGED <<token, slug, org>>

\* COMMIT makes the row visible and releases the advisory lock.
CommitClaim(c) ==
    /\ pc[c] = "commit"
    /\ org' = [org EXCEPT ![slug[c]] = token[c]]
    /\ Rollback(c)
    /\ pc' = [pc EXCEPT ![c] = "audit"]
    /\ UNCHANGED <<token, slug, lease, response>>

\* audit::record swallows its own failures, then the client is answered.
AuditClaim(c) ==
    /\ pc[c] = "audit"
    /\ Finish(c, "created")
    /\ UNCHANGED <<token, slug, org, advisory, pending>>

\* Any database statement can fail; `?` returns and the transaction is
\* dropped.  A failed COMMIT may nevertheless have been applied.
DatabaseError(c) ==
    /\ pc[c] \in {"begin"} \cup InTransaction
    /\ Finish(c, "error")
    /\ Rollback(c)
    /\ \/ UNCHANGED org
       \/ /\ pc[c] = "commit"
          /\ org' = [org EXCEPT ![slug[c]] = token[c]]
    /\ UNCHANGED <<token, slug>>

\* The request future is dropped (client gone, 30 s timeout, crash).  Postgres
\* rolls back unless the COMMIT it was sent went through; nobody releases the
\* lease, which a blocking acquire may even obtain after the drop.
Drop(c) ==
    /\ pc[c] \notin {"idle", "done"}
    /\ pc' = [pc EXCEPT ![c] = "done"]
    /\ response' = [response EXCEPT ![c] = "dropped"]
    /\ Rollback(c)
    /\ \/ UNCHANGED org
       \/ /\ pc[c] = "commit"
          /\ org' = [org EXCEPT ![slug[c]] = token[c]]
    /\ \/ UNCHANGED lease
       \/ /\ pc[c] = "lease"
          /\ lease[token[c]] = None
          /\ lease' = [lease EXCEPT ![token[c]] = c]
    /\ UNCHANGED <<token, slug>>

\* `create-token --org`: find_or_create_org inserts with no created_by_token.
find_or_create_org(s) ==
    /\ org[s] = None
    /\ \A c \in Claims : pending[c] # s
    /\ org' = [org EXCEPT ![s] = Operator]
    /\ UNCHANGED <<pc, token, slug, lease, advisory, pending, response>>

ClaimStep(c) ==
    \/ claim_org(c)
    \/ fiducia_org_claim_guard(c)
    \/ BeginSerialized(c)
    \/ CountClaims(c)
    \/ InsertOrg(c)
    \/ CommitClaim(c)
    \/ AuditClaim(c)
    \/ DatabaseError(c)
    \/ Drop(c)

Next ==
    \/ \E c \in Claims : ClaimStep(c)
    \/ \E t \in Tokens : LeaseExpires(t)
    \/ \E s \in Slugs : find_or_create_org(s)

Spec == Init /\ [][Next]_vars

(***************************************************************************)
(* The runtime keeps polling a request that is ready, and Postgres grants  *)
(* a free lock: each request's next step is weakly fair.  Failures and     *)
(* drops are not promised.                                                 *)
(***************************************************************************)
Progress(c) ==
    \/ fiducia_org_claim_guard(c)
    \/ BeginSerialized(c)
    \/ CountClaims(c)
    \/ InsertOrg(c)
    \/ CommitClaim(c)
    \/ AuditClaim(c)

FairSpec == Spec /\ \A c \in Claims : WF_vars(Progress(c))

-----------------------------------------------------------------------------
(***************************************************************************)
(* Properties                                                              *)
(***************************************************************************)

TypeOK ==
    /\ pc \in [Claims -> Steps]
    /\ token \in [Claims -> Tokens \cup {None}]
    /\ slug \in [Claims -> Slugs \cup {None}]
    /\ org \in [Slugs -> Tokens \cup {None, Operator}]
    /\ lease \in [Tokens -> Claims \cup {None}]
    /\ advisory \in [Tokens -> Claims \cup {None}]
    /\ pending \in [Claims -> Slugs \cup {None}]
    /\ response \in [Claims -> Responses]

\* However many claims of a scoped token race, with or without the fiducia
\* lease, the token never owns more namespaces than its quota.
QuotaHolds ==
    \A t \in Tokens :
        Scope[t] # NoScope => Cardinality(ClaimedBy(t)) <= max_orgs_per_token

\* A namespace, once taken, never changes hands: a racing claim of the slug
\* loses on the unique index instead of overwriting the row.
NamespaceIsNeverReassigned ==
    [][\A s \in Slugs : org[s] # None => org'[s] = org[s]]_vars

\* A client told "created" owns the namespace, and no two clients are told so
\* for one slug.
CreatedMeansOwned ==
    /\ \A c \in Claims : response[c] = "created" => org[slug[c]] = token[c]
    /\ \A c, d \in Claims :
          /\ response[c] = "created"
          /\ response[d] = "created"
          /\ slug[c] = slug[d]
          => c = d

\* Every accepted claim is answered: no path out of the transaction leaves the
\* advisory lock behind for the next claim of the same token to wait on.
EveryClaimIsAnswered ==
    \A c \in Claims : (pc[c] # "idle") ~> (pc[c] = "done")

(***************************************************************************)
(* The inductive invariant.  The lock is held by the claims inside the     *)
(* transaction, so past the count a scoped token is still strictly below   *)
(* its quota; and the slug of an uncommitted insert is nobody else's.      *)
(***************************************************************************)
RequestIsKnown ==
    \A c \in Claims :
        IF pc[c] = "idle" THEN response[c] = "waiting"
                          ELSE token[c] \in Tokens /\ slug[c] \in Slugs

LockDiscipline ==
    \A c \in Claims : pc[c] \in InTransaction => advisory[token[c]] = c

StillBelowQuota ==
    \A c \in Claims :
        /\ pc[c] \in {"insert", "commit"}
        /\ Scope[token[c]] # NoScope
        => Cardinality(ClaimedBy(token[c])) < max_orgs_per_token

PendingIsFree ==
    \A c \in Claims :
        IF pc[c] = "commit"
        THEN pending[c] = slug[c] /\ org[slug[c]] = None
        ELSE pending[c] = None

OneInserterPerSlug ==
    \A c, d \in Claims :
        pending[c] # None /\ pending[c] = pending[d] => c = d

\* A claim whose COMMIT succeeded, answered or about to be.
Winner(c) == pc[c] = "audit" \/ response[c] = "created"

OneWinnerPerSlug ==
    /\ \A c \in Claims : Winner(c) => org[slug[c]] = token[c]
    /\ \A c, d \in Claims : Winner(c) /\ Winner(d) /\ slug[c] = slug[d] => c = d

\* What every reachable state satisfies, and every step preserves.
IInv ==
    /\ TypeOK
    /\ RequestIsKnown
    /\ LockDiscipline
    /\ PendingIsFree
    /\ OneInserterPerSlug
    /\ StillBelowQuota
    /\ OneWinnerPerSlug
    /\ QuotaHolds

=============================================================================
