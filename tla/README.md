# TLA+ models of the zed registry API server

The server is the write side of a package registry: an axum process over a
PostgreSQL database, an object store (R2/S3, a local directory, or memory) and a
second, canonical database plane owned by `zed-orm-core`. Several replicas may run
against the same database and bucket. Almost nothing is kept in process memory,
so the concurrency that matters is between requests, at every `await`: two
handlers interleave at each SQL statement and each object-store call, any of
which may fail, and any handler may be dropped in the middle by the 30 s timeout
layer, a client that hangs up or a process that dies.

Paths below are relative to the repository (`src/audit.rs`). `PROJECT.json` maps
every definition to the lines it models.

## Inventory

| Component | State it keeps | Operations | What makes it correct | Hard parts |
|---|---|---|---|---|
| Publication (`routes/publish.rs`, `routes/yank.rs`) | package, version rows; blobs; alias objects; canonical rows; audit rows | `PUT` a version, retry, yank and unyank | versions are immutable, every row has its bytes, the planes agree, a success is true | check-then-insert race; three stores and no common transaction; lost COMMIT answers |
| Org claim (`routes/orgs.rs`, `tokens.rs`) | org rows, fiducia lease, advisory lock | claim a namespace; CLI creates one | quota per token; a namespace has one owner for ever | count-then-insert; lease that fails open or expires |
| Artifact store (`storage.rs`) | objects by key, staging files | `put_verified`, reads, probe, usage | write once; success means stored; readers never see partial bytes | late PUTs, races to create, crash while staging, capacity |
| Audit log (`audit.rs`, `routes/audit.rs`) | one hash chain per org | append after a mutation, page, verify | never forks, never loses or doubles a row, verifies when honest and not when edited | optimistic retry, ambiguous commit, rows older than the chain |
| Publisher keys (`routes/keys.rs`, `signing.rs`) | key rows per org | replace the key set, read it, verify a signature | keys are never dropped or rebound, so verified signatures keep their key | comparison against a set read outside the transaction |
| Signed index (`routes/mirrors.rs`) | document and counter per package | upload, serve; publish bumps the counter | consumers are not rolled back | comparison against a row read earlier; `u64` in an `i64` column |
| Rate limiter (`ratelimit.rs`) | bucket map, clock watermark | charge a request, sweep | no credential exceeds its bucket; bounded memory; refusals are deserved | eviction against refill, clock read order |
| RBAC (`rbac.rs`) | none | two authorization rules | who may publish and manage | unknown roles |
| Tokens and authentication (`tokens.rs`, `auth.rs`, `shared_auth.rs`) | token rows | create, revoke, bearer lookup, introspection | revoked and expired tokens carry no authority; a delegated token opens one surface | commands killed half-way; two readers of one verdict |
| Startup (`server.rs`, `main.rs`) | schema, one process each | connect with retry, migrate, serve | every start ends | deadlines of three loops; concurrent migrations |
| Account API (`routes/account.rs`, `account_router.rs`) | none of its own; writes through `zed-orm-core` | orgs, projects, packages, invitations, settings | rows are shown to members only; a patch changes what it names | reads spread over several statements; dropped handlers |
| Graph reads (`routes/graph.rs`) | none; what shared caches keep | negotiate, load, authorize, answer | private graphs look absent and are never cached | visibility changes between the steps |
| Graph exports (`routes/graph_exports`) | none | eight representations | what is written reads back | table order, escapes, length boundaries |
| Public intake (`public_intake.rs`) | submissions by idempotency key | authenticate the edge, normalise, write | stored only if signed, fresh and consented; retry is safe | clock skew, key reuse, rollout of new texts |
| Registry host (`registry_host.rs`) | none | admit or refuse host, path and method | the boundary agrees with the routers | two route tables |
| Binary artifacts (`binary_artifact.rs`) | none | verify an archive against its descriptor | it unpacks to what the descriptor says on every host | collisions, spellings, limits |
| Artifact reads (`routes/artifacts.rs`, `files.rs`) | none | serve a digest or one file of it | private bytes are concealed from outsiders | a digest shared by public and private packages |
| Package admission (`package_intake.rs`) | none | decide from evidence | bound to every piece of evidence | evidence that is replaced |
| Not modelled | | storage console, edge fallback, tag lookup, listing and search, configuration, metrics, CI tool | | see the end |

Interactions: publish, yank and claim all end in `audit::record`; publish reads
the publisher keys, bumps the counter the signed index relies on, and stores its
bytes through `put_verified`; every write passes the limiter, the bearer lookup
and RBAC first; token commands migrate the schema replicas are starting on; graph
reads authorize against the memberships the account API changes. External
services, modelled only by how the code uses them: PostgreSQL (READ COMMITTED,
unique indexes, row and advisory locks), the S3 API with `If-None-Match`, fiducia
leases, `zed-orm-core`, Shared Auth, the GitHub tag lookup.

The code paths that a test would hardly reach are listed under `hazards` in
`PROJECT.json`, each with the properties that cover it.

## Modules

| Module | Models | Used by |
|---|---|---|
| `Rbac` | role parsing, `authorize_publish`, `authorize_manage` | `Publication` |
| `OrgClaim` | `claim_org`, its two nested locks, `find_or_create_org` | `MCOrgClaim`, `OrgClaimProofs` |
| `Publication` | the publish pipeline, one action per await; yank | `MCPublication`, `PublicationProofs` |
| `ImmutableStore` | abstract: a write-once object store | `ArtifactStore` |
| `ArtifactStore` | `put_verified` on memory, local directory and S3 | `MCArtifactStore`, `ArtifactStoreProofs` |
| `AuditChain` | `record`, `append_chained`, the backfill migration | `AuditVerify`, `AuditChainProofs` |
| `AuditVerify` | `verify_chain`, the verify and paging handlers | its own run, `AuditChainProofs` |
| `PublisherKeys` | `put_keys`, statement by statement | `MCPublisherKeys`, `SignedIndex` |
| `SignedIndex` | `PublisherKeys` with `verify_any`, `put_signed_index`, and a publish's signature check and bump | `MCSignedIndex`, `SignedIndexProofs` |
| `TokenBucket` | abstract: one unforgetful bucket per credential | `RateLimiter` |
| `RateLimiter` | `check`, `sweep`, the bucket cap | `MCRateLimiter`, `RequestProofs` |
| `Startup` | the processes of a deployment: connect, migrate, serve | `Tokens` |
| `Tokens` | `Startup` with the token commands and `require_token` | `MCTokens`, `AccessProofs` |
| `PublicIntake` | the intake handler: frame, authenticate, normalise, write | `MCPublicIntake`, `PublicIntakeProofs` |
| `Account` | the account handlers, query by query | `GraphReads` |
| `GraphReads` | `Account` with the declared-graph handler and shared caches | `MCAccount`, `AccessProofs` |
| `RegistryHost` | `decide`, its route table and the routers behind it | `Decisions` |
| `SharedAuth` | introspection verdicts, the two surfaces, `get_artifact` | `Decisions` |
| `BinaryArtifact` | acceptance of an archive | `Decisions` |
| `PackageIntake` | `evaluate` | `Decisions` |
| `Decisions` | the decisions of the four modules above, as steps | `MCDecisions`, `RequestProofs` |
| `GraphNegotiation` | Accept and `format=` | `MCDecisions` |
| `GraphExports` | the writers | `MCDecisions` |

Every request is an element of a constant set and carries its own program
counter; a client's retry is another element. Each action is what the handler
does between two awaits. A conditional statement whose result the handler tests
(a unique-index violation, a 412, an `AlreadyExists`) is one action with one
disjunct per outcome.

**Publication.** `row`, `package` are the committed legacy tables, `blob`,
`ghAlias`, `pkgAlias` the object store, `canonical` the second plane, `audited`
the versions with an audit row. `Admit` is everything up to the first write:
token, RBAC, digest, archive and tag checks; what they decide is whether
an upload is admissible, given by the record of the request. `lock` is the
package row, held from `UpsertPackage` to the end of the transaction because the
conflicting `INSERT ... ON CONFLICT DO UPDATE` takes it. Losing the version race
is `InsertVersion`'s unique-violation disjunct, followed by `RereadVersion`.
A COMMIT may take effect and still be reported as an error. The store appears as
the write-once store that `ArtifactStore` is shown to implement; PUTs that arrive
after their call ended are in `ArtifactStore` and not repeated here. The package row
may be there from before, with any counter; the bump saturates at `MaxSequence` and
is at least 1.

**OrgClaim.** The fiducia lease is advisory in the literal sense: the guard may
be granted, refused, time out or expire at any moment, and the claim goes on
regardless. The quota rests on the Postgres advisory lock alone, which is why
the lease may do anything in the model.

**ArtifactStore.** `backend` is the variant of the enum and never changes.
Length, digest, content type and metadata of an object are one value. S3 writes
that were given up stay in `inflight` and land at any later time or never. What the
memory backend has retained is counted as the cardinality of its byte cells (object,
offset), which is the sum of the lengths.

**AuditChain.** The log is a set of rows. SHA-256 is collision free: a digest is
the tuple it covers. `advisory_lock`, chosen at the start, distinguishes Postgres
from the backends where only the unique index protects the chain. `Legacy` rows
are those the migration numbered without hashing. `AuditVerify` adds the readers: a
page is the newest rows below the cursor, `verify_chain` walks the oldest rows of the
chain, each compared with its predecessor; both are stated by position, as what the
queries' ORDER BY and LIMIT select.

**PublisherKeys and SignedIndex.** `row` is the committed key table, `written` the
uncommitted writes of each transaction, `existing` the set compared with the
submission. READ COMMITTED is explicit: finds see committed rows, writes wait for
the writer of the row. A signature is the key id it claims and the material it
was made with; `verify_any` and `Resolves` read the committed table at two
different moments. `verify_any` is satisfied by one member of a list and the whole
list is stored, so `vouched`, which only the properties read, keeps which signatures
have ever verified against an enrolled key when their list was accepted. `MAX_I64` bounds the counter as the column does, and documents
carry sequences beyond it.

**RateLimiter.** Real-valued tokens are whole units: `Unit` units pay for one
request, `Rate` units arrive per tick, so fractional refills (half a token per
tick in the run) happen. Rounding of `f64` is not modelled.

**Startup and Tokens.** `command` says what each process is (a replica with or
without `AUTO_MIGRATE`, the migrate job, a token command), `schema` which of the two
migration batches are applied. The legacy batch plans and applies without a lock, so
its loser fails; the canonical batch runs under `zed-orm-core`'s advisory lock, for
which the others wait and which the holder's death gives back. How long a migration
statement takes is not modelled: under the lock a batch ends or its process dies. A
replica with `AUTO_MIGRATE=false` looks at no schema and serves on the one it finds,
old or new; nothing in the code or in the model prevents that. A
connection attempt is instantaneous in the model; in the code it is bounded by the
driver's own time limits, which add to the deadline and do not remove it. Only
serving processes answer bearer requests; `loaded` is when a request read its
token.

**PublicIntake.** `signed` holds what the edge signed; a delivery is any signed
request with possibly another path, key or body. Each delivery meets one replica's
environment. Digests and HMACs stand for what they cover. The write is
`zed-orm-core`'s, and the handler turns every `Ok` of it into the same 202: besides
an insert and an exact replay that is a mailbox already on file
(`docs/public-intake-api.md:53`), for which nothing is stored under the new key
(`KnownMailbox`; which mailboxes are known is left open).

**Account and GraphReads.** `Reads` lists the queries of each handler in order;
each is a step, and memberships and visibility change between them. `held`
collects the roles the caller had at some moment of the request, which is what a
reader of several statements can promise. The write rechecks membership in its own
transaction (external). `row` is what the handler loaded and answers from.

**Decisions.** The remaining modules are operators. `Decisions` takes one input from a
constant set and decides it once; the properties compare the decision with a
reference (the routers' own matching, the file tree an archive unpacks to) or with
the decisions on neighbouring inputs. `MCDecisions` gives bounded sets of inputs and
adds the graph's negotiation and writers, the latter against a reader for what was
written. The archive scan is stated entry by entry, in terms of the entries before
it, and its running total as the number of byte cells so far. A host is the sequence
of its labels, so `is_registry_host` is the code's prefix and suffix rule; a route
parameter is named for what its segment has to be. `get_artifact` has an input for
the data plane it meets: none, one of its queries failing, or all answering.

## Runs

| Run | Bounds | Checks |
|---|---|---|
| `org_claim` | 2 claims, 2 tokens (quota 1 and admin), 3 slugs; 20 k states | the invariant (quota, exclusive creation), permanence, every claim is answered |
| `publication` | 3 requests, 2 versions, 2 contents, 2 formats, 8 uploads, a corrupted object, a package with and without history, all faults; 861 k states | the invariant (no dangling artifact, agreeing planes, attribution, locks only inside transactions), truthful answers, aliases, a lagging release is reported to whoever sent it, immutability, package metadata |
| `publication_audit_gap` | 2 requests, canonical failures only | violation, see Findings |
| `artifact_store` | 3 puts, 2 keys, 2 contents, each backend; 72 k states | refinement of the write-once store, capacity, the store's invariant |
| `audit_log` | 3 calls with and without the advisory lock, 2 attempts, 1 legacy row, pages of 2, faults | one linked chain, at most once, no loss by contention, honest logs verify, edits are reported, exact paging, every call returns |
| `keys_and_index` | any 2 of 2 key updates, 2 index uploads and a signed publish; 3 keys, 2 materials, limit 2, `MAX_I64` 2; 498 k states | keys are permanent, the limit, verified signatures keep their key and every stored list has one, when the counter may fall |
| `publisher_keys_race` | 2 key updates, lists free of duplicates | violation, see Findings |
| `rate_limiter` | 2 threads and the sweeper, 3 credentials, room for 2, 5 ticks; 302 k states | refinement of the token bucket, deserved refusals |
| `tokens` | 3 processes in five deployments, 2 tokens, 1 request, clock to 3; 323 k states | every start ends, a reported revocation holds, stale authority, revocation times |
| `public_intake` | 2 deliveries of up to 2 signed requests, 3 documents, 3 environments, clock to 2; 2.1 M states | only signed, fresh, consented submissions; an acceptance is stored or of a known mailbox; safe retry |
| `account` | any of 13 operations beside a settings patch, 1 user, 2 roles, 2 texts; 1.7 M states | what an answer shows is covered by a role, patches, concealment of private graphs |
| `decisions` | about 120 k inputs of eight kinds; 240 k states | route tables, delegated tokens, private artifacts, archives, negotiation, writers, admission |

Why the bounds are enough. Every hazard is a race of two requests, or of two
with a third that finishes in between (an identical retry during a lost race, a
late PUT after a verified one); the runs have that many. Two versions are needed
because bytes are shared between them, two contents because a conflict needs a
different one, and a corrupted object because `put_verified` compares content. In
the limiter a spent bucket takes longer to refill than to become idle, and there
is one credential more than there is room for, so eviction, refusal and
re-admission all occur. `APPEND_ATTEMPTS` is 2 instead of 4 so that three calls
exhaust it. With `MAX_I64` 2 the counter saturates and documents overflow it. In
`tokens` the clock covers three retry loops one after the other, each with its
deadline. In `public_intake` both skews are 1 and the clock reaches 2, so fresh and
aged deliveries meet. In `account` one user suffices because handlers only compare
a user with itself; the other request is the patch because it is the only
read-modify-write. `update_user_settings`, the invitations and the
licence route have the shape of operations in the run and add only states. The
inputs of `decisions` are all neighbours, one or two fields away, of inputs that
are accepted. Symmetry is used only where nothing temporal beyond action
properties is checked. Runs may stop when every request has been served, so
deadlock is not an error in them.

Each property has a mutant of the code it watches (a dropped lock, an unchecked
insert, a rename in place of a link, or a similar slip) under which
TLC finds the property violated.

### Fairness

Weak fairness on the next step of each admitted request: the runtime polls a
ready future again and each statement completes, with whichever outcome. Nothing
is promised about arrivals, failures, drops or leases. Waiting for a lock is a
disabled action, so the holder's progress frees it. `AuditChain` adds strong
fairness for taking the org's lock, since Postgres queues waiters in order.
`Tokens` adds that the clock goes on. `publication` has no liveness property: the
row lock is held only between statements of a running transaction (`LockDiscipline`,
a part of its invariant), and every other step of a publish is always possible.

## Proofs

TLAPS proves, for every value of the constants that satisfies the assumptions
named in the modules:

* `OrgClaimProofs`: the invariant, the quota (`QuotaIsNeverExceeded`), exclusive
  creation, permanence of namespaces. `QuotaHolds` is not inductive: between the
  count and the commit a claim relies on nobody else adding a row for its token.
  `IInv` adds that the claim inside its transaction holds the token's advisory lock,
  that a counted claim is still below the quota, and that at most one uncommitted
  insert exists per slug. One INSERT raises the cardinality of the token's orgs by
  one (`CommitCounts`), which needs `Slugs` finite.
* `PublicationProofs`: the invariant and its consequences: no dangling artifact,
  agreement of the planes, truthful answers, attribution, immutability, and that
  package metadata changes only with a version. The strengthening says what a
  request holds between awaits: its object stays in the store from the put to the
  end of its transaction (nothing deletes), the transaction owns the package row,
  what it adopts is what is committed, and one publisher exists per version.
  `LagIsReported`: while the canonical plane lacks a release, the request that
  committed it is still on its way there or was not told success, and no request
  with the same release was told to stop retrying. Both halves are inductive beside
  `IInv` (`CommitterIsKnown`, `ConflictIsSettled`: a client told that its version
  exists was told so of a row with other facts, or of a release both planes have).
* `ArtifactStoreProofs`: the invariant, completeness, truthful success,
  immutability, and `Spec => ImplementsImmutableStore`. The mapping sends every
  intermediate step of a call to "pending"; linking a staged file and a late PUT map
  to the abstract `Appear`. `Capacity`: the memory backend never retains more than
  `max_bytes`. An object lands only if the retained bytes and its own fit, and its
  byte cells are apart from those of every other key, so one insertion adds exactly
  its length; a repeated put adds nothing.
* `AuditChainProofs`: the invariant, one linked chain, at most one row per call, a
  recorded call has its row and under the advisory lock none is turned away, append
  only. The chain's shape is not inductive by itself: `IInv` adds that a planned row
  is linked to a row still in the log (rows are never removed), that a row about to
  commit is alone at its position, and, under the lock, that the plan is still next.
  The readers change nothing (`ReaderIsHarmless`), so the chain's facts hold of what
  they see; the log stays finite, so it has an oldest and a newest row.
  `HonestLogs`: every log the appenders build verifies, whatever the retries, faults
  and legacy rows. `Tampering`: a chained row edited, deleted, rehashed or relinked
  is reported at the row and with the problem `verify_chain` documents, except at
  the end of the log, where the head hash moves. The rows below the edit are walked
  as before, and the first one that differs does not fit. `HeadPinsTheLog` is about
  any table of rows: one that verifies with the log's head hash says what the log
  says. Take the greatest position where the two disagree; the hash above it is the
  same in both and covers this row. `PagingExact`: following the cursor yields,
  newest first and once each, every matching row up to the newest one seen.
* `SignedIndexProofs`: a signature that was verified when its list was accepted
  resolves for ever, and every stored list has one (`SignaturesResolve`), keys are
  permanent, the limit is exceeded only by a stale read, the counter falls only when
  an upload was overtaken. Nothing locks the key table, so `IInv` says why the
  checks survive: a row is written by one transaction at a time, no uncommitted row
  rebinds a committed one, what a find returned is still there at the UPDATE, and a
  request submits every key it loaded (`KeysInv`). Hence a signature once checked
  resolves until it is stored. The cap counts distinct ids of a list, which is at
  most its length; the bump rests on the package row being held from the upsert to
  the commit.
* `RequestProofs`, first half (`RateLimiter`): the limiter refines the token bucket
  (`Refinement`), so in any window of `t` ticks, wherever it begins, a credential
  passes at most `(Capacity + t * Rate) / Unit` times (`WindowIsBounded`), and a
  refusal is deserved (`Refusals`). `IInv` says that one actor is inside the mutex
  and the time it read is not behind the watermark; without it a bucket could be
  refilled from the future. The mapping gives a credential without a bucket a full
  one, which is right because only idle buckets that have refilled are evicted. The
  window theorem sums the steps: what a credential received and still holds grows no
  faster than `Rate`.
* `RequestProofs`, second half (`Decisions`), for every set of inputs of the shapes
  the code parses. The invariant, `DecideInv`, is that the verdict is the code's
  decision on an input of its shape; each theorem is then about the operators.
  `Boundary`: what the registry host allows is no account route and reaches the
  machine route of that name, a method it refuses has no handler there, and a path
  that names a route, its parameters well formed, is refused only when that route is
  kept off the host. The two tables are compared entry by entry: each entry of the
  host's table stands for the router's route of its name (`EntryHasRoute`), no path
  belongs to two routes (`RoutesAreUnambiguous`), account routes differ in their
  first two segments, every route is listed or belongs to another host
  (`RoutesAreListed`), and what the router's parameters admit the table's guards
  match (`GuardedMatches`). `OneSurface`:
  no delegated token opens both surfaces (unless the deployment names the CLI as its
  web client), 403 is only for an active token and 503 only without a verdict. The
  introspection checks are a list whose first failing member answers
  (`FirstRefusalAnswers`), so an accepted verdict passed every one. `Concealment`:
  no outsider is served a private digest, whichever query fails, and while the
  queries answer it is, for an authenticated one, an unknown digest. `Unpacking`: an
  archive accepted as binary unpacks to the files its descriptor lists, byte for
  byte, no two on one path of any host, within the built-in ceiling; one accepted as
  source has no entry that unpacks as a descriptor. Two entries are kept apart by
  the scan of the later one (`ScanSeparates`), and the total is checked at the last
  file (`ScanBounds`). `AdmissionBound`: evidence that arrives late revises no
  decision (`LateEvidence`), and a package whose evidence is replaced by evidence
  about anything else is no longer admitted (`ReplacedEvidence`), case by case over
  the kinds of evidence.
* `AccessProofs`, first half (`Tokens`): a reported revocation holds, stale
  authority is in flight, revocation times. `IInv` adds that a match is an existing
  row which, if read as revoked, still is, that handled rows are revoked, and that
  an authorized request loaded its row before the expiry and before any report of
  its revocation.
* `AccessProofs`, second half (`Account`, `GraphReads`): an answer with rows is
  covered by a role its caller held (`ShownToMembers`: the premise is the answer, so
  a handler without its role check would break it), private graphs are concealed (`GraphConcealed`), fields a
  patch does not name change only by a stale read (`UnnamedFields`). `CallsInv`
  classifies a call as over, working, having shown rows, or reading a graph. A
  working handler has a suffix of its `Reads` to do (`ReadsOrder`: the row comes
  first, and no handler that reads roles writes); the roles it has read were held; a
  graph call past the checks has authority over its row; and `Current` says that
  `held` includes the memberships of this moment, which is what makes a role read
  now one that was held. What a call relies on survives when `held` grows
  (`MoreHeld`), so membership changes are one argument for all handlers (`Watched`).
* `PublicIntakeProofs`: only what the edge signed is stored, what was accepted is
  stored unless its mailbox was known, a retry is refused only when stale. The clock moves on between the checks and the
  write and after it, so `IInv` keeps with each row the signature, the time and the
  environment of the delivery that wrote it, and says of a delivery at its write
  that its verdict at its own time was in order.
* `PublicationProofs` also has `AliasesAreCopiesOrContested`, from a second
  inductive invariant, `AliasesAreUploads`: what lies at a guessable key was put
  there by an admitted request, whatever became of that request.

Assumptions on constants are the ones stated in the modules: absent values are no
values, limits are natural numbers, sets that are counted are finite, inputs of the
decisions have the fields the code parses. Nothing bounds the numbers of requests,
keys, users or processes, nor the lengths of paths, logs and archives.

Only model-checked:

* everything under fairness, which needs ENABLED, and the prover does not handle it;
* `AcceptIsRespected`: the Accept loop keeps the best entry so far, a fold over the
  header. What such a fold returns for every header needs induction over data, and a
  restatement as "the best entry" would assume what the property asks;
* `ExportsReadBack`: the writers and the readers that judge them are recursive.

## Findings

Places where a comment says one thing and the code, as modelled, does another.
Each has a run in which TLC shows it.

* **A publish can escape the audit log** (`publication_audit_gap`). When canonical
  adoption answers with an error after the version committed, whether or not it took
  effect, the request returns that error before `audit::record`; the identical retry
  adopts what is missing and returns 409, reconciled, also without recording. The
  trace ends there: one request with an error, one reconciled, no row. `src/audit.rs:3`
  says every publish appends a row.
* **A revoked key can come back** (`publisher_keys_race`). `put_keys` compares with
  the set loaded before its transaction, so a request overlapping a revocation
  writes `active` over `revoked`; `src/routes/keys.rs:90` says un-revoking is
  refused. A list that names the key twice has the same effect (only the first
  entry is compared, the last is kept).

Observations visible in the models, without a run of their own:

* `src/signing.rs:6` says a stored signature "is one that verified against an
  enrolled key at least once". `verify_any` (lines 23-63) returns at the first member
  of the list that verifies and `src/routes/publish.rs:202` stores the whole list, so
  this holds of one member of each list and not of every one.
  `StoredSignaturesResolve` states what does hold; its run stores lists with members
  that never verified.
* The first line of `src/registry_host.rs` speaks of `registry*.zpkg.net`; the rule at
  line 91 wants a label `registry` of its own, so `registry-aws.zpkg.net` is no
  registry host and is not confined to the machine routes.
* An accepted submission need not be stored: a duplicate e-mail gets the same 202, as
  `docs/public-intake-api.md:53` says.
* A replica with `AUTO_MIGRATE=false`, the default, serves on whatever schema there is.
* When a query of `authorize_artifact_read` fails, the answer to an outsider is the
  error and differs from the 404 of an unknown digest (the role queries are made only
  for private ones). The bytes stay closed; `PrivateArtifactIsConcealed` promises
  equal answers only while the queries answer.
* An index upload compares with a row read earlier and without a lock, so one that
  was overtaken moves the counter back (`src/routes/mirrors.rs:154`: "Monotonic or
  nothing"). `CounterFallsOnlyWhenOvertaken` states the exact condition; the other
  way is a sequence above `i64::MAX`, stored as a negative counter.
* Two overlapping PUTs, each within the limit, enrol more keys than
  `MAX_KEYS_PER_ORG`; afterwards no PUT can satisfy both the limit and the rule
  that no key is left out (`CapExceededOnlyByStaleRead` bounds it to that case).
* The loser of a version race leaves its bytes under the guessable alias of the
  winner's version, since aliases are written before the race is decided
  (`AliasIsCopyUnlessContested`).
* `verify_chain` recomputes hashes over the predecessor's `entry_hash` and looks
  at the stored `prev_hash` only to name a failure; changing that column alone
  goes unnoticed, and harms nothing the chain protects.
* Comments say rows older than the chain have `seq` 0; the backfill numbers them
  from 1. `HonestLogVerifies` is checked on the code's numbering.
* `tokens.rs` preserves an existing revocation timestamp, as read: of two
  overlapping revocations the later one overwrites the earlier time
  (`RevocationTimeIsKept` allows exactly that).
* A settings patch fills the fields it does not name from a row read before the
  write, so an overlapping patch may be undone
  (`UnnamedFieldChangesOnlyByStaleRead`).
* A credential or an audience Shared Auth finds malformed is answered with 401,
  also when it is the server's own; the comment in `auth.rs` wants 503 for
  misconfiguration. Nothing keeps the configured application id different from
  the CLI's.
* An unauthenticated caller gets 401 for a private digest and 404 for an unknown
  one; the concealment is from authenticated outsiders (`ArtifactsAreConcealed`).
* `Accept: ,` means JSON on the graph route and 406 on the export routes.
* Keys, mirrors, signed-index and storage routes are not in the registry host's
  table and so cannot be reached through that host.
* The YAML writer misaligns an array directly inside an array; the contract has
  none. The resolved view of the encoders is unreachable, since
  `get_resolution_graph` always answers 404.
* The comment in `routes/mod.rs` that a rejected request never occupies an in-flight
  slot does not match the order of the layers: the limiter runs inside the
  concurrency layer.

## Not modelled

* Package listing and search, tag verification, the storage console, `get_file`
  and the store's reads: single reads whose answer no later step relies on.
* Edge fallback capabilities: built by a pure function no route calls.
* Configuration, flags, API documents, metrics, the CI tool: no state the registry
  depends on.
* Power loss between a local link and the directory sync, where a preflight of the
  same object may report success before the entry is durable; `f64` rounding; the
  text of errors, logs and documents; the bytes of ZIP, gzip and tar.
* Of `binary_artifact.rs`: the size of the archive as a whole, overlapping file
  ranges, encryption and compression methods. Each is one more reason to refuse, and
  `ArchivesUnpackAsDescribed` is about what is accepted: the model accepts more than
  the code, so the property holds of the code if it holds of the model.
* Of the graph writers: the 413 of a representation past its limit, quoting inside
  CSV, DOT and Mermaid cells, MessagePack integers past 32 bits (TLC's integers end
  there) and negative ones (a graph has none). A text is one word, so a cell is
  escaped as a whole. DOT and Mermaid differ only in syntax and share their model.
* Of `get_artifact`: streaming the object once access is granted. Of the token
  introspection: the HTTP exchange, of which its five outcomes are kept.
* The order of audit rows against the order of commits: rows are appended after the
  mutation, and the log promises who changed what, not when.
* The concurrency limits, which queue or refuse a request before it has an effect.
* The `version_retirement` table has no code that uses it.

`public_intake.rs` is not declared in `main.rs`; the workflow described in
`docs/public-intake-api.md` materialises it from the copy under
`.github/materialize`. `package_intake.rs` is declared and not yet called. Both are
modelled as written.

## Plan

1. Done: the publish path and what it rests on; keys, signatures and the index;
   tokens, startup, account, graphs, intake; the pure decisions.
2. Done: proofs of the safety properties of every stateful module and of the
   decisions, but those listed under "Only model-checked".
3. The artifact store's reads and the decompression budget of `files.rs`; which
   version is the latest visible one.
