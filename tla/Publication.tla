---------------------------- MODULE Publication ----------------------------
(***************************************************************************)
(* Publishing and yanking the versions of one package:                     *)
(* src/routes/publish.rs and src/routes/yank.rs.                           *)
(*                                                                         *)
(* A publish touches four stores in turn, none of which can be rolled back *)
(* together: the artifact store, the legacy tables (one transaction), the  *)
(* canonical registry plane and the audit trail.  Requests interleave at   *)
(* every await, and may stop at any of them.                               *)
(*                                                                         *)
(* One element of Requests is one HTTP request; a client that retries is   *)
(* another element.  Artifact bytes are identified with their SHA-256.     *)
(***************************************************************************)
EXTENDS Integers, Rbac

CONSTANTS
    Requests,    \* publish and yank requests
    Versions,    \* version strings of the package
    Digests,     \* SHA-256 digests: the identity of artifact bytes
    Formats,     \* artifact formats (file extensions)
    Tags,        \* vcs tag together with vcs commit
    SafeTags,    \* tags whose every path segment may appear in an alias key
    Metas,       \* package metadata of a manifest: description, repo, tags
    Tokens,      \* registry tokens
    Scope,       \* Scope[t]: the org t is scoped to, or NoScope
    RoleOf,      \* RoleOf[t]: the stored role string
    Org,         \* the org that owns the package
    Uploads,     \* what a client may send
    HasAliases,  \* FALSE for the process-memory store, which skips aliases
    Foreign,     \* bytes that match no digest: an object nobody here wrote
    Corrupted,   \* content-addressed keys that hold Foreign bytes at start
    Faults,      \* which parts of the environment may fail
    MaxSequence, \* the largest value of the index_sequence column, i64::MAX
    Sequences,   \* where the counter of a package published to before may be
    None

\* What can fail: the object store, a database statement, the canonical
\* plane, an audit append; and a request future that is dropped.
FaultKinds == {"store", "database", "canonical", "audit", "drop"}

Upload == [token : Tokens, version : Versions, declared : Digests,
           sha : Digests, format : Formats, tag : Tags, meta : Metas]

\* The immutable facts of a version, and the row that stores them.
VersionFacts == [sha : Digests, format : Formats, tag : Tags]
VersionRow == [sha : Digests, format : Formats, tag : Tags, yanked : BOOLEAN]
PackageRow == [meta : Metas, index_sequence : 0..MaxSequence]

ASSUME UploadsAssumption == Uploads \subseteq Upload
ASSUME FaultsAssumption == Faults \subseteq FaultKinds
ASSUME SequenceAssumption ==
    /\ MaxSequence \in Nat \ {0}
    /\ Sequences \subseteq 0..MaxSequence
ASSUME NoneAssumption ==
    /\ None \notin Requests \cup Digests \cup Uploads \cup {Foreign}
    /\ None \notin VersionRow \cup VersionFacts
    /\ None \notin PackageRow
    /\ Foreign \notin Digests

VARIABLES
    pc,        \* where each request is
    up,        \* the upload each request carries
    blob,      \* artifacts/<sha>.<format> -> bytes
    ghAlias,   \* github/<owner>/<repo>/<tag>/<name>-<version>.<format> -> bytes
    pkgAlias,  \* packages/<org>/<name>/<version>/... -> bytes
    package,   \* the committed package row
    row,       \* version -> the committed version row
    lock,      \* the request whose transaction holds the package row
    canonical, \* version -> facts in the canonical plane
    audited,   \* versions with a publish entry in the audit trail
    response   \* what the client was told

vars == <<pc, up, blob, ghAlias, pkgAlias, package, row, lock, canonical,
          audited, response>>
stores == <<blob, ghAlias, pkgAlias>>
tables == <<package, row>>

\* "rejected": any 4xx before the pipeline touches a store.  "reconciled" and
\* "version_exists": the two version_exists conflicts.  "dropped": no answer.
Responses == {"waiting", "rejected", "published", "reconciled",
              "version_exists", "yanked", "not_found", "error", "dropped"}

Steps == {"idle", "check", "put", "alias_github", "alias_package", "begin",
          "insert", "commit", "reread", "adopt", "reconcile",
          "reconcile_lost", "audit", "done"}

\* Inside the transaction, after the upsert took the package row.
InTransaction == {"insert", "commit"}

Init ==
    /\ pc = [p \in Requests |-> "idle"]
    /\ up = [p \in Requests |-> None]
    /\ blob = [k \in Digests \X Formats |->
                 IF k \in Corrupted THEN Foreign ELSE None]
    /\ ghAlias = [k \in Tags \X Versions \X Formats |-> None]
    /\ pkgAlias = [k \in Versions \X Formats |-> None]
    /\ package \in {None} \cup [meta : Metas, index_sequence : Sequences]
    /\ row = [v \in Versions |-> None]
    /\ lock = None
    /\ canonical = [v \in Versions |-> None]
    /\ audited = {}
    /\ response = [p \in Requests |-> "waiting"]

-----------------------------------------------------------------------------
Goto(p, step) ==
    /\ pc' = [pc EXCEPT ![p] = step]
    /\ UNCHANGED response

Answer(p, answer) ==
    /\ pc' = [pc EXCEPT ![p] = "done"]
    /\ response' = [response EXCEPT ![p] = answer]

artifact_key(u) == <<u.sha, u.format>>
github_alias(u) == <<u.tag, u.version, u.format>>

\* Mutant: every version of a package shares one path.
PackageAliasUnversioned(u) ==
    <<CHOOSE v \in Versions : TRUE, u.format>>

package_alias(u) == <<u.version, u.format>>

Facts(u) == [sha |-> u.sha, format |-> u.format, tag |-> u.tag]
NewRow(u) == [sha |-> u.sha, format |-> u.format, tag |-> u.tag,
              yanked |-> FALSE]

\* legacy_version_matches: every immutable column; yanked is not one.
legacy_version_matches(r, u) ==
    r.sha = u.sha /\ r.format = u.format /\ r.tag = u.tag

\* put_verified on one key of a bucket: a fresh key is created, the same
\* bytes are accepted again, other bytes are refused.
Holds(bucket, k, d) == bucket[k] \in {None, d}
Stored(bucket, k, d) == [bucket EXCEPT ![k] = d]

\* A put whose answer never arrived may or may not have created the object.
MaybeStored(bucket, k, d) ==
    {bucket} \cup IF bucket[k] = None THEN {Stored(bucket, k, d)} ELSE {}

\* Authorization against the org of the URL, then the recomputed digest.
Admissible(u) ==
    /\ authorize_publish(Scope[u.token], RoleOf[u.token], Org) = "ok"
    /\ u.declared = u.sha

(***************************************************************************)
(* Everything before the first look at the version: require_token, the     *)
(* org, the role, the multipart body, the manifest against the URL, digest *)
(* and size, binary descriptor, VCS tag and publisher signature.  Each may *)
(* turn the request away, and none of them writes.                         *)
(***************************************************************************)
Admit(p) ==
    /\ pc[p] = "idle"
    /\ \E u \in Uploads :
          \/ /\ Admissible(u)
             /\ up' = [up EXCEPT ![p] = u]
             /\ Goto(p, "check")
          \/ /\ Answer(p, "rejected")
             /\ UNCHANGED up
    /\ UNCHANGED <<stores, tables, lock, canonical, audited>>

\* The unlocked immutability check.
CheckVersion(p) ==
    /\ pc[p] = "check"
    /\ LET existing == row[up[p].version]
       IN  \/ /\ existing = None
              /\ Goto(p, "put")
           \/ /\ existing # None
              /\ legacy_version_matches(existing, up[p])
              /\ Goto(p, "reconcile")
           \/ /\ existing # None
              /\ ~legacy_version_matches(existing, up[p])
              /\ Answer(p, "version_exists")
    /\ UNCHANGED <<up, stores, tables, lock, canonical, audited>>

\* store.put_verified of the content-addressed object; any error returns.
PutBlob(p) ==
    /\ pc[p] = "put"
    /\ LET k == artifact_key(up[p])
           d == up[p].sha
       IN  \/ /\ Holds(blob, k, d)
              /\ blob' = Stored(blob, k, d)
              /\ Goto(p, IF HasAliases THEN "alias_github" ELSE "begin")
           \/ /\ ~Holds(blob, k, d)
              /\ Answer(p, "error")
              /\ UNCHANGED blob
           \/ /\ "store" \in Faults
              /\ Answer(p, "error")
              /\ blob' \in MaybeStored(blob, k, d)
    /\ UNCHANGED <<up, ghAlias, pkgAlias, tables, lock, canonical, audited>>

(***************************************************************************)
(* put_public_aliases: the two guessable keys in order, the first error    *)
(* ends the loop, and the caller only logs it.                             *)
(***************************************************************************)
PutGithubAlias(p) ==
    /\ pc[p] = "alias_github"
    /\ LET k == github_alias(up[p])
           d == up[p].sha
       IN  \/ /\ up[p].tag \in SafeTags
              /\ Holds(ghAlias, k, d)
              /\ ghAlias' = Stored(ghAlias, k, d)
              /\ Goto(p, "alias_package")
           \/ /\ up[p].tag \notin SafeTags
              /\ UNCHANGED ghAlias
              /\ Goto(p, "alias_package")
           \/ /\ up[p].tag \in SafeTags
              /\ ~Holds(ghAlias, k, d) \/ "store" \in Faults
              /\ ghAlias' \in MaybeStored(ghAlias, k, d)
              /\ Goto(p, "begin")
    /\ UNCHANGED <<up, blob, pkgAlias, tables, lock, canonical, audited>>

PutPackageAlias(p) ==
    /\ pc[p] = "alias_package"
    /\ LET k == package_alias(up[p])
           d == up[p].sha
       IN  \/ /\ Holds(pkgAlias, k, d)
              /\ pkgAlias' = Stored(pkgAlias, k, d)
           \/ /\ ~Holds(pkgAlias, k, d) \/ "store" \in Faults
              /\ pkgAlias' \in MaybeStored(pkgAlias, k, d)
    /\ Goto(p, "begin")
    /\ UNCHANGED <<up, blob, ghAlias, tables, lock, canonical, audited>>

\* saturating_add(1).max(1) of the index sequence: a counter at the top of its
\* column stays there.  No write makes it negative, so max(1) never decides.
Bumped(sequence) ==
    IF sequence < MaxSequence THEN sequence + 1 ELSE MaxSequence

\* The package row a publish leaves: metadata of the manifest, and the index
\* sequence inserted as 1 or kept, then bumped.
PublishedPackage(u) ==
    [meta |-> u.meta,
     index_sequence |->
        Bumped(IF package = None THEN 1 ELSE package.index_sequence)]

\* Mutant: the upsert runs outside the transaction.
UpsertAutocommit(p) ==
    /\ pc[p] = "begin"
    /\ lock = None
    /\ lock' = p
    /\ package' = PublishedPackage(up[p])
    /\ Goto(p, "insert")
    /\ UNCHANGED <<up, stores, row, canonical, audited>>

(***************************************************************************)
(* BEGIN and upsert_package.  ON CONFLICT DO UPDATE waits for, then holds, *)
(* the package row: on a first publish the conflicting insert waits for    *)
(* the inserting transaction instead.  The new row is private until        *)
(* COMMIT, so it is applied there.                                         *)
(***************************************************************************)
UpsertPackage(p) ==
    /\ pc[p] = "begin"
    /\ lock = None
    /\ lock' = p
    /\ Goto(p, "insert")
    /\ UNCHANGED <<up, stores, tables, canonical, audited>>

\* Mutant: the loser of the race deletes the object it uploaded (DEN-660).
InsertVersionDeletesBlob(p) ==
    /\ pc[p] = "insert"
    /\ \/ /\ row[up[p].version] = None
          /\ Goto(p, "commit")
          /\ UNCHANGED <<lock, blob>>
       \/ /\ row[up[p].version] # None
          /\ lock' = None
          /\ blob' = [blob EXCEPT ![artifact_key(up[p])] = None]
          /\ Goto(p, "reread")
    /\ UNCHANGED <<up, ghAlias, pkgAlias, tables, canonical, audited>>

\* Mutant: the version row is replaced instead of being refused.
InsertVersionOverwrites(p) ==
    /\ pc[p] = "insert"
    /\ Goto(p, "commit")
    /\ UNCHANGED <<up, stores, tables, lock, canonical, audited>>

\* INSERT INTO version: a violation of the (package_id, version) index rolls
\* the whole transaction back.  The object stays.
InsertVersion(p) ==
    /\ pc[p] = "insert"
    /\ \/ /\ row[up[p].version] = None
          /\ Goto(p, "commit")
          /\ UNCHANGED lock
       \/ /\ row[up[p].version] # None
          /\ lock' = None
          /\ Goto(p, "reread")
    /\ UNCHANGED <<up, stores, tables, canonical, audited>>

\* What COMMIT makes visible.
Publish(p) ==
    /\ package' = PublishedPackage(up[p])
    /\ row' = [row EXCEPT ![up[p].version] = NewRow(up[p])]

CommitPublish(p) ==
    /\ pc[p] = "commit"
    /\ Publish(p)
    /\ lock' = None
    /\ Goto(p, "adopt")
    /\ UNCHANGED <<up, stores, canonical, audited>>

\* Mutant: the loser of a race is told the version exists, whoever won.
RereadOnlyAnswers(p) ==
    /\ pc[p] = "reread"
    /\ Answer(p, "version_exists")
    /\ UNCHANGED <<up, stores, tables, lock, canonical, audited>>

\* After a lost race: read the winner, reconcile if it is the same release.
RereadVersion(p) ==
    /\ pc[p] = "reread"
    /\ IF legacy_version_matches(row[up[p].version], up[p])
       THEN Goto(p, "reconcile_lost")
       ELSE Answer(p, "version_exists")
    /\ UNCHANGED <<up, stores, tables, lock, canonical, audited>>

\* adopt_machine_publish: records the facts once, accepts them again, and
\* refuses to replace different ones.
Adoptable(u) == canonical[u.version] \in {None, Facts(u)}
Adopted(u) == [canonical EXCEPT ![u.version] = Facts(u)]

\* Mutant: a reconciliation that fails is taken for the stable conflict.
AdoptIgnoringErrors(p) ==
    /\ \/ /\ pc[p] = "adopt"
          /\ Goto(p, "audit")
       \/ /\ pc[p] = "reconcile"
          /\ Answer(p, "reconciled")
       \/ /\ pc[p] = "reconcile_lost"
          /\ Answer(p, "version_exists")
    /\ canonical' \in {canonical, Adopted(up[p])}
    /\ UNCHANGED <<up, stores, tables, lock, audited>>

\* adopt_canonical_publish at its three call sites; `?` returns its error.
AdoptCanonical(p) ==
    /\ pc[p] \in {"adopt", "reconcile", "reconcile_lost"}
    /\ \/ /\ Adoptable(up[p])
          /\ canonical' = Adopted(up[p])
          /\ \/ /\ pc[p] = "adopt"
                /\ Goto(p, "audit")
             \/ /\ pc[p] = "reconcile"
                /\ Answer(p, "reconciled")
             \/ /\ pc[p] = "reconcile_lost"
                /\ Answer(p, "version_exists")
       \/ /\ ~Adoptable(up[p])
          /\ UNCHANGED canonical
          /\ Answer(p, "error")
       \/ /\ "canonical" \in Faults
          /\ canonical' \in {canonical} \cup
                 IF Adoptable(up[p]) THEN {Adopted(up[p])} ELSE {}
          /\ Answer(p, "error")
    /\ UNCHANGED <<up, stores, tables, lock, audited>>

\* audit::record is best-effort: the answer does not depend on it.
AuditPublish(p) ==
    /\ pc[p] = "audit"
    /\ \/ audited' = audited \cup {up[p].version}
       \/ "audit" \in Faults /\ UNCHANGED audited
    /\ Answer(p, "published")
    /\ UNCHANGED <<up, stores, tables, lock, canonical>>

\* yank: same authority as publish; only the flag of the row is updated.  Its
\* best-effort audit entry is not a publish entry.
yank(p) ==
    /\ pc[p] = "idle"
    /\ \E t \in Tokens, v \in Versions, flag \in BOOLEAN :
          /\ authorize_publish(Scope[t], RoleOf[t], Org) = "ok"
          /\ \/ /\ row[v] = None
                /\ Answer(p, "not_found")
                /\ UNCHANGED row
             \/ /\ row[v] # None
                /\ row' = [row EXCEPT ![v].yanked = flag]
                /\ Answer(p, "yanked")
    /\ UNCHANGED <<up, stores, package, lock, canonical, audited>>

\* A database statement fails: the error is returned, an open transaction is
\* rolled back; a failed COMMIT may have been applied.
DatabaseError(p) ==
    /\ "database" \in Faults
    /\ pc[p] \in {"check", "begin", "insert", "commit", "reread"}
    /\ \/ UNCHANGED tables
       \/ pc[p] = "commit" /\ Publish(p)
    /\ lock' = IF lock = p THEN None ELSE lock
    /\ Answer(p, "error")
    /\ UNCHANGED <<up, stores, canonical, audited>>

(***************************************************************************)
(* The request future is dropped at an await: the client left, the 30 s    *)
(* TimeoutLayer fired, or the process died.  The operation being awaited   *)
(* may still take effect; nothing after it does.                           *)
(***************************************************************************)
Drop(p) ==
    /\ "drop" \in Faults
    /\ pc[p] \notin {"idle", "done"}
    /\ Answer(p, "dropped")
    /\ lock' = IF lock = p THEN None ELSE lock
    /\ \/ UNCHANGED <<stores, tables, canonical, audited>>
       \/ /\ pc[p] = "put"
          /\ blob' \in MaybeStored(blob, artifact_key(up[p]), up[p].sha)
          /\ UNCHANGED <<ghAlias, pkgAlias, tables, canonical, audited>>
       \/ /\ pc[p] = "alias_github"
          /\ up[p].tag \in SafeTags
          /\ ghAlias' \in MaybeStored(ghAlias, github_alias(up[p]), up[p].sha)
          /\ UNCHANGED <<blob, pkgAlias, tables, canonical, audited>>
       \/ /\ pc[p] = "alias_package"
          /\ pkgAlias' \in
                MaybeStored(pkgAlias, package_alias(up[p]), up[p].sha)
          /\ UNCHANGED <<blob, ghAlias, tables, canonical, audited>>
       \/ /\ pc[p] = "commit"
          /\ Publish(p)
          /\ UNCHANGED <<stores, canonical, audited>>
       \/ /\ pc[p] \in {"adopt", "reconcile", "reconcile_lost"}
          /\ Adoptable(up[p])
          /\ canonical' = Adopted(up[p])
          /\ UNCHANGED <<stores, tables, audited>>
       \/ /\ pc[p] = "audit"
          /\ audited' = audited \cup {up[p].version}
          /\ UNCHANGED <<stores, tables, canonical>>
    /\ UNCHANGED up

Progress(p) ==
    \/ CheckVersion(p)
    \/ PutBlob(p)
    \/ PutGithubAlias(p)
    \/ PutPackageAlias(p)
    \/ UpsertPackage(p)
    \/ InsertVersion(p)
    \/ CommitPublish(p)
    \/ RereadVersion(p)
    \/ AdoptCanonical(p)
    \/ AuditPublish(p)

Next ==
    \E p \in Requests :
        Admit(p) \/ yank(p) \/ Progress(p) \/ DatabaseError(p) \/ Drop(p)

Spec == Init /\ [][Next]_vars

-----------------------------------------------------------------------------
(***************************************************************************)
(* Properties                                                              *)
(***************************************************************************)

\* Every variable ranges over what the code can put there.
TypeOK ==
    /\ pc \in [Requests -> Steps]
    /\ up \in [Requests -> Uploads \cup {None}]
    /\ blob \in [Digests \X Formats -> Digests \cup {None, Foreign}]
    /\ ghAlias \in [Tags \X Versions \X Formats -> Digests \cup {None}]
    /\ pkgAlias \in [Versions \X Formats -> Digests \cup {None}]
    /\ package \in PackageRow \cup {None}
    /\ row \in [Versions -> VersionRow \cup {None}]
    /\ lock \in Requests \cup {None}
    /\ canonical \in [Versions -> VersionFacts \cup {None}]
    /\ audited \in SUBSET Versions
    /\ response \in [Requests -> Responses]

FactsOf(r) == [sha |-> r.sha, format |-> r.format, tag |-> r.tag]

\* A committed version row never names an object that is missing or holds
\* other bytes, whatever fails or races between the put and the commit.
NoDanglingArtifact ==
    \A v \in Versions :
        row[v] # None => blob[<<row[v].sha, row[v].format>>] = row[v].sha

\* The canonical plane never knows a release the legacy tables do not have,
\* and never disagrees with them about its immutable facts.
CanonicalFollowsLegacy ==
    \A v \in Versions :
        canonical[v] # None => /\ row[v] # None
                               /\ canonical[v] = FactsOf(row[v])

\* A client told "published" or "reconciled" has its own bytes recorded in
\* both planes; and one version is "published" to at most one client.
PublishedMeansRecorded ==
    /\ \A p \in Requests :
          response[p] \in {"published", "reconciled"} =>
             /\ row[up[p].version] # None
             /\ FactsOf(row[up[p].version]) = Facts(up[p])
             /\ canonical[up[p].version] = Facts(up[p])
    /\ \A p, q \in Requests :
          /\ response[p] = "published"
          /\ response[q] = "published"
          /\ up[p].version = up[q].version
          => p = q

\* Every version row comes from a token that may publish to this org and from
\* bytes that hash to what that client declared.
EveryRowIsAttributable ==
    \A v \in Versions :
        row[v] # None =>
            \E p \in Requests :
                /\ up[p] # None
                /\ up[p].version = v
                /\ Facts(up[p]) = FactsOf(row[v])
                /\ up[p].declared = row[v].sha
                /\ authorize_publish(Scope[up[p].token],
                                     RoleOf[up[p].token], Org) = "ok"

\* A published version is immutable: yanking flips one flag, a racing or
\* repeated publish changes nothing.
VersionsAreImmutable ==
    [][\A v \in Versions :
          row[v] # None => /\ row'[v] # None
                           /\ FactsOf(row'[v]) = FactsOf(row[v])]_vars

\* A failed or losing publish leaves the package metadata and the index
\* sequence as they were: they change only in a step that adds a version, and
\* the sequence then grows, unless it is already the largest.
PackageChangesWithVersion ==
    [][package' # package =>
          /\ \E v \in Versions : row[v] = None /\ row'[v] # None
          /\ package # None =>
                \/ package'.index_sequence > package.index_sequence
                \/ package.index_sequence = MaxSequence
                   /\ package'.index_sequence = MaxSequence]_vars

\* The guessable key of a release holds a copy of its bytes, unless an
\* admissible upload of the same version with other bytes got there first and
\* has not been published: the aliases are written before the race is decided.
AliasIsCopyUnlessContested ==
    \A v \in Versions : \A f \in Formats :
        LET alias == pkgAlias[<<v, f>>]
        IN row[v] # None /\ row[v].format = f /\ alias \notin {None, row[v].sha}
           => \E p \in Requests :
                 /\ up[p] # None
                 /\ Admissible(up[p])
                 /\ up[p].version = v /\ up[p].format = f /\ up[p].sha = alias
                 /\ response[p] \notin {"published", "reconciled"}

\* A request whose upload has the facts of the release stored as v.
SentRelease(p, v) ==
    up[p] # None /\ up[p].version = v /\ Facts(up[p]) = FactsOf(row[v])

\* While a release is in the legacy tables only, the request that committed it
\* is still on its way to the canonical plane or was told that it failed, and
\* nobody who sent the same release has been answered as if it were complete:
\* neither "published" nor either of the two version_exists conflicts, which
\* tell a client to stop retrying.
LaggingReleaseIsReported ==
    \A v \in Versions :
        row[v] # None /\ canonical[v] = None =>
            /\ \E p \in Requests :
                  /\ SentRelease(p, v)
                  /\ pc[p] = "adopt" \/ response[p] \in {"error", "dropped"}
            /\ \A p \in Requests :
                  SentRelease(p, v) =>
                     response[p] \notin {"published", "reconciled",
                                        "version_exists"}

(***************************************************************************)
(* The inductive invariant: what a request relies on between two awaits.   *)
(***************************************************************************)

\* A running request was admitted with the upload it carries.
RequestIsAdmitted ==
    \A p \in Requests :
        /\ pc[p] # "done" => response[p] = "waiting"
        /\ pc[p] = "idle" => up[p] = None
        /\ \/ pc[p] \notin {"idle", "done"}
           \/ response[p] \in {"published", "reconciled"}
           => up[p] \in Uploads /\ Admissible(up[p])

\* The package row is locked by the one request inside its transaction, and
\* what that request inserted nobody else can have committed.
LockDiscipline ==
    \A p \in Requests :
        /\ pc[p] \in InTransaction <=> lock = p
        /\ pc[p] = "commit" => row[up[p].version] = None

\* From a successful put to the end of its transaction, a request's object
\* stays in the store.
ObjectOutlivesTransaction ==
    \A p \in Requests :
        pc[p] \in {"alias_github", "alias_package", "begin", "insert", "commit"}
            => blob[artifact_key(up[p])] = up[p].sha

\* A request that adopts, audits or has succeeded is about a release already
\* recorded with its own facts; past the adoption, in both planes.
Settled(p) == pc[p] = "audit" \/ response[p] \in {"published", "reconciled"}
Recording(p) == Settled(p) \/ pc[p] \in {"adopt", "reconcile", "reconcile_lost"}

RecordedBeforeAdopted ==
    \A p \in Requests :
        /\ pc[p] = "reread" => row[up[p].version] # None
        /\ Recording(p) => /\ row[up[p].version] # None
                           /\ FactsOf(row[up[p].version]) = Facts(up[p])
        /\ Settled(p) => canonical[up[p].version] = Facts(up[p])

\* The request whose COMMIT succeeded, on its way to "published".
Publisher(p) == pc[p] \in {"adopt", "audit"} \/ response[p] = "published"

OnePublisherPerVersion ==
    \A p, q \in Requests :
        Publisher(p) /\ Publisher(q) /\ up[p].version = up[q].version => p = q

IInv ==
    /\ TypeOK
    /\ RequestIsAdmitted
    /\ LockDiscipline
    /\ ObjectOutlivesTransaction
    /\ RecordedBeforeAdopted
    /\ OnePublisherPerVersion
    /\ NoDanglingArtifact
    /\ CanonicalFollowsLegacy
    /\ EveryRowIsAttributable

\* An object at a guessable key was put there by an admitted request, whatever
\* became of that request; inductive beside IInv.
AliasesAreUploads ==
    \A v \in Versions : \A f \in Formats :
        pkgAlias[<<v, f>>] # None =>
            \E p \in Requests :
                /\ up[p] # None
                /\ Admissible(up[p])
                /\ up[p].version = v /\ up[p].format = f
                /\ up[p].sha = pkgAlias[<<v, f>>]

\* A client told that its version exists was told so of a committed row: one
\* with other facts, or its own release, by then in the canonical plane too;
\* inductive beside IInv.
ConflictIsSettled ==
    \A p \in Requests :
        response[p] = "version_exists" =>
            /\ up[p] \in Uploads
            /\ row[up[p].version] # None
            /\ Facts(up[p]) = FactsOf(row[up[p].version]) =>
                  canonical[up[p].version] = Facts(up[p])

\* A release in the legacy tables only still has its committer at work, or one
\* that was told of a failure; inductive beside IInv.
CommitterIsKnown ==
    \A v \in Versions :
        row[v] # None /\ canonical[v] = None =>
            \E p \in Requests :
                /\ SentRelease(p, v)
                /\ pc[p] = "adopt" \/ response[p] \in {"error", "dropped"}

-----------------------------------------------------------------------------
(***************************************************************************)
(* What the documentation says and the code does not keep                  *)
(***************************************************************************)

\* Once nobody is working, a release that a retry was told is complete has its
\* entry in the audit trail ("Every publish ... appends one row",
\* src/audit.rs).
EveryPublishIsAudited ==
    (\A p \in Requests : pc[p] \in {"idle", "done"}) =>
        \A p \in Requests :
            response[p] = "reconciled" => up[p].version \in audited

=============================================================================
