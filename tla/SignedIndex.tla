----------------------------- MODULE SignedIndex -----------------------------
(***************************************************************************)
(* The index counter of one package, the publisher-signed index stored     *)
(* beside it and the signatures stored with its versions, while the org's  *)
(* keys change: put_signed_index and get_signed_index of                   *)
(* src/routes/mirrors.rs, the signature check and the bump of              *)
(* src/routes/publish.rs, and src/signing.rs.                              *)
(*                                                                         *)
(* A publish holds the package row from its upsert to its commit.  An      *)
(* index upload takes no lock: it reads the row, then the keys, compares,  *)
(* and updates by primary key.  Both check signatures against the keys of  *)
(* PublisherKeys as they are committed at that moment.  A document carries *)
(* a u64 sequence, the column is an i64.  Requests that authorize_publish, *)
(* the identity check or validate() turn away are one outcome.             *)
(***************************************************************************)
EXTENDS PublisherKeys

CONSTANTS
    Uploads,      \* PUTs of a signed index
    Publishes,    \* publishes of a new version
    SignatureSets, \* signature lists documents and releases carry
    MAX_I64,      \* stands for i64::MAX; u64::MAX is then 2 * MAX_I64 + 1
    MaxRequests   \* bound on the requests of one behaviour

\* A signature names a key and was made with some key material.
Signature == [id : KeyIds, material : Materials]

ASSUME WidthAssumption == MAX_I64 \in Nat \ {0}
ASSUME SignaturesAssumption == SignatureSets \subseteq SUBSET Signature
ASSUME ActorsAssumption ==
    /\ Uploads \cap Publishes = {} /\ Requests \cap (Uploads \cup Publishes) = {}
    /\ None \notin Uploads \cup Publishes

VARIABLES
    index_sequence, \* committed counter of the package row
    signed_index,   \* committed document, or None
    versions,       \* the signatures of each committed version
    lock,           \* the publish holding the package row
    bumped,         \* the counter that publish has written
    at,             \* where each upload and publish is
    document,       \* the uploaded document, or the release's signatures
    stored,         \* index_sequence as the upload's find_package saw it
    vouched         \* observer: signatures that verified when their list passed

indexVars == <<index_sequence, signed_index, versions, lock, bumped, at,
               document, stored, vouched>>
allVars == <<vars, indexVars>>

Actors == Uploads \cup Publishes
U64 == 0..2 * MAX_I64 + 1
Document == [sequence : U64, signatures : SignatureSets]

ASSUME NoDocumentAssumption == None \notin Document

AsI64(n) == IF n > MAX_I64 THEN n - 2 * (MAX_I64 + 1) ELSE n
AtLeast(n, floor) == IF n < floor THEN floor ELSE n

\* Mutant: the name of an enrolled key is enough.
VerifyByName(s) == row[s.id] # None /\ row[s.id].state # "revoked"

\* Made with the material of the enrolled key it names, and that key verifies:
\* it is active or retired.
verify_one(s) ==
    /\ row[s.id] # None
    /\ row[s.id].state # "revoked"
    /\ row[s.id].material = s.material

\* One signature is enough, whatever the others in the list are.
verify_any(signatures) == \E s \in signatures : verify_one(s)

\* The list is let through as a whole, and so are its unverified members.
Vouch(signatures) ==
    vouched' = vouched \cup {s \in signatures : verify_one(s)}

\* Made with the material of a key that is enrolled, revoked or not.
Resolves(s) == row[s.id] # None /\ row[s.id].material = s.material

\* A package whose column predates the counter, or that has a first version
\* and a signed index, whose key may have been revoked since.
IndexInit ==
    /\ Init
    /\ \/ /\ index_sequence = 0 /\ signed_index = None /\ versions = <<{}>>
          /\ vouched = {}
       \/ /\ index_sequence = 1
          /\ \E list \in SignatureSets :
                /\ vouched = {s \in list : Resolves(s)} /\ vouched # {}
                /\ signed_index = [sequence |-> 1, signatures |-> list]
                /\ versions = <<list>>
    /\ lock = None
    /\ bumped = 0
    /\ at = [a \in Actors |-> "idle"]
    /\ document = [a \in Actors |-> None]
    /\ stored = [u \in Uploads |-> 0]

Goto(a, step) == at' = [at EXCEPT ![a] = step] /\ UNCHANGED <<document, stored>>

\* The handler returns, and its locals go away with it.
Finish(a, answer) ==
    /\ at' = [at EXCEPT ![a] = answer]
    /\ document' = [document EXCEPT ![a] = None]
    /\ stored' = [u \in Uploads |-> IF u = a THEN 0 ELSE stored[u]]

-----------------------------------------------------------------------------
(* put_signed_index                                                        *)

\* find_package, after authorization and before the keys are loaded.
put_signed_index(u) ==
    /\ at[u] = "idle"
    /\ \/ \E d \in Document :
             /\ document' = [document EXCEPT ![u] = d]
             /\ stored' = [stored EXCEPT ![u] = index_sequence]
             /\ at' = [at EXCEPT ![u] = "verify"]
       \/ Finish(u, "rejected")
    /\ UNCHANGED <<index_sequence, signed_index, versions, lock, bumped, vouched>>

\* Mutant: the comparison is left out.
VerifyAnySequence(u) ==
    /\ at[u] = "verify"
    /\ verify_any(document[u].signatures)
    /\ Vouch(document[u].signatures)
    /\ Goto(u, "update")
    /\ UNCHANGED <<index_sequence, signed_index, versions, lock, bumped>>

\* The signatures against the keys just loaded, then the document's sequence
\* against the counter read before them.
VerifyIndex(u) ==
    /\ at[u] = "verify"
    /\ \/ /\ ~verify_any(document[u].signatures)
          /\ Finish(u, "signature_invalid")
          /\ UNCHANGED vouched
       \/ /\ verify_any(document[u].signatures)
          /\ document[u].sequence < AtLeast(stored[u], 0)
          /\ Finish(u, "index_rollback")
          /\ UNCHANGED vouched
       \/ /\ verify_any(document[u].signatures)
          /\ ~(document[u].sequence < AtLeast(stored[u], 0))
          /\ Goto(u, "update")
          /\ Vouch(document[u].signatures)
    /\ UNCHANGED <<index_sequence, signed_index, versions, lock, bumped>>

\* One UPDATE of both columns; it waits for a publish that holds the row.
StoreIndex(u) ==
    /\ lock = None
    /\ signed_index' = document[u]
    /\ index_sequence' = AsI64(document[u].sequence)

UpdateIndex(u) ==
    /\ at[u] = "update"
    /\ StoreIndex(u)
    /\ Finish(u, "accepted")
    /\ UNCHANGED <<versions, lock, bumped, vouched>>

\* The UPDATE fails, its answer is lost, or the request is dropped.
UploadFails(u) ==
    /\ at[u] \in {"verify", "update"}
    /\ Finish(u, "error")
    /\ \/ UNCHANGED <<index_sequence, signed_index>>
       \/ at[u] = "update" /\ StoreIndex(u)
    /\ UNCHANGED <<versions, lock, bumped, vouched>>

\* The served sequence: the stored document's, else one from the counter.
get_signed_index ==
    IF signed_index # None THEN signed_index.sequence
    ELSE AtLeast(index_sequence, 1)

-----------------------------------------------------------------------------
(* The publish of a new version.                                           *)

\* The signature check at admission; an unsigned release skips it.
VerifyRelease(p) ==
    /\ at[p] = "idle"
    /\ \/ \E s \in SignatureSets :
             /\ s # {} => verify_any(s)
             /\ Vouch(s)
             /\ document' = [document EXCEPT ![p] = s]
             /\ at' = [at EXCEPT ![p] = "upsert"]
             /\ UNCHANGED stored
       \/ Finish(p, "rejected") /\ UNCHANGED vouched
    /\ UNCHANGED <<index_sequence, signed_index, versions, lock, bumped>>

\* index_sequence.saturating_add(1).max(1)
Bump(n) == AtLeast(IF n = MAX_I64 THEN MAX_I64 ELSE n + 1, 1)

\* upsert_package: the conflicting insert takes the row, the read-back sees
\* the newest committed counter, and the bump writes its saturated successor.
upsert_package(p) ==
    /\ at[p] = "upsert"
    /\ lock = None
    /\ lock' = p
    /\ bumped' = Bump(index_sequence)
    /\ Goto(p, "commit")
    /\ UNCHANGED <<index_sequence, signed_index, versions, vouched>>

StoreVersion(p) ==
    /\ index_sequence' = bumped
    /\ versions' = Append(versions, document[p])

CommitVersion(p) ==
    /\ at[p] = "commit"
    /\ StoreVersion(p)
    /\ lock' = None /\ bumped' = 0
    /\ Finish(p, "published")
    /\ UNCHANGED <<signed_index, vouched>>

\* The version lost the race, a statement failed, the COMMIT's answer was lost
\* or the request was dropped.
PublishFails(p) ==
    /\ at[p] \in {"upsert", "commit"}
    /\ lock' = IF lock = p THEN None ELSE lock
    /\ bumped' = IF lock = p THEN 0 ELSE bumped
    /\ Finish(p, "error")
    /\ \/ UNCHANGED <<index_sequence, versions>>
       \/ at[p] = "commit" /\ StoreVersion(p)
    /\ UNCHANGED <<signed_index, vouched>>

Arrived == {p \in Requests : pc[p] # "idle"} \cup {a \in Actors : at[a] # "idle"}

IndexStep ==
    \/ \E u \in Uploads : \/ put_signed_index(u) \/ VerifyIndex(u)
                          \/ UpdateIndex(u) \/ UploadFails(u)
    \/ \E p \in Publishes : \/ VerifyRelease(p) \/ upsert_package(p)
                            \/ CommitVersion(p) \/ PublishFails(p)

IndexNext ==
    /\ \/ Next /\ UNCHANGED indexVars
       \/ IndexStep /\ UNCHANGED vars
    /\ Cardinality(Arrived') <= MaxRequests

IndexSpec == IndexInit /\ [][IndexNext]_allVars

-----------------------------------------------------------------------------
(* Properties.                                                             *)

StoredSignatures ==
    {versions[i] : i \in DOMAIN versions} \cup
    IF signed_index = None THEN {} ELSE {signed_index.signatures}

Vouched(signatures) == signatures \cap vouched # {}

\* A signed list the server has stored has a member that verified when it was
\* let through.
StoredIsVouched ==
    \A signatures \in StoredSignatures \ {{}} : Vouched(signatures)

\* A signature that ever verified still names a key with its material.
VouchedResolves ==
    /\ vouched \subseteq Signature
    /\ \A s \in vouched : Resolves(s)

\* Of the signatures stored with a version or with the index, at least one per
\* list verified at admission, and each one that did can be checked for ever:
\* although the keys may have changed between the check and the commit, and
\* change on, its key is still enrolled with the material it was made with.
\* Nothing is said of the other members: verify_any stops at the first that
\* verifies and the handler stores the list as it came.
StoredSignaturesResolve == StoredIsVouched /\ VouchedResolves

\* A version moves the counter unless it has saturated; an upload moves it
\* back only when it was overtaken between its comparison and its UPDATE, or
\* carries a sequence the i64 column cannot hold; and short of such a sequence
\* the counter never falls behind the document being served.
CounterFallsOnlyWhenOvertaken ==
    [][/\ versions' # versions =>
             index_sequence' > index_sequence \/ index_sequence = MAX_I64
       /\ index_sequence' < index_sequence =>
             \E u \in Uploads :
                /\ at[u] = "update" /\ at'[u] # "update"
                /\ signed_index' = document[u]
                /\ \/ document[u].sequence > MAX_I64
                   \/ stored[u] < index_sequence
       /\ signed_index' # None /\ signed_index'.sequence <= MAX_I64 =>
             signed_index'.sequence <= index_sequence']_allVars

(***************************************************************************)
(* The inductive invariant: what an upload and a publish rely on between   *)
(* their checks and their writes.                                          *)
(***************************************************************************)

IndexTypeOK ==
    /\ index_sequence \in -(MAX_I64 + 1)..MAX_I64
    /\ signed_index \in Document \cup {None}
    /\ versions \in Seq(SUBSET Signature)
    /\ lock \in Publishes \cup {None}
    /\ bumped \in Int
    /\ at \in [Actors -> {"idle", "verify", "update", "upsert", "commit", "rejected",
                          "signature_invalid", "index_rollback", "accepted",
                          "published", "error"}]
    /\ DOMAIN document = Actors
    /\ stored \in [Uploads -> Int]

\* The package row is held from the upsert to the commit, and until then
\* nobody else moves the counter the bump was computed from.
BumpIsNext ==
    /\ \A p \in Publishes : at[p] = "commit" <=> lock = p
    /\ lock # None => bumped = Bump(index_sequence)

\* The signatures of a checked document or release are vouched for until it is
\* stored, and the document is no older than the counter it was compared to.
CheckedStaysChecked ==
    /\ \A u \in Uploads : at[u] \in {"verify", "update"} => document[u] \in Document
    /\ \A u \in Uploads : at[u] = "update" =>
          Vouched(document[u].signatures) /\ document[u].sequence >= AtLeast(stored[u], 0)
    /\ \A p \in Publishes : at[p] \in {"upsert", "commit"} =>
          document[p] \in SUBSET Signature /\ (document[p] = {} \/ Vouched(document[p]))

CounterCoversDocument ==
    signed_index # None /\ signed_index.sequence <= MAX_I64 =>
        signed_index.sequence <= index_sequence

IInv ==
    /\ KeysInv
    /\ IndexTypeOK
    /\ BumpIsNext
    /\ CheckedStaysChecked
    /\ CounterCoversDocument
    /\ StoredIsVouched

=============================================================================
