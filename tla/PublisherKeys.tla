---------------------------- MODULE PublisherKeys ----------------------------
(***************************************************************************)
(* The signing keys of one org: put_keys of src/routes/keys.rs.            *)
(*                                                                         *)
(* A request submits the whole set.  It is compared with the set as loaded *)
(* before the transaction begins; the transaction then finds and writes    *)
(* one key after the other.  Postgres runs it at READ COMMITTED: a find    *)
(* sees committed rows and the transaction's own, a write waits for the    *)
(* transaction that wrote the row before it, and inserting a key_id that   *)
(* has been committed meanwhile breaks the unique (org_id, key_id) index.  *)
(* Rejections by require_token, authorize_manage and key.validate() are    *)
(* one outcome.                                                            *)
(***************************************************************************)
EXTENDS Integers, FiniteSets, Sequences

CONSTANTS
    Requests,         \* PUT requests
    KeyIds,           \* key_id values
    Materials,        \* public_key_multibase values
    Submissions,      \* key lists clients send
    MAX_KEYS_PER_ORG, \* ceiling on one submission
    None              \* no row, nothing written

KeyStates == {"active", "retired", "revoked"}
KeyRow == [material : Materials, state : KeyStates]
SubmittedKey == [id : KeyIds, material : Materials, state : KeyStates]
Table == [KeyIds -> KeyRow \cup {None}]

ASSUME CapAssumption == MAX_KEYS_PER_ORG \in Nat
ASSUME SubmissionsAssumption == Submissions \subseteq Seq(SubmittedKey)
ASSUME NoneAssumption == None \notin KeyRow

VARIABLES
    row,      \* the committed publisher_key rows of the org
    pc,       \* where each request is
    keys,     \* the submitted list
    existing, \* the table as load_keys saw it
    next,     \* index of the key being written
    found,    \* the find of that key returned a row
    written,  \* rows written and not yet committed
    response  \* what the client was told

vars == <<row, pc, keys, existing, next, found, written, response>>

Untouched == [k \in KeyIds |-> None]
Enrolled(table) == {k \in KeyIds : table[k] # None}

\* Keys some client submits.
Offered == {key \in SubmittedKey :
               \E list \in Submissions : \E i \in DOMAIN list : list[i] = key}

\* Tables an earlier history can have left: any such keys within the limit.
Init ==
    /\ row \in {t \in Table :
                  /\ Cardinality(Enrolled(t)) <= MAX_KEYS_PER_ORG
                  /\ \A k \in Enrolled(t) :
                        [id |-> k, material |-> t[k].material,
                         state |-> t[k].state] \in Offered}
    /\ pc = [p \in Requests |-> "idle"]
    /\ keys = [p \in Requests |-> << >>]
    /\ existing = [p \in Requests |-> Untouched]
    /\ next = [p \in Requests |-> 1]
    /\ found = [p \in Requests |-> FALSE]
    /\ written = [p \in Requests |-> Untouched]
    /\ response = [p \in Requests |-> "waiting"]

\* The handler returns, and its locals go away with it.
Answer(p, answer) ==
    /\ pc' = [pc EXCEPT ![p] = "done"]
    /\ response' = [response EXCEPT ![p] = answer]
    /\ keys' = [keys EXCEPT ![p] = << >>]
    /\ existing' = [existing EXCEPT ![p] = Untouched]
    /\ next' = [next EXCEPT ![p] = 1]
    /\ found' = [found EXCEPT ![p] = FALSE]

\* keys.iter().find(..): the first entry with that id.
FirstWith(list, k) ==
    CHOOSE i \in DOMAIN list :
       list[i].id = k /\ \A j \in 1..i - 1 : list[j].id # k

\* Mutant: a key left out of the submission is simply kept.
AcceptedPartial(list, table) ==
    \A k \in Enrolled(table) : \A i \in DOMAIN list :
       list[i].id = k => /\ list[i].material = table[k].material
                         /\ table[k].state = "revoked" => list[i].state = "revoked"

\* The three refused transitions: key_removed, key_rebind, key_unrevoke.
Accepted(list, table) ==
    \A k \in Enrolled(table) :
       /\ \E i \in DOMAIN list : list[i].id = k
       /\ LET submitted == list[FirstWith(list, k)]
          IN /\ submitted.material = table[k].material
             /\ table[k].state = "revoked" => submitted.state = "revoked"

put_keys(p) ==
    /\ pc[p] = "idle"
    /\ \/ \E list \in Submissions :
             /\ Len(list) <= MAX_KEYS_PER_ORG /\ Accepted(list, row)
             /\ keys' = [keys EXCEPT ![p] = list]
             /\ existing' = [existing EXCEPT ![p] = row]
             /\ pc' = [pc EXCEPT ![p] = "find"]
             /\ UNCHANGED <<next, found, response>>
       \/ Answer(p, "rejected")
    /\ UNCHANGED <<row, written>>

-----------------------------------------------------------------------------
(* The transaction.                                                        *)

Current(p) == keys[p][next[p]]

\* SELECT of the key about to be written.
FindKey(p) ==
    /\ pc[p] = "find"
    /\ next[p] <= Len(keys[p])
    /\ found' = [found EXCEPT ![p] = Current(p).id
                               \in Enrolled(row) \cup Enrolled(written[p])]
    /\ pc' = [pc EXCEPT ![p] = "write"]
    /\ UNCHANGED <<row, keys, existing, next, written, response>>

WrittenByOthers(p, k) == \E q \in Requests \ {p} : written[q][k] # None

Write(p, k, r) ==
    /\ written' = [written EXCEPT ![p][k] = r]
    /\ next' = [next EXCEPT ![p] = @ + 1]
    /\ pc' = [pc EXCEPT ![p] = "find"]
    /\ UNCHANGED <<keys, existing, found, response>>

Rollback(p) == written' = [written EXCEPT ![p] = Untouched]

\* The row an UPDATE changes: its own uncommitted one, else the committed one.
Updated(p, k) == IF written[p][k] # None THEN written[p][k] ELSE row[k]

\* Mutant: the update writes the submitted key material as well.
WriteRebinding(p) ==
    /\ pc[p] = "write"
    /\ LET key == Current(p)
       IN /\ ~WrittenByOthers(p, key.id)
          /\ Write(p, key.id, [material |-> key.material, state |-> key.state])
    /\ UNCHANGED row

\* An UPDATE sets the state alone; an INSERT sets everything, and fails when
\* the key_id has been committed since the find.
WriteKey(p) ==
    /\ pc[p] = "write"
    /\ LET key == Current(p)
       IN /\ ~WrittenByOthers(p, key.id)
          /\ \/ /\ found[p]
                /\ Write(p, key.id, [Updated(p, key.id) EXCEPT !.state = key.state])
             \/ /\ ~found[p] /\ row[key.id] = None
                /\ Write(p, key.id,
                         [material |-> key.material, state |-> key.state])
             \/ /\ ~found[p] /\ row[key.id] # None
                /\ Rollback(p)
                /\ Answer(p, "error")
    /\ UNCHANGED row

Overlaid(p) ==
    [k \in KeyIds |-> IF written[p][k] # None THEN written[p][k] ELSE row[k]]

CommitKeys(p) ==
    /\ pc[p] = "find"
    /\ next[p] > Len(keys[p])
    /\ row' = Overlaid(p)
    /\ Rollback(p)
    /\ Answer(p, "stored")

\* A statement fails, Postgres breaks a deadlock, or the request is dropped.
\* A COMMIT that was sent may have taken effect.
Abort(p) ==
    /\ pc[p] \in {"find", "write"}
    /\ Rollback(p)
    /\ Answer(p, "error")
    /\ \/ UNCHANGED row
       \/ pc[p] = "find" /\ next[p] > Len(keys[p]) /\ row' = Overlaid(p)

Next == \E p \in Requests :
           put_keys(p) \/ FindKey(p) \/ WriteKey(p) \/ CommitKeys(p) \/ Abort(p)

Spec == Init /\ [][Next]_vars

-----------------------------------------------------------------------------
(* Properties.                                                             *)

\* An enrolled key is never dropped and never bound to other material, however
\* requests overlap and even when one lists a key_id twice: consumers pinned it.
KeysArePermanent ==
    [][\A k \in Enrolled(row) :
          row'[k] # None /\ row'[k].material = row[k].material]_vars

Doubled(list, k) ==
    \E i, j \in DOMAIN list : i # j /\ list[i].id = k /\ list[j].id = k

\* More keys than the limit are enrolled only by a request that loaded the set
\* before another one added to it: the limit is compared with one submission,
\* and covers the table only because no enrolled key may be left out.
CapExceededOnlyByStaleRead ==
    [][row' # row /\ Cardinality(Enrolled(row')) > MAX_KEYS_PER_ORG
       => \E p \in Requests :
             /\ pc[p] # "done" /\ pc'[p] = "done"
             /\ Enrolled(existing[p]) # Enrolled(row)]_vars

(***************************************************************************)
(* The inductive invariant: what a transaction relies on between two of    *)
(* its statements.                                                         *)
(***************************************************************************)

KeysTypeOK ==
    /\ row \in Table
    /\ pc \in [Requests -> {"idle", "find", "write", "done"}]
    /\ keys \in [Requests -> Seq(SubmittedKey)]
    /\ existing \in [Requests -> Table]
    /\ next \in [Requests -> Nat \ {0}]
    /\ found \in [Requests -> BOOLEAN]
    /\ written \in [Requests -> Table]

Ids(list) == {list[i].id : i \in DOMAIN list}

\* A row is written by one transaction at a time, and by none outside one.
WritesAreExclusive ==
    /\ \A p, q \in Requests, k \in KeyIds :
          p # q => written[p][k] = None \/ written[q][k] = None
    /\ \A p \in Requests : pc[p] \in {"idle", "done"} => written[p] = Untouched

\* An UPDATE has a row to change: what a find returned is still there.
FoundIsThere ==
    \A p \in Requests : pc[p] = "write" =>
        /\ next[p] <= Len(keys[p])
        /\ found[p] => Updated(p, Current(p).id) # None

\* No uncommitted row rebinds a committed one.
WritesKeepMaterial ==
    \A p \in Requests, k \in KeyIds :
        written[p][k] # None /\ row[k] # None => written[p][k].material = row[k].material

\* A running request submitted, within the limit, every key it had loaded,
\* and writes no other keys than it submitted.
SubmissionCovers ==
    \A p \in Requests : pc[p] \in {"find", "write"} =>
        /\ Len(keys[p]) <= MAX_KEYS_PER_ORG
        /\ Enrolled(existing[p]) \cup Enrolled(written[p]) \subseteq Ids(keys[p])

KeysInv ==
    /\ KeysTypeOK
    /\ WritesAreExclusive
    /\ FoundIsThere
    /\ WritesKeepMaterial
    /\ SubmissionCovers

\* The comment in put_keys: un-revoking a key is refused rather than applied.
RevokedStaysRevoked ==
    [][\A k \in Enrolled(row) :
          row[k].state = "revoked" => row'[k].state = "revoked"]_vars

=============================================================================
