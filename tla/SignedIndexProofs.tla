-------------------------- MODULE SignedIndexProofs --------------------------
(***************************************************************************)
(* Keys, signatures and the index counter, for any number of requests of   *)
(* each kind.  The keys are proved first, for PublisherKeys alone; the     *)
(* index relies on them only through KeysStep: no step drops or rebinds a  *)
(* key.                                                                    *)
(***************************************************************************)
EXTENDS SignedIndex, FiniteSetTheorems, TLAPS

-----------------------------------------------------------------------------
(* The keys.                                                               *)

\* Enrolled keys and their material after a step.
Kept == \A k \in Enrolled(row) : row'[k] # None /\ row'[k].material = row[k].material

\* Nothing is written yet.
LEMMA KeysInitially == Init => KeysInv
<1> SUFFICES ASSUME Init PROVE KeysInv
  OBVIOUS
<1>1. Untouched \in Table /\ \A k \in KeyIds : Untouched[k] = None
  BY DEF Untouched, Table
<1>2. KeysTypeOK
  BY <1>1 DEF Init, KeysTypeOK
<1>3. WritesAreExclusive /\ WritesKeepMaterial
  BY <1>1 DEF Init, WritesAreExclusive, WritesKeepMaterial
<1>4. FoundIsThere /\ SubmissionCovers
  BY DEF Init, FoundIsThere, SubmissionCovers
<1> QED
  BY <1>2, <1>3, <1>4 DEF KeysInv

\* Answering closes the request and nothing else.
LEMMA AnswerType ==
    ASSUME KeysTypeOK, NEW p \in Requests, NEW answer, Answer(p, answer)
    PROVE  /\ pc' \in [Requests -> {"idle", "find", "write", "done"}]
           /\ keys' \in [Requests -> Seq(SubmittedKey)]
           /\ existing' \in [Requests -> Table]
           /\ next' \in [Requests -> Nat \ {0}]
           /\ found' \in [Requests -> BOOLEAN]
           /\ \A q \in Requests : /\ pc'[q] = IF q = p THEN "done" ELSE pc[q]
                                  /\ q # p => /\ keys'[q] = keys[q]
                                              /\ existing'[q] = existing[q]
                                              /\ next'[q] = next[q]
                                              /\ found'[q] = found[q]
<1>1. Untouched \in Table
  BY DEF Untouched, Table
<1> QED
  BY <1>1 DEF KeysTypeOK, Answer

\* A request that ends, with or without having committed, leaves the others
\* what they relied on.
LEMMA KeysInv_End ==
    ASSUME KeysInv, NEW p \in Requests, NEW answer, Answer(p, answer), Rollback(p),
           row' = row \/ row' = Overlaid(p)
    PROVE  KeysInv' /\ Kept
<1>1. \A k \in KeyIds : Untouched[k] = None
  BY DEF Untouched
<1>2. KeysTypeOK
  BY DEF KeysInv
<1>3. \A q \in Requests : written'[q] = IF q = p THEN Untouched ELSE written[q]
  BY <1>2 DEF Rollback, KeysTypeOK
<1>4. row' \in Table
  <2>1. written[p] \in Table /\ row \in Table
    BY <1>2 DEF KeysTypeOK
  <2>2. Overlaid(p) \in Table
    BY <2>1 DEF Overlaid, Table
  <2> QED
    BY <2>1, <2>2
<1>5. \A k \in KeyIds : row'[k] = row[k] \/ (written[p][k] # None /\ row'[k] = written[p][k])
  BY DEF Overlaid
<1>6. Kept
  BY <1>5 DEF KeysInv, WritesKeepMaterial, Kept, Enrolled
<1>7. KeysTypeOK'
  <2>1. written' \in [Requests -> Table]
    BY <1>2 DEF Rollback, KeysTypeOK, Untouched, Table
  <2> QED
    BY <1>2, <1>4, <2>1, AnswerType DEF KeysTypeOK
<1>8. \A q \in Requests : /\ pc'[q] = IF q = p THEN "done" ELSE pc[q]
                          /\ q # p => /\ keys'[q] = keys[q]
                                      /\ existing'[q] = existing[q]
                                      /\ next'[q] = next[q]
                                      /\ found'[q] = found[q]
  BY <1>2, AnswerType
<1>9. WritesAreExclusive'
  BY <1>1, <1>3, <1>8 DEF KeysInv, WritesAreExclusive
<1>10. WritesKeepMaterial'
  <2> SUFFICES ASSUME NEW q \in Requests, NEW k \in KeyIds,
                      written'[q][k] # None, row'[k] # None
               PROVE  written'[q][k].material = row'[k].material
    BY DEF WritesKeepMaterial
  <2>1. q # p /\ written'[q][k] = written[q][k]
    BY <1>1, <1>3
  <2>2. row'[k] = row[k]
    BY <1>5, <2>1 DEF KeysInv, WritesAreExclusive
  <2> QED
    BY <2>1, <2>2 DEF KeysInv, WritesKeepMaterial
<1>11. FoundIsThere'
  <2> SUFFICES ASSUME NEW q \in Requests, pc'[q] = "write"
               PROVE  /\ next'[q] <= Len(keys'[q])
                      /\ found'[q] => Updated(q, Current(q).id)' # None
    BY DEF FoundIsThere
  <2>1. q # p
    BY <1>8
  <2>2. next[q] \in 1..Len(keys[q]) /\ (found[q] => Updated(q, Current(q).id) # None)
    BY <1>2, <1>8, <2>1 DEF KeysInv, KeysTypeOK, FoundIsThere
  <2>3. Current(q)' = Current(q) /\ Current(q).id \in KeyIds
    <3>1. Current(q)' = Current(q)
      BY <1>8, <2>1 DEF Current
    <3>2. keys[q] \in Seq(SubmittedKey)
      BY <1>2 DEF KeysTypeOK
    <3>3. Current(q) \in SubmittedKey
      BY <2>2, <3>2 DEF Current
    <3> QED
      BY <3>1, <3>3 DEF SubmittedKey
  <2> QED
    BY <1>3, <1>5, <1>8, <2>1, <2>2, <2>3 DEF Updated
<1>12. SubmissionCovers'
  BY <1>3, <1>8 DEF KeysInv, SubmissionCovers
<1> QED
  BY <1>6, <1>7, <1>9, <1>10, <1>11, <1>12 DEF KeysInv

\* A submission that was accepted covers the keys it was compared with.
LEMMA KeysInv_put_keys ==
    ASSUME KeysInv, NEW p \in Requests, put_keys(p)
    PROVE  KeysInv' /\ Kept
<1>0. row' = row /\ written' = written /\ pc[p] = "idle" /\ Kept
  BY DEF put_keys, Kept, Enrolled, KeysInv, KeysTypeOK, Table
<1>1. CASE Answer(p, "rejected")
  <2>1. Rollback(p)
    BY <1>0 DEF Rollback, KeysInv, KeysTypeOK, WritesAreExclusive
  <2> QED
    BY <1>0, <1>1, <2>1, KeysInv_End
<1>2. CASE ~Answer(p, "rejected")
  <2>1. PICK list \in Submissions :
             /\ Len(list) <= MAX_KEYS_PER_ORG /\ Accepted(list, row)
             /\ keys' = [keys EXCEPT ![p] = list]
             /\ existing' = [existing EXCEPT ![p] = row]
             /\ pc' = [pc EXCEPT ![p] = "find"]
             /\ UNCHANGED <<next, found, response>>
    BY <1>2 DEF put_keys
  <2>2. KeysTypeOK'
    BY <1>0, <2>1, SubmissionsAssumption DEF KeysInv, KeysTypeOK
  <2>3. WritesAreExclusive' /\ WritesKeepMaterial'
    BY <1>0, <2>1 DEF KeysInv, KeysTypeOK, WritesAreExclusive, WritesKeepMaterial
  <2>4. FoundIsThere'
    BY <1>0, <2>1 DEF KeysInv, KeysTypeOK, FoundIsThere, Updated, Current
  <2>5. Enrolled(row) \subseteq Ids(list)
    BY <2>1 DEF Accepted, Ids
  <2>6. Enrolled(written[p]) = {}
    BY <1>0 DEF KeysInv, WritesAreExclusive, Enrolled, Untouched
  <2>7. SubmissionCovers'
    BY <1>0, <2>1, <2>5, <2>6 DEF KeysInv, KeysTypeOK, SubmissionCovers
  <2> QED
    BY <1>0, <2>2, <2>3, <2>4, <2>7 DEF KeysInv
<1> QED
  BY <1>1, <1>2

\* The key a statement is about is one of the submitted ones.
LEMMA CurrentIsSubmitted ==
    ASSUME KeysTypeOK, NEW p \in Requests, next[p] <= Len(keys[p])
    PROVE  /\ next[p] \in DOMAIN keys[p]
           /\ Current(p) \in SubmittedKey
           /\ Current(p).id \in KeyIds \cap Ids(keys[p])
           /\ [material |-> Current(p).material, state |-> Current(p).state] \in KeyRow
<1>1. keys[p] \in Seq(SubmittedKey) /\ next[p] \in 1..Len(keys[p])
  BY DEF KeysTypeOK
<1>2. Current(p) \in SubmittedKey
  BY <1>1 DEF Current
<1> QED
  BY <1>1, <1>2 DEF Current, SubmittedKey, Ids, KeyRow

\* What the find saw is committed or the transaction's own.
LEMMA KeysInv_FindKey ==
    ASSUME KeysInv, NEW p \in Requests, FindKey(p)
    PROVE  KeysInv' /\ Kept
<1>1. /\ pc[p] = "find" /\ next[p] <= Len(keys[p])
      /\ found' = [found EXCEPT ![p] = Current(p).id \in Enrolled(row) \cup Enrolled(written[p])]
      /\ pc' = [pc EXCEPT ![p] = "write"]
      /\ UNCHANGED <<row, keys, existing, next, written, response>>
  BY DEF FindKey
<1>2. KeysTypeOK'
  BY <1>1 DEF KeysInv, KeysTypeOK
<1>3. WritesAreExclusive' /\ WritesKeepMaterial' /\ SubmissionCovers'
  BY <1>1 DEF KeysInv, KeysTypeOK, WritesAreExclusive, WritesKeepMaterial, SubmissionCovers
<1>4. FoundIsThere'
  BY <1>1 DEF KeysInv, KeysTypeOK, FoundIsThere, Updated, Current, Enrolled
<1>5. Kept
  BY <1>1 DEF Kept, Enrolled
<1> QED
  BY <1>2, <1>3, <1>4, <1>5 DEF KeysInv

\* Writing a row nobody else is writing, bound as it was.
LEMMA KeysInv_Write ==
    ASSUME KeysInv, NEW p \in Requests, NEW r \in KeyRow, pc[p] = "write",
           Write(p, Current(p).id, r), row' = row, ~WrittenByOthers(p, Current(p).id),
           row[Current(p).id] # None => r.material = row[Current(p).id].material
    PROVE  KeysInv' /\ Kept
<1> DEFINE k == Current(p).id
<1>1. /\ written' = [written EXCEPT ![p][k] = r]
      /\ next' = [next EXCEPT ![p] = @ + 1]
      /\ pc' = [pc EXCEPT ![p] = "find"]
      /\ UNCHANGED <<keys, existing, found, response>>
  BY DEF Write
<1>2. next[p] <= Len(keys[p]) /\ KeysTypeOK
  BY DEF KeysInv, FoundIsThere
<1>3. k \in KeyIds /\ k \in Ids(keys[p])
  BY <1>2, CurrentIsSubmitted
<1> HIDE DEF k
<1>4. /\ \A q \in Requests \ {p} : written'[q] = written[q]
      /\ \A j \in KeyIds : written'[p][j] = IF j = k THEN r ELSE written[p][j]
      /\ written' \in [Requests -> Table]
  <2>1. written[p] \in Table /\ written \in [Requests -> Table]
    BY <1>2 DEF KeysTypeOK
  <2>2. [written[p] EXCEPT ![k] = r] \in Table
    BY <2>1 DEF Table
  <2>3. written'[p] = [written[p] EXCEPT ![k] = r]
    BY <1>1, <2>1
  <2> QED
    BY <1>1, <1>3, <2>1, <2>2, <2>3 DEF Table
<1>5. KeysTypeOK'
  BY <1>1, <1>2, <1>4 DEF KeysTypeOK
<1>6. WritesAreExclusive'
  <2>1. \A q \in Requests \ {p} : written[q][k] = None
    BY DEF WrittenByOthers, k
  <2> QED
    BY <1>1, <1>2, <1>3, <1>4, <2>1 DEF KeysInv, KeysTypeOK, WritesAreExclusive
<1>7. WritesKeepMaterial'
  <2>1. row[k] # None => r.material = row[k].material
    BY DEF k
  <2> QED
    BY <1>3, <1>4, <2>1 DEF KeysInv, WritesKeepMaterial
<1>8. FoundIsThere'
  <2> SUFFICES ASSUME NEW q \in Requests, pc'[q] = "write"
               PROVE  /\ next'[q] <= Len(keys'[q])
                      /\ found'[q] => Updated(q, Current(q).id)' # None
    BY DEF FoundIsThere
  <2>1. q # p /\ pc[q] = "write" /\ next'[q] = next[q]
    BY <1>1, <1>2 DEF KeysTypeOK
  <2>2. /\ keys' = keys /\ row' = row /\ found' = found
        /\ written'[q] = written[q]
    BY <1>1, <1>4, <2>1
  <2>3. next[q] <= Len(keys[q]) /\ (found[q] => Updated(q, Current(q).id) # None)
    BY <2>1 DEF KeysInv, FoundIsThere
  <2> QED
    BY <2>1, <2>2, <2>3 DEF Updated, Current
<1>9. SubmissionCovers'
  <2> SUFFICES ASSUME NEW q \in Requests, pc'[q] \in {"find", "write"}
               PROVE  /\ Len(keys[q]) <= MAX_KEYS_PER_ORG
                      /\ Enrolled(existing[q]) \cup Enrolled(written'[q]) \subseteq Ids(keys[q])
    BY <1>1 DEF SubmissionCovers
  <2>1. pc[q] \in {"find", "write"}
    BY <1>1, <1>2 DEF KeysTypeOK
  <2>2. Enrolled(written'[q]) \subseteq Enrolled(written[q]) \cup Ids(keys[q])
    BY <1>3, <1>4 DEF Enrolled
  <2> QED
    BY <2>1, <2>2 DEF KeysInv, SubmissionCovers
<1>10. Kept
  BY DEF Kept, Enrolled
<1> QED
  BY <1>5, <1>6, <1>7, <1>8, <1>9, <1>10 DEF KeysInv

\* An update changes the state alone; an insert finds no row to rebind.
LEMMA KeysInv_WriteKey ==
    ASSUME KeysInv, NEW p \in Requests, WriteKey(p)
    PROVE  KeysInv' /\ Kept
<1> DEFINE key == Current(p)
<1>1. pc[p] = "write" /\ ~WrittenByOthers(p, key.id) /\ row' = row
  BY DEF WriteKey
<1>2. next[p] <= Len(keys[p]) /\ KeysTypeOK
  BY <1>1 DEF KeysInv, FoundIsThere
<1>3. /\ key.id \in KeyIds
      /\ key.state \in KeyStates
      /\ [material |-> key.material, state |-> key.state] \in KeyRow
  BY <1>2, CurrentIsSubmitted DEF SubmittedKey
<1>4. ASSUME found[p],
             Write(p, key.id, [Updated(p, key.id) EXCEPT !.state = key.state])
      PROVE  KeysInv' /\ Kept
  <2> DEFINE old == Updated(p, key.id)
  <2>1. old # None
    BY <1>1, <1>4 DEF KeysInv, FoundIsThere
  <2>2. written[p][key.id] \in KeyRow \cup {None} /\ row[key.id] \in KeyRow \cup {None}
    BY <1>2, <1>3 DEF KeysTypeOK, Table
  <2>3. old \in KeyRow
    BY <2>1, <2>2 DEF Updated
  <2>4. row[key.id] # None => old.material = row[key.id].material
    BY <1>3, <2>1 DEF Updated, KeysInv, WritesKeepMaterial
  <2>5. /\ [old EXCEPT !.state = key.state] \in KeyRow
        /\ [old EXCEPT !.state = key.state].material = old.material
    BY <1>3, <2>3 DEF KeyRow
  <2> QED
    BY <1>1, <1>4, <2>4, <2>5, KeysInv_Write
<1>5. ASSUME row[key.id] = None,
             Write(p, key.id, [material |-> key.material, state |-> key.state])
      PROVE  KeysInv' /\ Kept
  BY <1>1, <1>3, <1>5, KeysInv_Write
<1>6. ASSUME Rollback(p), Answer(p, "error") PROVE KeysInv' /\ Kept
  BY <1>1, <1>6, KeysInv_End
<1> QED
  BY <1>4, <1>5, <1>6 DEF WriteKey

\* No step of any request drops or rebinds an enrolled key.
LEMMA KeysStep ==
    ASSUME KeysInv, [Next]_vars
    PROVE  KeysInv' /\ Kept
<1>1. CASE UNCHANGED vars
  <2>1. UNCHANGED <<row, pc, keys, existing, next, found, written, response>>
    BY <1>1 DEF vars
  <2> QED
    BY <2>1 DEF KeysInv, KeysTypeOK, WritesAreExclusive, FoundIsThere, WritesKeepMaterial,
                SubmissionCovers, Updated, Current, Kept, Enrolled
<1>2. ASSUME NEW p \in Requests, CommitKeys(p) PROVE KeysInv' /\ Kept
  BY <1>2, KeysInv_End DEF CommitKeys
<1>3. ASSUME NEW p \in Requests, Abort(p) PROVE KeysInv' /\ Kept
  BY <1>3, KeysInv_End DEF Abort
<1> QED
  BY <1>1, <1>2, <1>3, KeysInv_put_keys, KeysInv_FindKey, KeysInv_WriteKey DEF Next

-----------------------------------------------------------------------------
(* The index.                                                              *)

\* A step that keeps the keys keeps what their signatures resolve to.
LEMMA ResolvesKept ==
    ASSUME Kept, NEW s \in Signature, Resolves(s)
    PROVE  Resolves(s)'
BY DEF Kept, Resolves, Enrolled, Signature

\* What has been vouched for stays so.
LEMMA VouchedKept ==
    ASSUME vouched \subseteq vouched', NEW list, Vouched(list)
    PROVE  list \cap vouched' # {}
BY DEF Vouched

\* What StoredIsVouched says of the two places signatures are kept.
PartsVouched ==
    /\ \A i \in DOMAIN versions : versions[i] = {} \/ Vouched(versions[i])
    /\ signed_index = None \/ signed_index.signatures = {}
          \/ Vouched(signed_index.signatures)

\* Before and after a step, the signatures of both places are those stored.
LEMMA VouchedParts ==
    /\ StoredIsVouched <=> PartsVouched
    /\ StoredIsVouched' <=> PartsVouched'
<1>1. /\ signed_index = None => StoredSignatures = {versions[i] : i \in DOMAIN versions}
      /\ signed_index # None => StoredSignatures =
            {versions[i] : i \in DOMAIN versions} \cup {signed_index.signatures}
  BY DEF StoredSignatures
<1>2. /\ signed_index' = None =>
            StoredSignatures' = {versions'[i] : i \in DOMAIN versions'}
      /\ signed_index' # None => StoredSignatures' =
            {versions'[i] : i \in DOMAIN versions'} \cup {signed_index'.signatures}
  BY DEF StoredSignatures
<1>3. StoredIsVouched <=> PartsVouched
  BY <1>1 DEF StoredIsVouched, PartsVouched
<1>4. StoredIsVouched' <=> PartsVouched'
  BY <1>2 DEF StoredIsVouched, PartsVouched
<1> QED
  BY <1>3, <1>4

\* What a document is made of.
LEMMA DocumentParts ==
    ASSUME NEW d \in Document
    PROVE  d.sequence \in U64 /\ d.signatures \in SUBSET Signature /\ d # None
BY SignaturesAssumption, NoDocumentAssumption DEF Document

\* The first state: the stored index, if any, resolves, and nothing is held.
LEMMA IndexInitially == IndexInit => IInv
<1> SUFFICES ASSUME IndexInit PROVE IInv
  OBVIOUS
<1>1. KeysInv
  BY KeysInitially DEF IndexInit
<1>2. IndexTypeOK /\ CounterCoversDocument /\ StoredIsVouched
  <2>1. CASE /\ index_sequence = 0 /\ signed_index = None /\ versions = <<{}>>
             /\ vouched = {}
    <3>1. versions \in Seq(SUBSET Signature) /\ \A i \in DOMAIN versions : versions[i] = {}
      BY <2>1
    <3> QED
      BY <2>1, <3>1, VouchedParts, WidthAssumption
      DEF IndexInit, IndexTypeOK, CounterCoversDocument, PartsVouched
  <2>2. ASSUME NEW s \in SignatureSets, Vouched(s), index_sequence = 1,
               signed_index = [sequence |-> 1, signatures |-> s], versions = <<s>>
        PROVE  IndexTypeOK /\ CounterCoversDocument /\ StoredIsVouched
    <3>1. /\ signed_index \in Document /\ signed_index.sequence = 1
          /\ signed_index.signatures = s
      BY <2>2, WidthAssumption DEF Document, U64
    <3>2. /\ versions \in Seq(SUBSET Signature)
          /\ \A i \in DOMAIN versions : versions[i] = s
      BY <2>2, SignaturesAssumption
    <3> QED
      BY <2>2, <3>1, <3>2, VouchedParts, WidthAssumption
      DEF IndexInit, IndexTypeOK, CounterCoversDocument, PartsVouched
  <2> QED
    BY <2>1, <2>2 DEF IndexInit, Vouched
<1>3. BumpIsNext /\ CheckedStaysChecked
  BY ActorsAssumption DEF IndexInit, BumpIsNext, CheckedStaysChecked, Actors
<1> QED
  BY <1>1, <1>2, <1>3 DEF IInv

\* A change of the keys leaves what was checked and stored alone.
LEMMA IInv_Keys ==
    ASSUME IInv, KeysInv', Kept, UNCHANGED indexVars
    PROVE  IInv'
<1>1. UNCHANGED <<index_sequence, signed_index, versions, lock, bumped, at, document, stored,
                  vouched>>
  BY DEF indexVars
<1>2. IndexTypeOK' /\ BumpIsNext' /\ CounterCoversDocument'
  BY <1>1 DEF IInv, IndexTypeOK, BumpIsNext, CounterCoversDocument
<1>3. CheckedStaysChecked'
  BY <1>1 DEF IInv, CheckedStaysChecked, Vouched
<1>4. StoredIsVouched'
  BY <1>1, VouchedParts DEF IInv, PartsVouched, Vouched
<1> QED
  BY <1>2, <1>3, <1>4 DEF IInv

\* A handler that returns: what is left of it, and of the others.
LEMMA FinishType ==
    ASSUME IndexTypeOK, NEW a \in Actors, Finish(a, "error") \/ Finish(a, "rejected") \/
           Finish(a, "signature_invalid") \/ Finish(a, "index_rollback") \/
           Finish(a, "accepted") \/ Finish(a, "published")
    PROVE  /\ at' \in [Actors -> {"idle", "verify", "update", "upsert", "commit", "rejected",
                                  "signature_invalid", "index_rollback", "accepted",
                                  "published", "error"}]
           /\ DOMAIN document' = Actors
           /\ stored' \in [Uploads -> Int]
           /\ at'[a] \notin {"idle", "verify", "update", "upsert", "commit"}
           /\ \A b \in Actors : b # a => at'[b] = at[b] /\ document'[b] = document[b]
           /\ \A u \in Uploads : u # a => stored'[u] = stored[u]
BY DEF IndexTypeOK, Finish, Actors

\* What the next lemmas all need of a step that only ends a handler.
LEMMA FinishKeepsChecks ==
    ASSUME IndexTypeOK, CheckedStaysChecked, vouched' = vouched, NEW a \in Actors,
           Finish(a, "error") \/ Finish(a, "rejected") \/
           Finish(a, "signature_invalid") \/ Finish(a, "index_rollback") \/
           Finish(a, "accepted") \/ Finish(a, "published")
    PROVE  CheckedStaysChecked'
<1>1. /\ at'[a] \notin {"idle", "verify", "update", "upsert", "commit"}
      /\ \A b \in Actors : b # a => at'[b] = at[b] /\ document'[b] = document[b]
      /\ \A u \in Uploads : u # a => stored'[u] = stored[u]
  BY FinishType
<1> QED
  BY <1>1 DEF CheckedStaysChecked, Vouched, Actors

\* Leaving the stored state and the keys alone leaves what is said of them.
LEMMA StoredUnchanged ==
    ASSUME IInv, UNCHANGED vars, UNCHANGED <<index_sequence, signed_index, versions>>,
           vouched \subseteq vouched'
    PROVE  /\ KeysInv' /\ row' = row
           /\ CounterCoversDocument' /\ StoredIsVouched'
<1>1. KeysInv'
  BY KeysStep DEF IInv
<1>2. row' = row
  BY DEF vars
<1>3. StoredIsVouched'
  BY VouchedParts, VouchedKept DEF IInv, PartsVouched, Vouched
<1> QED
  BY <1>1, <1>2, <1>3 DEF IInv, CounterCoversDocument

\* find_package: nothing has been checked yet.
LEMMA IInv_put_signed_index ==
    ASSUME IInv, UNCHANGED vars, NEW u \in Uploads, put_signed_index(u)
    PROVE  IInv'
<1>1. /\ UNCHANGED <<index_sequence, signed_index, versions, lock, bumped, vouched>>
      /\ at[u] = "idle" /\ u \in Actors /\ u \notin Publishes
  BY ActorsAssumption DEF put_signed_index, Actors
<1>2. /\ KeysInv' /\ row' = row /\ CounterCoversDocument' /\ StoredIsVouched'
  BY <1>1, StoredUnchanged
<1>3. CASE Finish(u, "rejected")
  <2>1. CheckedStaysChecked'
    BY <1>1, <1>2, <1>3, FinishKeepsChecks DEF IInv
  <2>2. IndexTypeOK'
    BY <1>1, <1>3, FinishType DEF IInv, IndexTypeOK
  <2>3. BumpIsNext'
    BY <1>1, <1>3 DEF IInv, IndexTypeOK, BumpIsNext, Finish
  <2> QED
    BY <1>2, <2>1, <2>2, <2>3 DEF IInv
<1>4. ASSUME NEW d \in Document,
             document' = [document EXCEPT ![u] = d],
             stored' = [stored EXCEPT ![u] = index_sequence],
             at' = [at EXCEPT ![u] = "verify"]
      PROVE  IInv'
  <2>1. IndexTypeOK'
    BY <1>1, <1>4, WidthAssumption DEF IInv, IndexTypeOK
  <2>2. BumpIsNext'
    BY <1>1, <1>4 DEF IInv, IndexTypeOK, BumpIsNext
  <2>3. /\ at'[u] = "verify" /\ document'[u] = d
        /\ \A b \in Actors : b # u => at'[b] = at[b] /\ document'[b] = document[b]
        /\ \A v \in Uploads : v # u => stored'[v] = stored[v]
    BY <1>1, <1>4 DEF IInv, IndexTypeOK
  <2>4. CheckedStaysChecked'
    BY <1>1, <1>2, <2>3 DEF IInv, CheckedStaysChecked, Vouched, Actors
  <2> QED
    BY <1>2, <2>1, <2>2, <2>4 DEF IInv
<1> QED
  BY <1>3, <1>4 DEF put_signed_index

\* A document that goes on to the UPDATE resolves and is not older.
LEMMA IInv_VerifyIndex ==
    ASSUME IInv, UNCHANGED vars, NEW u \in Uploads, VerifyIndex(u)
    PROVE  IInv'
<1>1. /\ UNCHANGED <<index_sequence, signed_index, versions, lock, bumped>>
      /\ at[u] = "verify" /\ u \in Actors /\ u \notin Publishes
      /\ vouched \subseteq vouched'
  BY ActorsAssumption DEF VerifyIndex, Actors, Vouch
<1>2. /\ KeysInv' /\ row' = row /\ CounterCoversDocument' /\ StoredIsVouched'
  BY <1>1, StoredUnchanged
<1>3. CASE /\ Finish(u, "signature_invalid") \/ Finish(u, "index_rollback")
           /\ UNCHANGED vouched
  <2>1. CheckedStaysChecked'
    BY <1>1, <1>2, <1>3, FinishKeepsChecks DEF IInv
  <2>2. IndexTypeOK'
    BY <1>1, <1>3, FinishType DEF IInv, IndexTypeOK
  <2>3. BumpIsNext'
    <3>1. at'[u] # "commit" /\ \A q \in Publishes : at'[q] = at[q]
      BY <1>1, <1>3, FinishType DEF IInv, Actors
    <3> QED
      BY <1>1, <3>1 DEF IInv, BumpIsNext
  <2> QED
    BY <1>2, <2>1, <2>2, <2>3 DEF IInv
<1>4. ASSUME verify_any(document[u].signatures), Goto(u, "update"), Vouch(document[u].signatures),
             ~(document[u].sequence < AtLeast(stored[u], 0))
      PROVE  IInv'
  <2>1. UNCHANGED <<document, stored>> /\ at' = [at EXCEPT ![u] = "update"]
    BY <1>4 DEF Goto
  <2>2. IndexTypeOK'
    BY <1>1, <2>1 DEF IInv, IndexTypeOK
  <2>3. BumpIsNext'
    BY <1>1, <2>1 DEF IInv, IndexTypeOK, BumpIsNext
  <2>4. /\ at'[u] = "update"
        /\ \A b \in Actors : b # u => at'[b] = at[b]
    BY <1>1, <2>1 DEF IInv, IndexTypeOK
  <2>5. document[u] \in Document /\ document[u].signatures \cap vouched' # {}
    BY <1>1, <1>4 DEF IInv, CheckedStaysChecked, verify_any, Vouch
  <2>6. document[u].sequence >= AtLeast(stored[u], 0)
    <3>1. document[u].sequence \in Int /\ AtLeast(stored[u], 0) \in Int
      BY <2>5, DocumentParts, WidthAssumption DEF U64, AtLeast, IInv, IndexTypeOK
    <3> QED
      BY <1>4, <3>1
  <2>7. CheckedStaysChecked'
    BY <1>1, <1>2, <2>1, <2>4, <2>5, <2>6 DEF IInv, CheckedStaysChecked, Vouched, Actors
  <2> QED
    BY <1>2, <2>2, <2>3, <2>7 DEF IInv
<1> QED
  BY <1>3, <1>4 DEF VerifyIndex

\* Storing a checked document: the counter is its sequence, as the column
\* holds it.
LEMMA IInv_StoreIndex ==
    ASSUME IInv, UNCHANGED vars, NEW u \in Uploads, at[u] = "update", StoreIndex(u),
           Finish(u, "accepted") \/ Finish(u, "error"),
           UNCHANGED <<versions, lock, bumped, vouched>>
    PROVE  IInv'
<1>1. /\ lock = None /\ signed_index' = document[u]
      /\ index_sequence' = AsI64(document[u].sequence)
  BY DEF StoreIndex
<1>2. KeysInv' /\ row' = row /\ u \in Actors /\ u \notin Publishes
  BY KeysStep, ActorsAssumption DEF IInv, vars, Actors
<1>3. document[u] \in Document /\ Vouched(document[u].signatures)
  BY DEF IInv, CheckedStaysChecked
<1>4. document[u].sequence \in U64
  BY <1>3, DocumentParts
<1>5. /\ index_sequence' \in -(MAX_I64 + 1)..MAX_I64
      /\ document[u].sequence <= MAX_I64 => index_sequence' = document[u].sequence
  BY <1>1, <1>4, WidthAssumption DEF U64, AsI64
<1>6. IndexTypeOK'
  BY <1>1, <1>2, <1>3, <1>5, FinishType DEF IInv, IndexTypeOK
<1>7. BumpIsNext'
  <2>1. \A q \in Publishes : at'[q] = at[q]
    BY <1>2, FinishType DEF IInv, Actors
  <2> QED
    BY <1>1, <2>1 DEF IInv, BumpIsNext
<1>8. CheckedStaysChecked'
  BY <1>2, FinishKeepsChecks DEF IInv
<1>9. CounterCoversDocument'
  BY <1>1, <1>4, <1>5, WidthAssumption DEF CounterCoversDocument, U64
<1>10. StoredIsVouched'
  BY <1>1, <1>2, <1>3, VouchedParts DEF IInv, PartsVouched, Vouched
<1> QED
  BY <1>2, <1>6, <1>7, <1>8, <1>9, <1>10 DEF IInv

\* An upload that fails has stored its document or nothing.
LEMMA IInv_UploadFails ==
    ASSUME IInv, UNCHANGED vars, NEW u \in Uploads, UploadFails(u)
    PROVE  IInv'
<1>1. Finish(u, "error") /\ UNCHANGED <<versions, lock, bumped, vouched>>
  BY DEF UploadFails
<1>2. CASE at[u] = "update" /\ StoreIndex(u)
  BY <1>1, <1>2, IInv_StoreIndex
<1>3. CASE UNCHANGED <<index_sequence, signed_index>>
  <2>1. /\ KeysInv' /\ row' = row /\ CounterCoversDocument' /\ StoredIsVouched'
        /\ u \in Actors /\ u \notin Publishes
    BY <1>1, <1>3, StoredUnchanged, ActorsAssumption DEF Actors
  <2>2. CheckedStaysChecked'
    BY <1>1, <2>1, FinishKeepsChecks DEF IInv
  <2>3. IndexTypeOK'
    BY <1>1, <1>3, <2>1, FinishType DEF IInv, IndexTypeOK
  <2>4. \A q \in Publishes : at'[q] = at[q]
    BY <1>1, <2>1, FinishType DEF IInv, Actors
  <2>5. BumpIsNext'
    BY <1>1, <1>3, <2>4 DEF IInv, BumpIsNext
  <2> QED
    BY <2>1, <2>2, <2>3, <2>5 DEF IInv
<1> QED
  BY <1>2, <1>3 DEF UploadFails

\* A release that goes on is unsigned or resolves.
LEMMA IInv_VerifyRelease ==
    ASSUME IInv, UNCHANGED vars, NEW p \in Publishes, VerifyRelease(p)
    PROVE  IInv'
<1>1. /\ UNCHANGED <<index_sequence, signed_index, versions, lock, bumped>>
      /\ at[p] = "idle" /\ p \in Actors /\ p \notin Uploads
      /\ vouched \subseteq vouched'
  BY ActorsAssumption DEF VerifyRelease, Actors, Vouch
<1>2. /\ KeysInv' /\ row' = row /\ CounterCoversDocument' /\ StoredIsVouched'
  BY <1>1, StoredUnchanged
<1>3. lock # p
  BY <1>1 DEF IInv, BumpIsNext
<1>4. CASE Finish(p, "rejected") /\ UNCHANGED vouched
  <2>1. CheckedStaysChecked'
    BY <1>1, <1>2, <1>4, FinishKeepsChecks DEF IInv
  <2>2. IndexTypeOK'
    BY <1>1, <1>4, FinishType DEF IInv, IndexTypeOK
  <2>3. at'[p] # "commit" /\ \A q \in Publishes : q # p => at'[q] = at[q]
    BY <1>1, <1>4, FinishType DEF IInv, Actors
  <2>4. BumpIsNext'
    BY <1>1, <1>3, <2>3 DEF IInv, BumpIsNext
  <2> QED
    BY <1>2, <2>1, <2>2, <2>4 DEF IInv
<1>5. ASSUME NEW s \in SignatureSets, s # {} => verify_any(s), Vouch(s),
             document' = [document EXCEPT ![p] = s],
             at' = [at EXCEPT ![p] = "upsert"], UNCHANGED stored
      PROVE  IInv'
  <2>1. IndexTypeOK'
    BY <1>1, <1>5 DEF IInv, IndexTypeOK
  <2>2. /\ at'[p] = "upsert" /\ document'[p] = s
        /\ \A b \in Actors : b # p => at'[b] = at[b] /\ document'[b] = document[b]
    BY <1>1, <1>5 DEF IInv, IndexTypeOK
  <2>3. BumpIsNext'
    BY <1>1, <1>3, <2>2 DEF IInv, BumpIsNext, Actors
  <2>4. s \in SUBSET Signature /\ (s = {} \/ s \cap vouched' # {})
    BY <1>5, SignaturesAssumption DEF verify_any, Vouch
  <2>5. CheckedStaysChecked'
    BY <1>1, <1>2, <1>5, <2>2, <2>4 DEF IInv, CheckedStaysChecked, Vouched, Actors
  <2> QED
    BY <1>2, <2>1, <2>3, <2>5 DEF IInv
<1> QED
  BY <1>4, <1>5 DEF VerifyRelease

\* The successor of a counter: it moves unless it has saturated.
LEMMA BumpMoves ==
    ASSUME NEW n \in -(MAX_I64 + 1)..MAX_I64
    PROVE  /\ Bump(n) \in 1..MAX_I64
           /\ Bump(n) > n \/ n = MAX_I64
           /\ Bump(n) >= n
BY WidthAssumption DEF Bump, AtLeast

\* The upsert takes the row that nobody held.
LEMMA IInv_upsert_package ==
    ASSUME IInv, UNCHANGED vars, NEW p \in Publishes, upsert_package(p)
    PROVE  IInv'
<1>1. /\ UNCHANGED <<index_sequence, signed_index, versions, document, stored, vouched>>
      /\ at[p] = "upsert" /\ lock = None /\ lock' = p /\ bumped' = Bump(index_sequence)
      /\ at' = [at EXCEPT ![p] = "commit"] /\ p \in Actors /\ p \notin Uploads
  BY ActorsAssumption DEF upsert_package, Goto, Actors
<1>2. /\ KeysInv' /\ row' = row /\ CounterCoversDocument' /\ StoredIsVouched'
  BY <1>1, StoredUnchanged
<1>3. at'[p] = "commit" /\ \A b \in Actors : b # p => at'[b] = at[b]
  BY <1>1 DEF IInv, IndexTypeOK
<1>4. IndexTypeOK'
  <2>1. bumped' \in Int
    BY <1>1, BumpMoves DEF IInv, IndexTypeOK
  <2> QED
    BY <1>1, <2>1 DEF IInv, IndexTypeOK
<1>5. BumpIsNext'
  BY <1>1, <1>3, ActorsAssumption DEF IInv, BumpIsNext, Actors
<1>6. CheckedStaysChecked'
  BY <1>1, <1>2, <1>3 DEF IInv, CheckedStaysChecked, Vouched, Actors
<1> QED
  BY <1>2, <1>4, <1>5, <1>6 DEF IInv

\* A version is stored with the bump of the counter it finds.
LEMMA IInv_StoreVersion ==
    ASSUME IInv, UNCHANGED vars, NEW p \in Publishes, at[p] = "commit", StoreVersion(p),
           lock' = None, bumped' = 0, Finish(p, "published") \/ Finish(p, "error"),
           UNCHANGED <<signed_index, vouched>>
    PROVE  IInv'
<1>1. /\ index_sequence' = bumped /\ versions' = Append(versions, document[p])
      /\ lock = p /\ bumped = Bump(index_sequence)
  BY ActorsAssumption DEF StoreVersion, IInv, BumpIsNext
<1>2. KeysInv' /\ row' = row /\ p \in Actors /\ p \notin Uploads
  BY KeysStep, ActorsAssumption DEF IInv, vars, Actors
<1>3. document[p] \in SUBSET Signature /\ (document[p] = {} \/ Vouched(document[p]))
  BY DEF IInv, CheckedStaysChecked
<1>4. /\ versions' \in Seq(SUBSET Signature)
      /\ \A i \in DOMAIN versions' :
            versions'[i] = document[p] \/ (i \in DOMAIN versions /\ versions'[i] = versions[i])
  BY <1>1, <1>3 DEF IInv, IndexTypeOK
<1>5. /\ index_sequence' \in -(MAX_I64 + 1)..MAX_I64
      /\ index_sequence' >= index_sequence
  BY <1>1, BumpMoves, WidthAssumption DEF IInv, IndexTypeOK
<1>6. IndexTypeOK'
  BY <1>2, <1>4, <1>5, FinishType DEF IInv, IndexTypeOK
<1>7. BumpIsNext'
  <2>1. at'[p] # "commit" /\ \A q \in Publishes : q # p => at'[q] = at[q]
    BY <1>2, FinishType DEF IInv, Actors
  <2> QED
    BY <1>1, <2>1, ActorsAssumption DEF IInv, BumpIsNext
<1>8. CheckedStaysChecked'
  BY <1>2, FinishKeepsChecks DEF IInv
<1>9. CounterCoversDocument'
  <2>1. index_sequence \in Int /\ index_sequence' \in Int
    BY <1>5, WidthAssumption DEF IInv, IndexTypeOK
  <2>2. signed_index # None => signed_index.sequence \in Int
    BY DocumentParts, WidthAssumption DEF IInv, IndexTypeOK, U64
  <2> QED
    BY <1>5, <2>1, <2>2 DEF IInv, CounterCoversDocument
<1>10. StoredIsVouched'
  BY <1>2, <1>3, <1>4, VouchedParts DEF IInv, PartsVouched, Vouched
<1> QED
  BY <1>2, <1>6, <1>7, <1>8, <1>9, <1>10 DEF IInv

\* A publish that fails has stored its version or only released the row.
LEMMA IInv_PublishFails ==
    ASSUME IInv, UNCHANGED vars, NEW p \in Publishes, PublishFails(p)
    PROVE  IInv'
<1>1. /\ Finish(p, "error") /\ UNCHANGED <<signed_index, vouched>>
      /\ lock' = (IF lock = p THEN None ELSE lock)
      /\ bumped' = (IF lock = p THEN 0 ELSE bumped)
  BY DEF PublishFails
<1>2. CASE at[p] = "commit" /\ StoreVersion(p)
  <2>1. lock = p
    BY <1>2 DEF IInv, BumpIsNext
  <2> QED
    BY <1>1, <1>2, <2>1, IInv_StoreVersion
<1>3. CASE UNCHANGED <<index_sequence, versions>>
  <2>1. /\ KeysInv' /\ row' = row /\ CounterCoversDocument' /\ StoredIsVouched'
        /\ p \in Actors /\ p \notin Uploads /\ p # None
    BY <1>1, <1>3, StoredUnchanged, ActorsAssumption DEF Actors
  <2>2. CheckedStaysChecked'
    BY <1>1, <2>1, FinishKeepsChecks DEF IInv
  <2>3. IndexTypeOK'
    BY <1>1, <1>3, <2>1, FinishType DEF IInv, IndexTypeOK
  <2>4. at'[p] # "commit" /\ \A q \in Publishes : q # p => at'[q] = at[q]
    BY <1>1, <2>1, FinishType DEF IInv, Actors
  <2>5. BumpIsNext'
    BY <1>1, <1>3, <2>4, ActorsAssumption DEF IInv, BumpIsNext
  <2> QED
    BY <2>1, <2>2, <2>3, <2>5 DEF IInv
<1> QED
  BY <1>2, <1>3 DEF PublishFails

-----------------------------------------------------------------------------
(* The theorems.                                                           *)

\* Every step is a step of the keys or leaves them alone.
LEMMA KeysAreNexts ==
    ASSUME [IndexNext]_allVars PROVE [Next]_vars
BY DEF IndexNext, allVars, vars

\* Every step keeps the inductive invariant.
LEMMA IInv_Step ==
    ASSUME IInv, [IndexNext]_allVars
    PROVE  IInv'
<1>1. KeysInv' /\ Kept
  BY KeysAreNexts, KeysStep DEF IInv
<1>2. CASE UNCHANGED indexVars
  BY <1>1, <1>2, IInv_Keys
<1>3. CASE IndexStep /\ UNCHANGED vars
  <2>1. ASSUME NEW u \in Uploads, UpdateIndex(u) PROVE IInv'
    BY <1>3, <2>1, IInv_StoreIndex DEF UpdateIndex
  <2>2. ASSUME NEW p \in Publishes, CommitVersion(p) PROVE IInv'
    BY <1>3, <2>2, IInv_StoreVersion DEF CommitVersion
  <2> QED
    BY <1>3, <2>1, <2>2, IInv_put_signed_index, IInv_VerifyIndex, IInv_UploadFails,
       IInv_VerifyRelease, IInv_upsert_package, IInv_PublishFails DEF IndexStep
<1> QED
  BY <1>2, <1>3 DEF IndexNext, allVars

\* What uploads, publishes and PUTs of keys rely on between their steps holds
\* throughout, for any number of each.
THEOREM Invariance == IndexSpec => []IInv
<1>1. IInv /\ [IndexNext]_allVars => IInv'
  BY IInv_Step
<1> QED
  BY <1>1, IndexInitially, PTL DEF IndexSpec

\* What verified when it was let through keeps the key it verified against.
LEMMA VouchedResolvesStep ==
    ASSUME IInv, VouchedResolves, [IndexNext]_allVars
    PROVE  VouchedResolves'
<1>1. Kept
  BY KeysAreNexts, KeysStep DEF IInv
<1>2. \/ vouched' = vouched
      \/ /\ UNCHANGED vars
         /\ \E list \in SUBSET Signature : Vouch(list)
  <2>1. CASE UNCHANGED indexVars
    BY <2>1 DEF indexVars
  <2>2. CASE IndexStep /\ UNCHANGED vars
    <3>1. ASSUME NEW u \in Uploads, VerifyIndex(u), vouched' # vouched
          PROVE  \E list \in SUBSET Signature : Vouch(list)
      <4>1. at[u] = "verify" /\ Vouch(document[u].signatures)
        BY <3>1 DEF VerifyIndex
      <4>2. document[u].signatures \in SUBSET Signature
        BY <4>1, DocumentParts DEF IInv, CheckedStaysChecked
      <4> QED
        BY <4>1, <4>2
    <3>2. ASSUME NEW p \in Publishes, VerifyRelease(p), vouched' # vouched
          PROVE  \E list \in SUBSET Signature : Vouch(list)
      BY <3>2, SignaturesAssumption DEF VerifyRelease
    <3>3. \/ vouched' = vouched
          \/ \E u \in Uploads : VerifyIndex(u)
          \/ \E p \in Publishes : VerifyRelease(p)
      BY <2>2 DEF IndexStep, put_signed_index, UpdateIndex, UploadFails, upsert_package,
                  CommitVersion, PublishFails
    <3> QED
      BY <2>2, <3>1, <3>2, <3>3
  <2> QED
    BY <2>1, <2>2 DEF IndexNext, allVars
<1>3. CASE vouched' = vouched
  <2>1. \A s \in vouched : s \in Signature /\ Resolves(s)'
    BY <1>1, ResolvesKept DEF VouchedResolves
  <2> QED
    BY <1>3, <2>1 DEF VouchedResolves
<1>4. ASSUME UNCHANGED vars, NEW list \in SUBSET Signature, Vouch(list)
      PROVE  VouchedResolves'
  <2>1. row' = row
    BY <1>4 DEF vars
  <2>2. \A s \in vouched' : s \in Signature /\ Resolves(s)
    BY <1>4 DEF Vouch, VouchedResolves, verify_one, Resolves
  <2> QED
    BY <2>1, <2>2 DEF VouchedResolves, Resolves
<1> QED
  BY <1>2, <1>3, <1>4

\* Every signed list that put_signed_index and publish have stored has a member
\* that verified when it was let through, and every member that did still names
\* an enrolled key with the material it was made with.
THEOREM SignaturesResolve == IndexSpec => []StoredSignaturesResolve
<1>1. IndexInit => VouchedResolves
  BY SignaturesAssumption DEF IndexInit, VouchedResolves
<1>2. IInv /\ VouchedResolves /\ [IndexNext]_allVars => VouchedResolves'
  BY VouchedResolvesStep
<1>3. IInv /\ VouchedResolves => StoredSignaturesResolve
  BY DEF IInv, StoredSignaturesResolve
<1> QED
  BY <1>1, <1>2, <1>3, Invariance, PTL DEF IndexSpec

\* put_keys never drops an enrolled key and never binds it to other material,
\* however many PUTs overlap and whatever they submit.
THEOREM Permanence == IndexSpec => KeysArePermanent
<1>1. IInv /\ [IndexNext]_allVars =>
         [\A k \in Enrolled(row) : row'[k] # None /\ row'[k].material = row[k].material]_vars
  BY KeysAreNexts, KeysStep DEF IInv, Kept
<1> QED
  BY <1>1, Invariance, PTL DEF IndexSpec, KeysArePermanent

\* A list has at most as many key_ids as entries.
LEMMA IdsAreFew ==
    ASSUME NEW list \in Seq(SubmittedKey)
    PROVE  IsFiniteSet(Ids(list)) /\ Cardinality(Ids(list)) <= Len(list)
<1> DEFINE id == [i \in 1..Len(list) |-> list[i].id]
<1>1. Len(list) \in Nat /\ DOMAIN list = 1..Len(list)
  OBVIOUS
<1>2. id \in Surjection(1..Len(list), Ids(list))
  BY <1>1 DEF Surjection, Ids
<1> HIDE DEF id
<1>3. ExistsSurjection(1..Len(list), Ids(list))
  BY <1>2 DEF ExistsSurjection
<1>4. IsFiniteSet(Ids(list))
  BY <1>1, <1>3, FS_NatSurjection
<1> QED
  BY <1>1, <1>3, <1>4, FS_SurjCardinalityBound

\* A transaction that had loaded the committed set leaves no more keys than it
\* submitted.
LEMMA CommitStaysWithinCap ==
    ASSUME KeysInv, NEW p \in Requests, pc[p] \in {"find", "write"}, row' = Overlaid(p),
           Enrolled(existing[p]) = Enrolled(row)
    PROVE  /\ Cardinality(Enrolled(row')) \in Nat
           /\ Cardinality(Enrolled(row')) <= MAX_KEYS_PER_ORG
<1>1. /\ Len(keys[p]) <= MAX_KEYS_PER_ORG /\ keys[p] \in Seq(SubmittedKey)
      /\ Enrolled(row) \cup Enrolled(written[p]) \subseteq Ids(keys[p])
  BY DEF KeysInv, KeysTypeOK, SubmissionCovers
<1>2. Enrolled(row') \subseteq Ids(keys[p])
  BY <1>1 DEF Enrolled, Overlaid
<1>3. IsFiniteSet(Ids(keys[p])) /\ Cardinality(Ids(keys[p])) <= Len(keys[p])
  BY <1>1, IdsAreFew
<1>4. /\ IsFiniteSet(Enrolled(row'))
      /\ Cardinality(Enrolled(row')) <= Cardinality(Ids(keys[p]))
  BY <1>2, <1>3, FS_Subset
<1>5. /\ Cardinality(Enrolled(row')) \in Nat /\ Cardinality(Ids(keys[p])) \in Nat
      /\ Len(keys[p]) \in Nat
  BY <1>1, <1>3, <1>4, FS_CardinalityType
<1> QED
  BY <1>1, <1>3, <1>4, <1>5, CapAssumption

\* The limit put_keys compares with one submission is exceeded in the table
\* only by a request whose load_keys was out of date at its commit.
THEOREM CapNeedsStaleRead == IndexSpec => CapExceededOnlyByStaleRead
<1>1. IInv /\ [IndexNext]_allVars =>
        [row' # row /\ Cardinality(Enrolled(row')) > MAX_KEYS_PER_ORG
         => \E p \in Requests :
               /\ pc[p] # "done" /\ pc'[p] = "done"
               /\ Enrolled(existing[p]) # Enrolled(row)]_vars
  <2> SUFFICES ASSUME IInv, Next, row' # row,
                      Cardinality(Enrolled(row')) > MAX_KEYS_PER_ORG
               PROVE  \E p \in Requests : /\ pc[p] # "done" /\ pc'[p] = "done"
                                          /\ Enrolled(existing[p]) # Enrolled(row)
    BY KeysAreNexts
  <2>1. PICK p \in Requests : /\ pc[p] = "find" /\ row' = Overlaid(p)
                              /\ Answer(p, "stored") \/ Answer(p, "error")
    BY DEF Next, put_keys, FindKey, WriteKey, CommitKeys, Abort
  <2>2. pc'[p] = "done"
    BY <2>1, AnswerType DEF IInv, KeysInv
  <2>3. ASSUME Enrolled(existing[p]) = Enrolled(row) PROVE FALSE
    <3>1. /\ Cardinality(Enrolled(row')) \in Nat
          /\ Cardinality(Enrolled(row')) <= MAX_KEYS_PER_ORG
      BY <2>1, <2>3, CommitStaysWithinCap DEF IInv
    <3> QED
      BY <3>1, CapAssumption
  <2> QED
    BY <2>1, <2>2, <2>3
<1> QED
  BY <1>1, Invariance, PTL DEF IndexSpec, CapExceededOnlyByStaleRead

\* What a step does to the counter.
LEMMA CounterStep ==
    ASSUME IInv, [IndexNext]_allVars
    PROVE  /\ versions' # versions =>
                 index_sequence' > index_sequence \/ index_sequence = MAX_I64
           /\ index_sequence' < index_sequence =>
                 \E u \in Uploads :
                    /\ at[u] = "update" /\ at'[u] # "update"
                    /\ signed_index' = document[u]
                    /\ \/ document[u].sequence > MAX_I64
                       \/ stored[u] < index_sequence
<1>1. index_sequence \in -(MAX_I64 + 1)..MAX_I64 /\ index_sequence \in Int
  BY WidthAssumption DEF IInv, IndexTypeOK
<1>2. CASE UNCHANGED <<index_sequence, versions>>
  BY <1>1, <1>2
<1>3. ASSUME NEW p \in Publishes, at[p] = "commit", StoreVersion(p)
      PROVE  /\ index_sequence' > index_sequence \/ index_sequence = MAX_I64
             /\ ~(index_sequence' < index_sequence)
  <2>1. index_sequence' = Bump(index_sequence)
    BY <1>3, ActorsAssumption DEF StoreVersion, IInv, BumpIsNext
  <2> QED
    BY <1>1, <2>1, BumpMoves, WidthAssumption
<1>4. ASSUME NEW u \in Uploads, at[u] = "update", StoreIndex(u),
             Finish(u, "accepted") \/ Finish(u, "error"), index_sequence' < index_sequence
      PROVE  /\ at'[u] # "update" /\ signed_index' = document[u]
             /\ document[u].sequence > MAX_I64 \/ stored[u] < index_sequence
  <2>1. /\ signed_index' = document[u]
        /\ index_sequence' = AsI64(document[u].sequence)
    BY <1>4 DEF StoreIndex
  <2>2. at'[u] # "update"
    BY <1>4, FinishType DEF IInv, Actors
  <2>3. document[u].sequence \in U64 /\ document[u].sequence >= AtLeast(stored[u], 0)
    BY <1>4, DocumentParts DEF IInv, CheckedStaysChecked
  <2>4. stored[u] \in Int
    BY DEF IInv, IndexTypeOK
  <2>5. document[u].sequence > MAX_I64 \/ stored[u] < index_sequence
    BY <1>1, <1>4, <2>1, <2>3, <2>4, WidthAssumption DEF U64, AsI64, AtLeast
  <2> QED
    BY <2>1, <2>2, <2>5
<1>5. \/ UNCHANGED <<index_sequence, versions>>
      \/ \E p \in Publishes : at[p] = "commit" /\ StoreVersion(p)
      \/ /\ UNCHANGED versions
         /\ \E u \in Uploads : /\ at[u] = "update" /\ StoreIndex(u)
                               /\ Finish(u, "accepted") \/ Finish(u, "error")
  BY DEF IndexNext, IndexStep, allVars, indexVars, put_signed_index, VerifyIndex, UpdateIndex,
         UploadFails, VerifyRelease, upsert_package, CommitVersion, PublishFails
<1> QED
  BY <1>2, <1>3, <1>4, <1>5

\* A publish moves the counter unless it has saturated, an upload moves it
\* back only when overtaken or out of the column's range, and the counter
\* never falls behind the document get_signed_index serves.
THEOREM CounterFalls == IndexSpec => CounterFallsOnlyWhenOvertaken
<1>1. IInv' => (signed_index' # None /\ signed_index'.sequence <= MAX_I64 =>
                   signed_index'.sequence <= index_sequence')
  BY DEF IInv, CounterCoversDocument
<1>2. IInv /\ IInv' /\ [IndexNext]_allVars =>
        [/\ versions' # versions =>
               index_sequence' > index_sequence \/ index_sequence = MAX_I64
         /\ index_sequence' < index_sequence =>
               \E u \in Uploads :
                  /\ at[u] = "update" /\ at'[u] # "update"
                  /\ signed_index' = document[u]
                  /\ \/ document[u].sequence > MAX_I64
                     \/ stored[u] < index_sequence
         /\ signed_index' # None /\ signed_index'.sequence <= MAX_I64 =>
               signed_index'.sequence <= index_sequence']_allVars
  BY <1>1, CounterStep
<1> QED
  BY <1>2, Invariance, PTL DEF IndexSpec, CounterFallsOnlyWhenOvertaken

====
