-------------------------- MODULE PublicationProofs --------------------------
(***************************************************************************)
(* Publication, proved for any number of requests, versions and digests,   *)
(* any uploads and any combination of faults.                              *)
(***************************************************************************)
EXTENDS Publication, TLAPS

\* Admit preserves the invariant.
LEMMA IInv_Admit ==
    ASSUME IInv, NEW p \in Requests, Admit(p)
    PROVE  IInv'
<1> USE DEF IInv, stores, tables, Admit, Goto, Answer
<1>1. TypeOK'
  <2>1. pc' \in [Requests -> Steps] /\ response' \in [Requests -> Responses]
    BY DEF TypeOK, Steps, Responses
  <2>2. up' \in [Requests -> Uploads \cup {None}]
    BY DEF TypeOK
  <2> QED
    BY <2>1, <2>2 DEF TypeOK
<1>2. RequestIsAdmitted'
  BY DEF TypeOK, RequestIsAdmitted
<1>3. LockDiscipline'
  BY DEF TypeOK, LockDiscipline, InTransaction
<1>4. ObjectOutlivesTransaction'
  <2>1. pc'[p] \in {"check", "done"}
    BY DEF TypeOK
  <2>2. \A q \in Requests \ {p} : pc'[q] = pc[q] /\ up'[q] = up[q]
    BY DEF TypeOK
  <2>3. blob' = blob
    OBVIOUS
  <2> QED
    BY <2>1, <2>2, <2>3 DEF ObjectOutlivesTransaction, artifact_key
<1>5. RecordedBeforeAdopted'
  <2>1. pc'[p] \in {"check", "done"} /\ response'[p] \in {"waiting", "rejected"}
    BY DEF TypeOK, RequestIsAdmitted
  <2>2. \A q \in Requests \ {p} :
           pc'[q] = pc[q] /\ up'[q] = up[q] /\ response'[q] = response[q]
    BY DEF TypeOK
  <2>3. row' = row /\ canonical' = canonical
    OBVIOUS
  <2>4. RecordedBeforeAdopted
    OBVIOUS
  <2> QED
    BY ONLY <2>1, <2>2, <2>3, <2>4
       DEF RecordedBeforeAdopted, Recording, Settled, Facts, FactsOf
<1>6. OnePublisherPerVersion'
  BY DEF TypeOK, OnePublisherPerVersion, Publisher, RequestIsAdmitted
<1>7. NoDanglingArtifact'
  BY DEF TypeOK, NoDanglingArtifact
<1>8. CanonicalFollowsLegacy'
  BY DEF TypeOK, CanonicalFollowsLegacy
<1>9. EveryRowIsAttributable'
  BY DEF TypeOK, EveryRowIsAttributable, RequestIsAdmitted
<1> QED
  BY <1>1, <1>2, <1>3, <1>4, <1>5, <1>6, <1>7, <1>8, <1>9

\* CheckVersion preserves the invariant.
LEMMA IInv_CheckVersion ==
    ASSUME IInv, NEW p \in Requests, CheckVersion(p)
    PROVE  IInv'
<1> USE DEF IInv, stores, tables, CheckVersion, Goto, Answer
<1>1. TypeOK'
  BY DEF TypeOK, Steps, Responses
<1>2. RequestIsAdmitted'
  BY DEF TypeOK, RequestIsAdmitted
<1>3. LockDiscipline'
  BY DEF TypeOK, LockDiscipline, InTransaction
<1>4. ObjectOutlivesTransaction'
  BY DEF TypeOK, ObjectOutlivesTransaction
<1>5. RecordedBeforeAdopted'
  BY DEF TypeOK, RecordedBeforeAdopted, Recording, Settled, legacy_version_matches, Facts, FactsOf
<1>6. OnePublisherPerVersion'
  BY DEF TypeOK, OnePublisherPerVersion, Publisher
<1>7. NoDanglingArtifact'
  BY DEF TypeOK, NoDanglingArtifact
<1>8. CanonicalFollowsLegacy'
  BY DEF TypeOK, CanonicalFollowsLegacy
<1>9. EveryRowIsAttributable'
  BY DEF TypeOK, EveryRowIsAttributable
<1> QED
  BY <1>1, <1>2, <1>3, <1>4, <1>5, <1>6, <1>7, <1>8, <1>9

\* PutGithubAlias preserves the invariant.
LEMMA IInv_PutGithubAlias ==
    ASSUME IInv, NEW p \in Requests, PutGithubAlias(p)
    PROVE  IInv'
<1> USE DEF IInv, stores, tables, PutGithubAlias, Goto, Holds, Stored, MaybeStored
<1>1. TypeOK'
  BY UploadsAssumption DEF TypeOK, Steps, Responses, RequestIsAdmitted, Upload, github_alias
<1>2. RequestIsAdmitted'
  BY DEF TypeOK, RequestIsAdmitted
<1>3. LockDiscipline'
  BY DEF TypeOK, LockDiscipline, InTransaction
<1>4. ObjectOutlivesTransaction'
  BY DEF TypeOK, ObjectOutlivesTransaction
<1>5. RecordedBeforeAdopted'
  BY DEF TypeOK, RecordedBeforeAdopted, Recording, Settled
<1>6. OnePublisherPerVersion'
  BY DEF TypeOK, OnePublisherPerVersion, Publisher
<1>7. NoDanglingArtifact'
  BY DEF TypeOK, NoDanglingArtifact
<1>8. CanonicalFollowsLegacy'
  BY DEF TypeOK, CanonicalFollowsLegacy
<1>9. EveryRowIsAttributable'
  BY DEF TypeOK, EveryRowIsAttributable
<1> QED
  BY <1>1, <1>2, <1>3, <1>4, <1>5, <1>6, <1>7, <1>8, <1>9

\* PutPackageAlias preserves the invariant.
LEMMA IInv_PutPackageAlias ==
    ASSUME IInv, NEW p \in Requests, PutPackageAlias(p)
    PROVE  IInv'
<1> USE DEF IInv, stores, tables, PutPackageAlias, Goto, Holds, Stored, MaybeStored
<1>1. TypeOK'
  BY UploadsAssumption DEF TypeOK, Steps, Responses, RequestIsAdmitted, Upload, package_alias
<1>2. RequestIsAdmitted'
  BY DEF TypeOK, RequestIsAdmitted
<1>3. LockDiscipline'
  BY DEF TypeOK, LockDiscipline, InTransaction
<1>4. ObjectOutlivesTransaction'
  BY DEF TypeOK, ObjectOutlivesTransaction
<1>5. RecordedBeforeAdopted'
  BY DEF TypeOK, RecordedBeforeAdopted, Recording, Settled
<1>6. OnePublisherPerVersion'
  BY DEF TypeOK, OnePublisherPerVersion, Publisher
<1>7. NoDanglingArtifact'
  BY DEF TypeOK, NoDanglingArtifact
<1>8. CanonicalFollowsLegacy'
  BY DEF TypeOK, CanonicalFollowsLegacy
<1>9. EveryRowIsAttributable'
  BY DEF TypeOK, EveryRowIsAttributable
<1> QED
  BY <1>1, <1>2, <1>3, <1>4, <1>5, <1>6, <1>7, <1>8, <1>9

\* UpsertPackage preserves the invariant.
LEMMA IInv_UpsertPackage ==
    ASSUME IInv, NEW p \in Requests, UpsertPackage(p)
    PROVE  IInv'
<1> USE DEF IInv, stores, tables, UpsertPackage, Goto
<1>1. TypeOK'
  BY DEF TypeOK, Steps, Responses
<1>2. RequestIsAdmitted'
  BY DEF TypeOK, RequestIsAdmitted
<1>3. LockDiscipline'
  BY NoneAssumption DEF TypeOK, LockDiscipline, InTransaction
<1>4. ObjectOutlivesTransaction'
  BY DEF TypeOK, ObjectOutlivesTransaction
<1>5. RecordedBeforeAdopted'
  BY DEF TypeOK, RecordedBeforeAdopted, Recording, Settled
<1>6. OnePublisherPerVersion'
  BY DEF TypeOK, OnePublisherPerVersion, Publisher
<1>7. NoDanglingArtifact'
  BY DEF TypeOK, NoDanglingArtifact
<1>8. CanonicalFollowsLegacy'
  BY DEF TypeOK, CanonicalFollowsLegacy
<1>9. EveryRowIsAttributable'
  BY DEF TypeOK, EveryRowIsAttributable
<1> QED
  BY <1>1, <1>2, <1>3, <1>4, <1>5, <1>6, <1>7, <1>8, <1>9

\* InsertVersion preserves the invariant.
LEMMA IInv_InsertVersion ==
    ASSUME IInv, NEW p \in Requests, InsertVersion(p)
    PROVE  IInv'
<1> USE DEF IInv, stores, tables, InsertVersion, Goto
<1>1. TypeOK'
  BY DEF TypeOK, Steps, Responses
<1>2. RequestIsAdmitted'
  BY DEF TypeOK, RequestIsAdmitted
<1>3. LockDiscipline'
  BY NoneAssumption DEF TypeOK, LockDiscipline, InTransaction
<1>4. ObjectOutlivesTransaction'
  BY DEF TypeOK, ObjectOutlivesTransaction
<1>5. RecordedBeforeAdopted'
  BY DEF TypeOK, RecordedBeforeAdopted, Recording, Settled
<1>6. OnePublisherPerVersion'
  BY DEF TypeOK, OnePublisherPerVersion, Publisher
<1>7. NoDanglingArtifact'
  BY DEF TypeOK, NoDanglingArtifact
<1>8. CanonicalFollowsLegacy'
  BY DEF TypeOK, CanonicalFollowsLegacy
<1>9. EveryRowIsAttributable'
  BY DEF TypeOK, EveryRowIsAttributable
<1> QED
  BY <1>1, <1>2, <1>3, <1>4, <1>5, <1>6, <1>7, <1>8, <1>9

\* RereadVersion preserves the invariant.
LEMMA IInv_RereadVersion ==
    ASSUME IInv, NEW p \in Requests, RereadVersion(p)
    PROVE  IInv'
<1> USE DEF IInv, stores, tables, RereadVersion, Goto, Answer
<1>1. TypeOK'
  BY DEF TypeOK, Steps, Responses
<1>2. RequestIsAdmitted'
  BY DEF TypeOK, RequestIsAdmitted
<1>3. LockDiscipline'
  BY DEF TypeOK, LockDiscipline, InTransaction
<1>4. ObjectOutlivesTransaction'
  BY DEF TypeOK, ObjectOutlivesTransaction
<1>5. RecordedBeforeAdopted'
  BY DEF TypeOK, RecordedBeforeAdopted, Recording, Settled, legacy_version_matches, Facts, FactsOf
<1>6. OnePublisherPerVersion'
  BY DEF TypeOK, OnePublisherPerVersion, Publisher
<1>7. NoDanglingArtifact'
  BY DEF TypeOK, NoDanglingArtifact
<1>8. CanonicalFollowsLegacy'
  BY DEF TypeOK, CanonicalFollowsLegacy
<1>9. EveryRowIsAttributable'
  BY DEF TypeOK, EveryRowIsAttributable
<1> QED
  BY <1>1, <1>2, <1>3, <1>4, <1>5, <1>6, <1>7, <1>8, <1>9

\* AuditPublish preserves the invariant.
LEMMA IInv_AuditPublish ==
    ASSUME IInv, NEW p \in Requests, AuditPublish(p)
    PROVE  IInv'
<1> USE DEF IInv, stores, tables, AuditPublish, Answer
<1>1. TypeOK'
  BY UploadsAssumption DEF TypeOK, Steps, Responses, RequestIsAdmitted, Upload
<1>2. RequestIsAdmitted'
  BY DEF TypeOK, RequestIsAdmitted
<1>3. LockDiscipline'
  BY DEF TypeOK, LockDiscipline, InTransaction
<1>4. ObjectOutlivesTransaction'
  BY DEF TypeOK, ObjectOutlivesTransaction
<1>5. RecordedBeforeAdopted'
  BY DEF TypeOK, RecordedBeforeAdopted, Recording, Settled
<1>6. OnePublisherPerVersion'
  BY DEF TypeOK, OnePublisherPerVersion, Publisher
<1>7. NoDanglingArtifact'
  BY DEF TypeOK, NoDanglingArtifact
<1>8. CanonicalFollowsLegacy'
  BY DEF TypeOK, CanonicalFollowsLegacy
<1>9. EveryRowIsAttributable'
  BY DEF TypeOK, EveryRowIsAttributable
<1> QED
  BY <1>1, <1>2, <1>3, <1>4, <1>5, <1>6, <1>7, <1>8, <1>9

\* What put_verified may do to the content-addressed objects: an object that
\* exists is never replaced, whatever the outcome.
LEMMA PutBlobKeepsObjects ==
    ASSUME IInv, NEW p \in Requests, pc[p] = "put",
           \/ /\ Holds(blob, artifact_key(up[p]), up[p].sha)
              /\ blob' = Stored(blob, artifact_key(up[p]), up[p].sha)
           \/ blob' \in MaybeStored(blob, artifact_key(up[p]), up[p].sha)
    PROVE  /\ blob' \in [Digests \X Formats -> Digests \cup {None, Foreign}]
           /\ \A k \in Digests \X Formats : blob[k] # None => blob'[k] = blob[k]
           /\ blob' = Stored(blob, artifact_key(up[p]), up[p].sha)
                => blob'[artifact_key(up[p])] = up[p].sha
<1>1. /\ artifact_key(up[p]) \in Digests \X Formats
      /\ up[p].sha \in Digests
  BY UploadsAssumption DEF IInv, TypeOK, RequestIsAdmitted, Upload, artifact_key
<1> DEFINE k == artifact_key(up[p])
<1>2. blob' = blob \/ (blob[k] \in {None, up[p].sha} /\ blob' = [blob EXCEPT ![k] = up[p].sha])
  BY DEF Holds, Stored, MaybeStored
<1>3. blob \in [Digests \X Formats -> Digests \cup {None, Foreign}]
  BY DEF IInv, TypeOK
<1> HIDE DEF k
<1> QED
  BY <1>1, <1>2, <1>3 DEF Stored, k

\* A request that only adds objects under its own key, and then stops or goes
\* on, keeps the invariant.
LEMMA IInv_PutEffect ==
    ASSUME IInv, NEW p \in Requests, pc[p] = "put",
           blob' \in [Digests \X Formats -> Digests \cup {None, Foreign}],
           \A k \in Digests \X Formats : blob[k] # None => blob'[k] = blob[k],
           \/ /\ pc' = [pc EXCEPT ![p] = "done"]
              /\ \E answer \in {"error", "dropped"} :
                    response' = [response EXCEPT ![p] = answer]
           \/ /\ \E step \in {"alias_github", "begin"} : pc' = [pc EXCEPT ![p] = step]
              /\ response' = response
              /\ blob'[artifact_key(up[p])] = up[p].sha,
           UNCHANGED <<up, ghAlias, pkgAlias, package, row, lock, canonical, audited>>
    PROVE  IInv'
<1> USE DEF IInv
<1>1. TypeOK'
  BY DEF TypeOK, Steps, Responses
<1>2. RequestIsAdmitted'
  BY DEF TypeOK, RequestIsAdmitted
<1>3. LockDiscipline'
  BY DEF TypeOK, LockDiscipline, InTransaction
<1>4. ObjectOutlivesTransaction'
  <2> SUFFICES ASSUME NEW q \in Requests,
                      pc'[q] \in {"alias_github", "alias_package", "begin",
                                  "insert", "commit"}
               PROVE  blob'[artifact_key(up[q])] = up[q].sha
    BY DEF ObjectOutlivesTransaction, artifact_key
  <2>1. CASE q = p
    BY <2>1 DEF TypeOK
  <2>2. CASE q # p
    <3>1. pc[q] = pc'[q]
      BY <2>2 DEF TypeOK
    <3>2. /\ artifact_key(up[q]) \in Digests \X Formats
          /\ up[q].sha \in Digests
      BY <3>1, UploadsAssumption
         DEF TypeOK, RequestIsAdmitted, Upload, artifact_key
    <3> QED
      BY <3>1, <3>2, NoneAssumption DEF ObjectOutlivesTransaction
  <2> QED
    BY <2>1, <2>2
<1>5. RecordedBeforeAdopted'
  BY DEF TypeOK, RecordedBeforeAdopted, Recording, Settled
<1>6. OnePublisherPerVersion'
  BY DEF TypeOK, OnePublisherPerVersion, Publisher
<1>7. NoDanglingArtifact'
  <2> SUFFICES ASSUME NEW v \in Versions, row[v] # None
               PROVE  blob'[<<row[v].sha, row[v].format>>] = row[v].sha
    BY DEF NoDanglingArtifact
  <2>1. row[v].sha \in Digests /\ row[v].format \in Formats
    BY DEF TypeOK, VersionRow
  <2> QED
    BY <2>1, NoneAssumption DEF NoDanglingArtifact
<1>8. CanonicalFollowsLegacy' /\ EveryRowIsAttributable'
  BY DEF CanonicalFollowsLegacy, EveryRowIsAttributable
<1> QED
  BY <1>1, <1>2, <1>3, <1>4, <1>5, <1>6, <1>7, <1>8

\* PutBlob preserves the invariant.
LEMMA IInv_PutBlob ==
    ASSUME IInv, NEW p \in Requests, PutBlob(p)
    PROVE  IInv'
<1> DEFINE k == artifact_key(up[p])
           d == up[p].sha
<1>1. UNCHANGED <<up, ghAlias, pkgAlias, package, row, lock, canonical, audited>>
  BY DEF PutBlob, tables
<1>2. CASE /\ Holds(blob, k, d)
           /\ blob' = Stored(blob, k, d)
           /\ Goto(p, IF HasAliases THEN "alias_github" ELSE "begin")
  BY <1>1, <1>2, PutBlobKeepsObjects, IInv_PutEffect DEF PutBlob, Goto
<1>3. CASE blob' \in MaybeStored(blob, k, d) /\ Answer(p, "error")
  BY <1>1, <1>3, PutBlobKeepsObjects, IInv_PutEffect DEF PutBlob, Answer
<1> QED
  BY <1>2, <1>3 DEF PutBlob, MaybeStored

\* A step that sets the facts of an already recorded release in the canonical
\* plane, or leaves it alone, keeps the invariant.
LEMMA IInv_AdoptEffect ==
    ASSUME IInv, NEW p \in Requests,
           pc[p] \in {"adopt", "reconcile", "reconcile_lost"},
           canonical' = canonical \/ canonical' = Adopted(up[p]),
           \/ /\ pc' = [pc EXCEPT ![p] = "audit"] /\ response' = response
              /\ pc[p] = "adopt" /\ canonical' = Adopted(up[p])
           \/ /\ pc' = [pc EXCEPT ![p] = "done"]
              /\ \E answer \in {"reconciled", "version_exists", "error", "dropped"} :
                    /\ response' = [response EXCEPT ![p] = answer]
                    /\ answer = "reconciled" => canonical' = Adopted(up[p]),
           UNCHANGED <<up, stores, tables, lock, audited>>
    PROVE  IInv'
<1> USE DEF IInv, stores, tables
<1>1. up[p].version \in Versions /\ Facts(up[p]) \in VersionFacts
  BY UploadsAssumption
     DEF TypeOK, RequestIsAdmitted, Upload, Facts, VersionFacts
<1>2. /\ row[up[p].version] # None
      /\ FactsOf(row[up[p].version]) = Facts(up[p])
  BY DEF RecordedBeforeAdopted, Recording
<1>3. \A v \in Versions :
        canonical'[v] = IF canonical' # canonical /\ v = up[p].version
                        THEN Facts(up[p]) ELSE canonical[v]
  BY <1>1 DEF TypeOK, Adopted
<1>4. canonical' \in [Versions -> VersionFacts \cup {None}]
  BY <1>1 DEF TypeOK, Adopted
<1>5. TypeOK'
  BY <1>4 DEF TypeOK, Steps, Responses
<1>6. RequestIsAdmitted' /\ LockDiscipline' /\ ObjectOutlivesTransaction'
  BY DEF TypeOK, RequestIsAdmitted, LockDiscipline, InTransaction,
         ObjectOutlivesTransaction
<1>7. RecordedBeforeAdopted'
  <2> SUFFICES ASSUME NEW q \in Requests
               PROVE  /\ pc'[q] = "reread" => row[up[q].version] # None
                      /\ Recording(q)' =>
                            /\ row[up[q].version] # None
                            /\ FactsOf(row[up[q].version]) = Facts(up[q])
                      /\ Settled(q)' => canonical'[up[q].version] = Facts(up[q])
    BY DEF RecordedBeforeAdopted, Facts, FactsOf
  <2>1. CASE q = p
    <3>1. Settled(p)' => canonical' = Adopted(up[p])
      BY <2>1 DEF TypeOK, Settled, RequestIsAdmitted
    <3>2. canonical' = Adopted(up[p]) => canonical'[up[p].version] = Facts(up[p])
      BY <1>1 DEF TypeOK, Adopted
    <3> QED
      BY <2>1, <1>2, <3>1, <3>2 DEF TypeOK
  <2>2. CASE q # p
    <3>1. /\ pc'[q] = pc[q] /\ response'[q] = response[q]
      BY <2>2 DEF TypeOK
    <3>2. (Settled(q)' <=> Settled(q)) /\ (Recording(q)' <=> Recording(q))
      BY <3>1 DEF Settled, Recording
    <3>3. Settled(q) => up[q].version \in Versions /\ Recording(q)
      BY UploadsAssumption DEF TypeOK, Settled, Recording, RequestIsAdmitted, Upload
    <3> QED
      BY <1>2, <1>3, <3>1, <3>2, <3>3 DEF RecordedBeforeAdopted
  <2> QED
    BY <2>1, <2>2
<1>8. OnePublisherPerVersion'
  BY DEF TypeOK, OnePublisherPerVersion, Publisher
<1>9. CanonicalFollowsLegacy'
  BY <1>2, <1>3 DEF TypeOK, CanonicalFollowsLegacy, FactsOf
<1>10. NoDanglingArtifact' /\ EveryRowIsAttributable'
  BY DEF NoDanglingArtifact, EveryRowIsAttributable
<1> QED
  BY <1>5, <1>6, <1>7, <1>8, <1>9, <1>10

\* AdoptCanonical preserves the invariant at each of its three call sites.
LEMMA IInv_AdoptCanonical ==
    ASSUME IInv, NEW p \in Requests, AdoptCanonical(p)
    PROVE  IInv'
BY IInv_AdoptEffect DEF AdoptCanonical, Goto, Answer

\* Steps that keep every row and its facts, such as yank, and add at most the
\* row of p's own upload, such as COMMIT.
LEMMA IInv_RowEffect ==
    ASSUME IInv, NEW p \in Requests,
           row' \in [Versions -> VersionRow \cup {None}],
           package' \in PackageRow \cup {None},
           \A v \in Versions :
              row[v] # None => /\ row'[v] # None
                               /\ FactsOf(row'[v]) = FactsOf(row[v])
                               /\ row'[v].sha = row[v].sha
                               /\ row'[v].format = row[v].format,
           \/ /\ pc[p] = "idle"
              /\ \A v \in Versions : row[v] = None => row'[v] = None
              /\ UNCHANGED lock
           \/ /\ pc[p] = "commit"
              /\ \A v \in Versions \ {up[p].version} : row'[v] = row[v]
              /\ row'[up[p].version] = NewRow(up[p])
              /\ lock' = None,
           \/ /\ pc[p] = "commit"
              /\ pc' = [pc EXCEPT ![p] = "adopt"]
              /\ UNCHANGED response
           \/ /\ pc' = [pc EXCEPT ![p] = "done"]
              /\ \E answer \in {"error", "dropped", "yanked", "not_found"} :
                    response' = [response EXCEPT ![p] = answer],
           UNCHANGED <<up, stores, canonical, audited>>
    PROVE  IInv'
<1> USE DEF IInv, stores
<1> DEFINE w == up[p].version
<1>1. pc[p] = "commit" =>
        /\ up[p] \in Uploads /\ Admissible(up[p])
        /\ w \in Versions /\ row[w] = None
        /\ row'[w] # None
        /\ FactsOf(row'[w]) = Facts(up[p])
        /\ row'[w].sha = up[p].sha /\ row'[w].format = up[p].format
  <2> SUFFICES ASSUME pc[p] = "commit"
               PROVE  /\ up[p] \in Uploads /\ Admissible(up[p])
                      /\ w \in Versions /\ row[w] = None
                      /\ row'[w] # None
                      /\ FactsOf(row'[w]) = Facts(up[p])
                      /\ row'[w].sha = up[p].sha
                      /\ row'[w].format = up[p].format
    OBVIOUS
  <2>1. up[p] \in Upload /\ up[p] \in Uploads /\ Admissible(up[p])
    BY UploadsAssumption DEF RequestIsAdmitted
  <2>2. row[w] = None
    BY DEF LockDiscipline
  <2>3. NewRow(up[p]) \in VersionRow
    BY <2>1 DEF NewRow, VersionRow, Upload
  <2>4. row'[w] = NewRow(up[p])
    BY DEF w
  <2>5. row'[w] # None
    BY <2>3, <2>4, NoneAssumption
  <2>6. /\ FactsOf(row'[w]) = Facts(up[p])
        /\ row'[w].sha = up[p].sha /\ row'[w].format = up[p].format
    BY <2>4 DEF NewRow, Facts, FactsOf
  <2>7. w \in Versions
    BY <2>1 DEF Upload, w
  <2> QED
    BY <2>1, <2>2, <2>5, <2>6, <2>7
<1> HIDE DEF w
<1>2. TypeOK'
  BY NoneAssumption DEF TypeOK, Steps, Responses
<1>3. RequestIsAdmitted'
  BY DEF TypeOK, RequestIsAdmitted
<1>4. LockDiscipline'
  <2>0. \A q \in Requests : lock' = q => pc'[q] \in InTransaction
    BY NoneAssumption DEF TypeOK, LockDiscipline, InTransaction
  <2> SUFFICES ASSUME NEW q \in Requests, pc'[q] \in InTransaction
               PROVE  /\ lock' = q
                      /\ pc'[q] = "commit" => row'[up[q].version] = None
    BY <2>0 DEF LockDiscipline, InTransaction
  <2>1. q # p /\ pc[q] = pc'[q]
    BY DEF TypeOK, InTransaction
  <2>2. lock = q
    BY <2>1 DEF LockDiscipline
  <2>3. pc[p] # "commit"
    BY <2>1, <2>2 DEF LockDiscipline, InTransaction
  <2>4. up[q].version \in Versions
    BY <2>1, UploadsAssumption DEF RequestIsAdmitted, Upload, InTransaction
  <2> QED
    BY <2>1, <2>2, <2>3, <2>4 DEF LockDiscipline
<1>5. ObjectOutlivesTransaction'
  BY DEF TypeOK, ObjectOutlivesTransaction, artifact_key
<1>6. RecordedBeforeAdopted'
  <2> SUFFICES ASSUME NEW q \in Requests
               PROVE  /\ pc'[q] = "reread" => row'[up[q].version] # None
                      /\ Recording(q)' =>
                            /\ row'[up[q].version] # None
                            /\ FactsOf(row'[up[q].version]) = Facts(up[q])
                      /\ Settled(q)' => canonical[up[q].version] = Facts(up[q])
    BY DEF RecordedBeforeAdopted, Facts, FactsOf
  <2>1. CASE q = p
    BY <2>1, <1>1 DEF TypeOK, Recording, Settled, RequestIsAdmitted, w
  <2>2. CASE q # p
    <3>1. pc'[q] = pc[q] /\ response'[q] = response[q]
      BY <2>2 DEF TypeOK
    <3>2. (Settled(q)' <=> Settled(q)) /\ (Recording(q)' <=> Recording(q))
      BY <3>1 DEF Settled, Recording
    <3>3. Recording(q) \/ pc[q] = "reread" => up[q].version \in Versions
      BY UploadsAssumption DEF TypeOK, Settled, Recording, RequestIsAdmitted, Upload
    <3> QED
      BY <3>1, <3>2, <3>3 DEF RecordedBeforeAdopted, Recording
  <2> QED
    BY <2>1, <2>2
<1>7. OnePublisherPerVersion'
  <2>1. ASSUME NEW q \in Requests, q # p, Publisher(q)', Publisher(p)',
               up[q].version = up[p].version
        PROVE  FALSE
    <3>1. Publisher(q) /\ Recording(q)
      BY <2>1 DEF TypeOK, Publisher, Recording, Settled
    <3>2. row[up[q].version] # None
      BY <3>1 DEF RecordedBeforeAdopted
    <3>3. pc[p] = "commit"
      BY <2>1 DEF TypeOK, Publisher, RequestIsAdmitted
    <3> QED
      BY <2>1, <3>2, <3>3, <1>1 DEF w
  <2>2. \A q \in Requests \ {p} : Publisher(q)' => Publisher(q)
    BY DEF TypeOK, Publisher
  <2> QED
    BY <2>1, <2>2 DEF OnePublisherPerVersion
<1>8. NoDanglingArtifact'
  <2> SUFFICES ASSUME NEW v \in Versions, row'[v] # None
               PROVE  blob[<<row'[v].sha, row'[v].format>>] = row'[v].sha
    BY DEF NoDanglingArtifact
  <2>1. CASE row[v] # None
    BY <2>1 DEF NoDanglingArtifact
  <2>2. CASE row[v] = None
    BY <2>2, <1>1 DEF ObjectOutlivesTransaction, artifact_key, w
  <2> QED
    BY <2>1, <2>2
<1>9. CanonicalFollowsLegacy'
  BY DEF TypeOK, CanonicalFollowsLegacy, FactsOf
<1>10. EveryRowIsAttributable'
  <2>1. ASSUME NEW v \in Versions, row'[v] # None
        PROVE  \E q \in Requests :
                  /\ up[q] # None
                  /\ up[q].version = v
                  /\ Facts(up[q]) = FactsOf(row'[v])
                  /\ up[q].declared = row'[v].sha
                  /\ authorize_publish(Scope[up[q].token],
                                       RoleOf[up[q].token], Org) = "ok"
    <3>1. CASE row[v] # None
      BY <2>1, <3>1 DEF EveryRowIsAttributable
    <3>2. CASE row[v] = None
      BY <2>1, <3>2, <1>1, NoneAssumption DEF Admissible, w
    <3> QED
      BY <3>1, <3>2
  <2>2. up' = up
    OBVIOUS
  <2> QED
    BY ONLY <2>1, <2>2 DEF EveryRowIsAttributable, Facts, FactsOf
<1> QED
  BY <1>2, <1>3, <1>4, <1>5, <1>6, <1>7, <1>8, <1>9, <1>10

\* yank preserves the invariant: it flips a flag of a row that stays.
LEMMA IInv_yank ==
    ASSUME IInv, NEW p \in Requests, yank(p)
    PROVE  IInv'
<1>1. PICK v \in Versions, flag \in BOOLEAN :
        \/ row[v] = None /\ row' = row /\ Answer(p, "not_found")
        \/ /\ row[v] # None
           /\ row' = [row EXCEPT ![v].yanked = flag]
           /\ Answer(p, "yanked")
  BY DEF yank
<1>2. CASE row' = row
  BY <1>1, <1>2, IInv_RowEffect DEF yank, Answer, IInv, TypeOK, stores
<1>3. CASE row[v] # None /\ row' = [row EXCEPT ![v].yanked = flag]
  <2>1. row[v] \in VersionRow /\ row'[v] = [row[v] EXCEPT !.yanked = flag]
    BY <1>3 DEF IInv, TypeOK
  <2>2. /\ row'[v] \in VersionRow
        /\ row'[v].sha = row[v].sha /\ row'[v].format = row[v].format
        /\ row'[v].tag = row[v].tag
    BY <2>1 DEF VersionRow
  <2>3. \A u \in Versions \ {v} : row'[u] = row[u]
    BY <1>3 DEF IInv, TypeOK
  <2>4. row' \in [Versions -> VersionRow \cup {None}]
    BY <1>3, <2>2 DEF IInv, TypeOK
  <2>5. \A u \in Versions :
           row[u] # None => /\ row'[u] # None
                            /\ FactsOf(row'[u]) = FactsOf(row[u])
                            /\ row'[u].sha = row[u].sha
                            /\ row'[u].format = row[u].format
    BY <2>2, <2>3, NoneAssumption DEF FactsOf
  <2> QED
    BY <1>1, <1>3, <2>3, <2>4, <2>5, IInv_RowEffect
       DEF yank, Answer, IInv, TypeOK
<1> QED
  BY <1>1, <1>2, <1>3

\* A COMMIT that takes effect preserves the invariant, whether its request
\* learns of it or not.
LEMMA IInv_Publish ==
    ASSUME IInv, NEW p \in Requests, pc[p] = "commit", Publish(p), lock' = None,
           \/ pc' = [pc EXCEPT ![p] = "adopt"] /\ UNCHANGED response
           \/ /\ pc' = [pc EXCEPT ![p] = "done"]
              /\ \E answer \in {"error", "dropped"} :
                    response' = [response EXCEPT ![p] = answer],
           UNCHANGED <<up, stores, canonical, audited>>
    PROVE  IInv'
<1>1. up[p] \in Upload
  BY UploadsAssumption DEF IInv, RequestIsAdmitted
<1>2. up[p].version \in Versions /\ up[p].meta \in Metas
  BY <1>1 DEF Upload
<1>3. NewRow(up[p]) \in VersionRow
  BY <1>1 DEF NewRow, VersionRow, Upload
<1>4. package' \in PackageRow \cup {None}
  <2>1. package # None => package.index_sequence \in 0..MaxSequence
    BY DEF IInv, TypeOK, PackageRow
  <2>2. package'.index_sequence \in 0..MaxSequence
    BY <2>1, SequenceAssumption DEF Publish, PublishedPackage, Bumped
  <2> QED
    BY <2>2, <1>2 DEF Publish, PublishedPackage, PackageRow
<1>5. row' = [row EXCEPT ![up[p].version] = NewRow(up[p])]
  BY DEF Publish
<1>6. row[up[p].version] = None
  BY DEF IInv, LockDiscipline
<1>7. row' \in [Versions -> VersionRow \cup {None}]
  BY <1>2, <1>3, <1>5 DEF IInv, TypeOK
<1>8. /\ \A v \in Versions \ {up[p].version} : row'[v] = row[v]
      /\ row'[up[p].version] = NewRow(up[p])
  BY <1>2, <1>5 DEF IInv, TypeOK
<1> QED
  BY <1>4, <1>6, <1>7, <1>8, IInv_RowEffect

\* A request that stops without any effect but the release of its lock.
LEMMA IInv_Abandon ==
    ASSUME IInv, NEW p \in Requests, pc[p] \notin {"idle", "done"},
           pc' = [pc EXCEPT ![p] = "done"],
           \E answer \in {"error", "dropped"} :
              response' = [response EXCEPT ![p] = answer],
           lock' = IF lock = p THEN None ELSE lock,
           ghAlias' \in [Tags \X Versions \X Formats -> Digests \cup {None}],
           pkgAlias' \in [Versions \X Formats -> Digests \cup {None}],
           audited' \in SUBSET Versions,
           UNCHANGED <<up, blob, tables, canonical>>
    PROVE  IInv'
<1> USE DEF IInv, tables
<1>1. TypeOK'
  BY DEF TypeOK, Steps, Responses
<1>2. RequestIsAdmitted'
  BY DEF TypeOK, RequestIsAdmitted
<1>3. LockDiscipline'
  BY NoneAssumption DEF TypeOK, LockDiscipline, InTransaction
<1>4. ObjectOutlivesTransaction'
  BY DEF TypeOK, ObjectOutlivesTransaction
<1>5. RecordedBeforeAdopted'
  BY DEF TypeOK, RecordedBeforeAdopted, Recording, Settled
<1>6. OnePublisherPerVersion'
  BY DEF TypeOK, OnePublisherPerVersion, Publisher
<1>7. NoDanglingArtifact' /\ CanonicalFollowsLegacy' /\ EveryRowIsAttributable'
  BY DEF NoDanglingArtifact, CanonicalFollowsLegacy, EveryRowIsAttributable
<1> QED
  BY <1>1, <1>2, <1>3, <1>4, <1>5, <1>6, <1>7

\* DatabaseError preserves the invariant.
LEMMA IInv_DatabaseError ==
    ASSUME IInv, NEW p \in Requests, DatabaseError(p)
    PROVE  IInv'
<1>1. CASE UNCHANGED tables
  BY <1>1, IInv_Abandon
     DEF DatabaseError, Answer, stores, IInv, TypeOK
<1>2. CASE pc[p] = "commit" /\ Publish(p)
  <2>1. lock' = None
    BY <1>2 DEF DatabaseError, IInv, LockDiscipline, InTransaction
  <2> QED
    BY <1>2, <2>1, IInv_Publish DEF DatabaseError, Answer
<1> QED
  BY <1>1, <1>2 DEF DatabaseError

\* Drop preserves the invariant, whatever the awaited operation still did.
LEMMA IInv_Drop ==
    ASSUME IInv, NEW p \in Requests, Drop(p)
    PROVE  IInv'
<1>1. /\ pc[p] \notin {"idle", "done"}
      /\ pc' = [pc EXCEPT ![p] = "done"]
      /\ response' = [response EXCEPT ![p] = "dropped"]
      /\ lock' = IF lock = p THEN None ELSE lock
      /\ UNCHANGED up
  BY DEF Drop, Answer
<1>2. up[p] \in Upload
  BY <1>1, UploadsAssumption DEF IInv, RequestIsAdmitted
<1>4. CASE UNCHANGED <<stores, tables, canonical, audited>>
  BY <1>1, <1>4, IInv_Abandon DEF stores, IInv, TypeOK
<1>5. CASE pc[p] = "commit" /\ Publish(p) /\ UNCHANGED <<stores, canonical, audited>>
  <2>1. lock' = None
    BY <1>1, <1>5 DEF IInv, LockDiscipline, InTransaction
  <2> QED
    BY <1>1, <1>5, <2>1, IInv_Publish
<1>6. CASE /\ pc[p] = "alias_github"
           /\ ghAlias' \in MaybeStored(ghAlias, github_alias(up[p]), up[p].sha)
           /\ UNCHANGED <<blob, pkgAlias, tables, canonical, audited>>
  <2>1. ghAlias' \in [Tags \X Versions \X Formats -> Digests \cup {None}]
    BY <1>2, <1>6 DEF IInv, TypeOK, MaybeStored, Stored, github_alias, Upload
  <2> QED
    BY <1>1, <1>6, <2>1, IInv_Abandon DEF IInv, TypeOK
<1>7. CASE /\ pc[p] = "alias_package"
           /\ pkgAlias' \in MaybeStored(pkgAlias, package_alias(up[p]), up[p].sha)
           /\ UNCHANGED <<blob, ghAlias, tables, canonical, audited>>
  <2>1. pkgAlias' \in [Versions \X Formats -> Digests \cup {None}]
    BY <1>2, <1>7 DEF IInv, TypeOK, MaybeStored, Stored, package_alias, Upload
  <2> QED
    BY <1>1, <1>7, <2>1, IInv_Abandon DEF IInv, TypeOK
<1>8. CASE /\ pc[p] = "audit"
           /\ audited' = audited \cup {up[p].version}
           /\ UNCHANGED <<stores, tables, canonical>>
  <2>1. audited' \in SUBSET Versions
    BY <1>2, <1>8 DEF IInv, TypeOK, Upload
  <2> QED
    BY <1>1, <1>8, <2>1, IInv_Abandon DEF IInv, TypeOK, stores
<1>9. CASE /\ pc[p] = "put"
           /\ blob' \in MaybeStored(blob, artifact_key(up[p]), up[p].sha)
           /\ UNCHANGED <<ghAlias, pkgAlias, tables, canonical, audited>>
  <2>1. lock # p
    BY <1>9 DEF IInv, LockDiscipline, InTransaction
  <2> QED
    BY <1>1, <1>9, <2>1, PutBlobKeepsObjects, IInv_PutEffect DEF tables
<1>10. CASE /\ pc[p] \in {"adopt", "reconcile", "reconcile_lost"}
            /\ Adoptable(up[p])
            /\ canonical' = Adopted(up[p])
            /\ UNCHANGED <<stores, tables, audited>>
  <2>1. lock # p
    BY <1>10 DEF IInv, LockDiscipline, InTransaction
  <2> QED
    BY <1>1, <1>10, <2>1, IInv_AdoptEffect
<1> QED
  BY <1>4, <1>5, <1>6, <1>7, <1>8, <1>9, <1>10 DEF Drop

\* The empty registry satisfies the invariant.
LEMMA InitIInv == Init => IInv
<1> SUFFICES ASSUME Init PROVE IInv
  OBVIOUS
<1>1. TypeOK
  <2>1. package \in PackageRow \cup {None}
    BY SequenceAssumption DEF Init, PackageRow
  <2> QED
    BY <2>1 DEF Init, TypeOK, Steps, Responses
<1>2. RequestIsAdmitted /\ LockDiscipline /\ ObjectOutlivesTransaction
  BY NoneAssumption
     DEF Init, RequestIsAdmitted, LockDiscipline, InTransaction,
         ObjectOutlivesTransaction
<1>3. RecordedBeforeAdopted /\ OnePublisherPerVersion
  BY DEF Init, RecordedBeforeAdopted, Recording, Settled,
         OnePublisherPerVersion, Publisher
<1>4. NoDanglingArtifact /\ CanonicalFollowsLegacy /\ EveryRowIsAttributable
  BY DEF Init, NoDanglingArtifact, CanonicalFollowsLegacy,
         EveryRowIsAttributable
<1> QED
  BY <1>1, <1>2, <1>3, <1>4 DEF IInv

\* CommitPublish preserves the invariant.
LEMMA IInv_CommitPublish ==
    ASSUME IInv, NEW p \in Requests, CommitPublish(p)
    PROVE  IInv'
BY IInv_Publish DEF CommitPublish, Goto

\* Every step of the registry preserves the invariant.
LEMMA NextIInv == IInv /\ [Next]_vars => IInv'
<1> SUFFICES ASSUME IInv, [Next]_vars PROVE IInv'
  OBVIOUS
<1>1. CASE UNCHANGED vars
  BY <1>1
     DEF vars, IInv, TypeOK, RequestIsAdmitted, LockDiscipline,
         ObjectOutlivesTransaction, RecordedBeforeAdopted, Recording, Settled,
         OnePublisherPerVersion, Publisher, NoDanglingArtifact,
         CanonicalFollowsLegacy, EveryRowIsAttributable
<1>2. CASE Next
  BY <1>2, IInv_Admit, IInv_yank, IInv_CheckVersion, IInv_PutBlob,
     IInv_PutGithubAlias, IInv_PutPackageAlias, IInv_UpsertPackage,
     IInv_InsertVersion, IInv_CommitPublish, IInv_RereadVersion,
     IInv_AdoptCanonical, IInv_AuditPublish, IInv_DatabaseError, IInv_Drop
     DEF Next, Progress
<1> QED
  BY <1>1, <1>2

\* The inductive invariant holds in every reachable state.
THEOREM Invariance == Spec => []IInv
<1> QED
  BY InitIInv, NextIInv, PTL DEF Spec

\* A committed version row always names an object that holds its bytes.
THEOREM ArtifactsNeverDangle == Spec => []NoDanglingArtifact
<1>1. IInv => NoDanglingArtifact
  BY DEF IInv
<1> QED
  BY <1>1, Invariance, PTL

\* The canonical plane never runs ahead of, or away from, the legacy tables.
THEOREM CanonicalNeverDiverges == Spec => []CanonicalFollowsLegacy
<1>1. IInv => CanonicalFollowsLegacy
  BY DEF IInv
<1> QED
  BY <1>1, Invariance, PTL

\* Success is told only for facts recorded in both planes, and "published" to
\* one client per version.
THEOREM PublishedIsTrue == Spec => []PublishedMeansRecorded
<1>1. IInv => PublishedMeansRecorded
  BY DEF IInv, PublishedMeansRecorded, RecordedBeforeAdopted, Recording,
         Settled, OnePublisherPerVersion, Publisher
<1> QED
  BY <1>1, Invariance, PTL

\* Every row stems from an authorised token and from the declared bytes.
THEOREM RowsAreAttributable == Spec => []EveryRowIsAttributable
<1>1. IInv => EveryRowIsAttributable
  BY DEF IInv
<1> QED
  BY <1>1, Invariance, PTL

\* No step changes the immutable facts of a published version.
THEOREM Immutability == Spec => VersionsAreImmutable
<1> DEFINE Kept == \A v \in Versions :
                      row[v] # None => /\ row'[v] # None
                                       /\ FactsOf(row'[v]) = FactsOf(row[v])
<1>1. ASSUME IInv, NEW p \in Requests, pc[p] = "commit", Publish(p)
      PROVE  Kept
  <2>1. up[p].version \in Versions /\ row[up[p].version] = None
    BY <1>1, UploadsAssumption
       DEF IInv, RequestIsAdmitted, LockDiscipline, Upload
  <2> QED
    BY <1>1, <2>1 DEF Publish, IInv, TypeOK
<1>2. ASSUME IInv, NEW p \in Requests, yank(p)
      PROVE  Kept
  <2>1. PICK v \in Versions, flag \in BOOLEAN :
           row' = row \/ (row[v] # None /\ row' = [row EXCEPT ![v].yanked = flag])
    BY <1>2 DEF yank
  <2>2. CASE row[v] # None /\ row' = [row EXCEPT ![v].yanked = flag]
    <3>1. row[v] \in VersionRow /\ row'[v] = [row[v] EXCEPT !.yanked = flag]
      BY <1>2, <2>2 DEF IInv, TypeOK
    <3>2. /\ row'[v] \in VersionRow
          /\ row'[v].sha = row[v].sha /\ row'[v].format = row[v].format
          /\ row'[v].tag = row[v].tag
      BY <3>1 DEF VersionRow
    <3>3. \A u \in Versions \ {v} : row'[u] = row[u]
      BY <1>2, <2>2 DEF IInv, TypeOK
    <3> QED
      BY <3>2, <3>3, NoneAssumption DEF FactsOf
  <2> QED
    BY <2>1, <2>2
<1>3. IInv /\ [Next]_vars => [Kept]_vars
  <2> SUFFICES ASSUME IInv, Next PROVE Kept
    BY DEF vars
  <2>1. PICK p \in Requests :
           Admit(p) \/ yank(p) \/ Progress(p) \/ DatabaseError(p) \/ Drop(p)
    BY DEF Next
  <2>2. \/ row' = row
        \/ pc[p] = "commit" /\ Publish(p)
        \/ yank(p)
    BY <2>1
       DEF Admit, Progress, CheckVersion, PutBlob, PutGithubAlias,
           PutPackageAlias, UpsertPackage, InsertVersion, CommitPublish,
           RereadVersion, AdoptCanonical, AuditPublish, DatabaseError, Drop,
           tables
  <2> QED
    BY <2>2, <1>1, <1>2
<1> QED
  BY <1>3, Invariance, PTL DEF Spec, VersionsAreImmutable

\* Package metadata and the index sequence move only with a new version.
THEOREM FailedPublishLeavesNoTrace == Spec => PackageChangesWithVersion
<1> DEFINE Moves == package' # package =>
              /\ \E v \in Versions : row[v] = None /\ row'[v] # None
              /\ package # None =>
                    \/ package'.index_sequence > package.index_sequence
                    \/ package.index_sequence = MaxSequence
                       /\ package'.index_sequence = MaxSequence
<1>1. ASSUME IInv, NEW p \in Requests, pc[p] = "commit", Publish(p)
      PROVE  Moves
  <2>1. up[p] \in Upload /\ row[up[p].version] = None
    BY <1>1, UploadsAssumption DEF IInv, RequestIsAdmitted, LockDiscipline
  <2>2. up[p].version \in Versions /\ NewRow(up[p]) \in VersionRow
    BY <2>1 DEF Upload, NewRow, VersionRow
  <2>3. row'[up[p].version] # None
    BY <1>1, <2>2, NoneAssumption DEF Publish, IInv, TypeOK
  <2>4. package # None =>
           \/ package'.index_sequence > package.index_sequence
           \/ package.index_sequence = MaxSequence
              /\ package'.index_sequence = MaxSequence
    <3>1. package # None => package.index_sequence \in 0..MaxSequence
      BY <1>1 DEF IInv, TypeOK, PackageRow
    <3> QED
      BY <1>1, <3>1, SequenceAssumption DEF Publish, PublishedPackage, Bumped
  <2> QED
    BY <2>1, <2>2, <2>3, <2>4
<1>2. IInv /\ [Next]_vars => [Moves]_vars
  <2> SUFFICES ASSUME IInv, Next PROVE Moves
    BY DEF vars
  <2>1. PICK p \in Requests :
           Admit(p) \/ yank(p) \/ Progress(p) \/ DatabaseError(p) \/ Drop(p)
    BY DEF Next
  <2>2. package' = package \/ (pc[p] = "commit" /\ Publish(p))
    BY <2>1
       DEF Admit, yank, Progress, CheckVersion, PutBlob, PutGithubAlias,
           PutPackageAlias, UpsertPackage, InsertVersion, CommitPublish,
           RereadVersion, AdoptCanonical, AuditPublish, DatabaseError, Drop,
           tables
  <2> QED
    BY <2>2, <1>1
<1> QED
  BY <1>2, Invariance, PTL DEF Spec, PackageChangesWithVersion

\* What a step does to the uploads and the guessable keys: uploads are kept, and
\* a key is only ever filled, by the request that is at that point.
LEMMA AliasStep ==
    ASSUME IInv, NEW p \in Requests,
           Admit(p) \/ yank(p) \/ Progress(p) \/ DatabaseError(p) \/ Drop(p)
    PROVE  /\ \A q \in Requests : up[q] # None => up'[q] = up[q]
           /\ \/ pkgAlias' = pkgAlias
              \/ /\ pc[p] = "alias_package" /\ up' = up
                 /\ pkgAlias' = Stored(pkgAlias, package_alias(up[p]), up[p].sha)
<1>1. CASE Admit(p)
  <2>1. up[p] = None /\ pkgAlias' = pkgAlias
    BY <1>1 DEF Admit, stores, IInv, RequestIsAdmitted
  <2>2. \A q \in Requests \ {p} : up'[q] = up[q]
    BY <1>1 DEF Admit, IInv, TypeOK
  <2> QED
    BY <2>1, <2>2
<1>2. CASE PutPackageAlias(p)
  BY <1>2 DEF PutPackageAlias, Stored, MaybeStored
<1>3. CASE Drop(p)
  BY <1>3 DEF Drop, MaybeStored, stores
<1>4. CASE \/ yank(p) \/ DatabaseError(p) \/ CheckVersion(p) \/ PutBlob(p)
           \/ PutGithubAlias(p) \/ UpsertPackage(p) \/ InsertVersion(p)
           \/ CommitPublish(p) \/ RereadVersion(p) \/ AdoptCanonical(p)
           \/ AuditPublish(p)
  BY <1>4 DEF yank, DatabaseError, CheckVersion, PutBlob, PutGithubAlias,
              UpsertPackage, InsertVersion, CommitPublish, RereadVersion,
              AdoptCanonical, AuditPublish, stores
<1> QED
  BY <1>1, <1>2, <1>3, <1>4 DEF Progress

\* A step keeps every guessable key attributable.
LEMMA AliasesAreUploadsStep ==
    ASSUME IInv, AliasesAreUploads, [Next]_vars
    PROVE  AliasesAreUploads'
<1>1. CASE UNCHANGED vars
  <2>1. up' = up /\ pkgAlias' = pkgAlias
    BY <1>1 DEF vars
  <2> SUFFICES ASSUME NEW v \in Versions, NEW f \in Formats, pkgAlias'[<<v, f>>] # None
               PROVE  \E p \in Requests :
                         /\ up'[p] # None
                         /\ Admissible(up'[p])
                         /\ up'[p].version = v /\ up'[p].format = f
                         /\ up'[p].sha = pkgAlias'[<<v, f>>]
    BY DEF AliasesAreUploads
  <2>2. PICK p \in Requests : /\ up[p] # None
                              /\ Admissible(up[p])
                              /\ up[p].version = v /\ up[p].format = f
                              /\ up[p].sha = pkgAlias[<<v, f>>]
    BY <2>1 DEF AliasesAreUploads
  <2> QED
    BY <2>1, <2>2
<1>2. ASSUME NEW p \in Requests,
             Admit(p) \/ yank(p) \/ Progress(p) \/ DatabaseError(p) \/ Drop(p)
      PROVE  AliasesAreUploads'
  <2>1. /\ \A q \in Requests : up[q] # None => up'[q] = up[q]
        /\ \/ pkgAlias' = pkgAlias
           \/ /\ pc[p] = "alias_package" /\ up' = up
              /\ pkgAlias' = Stored(pkgAlias, package_alias(up[p]), up[p].sha)
    BY <1>2, AliasStep
  <2> SUFFICES ASSUME NEW v \in Versions, NEW f \in Formats, pkgAlias'[<<v, f>>] # None
               PROVE  \E q \in Requests :
                         /\ up'[q] # None
                         /\ Admissible(up'[q])
                         /\ up'[q].version = v /\ up'[q].format = f
                         /\ up'[q].sha = pkgAlias'[<<v, f>>]
    BY Zenon DEF AliasesAreUploads, Admissible
  <2>2. CASE pkgAlias'[<<v, f>>] = pkgAlias[<<v, f>>]
    <3>1. PICK q \in Requests :
             /\ up[q] # None
             /\ Admissible(up[q])
             /\ up[q].version = v /\ up[q].format = f
             /\ up[q].sha = pkgAlias[<<v, f>>]
      BY <2>2 DEF AliasesAreUploads
    <3>2. up'[q] = up[q]
      BY <2>1, <3>1
    <3> QED
      BY <2>2, <3>1, <3>2
  <2>3. CASE pkgAlias'[<<v, f>>] # pkgAlias[<<v, f>>]
    <3>1. /\ pc[p] = "alias_package" /\ up' = up
          /\ pkgAlias' = [pkgAlias EXCEPT ![<<up[p].version, up[p].format>>] = up[p].sha]
      BY <2>1, <2>3 DEF Stored, package_alias
    <3>2. up[p] \in Uploads /\ Admissible(up[p])
      BY <3>1 DEF IInv, RequestIsAdmitted
    <3>3. up[p] # None
      BY <3>2, NoneAssumption
    <3>4. pkgAlias \in [Versions \X Formats -> Digests \cup {None}] /\ <<v, f>> \in Versions \X Formats
      BY DEF IInv, TypeOK
    <3>5. <<v, f>> = <<up[p].version, up[p].format>> /\ pkgAlias'[<<v, f>>] = up[p].sha
      BY <2>3, <3>1, <3>4
    <3> QED
      BY <3>1, <3>2, <3>3, <3>5
  <2> QED
    BY <2>2, <2>3
<1> QED
  BY <1>1, <1>2 DEF Next

\* The guessable key of a release holds its bytes, unless an admitted request
\* that was not told success put other bytes there first.
THEOREM AliasesAreCopiesOrContested == Spec => []AliasIsCopyUnlessContested
<1>1. Init => AliasesAreUploads
  BY DEF Init, AliasesAreUploads
<1>2. IInv /\ AliasesAreUploads /\ [Next]_vars => AliasesAreUploads'
  BY AliasesAreUploadsStep
<1>3. IInv /\ AliasesAreUploads => AliasIsCopyUnlessContested
  <2> SUFFICES ASSUME IInv, AliasesAreUploads, NEW v \in Versions, NEW f \in Formats,
                      row[v] # None, row[v].format = f,
                      pkgAlias[<<v, f>>] \notin {None, row[v].sha}
               PROVE  \E p \in Requests :
                         /\ up[p] # None
                         /\ Admissible(up[p])
                         /\ up[p].version = v /\ up[p].format = f
                         /\ up[p].sha = pkgAlias[<<v, f>>]
                         /\ response[p] \notin {"published", "reconciled"}
    BY DEF AliasIsCopyUnlessContested
  <2>1. PICK p \in Requests :
           /\ up[p] # None
           /\ Admissible(up[p])
           /\ up[p].version = v /\ up[p].format = f
           /\ up[p].sha = pkgAlias[<<v, f>>]
    BY DEF AliasesAreUploads
  <2>2. ASSUME response[p] \in {"published", "reconciled"} PROVE FALSE
    <3>1. FactsOf(row[v]) = Facts(up[p])
      BY <2>1, <2>2 DEF IInv, RecordedBeforeAdopted, Recording, Settled
    <3>2. row[v].sha = up[p].sha
      BY <3>1 DEF FactsOf, Facts
    <3> QED
      BY <2>1, <3>2
  <2> QED
    BY <2>1, <2>2
<1> QED
  BY <1>1, <1>2, <1>3, Invariance, PTL DEF Spec

\* What a step of p does to the facts the two planes hold: no release changes
\* or goes away, and a new one is the release p was committing.
LEMMA ReleaseStep ==
    ASSUME IInv, NEW p \in Requests,
           Admit(p) \/ yank(p) \/ Progress(p) \/ DatabaseError(p) \/ Drop(p)
    PROVE  /\ \A q \in Requests \ {p} : /\ pc'[q] = pc[q] /\ up'[q] = up[q]
                                        /\ response'[q] = response[q]
           /\ pc[p] # "idle" => up'[p] = up[p]
           /\ \A v \in Versions : canonical[v] # None => canonical'[v] = canonical[v]
           /\ \A v \in Versions :
                 row[v] # None => /\ row'[v] # None
                                  /\ FactsOf(row'[v]) = FactsOf(row[v])
           /\ \A v \in Versions :
                 row[v] = None /\ row'[v] # None =>
                    /\ pc[p] = "commit" /\ up'[p].version = v
                    /\ FactsOf(row'[v]) = Facts(up'[p])
                    /\ pc'[p] = "adopt" \/ response'[p] \in {"error", "dropped"}
<1>1. \A q \in Requests \ {p} : /\ pc'[q] = pc[q] /\ up'[q] = up[q]
                                /\ response'[q] = response[q]
  <2>1. /\ \E step \in Steps : pc' = [pc EXCEPT ![p] = step]
        /\ response' = response
           \/ \E answer \in Responses : response' = [response EXCEPT ![p] = answer]
        /\ up' = up \/ \E u \in Uploads : up' = [up EXCEPT ![p] = u]
    <3>1. CASE Admit(p)
      BY <3>1 DEF Admit, Goto, Answer, Steps, Responses
    <3>2. CASE yank(p) \/ DatabaseError(p) \/ Drop(p)
      BY <3>2 DEF yank, DatabaseError, Drop, Answer, Steps, Responses
    <3>3. CASE Progress(p)
      BY <3>3 DEF Progress, CheckVersion, PutBlob, PutGithubAlias,
                  PutPackageAlias, UpsertPackage, InsertVersion, CommitPublish,
                  RereadVersion, AdoptCanonical, AuditPublish, Goto, Answer,
                  Steps, Responses
    <3> QED
      BY <3>1, <3>2, <3>3
  <2> QED
    BY <2>1 DEF IInv, TypeOK
<1>2. pc[p] # "idle" => up' = up
  BY DEF Admit, yank, Progress, CheckVersion, PutBlob, PutGithubAlias,
         PutPackageAlias, UpsertPackage, InsertVersion, CommitPublish,
         RereadVersion, AdoptCanonical, AuditPublish, DatabaseError, Drop
<1>3. \A v \in Versions : canonical[v] # None => canonical'[v] = canonical[v]
  <2>1. \/ canonical' = canonical
        \/ Adoptable(up[p]) /\ canonical' = Adopted(up[p])
    BY DEF Admit, yank, Progress, CheckVersion, PutBlob, PutGithubAlias,
           PutPackageAlias, UpsertPackage, InsertVersion, CommitPublish,
           RereadVersion, AdoptCanonical, AuditPublish, DatabaseError, Drop
  <2> QED
    BY <2>1 DEF Adoptable, Adopted, IInv, TypeOK
<1>4. \/ row' = row
      \/ /\ pc[p] = "commit" /\ Publish(p)
         /\ \/ pc' = [pc EXCEPT ![p] = "adopt"]
            \/ \E answer \in {"error", "dropped"} :
                  response' = [response EXCEPT ![p] = answer]
      \/ yank(p)
  BY DEF Admit, Progress, CheckVersion, PutBlob, PutGithubAlias,
         PutPackageAlias, UpsertPackage, InsertVersion, CommitPublish,
         RereadVersion, AdoptCanonical, AuditPublish, DatabaseError, Drop,
         tables, Goto, Answer
<1>5. CASE row' = row
  BY <1>1, <1>2, <1>3, <1>5
<1>6. CASE /\ pc[p] = "commit" /\ Publish(p)
           /\ \/ pc' = [pc EXCEPT ![p] = "adopt"]
              \/ \E answer \in {"error", "dropped"} :
                    response' = [response EXCEPT ![p] = answer]
  <2>1. up[p] \in Upload /\ row[up[p].version] = None /\ up' = up
    BY <1>2, <1>6, UploadsAssumption DEF IInv, RequestIsAdmitted, LockDiscipline
  <2>2. up[p].version \in Versions
    BY <2>1 DEF Upload
  <2>3. /\ \A v \in Versions \ {up[p].version} : row'[v] = row[v]
        /\ row'[up[p].version] = NewRow(up[p])
    BY <1>6, <2>2 DEF Publish, IInv, TypeOK
  <2>4. FactsOf(row'[up[p].version]) = Facts(up[p])
    BY <2>3 DEF FactsOf, NewRow, Facts
  <2>5. pc'[p] = "adopt" \/ response'[p] \in {"error", "dropped"}
    BY <1>6 DEF IInv, TypeOK
  <2>6. \A v \in Versions : row[v] # None => row'[v] = row[v]
    BY <2>1, <2>3
  <2>7. \A v \in Versions : row[v] = None /\ row'[v] # None => v = up[p].version
    BY <2>3
  <2> QED
    BY <1>1, <1>2, <1>3, <1>6, <2>1, <2>4, <2>5, <2>6, <2>7
<1>7. CASE yank(p)
  <2>1. PICK v \in Versions, flag \in BOOLEAN :
           row' = row \/ (row[v] # None /\ row' = [row EXCEPT ![v].yanked = flag])
    BY <1>7 DEF yank
  <2>2. CASE row[v] # None /\ row' = [row EXCEPT ![v].yanked = flag]
    <3>1. row[v] \in VersionRow /\ row'[v] = [row[v] EXCEPT !.yanked = flag]
      BY <2>2 DEF IInv, TypeOK
    <3>2. /\ row'[v] \in VersionRow
          /\ row'[v].sha = row[v].sha /\ row'[v].format = row[v].format
          /\ row'[v].tag = row[v].tag
      BY <3>1 DEF VersionRow
    <3>3. \A u \in Versions \ {v} : row'[u] = row[u]
      BY <2>2 DEF IInv, TypeOK
    <3>4. row'[v] # None /\ FactsOf(row'[v]) = FactsOf(row[v])
      BY <3>2, NoneAssumption DEF FactsOf
    <3> QED
      BY <1>1, <1>2, <1>3, <2>2, <3>3, <3>4
  <2> QED
    BY <1>5, <2>1, <2>2
<1> QED
  BY <1>4, <1>5, <1>6, <1>7

\* A step keeps every conflict answer true of a settled release.
LEMMA ConflictIsSettledStep ==
    ASSUME IInv, IInv', ConflictIsSettled, [Next]_vars
    PROVE  ConflictIsSettled'
<1>1. CASE UNCHANGED vars
  BY <1>1 DEF vars, ConflictIsSettled, Facts, FactsOf
<1>2. ASSUME NEW p \in Requests,
             Admit(p) \/ yank(p) \/ Progress(p) \/ DatabaseError(p) \/ Drop(p)
      PROVE  ConflictIsSettled'
  <2>1. /\ \A q \in Requests \ {p} : /\ pc'[q] = pc[q] /\ up'[q] = up[q]
                                     /\ response'[q] = response[q]
        /\ \A v \in Versions : canonical[v] # None => canonical'[v] = canonical[v]
        /\ \A v \in Versions :
              row[v] # None => /\ row'[v] # None
                               /\ FactsOf(row'[v]) = FactsOf(row[v])
    BY <1>2, ReleaseStep
  <2> SUFFICES ASSUME NEW q \in Requests, response'[q] = "version_exists"
               PROVE  /\ up'[q] \in Uploads
                      /\ row'[up'[q].version] # None
                      /\ Facts(up'[q]) = FactsOf(row'[up'[q].version]) =>
                            canonical'[up'[q].version] = Facts(up'[q])
    BY DEF ConflictIsSettled, Facts, FactsOf
  <2>2. CASE q # p
    <3>1. /\ up'[q] = up[q] /\ up[q] \in Uploads
          /\ row[up[q].version] # None
          /\ Facts(up[q]) = FactsOf(row[up[q].version]) =>
                canonical[up[q].version] = Facts(up[q])
      BY <2>1, <2>2 DEF ConflictIsSettled
    <3>2. up[q].version \in Versions /\ Facts(up[q]) # None
      BY <3>1, UploadsAssumption, NoneAssumption DEF Upload, Facts, VersionFacts
    <3> QED
      BY <2>1, <3>1, <3>2
  <2>3. CASE q = p
    <3>1. /\ pc[p] \in {"check", "reread", "reconcile_lost"}
          /\ row' = row /\ up' = up
          /\ \/ pc[p] = "reconcile_lost" /\ canonical' = Adopted(up[p])
             \/ /\ pc[p] \in {"check", "reread"}
                /\ ~legacy_version_matches(row[up[p].version], up[p])
                /\ pc[p] = "check" => row[up[p].version] # None
      <4>1. pc[p] # "done" => response[p] = "waiting"
        BY DEF IInv, RequestIsAdmitted
      <4>2. pc[p] # "done"
        BY <1>2 DEF Admit, yank, Progress, CheckVersion, PutBlob, PutGithubAlias,
                    PutPackageAlias, UpsertPackage, InsertVersion, CommitPublish,
                    RereadVersion, AdoptCanonical, AuditPublish, DatabaseError, Drop
      <4>3. response' = [response EXCEPT ![p] = "version_exists"] \/ response' # response
        BY <2>3, <4>1, <4>2
      <4>4. CASE CheckVersion(p)
        BY <2>3, <4>1, <4>2, <4>4 DEF CheckVersion, Goto, Answer, tables, IInv, TypeOK
      <4>5. CASE RereadVersion(p)
        BY <2>3, <4>1, <4>2, <4>5 DEF RereadVersion, Goto, Answer, tables, IInv, TypeOK
      <4>6. CASE AdoptCanonical(p)
        BY <2>3, <4>1, <4>2, <4>6 DEF AdoptCanonical, Goto, Answer, tables, IInv, TypeOK
      <4>7. CASE Admit(p) \/ yank(p) \/ DatabaseError(p) \/ Drop(p)
        BY <2>3, <4>1, <4>2, <4>7 DEF Admit, yank, DatabaseError, Drop, Goto, Answer,
                                      IInv, TypeOK
      <4>8. CASE \/ PutBlob(p) \/ PutGithubAlias(p) \/ PutPackageAlias(p)
                 \/ UpsertPackage(p) \/ InsertVersion(p) \/ CommitPublish(p)
                 \/ AuditPublish(p)
        BY <2>3, <4>1, <4>2, <4>8
           DEF PutBlob, PutGithubAlias, PutPackageAlias, UpsertPackage,
               InsertVersion, CommitPublish, AuditPublish, Goto, Answer,
               IInv, TypeOK
      <4> QED
        BY <1>2, <4>4, <4>5, <4>6, <4>7, <4>8 DEF Progress
    <3>2. up[p] \in Uploads
      BY <3>1 DEF IInv, RequestIsAdmitted
    <3>3. up[p].version \in Versions
      BY <3>2, UploadsAssumption DEF Upload
    <3>4. row[up[p].version] # None
      BY <3>1 DEF IInv, RecordedBeforeAdopted, Recording
    <3>5. canonical' = Adopted(up[p]) => canonical'[up[p].version] = Facts(up[p])
      BY <3>3 DEF Adopted, IInv, TypeOK
    <3>6. ~legacy_version_matches(row[up[p].version], up[p]) =>
             Facts(up[p]) # FactsOf(row[up[p].version])
      BY DEF legacy_version_matches, Facts, FactsOf
    <3> QED
      BY <2>3, <3>1, <3>2, <3>4, <3>5, <3>6
  <2> QED
    BY <2>2, <2>3
<1> QED
  BY <1>1, <1>2 DEF Next

\* A step leaves the committer of every release that lags at work or told.
LEMMA CommitterIsKnownStep ==
    ASSUME IInv, IInv', CommitterIsKnown, [Next]_vars
    PROVE  CommitterIsKnown'
<1> SUFFICES ASSUME NEW v \in Versions, row'[v] # None, canonical'[v] = None
             PROVE  \E q \in Requests :
                       /\ up'[q] # None /\ up'[q].version = v
                       /\ Facts(up'[q]) = FactsOf(row'[v])
                       /\ pc'[q] = "adopt" \/ response'[q] \in {"error", "dropped"}
  BY DEF CommitterIsKnown, SentRelease, Facts, FactsOf
<1>1. CASE UNCHANGED vars
  <2>1. PICK q \in Requests :
           /\ SentRelease(q, v)
           /\ pc[q] = "adopt" \/ response[q] \in {"error", "dropped"}
    BY <1>1 DEF vars, CommitterIsKnown
  <2>2. up' = up /\ row' = row /\ pc' = pc /\ response' = response
    BY <1>1 DEF vars
  <2> QED
    BY <2>1, <2>2 DEF SentRelease
<1>2. ASSUME NEW p \in Requests,
             Admit(p) \/ yank(p) \/ Progress(p) \/ DatabaseError(p) \/ Drop(p)
      PROVE  \E q \in Requests :
                /\ up'[q] # None /\ up'[q].version = v
                /\ Facts(up'[q]) = FactsOf(row'[v])
                /\ pc'[q] = "adopt" \/ response'[q] \in {"error", "dropped"}
  <2>1. /\ \A q \in Requests \ {p} : /\ pc'[q] = pc[q] /\ up'[q] = up[q]
                                     /\ response'[q] = response[q]
        /\ pc[p] # "idle" => up'[p] = up[p]
        /\ canonical[v] = None
        /\ row[v] # None => FactsOf(row'[v]) = FactsOf(row[v])
        /\ row[v] = None =>
              /\ pc[p] = "commit" /\ up'[p].version = v
              /\ FactsOf(row'[v]) = Facts(up'[p])
              /\ pc'[p] = "adopt" \/ response'[p] \in {"error", "dropped"}
    <3>1. canonical[v] # None => canonical'[v] = canonical[v]
      BY <1>2, ReleaseStep
    <3> QED
      BY <1>2, <3>1, ReleaseStep
  <2>2. CASE row[v] = None
    <3>1. up[p] \in Uploads /\ up'[p] = up[p]
      BY <2>1, <2>2 DEF IInv, RequestIsAdmitted
    <3> QED
      BY <2>1, <2>2, <3>1, NoneAssumption
  <2>3. CASE row[v] # None
    <3>1. PICK q \in Requests :
             /\ SentRelease(q, v)
             /\ pc[q] = "adopt" \/ response[q] \in {"error", "dropped"}
      BY <2>1, <2>3 DEF CommitterIsKnown
    <3>2. CASE q # p
      BY <2>1, <2>3, <3>1, <3>2 DEF SentRelease
    <3>3. CASE q = p
      <4>1. pc[p] = "adopt"
        <5>1. pc[p] # "done"
          BY <1>2 DEF Admit, yank, Progress, CheckVersion, PutBlob, PutGithubAlias,
                      PutPackageAlias, UpsertPackage, InsertVersion, CommitPublish,
                      RereadVersion, AdoptCanonical, AuditPublish, DatabaseError, Drop
        <5> QED
          BY <3>1, <3>3, <5>1 DEF IInv, RequestIsAdmitted
      <4>2. up[p].version = v
        BY <3>1, <3>3 DEF SentRelease
      <4>3. canonical' = Adopted(up[p]) => canonical'[v] = Facts(up[p])
        BY <4>2 DEF Adopted, IInv, TypeOK
      <4>4. Facts(up[p]) # None
        <5>1. up[p] \in Upload
          BY <4>1, UploadsAssumption DEF IInv, RequestIsAdmitted
        <5>2. Facts(up[p]) \in VersionFacts
          BY <5>1 DEF Upload, Facts, VersionFacts
        <5> QED
          BY <5>2, NoneAssumption
      <4>5. canonical' # Adopted(up[p])
        BY <4>3, <4>4
      <4>6. AdoptCanonical(p) \/ Drop(p)
        BY <1>2, <4>1
           DEF Admit, yank, Progress, CheckVersion, PutBlob, PutGithubAlias,
               PutPackageAlias, UpsertPackage, InsertVersion, CommitPublish,
               RereadVersion, AuditPublish, DatabaseError
      <4>7. response'[p] \in {"error", "dropped"}
        BY <4>1, <4>5, <4>6 DEF AdoptCanonical, Drop, Answer, Goto, IInv, TypeOK
      <4> QED
        BY <2>1, <2>3, <3>1, <3>3, <4>1, <4>7 DEF SentRelease
    <3> QED
      BY <3>2, <3>3
  <2> QED
    BY <2>2, <2>3
<1> QED
  BY <1>1, <1>2 DEF Next

\* A release that is in the legacy tables only was reported as failed or is
\* still being adopted, and no client holding it was told to stop retrying.
THEOREM LagIsReported == Spec => []LaggingReleaseIsReported
<1>1. Init => ConflictIsSettled /\ CommitterIsKnown
  BY DEF Init, ConflictIsSettled, CommitterIsKnown
<1>2. IInv /\ IInv' /\ ConflictIsSettled /\ CommitterIsKnown /\ [Next]_vars
        => ConflictIsSettled' /\ CommitterIsKnown'
  BY ConflictIsSettledStep, CommitterIsKnownStep
<1>3. IInv /\ ConflictIsSettled /\ CommitterIsKnown => LaggingReleaseIsReported
  <2> SUFFICES ASSUME IInv, ConflictIsSettled, CommitterIsKnown,
                      NEW v \in Versions, row[v] # None, canonical[v] = None,
                      NEW p \in Requests, SentRelease(p, v),
                      response[p] \in {"published", "reconciled", "version_exists"}
               PROVE  FALSE
    BY DEF LaggingReleaseIsReported, CommitterIsKnown
  <2>1. up[p] \in Uploads /\ canonical[v] = Facts(up[p])
    BY DEF IInv, RequestIsAdmitted, RecordedBeforeAdopted, Settled,
           ConflictIsSettled, SentRelease
  <2>2. Facts(up[p]) \in VersionFacts
    BY <2>1, UploadsAssumption DEF Upload, Facts, VersionFacts
  <2> QED
    BY <2>1, <2>2, NoneAssumption
<1> QED
  BY <1>1, <1>2, <1>3, Invariance, PTL DEF Spec

=============================================================================
