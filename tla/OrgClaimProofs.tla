--------------------------- MODULE OrgClaimProofs ---------------------------
(***************************************************************************)
(* The org quota and the exclusivity of a namespace, for any number of     *)
(* racing claims, tokens and slugs, and any quota.                         *)
(***************************************************************************)
EXTENDS OrgClaim, FiniteSetTheorems, TLAPS

\* The rows one token created form a finite set, so they can be counted.
LEMMA ClaimedByFinite ==
    ASSUME NEW t
    PROVE  /\ IsFiniteSet(ClaimedBy(t))
           /\ Cardinality(ClaimedBy(t)) \in Nat
<1>1. ClaimedBy(t) \subseteq Slugs
  BY DEF ClaimedBy
<1>2. IsFiniteSet(ClaimedBy(t))
  BY <1>1, SlugsAssumption, FS_Subset
<1> QED
  BY <1>2, FS_CardinalityType

\* One committed INSERT adds one to its creator's count and changes no other.
LEMMA CommitCounts ==
    ASSUME NEW s \in Slugs, NEW u \in Tokens, org[s] = None,
           org \in [Slugs -> Tokens \cup {None, Operator}],
           org' = [org EXCEPT ![s] = u]
    PROVE  /\ Cardinality(ClaimedBy(u)') = Cardinality(ClaimedBy(u)) + 1
           /\ \A t \in Tokens \ {u} : ClaimedBy(t)' = ClaimedBy(t)
<1>1. ClaimedBy(u)' = ClaimedBy(u) \cup {s}
  BY SentinelAssumption DEF ClaimedBy
<1>2. s \notin ClaimedBy(u)
  BY SentinelAssumption DEF ClaimedBy
<1>3. \A t \in Tokens \ {u} : ClaimedBy(t)' = ClaimedBy(t)
  BY SentinelAssumption DEF ClaimedBy
<1>4. Cardinality(ClaimedBy(u) \cup {s}) = Cardinality(ClaimedBy(u)) + 1
  <2>1. IsFiniteSet(ClaimedBy(u))
    BY ClaimedByFinite
  <2> QED
    BY <1>2, <2>1, FS_AddElement
<1> QED
  BY <1>1, <1>3, <1>4

\* The empty registry satisfies the invariant.
LEMMA InitIInv == Init => IInv
<1> SUFFICES ASSUME Init PROVE IInv
  OBVIOUS
<1>1. \A t \in Tokens : ClaimedBy(t) = {}
  BY SentinelAssumption DEF Init, ClaimedBy
<1>2. QuotaHolds
  BY <1>1, FS_EmptySet, QuotaAssumption DEF QuotaHolds
<1>3. TypeOK
  BY DEF Init, TypeOK, Steps, Responses
<1>4. /\ RequestIsKnown /\ LockDiscipline /\ PendingIsFree
      /\ OneInserterPerSlug /\ StillBelowQuota /\ OneWinnerPerSlug
  BY DEF Init, RequestIsKnown, LockDiscipline, PendingIsFree, InTransaction,
         OneInserterPerSlug, StillBelowQuota, OneWinnerPerSlug, Winner
<1> QED
  BY <1>2, <1>3, <1>4 DEF IInv

\* A step that leaves org alone leaves every count alone.
LEMMA CountsUnchanged ==
    ASSUME org' = org
    PROVE  \A t : ClaimedBy(t)' = ClaimedBy(t)
BY DEF ClaimedBy

\* claim_org preserves the invariant.
LEMMA IInv_claim_org ==
    ASSUME IInv, NEW c \in Claims, claim_org(c)
    PROVE  IInv'
<1> USE DEF IInv
<1>1. TypeOK'
  BY DEF TypeOK, Steps, Responses, RequestIsKnown, claim_org, Finish
<1>2. RequestIsKnown'
  BY DEF TypeOK, RequestIsKnown, claim_org, Finish
<1>3. LockDiscipline'
  BY SentinelAssumption
     DEF TypeOK, RequestIsKnown, LockDiscipline, InTransaction, claim_org, Finish
<1>4. PendingIsFree'
  BY DEF TypeOK, RequestIsKnown, PendingIsFree, claim_org, Finish
<1>5. OneInserterPerSlug'
  BY DEF TypeOK, OneInserterPerSlug, PendingIsFree, claim_org, Finish
<1>6. StillBelowQuota' /\ QuotaHolds'
  BY CountsUnchanged, ClaimedByFinite, QuotaAssumption
     DEF TypeOK, RequestIsKnown, StillBelowQuota, QuotaHolds, claim_org, Finish
<1>7. OneWinnerPerSlug'
  BY DEF TypeOK, RequestIsKnown, OneWinnerPerSlug, Winner, claim_org, Finish
<1> QED
  BY <1>1, <1>2, <1>3, <1>4, <1>5, <1>6, <1>7

\* fiducia_org_claim_guard preserves the invariant.
LEMMA IInv_fiducia_org_claim_guard ==
    ASSUME IInv, NEW c \in Claims, fiducia_org_claim_guard(c)
    PROVE  IInv'
<1> USE DEF IInv
<1>1. TypeOK'
  BY DEF TypeOK, Steps, Responses, RequestIsKnown, fiducia_org_claim_guard
<1>2. RequestIsKnown'
  BY DEF TypeOK, RequestIsKnown, fiducia_org_claim_guard
<1>3. LockDiscipline'
  BY SentinelAssumption
     DEF TypeOK, RequestIsKnown, LockDiscipline, InTransaction, fiducia_org_claim_guard
<1>4. PendingIsFree'
  BY DEF TypeOK, RequestIsKnown, PendingIsFree, fiducia_org_claim_guard
<1>5. OneInserterPerSlug'
  BY DEF TypeOK, OneInserterPerSlug, PendingIsFree, fiducia_org_claim_guard
<1>6. StillBelowQuota' /\ QuotaHolds'
  BY CountsUnchanged, ClaimedByFinite, QuotaAssumption
     DEF TypeOK, RequestIsKnown, StillBelowQuota, QuotaHolds, fiducia_org_claim_guard
<1>7. OneWinnerPerSlug'
  BY DEF TypeOK, RequestIsKnown, OneWinnerPerSlug, Winner, fiducia_org_claim_guard
<1> QED
  BY <1>1, <1>2, <1>3, <1>4, <1>5, <1>6, <1>7

\* BeginSerialized preserves the invariant.
LEMMA IInv_BeginSerialized ==
    ASSUME IInv, NEW c \in Claims, BeginSerialized(c)
    PROVE  IInv'
<1> USE DEF IInv
<1>1. TypeOK'
  BY DEF TypeOK, Steps, Responses, RequestIsKnown, BeginSerialized
<1>2. RequestIsKnown'
  BY DEF TypeOK, RequestIsKnown, BeginSerialized
<1>3. LockDiscipline'
  BY SentinelAssumption
     DEF TypeOK, RequestIsKnown, LockDiscipline, InTransaction, BeginSerialized
<1>4. PendingIsFree'
  BY DEF TypeOK, RequestIsKnown, PendingIsFree, BeginSerialized
<1>5. OneInserterPerSlug'
  BY DEF TypeOK, OneInserterPerSlug, PendingIsFree, BeginSerialized
<1>6. StillBelowQuota' /\ QuotaHolds'
  BY CountsUnchanged, ClaimedByFinite, QuotaAssumption
     DEF TypeOK, RequestIsKnown, StillBelowQuota, QuotaHolds, BeginSerialized
<1>7. OneWinnerPerSlug'
  BY DEF TypeOK, RequestIsKnown, OneWinnerPerSlug, Winner, BeginSerialized
<1> QED
  BY <1>1, <1>2, <1>3, <1>4, <1>5, <1>6, <1>7

\* CountClaims preserves the invariant.
LEMMA IInv_CountClaims ==
    ASSUME IInv, NEW c \in Claims, CountClaims(c)
    PROVE  IInv'
<1> USE DEF IInv
<1>1. TypeOK'
  BY DEF TypeOK, Steps, Responses, RequestIsKnown, CountClaims, Finish, Rollback
<1>2. RequestIsKnown'
  BY DEF TypeOK, RequestIsKnown, CountClaims, Finish, Rollback
<1>3. LockDiscipline'
  BY SentinelAssumption
     DEF TypeOK, RequestIsKnown, LockDiscipline, InTransaction, CountClaims, Finish, Rollback
<1>4. PendingIsFree'
  BY DEF TypeOK, RequestIsKnown, PendingIsFree, CountClaims, Finish, Rollback
<1>5. OneInserterPerSlug'
  BY DEF TypeOK, OneInserterPerSlug, PendingIsFree, CountClaims, Finish, Rollback
<1>6. StillBelowQuota' /\ QuotaHolds'
  BY CountsUnchanged, ClaimedByFinite, QuotaAssumption
     DEF TypeOK, RequestIsKnown, StillBelowQuota, QuotaHolds, CountClaims, Finish, Rollback
<1>7. OneWinnerPerSlug'
  BY DEF TypeOK, RequestIsKnown, OneWinnerPerSlug, Winner, CountClaims, Finish, Rollback
<1> QED
  BY <1>1, <1>2, <1>3, <1>4, <1>5, <1>6, <1>7

\* InsertOrg preserves the invariant.
LEMMA IInv_InsertOrg ==
    ASSUME IInv, NEW c \in Claims, InsertOrg(c)
    PROVE  IInv'
<1> USE DEF IInv
<1>1. TypeOK'
  BY DEF TypeOK, Steps, Responses, RequestIsKnown, InsertOrg, Finish, Rollback
<1>2. RequestIsKnown'
  BY DEF TypeOK, RequestIsKnown, InsertOrg, Finish, Rollback
<1>3. LockDiscipline'
  BY SentinelAssumption
     DEF TypeOK, RequestIsKnown, LockDiscipline, InTransaction, InsertOrg, Finish, Rollback
<1>4. PendingIsFree'
  BY DEF TypeOK, RequestIsKnown, PendingIsFree, InsertOrg, Finish, Rollback
<1>5. OneInserterPerSlug'
  BY DEF TypeOK, OneInserterPerSlug, PendingIsFree, InsertOrg, Finish, Rollback
<1>6. StillBelowQuota' /\ QuotaHolds'
  BY CountsUnchanged, ClaimedByFinite, QuotaAssumption
     DEF TypeOK, RequestIsKnown, StillBelowQuota, QuotaHolds, InsertOrg, Finish, Rollback
<1>7. OneWinnerPerSlug'
  BY DEF TypeOK, RequestIsKnown, OneWinnerPerSlug, Winner, InsertOrg, Finish, Rollback
<1> QED
  BY <1>1, <1>2, <1>3, <1>4, <1>5, <1>6, <1>7

\* AuditClaim preserves the invariant.
LEMMA IInv_AuditClaim ==
    ASSUME IInv, NEW c \in Claims, AuditClaim(c)
    PROVE  IInv'
<1> USE DEF IInv
<1>1. TypeOK'
  BY DEF TypeOK, Steps, Responses, RequestIsKnown, AuditClaim, Finish
<1>2. RequestIsKnown'
  BY DEF TypeOK, RequestIsKnown, AuditClaim, Finish
<1>3. LockDiscipline'
  BY SentinelAssumption
     DEF TypeOK, RequestIsKnown, LockDiscipline, InTransaction, AuditClaim, Finish
<1>4. PendingIsFree'
  BY DEF TypeOK, RequestIsKnown, PendingIsFree, AuditClaim, Finish
<1>5. OneInserterPerSlug'
  BY DEF TypeOK, OneInserterPerSlug, PendingIsFree, AuditClaim, Finish
<1>6. StillBelowQuota' /\ QuotaHolds'
  BY CountsUnchanged, ClaimedByFinite, QuotaAssumption
     DEF TypeOK, RequestIsKnown, StillBelowQuota, QuotaHolds, AuditClaim, Finish
<1>7. OneWinnerPerSlug'
  BY DEF TypeOK, RequestIsKnown, OneWinnerPerSlug, Winner, AuditClaim, Finish
<1> QED
  BY <1>1, <1>2, <1>3, <1>4, <1>5, <1>6, <1>7

\* COMMIT is the one place where a count grows: the committer counted below
\* the quota and still holds its token's lock.
LEMMA IInv_Commit ==
    ASSUME IInv, NEW c \in Claims, pc[c] = "commit",
           org' = [org EXCEPT ![slug[c]] = token[c]],
           Rollback(c),
           \E step \in {"audit", "done"}, answer \in Responses \ {"created"} :
              /\ pc' = [pc EXCEPT ![c] = step]
              /\ \/ response' = response
                 \/ step = "done" /\ response' = [response EXCEPT ![c] = answer],
           lease' \in [Tokens -> Claims \cup {None}],
           UNCHANGED <<token, slug>>
    PROVE  IInv'
<1> USE DEF IInv, Rollback
<1>1. TypeOK'
  BY DEF TypeOK, Steps, Responses, RequestIsKnown
<1>2. RequestIsKnown'
  BY DEF TypeOK, RequestIsKnown
<1>3. LockDiscipline'
  BY SentinelAssumption
     DEF TypeOK, RequestIsKnown, LockDiscipline, InTransaction
<1>4. PendingIsFree'
  <2>1. \A d \in Claims \ {c} : pc[d] = "commit" => slug[d] # slug[c]
    BY SentinelAssumption
       DEF TypeOK, RequestIsKnown, PendingIsFree, OneInserterPerSlug
  <2> QED
    BY <2>1 DEF TypeOK, RequestIsKnown, PendingIsFree
<1>5. OneInserterPerSlug'
  BY DEF TypeOK, OneInserterPerSlug, PendingIsFree
<1>6. /\ token[c] \in Tokens /\ slug[c] \in Slugs /\ org[slug[c]] = None
      /\ org \in [Slugs -> Tokens \cup {None, Operator}]
  BY DEF TypeOK, RequestIsKnown, PendingIsFree
<1>7. /\ Cardinality(ClaimedBy(token[c])') = Cardinality(ClaimedBy(token[c])) + 1
      /\ \A t \in Tokens \ {token[c]} : ClaimedBy(t)' = ClaimedBy(t)
  BY <1>6, CommitCounts
<1>8. QuotaHolds'
  <2> SUFFICES ASSUME NEW t \in Tokens, Scope[t] # NoScope
               PROVE  Cardinality(ClaimedBy(t)') <= max_orgs_per_token
    BY DEF QuotaHolds
  <2>1. CASE t = token[c]
    BY <2>1, <1>6, <1>7, ClaimedByFinite, QuotaAssumption DEF StillBelowQuota
  <2>2. CASE t # token[c]
    BY <2>2, <1>7 DEF QuotaHolds
  <2> QED
    BY <2>1, <2>2
<1>9. StillBelowQuota'
  <2> SUFFICES ASSUME NEW d \in Claims, pc'[d] \in {"insert", "commit"},
                      Scope[token[d]] # NoScope
               PROVE  Cardinality(ClaimedBy(token[d])') < max_orgs_per_token
    BY DEF StillBelowQuota
  <2>1. d # c /\ pc[d] \in {"insert", "commit"}
    BY DEF TypeOK
  <2>2. token[d] \in Tokens \ {token[c]}
    BY <2>1 DEF TypeOK, RequestIsKnown, LockDiscipline, InTransaction
  <2> QED
    BY <2>1, <2>2, <1>7 DEF StillBelowQuota
<1>10. OneWinnerPerSlug'
  BY <1>6, SentinelAssumption
     DEF TypeOK, RequestIsKnown, OneWinnerPerSlug, Winner
<1> QED
  BY <1>1, <1>2, <1>3, <1>4, <1>5, <1>8, <1>9, <1>10

\* An error or a dropped request that did not commit only releases.
LEMMA IInv_Abandon ==
    ASSUME IInv, NEW c \in Claims, pc[c] \notin {"idle", "done"},
           pc' = [pc EXCEPT ![c] = "done"],
           Rollback(c),
           \E answer \in {"error", "dropped"} :
              response' = [response EXCEPT ![c] = answer],
           lease' \in [Tokens -> Claims \cup {None}],
           UNCHANGED <<token, slug, org>>
    PROVE  IInv'
<1> USE DEF IInv, Rollback
<1>1. TypeOK'
  BY DEF TypeOK, Steps, Responses
<1>2. RequestIsKnown'
  BY DEF TypeOK, RequestIsKnown
<1>3. LockDiscipline'
  BY SentinelAssumption
     DEF TypeOK, RequestIsKnown, LockDiscipline, InTransaction
<1>4. PendingIsFree' /\ OneInserterPerSlug'
  BY DEF TypeOK, RequestIsKnown, PendingIsFree, OneInserterPerSlug
<1>5. StillBelowQuota' /\ QuotaHolds'
  BY CountsUnchanged DEF TypeOK, StillBelowQuota, QuotaHolds
<1>6. OneWinnerPerSlug'
  BY DEF TypeOK, OneWinnerPerSlug, Winner
<1> QED
  BY <1>1, <1>2, <1>3, <1>4, <1>5, <1>6

\* An org the operator creates counts against no token.
LEMMA IInv_find_or_create_org ==
    ASSUME IInv, NEW s \in Slugs, find_or_create_org(s)
    PROVE  IInv'
<1> USE DEF IInv, find_or_create_org
<1>1. \A t \in Tokens : ClaimedBy(t)' = ClaimedBy(t)
  BY SentinelAssumption DEF TypeOK, ClaimedBy
<1>2. TypeOK' /\ RequestIsKnown' /\ LockDiscipline' /\ OneInserterPerSlug'
  BY DEF TypeOK, RequestIsKnown, LockDiscipline, OneInserterPerSlug
<1>3. PendingIsFree'
  BY DEF TypeOK, RequestIsKnown, PendingIsFree
<1>4. StillBelowQuota' /\ QuotaHolds'
  BY <1>1 DEF TypeOK, RequestIsKnown, StillBelowQuota, QuotaHolds
<1>5. OneWinnerPerSlug'
  <2>1. \A d \in Claims : Winner(d) => slug[d] \in Slugs /\ token[d] \in Tokens
    BY DEF RequestIsKnown, Winner
  <2> QED
    BY <2>1, SentinelAssumption DEF TypeOK, OneWinnerPerSlug, Winner
<1> QED
  BY <1>2, <1>3, <1>4, <1>5

\* Every step of the registry preserves the invariant.
LEMMA NextIInv == IInv /\ [Next]_vars => IInv'
<1> SUFFICES ASSUME IInv, [Next]_vars PROVE IInv'
  OBVIOUS
<1>1. ASSUME NEW c \in Claims, CommitClaim(c) PROVE IInv'
  <2>1. lease' \in [Tokens -> Claims \cup {None}]
    BY <1>1 DEF CommitClaim, IInv, TypeOK
  <2>2. \E step \in {"audit", "done"}, answer \in Responses \ {"created"} :
           /\ pc' = [pc EXCEPT ![c] = step]
           /\ \/ response' = response
              \/ step = "done" /\ response' = [response EXCEPT ![c] = answer]
    BY <1>1 DEF CommitClaim, Responses
  <2> QED
    BY <1>1, <2>1, <2>2, IInv_Commit DEF CommitClaim
<1>2. ASSUME NEW c \in Claims, DatabaseError(c) \/ Drop(c) PROVE IInv'
  <2>1. lease' \in [Tokens -> Claims \cup {None}]
    BY <1>2 DEF DatabaseError, Drop, Finish, IInv, TypeOK
  <2>2. PICK answer \in {"error", "dropped"} :
           response' = [response EXCEPT ![c] = answer]
    BY <1>2 DEF DatabaseError, Drop, Finish
  <2>3. /\ pc[c] \notin {"idle", "done"}
        /\ pc' = [pc EXCEPT ![c] = "done"]
        /\ Rollback(c)
        /\ UNCHANGED <<token, slug>>
    BY <1>2 DEF DatabaseError, Drop, Finish, InTransaction
  <2>4. CASE UNCHANGED org
    BY <2>1, <2>2, <2>3, <2>4, IInv_Abandon
  <2>5. CASE pc[c] = "commit" /\ org' = [org EXCEPT ![slug[c]] = token[c]]
    <3>1. \E step \in {"audit", "done"}, ans \in Responses \ {"created"} :
             /\ pc' = [pc EXCEPT ![c] = step]
             /\ \/ response' = response
                \/ step = "done" /\ response' = [response EXCEPT ![c] = ans]
      BY <2>2, <2>3 DEF Responses
    <3> QED
      BY <2>1, <2>3, <2>5, <3>1, IInv_Commit
  <2> QED
    BY <1>2, <2>4, <2>5 DEF DatabaseError, Drop
<1>3. ASSUME NEW t \in Tokens, LeaseExpires(t) PROVE IInv'
  BY <1>3, CountsUnchanged
     DEF LeaseExpires, IInv, TypeOK, RequestIsKnown, LockDiscipline,
         PendingIsFree, OneInserterPerSlug, StillBelowQuota,
         OneWinnerPerSlug, Winner, QuotaHolds
<1>4. CASE UNCHANGED vars
  BY <1>4, CountsUnchanged
     DEF vars, IInv, TypeOK, RequestIsKnown, LockDiscipline, PendingIsFree,
         OneInserterPerSlug, StillBelowQuota, OneWinnerPerSlug, Winner,
         QuotaHolds
<1> QED
  BY <1>1, <1>2, <1>3, <1>4, IInv_claim_org, IInv_fiducia_org_claim_guard,
     IInv_BeginSerialized, IInv_CountClaims, IInv_InsertOrg, IInv_AuditClaim,
     IInv_find_or_create_org
     DEF Next, ClaimStep

\* The inductive invariant holds in every reachable state.
THEOREM Invariance == Spec => []IInv
<1> QED
  BY InitIInv, NextIInv, PTL DEF Spec

\* No scoped token ever owns more namespaces than max_orgs_per_token, however
\* its claims race and whether or not the fiducia lease works.
THEOREM QuotaIsNeverExceeded == Spec => []QuotaHolds
<1>1. IInv => QuotaHolds
  BY DEF IInv
<1> QED
  BY <1>1, Invariance, PTL

\* Whoever is told "created" owns the namespace, alone.
THEOREM CreatedIsExclusive == Spec => []CreatedMeansOwned
<1>1. IInv => CreatedMeansOwned
  BY DEF IInv, OneWinnerPerSlug, Winner, CreatedMeansOwned
<1> QED
  BY <1>1, Invariance, PTL

\* A namespace row is never handed to another token.
THEOREM NamespaceIsPermanent == Spec => NamespaceIsNeverReassigned
<1>1. IInv /\ [Next]_vars
      => [\A s \in Slugs : org[s] # None => org'[s] = org[s]]_vars
  BY DEF IInv, TypeOK, PendingIsFree, Next, ClaimStep, claim_org,
         fiducia_org_claim_guard, BeginSerialized, CountClaims, InsertOrg,
         CommitClaim, AuditClaim, DatabaseError, Drop, LeaseExpires,
         find_or_create_org, vars
<1> QED
  BY <1>1, Invariance, PTL DEF Spec, NamespaceIsNeverReassigned

=============================================================================
