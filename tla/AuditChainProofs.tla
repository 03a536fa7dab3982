-------------------------- MODULE AuditChainProofs --------------------------
(***************************************************************************)
(* One linked chain without fork, gap or duplicate, for any number of      *)
(* racing calls of `record`, any number of attempts and of rows older than *)
(* the chain, with the advisory lock and without it; what verification     *)
(* says of such a log and of an edited one; and exact paging beside it.    *)
(***************************************************************************)
EXTENDS AuditVerify, FiniteSetTheorems, SequenceTheorems, TLAPS

\* What the backfill leaves: rows 1 to Legacy, without hashes.
LEMMA BackfilledRows ==
    /\ \A r \in Backfilled : /\ IsEntry(r)
                             /\ r.seq \in 1..Legacy
                             /\ r.body = LegacyEntry
                             /\ r.hash = NoHash /\ r.prev = NoHash
    /\ \A r, s \in Backfilled : r.seq = s.seq => r = s
    /\ \A n \in 1..Legacy : \E r \in Backfilled : r.seq = n
<1>1. \A r \in Backfilled : \E n \in 1..Legacy :
         r = [seq |-> n, body |-> LegacyEntry, prev |-> NoHash, hash |-> NoHash]
  BY DEF Backfilled, Entry
<1>2. \A n \in 1..Legacy :
         [seq |-> n, body |-> LegacyEntry, prev |-> NoHash, hash |-> NoHash]
         \in Backfilled
  BY DEF Backfilled, Entry
<1>3. \A r \in Backfilled : /\ IsEntry(r)
                            /\ r.seq \in 1..Legacy
                            /\ r.body = LegacyEntry
                            /\ r.hash = NoHash /\ r.prev = NoHash
  BY <1>1, LegacyAssumption DEF IsEntry, Entry
<1>4. \A r, s \in Backfilled : r.seq = s.seq => r = s
  BY <1>1, LegacyAssumption
<1>5. \A n \in 1..Legacy : \E r \in Backfilled : r.seq = n
  BY <1>2, LegacyAssumption
<1> QED
  BY <1>3, <1>4, <1>5

\* A log as the migration leaves it satisfies the invariant.
LEMMA InitIInv == Init => IInv
<1> SUFFICES ASSUME Init PROVE IInv
  OBVIOUS
<1>1. TypeOK
  BY BackfilledRows, AttemptsAssumption, NoneAssumption
     DEF Init, TypeOK, Steps, Outcomes, InTransaction
<1>2. ChainIsLinked
  <2>1. \A r, s \in log : r.seq = s.seq => r = s
    BY BackfilledRows DEF Init
  <2>2. \A r \in log : \A n \in 1..r.seq : \E s \in log : s.seq = n
    BY BackfilledRows, LegacyAssumption DEF Init
  <2>3. \A r \in log : r.seq <= Legacy /\ r.hash = NoHash /\ r.prev = NoHash
    BY BackfilledRows, LegacyAssumption DEF Init
  <2> QED
    BY <2>1, <2>2, <2>3 DEF ChainIsLinked
<1>3. RecordedAtMostOnce /\ NotYetRecorded /\ LegacyIsNumbered
  BY BackfilledRows, LegacyAssumption
     DEF Init, RecordedAtMostOnce, NotYetRecorded, LegacyIsNumbered
<1>4. /\ RecordedMeansPresent /\ PlanIsLinked /\ CommitIsExclusive
      /\ PlanIsNext
  <2>1. \A w \in Writers : pc[w] = "idle" /\ outcome[w] = "running"
    BY DEF Init
  <2> QED
    BY <2>1
       DEF RecordedMeansPresent, PlanIsLinked, CommitIsExclusive, PlanIsNext
<1>5. LockDiscipline
  BY NoneAssumption DEF Init, LockDiscipline, InTransaction
<1>6. StillRunning
  <2>1. \A w \in Writers :
           pc[w] = "idle" /\ outcome[w] = "running" /\ attempts[w] = 0
    BY DEF Init
  <2>2. 0 < APPEND_ATTEMPTS
    BY AttemptsAssumption
  <2> QED
    BY <2>1, <2>2 DEF StillRunning
<1> QED
  BY <1>1, <1>2, <1>3, <1>4, <1>5, <1>6 DEF IInv

\* A committed row joins the chain at its end, unless a concurrent call has
\* extended it since; either way the chain stays linked, and no call has two
\* rows.
LEMMA AppendLinked ==
    ASSUME IInv, NEW w \in Writers, pc[w] = "commit",
           log' = log \cup {planned[w]}
    PROVE  /\ \A r \in log' : IsEntry(r)
           /\ ChainIsLinked'
           /\ RecordedAtMostOnce'
           /\ LegacyIsNumbered'
<1> DEFINE p == planned[w]
<1>1. /\ IsEntry(p) /\ p.seq \in Nat \ {0} /\ p.body = w /\ p.seq > Legacy
      /\ p.hash = entry_digest(p.seq, w, p.prev)
      /\ \/ p.seq = 1 /\ p.prev = NoHash
         \/ \E s \in log : s.seq + 1 = p.seq /\ p.prev = s.hash
  BY DEF IInv, TypeOK, PlanIsLinked, IsEntry
<1>2. \A r \in log : IsEntry(r) /\ r.seq \in Nat \ {0} /\ r.seq # p.seq /\ r.body # w
  BY DEF IInv, TypeOK, IsEntry, CommitIsExclusive, NotYetRecorded
<1>3. /\ \A r, s \in log : r.seq = s.seq => r = s
      /\ \A r \in log : \A n \in 1..r.seq : \E s \in log : s.seq = n
      /\ \A r \in log :
            IF r.seq <= Legacy
            THEN r.hash = NoHash /\ r.prev = NoHash
            ELSE /\ r.hash = entry_digest(r.seq, r.body, r.prev)
                 /\ r.seq = 1 => r.prev = NoHash
                 /\ \A s \in log : s.seq + 1 = r.seq => r.prev = s.hash
  BY DEF IInv, ChainIsLinked
<1> HIDE DEF p
<1>4. log' = log \cup {p}
  BY DEF p
<1>5. \A r, s \in log' : r.seq = s.seq => r = s
  BY <1>2, <1>3, <1>4
<1>6. \A r \in log' : \A n \in 1..r.seq : \E s \in log' : s.seq = n
  <2>1. \A n \in 1..p.seq : \E s \in log' : s.seq = n
    <3> TAKE n \in 1..p.seq
    <3>1. CASE n = p.seq
      BY <1>4, <3>1
    <3>2. CASE n # p.seq
      <4>1. PICK s \in log : s.seq + 1 = p.seq
        BY <1>1, <3>2
      <4>2. n \in 1..s.seq
        BY <1>1, <1>2, <3>2, <4>1
      <4> QED
        BY <1>3, <1>4, <4>2
    <3> QED
      BY <3>1, <3>2
  <2> QED
    BY <1>3, <1>4, <2>1
<1>7. \A s \in log : s.seq + 1 = p.seq => p.prev = s.hash
  <2> TAKE s \in log
  <2> HAVE s.seq + 1 = p.seq
  <2>1. p.seq # 1
    BY <1>2
  <2>2. PICK t \in log : t.seq + 1 = p.seq /\ p.prev = t.hash
    BY <1>1, <2>1
  <2>3. t.seq = s.seq
    BY <1>1, <1>2, <2>2
  <2> QED
    BY <1>3, <2>2, <2>3
<1>8. \A r \in log : r.seq # p.seq + 1
  <2> SUFFICES ASSUME NEW r \in log, r.seq = p.seq + 1 PROVE FALSE
    OBVIOUS
  <2>1. p.seq \in 1..r.seq
    BY <1>1, <1>2
  <2> QED
    BY <1>2, <1>3, <2>1
<1>9. p.seq = 1 => p.prev = NoHash
  BY <1>1, <1>2
<1>10. \A r \in log' :
          IF r.seq <= Legacy
          THEN r.hash = NoHash /\ r.prev = NoHash
          ELSE /\ r.hash = entry_digest(r.seq, r.body, r.prev)
               /\ r.seq = 1 => r.prev = NoHash
               /\ \A s \in log' : s.seq + 1 = r.seq => r.prev = s.hash
  <2>1. p.seq + 1 # p.seq /\ ~(p.seq <= Legacy)
    BY <1>1, LegacyAssumption
  <2>2. \A s \in log' : s.seq + 1 = p.seq => p.prev = s.hash
    BY <1>4, <1>7, <2>1
  <2>3. \A r \in log : \A s \in log' : s.seq + 1 = r.seq => s \in log
    BY <1>4, <1>8
  <2> QED
    BY <1>1, <1>3, <1>4, <1>9, <2>1, <2>2, <2>3
<1>11. ChainIsLinked'
  BY <1>5, <1>6, <1>10 DEF ChainIsLinked
<1>12. RecordedAtMostOnce'
  BY <1>1, <1>2, <1>4 DEF IInv, RecordedAtMostOnce
<1>13. LegacyIsNumbered'
  BY <1>4 DEF IInv, LegacyIsNumbered, Backfilled
<1> QED
  BY <1>1, <1>2, <1>4, <1>11, <1>12, <1>13

\* How a call that leaves its transaction treats the lock.
LEMMA LockReleased ==
    ASSUME IInv, NEW w \in Writers, NEW to \in {"retry", "done"},
           pc' = [pc EXCEPT ![w] = to], EndTransaction(w),
           UNCHANGED advisory_lock
    PROVE  lock' \in Writers \cup {None} /\ LockDiscipline'
<1>1. lock \in Writers \cup {None} /\ pc \in [Writers -> Steps]
  BY DEF IInv, TypeOK
<1>2. lock' = IF lock = w THEN None ELSE lock
  BY DEF EndTransaction
<1>3. \A v \in Writers : pc'[v] = IF v = w THEN to ELSE pc[v]
  BY <1>1
<1>4. to \notin InTransaction
  BY DEF InTransaction
<1>5. ASSUME advisory_lock
      PROVE  \A v \in Writers : lock' = v <=> pc'[v] \in InTransaction
  <2>1. \A v \in Writers : lock = v <=> pc[v] \in InTransaction
    BY <1>5 DEF IInv, LockDiscipline
  <2> QED
    BY <1>1, <1>2, <1>3, <1>4, <2>1, NoneAssumption
<1>6. ASSUME ~advisory_lock PROVE lock' = None
  BY <1>2, <1>6 DEF IInv, LockDiscipline
<1> QED
  BY <1>1, <1>2, <1>5, <1>6 DEF LockDiscipline

\* Under the lock only one call is inside a transaction.
LEMMA LockIsExclusive ==
    ASSUME IInv, advisory_lock, NEW w \in Writers, pc[w] \in InTransaction
    PROVE  \A v \in Writers \ {w} : pc[v] \notin InTransaction
BY DEF IInv, LockDiscipline

\* Every action that ends a call: what becomes of the log is either nothing
\* or the call's own row.
LEMMA IInvReturn ==
    ASSUME IInv, NEW w \in Writers, pc[w] # "done",
           NEW how \in Outcomes \ {"running"},
           how = "recorded" => log' = log \cup {planned[w]} /\ pc[w] = "commit",
           how = "contended" => ~advisory_lock,
           \/ log' = log
           \/ pc[w] = "commit" /\ log' = log \cup {planned[w]},
           EndTransaction(w), Return(w, how),
           UNCHANGED <<advisory_lock, attempts, planned>>
    PROVE  IInv'
<1>1. /\ pc' = [pc EXCEPT ![w] = "done"]
      /\ outcome' = [outcome EXCEPT ![w] = how]
  BY DEF Return
<1>2. pc \in [Writers -> Steps] /\ outcome \in [Writers -> Outcomes]
  BY DEF IInv, TypeOK
<1>3. \A v \in Writers : /\ pc'[v] = IF v = w THEN "done" ELSE pc[v]
                         /\ outcome'[v] = IF v = w THEN how ELSE outcome[v]
  BY <1>1, <1>2
<1>4. /\ \A r \in log' : IsEntry(r)
      /\ ChainIsLinked' /\ RecordedAtMostOnce' /\ LegacyIsNumbered'
  <2>1. CASE log' = log
    BY <2>1 DEF IInv, TypeOK, ChainIsLinked, RecordedAtMostOnce,
                LegacyIsNumbered, Backfilled
  <2>2. CASE pc[w] = "commit" /\ log' = log \cup {planned[w]}
    BY <2>2, AppendLinked
  <2> QED
    BY <2>1, <2>2
<1>5. log \subseteq log' /\ \A r \in log' \ log : pc[w] = "commit" /\ r = planned[w]
  OBVIOUS
<1>6. pc[w] = "commit" => planned[w].body = w
  BY DEF IInv, PlanIsLinked
<1>7. lock' \in Writers \cup {None} /\ LockDiscipline'
  BY <1>1, LockReleased
<1>8. TypeOK'
  <2>1. pc' \in [Writers -> Steps] /\ outcome' \in [Writers -> Outcomes]
    BY <1>1, <1>2 DEF Steps
  <2>2. \A v \in Writers : pc'[v] \in {"insert", "commit"} => IsEntry(planned'[v])
    BY <1>3 DEF IInv, TypeOK
  <2> QED
    BY <1>4, <1>7, <2>1, <2>2 DEF IInv, TypeOK
<1>9. RecordedMeansPresent'
  <2>1. \A v \in Writers : outcome'[v] = "recorded" => \E r \in log' : r.body = v
    <3> TAKE v \in Writers
    <3> HAVE outcome'[v] = "recorded"
    <3>1. CASE v = w
      BY <1>3, <1>6, <3>1
    <3>2. CASE v # w
      BY <1>3, <1>5, <3>2 DEF IInv, RecordedMeansPresent
    <3> QED
      BY <3>1, <3>2
  <2>2. ASSUME advisory_lock PROVE \A v \in Writers : outcome'[v] # "contended"
    BY <1>3, <2>2 DEF IInv, RecordedMeansPresent
  <2> QED
    BY <2>1, <2>2 DEF RecordedMeansPresent
<1>10. PlanIsLinked'
  BY <1>3, <1>5 DEF IInv, PlanIsLinked
<1>11. CommitIsExclusive'
  BY <1>3, <1>5 DEF IInv, CommitIsExclusive
<1>12. PlanIsNext'
  <2> SUFFICES ASSUME advisory_lock, NEW v \in Writers,
                      pc'[v] \in {"insert", "commit"}, NEW r \in log'
               PROVE  r.seq < planned'[v].seq
    BY DEF PlanIsNext
  <2>1. v # w /\ pc[v] \in InTransaction /\ pc[v] \in {"insert", "commit"}
    BY <1>3 DEF InTransaction
  <2>2. pc[w] # "commit"
    BY <2>1, LockIsExclusive DEF InTransaction
  <2> QED
    BY <1>5, <2>1, <2>2 DEF IInv, PlanIsNext
<1>13. NotYetRecorded'
  BY <1>3, <1>5, <1>6 DEF IInv, NotYetRecorded
<1>14. StillRunning'
  BY <1>3 DEF IInv, StillRunning
<1> QED
  BY <1>4, <1>7, <1>8, <1>9, <1>10, <1>11, <1>12, <1>13, <1>14 DEF IInv

\* The properties of the log alone survive a step that leaves it alone.
LEMMA LogUntouched ==
    ASSUME IInv, UNCHANGED log
    PROVE  /\ \A r \in log' : IsEntry(r)
           /\ ChainIsLinked' /\ RecordedAtMostOnce' /\ LegacyIsNumbered'
BY DEF IInv, TypeOK, ChainIsLinked, RecordedAtMostOnce, LegacyIsNumbered,
       Backfilled

\* BEGIN and the lock.
LEMMA IInv_BeginAppend ==
    ASSUME IInv, NEW w \in Writers, BeginAppend(w)
    PROVE  IInv'
<1>0. UNCHANGED advisory_lock
  BY DEF BeginAppend
<1> USE <1>0
<1>1. /\ pc[w] \in {"idle", "retry"}
      /\ pc' = [pc EXCEPT ![w] = "tip"]
      /\ attempts' = [attempts EXCEPT ![w] = @ + 1]
      /\ UNCHANGED <<log, planned, outcome>>
  BY DEF BeginAppend
<1>2. /\ pc \in [Writers -> Steps] /\ attempts \in [Writers -> 0..APPEND_ATTEMPTS]
      /\ lock \in Writers \cup {None}
  BY DEF IInv, TypeOK
<1>3. \A v \in Writers : pc'[v] = IF v = w THEN "tip" ELSE pc[v]
  BY <1>1, <1>2
<1>4. lock' \in Writers \cup {None} /\ LockDiscipline'
  <2>1. ASSUME advisory_lock
        PROVE  lock' = w /\ \A v \in Writers : lock' = v <=> pc'[v] \in InTransaction
    <3>1. lock = None /\ lock' = w
      BY <2>1 DEF BeginAppend
    <3>2. \A v \in Writers : pc[v] \notin InTransaction
      BY <2>1, <3>1, NoneAssumption DEF IInv, LockDiscipline
    <3> QED
      BY <1>3, <3>1, <3>2 DEF InTransaction
  <2>2. ASSUME ~advisory_lock PROVE lock' = None
    BY <2>2 DEF BeginAppend, IInv, LockDiscipline
  <2> QED
    BY <2>1, <2>2 DEF LockDiscipline
<1>5. attempts[w] < APPEND_ATTEMPTS
  BY <1>1 DEF IInv, StillRunning
<1>6. TypeOK'
  <2>1. pc' \in [Writers -> Steps]
    BY <1>1, <1>2 DEF Steps, InTransaction
  <2>2. attempts' \in [Writers -> 0..APPEND_ATTEMPTS]
    BY <1>1, <1>2, <1>5, AttemptsAssumption
  <2>3. \A v \in Writers : pc'[v] \in {"insert", "commit"} => IsEntry(planned'[v])
    BY <1>1, <1>3 DEF IInv, TypeOK
  <2> QED
    BY <1>1, <1>4, <2>1, <2>2, <2>3, LogUntouched DEF IInv, TypeOK
<1>7. RecordedMeansPresent'
  BY <1>1 DEF IInv, RecordedMeansPresent
<1>8. PlanIsLinked' /\ CommitIsExclusive' /\ PlanIsNext' /\ NotYetRecorded'
  BY <1>1, <1>3 DEF IInv, PlanIsLinked, CommitIsExclusive, PlanIsNext,
                     NotYetRecorded
<1>9. StillRunning'
  <2>1. \A v \in Writers : pc'[v] \in {"idle", "retry"} => attempts'[v] = attempts[v]
    BY <1>1, <1>2, <1>3
  <2> QED
    BY <1>1, <1>3, <2>1 DEF IInv, StillRunning
<1> QED
  BY <1>1, <1>4, <1>6, <1>7, <1>8, <1>9, LogUntouched DEF IInv

\* Reading the tip plans a row past every committed one.
LEMMA IInv_ReadTip ==
    ASSUME IInv, NEW w \in Writers, ReadTip(w)
    PROVE  IInv'
<1>0. UNCHANGED advisory_lock
  BY DEF ReadTip
<1> USE <1>0
<1>1. /\ pc[w] = "tip"
      /\ pc' = [pc EXCEPT ![w] = "insert"]
      /\ UNCHANGED <<log, lock, attempts, outcome>>
  BY DEF ReadTip
<1>2. pc \in [Writers -> Steps] /\ DOMAIN planned = Writers
  BY DEF IInv, TypeOK
<1>3. \A v \in Writers : pc'[v] = IF v = w THEN "insert" ELSE pc[v]
  BY <1>1, <1>2
<1>4. PICK p : /\ planned' = [planned EXCEPT ![w] = p]
               /\ \/ log = {} /\ p = FirstPlan(w)
                  \/ \E tip \in Tips : p = PlanAfter(tip, w)
  BY DEF ReadTip
<1>5. \A v \in Writers : planned'[v] = IF v = w THEN p ELSE planned[v]
  BY <1>2, <1>4
<1>6. DOMAIN planned' = Writers
  BY <1>2, <1>4
<1>7. Legacy > 0 => \E r \in log : r.seq = Legacy
  <2>1. Legacy > 0 => Legacy \in 1..Legacy
    BY LegacyAssumption
  <2> QED
    BY <2>1, BackfilledRows DEF IInv, LegacyIsNumbered
<1>8. /\ IsEntry(p) /\ p.body = w /\ p.seq > Legacy
      /\ p.hash = entry_digest(p.seq, w, p.prev)
      /\ \/ p.seq = 1 /\ p.prev = NoHash
         \/ \E s \in log : s.seq + 1 = p.seq /\ p.prev = s.hash
      /\ \A r \in log : r.seq < p.seq
  <2>1. CASE log = {} /\ p = FirstPlan(w)
    <3>1. p = [seq |-> 1, body |-> w, prev |-> NoHash,
               hash |-> entry_digest(1, w, NoHash)]
      BY <2>1 DEF FirstPlan, Entry
    <3>2. Legacy = 0
      BY <1>7, <2>1, LegacyAssumption
    <3> QED
      BY <2>1, <3>1, <3>2 DEF IsEntry, Entry
  <2>2. CASE \E tip \in Tips : p = PlanAfter(tip, w)
    <3>1. PICK tip \in log : /\ \A r \in log : r.seq <= tip.seq
                            /\ p = PlanAfter(tip, w)
      BY <2>2 DEF Tips
    <3>2. p = [seq |-> tip.seq + 1, body |-> w, prev |-> tip.hash,
               hash |-> entry_digest(tip.seq + 1, w, tip.hash)]
      BY <3>1 DEF PlanAfter, Entry
    <3>3. \A r \in log : r.seq \in Nat \ {0}
      BY DEF IInv, TypeOK, IsEntry
    <3>4. p.seq \in Nat \ {0} /\ p.seq = tip.seq + 1
      BY <3>2, <3>3
    <3>5. p.seq > Legacy /\ \A r \in log : r.seq < p.seq
      BY <1>7, <3>1, <3>3, <3>4, LegacyAssumption
    <3>6. IsEntry(p)
      BY <3>2, <3>4 DEF IsEntry, Entry
    <3> QED
      BY <3>2, <3>4, <3>5, <3>6
  <2> QED
    BY <1>4, <2>1, <2>2
<1>9. TypeOK'
  <2>1. pc' \in [Writers -> Steps]
    BY <1>1, <1>2 DEF Steps, InTransaction
  <2>2. \A v \in Writers : pc'[v] \in {"insert", "commit"} => IsEntry(planned'[v])
    BY <1>3, <1>5, <1>8 DEF IInv, TypeOK
  <2> QED
    BY <1>1, <1>6, <2>1, <2>2, LogUntouched DEF IInv, TypeOK
<1>10. LockDiscipline'
  <2>1. \A v \in Writers : pc'[v] \in InTransaction <=> pc[v] \in InTransaction
    BY <1>1, <1>3 DEF InTransaction
  <2> QED
    BY <1>1, <2>1 DEF IInv, LockDiscipline
<1>11. RecordedMeansPresent'
  BY <1>1 DEF IInv, RecordedMeansPresent
<1>12. PlanIsLinked'
  BY <1>1, <1>3, <1>5, <1>8 DEF IInv, PlanIsLinked
<1>13. CommitIsExclusive'
  BY <1>1, <1>3, <1>5 DEF IInv, CommitIsExclusive
<1>14. PlanIsNext'
  BY <1>1, <1>3, <1>5, <1>8 DEF IInv, PlanIsNext
<1>15. NotYetRecorded' /\ StillRunning'
  BY <1>1, <1>3 DEF IInv, NotYetRecorded, StillRunning
<1> QED
  BY <1>1, <1>9, <1>10, <1>11, <1>12, <1>13, <1>14, <1>15, LogUntouched DEF IInv

\* The insert takes a free position, or is refused and tried again.
LEMMA IInv_Insert ==
    ASSUME IInv, NEW w \in Writers, Insert(w)
    PROVE  IInv'
<1>0. UNCHANGED advisory_lock
  BY DEF Insert
<1> USE <1>0
<1>1. pc[w] = "insert" /\ ~Contended(w) /\ UNCHANGED <<log, attempts, planned>>
  BY DEF Insert
<1>2. pc \in [Writers -> Steps]
  BY DEF IInv, TypeOK
<1>3. CASE /\ ~PositionTaken(w)
           /\ pc' = [pc EXCEPT ![w] = "commit"]
           /\ UNCHANGED <<lock, outcome>>
  <2>1. \A v \in Writers : pc'[v] = IF v = w THEN "commit" ELSE pc[v]
    BY <1>2, <1>3
  <2>2. TypeOK'
    <3>1. pc' \in [Writers -> Steps]
      BY <1>2, <1>3 DEF Steps, InTransaction
    <3>2. \A v \in Writers : pc'[v] \in {"insert", "commit"} => IsEntry(planned'[v])
      BY <1>1, <2>1 DEF IInv, TypeOK
    <3> QED
      BY <1>1, <1>3, <3>1, <3>2, LogUntouched DEF IInv, TypeOK
  <2>3. LockDiscipline'
    <3>1. \A v \in Writers : pc'[v] \in InTransaction <=> pc[v] \in InTransaction
      BY <1>1, <2>1 DEF InTransaction
    <3> QED
      BY <1>3, <3>1 DEF IInv, LockDiscipline
  <2>4. RecordedMeansPresent'
    BY <1>1, <1>3 DEF IInv, RecordedMeansPresent
  <2>5. PlanIsLinked' /\ PlanIsNext'
    BY <1>1, <2>1 DEF IInv, PlanIsLinked, PlanIsNext
  <2>6. CommitIsExclusive'
    BY <1>1, <1>3, <2>1 DEF IInv, CommitIsExclusive, PositionTaken, Contended
  <2>7. NotYetRecorded' /\ StillRunning'
    BY <1>1, <1>3, <2>1 DEF IInv, NotYetRecorded, StillRunning
  <2> QED
    BY <1>1, <2>2, <2>3, <2>4, <2>5, <2>6, <2>7, LogUntouched DEF IInv
<1>4. CASE /\ EndTransaction(w)
           /\ attempts[w] < APPEND_ATTEMPTS
           /\ pc' = [pc EXCEPT ![w] = "retry"]
           /\ UNCHANGED outcome
  <2>1. \A v \in Writers : pc'[v] = IF v = w THEN "retry" ELSE pc[v]
    BY <1>2, <1>4
  <2>2. lock' \in Writers \cup {None} /\ LockDiscipline'
    BY <1>4, LockReleased
  <2>3. TypeOK'
    <3>1. pc' \in [Writers -> Steps]
      BY <1>2, <1>4 DEF Steps
    <3>2. \A v \in Writers : pc'[v] \in {"insert", "commit"} => IsEntry(planned'[v])
      BY <1>1, <2>1 DEF IInv, TypeOK
    <3> QED
      BY <1>1, <1>4, <2>2, <3>1, <3>2, LogUntouched DEF IInv, TypeOK
  <2>4. RecordedMeansPresent'
    BY <1>1, <1>4 DEF IInv, RecordedMeansPresent
  <2>5. PlanIsLinked' /\ PlanIsNext' /\ CommitIsExclusive'
    BY <1>1, <2>1 DEF IInv, PlanIsLinked, PlanIsNext, CommitIsExclusive
  <2>6. NotYetRecorded' /\ StillRunning'
    BY <1>1, <1>4, <2>1 DEF IInv, NotYetRecorded, StillRunning
  <2> QED
    BY <1>1, <2>2, <2>3, <2>4, <2>5, <2>6, LogUntouched DEF IInv
<1>5. CASE PositionTaken(w) /\ EndTransaction(w) /\ Return(w, "contended")
  <2>1. ~advisory_lock
    <3> SUFFICES ASSUME advisory_lock PROVE FALSE
      OBVIOUS
    <3>1. \A r \in log : r.seq < planned[w].seq /\ r.seq \in Nat
      BY <1>1 DEF IInv, TypeOK, IsEntry, PlanIsNext
    <3>2. planned[w].seq \in Nat
      BY <1>1 DEF IInv, TypeOK, IsEntry
    <3> QED
      BY <1>5, <3>1, <3>2 DEF PositionTaken
  <2>2. "contended" \in Outcomes \ {"running"}
    BY DEF Outcomes
  <2> QED
    BY <1>1, <1>5, <2>1, <2>2, IInvReturn
<1> QED
  BY <1>3, <1>4, <1>5 DEF Insert

\* COMMIT, and the ways a call ends without it.
LEMMA IInv_End ==
    ASSUME IInv, NEW w \in Writers, Commit(w) \/ DatabaseError(w) \/ Drop(w)
    PROVE  IInv'
<1>1. {"recorded", "failed", "dropped"} \subseteq Outcomes \ {"running"}
  BY DEF Outcomes
<1>2. CASE Commit(w)
  BY <1>1, <1>2, IInvReturn DEF Commit
<1>3. CASE DatabaseError(w)
  <2>1. pc[w] # "done"
    BY <1>3 DEF DatabaseError, InTransaction
  <2> QED
    BY <1>1, <1>3, <2>1, IInvReturn DEF DatabaseError, Abandon
<1>4. CASE Drop(w)
  <2>1. pc[w] # "done"
    BY <1>4 DEF Drop, InTransaction
  <2> QED
    BY <1>1, <1>4, <2>1, IInvReturn DEF Drop, Abandon
<1> QED
  BY <1>2, <1>3, <1>4

\* Every step preserves the invariant.
LEMMA NextIInv == IInv /\ [Next]_chainVars => IInv'
<1> SUFFICES ASSUME IInv, [Next]_chainVars PROVE IInv'
  OBVIOUS
<1>1. CASE UNCHANGED chainVars
  BY <1>1 DEF chainVars, IInv, TypeOK, ChainIsLinked, RecordedAtMostOnce,
              RecordedMeansPresent, LockDiscipline, PlanIsLinked,
              CommitIsExclusive, PlanIsNext, NotYetRecorded, StillRunning,
              LegacyIsNumbered, Backfilled
<1>2. CASE Next
  <2>1. PICK w \in Writers : record(w) \/ DatabaseError(w) \/ Drop(w)
    BY <1>2 DEF Next
  <2> QED
    BY <2>1, IInv_BeginAppend, IInv_ReadTip, IInv_Insert, IInv_End DEF record
<1> QED
  BY <1>1, <1>2

\* The invariant holds in every reachable state.
THEOREM Invariance == Spec => []IInv
<1> QED
  BY InitIInv, NextIInv, PTL DEF Spec

\* The log of an org is one linked chain without gap or fork.
THEOREM ChainNeverForks == Spec => []ChainIsLinked
<1>1. IInv => ChainIsLinked
  BY DEF IInv
<1> QED
  BY <1>1, Invariance, PTL

\* No call of `record` leaves two rows.
THEOREM RecordedOnce == Spec => []RecordedAtMostOnce
<1>1. IInv => RecordedAtMostOnce
  BY DEF IInv
<1> QED
  BY <1>1, Invariance, PTL

\* A call that ended well has its row, and under the advisory lock none is
\* turned away by contention.
THEOREM RecordedIsPresent == Spec => []RecordedMeansPresent
<1>1. IInv => RecordedMeansPresent
  BY DEF IInv
<1> QED
  BY <1>1, Invariance, PTL

\* No step removes or edits a row.
THEOREM AppendOnly == Spec => LogIsAppendOnly
<1>1. [Next]_chainVars => [log \subseteq log']_chainVars
  BY DEF Next, record, BeginAppend, ReadTip, Insert, Commit, DatabaseError, Drop,
         Abandon, chainVars
<1> QED
  BY <1>1, PTL DEF Spec, LogIsAppendOnly

-----------------------------------------------------------------------------
(* Verification.  The honest log and an edited one are compared below the  *)
(* edit, where they hold the same rows, and at the edit.                   *)

\* A digest says what it covers, and is never the empty string.
LEMMA DigestIsFree ==
    ASSUME NEW s, NEW b, NEW p
    PROVE  /\ entry_digest(s, b, p) # NoHash
           /\ \A t, c, q : entry_digest(s, b, p) = entry_digest(t, c, q)
                              => s = t /\ b = c /\ p = q
BY DEF entry_digest, NoHash

LEMMA NewestIs ==
    ASSUME NEW S, NEW p \in S, \A s \in S : s.seq \in Nat,
           \A s \in S : s.seq <= p.seq, \A s \in S : s.seq = p.seq => s = p
    PROVE  Newest(S) = p
<1> DEFINE P(r) == r \in S /\ \A s \in S : s.seq <= r.seq
<1>1. P(p)
  OBVIOUS
<1>2. \A r : P(r) => r = p
  OBVIOUS
<1>3. Newest(S) = CHOOSE r : P(r)
  BY DEF Newest
<1> QED
  BY <1>1, <1>2, <1>3

LEMMA OldestIs ==
    ASSUME NEW S, NEW p \in S, \A s \in S : s.seq \in Nat,
           \A s \in S : p.seq <= s.seq, \A s \in S : s.seq = p.seq => s = p
    PROVE  Oldest(S) = p
<1> DEFINE P(r) == r \in S /\ \A s \in S : r.seq <= s.seq
<1>1. P(p)
  OBVIOUS
<1>2. \A r : P(r) => r = p
  OBVIOUS
<1>3. Oldest(S) = CHOOSE r : P(r)
  BY DEF Oldest
<1> QED
  BY <1>1, <1>2, <1>3

\* A finite set of natural numbers has a greatest element.
LEMMA GreatestNatural ==
    ASSUME NEW S, S \subseteq Nat, S # {}, IsFiniteSet(S)
    PROVE  \E x \in S : \A y \in S : y <= x
<1> DEFINE Max(U) == \E x \in U : \A y \in U : y <= x
           T == {U \in FiniteSubsetsOf(S) : U # {} /\ ~Max(U)}
           R == StrictSubsetOrdering(S)
<1> SUFFICES ASSUME ~Max(S) PROVE FALSE
  OBVIOUS
<1>1. S \in T
  BY DEF FiniteSubsetsOf
<1>2. T \subseteq FiniteSubsetsOf(S) /\ T # {}
  BY <1>1
<1>3. IsWellFoundedOn(R, FiniteSubsetsOf(S))
  BY FS_StrictSubsetOrderingWellFounded
<1>4. PICK U \in T : \A V \in T : ~(<<V, U>> \in R)
  <2> HIDE DEF T, R
  <2> QED
    BY <1>2, <1>3, WFMin
<1>5. U \in SUBSET S /\ IsFiniteSet(U) /\ U # {} /\ ~Max(U)
  BY <1>4 DEF FiniteSubsetsOf
<1>6. PICK x \in U : TRUE
  BY <1>5
<1> DEFINE V == U \ {x}
<1>7. IsFiniteSet(V) /\ V \in SUBSET S /\ V # U
  BY <1>5, <1>6, FS_RemoveElement
<1>8. <<V, U>> \in R
  BY <1>5, <1>7 DEF StrictSubsetOrdering
<1>9. V \notin T
  BY <1>4, <1>8
<1>10. V = {} \/ Max(V)
  BY <1>7, <1>9 DEF FiniteSubsetsOf
<1>11. CASE V = {}
  <2>1. \A y \in U : y = x
    BY <1>11
  <2>2. x \in Nat
    BY <1>5, <1>6
  <2>3. \A y \in U : y <= x
    BY <2>1, <2>2
  <2> QED
    BY <1>5, <1>6, <2>3
<1>12. CASE Max(V)
  <2>1. PICK m \in V : \A y \in V : y <= m
    BY <1>12
  <2>2. x \in Nat /\ \A y \in U : y \in Nat /\ (y = x \/ y \in V)
    BY <1>5, <1>6
  <2>3. \/ \A y \in U : y <= m
        \/ \A y \in U : y <= x
    BY <2>1, <2>2
  <2> QED
    BY <1>5, <1>6, <2>1, <2>3
<1> QED
  BY <1>10, <1>11, <1>12

\* A finite set of rows has a newest one.
LEMMA NewestExists ==
    ASSUME NEW S, S # {}, IsFiniteSet(S), \A s \in S : s.seq \in Nat
    PROVE  Newest(S) \in S /\ \A s \in S : s.seq <= Newest(S).seq
<1> DEFINE T == {s.seq : s \in S}
           f == [s \in S |-> s.seq]
<1>1. f \in Surjection(S, T)
  BY DEF Surjection
<1>2. IsFiniteSet(T) /\ T # {} /\ T \subseteq Nat
  BY <1>1, FS_Surjection
<1>3. PICK x \in T : \A y \in T : y <= x
  <2> HIDE DEF T
  <2> QED
    BY <1>2, GreatestNatural
<1>4. \E r \in S : \A s \in S : s.seq <= r.seq
  BY <1>3
<1> QED
  BY <1>4 DEF Newest

\* The chained rows of an honest log are the rows past the backfilled ones.
LEMMA LinkFacts ==
    ASSUME IInv
    PROVE  /\ \A r \in log : r.seq \in Nat \ {0} /\ r.body # Forged
           /\ \A r \in log : r \in Links <=> r.seq > Legacy
           /\ \A r \in Links : r \in log /\ r.hash = entry_digest(r.seq, r.body, r.prev)
           /\ \A r, s \in log : r.seq = s.seq => r = s
           /\ \A r \in log : \A n \in 1..r.seq : \E s \in log : s.seq = n
<1>1. \A r \in log : r.seq \in Nat \ {0} /\ r.body # Forged
  BY ForgedAssumption DEF IInv, TypeOK, IsEntry
<1>2. /\ \A r, s \in log : r.seq = s.seq => r = s
      /\ \A r \in log : \A n \in 1..r.seq : \E s \in log : s.seq = n
      /\ \A r \in log : r.seq <= Legacy => r.hash = NoHash
      /\ \A r \in log : ~(r.seq <= Legacy) => r.hash = entry_digest(r.seq, r.body, r.prev)
  BY DEF IInv, ChainIsLinked
<1>3. \A r \in log : r.seq > Legacy => r.hash = entry_digest(r.seq, r.body, r.prev)
                                       /\ r.hash # NoHash
  BY <1>1, <1>2, DigestIsFree, LegacyAssumption
<1>4. \A r \in log : r \in Links <=> r.seq > Legacy
  BY <1>1, <1>2, <1>3, LegacyAssumption DEF Links, Chained
<1>5. \A r \in Links : r \in log
  BY DEF Links, Chained
<1> QED
  BY <1>1, <1>2, <1>3, <1>4, <1>5

\* Every chained row of an honest log covers the hash of the one before it.
LEMMA HonestLink ==
    ASSUME IInv, NEW r \in Links
    PROVE  LET walked == Below(Links, r)
           IN  /\ walked = {} <=> r.seq = Legacy + 1
               /\ head_hash(walked) = r.prev
               /\ walked # {} => Newest(walked).seq + 1 = r.seq
<1> DEFINE walked == Below(Links, r)
<1>1. /\ r \in log /\ r.seq \in Nat \ {0} /\ r.seq > Legacy /\ Legacy \in Nat
      /\ \A s \in Links : s \in log /\ s.seq \in Nat \ {0} /\ s.seq > Legacy
      /\ \A s \in log : s.seq > Legacy => s \in Links
  BY LinkFacts, LegacyAssumption
<1>2. /\ r.seq = 1 => r.prev = NoHash
      /\ \A s \in log : s.seq + 1 = r.seq => r.prev = s.hash
      /\ \A s \in log : s.seq <= Legacy => s.hash = NoHash
  BY <1>1 DEF IInv, ChainIsLinked
<1>3. CASE r.seq = Legacy + 1
  <2>1. walked = {}
    BY <1>1, <1>3 DEF Below
  <2>2. r.prev = NoHash
    <3>1. CASE Legacy = 0
      BY <3>1, <1>2, <1>3
    <3>2. CASE Legacy # 0
      <4>1. Legacy \in 1..r.seq
        BY <1>1, <1>3, <3>2
      <4>2. PICK s \in log : s.seq = Legacy
        BY <4>1, <1>1, LinkFacts
      <4> QED
        BY <4>2, <1>1, <1>2, <1>3
    <3> QED
      BY <3>1, <3>2
  <2> QED
    BY <2>1, <2>2, <1>3 DEF head_hash
<1>4. CASE r.seq # Legacy + 1
  <2>1. r.seq - 1 \in 1..r.seq /\ r.seq - 1 > Legacy
    BY <1>1, <1>4
  <2>2. PICK p \in log : p.seq = r.seq - 1
    BY <2>1, <1>1, LinkFacts
  <2>3. p \in walked /\ p.seq + 1 = r.seq
    BY <2>1, <2>2, <1>1 DEF Below
  <2>4. /\ \A s \in walked : s.seq \in Nat /\ s.seq <= p.seq
        /\ \A s \in walked : s.seq = p.seq => s = p
    BY <2>2, <1>1, LinkFacts DEF Below
  <2>5. Newest(walked) = p
    BY <2>3, <2>4, NewestIs
  <2> QED
    BY <2>2, <2>3, <2>5, <1>1, <1>2, <1>4 DEF head_hash
<1> QED
  BY <1>3, <1>4

\* A row that has below it what the honest log has below it fits.
LEMMA HonestRowFits ==
    ASSUME IInv, NEW r \in Links, NEW chained, Below(chained, r) = Below(Links, r)
    PROVE  r \notin Bad(chained)
<1>1. ~SequenceGap(chained, r)
  <2>1. r.seq \in Nat
    BY LinkFacts
  <2> QED
    BY HonestLink, <2>1 DEF SequenceGap
<1>2. ~Mismatch(chained, r)
  BY HonestLink, LinkFacts DEF Mismatch, expected_hash
<1> QED
  BY <1>1, <1>2 DEF Bad

\* The first row that does not fit decides the report.
LEMMA FirstBadRow ==
    ASSUME NEW rows, NEW x \in Bad(Chained(rows)),
           \A s \in Chained(rows) : s.seq \in Nat,
           \A s \in Chained(rows) : s.seq < x.seq => s \notin Bad(Chained(rows)),
           \A s \in Chained(rows) : s.seq = x.seq => s = x
    PROVE  verify_chain(rows) = Accuse(Chained(rows), x)
<1> DEFINE bad == Bad(Chained(rows))
<1>1. bad # {} /\ \A s \in bad : s \in Chained(rows)
  BY DEF Bad
<1>2. /\ \A s \in bad : s.seq \in Nat
      /\ \A s \in bad : x.seq <= s.seq
      /\ \A s \in bad : s.seq = x.seq => s = x
  BY <1>1
<1>3. Oldest(bad) = x
  BY <1>2, OldestIs
<1> QED
  BY <1>1, <1>3 DEF verify_chain

\* The prefix the handler walks holds, with a row, every row before it.
LEMMA PrefixIsClosed ==
    ASSUME IInv, IsFiniteSet(log), NEW r \in OldestRows(log, MAX_VERIFY_ROWS),
           NEW s \in log, s.seq < r.seq
    PROVE  s \in OldestRows(log, MAX_VERIFY_ROWS)
<1>1. /\ r \in log /\ r.seq \in Nat /\ s.seq \in Nat
      /\ \A t \in log : t.seq \in Nat
      /\ Cardinality(Below(log, r)) < MAX_VERIFY_ROWS
  BY LinkFacts DEF OldestRows
<1>2. Below(log, s) \in SUBSET Below(log, r) /\ Below(log, r) \in SUBSET log
  BY <1>1 DEF Below
<1>3. IsFiniteSet(Below(log, r))
  BY <1>2, FS_Subset
<1>4. /\ IsFiniteSet(Below(log, s))
      /\ Cardinality(Below(log, s)) <= Cardinality(Below(log, r))
  BY <1>2, <1>3, FS_Subset
<1>5. Cardinality(Below(log, s)) \in Nat /\ Cardinality(Below(log, r)) \in Nat
  BY <1>3, <1>4, FS_CardinalityType
<1>6. Cardinality(Below(log, s)) < MAX_VERIFY_ROWS
  BY <1>1, <1>4, <1>5, WalkAssumption
<1> QED
  BY <1>6 DEF OldestRows

\* Every row of the walked prefix fits, so all of them are counted.
LEMMA HonestReport ==
    ASSUME IInv, IsFiniteSet(log)
    PROVE  HonestLogVerifies
<1> DEFINE rows == OldestRows(log, MAX_VERIFY_ROWS)
           chained == Chained(rows)
<1>1. chained = rows \cap Links
  BY DEF Chained, Links, OldestRows
<1>2. ASSUME NEW r \in chained PROVE r \notin Bad(chained)
  <2>1. r \in Links /\ r \in rows
    BY <1>1
  <2>2. \A s \in Links : s.seq < r.seq => s \in rows
    BY <2>1, PrefixIsClosed, LinkFacts
  <2>3. Below(chained, r) = Below(Links, r)
    BY <1>1, <2>2 DEF Below
  <2> QED
    BY <2>1, <2>3, HonestRowFits
<1>3. Bad(chained) = {}
  BY <1>2 DEF Bad
<1>4. verify_audit_log(log) = Report(TRUE, chained, None, None)
  BY <1>3 DEF verify_audit_log, verify_chain
<1> QED
  BY <1>1, <1>4 DEF HonestLogVerifies, Report, head_hash

\* What replacing a chained row by another at its position leaves intact: the
\* rows below fit, and the new row is compared with the same predecessor.
LEMMA EditedRow ==
    ASSUME IInv, NEW r \in Links, NEW f, f.seq = r.seq, f.hash # NoHash
    PROVE  LET chained == Chained(Replaced(r, f))
           IN  /\ chained = (Links \ {r}) \cup {f}
               /\ \A s \in chained : s.seq \in Nat
               /\ \A s \in chained : s.seq < r.seq => s \notin Bad(chained)
               /\ \A s \in chained : s.seq = r.seq => s = f
               /\ ~SequenceGap(chained, f)
               /\ Mismatch(chained, f) <=> entry_digest(r.seq, f.body, r.prev) # f.hash
<1> DEFINE chained == Chained(Replaced(r, f))
<1>1. /\ r \in log /\ r.seq \in Nat \ {0}
      /\ \A s \in Links : s \in log /\ s.seq \in Nat
      /\ \A s \in log : s.seq = r.seq => s = r
  BY LinkFacts
<1>2. chained = (Links \ {r}) \cup {f}
  BY <1>1 DEF Replaced, Chained, Links
<1>3. \A s \in chained : s.seq \in Nat
  BY <1>1, <1>2
<1>4. \A s \in chained : s.seq = r.seq => s = f
  BY <1>1, <1>2
<1> HIDE DEF chained
<1>5. ASSUME NEW s \in chained, s.seq < r.seq PROVE s \notin Bad(chained)
  <2>1. s \in Links
    BY <1>1, <1>2, <1>5
  <2>2. Below(chained, s) = Below(Links, s)
    BY <1>1, <1>2, <1>5, <2>1 DEF Below
  <2> QED
    BY <2>1, <2>2, HonestRowFits
<1>6. Below(chained, f) = Below(Links, r)
  BY <1>1, <1>2 DEF Below
<1>7. ~SequenceGap(chained, f)
  BY <1>1, <1>6, HonestLink DEF SequenceGap
<1>8. Mismatch(chained, f) <=> entry_digest(r.seq, f.body, r.prev) # f.hash
  BY <1>6, HonestLink DEF Mismatch, expected_hash
<1> QED
  BY <1>2, <1>3, <1>4, <1>5, <1>7, <1>8 DEF chained

\* A row that does not carry the digest of its contents over the row before it
\* is reported at its position.
LEMMA MisfitIsReported ==
    ASSUME IInv, NEW r \in Links, NEW f, f.seq = r.seq, f.hash # NoHash,
           entry_digest(r.seq, f.body, r.prev) # f.hash
    PROVE  LET report == verify_chain(Replaced(r, f))
           IN  /\ report.intact = FALSE
               /\ report.bad = r.seq
               /\ report.problem = IF entry_digest(f.seq, f.body, f.prev) = f.hash
                                   THEN "broken_link" ELSE "hash_mismatch"
<1> DEFINE chained == Chained(Replaced(r, f))
<1>1. /\ f \in chained /\ f \in Bad(chained)
      /\ \A s \in chained : s.seq \in Nat
      /\ \A s \in chained : s.seq < f.seq => s \notin Bad(chained)
      /\ \A s \in chained : s.seq = f.seq => s = f
      /\ ~SequenceGap(chained, f)
  BY EditedRow DEF Bad
<1>2. verify_chain(Replaced(r, f)) = Accuse(chained, f)
  BY <1>1, FirstBadRow
<1> QED
  BY <1>1, <1>2 DEF Accuse, Report, expected_hash

\* A row past a chained one has its successor in the log.
LEMMA SuccessorExists ==
    ASSUME IInv, NEW r \in Links, r # Newest(log)
    PROVE  \E s \in Links : s.seq = r.seq + 1 /\ s.prev = r.hash
<1>1. /\ r \in log /\ r.seq \in Nat \ {0} /\ r.seq > Legacy /\ Legacy \in Nat
      /\ \A s \in log : s.seq \in Nat \ {0}
      /\ \A s \in log : s.seq = r.seq => s = r
  BY LinkFacts, LegacyAssumption
<1>2. PICK t \in log : t.seq > r.seq
  BY <1>1, NewestIs
<1>3. r.seq + 1 \in 1..t.seq
  BY <1>1, <1>2
<1>4. PICK s \in log : s.seq = r.seq + 1
  BY <1>2, <1>3, LinkFacts
<1>5. s \in Links /\ ~(s.seq <= Legacy)
  BY <1>1, <1>4, LinkFacts
<1>6. s.prev = r.hash
  BY <1>1, <1>4, <1>5 DEF IInv, ChainIsLinked
<1> QED
  BY <1>4, <1>5, <1>6

\* A row deleted from the middle leaves a gap; the first chained row leaves
\* its successor linked to nothing.
LEMMA DeletionIsReported ==
    ASSUME IInv, NEW r \in Links, r # Newest(log)
    PROVE  LET report == verify_chain(log \ {r})
           IN  /\ report.intact = FALSE
               /\ IF r.seq = Legacy + 1
                  THEN report.bad = r.seq + 1 /\ report.problem = "broken_link"
                  ELSE report.bad = r.seq /\ report.problem = "sequence_gap"
<1> DEFINE chained == Chained(log \ {r})
<1>1. /\ r \in log /\ r.seq \in Nat \ {0}
      /\ \A s \in Links : s \in log /\ s.seq \in Nat
      /\ \A s, t \in log : s.seq = t.seq => s = t
      /\ r.hash = entry_digest(r.seq, r.body, r.prev)
  BY LinkFacts
<1>2. PICK x \in Links : x.seq = r.seq + 1 /\ x.prev = r.hash
  BY SuccessorExists
<1>3. chained = Links \ {r}
  BY <1>1 DEF Chained, Links
<1> HIDE DEF chained
<1>4. /\ x \in chained
      /\ \A s \in chained : s.seq \in Nat
      /\ \A s \in chained : s.seq = x.seq => s = x
      /\ \A s \in chained : s.seq < x.seq => s.seq < r.seq /\ s \in Links
      /\ x.hash = entry_digest(x.seq, x.body, r.hash)
  BY <1>1, <1>2, <1>3, LinkFacts
<1>5. ASSUME NEW s \in chained, s.seq < x.seq PROVE s \notin Bad(chained)
  <2>1. s \in Links /\ s.seq < r.seq
    BY <1>4, <1>5
  <2>2. Below(chained, s) = Below(Links, s)
    BY <1>1, <1>3, <2>1 DEF Below
  <2> QED
    BY <2>1, <2>2, HonestRowFits
<1>6. Below(chained, x) = Below(Links, r)
  BY <1>1, <1>2, <1>3, <1>4 DEF Below
<1>7. CASE r.seq = Legacy + 1
  <2>1. Below(chained, x) = {}
    BY <1>6, <1>7, HonestLink
  <2>2. ~SequenceGap(chained, x) /\ head_hash(Below(chained, x)) = NoHash
    BY <2>1 DEF SequenceGap, head_hash
  <2>3. r.hash # NoHash
    BY <1>1, DigestIsFree
  <2>4. expected_hash(x, NoHash) # x.hash /\ expected_hash(x, x.prev) = x.hash
    BY <1>2, <1>4, <2>3, DigestIsFree DEF expected_hash
  <2>5. x \in Bad(chained)
    BY <1>4, <2>2, <2>4 DEF Bad, Mismatch
  <2>6. verify_chain(log \ {r}) = Accuse(chained, x)
    BY <1>4, <1>5, <2>5, FirstBadRow DEF chained
  <2> QED
    BY <1>2, <1>7, <2>2, <2>4, <2>6 DEF Accuse, Report
<1>8. CASE r.seq # Legacy + 1
  <2>1. Below(chained, x) # {} /\ Newest(Below(chained, x)).seq + 1 = r.seq
    BY <1>6, <1>8, HonestLink
  <2>2. SequenceGap(chained, x)
    BY <1>1, <1>2, <2>1 DEF SequenceGap
  <2>3. x \in Bad(chained)
    BY <1>4, <2>2 DEF Bad
  <2>4. verify_chain(log \ {r}) = Accuse(chained, x)
    BY <1>4, <1>5, <2>3, FirstBadRow DEF chained
  <2> QED
    BY <1>8, <2>1, <2>2, <2>4 DEF Accuse, Report
<1> QED
  BY <1>7, <1>8

\* A row edited and hashed anew fits, and gives its successor away; at the end
\* of the log the head hash moves.
LEMMA RehashIsReported ==
    ASSUME IInv, IsFiniteSet(log), NEW r \in Links, NEW f, f.seq = r.seq, f.body # r.body,
           f.hash = entry_digest(r.seq, f.body, r.prev)
    PROVE  LET report == verify_chain(Replaced(r, f))
           IN  /\ r # Newest(log) => /\ report.intact = FALSE
                                     /\ report.bad = r.seq + 1
                                     /\ report.problem = "broken_link"
               /\ r = Newest(log) => report.head # r.hash
<1> DEFINE chained == Chained(Replaced(r, f))
<1>1. /\ r \in log /\ r.seq \in Nat \ {0}
      /\ \A s \in Links : s \in log /\ s.seq \in Nat
      /\ \A s, t \in log : s.seq = t.seq => s = t
      /\ r.hash = entry_digest(r.seq, r.body, r.prev)
  BY LinkFacts
<1>2. f.hash # NoHash /\ f.hash # r.hash
  BY <1>1, DigestIsFree
<1>3. /\ chained = (Links \ {r}) \cup {f}
      /\ \A s \in chained : s.seq \in Nat
      /\ \A s \in chained : s.seq < r.seq => s \notin Bad(chained)
      /\ \A s \in chained : s.seq = r.seq => s = f
      /\ f \notin Bad(chained)
  BY <1>2, EditedRow DEF Bad
<1>4. CASE r # Newest(log)
  <2>1. PICK x \in Links : x.seq = r.seq + 1 /\ x.prev = r.hash
    BY <1>4, SuccessorExists
  <2> HIDE DEF chained
  <2>2. /\ x \in chained /\ x.hash = entry_digest(x.seq, x.body, r.hash)
        /\ \A s \in chained : s.seq = x.seq => s = x
    BY <1>1, <1>3, <2>1, LinkFacts
  <2>3. ASSUME NEW s \in chained, s.seq < x.seq PROVE s \notin Bad(chained)
    BY <1>1, <1>3, <2>1, <2>3
  <2>4. Newest(Below(chained, x)) = f
    <3>1. f \in Below(chained, x) /\ \A s \in Below(chained, x) : s \in chained /\ s.seq < x.seq
      BY <1>1, <1>3, <2>1 DEF Below
    <3>2. ASSUME NEW s \in Below(chained, x) PROVE s.seq \in Nat /\ s.seq <= f.seq
      <4>1. s \in chained /\ s.seq < x.seq /\ s.seq \in Nat
        BY <1>3, <3>1
      <4> QED
        BY <1>1, <2>1, <4>1
    <3>3. \A s \in Below(chained, x) : s.seq = f.seq => s = f
      BY <1>3, <3>1
    <3> QED
      BY <3>1, <3>2, <3>3, NewestIs
  <2>5. f \in Below(chained, x)
    BY <1>1, <1>3, <2>1 DEF Below
  <2>6. ~SequenceGap(chained, x) /\ head_hash(Below(chained, x)) = f.hash
    BY <2>1, <2>4, <2>5 DEF SequenceGap, head_hash
  <2>7. expected_hash(x, f.hash) # x.hash /\ expected_hash(x, x.prev) = x.hash
    BY <1>2, <2>1, <2>2, DigestIsFree DEF expected_hash
  <2>8. x \in Bad(chained)
    BY <2>2, <2>6, <2>7 DEF Bad, Mismatch
  <2>9. verify_chain(Replaced(r, f)) = Accuse(chained, x)
    BY <1>3, <2>2, <2>3, <2>8, FirstBadRow DEF chained
  <2> QED
    BY <1>4, <2>1, <2>6, <2>7, <2>9 DEF Accuse, Report
<1>5. CASE r = Newest(log)
  <2>1. \A s \in log : s.seq <= r.seq
    BY <1>1, <1>5, NewestExists, LinkFacts
  <2> HIDE DEF chained
  <2>2. f \in chained /\ \A s \in chained : s.seq <= f.seq
    BY <1>1, <1>3, <2>1
  <2>3. ASSUME NEW s \in chained PROVE s \notin Bad(chained)
    <3>1. s.seq \in Nat /\ s.seq <= r.seq /\ r.seq \in Nat
      BY <1>1, <1>3, <2>2
    <3>2. s.seq < r.seq \/ s.seq = r.seq
      BY <3>1
    <3> QED
      BY <1>3, <3>2
  <2>4. Bad(chained) = {}
    BY <2>3 DEF Bad
  <2>5. verify_chain(Replaced(r, f)) = Report(TRUE, chained, None, None)
    BY <2>4 DEF verify_chain, chained
  <2>6. Newest(chained) = f
    <3>1. \A s \in chained : s.seq = f.seq => s = f
      BY <1>3
    <3>2. \A s \in chained : s.seq \in Nat
      BY <1>3
    <3> QED
      BY <2>2, <3>1, <3>2, NewestIs
  <2> QED
    BY <1>2, <1>5, <2>2, <2>5, <2>6 DEF Report, head_hash
<1> QED
  BY <1>4, <1>5

\* Single edits, each with the report it gets.
LEMMA EditsAreReported ==
    ASSUME IInv, IsFiniteSet(log), NEW r \in Links
    PROVE  EditIsReported(r) /\ RelinkIsReported(r)
<1>1. /\ r = Entry(r.seq, r.body, r.prev, r.hash)
      /\ r.body # Forged /\ r.seq \in Nat \ {0}
      /\ r.hash = entry_digest(r.seq, r.body, r.prev)
      /\ r.hash # NoHash
  BY LinkFacts, DigestIsFree DEF IInv, TypeOK, IsEntry
<1>2. EditIsReported(r)
  <2> DEFINE f == [r EXCEPT !.body = Forged]
  <2>1. f = Entry(r.seq, Forged, r.prev, r.hash)
    BY <1>1 DEF Entry
  <2>2. f.seq = r.seq /\ f.body = Forged /\ f.prev = r.prev /\ f.hash = r.hash
    BY <2>1 DEF Entry
  <2> HIDE DEF f
  <2>3. entry_digest(r.seq, f.body, r.prev) # f.hash
    BY <1>1, <2>2, DigestIsFree
  <2>4. LET report == verify_chain(Replaced(r, f))
        IN  /\ report.intact = FALSE /\ report.bad = r.seq
            /\ report.problem = "hash_mismatch"
    BY <1>1, <2>2, <2>3, MisfitIsReported
  <2> QED
    BY <2>4, DeletionIsReported DEF EditIsReported, f
<1>3. RelinkIsReported(r)
  <2> DEFINE f == Entry(r.seq, Forged, r.prev, entry_digest(r.seq, Forged, r.prev))
             elsewhere == entry_digest(0, Forged, NoHash)
             g == Entry(r.seq, r.body, elsewhere, entry_digest(r.seq, r.body, elsewhere))
  <2>1. /\ f.seq = r.seq /\ f.body = Forged
        /\ f.hash = entry_digest(r.seq, Forged, r.prev)
    BY DEF Entry
  <2>2. /\ g.seq = r.seq /\ g.body = r.body /\ g.prev = elsewhere
        /\ g.hash = entry_digest(r.seq, r.body, elsewhere)
    BY DEF Entry
  <2>3. r.prev # elsewhere
    <3>1. CASE Below(Links, r) = {}
      BY <3>1, HonestLink, DigestIsFree DEF head_hash
    <3>2. CASE Below(Links, r) # {}
      <4>1. IsFiniteSet(Below(Links, r))
        <5>1. Below(Links, r) \in SUBSET log
          BY LinkFacts DEF Below
        <5> QED
          BY <5>1, FS_Subset
      <4>2. Newest(Below(Links, r)) \in Below(Links, r)
        BY <3>2, <4>1, NewestExists, LinkFacts DEF Below
      <4>3. PICK p \in Links : r.prev = p.hash
        BY <3>2, <4>2, HonestLink DEF head_hash, Below
      <4>4. p.hash = entry_digest(p.seq, p.body, p.prev) /\ p.seq # 0
        BY LinkFacts
      <4> QED
        BY <4>3, <4>4, DigestIsFree
    <3> QED
      BY <3>1, <3>2
  <2> HIDE DEF f, g, elsewhere
  <2>4. LET report == verify_chain(Replaced(r, f))
        IN  /\ r # Newest(log) => /\ report.intact = FALSE
                                  /\ report.bad = r.seq + 1
                                  /\ report.problem = "broken_link"
            /\ r = Newest(log) => report.head # r.hash
    BY <1>1, <2>1, RehashIsReported
  <2>5. /\ entry_digest(r.seq, g.body, r.prev) # g.hash
        /\ entry_digest(g.seq, g.body, g.prev) = g.hash
        /\ g.hash # NoHash
    BY <2>2, <2>3, DigestIsFree
  <2>6. LET report == verify_chain(Replaced(r, g))
        IN  /\ report.intact = FALSE /\ report.bad = r.seq
            /\ report.problem = "broken_link"
    BY <2>2, <2>5, MisfitIsReported
  <2> QED
    BY <2>4, <2>6 DEF RelinkIsReported, f, g, elsewhere
<1> QED
  BY <1>2, <1>3

\* Rows that verify are each the digest of their contents over the row before.
LEMMA IntactFacts ==
    ASSUME NEW rows, IsTable(rows), verify_chain(rows).intact
    PROVE  LET chained == Chained(rows)
           IN  /\ verify_chain(rows).head = head_hash(chained)
               /\ \A c \in chained :
                    LET walked == Below(chained, c)
                    IN  /\ c.seq \in Nat /\ c.hash # NoHash
                        /\ c.hash = entry_digest(c.seq, c.body, head_hash(walked))
                        /\ walked # {} => /\ Newest(walked) \in chained
                                          /\ Newest(walked).seq + 1 = c.seq
                                          /\ head_hash(walked) = Newest(walked).hash
               /\ \A c, d \in chained : c.seq = d.seq => c = d
               /\ chained # {} => /\ Newest(chained) \in chained
                                  /\ \A c \in chained : c.seq <= Newest(chained).seq
                                  /\ head_hash(chained) = Newest(chained).hash
<1> DEFINE chained == Chained(rows)
<1>1. Bad(chained) = {}
  <2> SUFFICES ASSUME Bad(chained) # {} PROVE FALSE
    OBVIOUS
  <2>1. verify_chain(rows) = Accuse(chained, Oldest(Bad(chained)))
    BY DEF verify_chain
  <2>2. verify_chain(rows).intact = FALSE
    BY <2>1 DEF Accuse, Report
  <2> QED
    BY <2>2
<1>2. verify_chain(rows).head = head_hash(chained)
  BY <1>1 DEF verify_chain, Report
<1>3. /\ chained \in SUBSET rows
      /\ \A c \in chained : c.seq \in Nat /\ c.hash # NoHash
      /\ \A c, d \in chained : c.seq = d.seq => c = d
  BY DEF Chained, IsTable
<1>4. IsFiniteSet(chained)
  BY <1>3, FS_Subset DEF IsTable
<1> HIDE DEF chained
<1>5. ASSUME NEW c \in chained
      PROVE  LET walked == Below(chained, c)
             IN  /\ c.hash = entry_digest(c.seq, c.body, head_hash(walked))
                 /\ walked # {} => /\ Newest(walked) \in chained
                                   /\ Newest(walked).seq + 1 = c.seq
                                   /\ head_hash(walked) = Newest(walked).hash
  <2>1. ~SequenceGap(chained, c) /\ ~Mismatch(chained, c)
    BY <1>1 DEF Bad
  <2>2. Below(chained, c) \in SUBSET chained
    BY DEF Below
  <2>3. IsFiniteSet(Below(chained, c))
    BY <1>4, <2>2, FS_Subset
  <2>4. Below(chained, c) # {} => Newest(Below(chained, c)) \in chained
    BY <1>3, <2>2, <2>3, NewestExists
  <2> QED
    BY <2>1, <2>4 DEF SequenceGap, Mismatch, expected_hash, head_hash
<1>6. chained # {} => /\ Newest(chained) \in chained
                      /\ \A c \in chained : c.seq <= Newest(chained).seq
                      /\ head_hash(chained) = Newest(chained).hash
  BY <1>3, <1>4, NewestExists DEF head_hash
<1> QED
  BY <1>2, <1>3, <1>5, <1>6 DEF chained

\* The log itself verifies.
LEMMA LogIsIntact ==
    ASSUME IInv, IsFiniteSet(log)
    PROVE  IsTable(log) /\ verify_chain(log).intact
<1>1. IsTable(log)
  BY LinkFacts DEF IsTable
<1>2. Bad(Links) = {}
  BY HonestRowFits DEF Bad
<1> QED
  BY <1>1, <1>2 DEF verify_chain, Links, Report

\* Two rows with one hash say the same and have predecessors with one hash.
\* So a chain is determined from its head down, position by position.
LEMMA HeadDetermines ==
    ASSUME IInv, IsFiniteSet(log), NEW rows, IsTable(rows)
    PROVE  HeadPins(rows)
<1> SUFFICES ASSUME verify_chain(rows).intact,
                    verify_chain(rows).head = verify_chain(log).head
             PROVE  Says(rows) = Says(log)
  BY DEF HeadPins
<1> DEFINE C == Chained(rows)
           L == Chained(log)
           Same(n) == /\ \A c \in C : c.seq = n =>
                           \E l \in L : l.seq = n /\ l.body = c.body /\ l.hash = c.hash
                      /\ \A l \in L : l.seq = n =>
                           \E c \in C : c.seq = n /\ l.body = c.body /\ l.hash = c.hash
<1>1. /\ \A c \in C :
           LET walked == Below(C, c)
           IN  /\ c.seq \in Nat /\ c.hash # NoHash
               /\ c.hash = entry_digest(c.seq, c.body, head_hash(walked))
               /\ walked # {} => /\ Newest(walked) \in C
                                 /\ Newest(walked).seq + 1 = c.seq
                                 /\ head_hash(walked) = Newest(walked).hash
      /\ \A c, d \in C : c.seq = d.seq => c = d
      /\ C # {} => /\ Newest(C) \in C
                   /\ \A c \in C : c.seq <= Newest(C).seq
                   /\ head_hash(C) = Newest(C).hash
      /\ verify_chain(rows).head = head_hash(C)
  BY IntactFacts
<1>2. /\ \A c \in L :
           LET walked == Below(L, c)
           IN  /\ c.seq \in Nat /\ c.hash # NoHash
               /\ c.hash = entry_digest(c.seq, c.body, head_hash(walked))
               /\ walked # {} => /\ Newest(walked) \in L
                                 /\ Newest(walked).seq + 1 = c.seq
                                 /\ head_hash(walked) = Newest(walked).hash
      /\ \A c, d \in L : c.seq = d.seq => c = d
      /\ L # {} => /\ Newest(L) \in L
                   /\ \A c \in L : c.seq <= Newest(L).seq
                   /\ head_hash(L) = Newest(L).hash
      /\ verify_chain(log).head = head_hash(L)
  BY IntactFacts, LogIsIntact
<1>3. /\ \A l \in L : l.seq > Legacy /\ l \in log
      /\ \A l \in L : Below(L, l) = {} <=> l.seq = Legacy + 1
      /\ \A l \in log : l.seq > Legacy => l \in L
      /\ Legacy \in Nat
  BY LinkFacts, HonestLink, LegacyAssumption DEF Links
<1> HIDE DEF C, L
<1>4. (\A n \in Nat : Same(n)) => Says(rows) = Says(log)
  <2> SUFFICES ASSUME \A n \in Nat : Same(n) PROVE Says(rows) = Says(log)
    OBVIOUS
  <2>1. \A c \in C : \E l \in L : l.seq = c.seq /\ l.body = c.body /\ l.hash = c.hash
    BY <1>1
  <2>2. \A l \in L : \E c \in C : l.seq = c.seq /\ l.body = c.body /\ l.hash = c.hash
    BY <1>2
  <2>3. /\ Says(rows) = {<<r.seq, r.body, r.hash>> : r \in C}
        /\ Says(log) = {<<r.seq, r.body, r.hash>> : r \in L}
    BY DEF Says, C, L
  <2>4. \A x : x \in Says(rows) => x \in Says(log)
    BY <2>1, <2>3
  <2>5. \A x : x \in Says(log) => x \in Says(rows)
    BY <2>2, <2>3
  <2> QED
    BY <2>4, <2>5
<1>5. head_hash(C) = head_hash(L)
  BY <1>1, <1>2
<1>6. CASE L = {}
  <2>1. head_hash(L) = NoHash
    BY <1>6 DEF head_hash
  <2>2. C = {}
    BY <1>1, <1>5, <2>1
  <2> QED
    BY <1>4, <1>6, <2>2
<1>7. CASE L # {}
  <2> DEFINE t == Newest(L)
             m == Newest(C)
  <2>1. t \in L /\ \A l \in L : l.seq <= t.seq
    BY <1>2, <1>7
  <2>2. C # {}
    <3>1. head_hash(L) # NoHash
      BY <1>2, <1>7
    <3> QED
      BY <1>5, <3>1 DEF head_hash
  <2>3. m \in C /\ \A c \in C : c.seq <= m.seq
    BY <1>1, <2>2
  <2>4. m.hash = t.hash
    BY <1>1, <1>2, <1>5, <1>7, <2>2
  <2> HIDE DEF t, m
  <2>5. m.seq = t.seq /\ m.body = t.body /\ t.seq \in Nat
    BY <1>1, <1>2, <2>1, <2>3, <2>4, DigestIsFree
  <2>6. Same(t.seq)
    BY <1>1, <1>2, <2>1, <2>3, <2>4, <2>5
  <2>7. \A n \in Nat : n > t.seq => Same(n)
    BY <1>1, <1>2, <2>1, <2>3, <2>5
  <2>8. ASSUME NEW c \in C, NEW l \in L, c.seq = l.seq, c.body = l.body, c.hash = l.hash
        PROVE  head_hash(Below(C, c)) = head_hash(Below(L, l))
    BY <1>1, <1>2, <2>8, DigestIsFree
  <2>9. ASSUME NEW n \in Nat, n < t.seq, \A k \in Nat : n < k => Same(k) PROVE Same(n)
    <3>1. CASE n > Legacy
      <4>1. PICK l \in L : l.seq = n + 1
        <5>1. n + 1 \in 1..t.seq /\ t \in log
          BY <1>3, <2>1, <2>5, <2>9
        <5>2. PICK l \in log : l.seq = n + 1
          BY <5>1, LinkFacts
        <5> QED
          BY <5>2, <1>3, <3>1
      <4>2. PICK c \in C : c.seq = n + 1 /\ l.body = c.body /\ l.hash = c.hash
        BY <2>9, <4>1
      <4>3. Below(L, l) # {}
        BY <1>3, <3>1, <4>1
      <4> DEFINE p == Newest(Below(L, l))
                 q == Newest(Below(C, c))
      <4>4. p \in L /\ p.seq + 1 = l.seq /\ head_hash(Below(L, l)) = p.hash
        BY <1>2, <4>3
      <4>5. head_hash(Below(C, c)) = p.hash /\ p.hash # NoHash
        BY <1>2, <2>8, <4>1, <4>2, <4>4
      <4>6. Below(C, c) # {}
        BY <4>5 DEF head_hash
      <4>7. q \in C /\ q.seq + 1 = c.seq /\ q.hash = p.hash
        BY <1>1, <4>5, <4>6
      <4> HIDE DEF p, q
      <4>8. q.seq = n /\ p.seq = n /\ q.body = p.body
        <5>1. p.seq \in Nat /\ q.seq \in Nat
          BY <1>1, <1>2, <4>4, <4>7
        <5>2. q.seq = n /\ p.seq = n
          BY <4>1, <4>2, <4>4, <4>7, <5>1
        <5> QED
          BY <1>1, <1>2, <4>4, <4>7, <5>2, DigestIsFree
      <4>9. /\ \A d \in C : d.seq = n => d = q
            /\ \A d \in L : d.seq = n => d = p
        BY <1>1, <1>2, <4>4, <4>7, <4>8
      <4> QED
        BY <4>4, <4>7, <4>8, <4>9
    <3>2. CASE n <= Legacy
      <4>1. PICK l \in L : l.seq = Legacy + 1
        <5>1. Legacy + 1 \in 1..t.seq /\ t \in log
          BY <1>3, <2>1, <2>5
        <5>2. PICK l \in log : l.seq = Legacy + 1
          BY <5>1, LinkFacts
        <5> QED
          BY <5>2, <1>3
      <4>2. PICK c \in C : c.seq = Legacy + 1 /\ l.body = c.body /\ l.hash = c.hash
        <5>1. Legacy + 1 \in Nat /\ n < Legacy + 1
          BY <1>3, <3>2
        <5> QED
          BY <2>9, <4>1, <5>1
      <4>3. head_hash(Below(C, c)) = NoHash
        BY <1>3, <2>8, <4>1, <4>2 DEF head_hash
      <4>4. Below(C, c) = {}
        BY <1>1, <4>3
      <4>5. \A d \in C : d.seq # n
        BY <1>1, <1>3, <3>2, <4>2, <4>4 DEF Below
      <4>6. \A d \in L : d.seq # n
        BY <1>2, <1>3, <3>2
      <4> QED
        BY <4>5, <4>6
    <3> QED
      BY <1>3, <3>1, <3>2
  <2>10. \A n \in Nat : Same(n)
    <3> SUFFICES ASSUME NEW a \in Nat, ~Same(a) PROVE FALSE
      OBVIOUS
    <3> DEFINE B == {n \in 0..t.seq : ~Same(n)}
    <3>1. a \in B
      BY <2>5, <2>7
    <3>2. IsFiniteSet(0..t.seq) /\ B \in SUBSET (0..t.seq)
      BY <2>5, FS_Interval
    <3>3. IsFiniteSet(B) /\ B \subseteq Nat /\ B # {}
      BY <2>5, <3>1, <3>2, FS_Subset
    <3> HIDE DEF B
    <3>4. PICK n \in B : \A k \in B : k <= n
      BY <3>3, GreatestNatural
    <3> USE DEF B
    <3>5. n \in Nat /\ n <= t.seq /\ ~Same(n)
      BY <2>5, <3>4
    <3>6. n < t.seq
      BY <2>5, <2>6, <3>5
    <3>7. \A k \in Nat : n < k => Same(k)
      BY <2>5, <2>7, <3>4, <3>5
    <3> QED
      BY <2>9, <3>5, <3>6, <3>7
  <2> QED
    BY <1>4, <2>10
<1> QED
  BY <1>6, <1>7

-----------------------------------------------------------------------------
(* The reader beside the writers.                                          *)

\* The reader is invisible to the writers.
THEOREM ReaderIsHarmless == VerifySpec => Spec
<1>1. VerifyInit => Init
  BY DEF VerifyInit
<1>2. [VerifyNext]_vars => [Next]_chainVars
  BY DEF VerifyNext, get_audit_log, vars, chainVars
<1> QED
  BY <1>1, <1>2, PTL DEF VerifySpec, Spec

\* A step adds at most one row, so the log stays finite.
LEMMA LogStaysFinite == VerifySpec => []IsFiniteSet(log)
<1>1. Init => IsFiniteSet(log)
  <2> SUFFICES ASSUME Init PROVE IsFiniteSet(log)
    OBVIOUS
  <2> DEFINE f == [r \in log |-> r.seq]
  <2>1. f \in Injection(log, 1..Legacy)
    BY BackfilledRows DEF Init, Injection, IsInjective
  <2>2. IsFiniteSet(1..Legacy)
    BY LegacyAssumption, FS_Interval
  <2> QED
    BY <2>1, <2>2, FS_Injection
<1>2. IsFiniteSet(log) /\ [Next]_chainVars => IsFiniteSet(log)'
  <2> SUFFICES ASSUME IsFiniteSet(log), [Next]_chainVars PROVE IsFiniteSet(log)'
    OBVIOUS
  <2>1. log' = log \/ \E x : log' = log \cup {x}
    BY DEF Next, record, BeginAppend, ReadTip, Insert, Commit, DatabaseError, Drop,
           Abandon, chainVars
  <2> QED
    BY <2>1, FS_AddElement
<1> QED
  BY <1>1, <1>2, ReaderIsHarmless, PTL DEF Spec

\* An honest log verifies whenever an owner asks.
THEOREM HonestLogs == VerifySpec => []HonestLogVerifies
<1>1. IInv /\ IsFiniteSet(log) => HonestLogVerifies
  BY HonestReport
<1> QED
  BY <1>1, ReaderIsHarmless, Invariance, LogStaysFinite, PTL

\* Edits behind the server's back are reported.
THEOREM Tampering == VerifySpec => []TamperingIsDetected
<1>1. ASSUME IInv, IsFiniteSet(log) PROVE TamperingIsDetected
  <2>1. \A r \in Links : EditIsReported(r) /\ RelinkIsReported(r)
    BY <1>1, EditsAreReported
  <2>2. ASSUME NEW rows \in SUBSET log PROVE HeadPins(rows)
    <3>1. IsTable(rows)
      BY <1>1, FS_Subset, LinkFacts DEF IsTable
    <3> QED
      BY <1>1, <3>1, HeadDetermines
  <2> QED
    BY <2>1, <2>2 DEF TamperingIsDetected
<1> QED
  BY <1>1, ReaderIsHarmless, Invariance, LogStaysFinite, PTL

\* The head hash pins the whole chain against every other table of rows, edited,
\* truncated or made up, not only against the log's own subsets.
THEOREM HeadPinsTheLog == VerifySpec => [](\A rows : IsTable(rows) => HeadPins(rows))
<1>1. IInv /\ IsFiniteSet(log) => \A rows : IsTable(rows) => HeadPins(rows)
  BY HeadDetermines
<1> QED
  BY <1>1, ReaderIsHarmless, Invariance, LogStaysFinite, PTL

\* The pages of the reader are made of rows of the log.
PagesAreRows == seen \in Seq(log)

\* A page that lists as many distinct rows as there are lists them all.
LEMMA PageIsComplete ==
    ASSUME NEW rows, IsFiniteSet(rows), NEW page \in Descending(rows),
           \A r \in rows : r.seq \in Nat
    PROVE  /\ Cardinality(rows) \in Nat
           /\ page \in [1..Cardinality(rows) -> rows]
           /\ page \in Seq(rows) /\ Len(page) = Cardinality(rows)
           /\ \A r \in rows : \E i \in 1..Cardinality(rows) : page[i] = r
<1> DEFINE n == Cardinality(rows)
<1>1. n \in Nat
  BY FS_CardinalityType
<1>2. /\ page \in [1..n -> rows]
      /\ \A i, j \in 1..n : i < j => page[i].seq > page[j].seq
  BY DEF Descending
<1>3. IsFiniteSet(1..n) /\ Cardinality(1..n) = n
  BY <1>1, FS_Interval
<1> HIDE DEF n
<1>4. page \in Injection(1..n, rows)
  <2>1. \A i, j \in 1..n : page[i] = page[j] => i = j
    <3> SUFFICES ASSUME NEW i \in 1..n, NEW j \in 1..n, page[i] = page[j], i # j
                 PROVE  FALSE
      OBVIOUS
    <3>1. i < j \/ j < i
      BY <1>1
    <3>2. page[i].seq \in Nat /\ page[j].seq \in Nat
      BY <1>2
    <3> QED
      BY <1>2, <3>1, <3>2
  <2> QED
    BY <1>2, <2>1 DEF Injection, IsInjective
<1>5. page \in Surjection(1..n, rows)
  BY <1>3, <1>4, FS_Injection DEF n
<1>6. \A r \in rows : \E i \in 1..n : page[i] = r
  BY <1>5 DEF Surjection
<1>7. page \in Seq(rows) /\ Len(page) = n
  BY <1>1, <1>2, SeqDef
<1> QED
  BY <1>1, <1>2, <1>6, <1>7 DEF n

\* A page holds, with a row, every newer row that is selected.
LEMMA PageIsClosed ==
    ASSUME IsFiniteSet(Selected), \A r \in Selected : r.seq \in Nat, NEW n \in Nat,
           NEW r \in NewestRows(Selected, n), NEW s \in Selected, s.seq >= r.seq
    PROVE  s \in NewestRows(Selected, n)
<1>1. r \in Selected /\ Cardinality(Above(Selected, r)) < n
  BY DEF NewestRows
<1>2. /\ Above(Selected, s) \in SUBSET Above(Selected, r)
      /\ Above(Selected, r) \in SUBSET Selected
  BY <1>1 DEF Above
<1>3. IsFiniteSet(Above(Selected, r))
  BY <1>2, FS_Subset
<1>4. /\ IsFiniteSet(Above(Selected, s))
      /\ Cardinality(Above(Selected, s)) <= Cardinality(Above(Selected, r))
  BY <1>2, <1>3, FS_Subset
<1>5. Cardinality(Above(Selected, s)) \in Nat /\ Cardinality(Above(Selected, r)) \in Nat
  BY <1>3, <1>4, FS_CardinalityType
<1>6. Cardinality(Above(Selected, s)) < n
  BY <1>1, <1>4, <1>5
<1> QED
  BY <1>6 DEF NewestRows

\* What the reader has seen stays exact while the log grows.
LEMMA AppendKeepsPages ==
    ASSUME IInv, IInv', log \subseteq log', UNCHANGED readerVars,
           PagesAreRows, PagingIsExact
    PROVE  PagesAreRows' /\ PagingIsExact'
<1>1. seen' = seen /\ before' = before
  BY DEF readerVars
<1>2. PagesAreRows'
  BY <1>1, SeqMonotonic DEF PagesAreRows
<1>3. ASSUME NEW r \in log', seen # << >>, r.body \in Matching,
             r.seq \in before..seen[1].seq
      PROVE  \E i \in 1..Len(seen) : seen[i] = r
  <2>1. seen[1] \in log
    BY <1>3 DEF PagesAreRows
  <2>2. /\ r.seq \in Nat \ {0} /\ seen[1].seq \in Nat \ {0}
        /\ \A s, t \in log' : s.seq = t.seq => s = t
        /\ \A n \in 1..seen[1].seq : \E s \in log : s.seq = n
    <3>1. r.seq \in Nat \ {0}
      BY DEF IInv, TypeOK, IsEntry
    <3>2. \A s, t \in log' : s.seq = t.seq => s = t
      BY DEF IInv, ChainIsLinked
    <3> QED
      BY <2>1, <3>1, <3>2, LinkFacts
  <2>3. before \in Nat
    <3>1. before = seen[Len(seen)].seq /\ seen[Len(seen)] \in log
      BY <1>3 DEF PagingIsExact, PagesAreRows
    <3> QED
      BY <3>1, LinkFacts
  <2>4. r.seq \in 1..seen[1].seq
    BY <1>3, <2>2, <2>3
  <2>5. PICK s \in log : s.seq = r.seq
    BY <2>2, <2>4
  <2>6. r = s
    BY <2>2, <2>5
  <2> QED
    BY <1>3, <2>6 DEF PagingIsExact
<1> QED
  BY <1>1, <1>2, <1>3 DEF PagingIsExact

\* A page continues exactly where the last one ended.
LEMMA PageIsExact ==
    ASSUME IInv, IsFiniteSet(log), PagesAreRows, PagingIsExact,
           NEW limit \in 0..MAX_LIMIT + 1, get_audit_log(limit)
    PROVE  PagesAreRows' /\ PagingIsExact'
<1> DEFINE rows == NewestRows(Selected, clamp(limit))
           n == Cardinality(rows)
           m == Len(seen)
<1>1. PICK page \in Descending(rows) :
         /\ page # << >>
         /\ seen' = seen \o page
         /\ before' = page[Len(page)].seq
         /\ UNCHANGED chainVars
  BY DEF get_audit_log
<1>2. log' = log
  BY <1>1 DEF chainVars
<1>3. Selected \in SUBSET log /\ rows \in SUBSET Selected
  BY DEF Selected, NewestRows
<1>4. IsFiniteSet(Selected) /\ IsFiniteSet(rows)
  BY <1>3, FS_Subset
<1>5. \A r \in log : r.seq \in Nat
  BY LinkFacts
<1>6. clamp(limit) \in Nat
  BY PageAssumption DEF clamp
<1>7. /\ n \in Nat /\ page \in [1..n -> rows]
      /\ page \in Seq(rows) /\ Len(page) = n
      /\ \A r \in rows : \E i \in 1..n : page[i] = r
  BY <1>3, <1>4, <1>5, PageIsComplete
<1>8. \A i, j \in 1..n : i < j => page[i].seq > page[j].seq
  BY <1>7 DEF Descending
<1>9. \A r \in rows, s \in Selected : s.seq >= r.seq => s \in rows
  BY <1>3, <1>4, <1>5, <1>6, PageIsClosed
<1>10. \A r \in log : r \in Selected <=> r.body \in Matching
                                         /\ (before # None => r.seq < before)
  BY DEF Selected
<1> HIDE DEF rows, n
<1>11. n >= 1
  <2>1. n # 0
    BY <1>1, <1>7
  <2> QED
    BY <1>7, <2>1
<1>12. page \in Seq(log) /\ seen \in Seq(log)
  BY <1>3, <1>7, SeqMonotonic DEF PagesAreRows
<1>13. /\ seen' \in Seq(log) /\ Len(seen') = m + n /\ m \in Nat
       /\ \A i \in 1..m : seen'[i] = seen[i] /\ seen[i] \in log
       /\ \A i \in 1..n : seen'[m + i] = page[i]
  <2>1. /\ seen' \in Seq(log) /\ Len(seen') = m + n
        /\ \A i \in 1..m + n : seen'[i] = IF i <= m THEN seen[i] ELSE page[i - m]
    <3>1. /\ seen \o page \in Seq(log) /\ Len(seen \o page) = m + Len(page)
          /\ \A i \in 1..m + Len(page) :
                (seen \o page)[i] = IF i <= m THEN seen[i] ELSE page[i - m]
      BY <1>12, ConcatProperties
    <3> QED
      BY <1>1, <1>7, <3>1
  <2>2. m \in Nat /\ seen \in [1..m -> log]
    BY <1>12, LenProperties
  <2>3. ASSUME NEW i \in 1..n PROVE seen'[m + i] = page[i]
    <3>1. m + i \in 1..m + n /\ ~(m + i <= m) /\ (m + i) - m = i
      BY <1>7, <2>2
    <3> QED
      BY <2>1, <3>1
  <2> QED
    BY <1>7, <2>1, <2>2, <2>3
<1>14. /\ \A i \in 1..n : page[i] \in log /\ page[i] \in Selected /\ page[i].seq \in Nat
       /\ \A i \in 1..m : seen[i].seq \in Nat
  BY <1>3, <1>5, <1>7, <1>13
<1>15. PagesAreRows'
  BY <1>2, <1>13 DEF PagesAreRows
<1>16. before' = seen'[Len(seen')].seq /\ seen' # << >>
  BY <1>1, <1>7, <1>11, <1>13
<1>17. m > 0 => /\ before = seen[m].seq /\ before \in Nat /\ before # None
                /\ \A i \in 1..m : seen[i].seq >= before
  <2> SUFFICES ASSUME m > 0
               PROVE  /\ before = seen[m].seq /\ before \in Nat /\ before # None
                      /\ \A i \in 1..m : seen[i].seq >= before
    OBVIOUS
  <2>1. seen # << >>
    OBVIOUS
  <2>2. before = seen[m].seq
    BY <2>1 DEF PagingIsExact
  <2>3. before \in Nat /\ before # None
    BY <1>13, <1>14, <2>2, CursorAssumption
  <2>4. \A i \in 1..m : i < m => seen[i].seq > seen[m].seq
    BY <1>13 DEF PagingIsExact
  <2>5. ASSUME NEW i \in 1..m PROVE seen[i].seq >= before
    BY <1>13, <1>14, <2>2, <2>3, <2>4
  <2> QED
    BY <2>2, <2>3, <2>5
<1>18. ASSUME NEW i \in 1..Len(seen'), NEW j \in 1..Len(seen'), i < j
       PROVE  seen'[i].seq > seen'[j].seq
  <2>1. CASE j <= m
    <3>1. i \in 1..m /\ j \in 1..m
      BY <1>13, <1>18, <2>1
    <3> QED
      BY <1>13, <1>18, <3>1 DEF PagingIsExact
  <2>2. CASE i > m
    <3>1. /\ i - m \in 1..n /\ j - m \in 1..n /\ i - m < j - m
          /\ m + (i - m) = i /\ m + (j - m) = j
      BY <1>7, <1>13, <1>18, <2>2
    <3> QED
      BY <1>8, <1>13, <3>1
  <2>3. CASE i <= m /\ j > m
    <3>1. /\ i \in 1..m /\ j - m \in 1..n /\ m + (j - m) = j /\ m > 0
      <4>1. n \in Nat /\ m \in Nat /\ i \in 1..m + n /\ j \in 1..m + n
        BY <1>7, <1>13
      <4> QED
        BY <2>3, <4>1
    <3>2. seen'[i] = seen[i] /\ seen'[j] = page[j - m]
      BY <1>13, <3>1
    <3>3. page[j - m].seq < before /\ page[j - m].seq \in Nat
      BY <1>10, <1>14, <1>17, <3>1
    <3> QED
      BY <1>14, <1>17, <3>1, <3>2, <3>3
  <2> QED
    BY <1>13, <2>1, <2>2, <2>3
<1>19. ASSUME NEW r \in log, r.body \in Matching, r.seq \in before'..seen'[1].seq
       PROVE  \E i \in 1..Len(seen') : seen'[i] = r
  <2>1. r.seq \in Nat /\ page[n].seq <= r.seq /\ page[n] \in rows
    BY <1>1, <1>5, <1>7, <1>11, <1>14, <1>19
  <2>2. CASE r \in Selected
    <3>1. r \in rows
      BY <1>9, <2>1, <2>2
    <3>2. PICK i \in 1..n : page[i] = r
      BY <1>7, <3>1
    <3>3. m + i \in 1..Len(seen')
      BY <1>7, <1>13
    <3>4. seen'[m + i] = r
      BY <1>13, <3>2
    <3> QED
      BY <3>3, <3>4
  <2>3. CASE r \notin Selected
    <3>1. before # None /\ ~(r.seq < before)
      BY <1>10, <1>19, <2>3
    <3>2. seen # << >>
      BY <3>1 DEF PagingIsExact
    <3>3. m > 0
      BY <1>12, <3>2
    <3>4. seen'[1] = seen[1] /\ seen[1].seq \in Nat
      BY <1>13, <1>14, <3>3
    <3>5. r.seq \in before..seen[1].seq
      BY <1>14, <1>16, <1>17, <1>19, <2>1, <3>1, <3>3, <3>4
    <3>6. PICK i \in 1..m : seen[i] = r
      BY <1>19, <3>2, <3>5 DEF PagingIsExact
    <3>7. i \in 1..m + n
      BY <1>7, <1>13
    <3>8. i \in 1..Len(seen')
      BY <1>13, <3>7
    <3>9. seen'[i] = r
      BY <1>13, <3>6
    <3> QED
      BY <3>8, <3>9
  <2> QED
    BY <2>2, <2>3
<1>20. PagingIsExact'
  BY <1>2, <1>16, <1>18, <1>19 DEF PagingIsExact
<1> QED
  BY <1>15, <1>20

\* A reader that follows its cursor misses nothing and sees nothing twice.
THEOREM PagingExact == VerifySpec => []PagingIsExact
<1>1. VerifyInit => PagesAreRows /\ PagingIsExact
  BY DEF VerifyInit, PagesAreRows, PagingIsExact
<1>2. /\ IInv /\ IInv' /\ IsFiniteSet(log) /\ PagesAreRows /\ PagingIsExact
      /\ [VerifyNext]_vars
      => PagesAreRows' /\ PagingIsExact'
  <2> SUFFICES ASSUME IInv, IInv', IsFiniteSet(log), PagesAreRows, PagingIsExact,
                      [VerifyNext]_vars
               PROVE  PagesAreRows' /\ PagingIsExact'
    OBVIOUS
  <2>1. CASE UNCHANGED readerVars
    <3>1. log \subseteq log'
      BY DEF VerifyNext, get_audit_log, Next, record, BeginAppend, ReadTip, Insert,
             Commit, DatabaseError, Drop, Abandon, chainVars, vars
    <3> QED
      BY <2>1, <3>1, AppendKeepsPages
  <2>2. ASSUME NEW limit \in 0..MAX_LIMIT + 1, get_audit_log(limit)
        PROVE  PagesAreRows' /\ PagingIsExact'
    BY <2>2, PageIsExact
  <2> QED
    BY <2>1, <2>2 DEF VerifyNext, vars, readerVars
<1> QED
  BY <1>1, <1>2, ReaderIsHarmless, Invariance, LogStaysFinite, PTL DEF VerifySpec

=============================================================================
