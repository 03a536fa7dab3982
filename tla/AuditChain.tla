----------------------------- MODULE AuditChain -----------------------------
(***************************************************************************)
(* Appending to an org's audit log: `record` and `append_chained` of       *)
(* src/audit.rs, with the backfill of the migration that introduced the    *)
(* chain.                                                                  *)
(*                                                                         *)
(* One org's log.  An element of Writers is one call of `record`, made     *)
(* after the mutation it describes has committed.  What the entry says     *)
(* (action, subject, actor, time, detail) is the identity of the call, so  *)
(* no two calls say the same.  SHA-256 is taken to be collision free: a    *)
(* digest is the tuple of what it covers.                                  *)
(***************************************************************************)
EXTENDS Integers

CONSTANTS
    Writers,         \* calls of `record`
    APPEND_ATTEMPTS, \* how often a call tries
    Legacy,          \* rows older than the chain, numbered by the backfill
    LegacyEntry,     \* what such a row says
    Faults,          \* failures that may happen: subset of FaultKinds
    None             \* no lock holder, no row

FaultKinds == {"database", "drop"}

ASSUME AttemptsAssumption == APPEND_ATTEMPTS \in Nat \ {0}
ASSUME LegacyAssumption == Legacy \in Nat /\ LegacyEntry \notin Writers
ASSUME FaultsAssumption == Faults \subseteq FaultKinds
ASSUME NoneAssumption == None \notin Writers

VARIABLES
    advisory_lock, \* TRUE on Postgres; elsewhere only the unique index
    log,      \* the committed rows of audit_log
    lock,     \* the call holding pg_advisory_xact_lock
    pc,       \* where each call is
    attempts, \* attempts each call has started
    planned,  \* the row a call means to insert
    outcome   \* how the call ended; only the log line tells them apart

chainVars == <<advisory_lock, log, lock, pc, attempts, planned, outcome>>

\* The empty string, which stands for "nothing before this".
NoHash == << >>

entry_digest(seq, body, prev) == <<seq, body, prev>>

Entry(seq, body, prev, hash) ==
    [seq |-> seq, body |-> body, prev |-> prev, hash |-> hash]

\* LEGACY_SEQ_BACKFILL_SQL numbers the rows already there from one; their
\* hashes stay empty.
Backfilled == {Entry(s, LegacyEntry, NoHash, NoHash) : s \in 1..Legacy}

\* The backend is fixed when the server connects.
Init ==
    /\ advisory_lock \in BOOLEAN
    /\ log = Backfilled
    /\ lock = None
    /\ pc = [w \in Writers |-> "idle"]
    /\ attempts = [w \in Writers |-> 0]
    /\ planned = [w \in Writers |-> None]
    /\ outcome = [w \in Writers |-> "running"]

InTransaction == {"tip", "insert", "commit"}

\* Mutant: pg_advisory_lock, which lives as long as the pooled connection.
EndKeepsLock(w) == w \in Writers /\ UNCHANGED lock

\* The transaction ends, on any path, and the xact-scoped lock with it.
EndTransaction(w) == lock' = IF lock = w THEN None ELSE lock

Return(w, how) ==
    /\ pc' = [pc EXCEPT ![w] = "done"]
    /\ outcome' = [outcome EXCEPT ![w] = how]

(***************************************************************************)
(* append_chained: BEGIN, and on Postgres wait for the org's append lock.  *)
(***************************************************************************)

\* Mutant: the lock is released as soon as it has been taken.
BeginWithoutLock(w) ==
    /\ pc[w] \in {"idle", "retry"}
    /\ pc' = [pc EXCEPT ![w] = "tip"]
    /\ attempts' = [attempts EXCEPT ![w] = @ + 1]
    /\ UNCHANGED <<advisory_lock, log, lock, planned, outcome>>

BeginAppend(w) ==
    /\ pc[w] \in {"idle", "retry"}
    /\ IF advisory_lock THEN lock = None /\ lock' = w ELSE UNCHANGED lock
    /\ pc' = [pc EXCEPT ![w] = "tip"]
    /\ attempts' = [attempts EXCEPT ![w] = @ + 1]
    /\ UNCHANGED <<advisory_lock, log, planned, outcome>>

(***************************************************************************)
(* The committed row of highest seq gives the next position and the link.  *)
(***************************************************************************)
Tips == {r \in log : \A s \in log : s.seq <= r.seq}

PlanAfter(tip, w) ==
    Entry(tip.seq + 1, w, tip.hash, entry_digest(tip.seq + 1, w, tip.hash))

FirstPlan(w) == Entry(1, w, NoHash, entry_digest(1, w, NoHash))

ReadTip(w) ==
    /\ pc[w] = "tip"
    /\ pc' = [pc EXCEPT ![w] = "insert"]
    /\ \/ /\ log = {}
          /\ planned' = [planned EXCEPT ![w] = FirstPlan(w)]
       \/ \E tip \in Tips : planned' = [planned EXCEPT ![w] = PlanAfter(tip, w)]
    /\ UNCHANGED <<advisory_lock, log, lock, attempts, outcome>>

(***************************************************************************)
(* The insert waits for an uncommitted row at the same position, then      *)
(* either is refused by the unique (org_id, seq) index or goes through.  A *)
(* refusal is the one error `record` retries.                              *)
(***************************************************************************)
Contended(w) == \E v \in Writers \ {w} :
                   pc[v] = "commit" /\ planned[v].seq = planned[w].seq

PositionTaken(w) == \E r \in log : r.seq = planned[w].seq

Insert(w) ==
    /\ pc[w] = "insert"
    /\ ~Contended(w)
    /\ \/ /\ ~PositionTaken(w)
          /\ pc' = [pc EXCEPT ![w] = "commit"]
          /\ UNCHANGED <<lock, outcome>>
       \/ /\ PositionTaken(w)
          /\ EndTransaction(w)
          /\ IF attempts[w] < APPEND_ATTEMPTS
             THEN pc' = [pc EXCEPT ![w] = "retry"] /\ UNCHANGED outcome
             ELSE Return(w, "contended")
    /\ UNCHANGED <<advisory_lock, log, attempts, planned>>

Commit(w) ==
    /\ pc[w] = "commit"
    /\ log' = log \cup {planned[w]}
    /\ EndTransaction(w)
    /\ Return(w, "recorded")
    /\ UNCHANGED <<advisory_lock, attempts, planned>>

(***************************************************************************)
(* Failures.  Until COMMIT is sent a failed transaction leaves nothing;    *)
(* the COMMIT itself may have taken effect though its answer was lost.     *)
(***************************************************************************)
Abandon(w) ==
    /\ EndTransaction(w)
    /\ \/ UNCHANGED log
       \/ pc[w] = "commit" /\ log' = log \cup {planned[w]}

\* Any other error ends the loop: warn, and return as if all were well.
DatabaseError(w) ==
    /\ "database" \in Faults
    /\ pc[w] \in InTransaction \cup {"idle", "retry"}
    /\ Abandon(w)
    /\ Return(w, "failed")
    /\ UNCHANGED <<advisory_lock, attempts, planned>>

\* The request timeout, or a client that hangs up, drops the handler's future
\* with the append inside it.
Drop(w) ==
    /\ "drop" \in Faults
    /\ pc[w] \in InTransaction \cup {"idle", "retry"}
    /\ Abandon(w)
    /\ Return(w, "dropped")
    /\ UNCHANGED <<advisory_lock, attempts, planned>>

record(w) == BeginAppend(w) \/ ReadTip(w) \/ Insert(w) \/ Commit(w)

Next == \E w \in Writers : record(w) \/ DatabaseError(w) \/ Drop(w)

Spec == Init /\ [][Next]_chainVars

\* Every statement of a running handler completes, and a waiter on the lock
\* gets it eventually: Postgres grants advisory locks in arrival order.
Fairness == \A w \in Writers : /\ WF_chainVars(record(w))
                               /\ SF_chainVars(BeginAppend(w))

-----------------------------------------------------------------------------
(* Properties.                                                             *)

Steps == {"idle", "retry", "done"} \cup InTransaction
Outcomes == {"running", "recorded", "contended", "failed", "dropped"}

IsEntry(r) ==
    /\ r = Entry(r.seq, r.body, r.prev, r.hash)
    /\ r.seq \in Nat \ {0}
    /\ r.body \in Writers \cup {LegacyEntry}

\* The type of the state.
TypeOK ==
    /\ advisory_lock \in BOOLEAN
    /\ \A r \in log : IsEntry(r)
    /\ lock \in Writers \cup {None}
    /\ pc \in [Writers -> Steps]
    /\ attempts \in [Writers -> 0..APPEND_ATTEMPTS]
    /\ DOMAIN planned = Writers
    /\ \A w \in Writers : pc[w] \in {"insert", "commit"} => IsEntry(planned[w])
    /\ outcome \in [Writers -> Outcomes]

\* The log never forks: no position holds two rows, positions run from one
\* without a gap, and every row past the backfilled ones carries the digest of
\* itself over the hash of the row before it.  This is what the advisory lock
\* and the unique index on (org_id, seq) are for.
ChainIsLinked ==
    /\ \A r, s \in log : r.seq = s.seq => r = s
    /\ \A r \in log : \A n \in 1..r.seq : \E s \in log : s.seq = n
    /\ \A r \in log :
          IF r.seq <= Legacy
          THEN r.hash = NoHash /\ r.prev = NoHash
          ELSE /\ r.hash = entry_digest(r.seq, r.body, r.prev)
               /\ r.seq = 1 => r.prev = NoHash
               /\ \A s \in log : s.seq + 1 = r.seq => r.prev = s.hash

\* A call never leaves two rows, although it retries and although a COMMIT
\* whose answer was lost may have taken effect: only a refused insert, which
\* left nothing, is tried again.
RecordedAtMostOnce ==
    \A r, s \in log : r.body = s.body /\ r.body # LegacyEntry => r = s

\* A call that ended well has its row, and under the advisory lock no call is
\* ever turned away by contention, so a missing row means a failed statement
\* or an abandoned request.
RecordedMeansPresent ==
    \A w \in Writers :
       /\ outcome[w] = "recorded" => \E r \in log : r.body = w
       /\ advisory_lock => outcome[w] # "contended"

\* Rows are only ever added: no step of the server edits or removes one.
LogIsAppendOnly == [][log \subseteq log']_chainVars

\* `record` always comes back, so the handler that awaits it can answer.
EveryRecordReturns == \A w \in Writers : <>(pc[w] = "done")

-----------------------------------------------------------------------------
(* The inductive invariant.                                                *)

LockDiscipline ==
    /\ advisory_lock =>
          \A w \in Writers : lock = w <=> pc[w] \in InTransaction
    /\ ~advisory_lock => lock = None

\* A planned row was linked to a row that is still there.
PlanIsLinked ==
    \A w \in Writers : pc[w] \in {"insert", "commit"} =>
       LET p == planned[w]
       IN /\ p.body = w
          /\ p.seq > Legacy
          /\ p.hash = entry_digest(p.seq, w, p.prev)
          /\ \/ p.seq = 1 /\ p.prev = NoHash
             \/ \E s \in log : s.seq + 1 = p.seq /\ p.prev = s.hash

\* A position about to be committed is free, and no two calls hold the same.
CommitIsExclusive ==
    \A w \in Writers : pc[w] = "commit" =>
       /\ \A r \in log : r.seq # planned[w].seq
       /\ \A v \in Writers \ {w} :
             pc[v] = "commit" => planned[v].seq # planned[w].seq

\* Under the lock the plan is still the next position.
PlanIsNext ==
    advisory_lock => \A w \in Writers : pc[w] \in {"insert", "commit"} =>
                       \A r \in log : r.seq < planned[w].seq

NotYetRecorded ==
    \A w \in Writers : pc[w] # "done" => \A r \in log : r.body # w

StillRunning ==
    \A w \in Writers :
       /\ pc[w] # "done" <=> outcome[w] = "running"
       /\ pc[w] \in {"idle", "retry"} => attempts[w] < APPEND_ATTEMPTS

LegacyIsNumbered == Backfilled \subseteq log

IInv ==
    /\ TypeOK
    /\ ChainIsLinked
    /\ RecordedAtMostOnce
    /\ RecordedMeansPresent
    /\ LockDiscipline
    /\ PlanIsLinked
    /\ CommitIsExclusive
    /\ PlanIsNext
    /\ NotYetRecorded
    /\ StillRunning
    /\ LegacyIsNumbered

=============================================================================
