----------------------------- MODULE AuditVerify -----------------------------
(***************************************************************************)
(* Reading and verifying an audit log while it grows: `verify_chain` of    *)
(* src/audit.rs and the two handlers of src/routes/audit.rs.               *)
(*                                                                         *)
(* One owner pages backwards through the log of AuditChain while the       *)
(* writers append.  A request that authorize_manage or an unknown action   *)
(* turns away changes nothing and is left out.  Verification is an         *)
(* operator over a set of rows, applied to the log as it stands and to     *)
(* what an edit behind the server's back would have made of it.            *)
(***************************************************************************)
EXTENDS AuditChain, Sequences, FiniteSets

CONSTANTS
    MAX_LIMIT,       \* ceiling on a page
    MAX_VERIFY_ROWS, \* ceiling on the rows one verification walks
    Matching,        \* entries the reader's action filter selects
    Forged           \* an entry no call of `record` ever made

ASSUME PageAssumption == MAX_LIMIT \in Nat \ {0}
ASSUME WalkAssumption == MAX_VERIFY_ROWS \in Nat
ASSUME FilterAssumption == Matching \subseteq Writers \cup {LegacyEntry}
ASSUME CursorAssumption == None \notin Nat
ASSUME ForgedAssumption == Forged \notin Writers \cup {LegacyEntry}

VARIABLES
    before, \* the reader's cursor, None before the first page
    seen    \* the rows it was served, in the order it was served them

readerVars == <<before, seen>>
vars == <<chainVars, readerVars>>

\* The rows are ordered by seq, which is unique within an org.
Below(rows, row) == {r \in rows : r.seq < row.seq}
Above(rows, row) == {r \in rows : r.seq > row.seq}

Oldest(rows) == CHOOSE r \in rows : \A s \in rows : r.seq <= s.seq
Newest(rows) == CHOOSE r \in rows : \A s \in rows : s.seq <= r.seq

\* ORDER BY seq with a LIMIT, ascending and descending.
OldestRows(rows, n) == {r \in rows : Cardinality(Below(rows, r)) < n}
NewestRows(rows, n) == {r \in rows : Cardinality(Above(rows, r)) < n}

-----------------------------------------------------------------------------
(* verify_chain.  A row is compared with the chained row before it, whose  *)
(* hash and position the loop carries; the first row that does not fit     *)
(* ends the walk.                                                          *)

expected_hash(row, prev) == entry_digest(row.seq, row.body, prev)

\* Mutant: a row that was numbered by the backfill counts as chained.
ChainedByNumber(rows) == {r \in rows : r.seq > 0}

\* Rows without a position or without a hash were never chained.
Chained(rows) == {r \in rows : r.seq > 0 /\ r.hash # NoHash}

\* The hash of the last row walked; empty before the first.
head_hash(walked) == IF walked = {} THEN NoHash ELSE Newest(walked).hash

SequenceGap(chained, row) ==
    LET walked == Below(chained, row)
    IN walked # {} /\ row.seq # Newest(walked).seq + 1

\* Mutant: the link is checked against what the row says its predecessor was.
TrustsLink(chained, row) ==
    row \in chained => expected_hash(row, row.prev) # row.hash

Mismatch(chained, row) ==
    expected_hash(row, head_hash(Below(chained, row))) # row.hash

Bad(chained) ==
    {r \in chained : SequenceGap(chained, r) \/ Mismatch(chained, r)}

Report(intact, walked, bad, problem) ==
    [intact |-> intact, checked |-> Cardinality(walked), bad |-> bad,
     problem |-> problem, head |-> head_hash(walked)]

\* The report on the first row that does not fit.
Accuse(chained, row) ==
    LET walked == Below(chained, row)
    IN IF SequenceGap(chained, row)
       THEN Report(FALSE, walked, Newest(walked).seq + 1, "sequence_gap")
       ELSE Report(FALSE, walked, row.seq,
                   IF expected_hash(row, row.prev) = row.hash
                   THEN "broken_link" ELSE "hash_mismatch")

verify_chain(rows) ==
    LET chained == Chained(rows)
    IN IF Bad(chained) = {} THEN Report(TRUE, chained, None, None)
       ELSE Accuse(chained, Oldest(Bad(chained)))

\* The handler walks the oldest MAX_VERIFY_ROWS rows of the org.
verify_audit_log(rows) == verify_chain(OldestRows(rows, MAX_VERIFY_ROWS))

-----------------------------------------------------------------------------
(* get_audit_log                                                           *)

clamp(limit) ==
    IF limit < 1 THEN 1 ELSE IF limit > MAX_LIMIT THEN MAX_LIMIT ELSE limit

\* Mutant: the cursor includes the row it names.
SelectedInclusive ==
    {r \in log : r.body \in Matching /\ (before # None => r.seq <= before)}

\* The rows below the cursor that pass the action filter.
Selected ==
    {r \in log : r.body \in Matching /\ (before # None => r.seq < before)}

\* The rows, newest first.
Descending(rows) ==
    {page \in [1..Cardinality(rows) -> rows] :
       \A i, j \in DOMAIN page : i < j => page[i].seq > page[j].seq}

\* The reader asks for a page and moves its cursor to the last row of it.
get_audit_log(limit) ==
    \E page \in Descending(NewestRows(Selected, clamp(limit))) :
       /\ page # << >>
       /\ seen' = seen \o page
       /\ before' = page[Len(page)].seq
       /\ UNCHANGED chainVars

VerifyInit == Init /\ before = None /\ seen = << >>

VerifyNext ==
    \/ Next /\ UNCHANGED readerVars
    \/ \E limit \in 0..MAX_LIMIT + 1 : get_audit_log(limit)

VerifySpec == VerifyInit /\ [][VerifyNext]_vars

\* The writers' fairness; nobody makes the reader ask for another page.
FairVerifySpec == VerifySpec /\ Fairness

-----------------------------------------------------------------------------
(* Properties of an honest log.                                            *)

Links == Chained(log)

\* Whatever the writers did to each other, the server never accuses an honest
\* log: it verifies at every moment, every chained row in the walked prefix is
\* counted, and the head it reports is the hash of the newest row walked.
HonestLogVerifies ==
    LET walked == OldestRows(log, MAX_VERIFY_ROWS) \cap Links
        report == verify_audit_log(log)
    IN /\ report.intact
       /\ report.checked = Cardinality(walked)
       /\ walked # {} => report.head = Newest(walked).hash

\* A reader that follows its cursor sees, newest first and once each, every
\* matching row from its cursor up to the newest one its first page showed it,
\* no matter what is appended meanwhile: rows become visible in the order of
\* their seq.
PagingIsExact ==
    /\ \A i, j \in 1..Len(seen) : i < j => seen[i].seq > seen[j].seq
    /\ IF seen = << >> THEN before = None ELSE before = seen[Len(seen)].seq
    /\ \A r \in log :
          seen # << >> /\ r.body \in Matching /\ r.seq \in before..seen[1].seq
             => \E i \in 1..Len(seen) : seen[i] = r

-----------------------------------------------------------------------------
(* Properties of a log edited behind the server's back, when verification  *)
(* walks all of it.                                                        *)

Replaced(old, new) == (log \ {old}) \cup {new}

\* Changing what a chained row says, or deleting any chained row but the last,
\* is reported, at the row and with the problem verify_chain documents.
EditIsReported(r) ==
    /\ LET report == verify_chain(Replaced(r, [r EXCEPT !.body = Forged]))
       IN ~report.intact /\ report.bad = r.seq /\ report.problem = "hash_mismatch"
    /\ r # Newest(log) =>
          LET report == verify_chain(log \ {r})
          IN /\ ~report.intact
             /\ IF r.seq = Legacy + 1
                THEN report.bad = r.seq + 1 /\ report.problem = "broken_link"
                ELSE report.bad = r.seq /\ report.problem = "sequence_gap"

\* Recomputing the hash of an edited row moves the damage to its successor, so
\* it stays hidden only at the end of the log, where the head hash moves; and
\* a row relinked to another predecessor is reported as a broken link.
RelinkIsReported(r) ==
    /\ LET forged == Entry(r.seq, Forged, r.prev,
                           entry_digest(r.seq, Forged, r.prev))
           report == verify_chain(Replaced(r, forged))
       IN /\ r # Newest(log) => ~report.intact /\ report.bad = r.seq + 1
                         /\ report.problem = "broken_link"
          /\ r = Newest(log) => report.head # r.hash
    /\ LET elsewhere == entry_digest(0, Forged, NoHash)
           forged == Entry(r.seq, r.body, elsewhere,
                           entry_digest(r.seq, r.body, elsewhere))
           report == verify_chain(Replaced(r, forged))
       IN ~report.intact /\ report.bad = r.seq /\ report.problem = "broken_link"

\* A table of rows the unique index allows.
IsTable(rows) ==
    /\ IsFiniteSet(rows)
    /\ \A r \in rows : r.seq \in Nat
    /\ \A r, s \in rows : r.seq = s.seq => r = s

\* What a log says: its prev column is compared only to name a problem.
Says(rows) == {<<r.seq, r.body, r.hash>> : r \in Chained(rows)}

\* The head hash pins the whole chain: rows that verify under the head of the
\* log say what the log says.
HeadPins(rows) ==
    LET report == verify_chain(rows)
    IN report.intact /\ report.head = verify_chain(log).head => Says(rows) = Says(log)

\* No edit of what a chained row says goes unnoticed by verify_chain, and no
\* deletion by somebody who kept the head hash.
TamperingIsDetected ==
    /\ \A r \in Links : EditIsReported(r) /\ RelinkIsReported(r)
    /\ \A rows \in SUBSET log : HeadPins(rows)

=============================================================================
