------------------------- MODULE PublicIntakeProofs -------------------------
(***************************************************************************)
(* The public intake, for any number of deliveries, documents, replicas    *)
(* and keys: only what the edge signed is stored, `accepted` means stored  *)
(* or from a mailbox on file, and a retry of what is stored is refused     *)
(* only when it is stale.                                                  *)
(***************************************************************************)
EXTENDS PublicIntake, TLAPS

-----------------------------------------------------------------------------
(* What is said of a delivery and of a row.                                *)

\* The delivery that wrote a row, as far as the row remembers it.
Delivered(i) ==
    [path |-> row[i].sig.path, id |-> i, body |-> row[i].sig.body, sig |-> row[i].sig]

\* RowsWereInOrder, for a row w under key i.
InOrder(i, w, sigs) ==
    LET m == [path |-> w.sig.path, id |-> i, body |-> w.sig.body, sig |-> w.sig]
    IN  /\ w.fingerprint = <<m.path, m.body>>
        /\ w.sig \in sigs
        /\ verify_edge_headers(m, w.at, w.conf)
        /\ Normalizable(m, w.at, w.conf)
        /\ w.revision = m.body.revision
        /\ w.marketing = m.body.marketing

\* Both readings of RowsWereInOrder, before and after a step.
LEMMA RowsInOrder ==
    /\ RowsWereInOrder <=> \A i \in Ids : row[i] # None => InOrder(i, row[i], signed)
    /\ RowsWereInOrder' <=> \A i \in Ids : row'[i] # None => InOrder(i, row'[i], signed')
BY DEF RowsWereInOrder, InOrder

\* The checks of authenticate_request and the normalisation, all passed.
LEMMA VerdictIsOk ==
    ASSUME NEW r \in Requests
    PROVE  Verdict(r) = "ok" <=> /\ msg[r].body # None
                                 /\ conf[r] # None
                                 /\ verify_edge_headers(msg[r], at[r], conf[r])
                                 /\ Normalizable(msg[r], at[r], conf[r])
BY DEF Verdict

\* What `accepted` says of a delivery.
OnFile(r) ==
    \/ row[msg[r].id] # None /\ Holds(msg[r].id, msg[r].path, msg[r].body)
    \/ KnownMailbox(r)

\* Rows are never changed, so what `accepted` says stays true.
LEMMA OnFileStays ==
    ASSUME NEW r \in Requests, msg[r].id \in Ids, msg'[r] = msg[r], OnFile(r),
           \A i \in Ids : row[i] # None => row'[i] = row[i]
    PROVE  OnFile(r)'
BY DEF OnFile, Holds, KnownMailbox, normalize_email

\* The verdicts that are answers.
LEMMA VerdictIsAnswer ==
    ASSUME NEW r \in Requests, Verdict(r) # "ok"
    PROVE  Verdict(r) \in {"invalid_request", "temporarily_unavailable", "abuse_challenge_failed"}
BY DEF Verdict

\* A signature that matches the delivery covers what was delivered.
LEMMA MatchCovers ==
    ASSUME NEW m, NEW c, SignatureMatches(m, c)
    PROVE  /\ m.sig.path = m.path /\ m.sig.body = m.body /\ m.sig.id = m.id
           /\ m.sig.key = c.signing
<1>1. m.sig = [key |-> c.signing, ts |-> m.sig.ts,
               source |-> source_host_wire(m.path), path |-> m.path,
               id |-> m.id, body |-> m.body]
  BY DEF SignatureMatches
<1> QED
  BY <1>1

\* What a delivery that was found in order would store is in order.
LEMMA SubmissionIsInOrder ==
    ASSUME IInv, NEW r \in Requests, pc[r] = "write"
    PROVE  /\ msg[r] \in Message /\ msg[r].id \in Ids
           /\ Submission(r) \in StoredRow
           /\ Submission(r).fingerprint = <<msg[r].path, msg[r].body>>
           /\ InOrder(msg[r].id, Submission(r), signed)
<1>1. /\ msg[r] \in Message /\ msg[r].sig \in signed /\ Verdict(r) = "ok"
  BY DEF IInv, DeliveriesAreSigned
<1>2. /\ msg[r].path \in Kinds /\ msg[r].id \in Ids /\ msg[r].body \in Body \cup {None}
      /\ msg[r].sig \in Signature
      /\ msg[r] = [path |-> msg[r].path, id |-> msg[r].id, body |-> msg[r].body,
                   sig |-> msg[r].sig]
  BY <1>1 DEF Message
<1>3. /\ msg[r].body # None /\ conf[r] # None
      /\ verify_edge_headers(msg[r], at[r], conf[r])
      /\ Normalizable(msg[r], at[r], conf[r])
  BY <1>1, VerdictIsOk
<1>4. conf[r] \in IntakeSecrets /\ at[r] \in Time /\ msg[r].body \in Body
  BY <1>2, <1>3, IntakeAssumption DEF IInv, TypeOK
<1>5. msg[r].sig.path = msg[r].path /\ msg[r].sig.body = msg[r].body
  BY <1>3, MatchCovers DEF verify_edge_headers
<1>6. /\ conf[r].revision \in Revisions /\ conf[r].marketing \in Revisions
      /\ msg[r].body.mail \in Spellings
  BY <1>4 DEF IntakeSecrets, Body
<1>7. /\ conf[r].revision = msg[r].body.revision
      /\ msg[r].body.marketing \in {None, conf[r].marketing}
  BY <1>3 DEF Normalizable, validate_consent
<1> DEFINE w == Submission(r)
<1>8. /\ w.fingerprint = <<msg[r].path, msg[r].body>> /\ w.revision = conf[r].revision
      /\ w.marketing = IF msg[r].body.marketing = None THEN None ELSE conf[r].marketing
      /\ w.at = at[r] /\ w.sig = msg[r].sig /\ w.conf = conf[r]
  BY DEF Submission, Fingerprint
<1>9. w \in StoredRow
  BY <1>2, <1>4, <1>6 DEF Submission, Fingerprint, StoredRow, normalize_email
<1> HIDE DEF w
<1>10. InOrder(msg[r].id, w, signed)
  <2>1. [path |-> w.sig.path, id |-> msg[r].id, body |-> w.sig.body, sig |-> w.sig] = msg[r]
    BY <1>2, <1>5, <1>8
  <2>2. w.revision = msg[r].body.revision /\ w.marketing = msg[r].body.marketing
    BY <1>7, <1>8
  <2> QED
    BY <1>1, <1>3, <1>8, <2>1, <2>2 DEF InOrder
<1> QED
  BY <1>1, <1>2, <1>8, <1>9, <1>10 DEF w

-----------------------------------------------------------------------------
(* The steps.                                                              *)

\* Nothing has been signed, delivered or stored.
LEMMA Initially == Init => IInv
<1> SUFFICES ASSUME Init PROVE IInv
  OBVIOUS
<1>1. TypeOK
  BY IntakeAssumption DEF Init, TypeOK, Time, Answers
<1>2. DeliveriesAreSigned /\ RowsWereInOrder /\ AcceptedMeansStored
  BY DEF Init, DeliveriesAreSigned, RowsWereInOrder, AcceptedMeansStored
<1> QED
  BY <1>1, <1>2 DEF IInv

\* Time passes and the edge signs: rows and deliveries stay what they were.
LEMMA IInv_Outside ==
    ASSUME IInv, Tick \/ EdgeSigns
    PROVE  IInv' /\ answer' = answer
<1>1. UNCHANGED <<pc, msg, at, conf, answer, row>> /\ signed \subseteq signed'
  BY DEF Tick, EdgeSigns, local
<1>2. signed' \subseteq Signature /\ now' \in Time
  <2>1. CASE Tick
    BY <2>1, IntakeAssumption DEF Tick, IInv, TypeOK, Time
  <2>2. CASE EdgeSigns
    <3>1. PICK key \in SigningKeys, path \in Kinds, id \in Ids, body \in Bodies :
             signed' = signed \cup
                {[key |-> key, ts |-> now, source |-> source_host_wire(path),
                  path |-> path, id |-> id, body |-> body]}
      BY <2>2 DEF EdgeSigns
    <3>2. source_host_wire(path) \in {"user", "org"} /\ body \in Body /\ now \in Time
      BY IntakeAssumption DEF source_host_wire, IInv, TypeOK
    <3>3. now' = now
      BY <2>2 DEF EdgeSigns
    <3> QED
      BY <3>1, <3>2, <3>3 DEF Signature, IInv, TypeOK
  <2> QED
    BY <2>1, <2>2
<1>3. TypeOK'
  BY <1>1, <1>2 DEF IInv, TypeOK
<1>4. DeliveriesAreSigned'
  BY <1>1 DEF IInv, DeliveriesAreSigned, Verdict
<1>5. RowsWereInOrder'
  BY <1>1, RowsInOrder DEF IInv, InOrder
<1>6. AcceptedMeansStored'
  BY <1>1 DEF IInv, AcceptedMeansStored, Holds, KnownMailbox, normalize_email
<1> QED
  BY <1>1, <1>3, <1>4, <1>5, <1>6 DEF IInv

\* A delivery begins: it carries a signature of the edge.
LEMMA IInv_submit ==
    ASSUME IInv, NEW r \in Requests, submit(r)
    PROVE  IInv' /\ answer' = answer
<1>1. PICK s \in signed, path \in Kinds, body \in Bodies \cup {None}, c \in Configs :
          /\ path = s.path \/ body = s.body
          /\ msg' = [msg EXCEPT ![r] =
                        [path |-> path, id |-> s.id, body |-> body, sig |-> s]]
          /\ conf' = [conf EXCEPT ![r] = c]
  BY DEF submit
<1>2. /\ pc[r] = "idle" /\ at' = [at EXCEPT ![r] = now] /\ pc' = [pc EXCEPT ![r] = "body"]
      /\ UNCHANGED <<now, signed, answer, row>>
  BY DEF submit
<1> DEFINE m == [path |-> path, id |-> s.id, body |-> body, sig |-> s]
<1>3. m \in Message /\ m.sig \in signed /\ m.id = m.sig.id
  BY IntakeAssumption DEF Message, Signature, IInv, TypeOK
<1> HIDE DEF m
<1>4. msg' = [msg EXCEPT ![r] = m]
  BY <1>1 DEF m
<1>5. TypeOK'
  BY <1>1, <1>2, <1>3, <1>4 DEF IInv, TypeOK
<1>6. /\ msg'[r] = m /\ pc'[r] = "body" /\ answer[r] = "none"
      /\ \A o \in Requests : o # r => /\ msg'[o] = msg[o] /\ pc'[o] = pc[o]
                                      /\ at'[o] = at[o] /\ conf'[o] = conf[o]
  BY <1>1, <1>2, <1>4 DEF IInv, TypeOK, DeliveriesAreSigned
<1>7. DeliveriesAreSigned'
  BY <1>2, <1>3, <1>6 DEF IInv, DeliveriesAreSigned, Verdict
<1>8. RowsWereInOrder'
  BY <1>2 DEF IInv, RowsWereInOrder
<1>9. AcceptedMeansStored'
  <2> SUFFICES ASSUME NEW o \in Requests, answer'[o] = "accepted" PROVE OnFile(o)'
    BY DEF AcceptedMeansStored, OnFile
  <2>1. o # r /\ answer[o] = "accepted"
    BY <1>2, <1>6
  <2>2. OnFile(o) /\ msg[o].id \in Ids
    BY <2>1 DEF IInv, AcceptedMeansStored, OnFile, DeliveriesAreSigned, Message
  <2> QED
    BY <1>2, <1>6, <2>1, <2>2, OnFileStays
<1> QED
  BY <1>2, <1>5, <1>7, <1>8, <1>9 DEF IInv

\* A delivery goes on to the write only when every check has passed.
LEMMA IInv_Admitted ==
    ASSUME IInv, NEW r \in Requests, pc[r] = "body", Verdict(r) = "ok",
           pc' = [pc EXCEPT ![r] = "write"], UNCHANGED <<now, signed, local, answer, row>>
    PROVE  IInv'
<1>1. UNCHANGED <<now, signed, msg, at, conf, answer, row>>
  BY DEF local
<1>2. TypeOK'
  BY <1>1 DEF IInv, TypeOK
<1>3. DeliveriesAreSigned'
  BY <1>1 DEF IInv, TypeOK, DeliveriesAreSigned, Verdict
<1>4. RowsWereInOrder' /\ AcceptedMeansStored'
  BY <1>1 DEF IInv, RowsWereInOrder, AcceptedMeansStored, Holds, KnownMailbox,
              normalize_email
<1> QED
  BY <1>2, <1>3, <1>4 DEF IInv

\* A delivery ends: with its row written or not, and accepted only if a row
\* with its fingerprint is there or its mailbox is on file.
LEMMA IInv_Reply ==
    ASSUME IInv, NEW r \in Requests, NEW what \in Answers, pc[r] \in {"body", "write"},
           Reply(r, what), UNCHANGED <<now, signed>>,
           \/ row' = row
           \/ pc[r] = "write" /\ row[msg[r].id] = None /\ Stored(r),
           what = "accepted" => \/ /\ row'[msg[r].id] # None
                                   /\ row'[msg[r].id].fingerprint = Fingerprint(r)
                                \/ KnownMailbox(r)
    PROVE  IInv'
<1>1. /\ pc' = [pc EXCEPT ![r] = "done"]
      /\ answer' = [answer EXCEPT ![r] = what]
      /\ msg' = [msg EXCEPT ![r] = IF what = "accepted" THEN msg[r] ELSE None]
      /\ at' = [at EXCEPT ![r] = 0]
      /\ conf' = [conf EXCEPT ![r] = None]
  BY DEF Reply, IInv, TypeOK
<1>2. msg[r] \in Message /\ msg[r].id \in Ids
  BY DEF IInv, DeliveriesAreSigned, Message
<1>3. \A i \in Ids : \/ row'[i] = row[i]
                     \/ /\ row[i] = None /\ row'[i] \in StoredRow
                        /\ InOrder(i, row'[i], signed)
  BY <1>2, SubmissionIsInOrder DEF Stored, IInv, TypeOK
<1>4. row' \in [Ids -> StoredRow \cup {None}]
  BY <1>2, SubmissionIsInOrder DEF Stored, IInv, TypeOK
<1>5. TypeOK'
  BY <1>1, <1>2, <1>4, IntakeAssumption DEF IInv, TypeOK, Time
<1>6. /\ pc'[r] = "done" /\ answer'[r] = what /\ (what = "accepted" => msg'[r] = msg[r])
      /\ \A o \in Requests : o # r => /\ msg'[o] = msg[o] /\ pc'[o] = pc[o]
                                      /\ at'[o] = at[o] /\ conf'[o] = conf[o]
                                      /\ answer'[o] = answer[o]
  BY <1>1 DEF IInv, TypeOK
<1>7. DeliveriesAreSigned'
  BY <1>2, <1>6 DEF IInv, DeliveriesAreSigned, Verdict
<1>8. RowsWereInOrder'
  BY <1>3, RowsInOrder DEF IInv
<1>9. AcceptedMeansStored'
  <2> SUFFICES ASSUME NEW o \in Requests, answer'[o] = "accepted" PROVE OnFile(o)'
    BY DEF AcceptedMeansStored, OnFile
  <2>0. \A i \in Ids : row[i] # None => row'[i] = row[i]
    BY <1>3
  <2>1. CASE o = r
    <3>1. what = "accepted" /\ msg'[r] = msg[r]
      BY <1>6, <2>1
    <3>2. CASE KnownMailbox(r)
      BY <1>2, <2>0, <2>1, <3>1, <3>2, OnFileStays DEF OnFile
    <3>3. CASE row'[msg[r].id] # None /\ row'[msg[r].id].fingerprint = Fingerprint(r)
      BY <2>1, <3>1, <3>3 DEF OnFile, Holds, Fingerprint
    <3> QED
      BY <3>1, <3>2, <3>3
  <2>2. CASE o # r
    <3>1. answer[o] = "accepted" /\ msg'[o] = msg[o] /\ msg[o].id \in Ids
      BY <1>6, <2>2 DEF IInv, DeliveriesAreSigned, Message
    <3>2. OnFile(o)
      BY <3>1 DEF IInv, AcceptedMeansStored, OnFile
    <3> QED
      BY <2>0, <3>1, <3>2, OnFileStays
  <2> QED
    BY <2>1, <2>2
<1> QED
  BY <1>5, <1>7, <1>8, <1>9 DEF IInv

\* The steps of one delivery.
Deliver(r) ==
    submit(r) \/ BadFrame(r) \/ Authenticate(r) \/ persist(r) \/ PersistenceFails(r) \/ Drop(r)

\* Every step of a delivery keeps the inductive invariant.
LEMMA IInv_Deliver ==
    ASSUME IInv, NEW r \in Requests, Deliver(r)
    PROVE  IInv'
<1>1. CASE submit(r)
  BY <1>1, IInv_submit
<1>2. CASE BadFrame(r)
  BY <1>2, IInv_Reply DEF BadFrame, Answers
<1>3. CASE Authenticate(r)
  <2>1. pc[r] = "body" /\ UNCHANGED <<now, signed, row>>
    BY <1>3 DEF Authenticate
  <2>2. CASE /\ Verdict(r) = "ok" /\ pc' = [pc EXCEPT ![r] = "write"] /\ UNCHANGED <<local, answer>>
    BY <2>1, <2>2, IInv_Admitted
  <2>3. ASSUME NEW what \in Answers \ {"accepted"}, Reply(r, what) PROVE IInv'
    BY <2>1, <2>3, IInv_Reply
  <2>4. Verdict(r) # "ok" => Verdict(r) \in Answers \ {"accepted"}
    BY VerdictIsAnswer DEF Answers
  <2> QED
    BY <1>3, <2>2, <2>3, <2>4 DEF Authenticate, Answers
<1>4. CASE persist(r)
  <2>1. /\ pc[r] = "write" /\ UNCHANGED <<now, signed>>
        /\ \/ row[msg[r].id] = None /\ Stored(r)
           \/ row[msg[r].id] # None /\ UNCHANGED row
           \/ KnownMailbox(r) /\ UNCHANGED row
    BY <1>4 DEF persist
  <2>2. \/ /\ row'[msg[r].id] # None
           /\ ~Conflicts(r) => row'[msg[r].id].fingerprint = Fingerprint(r)
        \/ KnownMailbox(r)
    <3>1. CASE row[msg[r].id] = None /\ Stored(r)
      <4>1. /\ msg[r].id \in Ids /\ Submission(r) \in StoredRow
            /\ Submission(r).fingerprint = Fingerprint(r)
        BY <2>1, SubmissionIsInOrder DEF Fingerprint
      <4>2. row'[msg[r].id] = Submission(r)
        BY <3>1, <4>1 DEF Stored, IInv, TypeOK
      <4> QED
        BY <4>1, <4>2, NoRowAssumption
    <3>2. CASE row[msg[r].id] # None /\ UNCHANGED row
      BY <3>2 DEF Conflicts
    <3> QED
      BY <2>1, <3>1, <3>2
  <2>3. CASE Reply(r, Outcome(r))
    <3>1. Outcome(r) \in Answers /\ (Outcome(r) = "accepted" => ~Conflicts(r))
      BY DEF Outcome, Answers
    <3> QED
      BY <2>1, <2>2, <2>3, <3>1, IInv_Reply
  <2>4. CASE Reply(r, "temporarily_unavailable")
    BY <2>1, <2>4, IInv_Reply DEF Answers
  <2> QED
    BY <1>4, <2>3, <2>4 DEF persist
<1>5. CASE PersistenceFails(r)
  BY <1>5, IInv_Reply DEF PersistenceFails, Answers
<1>6. CASE Drop(r)
  BY <1>6, IInv_Reply DEF Drop, Answers
<1> QED
  BY <1>1, <1>2, <1>3, <1>4, <1>5, <1>6 DEF Deliver

-----------------------------------------------------------------------------
(* The theorems.                                                           *)

\* What deliveries rely on, and what rows remember, holds throughout.
THEOREM Invariance == Spec => []IInv
<1>1. ASSUME IInv, [Next]_vars PROVE IInv'
  <2>1. CASE UNCHANGED vars
    <3>1. UNCHANGED <<now, signed, pc, msg, at, conf, answer, row>>
      BY <2>1 DEF vars
    <3> QED
      BY <1>1, <3>1 DEF IInv, TypeOK, DeliveriesAreSigned, Verdict, RowsWereInOrder,
                        AcceptedMeansStored, Holds, KnownMailbox, normalize_email
  <2>2. CASE Tick \/ EdgeSigns
    BY <1>1, <2>2, IInv_Outside
  <2>3. ASSUME NEW r \in Requests, Deliver(r) PROVE IInv'
    BY <1>1, <2>3, IInv_Deliver
  <2> QED
    BY <1>1, <2>1, <2>2, <2>3 DEF Next, Deliver
<1> QED
  BY <1>1, Initially, PTL DEF Spec

\* Whatever persist has stored, the edge signed for that page, that key and
\* that document, and it was received while signature and consent were fresh.
THEOREM OnlySignedIsStored == Spec => []StoredWasSigned
<1>1. ASSUME IInv PROVE StoredWasSigned
  <2> SUFFICES ASSUME NEW i \in Ids, row[i] # None
               PROVE  /\ \E s \in signed :
                            /\ s.id = i /\ s.body.request_id = i
                            /\ Holds(i, s.path, s.body)
                            /\ s.key = row[i].conf.signing
                            /\ Apart(row[i].at, s.ts) <= Skew
                            /\ Apart(row[i].at, s.body.consented_at) <= ConsentSkew
                      /\ row[i].fingerprint[2].contact
                      /\ row[i].revision = row[i].fingerprint[2].revision
                      /\ row[i].marketing = row[i].fingerprint[2].marketing
    BY DEF StoredWasSigned
  <2> DEFINE s == row[i].sig
             m == Delivered(i)
  <2>1. /\ m.path = s.path /\ m.id = i /\ m.body = s.body /\ m.sig = s
    BY DEF Delivered
  <2>2. /\ row[i].fingerprint = <<s.path, s.body>> /\ s \in signed
        /\ verify_edge_headers(m, row[i].at, row[i].conf)
        /\ Normalizable(m, row[i].at, row[i].conf)
        /\ row[i].revision = s.body.revision /\ row[i].marketing = s.body.marketing
    BY <1>1, RowsInOrder DEF IInv, InOrder, Delivered
  <2> HIDE DEF m
  <2>3. s.id = i /\ s.key = row[i].conf.signing
    BY <2>1, <2>2, MatchCovers DEF verify_edge_headers
  <2>4. Apart(row[i].at, s.ts) <= Skew
    BY <2>1, <2>2 DEF verify_edge_headers
  <2>5. /\ Apart(row[i].at, s.body.consented_at) <= ConsentSkew
        /\ s.body.request_id = i /\ s.body.contact
    BY <2>1, <2>2 DEF Normalizable, validate_consent
  <2>6. row[i].fingerprint[1] = s.path /\ row[i].fingerprint[2] = s.body
    BY <2>2
  <2> QED
    BY <2>2, <2>3, <2>4, <2>5, <2>6 DEF Holds
<1> QED
  BY <1>1, Invariance, PTL

\* The edge is told `accepted` only of a submission that is stored with this
\* very content, or whose mailbox is on file under another key.
THEOREM AcceptedIsStored == Spec => []AcceptedMeansStored
<1>1. IInv => AcceptedMeansStored
  BY DEF IInv
<1> QED
  BY <1>1, Invariance, PTL

\* A repetition of a stored delivery, at a replica with the environment that
\* stored it and before it has aged, passes every check and conflicts with
\* nothing.
LEMMA RepetitionIsInOrder ==
    ASSUME IInv, NEW r \in Requests, pc[r] \in {"body", "write"}, Repeats(r),
           ~Aged(r), conf[r] = row[msg[r].id].conf
    PROVE  Verdict(r) = "ok" /\ ~Conflicts(r)
<1> DEFINE i == msg[r].id
           s == msg[r].sig
<1>1. /\ msg[r] \in Message /\ i = s.id /\ row[i] # None /\ row[i].sig = s
      /\ s.path = msg[r].path /\ s.body = msg[r].body
  BY DEF IInv, DeliveriesAreSigned, Repeats
<1>2. /\ i \in Ids /\ s \in Signature
      /\ msg[r] = [path |-> msg[r].path, id |-> i, body |-> msg[r].body, sig |-> s]
  BY <1>1 DEF Message
<1>3. InOrder(i, row[i], signed)
  BY <1>1, <1>2, RowsInOrder DEF IInv
<1>4. row[i] \in StoredRow
  BY <1>1, <1>2 DEF IInv, TypeOK
<1>5. conf[r] \in IntakeSecrets /\ conf[r] # None
  BY <1>4, IntakeAssumption DEF StoredRow
<1>6. msg[r].body \in Body /\ msg[r].body # None
  BY <1>1, <1>2, IntakeAssumption DEF Signature
<1>7. /\ row[i].fingerprint = <<msg[r].path, msg[r].body>>
      /\ verify_edge_headers(msg[r], row[i].at, conf[r])
      /\ Normalizable(msg[r], row[i].at, conf[r])
  BY <1>1, <1>2, <1>3 DEF InOrder
<1>8. Apart(at[r], s.ts) <= Skew /\ Apart(at[r], msg[r].body.consented_at) <= ConsentSkew
  <2>1. at[r] \in Nat /\ s.ts \in Nat /\ msg[r].body.consented_at \in Nat
    BY <1>2, <1>6 DEF IInv, TypeOK, Time, Signature, Body
  <2> QED
    BY <2>1, IntakeAssumption DEF Aged, Apart
<1>9. verify_edge_headers(msg[r], at[r], conf[r])
  BY <1>7, <1>8 DEF verify_edge_headers
<1>10. Normalizable(msg[r], at[r], conf[r])
  BY <1>7, <1>8 DEF Normalizable
<1>11. ~Conflicts(r)
  BY <1>7 DEF Conflicts, Fingerprint
<1> QED
  BY <1>5, <1>6, <1>9, <1>10, <1>11, VerdictIsOk

\* A retry of what is stored is refused for good only when its signature or
\* its consent has aged, or at a replica that is configured differently.
THEOREM RetryIsSafe == Spec => RetryRefusedOnlyWhenStale
<1>1. IInv /\ [Next]_vars =>
        [\A r \in Requests :
            (/\ pc[r] \in {"body", "write"} /\ Repeats(r)
             /\ answer'[r] \in {"invalid_request", "abuse_challenge_failed"})
               => Aged(r) \/ conf[r] # row[msg[r].id].conf]_vars
  <2> SUFFICES ASSUME IInv, Next, NEW r \in Requests, pc[r] \in {"body", "write"}, Repeats(r),
                      answer'[r] \in {"invalid_request", "abuse_challenge_failed"},
                      ~Aged(r), conf[r] = row[msg[r].id].conf
               PROVE  FALSE
    OBVIOUS
  <2>1. answer[r] = "none"
    BY DEF IInv, DeliveriesAreSigned
  <2>2. ~(Tick \/ EdgeSigns)
    BY <2>1, IInv_Outside
  <2>3. PICK o \in Requests : Deliver(o)
    BY <2>2 DEF Next, Deliver
  <2>4. ~submit(o)
    BY <2>1, IInv_submit
  <2>5. ASSUME NEW what, Reply(o, what) PROVE o = r /\ answer'[r] = what
    <3>1. answer' = [answer EXCEPT ![o] = what] /\ answer \in [Requests -> Answers]
      BY <2>5 DEF Reply, IInv, TypeOK
    <3> QED
      BY <2>1, <3>1
  <2>6. ~BadFrame(o) /\ ~PersistenceFails(o) /\ ~Drop(o)
    BY <2>5 DEF BadFrame, PersistenceFails, Drop
  <2>7. Verdict(r) = "ok" /\ ~Conflicts(r)
    BY RepetitionIsInOrder
  <2>8. ~Authenticate(o)
    BY <2>1, <2>5, <2>7 DEF Authenticate
  <2>9. ~persist(o)
    BY <2>5, <2>7 DEF persist, Outcome
  <2> QED
    BY <2>3, <2>4, <2>6, <2>8, <2>9 DEF Deliver
<1> QED
  BY <1>1, Invariance, PTL DEF Spec, RetryRefusedOnlyWhenStale

=============================================================================
