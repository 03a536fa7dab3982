---------------------------- MODULE PublicIntake ----------------------------
(***************************************************************************)
(* The public intake of src/public_intake.rs: pre-interest registrations   *)
(* and quote requests that the edge has challenged and signed.             *)
(*                                                                         *)
(* A signed request may be delivered late, twice, out of order, to another *)
(* path or with another body.  The server samples the clock on entry, then *)
(* waits for the body, then authenticates and normalises, then waits for   *)
(* the one write.  Replicas may run with different environments during a   *)
(* rollout, so each delivery meets one of them.  Digests are free of       *)
(* collisions: a body stands for its digest, and a signature for the       *)
(* fields it covers.                                                       *)
(***************************************************************************)
EXTENDS Integers, FiniteSets

CONSTANTS
    Requests,    \* deliveries the server handles
    Ids,         \* idempotency keys
    Spellings,   \* e-mail addresses as typed
    Mailbox,     \* [Spellings -> mailbox, or None if it is no address]
    Revisions,   \* texts of the consents a visitor can have seen
    SigningKeys, \* edge signing keys
    Bodies,      \* documents visitors submit
    Configs,     \* environments of the replicas, None if incomplete
    Skew,        \* MAX_EDGE_CLOCK_SKEW_SECONDS
    ConsentSkew, \* MAX_CONSENT_CLOCK_SKEW_SECONDS
    MaxTime,     \* bound on the clock
    MaxSigned,   \* bound on the requests the edge signs
    None

Time == 0..MaxTime
Kinds == {"pre_interest", "quote_request"}

\* A document: the fields the decisions look at.  valid stands for every field
\* that is only normalised: interests, names, website, locale, referral code,
\* summary, and the party and organization a pre-interest must not have.
Body == [kind : Kinds, request_id : Ids, source : {"user", "org"},
         contact : BOOLEAN, revision : Revisions,
         marketing : Revisions \cup {None}, mail : Spellings,
         consented_at : Time, valid : BOOLEAN]
IntakeSecrets == [signing : SigningKeys, revision : Revisions,
                  marketing : Revisions]

ASSUME IntakeAssumption ==
    /\ Bodies \subseteq Body
    /\ Configs \subseteq IntakeSecrets \cup {None}
    /\ Skew \in Nat /\ ConsentSkew \in Nat /\ MaxTime \in Nat /\ MaxSigned \in Nat
    /\ None \notin IntakeSecrets \cup Ids \cup Body

VARIABLES
    now,      \* seconds
    signed,   \* signatures the edge has made
    pc,       \* where each delivery is
    msg,      \* what was delivered
    at,       \* the clock when the handler was entered
    conf,     \* the environment of the replica
    answer,   \* what the edge was told
    row       \* the stored submissions by idempotency key

vars == <<now, signed, pc, msg, at, conf, answer, row>>
local == <<msg, at, conf>>

source_host_wire(kind) == IF kind = "pre_interest" THEN "user" ELSE "org"

\* abs_diff of two clock readings.
Apart(s, t) == IF s > t THEN s - t ELSE t - s

\* What a signature covers; the idempotency key and the timestamp are
\* signed as the headers spell them.
Signature == [key : SigningKeys, ts : Time, source : {"user", "org"},
              path : Kinds, id : Ids, body : Body]
Message == [path : Kinds, id : Ids, body : Body \cup {None}, sig : Signature]

\* A row of the submissions table.
StoredRow == [fingerprint : Kinds \X Body, mailbox : {Mailbox[s] : s \in Spellings},
              revision : Revisions, marketing : Revisions \cup {None},
              at : Time, sig : Signature, conf : IntakeSecrets]

ASSUME NoRowAssumption == None \notin StoredRow

Init ==
    /\ now = 0
    /\ signed = {}
    /\ pc = [r \in Requests |-> "idle"]
    /\ msg = [r \in Requests |-> None]
    /\ at = [r \in Requests |-> 0]
    /\ conf = [r \in Requests |-> None]
    /\ answer = [r \in Requests |-> "none"]
    /\ row = [i \in Ids |-> None]

Tick ==
    /\ now < MaxTime
    /\ now' = now + 1
    /\ UNCHANGED <<signed, pc, local, answer, row>>

\* The edge: it signs what a visitor sent for the page it was sent from.
EdgeSigns ==
    /\ Cardinality(signed) < MaxSigned
    /\ \E key \in SigningKeys, path \in Kinds, id \in Ids, body \in Bodies :
          signed' = signed \cup
             {[key |-> key, ts |-> now, source |-> source_host_wire(path),
               path |-> path, id |-> id, body |-> body]}
    /\ UNCHANGED <<now, pc, local, answer, row>>

\* PublicApiError; bad_frame stands for the codes of a request whose host,
\* path, headers or length are refused.
Answers == {"none", "accepted", "bad_frame", "invalid_request",
            "abuse_challenge_failed", "temporarily_unavailable"}

\* The handler returns and its locals go away; an accepted message is
\* remembered by its sender.
Reply(r, what) ==
    /\ pc' = [pc EXCEPT ![r] = "done"]
    /\ answer' = [answer EXCEPT ![r] = what]
    /\ msg' = [msg EXCEPT ![r] = IF what = "accepted" THEN @ ELSE None]
    /\ at' = [at EXCEPT ![r] = 0]
    /\ conf' = [conf EXCEPT ![r] = None]

\* submit_*: the clock is sampled, the request line and the framing headers
\* are checked, and the body is awaited.  A body may arrive empty.
submit(r) ==
    /\ pc[r] = "idle"
    /\ \E s \in signed, path \in Kinds, body \in Bodies \cup {None}, c \in Configs :
          /\ path = s.path \/ body = s.body
          /\ msg' = [msg EXCEPT ![r] =
                        [path |-> path, id |-> s.id, body |-> body, sig |-> s]]
          /\ conf' = [conf EXCEPT ![r] = c]
    /\ at' = [at EXCEPT ![r] = now]
    /\ pc' = [pc EXCEPT ![r] = "body"]
    /\ UNCHANGED <<now, signed, answer, row>>

\* The framing is refused, or to_bytes gives up on a body past the limit.
BadFrame(r) ==
    /\ pc[r] = "body"
    /\ Reply(r, "bad_frame")
    /\ UNCHANGED <<now, signed, row>>

\* Mutant: the signature is checked without the digest of the body.
SignatureOfHeaders(m, c) ==
    /\ m.sig.source = source_host_wire(m.path)
    /\ m.sig.key = c.signing
    /\ m.sig.path = m.path

\* The signed string, rebuilt from the headers and the body received.
SignatureMatches(m, c) ==
    m.sig = [key |-> c.signing, ts |-> m.sig.ts,
             source |-> source_host_wire(m.path), path |-> m.path,
             id |-> m.id, body |-> m.body]

\* The timestamp header is the signature's.
verify_edge_headers(m, t, c) ==
    /\ m.sig.source = source_host_wire(m.path)
    /\ Apart(t, m.sig.ts) <= Skew
    /\ SignatureMatches(m, c)

validate_consent(b, c) ==
    /\ b.contact
    /\ b.revision = c.revision
    /\ b.marketing \in {None, c.marketing}

\* Lower-casing makes one mailbox of its spellings.
normalize_email(b) == Mailbox[b.mail]

\* The normalisers of the fields that no decision compares.
FieldsNormalize(b) == b.valid

\* normalize_pre_interest and normalize_quote accept the document.
Normalizable(m, t, c) ==
    /\ m.body.kind = m.path
    /\ m.body.request_id = m.id
    /\ m.body.source = source_host_wire(m.path)
    /\ FieldsNormalize(m.body)
    /\ validate_consent(m.body, c)
    /\ normalize_email(m.body) # None
    /\ Apart(t, m.body.consented_at) <= ConsentSkew

\* authenticate_request after the body, then the normalisation.
Verdict(r) ==
    CASE msg[r].body = None -> "invalid_request"
      [] conf[r] = None -> "temporarily_unavailable"
      [] ~verify_edge_headers(msg[r], at[r], conf[r]) -> "abuse_challenge_failed"
      [] ~Normalizable(msg[r], at[r], conf[r]) -> "invalid_request"
      [] OTHER -> "ok"

\* process_pre_interest, process_quote_request up to the write, which needs a
\* configured data plane.
Authenticate(r) ==
    /\ pc[r] = "body"
    /\ \/ /\ Verdict(r) = "ok"
          /\ pc' = [pc EXCEPT ![r] = "write"]
          /\ UNCHANGED <<local, answer>>
       \/ /\ Verdict(r) # "ok"
          /\ Reply(r, Verdict(r))
       \/ /\ Verdict(r) = "ok"
          /\ Reply(r, "temporarily_unavailable")
    /\ UNCHANGED <<now, signed, row>>

\* Mutant: the fingerprint is taken over the request as received, with the time.
FingerprintWithTime(r) == <<msg[r].path, msg[r].body, at[r]>>

\* What makes two submissions the same: kind, source host and body digest.
Fingerprint(r) == <<msg[r].path, msg[r].body>>

\* NewPublicIntakeSubmission::new, with the consent texts stamped by the
\* normalisation.  at, sig and conf are only observed.
Submission(r) ==
    [fingerprint |-> Fingerprint(r), mailbox |-> normalize_email(msg[r].body),
     revision |-> conf[r].revision,
     marketing |-> IF msg[r].body.marketing = None THEN None
                   ELSE conf[r].marketing,
     at |-> at[r], sig |-> msg[r].sig, conf |-> conf[r]]

Stored(r) == row' = [row EXCEPT ![msg[r].id] = Submission(r)]
Conflicts(r) ==
    /\ row[msg[r].id] # None
    /\ row[msg[r].id].fingerprint # Fingerprint(r)

\* Mutant: an idempotency conflict passes for a repetition.
OutcomeOfAny(r) == IF pc[r] = "write" THEN "accepted" ELSE "none"

\* persist, map_write_error: the outcome of a write that reached the database.
Outcome(r) == IF Conflicts(r) THEN "invalid_request" ELSE "accepted"

\* The mailbox is on file under another key.
KnownMailbox(r) ==
    \E i \in Ids \ {msg[r].id} :
        row[i] # None /\ row[i].mailbox = normalize_email(msg[r].body)

\* write_public_intake_submission inserts once per key; for a mailbox already
\* on file it may do without a row of its own, and every Ok is accepted.  It
\* may fail before or after it took effect.
persist(r) ==
    /\ pc[r] = "write"
    /\ \/ row[msg[r].id] = None /\ Stored(r)
       \/ /\ row[msg[r].id] # None \/ KnownMailbox(r)
          /\ UNCHANGED row
    /\ Reply(r, Outcome(r)) \/ Reply(r, "temporarily_unavailable")
    /\ UNCHANGED <<now, signed>>

PersistenceFails(r) ==
    /\ pc[r] = "write"
    /\ Reply(r, "temporarily_unavailable")
    /\ UNCHANGED <<now, signed, row>>

\* The connection is closed or the replica dies; a write already sent may
\* still be made.
Drop(r) ==
    /\ pc[r] \in {"body", "write"}
    /\ Reply(r, "none")
    /\ \/ UNCHANGED row
       \/ pc[r] = "write" /\ row[msg[r].id] = None /\ Stored(r)
    /\ UNCHANGED <<now, signed>>

Next ==
    \/ Tick
    \/ EdgeSigns
    \/ \E r \in Requests :
          \/ submit(r) \/ BadFrame(r) \/ Authenticate(r)
          \/ persist(r) \/ PersistenceFails(r) \/ Drop(r)

Spec == Init /\ [][Next]_vars

-----------------------------------------------------------------------------
\* One row per key, one verdict per delivery.
TypeOK ==
    /\ now \in Time
    /\ signed \subseteq Signature
    /\ pc \in [Requests -> {"idle", "body", "write", "done"}]
    /\ msg \in [Requests -> Message \cup {None}]
    /\ at \in [Requests -> Time]
    /\ conf \in [Requests -> Configs \cup {None}]
    /\ answer \in [Requests -> Answers]
    /\ row \in [Ids -> StoredRow \cup {None}]

Holds(i, kind, body) ==
    row[i].fingerprint[1] = kind /\ row[i].fingerprint[2] = body

\* Whatever is stored was signed by the edge for that page, that key and that
\* very document, by the replica's key, and was received while the signature
\* and the visitor's consent were fresh (verify_edge_headers); and the consent
\* stamped on the row is the one the visitor gave, although normalize_*
\* overwrites what the document says.
StoredWasSigned ==
    \A i \in Ids : row[i] # None =>
        /\ \E s \in signed :
              /\ s.id = i /\ s.body.request_id = i
              /\ Holds(i, s.path, s.body)
              /\ s.key = row[i].conf.signing
              /\ Apart(row[i].at, s.ts) <= Skew
              /\ Apart(row[i].at, s.body.consented_at) <= ConsentSkew
        /\ row[i].fingerprint[2].contact
        /\ row[i].revision = row[i].fingerprint[2].revision
        /\ row[i].marketing = row[i].fingerprint[2].marketing

\* `accepted` is said only of a submission that is stored with this content, not
\* merely under this key (map_write_error), or of one whose mailbox is on file
\* under another key: docs/public-intake-api.md answers 202 to a duplicate
\* e-mail fingerprint too, so 202 alone does not say that this document was kept.
AcceptedMeansStored ==
    \A r \in Requests : answer[r] = "accepted" =>
        \/ /\ row[msg[r].id] # None
           /\ Holds(msg[r].id, msg[r].path, msg[r].body)
        \/ KnownMailbox(r)

\* A repetition of what is stored is refused for good only when its signature
\* or its consent has aged, or it met a replica configured differently: a
\* retry after a lost answer is safe.
Repeats(r) ==
    /\ row[msg[r].id] # None
    /\ row[msg[r].id].sig = msg[r].sig
    /\ <<msg[r].sig.path, msg[r].sig.body>> = <<msg[r].path, msg[r].body>>
Aged(r) ==
    \/ Apart(at[r], msg[r].sig.ts) > Skew
    \/ Apart(at[r], msg[r].body.consented_at) > ConsentSkew
RetryRefusedOnlyWhenStale ==
    [][\A r \in Requests :
          (/\ pc[r] \in {"body", "write"} /\ Repeats(r)
           /\ answer'[r] \in {"invalid_request", "abuse_challenge_failed"})
             => Aged(r) \/ conf[r] # row[msg[r].id].conf]_vars

(***************************************************************************)
(* The inductive invariant: what a delivery relies on between the body and *)
(* the write, and what a row remembers of the delivery that wrote it.      *)
(***************************************************************************)

\* A delivery that is being handled carries a signature the edge has made,
\* has not been answered, and is written only once it was found in order.
DeliveriesAreSigned ==
    \A r \in Requests :
        /\ pc[r] \in {"body", "write"} =>
              /\ msg[r] \in Message
              /\ msg[r].sig \in signed
              /\ msg[r].id = msg[r].sig.id
        /\ pc[r] = "write" => Verdict(r) = "ok"
        /\ pc[r] # "done" => answer[r] = "none"
        /\ answer[r] = "accepted" => msg[r] \in Message

\* What can be said of a row by its signature and its replica's environment
\* alone: its delivery was in order but for the clock.
RowsWereInOrder ==
    \A i \in Ids : row[i] # None =>
        LET m == [path |-> row[i].sig.path, id |-> i, body |-> row[i].sig.body,
                  sig |-> row[i].sig]
        IN  /\ row[i].fingerprint = <<m.path, m.body>>
            /\ row[i].sig \in signed
            /\ verify_edge_headers(m, row[i].at, row[i].conf)
            /\ Normalizable(m, row[i].at, row[i].conf)
            /\ row[i].revision = m.body.revision
            /\ row[i].marketing = m.body.marketing

IInv ==
    /\ TypeOK
    /\ DeliveriesAreSigned
    /\ RowsWereInOrder
    /\ AcceptedMeansStored

=============================================================================
