---------------------------- MODULE PackageIntake ----------------------------
(***************************************************************************)
(* Admission of a package from the evidence collected about it:            *)
(* src/package_intake.rs.                                                  *)
(*                                                                         *)
(* A piece of evidence is a sequence of at most one.  The digests evaluate *)
(* never reads (the file manifest and the lock of a rebuild) are left out. *)
(***************************************************************************)
EXTENDS Integers, Sequences

CONSTANTS Artifacts, Sources, Policies,  \* the digests evidence may name
          Receipts                       \* of a rebuild or a risk analysis

Kinds == {"rebuild", "risk", "approval"}

Evidence(k) ==
  CASE k = "rebuild" -> [artifact : Artifacts, source : Sources, rebuilt : Artifacts,
                         matched : BOOLEAN, receipt : Receipts]
    [] k = "risk" -> [artifact : Artifacts, source : Sources, policy : Policies, receipt : Receipts,
                      decision : {"Clear", "RequireApproval", "Reject"}]
    [] k = "approval" -> [artifact : Artifacts, source : Sources, policy : Policies,
                          risk_receipt : Receipts, rebuild_receipt : Receipts,
                          decision : {"Approved", "Rejected"}]

Admission ==
  LET Known(k) == {<<>>} \cup {<<e>> : e \in Evidence(k)}
  IN  [state : STRING, artifact : Artifacts, source : Sources, policy : Policies,
       rebuild : Known("rebuild"), risk : Known("risk"), approval : Known("approval")]

Outcome(decision, reason) == [decision |-> decision, reason |-> reason]
reject(reason) == Outcome("Reject", reason)
Publishable == Outcome("Publishable", "AllRequiredEvidenceBound")

(* The evidence is about the very artifact, source and policy asked about. *)
Agree(e, r, fields) == \A f \in fields : e[f] = r[f]
rebuild_matches_request(e, r) == Agree(e, r, {"artifact", "source"})
risk_matches_request(e, r) == Agree(e, r, {"artifact", "source", "policy"})
bindings_match_request(e, r) == Agree(e, r, {"artifact", "source", "policy"})

(* Mutant: an approval counts whichever receipts it was given for.         *)
AnyReceipt(approval, rebuild, risk) == TRUE

BoundToReceipts(approval, rebuild, risk) ==
  approval.risk_receipt = risk.receipt /\ approval.rebuild_receipt = rebuild.receipt

evaluate_approval(r) ==
  IF r.approval = <<>> THEN Outcome("PendingApproval", "MissingApproval")
  ELSE LET a == r.approval[1]
       IN  IF ~bindings_match_request(a, r) \/ ~BoundToReceipts(a, r.rebuild[1], r.risk[1])
           THEN reject("ApprovalIdentityMismatch")
           ELSE IF a.decision # "Approved" THEN reject("ApprovalRejected") ELSE Publishable

(* validate_risk and what evaluate makes of the risk decision.             *)
validate_risk(r) ==
  IF r.risk = <<>> THEN Outcome("Quarantine", "MissingRiskEvidence")
  ELSE IF ~risk_matches_request(r.risk[1], r) THEN reject("RiskIdentityMismatch")
  ELSE CASE r.risk[1].decision = "Reject" -> reject("RiskRejected")
         [] r.risk[1].decision = "RequireApproval" -> evaluate_approval(r)
         [] r.risk[1].decision = "Clear" -> Publishable

validate_rebuild(r) ==
  IF r.rebuild = <<>> THEN Outcome("Quarantine", "MissingRebuildEvidence")
  ELSE LET e == r.rebuild[1]
       IN  IF ~rebuild_matches_request(e, r) THEN reject("RebuildIdentityMismatch")
           ELSE IF ~e.matched \/ e.rebuilt # r.artifact THEN reject("RebuildArtifactMismatch")
           ELSE validate_risk(r)

evaluate(r) ==
  IF r.state \notin {"Quarantined", "Evaluated", "PendingApproval"}
  THEN reject("InvalidState") ELSE validate_rebuild(r)

-----------------------------------------------------------------------------
Progress(outcome) ==
  CASE outcome.decision = "Quarantine" -> 0 [] outcome.decision = "PendingApproval" -> 1
    [] OTHER -> 2

(* The evidence admission rests on: an approval only where one is asked.   *)
Relied(r) == IF r.risk[1].decision = "Clear" THEN {"rebuild", "risk"} ELSE Kinds

\* The package once evidence e of kind k is there, or replaces what was.
Given(r, k, e) == [r EXCEPT ![k] = <<e>>]

(***************************************************************************)
(* Evidence may arrive in any order and be replaced by newer evidence.     *)
(* Adding a piece never takes a refusal or an admission back and never     *)
(* goes back to quarantine.  An admission is bound to each piece it relies *)
(* on: replaced by one about anything else, or by one with another receipt *)
(* than was approved, the package is no longer publishable.                *)
(***************************************************************************)
AdmissionIsBound(r) ==
  /\ \A k \in {l \in Kinds : r[l] = <<>>} : \A e \in Evidence(k) :
       LET later == evaluate(Given(r, k, e))
       IN  /\ Progress(evaluate(r)) <= Progress(later)
           /\ Progress(evaluate(r)) = 2 => later = evaluate(r)
  /\ evaluate(r) = Publishable => \A k \in Relied(r) : \A e \in Evidence(k) :
       LET swapped == Given(r, k, e)
           free == IF "approval" \in Relied(r) \cap Relied(swapped)
                   THEN {"decision"} ELSE {"decision", "receipt"}
       IN  evaluate(swapped) = Publishable => Agree(e, r[k][1], DOMAIN e \ free)
====
