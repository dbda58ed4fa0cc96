-------------------------- MODULE PreflightPolicy ---------------------------
(***************************************************************************)
(* Preflight: the policy packs of actenon/preflight/policy_packs.py, the   *)
(* engine that aggregates their rules into one decision, and a caller who  *)
(* answers each decision with the evidence it asks for.                    *)
(*                                                                         *)
(* Evidence, parameters and context are partial functions from keys to     *)
(* values; a key that is not in the domain is absent.  Of strings only the *)
(* distinctions that the rules draw are kept: "no" stands for the          *)
(* spellings that _truthy takes for false, "external" for any destination  *)
(* that _is_external_destination recognises, "*" for a wildcard role.  An  *)
(* intent also carries the pack it is checked with and that pack's options *)
(* (threshold, allow-lists).                                               *)
(***************************************************************************)
EXTENDS Integers, Sequences, FiniteSets

CONSTANTS PreflightIntents,   \* the intents a caller may submit
          Answers,            \* evidence values a caller may have for a key
          SignedSets,         \* the sets of signed approvals a caller may attach
          MaxRounds           \* bound on the number of checks

ASSUME PacksAssumption ==
    \A i \in PreflightIntents :
        i.pack \in {"destructive_data", "data_privacy", "access_governance", "payments",
                    "clinical_template"}

(* A caller who answers has what it is asked for: no blank, no "no", an    *)
(* environment that is known.                                              *)
ASSUME AnswersAssumption ==
    \A values \in Answers :
        /\ \A k \in {"change_ticket", "backup_verified", "destination_allowlisted",
                     "external_egress_approved", "residency_allowed", "payee_verified",
                     "destination_verified"} : values[k] \notin {"", "no"}
        /\ values["capability_classification"] = "non_consequential"
        /\ values["environment"] \notin {"", "unknown"}
        /\ values["sensitivity_classification"] # ""

VARIABLES intent, evidence, signed, decision, rounds

preflightVars == <<intent, evidence, signed, decision, rounds>>

Garbled == -1           \* a value that int() rejects

(***************************************************************************)
(* Reading evidence.                                                       *)
(***************************************************************************)
Get(f, k, default) == IF k \in DOMAIN f THEN f[k] ELSE default

Value(i, e, k, default) ==
    IF k \in DOMAIN e THEN e[k] ELSE Get(i.parameters, k, Get(i.context, k, default))

Truthy(v) == v \notin {"", "no"}

Holds(i, e, k) == Truthy(Value(i, e, k, ""))

(* The first value of a sequence that is not blank.                        *)
FirstGiven(s, blank, default) ==
    LET given == {n \in DOMAIN s : s[n] # blank}
    IN  IF given = {} THEN default ELSE s[CHOOSE n \in given : \A k \in given : n <= k]

Env(i, e) ==
    FirstGiven(<<Get(e, "environment", ""), Get(i.parameters, "environment", ""),
                 i.selectorEnv, Get(i.context, "environment", "")>>, "", "unknown")

HasChangeTicket(i, e) ==
    \E f \in {e, i.parameters, i.context} : Truthy(Get(f, "change_ticket", ""))

HasBackupEvidence(i, e) ==
    \/ \E f \in {e, i.parameters, i.context} : Truthy(Get(f, "backup_verified", ""))
    \/ Truthy(Get(e, "backup_snapshot", ""))

AsInt(v) == IF v = Garbled THEN 0 ELSE v

RowCount(i, e) ==
    AsInt(Get(e, "row_count", Get(i.parameters, "row_count", Get(i.parameters, "records", 0))))

Amount(i, e) == AsInt(Value(i, e, "amount_minor", Value(i, e, "notional_minor", 0)))

Sensitivity(i, e) ==
    FirstGiven(<<Value(i, e, "sensitivity_classification", ""),
                 Value(i, e, "data_classification", ""), Value(i, e, "sensitivity", "")>>, "", "")

External(i, e) ==
    \E k \in {"destination", "destination_classification"} : Value(i, e, k, "") = "external"

(***************************************************************************)
(* Approvals.  Signed approvals are verified before any rule runs; the     *)
(* rules see the types and the identities of the approvers.                *)
(***************************************************************************)
ApprovalPresent(i, e, s) ==
    \/ s # {}
    \/ \E f \in {e, i.parameters, i.context} : Truthy(Get(f, "approval_present", ""))

ApproverTypes(i, e, s) ==
    {a.type : a \in s}
    \cup FirstGiven(<<Get(e, "approver_types", {}), Get(i.parameters, "approver_types", {}),
                      Get(i.context, "approver_types", {})>>, {}, {})

ApprovalSatisfied(i, e, s, required) ==
    /\ ApprovalPresent(i, e, s)
    /\ LET provided == ApproverTypes(i, e, s) IN provided = {} \/ required \subseteq provided

(***************************************************************************)
(* Rules.  A rule returns a result or NoResult.                            *)
(***************************************************************************)
NoResult == [outcome |-> "none", reason |-> "none", risk |-> "low", evidence |-> {}, approvals |-> {}]

Result(outcome, reason, risk, required, approvals) ==
    [outcome |-> outcome, reason |-> reason, risk |-> risk, evidence |-> required, approvals |-> approvals]

NeedsEvidence(reason, risk, keys) == Result("needs_evidence", reason, risk, keys, {})
NeedsApproval(reason, risk, roles) == Result("approval_required", reason, risk, {}, roles)

(* Mutation of Denies: a denial is rated like any other finding.           *)
DeniesMedium(reason) == Result("deny", reason, "medium", {}, {})

Denies(reason) == Result("deny", reason, "critical", {}, {})
Allows(reason) == Result("allow", reason, "low", {}, {})

AskApproval(i, e, s, reason, risk, roles) ==
    IF ApprovalSatisfied(i, e, s, roles) THEN NoResult ELSE NeedsApproval(reason, risk, roles)

BackupCapabilities == {"database.delete", "database.schema.apply", "infrastructure.delete",
                       "backup.delete", "volume.delete", "migration.apply"}

DestructiveCapabilities ==
    BackupCapabilities \cup {"deployment.execute", "iam.permission.grant", "data.export",
                             "payment.release"}

PrivacyCapabilities == {"data.export", "data.download", "data.share", "data.sync.external",
                        "report.generate.external"}

AccessCapabilities == {"iam.permission.grant", "iam.role.assign", "iam.role.membership.change",
                       "iam.api_key.create", "iam.credential.rotate", "workspace.share"}

PaymentCapabilities == {"payment.create", "payment.release", "payment.transfer", "payment.refund",
                        "invoice.approve", "payout.release", "bank_details.update"}

ClinicalCapabilities == {"clinical.note.draft", "clinical.note.publish", "clinical.record.update",
                         "medication.order", "treatment_plan.change"}

PrivilegedRoles == {"admin", "owner", "*"}

(* The default pack.                                                       *)
UnsupportedCapability(i, e) ==
    IF /\ i.capability \notin DestructiveCapabilities
       /\ Get(e, "capability_classification", "") # "non_consequential"
    THEN NeedsEvidence("CAPABILITY_UNCLASSIFIED", "medium", {"capability_classification"})
    ELSE NoResult

MissingChangeTicket(i, e) ==
    IF /\ i.capability \in DestructiveCapabilities
       /\ Env(i, e) = "production"
       /\ ~HasChangeTicket(i, e)
    THEN NeedsEvidence("CHANGE_TICKET_REQUIRED", "high", {"change_ticket"})
    ELSE NoResult

MissingBackupEvidence(i, e) ==
    IF /\ Env(i, e) = "production"
       /\ i.capability \in BackupCapabilities
       /\ ~HasBackupEvidence(i, e)
    THEN NeedsEvidence("BACKUP_EVIDENCE_REQUIRED", "high", {"backup_verified"})
    ELSE NoResult

ProductionDestructive(i, e, s) ==
    IF Env(i, e) # "production" THEN NoResult
    ELSE IF i.capability = "backup.delete" THEN Denies("PRODUCTION_BACKUP_DELETE_DENIED")
    ELSE IF i.capability \notin BackupCapabilities THEN NoResult
    ELSE AskApproval(i, e, s, "PRODUCTION_DESTRUCTIVE_APPROVAL_REQUIRED", "critical",
                     {"infrastructure_owner", "security_admin"})

BroadRows == 10000

IsBroadExport(i, e) ==
    /\ i.capability = "data.export"
    /\ \/ RowCount(i, e) >= BroadRows
       \/ Truthy(Get(e, "sensitive_data", Get(i.parameters, "sensitive_data", "")))
       \/ External(i, e)

BroadDataExport(i, e, s) ==
    IF IsBroadExport(i, e)
    THEN AskApproval(i, e, s, "BROAD_DATA_EXPORT_APPROVAL_REQUIRED", "high",
                     {"data_owner", "privacy_reviewer"})
    ELSE NoResult

GrantsAdmin(i, e) ==
    /\ i.capability = "iam.permission.grant"
    /\ Get(e, "role", Get(i.parameters, "role", Get(i.parameters, "permission", "")))
           \in PrivilegedRoles

AdminPermissionGrant(i, e, s) ==
    IF GrantsAdmin(i, e)
    THEN AskApproval(i, e, s, "ADMIN_PERMISSION_APPROVAL_REQUIRED", "high", {"security_admin"})
    ELSE NoResult

SandboxAllow(i, e) ==
    IF Env(i, e) = "staging" THEN Allows("SANDBOX_LOW_RISK_ALLOWED") ELSE NoResult

DefaultDecision(i, e) ==
    IF Env(i, e) = "unknown" THEN NeedsEvidence("CONTEXT_REQUIRED", "medium", {"environment"})
    ELSE Allows("REQUIREMENTS_SATISFIED")

(* The domain packs: coverage of the capability first, allow last.         *)
NotCovered(i, capabilities) ==
    IF i.capability \in capabilities THEN NoResult
    ELSE NeedsEvidence("CAPABILITY_NOT_COVERED", "medium", {"policy_pack_selection"})

Satisfied == Allows("REQUIREMENTS_SATISFIED")

ClassificationRequired(i, e) ==
    IF /\ i.capability \in PrivacyCapabilities
       /\ Sensitivity(i, e) = ""
       /\ ~Holds(i, e, "sensitive_data")
    THEN NeedsEvidence("DATA_CLASSIFICATION_REQUIRED", "medium", {"sensitivity_classification"})
    ELSE NoResult

IsBroadOrSensitive(i, e) ==
    /\ i.capability \in PrivacyCapabilities
    /\ \/ RowCount(i, e) >= i.threshold
       \/ Sensitivity(i, e) \in {"confidential", "restricted", "sensitive", "pii", "phi", "financial"}
       \/ Holds(i, e, "sensitive_data")
       \/ External(i, e)

BroadOrSensitive(i, e, s) ==
    IF IsBroadOrSensitive(i, e)
    THEN AskApproval(i, e, s, "BROAD_DATA_EXPORT_APPROVAL_REQUIRED", "high",
                     {"data_owner", "privacy_reviewer"})
    ELSE NoResult

ExternalDestination(i, e) ==
    IF /\ i.capability \in PrivacyCapabilities
       /\ External(i, e)
       /\ ~(i.allowsExternal \/ Holds(i, e, "destination_allowlisted")
                             \/ Holds(i, e, "external_egress_approved"))
    THEN NeedsEvidence("EXTERNAL_EGRESS_EVIDENCE_REQUIRED", "high",
                       {"destination_allowlisted", "external_egress_approved"})
    ELSE NoResult

Residency(i, e) ==
    LET source == Value(i, e, "source_residency", "")
        destination == Value(i, e, "destination_residency", "")
    IN  IF /\ i.capability \in PrivacyCapabilities
           /\ source # "" /\ destination # "" /\ source # destination
           /\ <<source, destination>> \notin i.allowedResidency
           /\ ~Holds(i, e, "residency_allowed")
        THEN NeedsEvidence("RESIDENCY_EVIDENCE_REQUIRED", "high", {"residency_allowed"})
        ELSE NoResult

IsPrivileged(i, e) ==
    /\ i.capability \in AccessCapabilities
    /\ \/ FirstGiven(<<Value(i, e, "role", ""), Value(i, e, "permission", "")>>, "", "")
              \in PrivilegedRoles
       \/ Value(i, e, "role_tier", "") \in {"admin", "privileged", "critical"}
       \/ Value(i, e, "access_mode", "jit") = "standing"

PrivilegedAccess(i, e, s) ==
    IF IsPrivileged(i, e)
    THEN AskApproval(i, e, s, "PRIVILEGED_ACCESS_APPROVAL_REQUIRED", "high",
                     {"security_admin", "resource_owner"})
    ELSE NoResult

(* The identities read are those the caller lists under approver_ids; the  *)
(* verified_approver_ids of signed approvals are not read.                 *)
SelfApproved(i, e, s) ==
    \/ i.requester \in Value(i, e, "approver_ids", {})
    \/ Holds(i, e, "requester_is_approver")

SeparationOfDuties(i, e, s) ==
    IF /\ i.capability \in AccessCapabilities
       /\ ApprovalPresent(i, e, s)
       /\ SelfApproved(i, e, s)
    THEN Denies("SEPARATION_OF_DUTIES_VIOLATION")
    ELSE NoResult

DestinationChanged(i, e) ==
    i.capability = "bank_details.update" \/ Holds(i, e, "destination_changed")

IsNotablePayment(i, e) ==
    /\ i.capability \in PaymentCapabilities
    /\ \/ Amount(i, e) >= i.threshold
       \/ Holds(i, e, "new_payee")
       \/ DestinationChanged(i, e)

PaymentApproval(i, e, s) ==
    IF IsNotablePayment(i, e)
    THEN AskApproval(i, e, s, "PAYMENT_APPROVAL_REQUIRED", "high", {"finance_approver"})
    ELSE NoResult

PayeeVerification(i, e) ==
    IF /\ i.capability \in PaymentCapabilities
       /\ Holds(i, e, "new_payee") \/ DestinationChanged(i, e)
       /\ ~(Holds(i, e, "payee_verified") /\ Holds(i, e, "destination_verified"))
    THEN NeedsEvidence("PAYEE_DESTINATION_VERIFICATION_REQUIRED", "high",
                       {"payee_verified", "destination_verified"})
    ELSE NoResult

IsClinicalRisk(i, e) ==
    /\ i.capability \in ClinicalCapabilities
    /\ \/ i.capability \in {"medication.order", "treatment_plan.change", "clinical.note.publish"}
       \/ Value(i, e, "clinical_risk", "") \in {"high", "critical"}

ClinicalReview(i, e, s) ==
    IF IsClinicalRisk(i, e)
    THEN AskApproval(i, e, s, "CLINICAL_REVIEW_REQUIRED", "high", {"licensed_clinician"})
    ELSE NoResult

DestructiveActionsPack(i, e, s) ==
    <<UnsupportedCapability(i, e), MissingChangeTicket(i, e), MissingBackupEvidence(i, e),
      ProductionDestructive(i, e, s), BroadDataExport(i, e, s), AdminPermissionGrant(i, e, s),
      SandboxAllow(i, e), DefaultDecision(i, e)>>

DataPrivacyPack(i, e, s) ==
    <<NotCovered(i, PrivacyCapabilities), ClassificationRequired(i, e), BroadOrSensitive(i, e, s),
      ExternalDestination(i, e), Residency(i, e), Satisfied>>

AccessGovernancePack(i, e, s) ==
    <<NotCovered(i, AccessCapabilities), SeparationOfDuties(i, e, s), PrivilegedAccess(i, e, s),
      Satisfied>>

PaymentsPack(i, e, s) ==
    <<NotCovered(i, PaymentCapabilities), PaymentApproval(i, e, s), PayeeVerification(i, e),
      Satisfied>>

ClinicalPack(i, e, s) ==
    <<NotCovered(i, ClinicalCapabilities), ClinicalReview(i, e, s), Satisfied>>

Rules(i, e, s) ==
    CASE i.pack = "destructive_data" -> DestructiveActionsPack(i, e, s)
      [] i.pack = "data_privacy" -> DataPrivacyPack(i, e, s)
      [] i.pack = "access_governance" -> AccessGovernancePack(i, e, s)
      [] i.pack = "payments" -> PaymentsPack(i, e, s)
      [] i.pack = "clinical_template" -> ClinicalPack(i, e, s)

(***************************************************************************)
(* The engine.                                                             *)
(***************************************************************************)
RiskPriority == [low |-> 1, medium |-> 2, high |-> 3, critical |-> 4]

(* Mutation of OutcomePriority: evidence is asked for before approval.     *)
OutcomePrioritySwapped == [allow |-> 1, approval_required |-> 2, needs_evidence |-> 3, deny |-> 4]

OutcomePriority == [allow |-> 1, needs_evidence |-> 2, approval_required |-> 3, deny |-> 4]

(* _result_priority: by risk, then by outcome; ties go to the earlier rule.*)
Outranks(r, q) ==
    \/ RiskPriority[r.risk] > RiskPriority[q.risk]
    \/ /\ RiskPriority[r.risk] = RiskPriority[q.risk]
       /\ OutcomePriority[r.outcome] > OutcomePriority[q.outcome]

(* Of the rules at the given positions, the one that decides.              *)
Selected(rules, candidates) ==
    rules[CHOOSE n \in candidates :
        \A k \in candidates :
            k # n => \/ Outranks(rules[n], rules[k])
                     \/ n < k /\ ~Outranks(rules[k], rules[n])]

(* The positions of the rules that return a result, and of those that      *)
(* block.                                                                  *)
Returned(rules) == {n \in DOMAIN rules : rules[n] # NoResult}

Blockers(rules) == {n \in Returned(rules) : rules[n].outcome # "allow"}

(* What a decision asks of its caller, over all the rules that block.      *)
UniqueEvidence(rules) == UNION {rules[n].evidence : n \in Blockers(rules)}

UniqueApprovals(rules) == UNION {rules[n].approvals : n \in Blockers(rules)}

RequirementsFrom(rules) == {rules[n].reason : n \in Blockers(rules)}

Undecided == [outcome |-> "none", reason |-> "none", evidence |-> {}, approvals |-> {}, unmet |-> {}]

(* Of what blocks, the governing rule decides; if nothing does, the rules  *)
(* that allow.                                                             *)
Governing(rules) ==
    Selected(rules, IF Blockers(rules) # {} THEN Blockers(rules) ELSE Returned(rules))

(* Mutation of Check: only the governing requirement is reported.          *)
CheckGoverningOnly(i, e, s) ==
    LET rules == Rules(i, e, s)
        selected == Governing(rules)
    IN  [outcome |-> selected.outcome, reason |-> selected.reason, evidence |-> selected.evidence,
         approvals |-> selected.approvals, unmet |-> {selected.reason} \cap RequirementsFrom(rules)]

(* check: what the rules return, aggregated.                               *)
Check(i, e, s) ==
    LET rules == Rules(i, e, s)
        selected == Governing(rules)
    IN  [outcome |-> selected.outcome, reason |-> selected.reason,
         evidence |-> UniqueEvidence(rules), approvals |-> UniqueApprovals(rules),
         unmet |-> RequirementsFrom(rules)]

(***************************************************************************)
(* A caller submits an intent and answers decisions until it is allowed or *)
(* denied.  verify_approval_artifact raises for a signed approval that is  *)
(* not valid for this intent, and no decision is made.                     *)
(***************************************************************************)
ApprovalsVerified(s) == \A a \in s : a.valid

Raised == [Undecided EXCEPT !.outcome = "raised"]

PreflightInit ==
    /\ intent \in PreflightIntents
    /\ signed \in SignedSets
    /\ evidence = <<>>
    /\ decision = Undecided
    /\ rounds = 0

CheckIntent ==
    /\ decision = Undecided
    /\ rounds < MaxRounds
    /\ decision' = IF ApprovalsVerified(signed) THEN Check(intent, evidence, signed) ELSE Raised
    /\ rounds' = rounds + 1
    /\ UNCHANGED <<intent, evidence, signed>>

(* What is asked for joins the evidence, replacing what stood there.       *)
Answered(keys, roles, values, ids) ==
    LET approvals == IF roles = {} THEN <<>>
                     ELSE [approval_present |-> "yes", approver_ids |-> ids,
                           approver_types |-> roles \cup Get(evidence, "approver_types", {})]
    IN  [k \in DOMAIN evidence \cup keys \cup DOMAIN approvals |->
            IF k \in DOMAIN approvals THEN approvals[k]
            ELSE IF k \in keys THEN values[k] ELSE evidence[k]]

AnswerDecision ==
    /\ decision.outcome \in {"needs_evidence", "approval_required"}
    /\ \E values \in Answers, ids \in {{}, {intent.requester}, {"reviewer"}} :
          evidence' = Answered(decision.evidence, decision.approvals, values, ids)
    /\ decision' = Undecided
    /\ UNCHANGED <<intent, signed, rounds>>

PreflightNext == CheckIntent \/ AnswerDecision

PreflightSpec == PreflightInit /\ [][PreflightNext]_preflightVars

(***************************************************************************)
(* Properties.                                                             *)
(***************************************************************************)
Results == LET r == Rules(intent, evidence, signed) IN {r[n] : n \in DOMAIN r} \ {NoResult}

HasDecision == decision.outcome \notin {"none", "raised"}

(* Whatever else a pack finds, one rule that denies makes the decision a   *)
(* denial, although the engine ranks by risk before it ranks by outcome.   *)
OneDenialDenies ==
    HasDecision /\ (\E r \in Results : r.outcome = "deny") => decision.outcome = "deny"

(* The capabilities a pack has rules for; the default pack classifies the  *)
(* others first.                                                           *)
Covered(i) ==
    /\ i.pack = "data_privacy" => i.capability \in PrivacyCapabilities
    /\ i.pack = "access_governance" => i.capability \in AccessCapabilities
    /\ i.pack = "payments" => i.capability \in PaymentCapabilities
    /\ i.pack = "clinical_template" => i.capability \in ClinicalCapabilities

(* A decision names every requirement that is unmet, so a caller who       *)
(* answers in full needs at most two answers: the second one for the rules *)
(* that only the first one made applicable.                                *)
AnsweredInTwoRounds ==
    rounds > 2 /\ HasDecision /\ Covered(intent) => decision.outcome \in {"allow", "deny"}

(* The approval for a broad export governs the decision of the privacy     *)
(* pack, also when egress or residency evidence is missing as well.        *)
ExportApprovalGoverns ==
    "BROAD_DATA_EXPORT_APPROVAL_REQUIRED" \in decision.unmet /\ intent.pack = "data_privacy"
        => decision.reason = "BROAD_DATA_EXPORT_APPROVAL_REQUIRED"

(* In a preflight one rule that denies decides, although the engine ranks  *)
(* risk before outcome; the approval of a broad export governs the privacy *)
(* pack; and a caller who answers in full what a decision asks for is done *)
(* after two rounds (PreflightEngine.check and the packs).                 *)
DenyDominates == OneDenialDenies /\ AnsweredInTwoRounds /\ ExportApprovalGoverns
=============================================================================
