-------------------------- MODULE PreflightProofs ---------------------------
(***************************************************************************)
(* The preflight engine, for any intents of the packs, any answers and any *)
(* number of rounds: one denial denies, a caller who answers in full is    *)
(* done after two answers, and the approval of a broad export governs the  *)
(* privacy pack.                                                           *)
(***************************************************************************)
EXTENDS PreflightPolicy, WellFoundedInduction, TLAPS

(* A set of numbers that is not empty has a least element.                 *)
LEMMA LeastOfNumbers ==
    ASSUME NEW S \in SUBSET Nat, S # {}
    PROVE  \E i \in S : \A j \in S : i <= j
  <1> DEFINE R == OpToRel(<, Nat)
  <1>1. \A x, y \in Nat : <<y, x>> \in R <=> y < x
    BY DEF OpToRel
  <1>2. IsWellFoundedOn(R, Nat)
    BY NatLessThanWellFounded
  <1> HIDE DEF R
  <1>3. PICK x \in S : \A y \in S : ~(<<y, x>> \in R)
    BY Zenon, <1>2, WFMin
  <1>4. ASSUME NEW j \in S PROVE x <= j
    <2>1. ~(j < x)
      BY Zenon, <1>1, <1>3
    <2>2. QED
      BY <2>1
  <1>5. QED
    BY <1>4

(***************************************************************************)
(* Preflight: the rule that governs, and what a full answer leaves open.   *)
(***************************************************************************)
Risks == {"low", "medium", "high", "critical"}

Outcomes == {"allow", "needs_evidence", "approval_required", "deny"}

(* A denial is rated critical, and who allows asks for nothing.            *)
WellRated(r) == /\ r.risk \in Risks
                /\ r.outcome \in Outcomes
                /\ r.outcome = "deny" => r.risk = "critical"
                /\ r.outcome = "allow" => r.evidence = {} /\ r.approvals = {}

Best(rules, candidates, n) ==
    \A k \in candidates :
        k # n => \/ Outranks(rules[n], rules[k])
                 \/ n < k /\ ~Outranks(rules[k], rules[n])

LEMMA Priorities ==
    /\ \A x \in Risks : RiskPriority[x] \in 1..4
    /\ \A x \in Outcomes : OutcomePriority[x] \in 1..4
    /\ \A x \in Risks : RiskPriority[x] >= 4 => x = "critical"
    /\ \A x \in Outcomes : OutcomePriority[x] >= 4 => x = "deny"
  BY DEF Risks, Outcomes, RiskPriority, OutcomePriority

(* max() finds a result in every list that is not empty.                   *)
LEMMA BestExists ==
    ASSUME NEW rules, NEW candidates \in SUBSET (1..8), candidates # {},
           \A n \in candidates : WellRated(rules[n])
    PROVE  \E n \in candidates : Selected(rules, candidates) = rules[n] /\ Best(rules, candidates, n)
  <1> DEFINE R(n) == RiskPriority[rules[n].risk]
             O(n) == OutcomePriority[rules[n].outcome]
             Key(n) == 9 * (20 - (4 * R(n) + O(n))) + n
             S == {Key(n) : n \in candidates}
  <1>1. \A n \in candidates : R(n) \in 1..4 /\ O(n) \in 1..4
    BY Zenon, Priorities DEF WellRated
  <1>2. \A n, k \in candidates : Outranks(rules[n], rules[k])
            <=> (R(n) > R(k) \/ (R(n) = R(k) /\ O(n) > O(k)))
    BY Zenon DEF Outranks
  <1> HIDE DEF R, O
  <1>3. S \in SUBSET Nat /\ S # {}
    BY <1>1
  <1>4. PICK x \in S : \A y \in S : x <= y
    BY Zenon, <1>3, LeastOfNumbers
  <1>5. PICK n \in candidates : x = Key(n)
    BY <1>4
  <1>6. ASSUME NEW k \in candidates, k # n
        PROVE  Outranks(rules[n], rules[k]) \/ (n < k /\ ~Outranks(rules[k], rules[n]))
    <2>1. Key(n) <= Key(k)
      BY Zenon, <1>4, <1>5
    <2>2. R(n) \in 1..4 /\ O(n) \in 1..4 /\ R(k) \in 1..4 /\ O(k) \in 1..4 /\ n \in 1..8 /\ k \in 1..8
      BY <1>1
    <2>3. (R(n) > R(k) \/ (R(n) = R(k) /\ O(n) > O(k)))
          \/ (n < k /\ ~(R(k) > R(n) \/ (R(k) = R(n) /\ O(k) > O(n))))
      BY <2>1, <2>2, <1>6
    <2>4. QED
      BY Zenon, <1>2, <2>3
  <1>7. Best(rules, candidates, n)
    BY Zenon, <1>6 DEF Best
  <1> DEFINE m == CHOOSE p \in candidates : Best(rules, candidates, p)
  <1>8. m \in candidates /\ Best(rules, candidates, m)
    BY Zenon, <1>7
  <1>9. Selected(rules, candidates) = rules[m]
    BY Zenon DEF Selected, Best
  <1>10. QED
    BY Zenon, <1>8, <1>9

(* Every result a rule returns is well rated.                              *)
RuleResult(r) == r = NoResult \/ WellRated(r)

LEMMA Ratings ==
    /\ \A reason, keys : RuleResult(NeedsEvidence(reason, "medium", keys))
                         /\ RuleResult(NeedsEvidence(reason, "high", keys))
    /\ \A reason, roles : RuleResult(NeedsApproval(reason, "high", roles))
                          /\ RuleResult(NeedsApproval(reason, "critical", roles))
    /\ \A reason : RuleResult(Denies(reason)) /\ RuleResult(Allows(reason))
    /\ RuleResult(NoResult)
  BY DEF RuleResult, WellRated, Risks, Outcomes, NeedsEvidence, NeedsApproval, Denies, Allows, Result

(* The rules one by one: what each returns when it blocks.                 *)
LEMMA DefaultRules ==
    ASSUME NEW i, NEW e, NEW s
    PROVE  /\ RuleResult(UnsupportedCapability(i, e)) /\ RuleResult(MissingChangeTicket(i, e))
           /\ RuleResult(MissingBackupEvidence(i, e)) /\ RuleResult(ProductionDestructive(i, e, s))
           /\ RuleResult(BroadDataExport(i, e, s)) /\ RuleResult(AdminPermissionGrant(i, e, s))
           /\ RuleResult(SandboxAllow(i, e)) /\ RuleResult(DefaultDecision(i, e))
  <1>1. RuleResult(UnsupportedCapability(i, e)) /\ RuleResult(MissingChangeTicket(i, e))
    BY Zenon, Ratings DEF UnsupportedCapability, MissingChangeTicket
  <1>2. RuleResult(MissingBackupEvidence(i, e)) /\ RuleResult(ProductionDestructive(i, e, s))
    BY Zenon, Ratings DEF MissingBackupEvidence, ProductionDestructive, AskApproval
  <1>3. RuleResult(BroadDataExport(i, e, s)) /\ RuleResult(AdminPermissionGrant(i, e, s))
    BY Zenon, Ratings DEF BroadDataExport, AdminPermissionGrant, AskApproval
  <1>4. RuleResult(SandboxAllow(i, e)) /\ RuleResult(DefaultDecision(i, e))
    BY Zenon, Ratings DEF SandboxAllow, DefaultDecision
  <1>5. QED
    BY Zenon, <1>1, <1>2, <1>3, <1>4

LEMMA DomainRules ==
    ASSUME NEW i, NEW e, NEW s
    PROVE  /\ \A c : RuleResult(NotCovered(i, c))
           /\ RuleResult(Satisfied)
           /\ RuleResult(ClassificationRequired(i, e)) /\ RuleResult(BroadOrSensitive(i, e, s))
           /\ RuleResult(ExternalDestination(i, e)) /\ RuleResult(Residency(i, e))
           /\ RuleResult(SeparationOfDuties(i, e, s)) /\ RuleResult(PrivilegedAccess(i, e, s))
           /\ RuleResult(PaymentApproval(i, e, s)) /\ RuleResult(PayeeVerification(i, e))
           /\ RuleResult(ClinicalReview(i, e, s))
  <1>1. (\A c : RuleResult(NotCovered(i, c))) /\ RuleResult(Satisfied)
    BY Zenon, Ratings DEF NotCovered, Satisfied
  <1>2. RuleResult(ClassificationRequired(i, e)) /\ RuleResult(BroadOrSensitive(i, e, s))
    BY Zenon, Ratings DEF ClassificationRequired, BroadOrSensitive, AskApproval
  <1>3. RuleResult(ExternalDestination(i, e)) /\ RuleResult(Residency(i, e))
    BY Zenon, Ratings DEF ExternalDestination, Residency
  <1>4. RuleResult(SeparationOfDuties(i, e, s)) /\ RuleResult(PrivilegedAccess(i, e, s))
    BY Zenon, Ratings DEF SeparationOfDuties, PrivilegedAccess, AskApproval
  <1>5. RuleResult(PaymentApproval(i, e, s)) /\ RuleResult(PayeeVerification(i, e))
    BY Zenon, Ratings DEF PaymentApproval, PayeeVerification, AskApproval
  <1>6. RuleResult(ClinicalReview(i, e, s))
    BY Zenon, Ratings DEF ClinicalReview, AskApproval
  <1>7. QED
    BY Zenon, <1>1, <1>2, <1>3, <1>4, <1>5, <1>6

(* The last rule of a pack always returns something.                       *)
LEMMA LastReturns ==
    ASSUME NEW i, NEW e
    PROVE  DefaultDecision(i, e) # NoResult /\ Satisfied # NoResult
  BY DEF DefaultDecision, Satisfied, NeedsEvidence, Allows, Result, NoResult

LEMMA RulesRated ==
    ASSUME NEW i \in PreflightIntents, NEW e, NEW s
    PROVE  /\ DOMAIN Rules(i, e, s) \in SUBSET (1..8)
           /\ \A n \in DOMAIN Rules(i, e, s) : RuleResult(Rules(i, e, s)[n])
           /\ Returned(Rules(i, e, s)) # {}
  <1>1. CASE i.pack = "destructive_data"
    <2>1. Rules(i, e, s) = DestructiveActionsPack(i, e, s)
      BY <1>1 DEF Rules
    <2>2. QED
      BY <2>1, DefaultRules, LastReturns DEF DestructiveActionsPack, Returned
  <1>2. CASE i.pack = "data_privacy"
    <2>1. Rules(i, e, s) = DataPrivacyPack(i, e, s)
      BY <1>2 DEF Rules
    <2>2. QED
      BY <2>1, DomainRules, LastReturns DEF DataPrivacyPack, Returned
  <1>3. CASE i.pack = "access_governance"
    <2>1. Rules(i, e, s) = AccessGovernancePack(i, e, s)
      BY <1>3 DEF Rules
    <2>2. QED
      BY <2>1, DomainRules, LastReturns DEF AccessGovernancePack, Returned
  <1>4. CASE i.pack = "payments"
    <2>1. Rules(i, e, s) = PaymentsPack(i, e, s)
      BY <1>4 DEF Rules
    <2>2. QED
      BY <2>1, DomainRules, LastReturns DEF PaymentsPack, Returned
  <1>5. CASE i.pack = "clinical_template"
    <2>1. Rules(i, e, s) = ClinicalPack(i, e, s)
      BY <1>5 DEF Rules
    <2>2. QED
      BY <2>1, DomainRules, LastReturns DEF ClinicalPack, Returned
  <1>6. QED
    BY <1>1, <1>2, <1>3, <1>4, <1>5, PacksAssumption

(* The rule that governs a decision is the best of those that block or, if *)
(* none does, one that allows.                                             *)
LEMMA GoverningRule ==
    ASSUME NEW i \in PreflightIntents, NEW e, NEW s
    PROVE  /\ Blockers(Rules(i, e, s)) # {} =>
                  \E n \in Blockers(Rules(i, e, s)) :
                      /\ Governing(Rules(i, e, s)) = Rules(i, e, s)[n]
                      /\ Best(Rules(i, e, s), Blockers(Rules(i, e, s)), n)
           /\ Blockers(Rules(i, e, s)) = {} => Governing(Rules(i, e, s)).outcome = "allow"
           /\ WellRated(Governing(Rules(i, e, s)))
           /\ \A n \in Blockers(Rules(i, e, s)) : WellRated(Rules(i, e, s)[n])
  <1> DEFINE rules == Rules(i, e, s)
  <1>1. /\ DOMAIN rules \in SUBSET (1..8)
        /\ \A n \in DOMAIN rules : RuleResult(rules[n])
        /\ Returned(rules) # {}
    BY Zenon, RulesRated
  <1> HIDE DEF rules
  <1>2. Blockers(rules) \in SUBSET (1..8) /\ Returned(rules) \in SUBSET (1..8)
    BY Zenon, <1>1 DEF Blockers, Returned
  <1>3. \A n \in Returned(rules) : WellRated(rules[n])
    BY Zenon, <1>1 DEF Returned, RuleResult
  <1>4. \A n \in Blockers(rules) : WellRated(rules[n])
    BY Zenon, <1>3 DEF Blockers
  <1>5. CASE Blockers(rules) # {}
    <2>1. Governing(rules) = Selected(rules, Blockers(rules))
      BY Zenon, <1>5 DEF Governing
    <2>2. \E n \in Blockers(rules) :
              Selected(rules, Blockers(rules)) = rules[n] /\ Best(rules, Blockers(rules), n)
      BY Zenon, <1>2, <1>4, <1>5, BestExists
    <2>3. QED
      BY Zenon, <1>4, <1>5, <2>1, <2>2 DEF rules
  <1>6. CASE Blockers(rules) = {}
    <2>1. Governing(rules) = Selected(rules, Returned(rules))
      BY Zenon, <1>6 DEF Governing
    <2>2. PICK n \in Returned(rules) : Selected(rules, Returned(rules)) = rules[n]
      BY Zenon, <1>1, <1>2, <1>3, BestExists
    <2>3. rules[n].outcome = "allow"
      BY Zenon, <1>6, <2>2 DEF Blockers
    <2>4. QED
      BY Zenon, <1>3, <1>4, <1>6, <2>1, <2>2, <2>3 DEF rules
  <1>7. QED
    BY Zenon, <1>5, <1>6

(* A rule that denies blocks, and is outranked by a denial only.           *)
LEMMA DenialGoverns ==
    ASSUME NEW i \in PreflightIntents, NEW e, NEW s,
           NEW d \in DOMAIN Rules(i, e, s), Rules(i, e, s)[d].outcome = "deny"
    PROVE  Check(i, e, s).outcome = "deny"
  <1> DEFINE rules == Rules(i, e, s)
  <1>1. rules[d] # NoResult /\ rules[d].outcome # "allow"
    BY DEF NoResult
  <1>2. d \in Blockers(rules)
    BY Zenon, <1>1 DEF Blockers, Returned
  <1>3. PICK n \in Blockers(rules) : Governing(rules) = rules[n] /\ Best(rules, Blockers(rules), n)
    BY Zenon, <1>2, GoverningRule
  <1>4. WellRated(rules[d]) /\ WellRated(rules[n])
    BY Zenon, <1>2, <1>3, GoverningRule
  <1>5. rules[d].risk = "critical" /\ rules[d].outcome = "deny"
    BY Zenon, <1>4 DEF WellRated
  <1>6. n # d => Outranks(rules[n], rules[d]) \/ ~Outranks(rules[d], rules[n])
    BY Zenon, <1>2, <1>3 DEF Best
  <1>7. Check(i, e, s).outcome = rules[n].outcome
    BY <1>3 DEF Check
  <1> HIDE DEF rules
  <1> DEFINE a == rules[n]
             b == rules[d]
  <1>8. a.risk \in Risks /\ a.outcome \in Outcomes
    BY Zenon, <1>4 DEF WellRated
  <1>9. (Outranks(a, b) \/ ~Outranks(b, a)) => a.outcome = "deny"
    <2> HIDE DEF a, b
    <2>1. b.risk = "critical" /\ b.outcome = "deny"
      BY <1>5 DEF b
    <2>2. RiskPriority[b.risk] = 4 /\ OutcomePriority[b.outcome] = 4
      BY <2>1 DEF RiskPriority, OutcomePriority
    <2>3. RiskPriority[a.risk] \in 1..4 /\ OutcomePriority[a.outcome] \in 1..4
      BY <1>8, Priorities
    <2>4. OutcomePriority[a.outcome] >= 4 => a.outcome = "deny"
      BY <1>8, Priorities
    <2>5. QED
      BY <2>2, <2>3, <2>4 DEF Outranks
  <1>10. QED
    BY <1>5, <1>6, <1>7, <1>9

LEMMA ResultFields ==
    /\ \A reason, risk, keys :
          /\ NeedsEvidence(reason, risk, keys).outcome = "needs_evidence"
          /\ NeedsEvidence(reason, risk, keys).reason = reason
          /\ NeedsEvidence(reason, risk, keys).risk = risk
          /\ NeedsEvidence(reason, risk, keys).evidence = keys
          /\ NeedsEvidence(reason, risk, keys).approvals = {}
    /\ \A reason, risk, roles :
          /\ NeedsApproval(reason, risk, roles).outcome = "approval_required"
          /\ NeedsApproval(reason, risk, roles).reason = reason
          /\ NeedsApproval(reason, risk, roles).risk = risk
          /\ NeedsApproval(reason, risk, roles).evidence = {}
          /\ NeedsApproval(reason, risk, roles).approvals = roles
    /\ NoResult.evidence = {} /\ NoResult.approvals = {}
    /\ \A reason : Denies(reason).outcome = "deny" /\ Denies(reason).evidence = {}
                   /\ Denies(reason).approvals = {}
    /\ \A reason : Allows(reason).outcome = "allow" /\ Allows(reason).evidence = {}
                   /\ Allows(reason).approvals = {}
  BY DEF NeedsEvidence, NeedsApproval, NoResult, Denies, Allows, Result

(* In the privacy pack nothing outranks the approval of a broad export.    *)
LEMMA ExportGoverns ==
    ASSUME NEW i \in PreflightIntents, NEW e, NEW s, i.pack = "data_privacy",
           "BROAD_DATA_EXPORT_APPROVAL_REQUIRED" \in Check(i, e, s).unmet
    PROVE  Check(i, e, s).reason = "BROAD_DATA_EXPORT_APPROVAL_REQUIRED"
  <1> DEFINE rules == Rules(i, e, s)
             broad == "BROAD_DATA_EXPORT_APPROVAL_REQUIRED"
  <1>1. rules = DataPrivacyPack(i, e, s)
    BY DEF Rules
  <1>2. /\ DOMAIN rules = 1..6
        /\ rules[1] = NotCovered(i, PrivacyCapabilities)
        /\ rules[2] = ClassificationRequired(i, e)
        /\ rules[3] = BroadOrSensitive(i, e, s)
        /\ rules[4] = ExternalDestination(i, e)
        /\ rules[5] = Residency(i, e)
        /\ rules[6] = Satisfied
    BY <1>1 DEF DataPrivacyPack
  <1> HIDE DEF rules
  <1> DEFINE Asks(r, risk) == r # NoResult =>
                 r.risk = risk /\ r.outcome = "needs_evidence" /\ r.reason # broad
  <1>3. Asks(rules[1], "medium") /\ Asks(rules[2], "medium")
    <2>1. \A keys : /\ Asks(NeedsEvidence("CAPABILITY_NOT_COVERED", "medium", keys), "medium")
                    /\ Asks(NeedsEvidence("DATA_CLASSIFICATION_REQUIRED", "medium", keys), "medium")
      BY ResultFields
    <2> HIDE DEF Asks
    <2>2. Asks(NoResult, "medium")
      BY DEF Asks
    <2>3. QED
      BY Zenon, <1>2, <2>1, <2>2 DEF NotCovered, ClassificationRequired
  <1>4. rules[3] # NoResult =>
            rules[3].risk = "high" /\ rules[3].outcome = "approval_required" /\ rules[3].reason = broad
    <2>1. \E roles : rules[3] = NoResult \/ rules[3] = NeedsApproval(broad, "high", roles)
      BY Zenon, <1>2 DEF BroadOrSensitive, AskApproval
    <2>2. QED
      BY <2>1, ResultFields
  <1>5. Asks(rules[4], "high") /\ Asks(rules[5], "high")
    <2>1. \A keys : /\ Asks(NeedsEvidence("EXTERNAL_EGRESS_EVIDENCE_REQUIRED", "high", keys), "high")
                    /\ Asks(NeedsEvidence("RESIDENCY_EVIDENCE_REQUIRED", "high", keys), "high")
      BY ResultFields
    <2> HIDE DEF Asks
    <2>2. Asks(NoResult, "high")
      BY DEF Asks
    <2>3. QED
      BY Zenon, <1>2, <2>1, <2>2 DEF ExternalDestination, Residency
  <1>6. rules[6].outcome = "allow"
    BY <1>2, ResultFields DEF Satisfied
  <1>7. PICK k \in Blockers(rules) : rules[k].reason = broad
    BY Zenon DEF Check, RequirementsFrom, rules
  <1>8. k = 3
    BY <1>2, <1>3, <1>5, <1>6, <1>7 DEF Blockers, Returned
  <1>9. PICK n \in Blockers(rules) : Governing(rules) = rules[n] /\ Best(rules, Blockers(rules), n)
    BY Zenon, <1>7, GoverningRule DEF rules
  <1>10. n # 3 => Outranks(rules[n], rules[3]) \/ (n < 3 /\ ~Outranks(rules[3], rules[n]))
    BY Zenon, <1>7, <1>8, <1>9 DEF Best
  <1>11. rules[3] # NoResult /\ rules[n] # NoResult /\ n \in 1..5
    BY <1>2, <1>6, <1>7, <1>8, <1>9 DEF Blockers, Returned
  <1>12. n = 3
    <2>1. \A m \in {1, 2} : m = n => ~Outranks(rules[m], rules[3]) /\ Outranks(rules[3], rules[m])
      BY <1>3, <1>4, <1>11 DEF Outranks, RiskPriority, OutcomePriority
    <2>2. \A m \in {4, 5} : m = n => ~Outranks(rules[m], rules[3])
      BY <1>4, <1>5, <1>11 DEF Outranks, RiskPriority, OutcomePriority
    <2>3. QED
      BY <1>10, <1>11, <2>1, <2>2
  <1>13. QED
    BY <1>4, <1>9, <1>11, <1>12 DEF Check, rules

(* An answer: whatever was asked for is given, the rest stays as it was.   *)
ApprovalKeys == {"approval_present", "approver_types", "approver_ids"}

Same(e, f, k) == (k \in DOMAIN f <=> k \in DOMAIN e) /\ (k \in DOMAIN e => f[k] = e[k])

AnswersFully(e, f, asked) ==
    /\ \A k : (k \notin asked.evidence /\ (asked.approvals # {} => k \notin ApprovalKeys)) => Same(e, f, k)
    /\ \E values \in Answers :
          \A k \in asked.evidence : k \notin ApprovalKeys => k \in DOMAIN f /\ f[k] = values[k]
    /\ asked.approvals # {} =>
          /\ {"approval_present", "approver_types"} \subseteq DOMAIN f
          /\ f["approval_present"] = "yes" /\ asked.approvals \subseteq f["approver_types"]

LEMMA AnswerIsFull ==
    ASSUME NEW values \in Answers, NEW ids
    PROVE  AnswersFully(evidence, Answered(decision.evidence, decision.approvals, values, ids), decision)
  <1> DEFINE keys == decision.evidence
             roles == decision.approvals
             known == Get(evidence, "approver_types", {})
             f == Answered(keys, roles, values, ids)
  <1>1. CASE roles = {}
    <2>1. f = [k \in DOMAIN evidence \cup keys |-> IF k \in keys THEN values[k] ELSE evidence[k]]
      <3>1. DOMAIN <<>> = {}
        OBVIOUS
      <3>2. QED
        BY <1>1, <3>1 DEF Answered
    <2> HIDE DEF f
    <2>2. \A k : k \notin keys => Same(evidence, f, k)
      BY <2>1 DEF Same
    <2>3. \A k \in keys : k \in DOMAIN f /\ f[k] = values[k]
      BY <2>1
    <2>4. QED
      BY Zenon, <1>1, <2>2, <2>3 DEF AnswersFully, f
  <1>2. CASE roles # {}
    <2> DEFINE given == [approval_present |-> "yes", approver_ids |-> ids,
                         approver_types |-> roles \cup known]
    <2>1. f = [k \in DOMAIN evidence \cup keys \cup DOMAIN given |->
                  IF k \in DOMAIN given THEN given[k] ELSE IF k \in keys THEN values[k] ELSE evidence[k]]
      BY Zenon, <1>2 DEF Answered
    <2>2. /\ DOMAIN given = ApprovalKeys
          /\ given["approval_present"] = "yes" /\ given["approver_types"] = roles \cup known
      BY DEF ApprovalKeys
    <2> HIDE DEF f, given
    <2>3. \A k : k \notin keys /\ k \notin ApprovalKeys => Same(evidence, f, k)
      BY <2>1, <2>2 DEF Same
    <2>4. \A k \in keys : k \notin ApprovalKeys => k \in DOMAIN f /\ f[k] = values[k]
      BY <2>1, <2>2
    <2>5. \A k \in ApprovalKeys : k \in DOMAIN f /\ f[k] = given[k]
      BY <2>1, <2>2
    <2>6. /\ {"approval_present", "approver_types"} \subseteq DOMAIN f
          /\ f["approval_present"] = "yes" /\ roles \subseteq f["approver_types"]
      BY <2>2, <2>5 DEF ApprovalKeys
    <2>7. QED
      BY Zenon, <1>2, <2>3, <2>4, <2>6 DEF AnswersFully, f
  <1>3. QED
    BY Zenon, <1>1, <1>2

LEMMA FirstIsGiven ==
    ASSUME NEW q, NEW blank, NEW default, NEW len \in Nat \ {0}, DOMAIN q = 1..len, q[1] # blank
    PROVE  FirstGiven(q, blank, default) = q[1]
  <1> DEFINE given == {n \in DOMAIN q : q[n] # blank}
  <1>1. 1 \in given /\ given \subseteq 1..len
    OBVIOUS
  <1>2. (CHOOSE n \in given : \A k \in given : n <= k) = 1
    BY <1>1
  <1>3. QED
    BY Zenon, <1>1, <1>2 DEF FirstGiven

(* Everything that is asked for, over all the rules of the pack.           *)
LEMMA AskedByAll ==
    ASSUME NEW i \in PreflightIntents, NEW e, NEW s
    PROVE  LET rules == Rules(i, e, s)
           IN  /\ Check(i, e, s).evidence = UNION {rules[n].evidence : n \in DOMAIN rules}
               /\ Check(i, e, s).approvals = UNION {rules[n].approvals : n \in DOMAIN rules}
  <1> DEFINE rules == Rules(i, e, s)
  <1>1. Check(i, e, s).evidence = UniqueEvidence(rules) /\ Check(i, e, s).approvals = UniqueApprovals(rules)
    BY DEF Check
  <1>2. \A n \in DOMAIN rules : n \notin Blockers(rules) => rules[n].evidence = {} /\ rules[n].approvals = {}
    <2>1. \A n \in DOMAIN rules : RuleResult(rules[n])
      BY Zenon, RulesRated
    <2>2. NoResult.evidence = {} /\ NoResult.approvals = {}
      BY DEF NoResult
    <2>3. QED
      BY Zenon, <2>1, <2>2 DEF Blockers, Returned, RuleResult, WellRated
  <1>3. Blockers(rules) \subseteq DOMAIN rules
    BY Zenon DEF Blockers, Returned
  <1> HIDE DEF rules
  <1>4. UniqueEvidence(rules) = UNION {rules[n].evidence : n \in DOMAIN rules}
    BY <1>2, <1>3 DEF UniqueEvidence
  <1>5. UniqueApprovals(rules) = UNION {rules[n].approvals : n \in DOMAIN rules}
    BY <1>2, <1>3 DEF UniqueApprovals
  <1>6. QED
    BY Zenon, <1>1, <1>4, <1>5 DEF rules

(* An approval that was asked for is there afterwards, and one that was    *)
(* there stays.                                                            *)
LEMMA ApprovalAnswered ==
    ASSUME NEW i, NEW e, NEW f, NEW s, NEW asked, NEW roles, roles # {},
           AnswersFully(e, f, asked), asked.evidence \cap ApprovalKeys = {},
           asked.approvals = (IF ApprovalSatisfied(i, e, s, roles) THEN {} ELSE roles)
    PROVE  ApprovalSatisfied(i, f, s, roles)
  <1>1. CASE ApprovalSatisfied(i, e, s, roles)
    <2>1. Same(e, f, "approval_present") /\ Same(e, f, "approver_types")
      BY <1>1 DEF AnswersFully, ApprovalKeys
    <2>2. /\ Get(f, "approval_present", "") = Get(e, "approval_present", "")
          /\ Get(f, "approver_types", {}) = Get(e, "approver_types", {})
      BY Zenon, <2>1 DEF Same, Get
    <2>3. ApprovalPresent(i, e, s) => ApprovalPresent(i, f, s)
      BY Zenon, <2>2 DEF ApprovalPresent
    <2>4. ApproverTypes(i, f, s) = ApproverTypes(i, e, s)
      BY Zenon, <2>2 DEF ApproverTypes
    <2>5. QED
      BY Zenon, <1>1, <2>3, <2>4 DEF ApprovalSatisfied
  <1>2. CASE ~ApprovalSatisfied(i, e, s, roles)
    <2>1. /\ {"approval_present", "approver_types"} \subseteq DOMAIN f
          /\ f["approval_present"] = "yes" /\ roles \subseteq f["approver_types"]
      BY Zenon, <1>2 DEF AnswersFully
    <2>2. Get(f, "approval_present", "") = "yes" /\ Get(f, "approver_types", {}) = f["approver_types"]
      BY <2>1 DEF Get
    <2>3. Truthy("yes")
      BY DEF Truthy
    <2>4. ApprovalPresent(i, f, s)
      BY Zenon, <2>2, <2>3 DEF ApprovalPresent
    <2> DEFINE q == <<Get(f, "approver_types", {}), Get(i.parameters, "approver_types", {}),
                      Get(i.context, "approver_types", {})>>
    <2>5. DOMAIN q = 1..3 /\ q[1] = Get(f, "approver_types", {}) /\ 3 \in Nat \ {0}
      OBVIOUS
    <2>6. q[1] # {}
      BY <2>1, <2>2, <2>5
    <2>7. FirstGiven(q, {}, {}) = f["approver_types"]
      <3> HIDE DEF q
      <3>1. QED
        BY Zenon, <2>2, <2>5, <2>6, FirstIsGiven
    <2>8. roles \subseteq ApproverTypes(i, f, s)
      BY <2>1, <2>7 DEF ApproverTypes
    <2>9. QED
      BY Zenon, <2>4, <2>8 DEF ApprovalSatisfied
  <1>3. QED
    BY Zenon, <1>1, <1>2

(* What a caller has is what the rules want.                               *)
LEMMA GivenIsGood ==
    ASSUME NEW i, NEW e, NEW f, NEW asked, AnswersFully(e, f, asked)
    PROVE  /\ \A k \in {"change_ticket", "backup_verified", "destination_allowlisted",
                        "external_egress_approved", "residency_allowed", "payee_verified",
                        "destination_verified"} :
                 k \in asked.evidence => Truthy(Get(f, k, "")) /\ Holds(i, f, k)
           /\ "capability_classification" \in asked.evidence =>
                 Get(f, "capability_classification", "") = "non_consequential"
           /\ "environment" \in asked.evidence => Get(f, "environment", "") \notin {"", "unknown"}
           /\ "sensitivity_classification" \in asked.evidence =>
                 Value(i, f, "sensitivity_classification", "") # ""
  <1>1. PICK values \in Answers :
            \A k \in asked.evidence : k \notin ApprovalKeys => k \in DOMAIN f /\ f[k] = values[k]
    BY Zenon DEF AnswersFully
  <1>2. \A k \in asked.evidence : k \notin ApprovalKeys =>
            Get(f, k, "") = values[k] /\ Value(i, f, k, "") = values[k]
    BY Zenon, <1>1 DEF Get, Value
  <1>3. \A k \in {"change_ticket", "backup_verified", "destination_allowlisted",
                  "external_egress_approved", "residency_allowed", "payee_verified",
                  "destination_verified"} : Truthy(values[k])
    BY Zenon, AnswersAssumption DEF Truthy
  <1>4. \A k \in {"change_ticket", "backup_verified", "destination_allowlisted",
                  "external_egress_approved", "residency_allowed", "payee_verified",
                  "destination_verified", "capability_classification", "environment",
                  "sensitivity_classification"} : k \notin ApprovalKeys
    BY DEF ApprovalKeys
  <1>5. /\ values["capability_classification"] = "non_consequential"
        /\ values["environment"] \notin {"", "unknown"}
        /\ values["sensitivity_classification"] # ""
    BY Zenon, AnswersAssumption
  <1>6. ASSUME NEW k \in {"change_ticket", "backup_verified", "destination_allowlisted",
                          "external_egress_approved", "residency_allowed", "payee_verified",
                          "destination_verified"}, k \in asked.evidence
        PROVE  Truthy(Get(f, k, "")) /\ Holds(i, f, k)
    <2>1. k \notin ApprovalKeys
      BY <1>6, <1>4
    <2>2. Get(f, k, "") = values[k] /\ Value(i, f, k, "") = values[k]
      BY Zenon, <1>2, <1>6, <2>1
    <2>3. Truthy(values[k])
      BY Zenon, <1>3, <1>6
    <2>4. QED
      BY Zenon, <2>2, <2>3 DEF Holds
  <1>7. QED
    BY <1>2, <1>4, <1>5, <1>6

(* Nothing blocks but a denial.                                            *)
OnlyDenials(i, e, s) == \A n \in Blockers(Rules(i, e, s)) : Rules(i, e, s)[n].outcome = "deny"

Passes(r) == r = NoResult \/ r.outcome \in {"allow", "deny"}

LEMMA AllPass ==
    ASSUME NEW i, NEW e, NEW s, \A n \in DOMAIN Rules(i, e, s) : Passes(Rules(i, e, s)[n])
    PROVE  OnlyDenials(i, e, s)
  BY Zenon DEF OnlyDenials, Blockers, Returned, Passes

(* What later rules depend on and only a caller knows.                     *)
Settled(i, e) ==
    /\ i.pack = "destructive_data" => Env(i, e) # "unknown"
    /\ i.pack = "data_privacy" => Sensitivity(i, e) # "" \/ Holds(i, e, "sensitive_data")

(* A rule that asks for evidence, for approval, or for nothing.            *)
LEMMA EvidenceForm ==
    ASSUME NEW r, NEW keys, r = NoResult \/ \E reason, risk : r = NeedsEvidence(reason, risk, keys)
    PROVE  r.evidence = (IF r = NoResult THEN {} ELSE keys) /\ r.approvals = {}
  <1>1. CASE r = NoResult
    BY <1>1, ResultFields
  <1>2. CASE r # NoResult
    <2>1. PICK reason, risk : r = NeedsEvidence(reason, risk, keys)
      BY Zenon, <1>2
    <2>2. QED
      BY <1>2, <2>1, ResultFields
  <1>3. QED
    BY Zenon, <1>1, <1>2

LEMMA ApprovalForm ==
    ASSUME NEW r, \/ r = NoResult
                  \/ \E reason : r = Denies(reason)
                  \/ \E reason, risk, roles : r = NeedsApproval(reason, risk, roles)
    PROVE  r.evidence = {}
  BY ResultFields

LEMMA AllowForm ==
    ASSUME NEW r, r = NoResult \/ \E reason : r = Allows(reason)
    PROVE  r.evidence = {} /\ r.approvals = {}
  BY ResultFields

LEMMA AskForm ==
    ASSUME NEW i, NEW e, NEW s, NEW reason, NEW risk, NEW roles
    PROVE  /\ \/ AskApproval(i, e, s, reason, risk, roles) = NoResult
              \/ AskApproval(i, e, s, reason, risk, roles) = NeedsApproval(reason, risk, roles)
           /\ AskApproval(i, e, s, reason, risk, roles).approvals =
                  (IF ApprovalSatisfied(i, e, s, roles) THEN {} ELSE roles)
           /\ ApprovalSatisfied(i, e, s, roles) => AskApproval(i, e, s, reason, risk, roles) = NoResult
  <1>1. CASE ApprovalSatisfied(i, e, s, roles)
    BY <1>1, ResultFields DEF AskApproval
  <1>2. CASE ~ApprovalSatisfied(i, e, s, roles)
    BY <1>2, ResultFields DEF AskApproval
  <1>3. QED
    BY Zenon, <1>1, <1>2

(* The default pack: what each rule asks for.                              *)
LEMMA DefaultAsks ==
    ASSUME NEW i \in PreflightIntents, NEW e, NEW s, i.pack = "destructive_data"
    PROVE  LET asked == Check(i, e, s)
           IN  /\ asked.evidence = UnsupportedCapability(i, e).evidence
                      \cup MissingChangeTicket(i, e).evidence \cup MissingBackupEvidence(i, e).evidence
                      \cup (IF Env(i, e) = "unknown" THEN {"environment"} ELSE {})
               /\ asked.approvals = ProductionDestructive(i, e, s).approvals
                      \cup BroadDataExport(i, e, s).approvals \cup AdminPermissionGrant(i, e, s).approvals
               /\ UnsupportedCapability(i, e).evidence =
                      IF UnsupportedCapability(i, e) = NoResult THEN {} ELSE {"capability_classification"}
               /\ MissingChangeTicket(i, e).evidence =
                      IF MissingChangeTicket(i, e) = NoResult THEN {} ELSE {"change_ticket"}
               /\ MissingBackupEvidence(i, e).evidence =
                      IF MissingBackupEvidence(i, e) = NoResult THEN {} ELSE {"backup_verified"}
  <1> DEFINE u == UnsupportedCapability(i, e)
             c == MissingChangeTicket(i, e)
             b == MissingBackupEvidence(i, e)
             p == ProductionDestructive(i, e, s)
             x == BroadDataExport(i, e, s)
             a == AdminPermissionGrant(i, e, s)
             w == SandboxAllow(i, e)
             d == DefaultDecision(i, e)
             asked == Check(i, e, s)
  <1>1. u = NoResult \/ \E reason, risk : u = NeedsEvidence(reason, risk, {"capability_classification"})
    BY Zenon DEF UnsupportedCapability
  <1>2. c = NoResult \/ \E reason, risk : c = NeedsEvidence(reason, risk, {"change_ticket"})
    BY Zenon DEF MissingChangeTicket
  <1>3. b = NoResult \/ \E reason, risk : b = NeedsEvidence(reason, risk, {"backup_verified"})
    BY Zenon DEF MissingBackupEvidence
  <1>4. \/ p = NoResult \/ \E reason : p = Denies(reason)
        \/ \E reason, risk, roles : p = NeedsApproval(reason, risk, roles)
    BY Zenon DEF ProductionDestructive, AskApproval
  <1>5. x = NoResult \/ \E reason, risk, roles : x = NeedsApproval(reason, risk, roles)
    BY AskForm DEF BroadDataExport
  <1>6. a = NoResult \/ \E reason, risk, roles : a = NeedsApproval(reason, risk, roles)
    BY AskForm DEF AdminPermissionGrant
  <1>7. w = NoResult \/ \E reason : w = Allows(reason)
    BY Zenon DEF SandboxAllow
  <1>8. /\ Env(i, e) = "unknown" => \E reason, risk : d = NeedsEvidence(reason, risk, {"environment"})
        /\ Env(i, e) # "unknown" => \E reason : d = Allows(reason)
    BY Zenon DEF DefaultDecision
  <1>9. Rules(i, e, s) = <<u, c, b, p, x, a, w, d>>
    BY DEF Rules, DestructiveActionsPack
  <1>10. /\ asked.evidence = UNION {<<u, c, b, p, x, a, w, d>>[n].evidence : n \in 1..8}
         /\ asked.approvals = UNION {<<u, c, b, p, x, a, w, d>>[n].approvals : n \in 1..8}
    BY AskedByAll, <1>9
  <1> HIDE DEF u, c, b, p, x, a, w, d, asked
  <1>11. /\ asked.evidence = u.evidence \cup c.evidence \cup b.evidence \cup p.evidence
                \cup x.evidence \cup a.evidence \cup w.evidence \cup d.evidence
         /\ asked.approvals = u.approvals \cup c.approvals \cup b.approvals \cup p.approvals
                \cup x.approvals \cup a.approvals \cup w.approvals \cup d.approvals
    BY <1>10
  <1>12. /\ u.evidence = (IF u = NoResult THEN {} ELSE {"capability_classification"}) /\ u.approvals = {}
         /\ c.evidence = (IF c = NoResult THEN {} ELSE {"change_ticket"}) /\ c.approvals = {}
         /\ b.evidence = (IF b = NoResult THEN {} ELSE {"backup_verified"}) /\ b.approvals = {}
    BY Zenon, <1>1, <1>2, <1>3, EvidenceForm
  <1>13. p.evidence = {} /\ x.evidence = {} /\ a.evidence = {}
    BY Zenon, <1>4, <1>5, <1>6, ApprovalForm
  <1>14. /\ w.evidence = {} /\ w.approvals = {} /\ d.approvals = {}
         /\ d.evidence = (IF Env(i, e) = "unknown" THEN {"environment"} ELSE {})
    <2>1. w.evidence = {} /\ w.approvals = {}
      BY Zenon, <1>7, AllowForm
    <2>2. CASE Env(i, e) = "unknown"
      BY <1>8, <2>1, <2>2, ResultFields
    <2>3. CASE Env(i, e) # "unknown"
      BY Zenon, <1>8, <2>1, <2>3, AllowForm
    <2>4. QED
      BY Zenon, <2>2, <2>3
  <1>15. QED
    BY <1>11, <1>12, <1>13, <1>14 DEF u, c, b, p, x, a, asked

LEMMA DefaultSettles ==
    ASSUME NEW i \in PreflightIntents, NEW e, NEW f, NEW s, i.pack = "destructive_data",
           AnswersFully(e, f, Check(i, e, s))
    PROVE  /\ Env(i, f) # "unknown"
           /\ Env(i, e) # "unknown" => Env(i, f) = Env(i, e)
  <1> DEFINE asked == Check(i, e, s)
  <1>1. "environment" \in asked.evidence <=> Env(i, e) = "unknown"
    BY DefaultAsks
  <1> HIDE DEF asked
  <1>2. CASE Env(i, e) = "unknown"
    <2> DEFINE q == <<Get(f, "environment", ""), Get(i.parameters, "environment", ""),
                      i.selectorEnv, Get(i.context, "environment", "")>>
    <2>1. Get(f, "environment", "") \notin {"", "unknown"}
      BY Zenon, <1>1, <1>2, GivenIsGood DEF asked
    <2>2. DOMAIN q = 1..4 /\ q[1] = Get(f, "environment", "") /\ 4 \in Nat \ {0}
      OBVIOUS
    <2>3. FirstGiven(q, "", "unknown") = Get(f, "environment", "")
      <3> HIDE DEF q
      <3>1. q[1] # ""
        BY <2>1, <2>2
      <3>2. QED
        BY Zenon, <2>2, <3>1, FirstIsGiven
    <2>4. Env(i, f) = Get(f, "environment", "")
      BY Zenon, <2>3 DEF Env
    <2>5. QED
      BY <1>2, <2>1, <2>4
  <1>3. CASE Env(i, e) # "unknown"
    <2>1. Same(e, f, "environment")
      BY <1>1, <1>3 DEF AnswersFully, ApprovalKeys, asked
    <2>2. Get(f, "environment", "") = Get(e, "environment", "")
      BY Zenon, <2>1 DEF Same, Get
    <2>3. Env(i, f) = Env(i, e)
      BY Zenon, <2>2 DEF Env
    <2>4. QED
      BY Zenon, <1>3, <2>3
  <1>4. QED
    BY Zenon, <1>2, <1>3

(* At most one rule of the default pack asks for approval: they are about  *)
(* different capabilities.                                                 *)
LEMMA OneApprovalRule ==
    ASSUME NEW i, NEW e, NEW s
    PROVE  /\ i.capability # "data.export" => BroadDataExport(i, e, s) = NoResult
           /\ i.capability # "iam.permission.grant" => AdminPermissionGrant(i, e, s) = NoResult
           /\ i.capability \in {"data.export", "iam.permission.grant"} =>
                  ProductionDestructive(i, e, s) = NoResult
           /\ Env(i, e) # "production" => ProductionDestructive(i, e, s) = NoResult
  <1>1. i.capability # "data.export" => BroadDataExport(i, e, s) = NoResult
    BY Zenon DEF BroadDataExport, IsBroadExport
  <1>2. i.capability # "iam.permission.grant" => AdminPermissionGrant(i, e, s) = NoResult
    BY Zenon DEF AdminPermissionGrant, GrantsAdmin
  <1>3. i.capability \in {"data.export", "iam.permission.grant"} =>
            i.capability \notin BackupCapabilities /\ i.capability # "backup.delete"
    BY DEF BackupCapabilities
  <1>4. i.capability \in {"data.export", "iam.permission.grant"} => ProductionDestructive(i, e, s) = NoResult
    BY Zenon, <1>3 DEF ProductionDestructive
  <1>5. Env(i, e) # "production" => ProductionDestructive(i, e, s) = NoResult
    BY Zenon DEF ProductionDestructive
  <1>6. QED
    BY Zenon, <1>1, <1>2, <1>4, <1>5

(* The keys that no rule of the default pack asks for.                     *)
LEMMA DefaultKeeps ==
    ASSUME NEW i \in PreflightIntents, NEW e, NEW f, NEW s, i.pack = "destructive_data",
           AnswersFully(e, f, Check(i, e, s))
    PROVE  /\ Check(i, e, s).evidence \cap ApprovalKeys = {}
           /\ IsBroadExport(i, f) <=> IsBroadExport(i, e)
           /\ GrantsAdmin(i, f) <=> GrantsAdmin(i, e)
  <1> DEFINE asked == Check(i, e, s)
  <1>1. asked.evidence \subseteq {"capability_classification", "change_ticket", "backup_verified",
                                  "environment"}
    BY DefaultAsks
  <1> HIDE DEF asked
  <1>2. \A k \in {"row_count", "destination", "destination_classification", "sensitive_data", "role"} :
            Same(e, f, k)
    BY <1>1 DEF AnswersFully, ApprovalKeys, asked
  <1>3. \A d : /\ Get(f, "row_count", d) = Get(e, "row_count", d)
               /\ Get(f, "sensitive_data", d) = Get(e, "sensitive_data", d)
               /\ Get(f, "role", d) = Get(e, "role", d)
    BY Zenon, <1>2 DEF Same, Get
  <1>4. RowCount(i, f) = RowCount(i, e)
    BY Zenon, <1>3 DEF RowCount
  <1>5. External(i, f) <=> External(i, e)
    <2>1. /\ Value(i, f, "destination", "") = Value(i, e, "destination", "")
          /\ Value(i, f, "destination_classification", "") = Value(i, e, "destination_classification", "")
      BY Zenon, <1>2 DEF Same, Value
    <2>2. QED
      BY <2>1 DEF External
  <1>6. asked.evidence \cap ApprovalKeys = {}
    BY <1>1 DEF ApprovalKeys
  <1>7. IsBroadExport(i, f) <=> IsBroadExport(i, e)
    <2> DEFINE d == Get(i.parameters, "sensitive_data", "")
    <2>1. Get(f, "sensitive_data", d) = Get(e, "sensitive_data", d)
      BY Zenon, <1>3
    <2>2. QED
      BY Zenon, <1>4, <1>5, <2>1 DEF IsBroadExport
  <1>8. GrantsAdmin(i, f) <=> GrantsAdmin(i, e)
    BY Zenon, <1>3 DEF GrantsAdmin
  <1>9. QED
    BY Zenon, <1>6, <1>7, <1>8 DEF asked

LEMMA DefaultCompletes ==
    ASSUME NEW i \in PreflightIntents, NEW e, NEW f, NEW s, i.pack = "destructive_data",
           Env(i, e) # "unknown", AnswersFully(e, f, Check(i, e, s))
    PROVE  OnlyDenials(i, f, s)
  <1> DEFINE asked == Check(i, e, s)
  <1>1. Env(i, f) = Env(i, e)
    BY Zenon, DefaultSettles
  <1>2. Passes(UnsupportedCapability(i, f))
    <2>1. CASE "capability_classification" \in asked.evidence
      BY Zenon, <2>1, GivenIsGood DEF UnsupportedCapability, Passes
    <2>2. CASE "capability_classification" \notin asked.evidence
      <3>1. UnsupportedCapability(i, e) = NoResult
        BY <2>2, DefaultAsks
      <3>2. Same(e, f, "capability_classification")
        BY <2>2 DEF AnswersFully, ApprovalKeys
      <3>3. Get(f, "capability_classification", "") = Get(e, "capability_classification", "")
        BY Zenon, <3>2 DEF Same, Get
      <3>4. QED
        BY Zenon, <3>1, <3>3 DEF UnsupportedCapability, Passes
    <2>3. QED
      BY Zenon, <2>1, <2>2
  <1>3. Passes(MissingChangeTicket(i, f))
    <2>1. CASE "change_ticket" \in asked.evidence
      <3>1. Truthy(Get(f, "change_ticket", ""))
        BY Zenon, <2>1, GivenIsGood
      <3>2. QED
        BY Zenon, <3>1 DEF HasChangeTicket, MissingChangeTicket, Passes
    <2>2. CASE "change_ticket" \notin asked.evidence
      <3>1. MissingChangeTicket(i, e) = NoResult
        BY <2>2, DefaultAsks
      <3>2. Same(e, f, "change_ticket")
        BY <2>2 DEF AnswersFully, ApprovalKeys
      <3>3. Get(f, "change_ticket", "") = Get(e, "change_ticket", "")
        BY Zenon, <3>2 DEF Same, Get
      <3>4. HasChangeTicket(i, f) <=> HasChangeTicket(i, e)
        BY Zenon, <3>3 DEF HasChangeTicket
      <3>5. QED
        BY Zenon, <1>1, <3>1, <3>4 DEF MissingChangeTicket, Passes
    <2>3. QED
      BY Zenon, <2>1, <2>2
  <1>4. Passes(MissingBackupEvidence(i, f))
    <2>1. CASE "backup_verified" \in asked.evidence
      <3>1. Truthy(Get(f, "backup_verified", ""))
        BY Zenon, <2>1, GivenIsGood
      <3>2. QED
        BY Zenon, <3>1 DEF HasBackupEvidence, MissingBackupEvidence, Passes
    <2>2. CASE "backup_verified" \notin asked.evidence
      <3>1. MissingBackupEvidence(i, e) = NoResult
        BY <2>2, DefaultAsks
      <3>2. "backup_snapshot" \notin asked.evidence
        BY DefaultAsks
      <3>3. Same(e, f, "backup_verified") /\ Same(e, f, "backup_snapshot")
        BY <2>2, <3>2 DEF AnswersFully, ApprovalKeys
      <3>4. /\ Get(f, "backup_verified", "") = Get(e, "backup_verified", "")
            /\ Get(f, "backup_snapshot", "") = Get(e, "backup_snapshot", "")
        BY Zenon, <3>3 DEF Same, Get
      <3>5. HasBackupEvidence(i, f) <=> HasBackupEvidence(i, e)
        BY Zenon, <3>4 DEF HasBackupEvidence
      <3>6. QED
        BY Zenon, <1>1, <3>1, <3>5 DEF MissingBackupEvidence, Passes
    <2>3. QED
      BY Zenon, <2>1, <2>2
  <1>5. asked.evidence \cap ApprovalKeys = {}
    BY Zenon, DefaultKeeps
  <1>6. asked.approvals = ProductionDestructive(i, e, s).approvals
            \cup BroadDataExport(i, e, s).approvals \cup AdminPermissionGrant(i, e, s).approvals
    BY DefaultAsks
  <1> HIDE DEF asked
  <1>7. Passes(ProductionDestructive(i, f, s))
    <2> DEFINE roles == {"infrastructure_owner", "security_admin"}
               Rule(g) == AskApproval(i, g, s, "PRODUCTION_DESTRUCTIVE_APPROVAL_REQUIRED", "critical", roles)
    <2>1. CASE Env(i, e) # "production" \/ i.capability \notin BackupCapabilities
      <3>1. "backup.delete" \in BackupCapabilities
        BY DEF BackupCapabilities
      <3>2. QED
        BY Zenon, <1>1, <2>1, <3>1 DEF ProductionDestructive, Passes
    <2>2. CASE i.capability = "backup.delete" /\ Env(i, e) = "production"
      BY <1>1, <2>2, ResultFields DEF ProductionDestructive, Passes
    <2>3. CASE /\ Env(i, e) = "production" /\ i.capability \in BackupCapabilities
               /\ i.capability # "backup.delete"
      <3>1. ProductionDestructive(i, e, s) = Rule(e) /\ ProductionDestructive(i, f, s) = Rule(f)
        BY Zenon, <1>1, <2>3 DEF ProductionDestructive
      <3>2. i.capability # "data.export" /\ i.capability # "iam.permission.grant"
        BY <2>3 DEF BackupCapabilities
      <3>3. BroadDataExport(i, e, s).approvals = {} /\ AdminPermissionGrant(i, e, s).approvals = {}
        BY <3>2, OneApprovalRule, ResultFields
      <3>4. Rule(e).approvals = (IF ApprovalSatisfied(i, e, s, roles) THEN {} ELSE roles)
        BY AskForm
      <3>5. asked.approvals = (IF ApprovalSatisfied(i, e, s, roles) THEN {} ELSE roles)
        BY <1>6, <3>1, <3>3, <3>4
      <3>6. roles # {}
        OBVIOUS
      <3> HIDE DEF roles
      <3>7. ApprovalSatisfied(i, f, s, roles)
        BY Zenon, <1>5, <3>5, <3>6, ApprovalAnswered DEF asked
      <3>8. QED
        BY <3>1, <3>7, AskForm DEF Passes
    <2>4. QED
      BY Zenon, <2>1, <2>2, <2>3
  <1>8. Passes(BroadDataExport(i, f, s))
    <2> DEFINE roles == {"data_owner", "privacy_reviewer"}
    <2>1. IsBroadExport(i, f) <=> IsBroadExport(i, e)
      BY Zenon, DefaultKeeps
    <2>2. CASE ~IsBroadExport(i, f)
      BY Zenon, <2>2 DEF BroadDataExport, Passes
    <2>3. CASE IsBroadExport(i, f)
      <3>1. ProductionDestructive(i, e, s).approvals = {} /\ AdminPermissionGrant(i, e, s).approvals = {}
        <4>1. i.capability = "data.export"
          BY Zenon, <2>3 DEF IsBroadExport
        <4>2. QED
          BY <4>1, OneApprovalRule, ResultFields
      <3>2. BroadDataExport(i, e, s).approvals = (IF ApprovalSatisfied(i, e, s, roles) THEN {} ELSE roles)
        BY <2>1, <2>3, AskForm DEF BroadDataExport
      <3>3. asked.approvals = (IF ApprovalSatisfied(i, e, s, roles) THEN {} ELSE roles)
        BY <1>6, <3>1, <3>2
      <3>4. roles # {}
        OBVIOUS
      <3>5. ApprovalSatisfied(i, f, s, roles)
        BY Zenon, <1>5, <3>3, <3>4, ApprovalAnswered DEF asked
      <3>6. QED
        BY <2>3, <3>5, AskForm DEF BroadDataExport, Passes
    <2>4. QED
      BY Zenon, <2>2, <2>3
  <1>9. Passes(AdminPermissionGrant(i, f, s))
    <2> DEFINE roles == {"security_admin"}
    <2>1. GrantsAdmin(i, f) <=> GrantsAdmin(i, e)
      BY Zenon, DefaultKeeps
    <2>2. CASE ~GrantsAdmin(i, f)
      BY Zenon, <2>2 DEF AdminPermissionGrant, Passes
    <2>3. CASE GrantsAdmin(i, f)
      <3>1. ProductionDestructive(i, e, s).approvals = {} /\ BroadDataExport(i, e, s).approvals = {}
        <4>1. i.capability = "iam.permission.grant"
          BY Zenon, <2>3 DEF GrantsAdmin
        <4>2. QED
          BY <4>1, OneApprovalRule, ResultFields
      <3>2. AdminPermissionGrant(i, e, s).approvals = (IF ApprovalSatisfied(i, e, s, roles) THEN {} ELSE roles)
        BY <2>1, <2>3, AskForm DEF AdminPermissionGrant
      <3>3. asked.approvals = (IF ApprovalSatisfied(i, e, s, roles) THEN {} ELSE roles)
        BY <1>6, <3>1, <3>2
      <3>4. roles # {}
        OBVIOUS
      <3>5. ApprovalSatisfied(i, f, s, roles)
        BY Zenon, <1>5, <3>3, <3>4, ApprovalAnswered DEF asked
      <3>6. QED
        BY <2>3, <3>5, AskForm DEF AdminPermissionGrant, Passes
    <2>4. QED
      BY Zenon, <2>2, <2>3
  <1>10. Passes(SandboxAllow(i, f)) /\ Passes(DefaultDecision(i, f))
    BY <1>1, ResultFields DEF SandboxAllow, DefaultDecision, Passes
  <1>11. Rules(i, f, s) = DestructiveActionsPack(i, f, s)
    BY DEF Rules
  <1>12. \A n \in DOMAIN Rules(i, f, s) : Passes(Rules(i, f, s)[n])
    BY <1>2, <1>3, <1>4, <1>7, <1>8, <1>9, <1>10, <1>11 DEF DestructiveActionsPack
  <1>13. QED
    BY Zenon, <1>12, AllPass

(* The privacy pack: what each rule asks for.                              *)
LEMMA PrivacyForms ==
    ASSUME NEW i \in PreflightIntents, NEW e, i.capability \in PrivacyCapabilities
    PROVE  /\ ClassificationRequired(i, e).evidence =
                  (IF Sensitivity(i, e) # "" \/ Holds(i, e, "sensitive_data") THEN {}
                   ELSE {"sensitivity_classification"})
           /\ ExternalDestination(i, e).evidence =
                  (IF ExternalDestination(i, e) = NoResult THEN {}
                   ELSE {"destination_allowlisted", "external_egress_approved"})
           /\ Residency(i, e).evidence =
                  (IF Residency(i, e) = NoResult THEN {} ELSE {"residency_allowed"})
           /\ ClassificationRequired(i, e).approvals = {} /\ ExternalDestination(i, e).approvals = {}
           /\ Residency(i, e).approvals = {}
  <1> DEFINE c == ClassificationRequired(i, e)
             x == ExternalDestination(i, e)
             r == Residency(i, e)
             ends == Sensitivity(i, e) # "" \/ Holds(i, e, "sensitive_data")
  <1>1. /\ ends => c = NoResult
        /\ ~ends => \E reason, risk : c = NeedsEvidence(reason, risk, {"sensitivity_classification"})
    BY Zenon DEF ClassificationRequired
  <1>2. x = NoResult \/ \E reason, risk :
            x = NeedsEvidence(reason, risk, {"destination_allowlisted", "external_egress_approved"})
    BY Zenon DEF ExternalDestination
  <1>3. r = NoResult \/ \E reason, risk : r = NeedsEvidence(reason, risk, {"residency_allowed"})
    BY Zenon DEF Residency
  <1> HIDE DEF c, x, r, ends
  <1>4. c.evidence = (IF ends THEN {} ELSE {"sensitivity_classification"}) /\ c.approvals = {}
    <2>1. CASE ends
      BY <1>1, <2>1, ResultFields
    <2>2. CASE ~ends
      BY <1>1, <2>2, ResultFields
    <2>3. QED
      BY Zenon, <2>1, <2>2
  <1>5. /\ x.evidence = (IF x = NoResult THEN {}
                         ELSE {"destination_allowlisted", "external_egress_approved"})
        /\ x.approvals = {}
    BY Zenon, <1>2, EvidenceForm
  <1>6. r.evidence = (IF r = NoResult THEN {} ELSE {"residency_allowed"}) /\ r.approvals = {}
    BY Zenon, <1>3, EvidenceForm
  <1>7. QED
    BY Zenon, <1>4, <1>5, <1>6 DEF c, x, r, ends

LEMMA PrivacyAsks ==
    ASSUME NEW i \in PreflightIntents, NEW e, NEW s, i.pack = "data_privacy",
           i.capability \in PrivacyCapabilities
    PROVE  /\ Check(i, e, s).evidence = ClassificationRequired(i, e).evidence
                  \cup ExternalDestination(i, e).evidence \cup Residency(i, e).evidence
           /\ Check(i, e, s).approvals = BroadOrSensitive(i, e, s).approvals
  <1> DEFINE v == NotCovered(i, PrivacyCapabilities)
             c == ClassificationRequired(i, e)
             b == BroadOrSensitive(i, e, s)
             x == ExternalDestination(i, e)
             r == Residency(i, e)
             w == Satisfied
             asked == Check(i, e, s)
  <1>1. v = NoResult
    BY Zenon DEF NotCovered
  <1>2. b = NoResult \/ \E reason, risk, roles : b = NeedsApproval(reason, risk, roles)
    BY AskForm DEF BroadOrSensitive
  <1>3. w = NoResult \/ \E reason : w = Allows(reason)
    BY Zenon DEF Satisfied
  <1>4. Rules(i, e, s) = <<v, c, b, x, r, w>>
    BY DEF Rules, DataPrivacyPack
  <1>5. /\ asked.evidence = UNION {<<v, c, b, x, r, w>>[n].evidence : n \in 1..6}
        /\ asked.approvals = UNION {<<v, c, b, x, r, w>>[n].approvals : n \in 1..6}
    BY AskedByAll, <1>4
  <1>6. c.approvals = {} /\ x.approvals = {} /\ r.approvals = {}
    BY Zenon, PrivacyForms
  <1> HIDE DEF v, c, b, x, r, w, asked
  <1>7. /\ asked.evidence = v.evidence \cup c.evidence \cup b.evidence \cup x.evidence
               \cup r.evidence \cup w.evidence
        /\ asked.approvals = v.approvals \cup c.approvals \cup b.approvals \cup x.approvals
               \cup r.approvals \cup w.approvals
    BY <1>5
  <1>8. v.evidence = {} /\ v.approvals = {}
    BY Zenon, <1>1, ResultFields
  <1>9. b.evidence = {}
    BY Zenon, <1>2, ApprovalForm
  <1>10. w.evidence = {} /\ w.approvals = {}
    BY Zenon, <1>3, AllowForm
  <1>11. asked.evidence = c.evidence \cup x.evidence \cup r.evidence /\ asked.approvals = b.approvals
    BY <1>6, <1>7, <1>8, <1>9, <1>10
  <1>12. QED
    BY <1>11 DEF c, b, x, r, asked

(* The keys that only a caller's answers change, and the others.           *)
LEMMA PrivacyKeeps ==
    ASSUME NEW i \in PreflightIntents, NEW e, NEW f, NEW s, i.pack = "data_privacy",
           i.capability \in PrivacyCapabilities, AnswersFully(e, f, Check(i, e, s))
    PROVE  /\ Check(i, e, s).evidence \cap ApprovalKeys = {}
           /\ RowCount(i, f) = RowCount(i, e)
           /\ External(i, f) <=> External(i, e)
           /\ Holds(i, f, "sensitive_data") <=> Holds(i, e, "sensitive_data")
           /\ Value(i, f, "source_residency", "") = Value(i, e, "source_residency", "")
           /\ Value(i, f, "destination_residency", "") = Value(i, e, "destination_residency", "")
           /\ Value(i, f, "data_classification", "") = Value(i, e, "data_classification", "")
           /\ Value(i, f, "sensitivity", "") = Value(i, e, "sensitivity", "")
  <1> DEFINE asked == Check(i, e, s)
             kept == {"row_count", "destination", "destination_classification", "sensitive_data",
                      "source_residency", "destination_residency", "data_classification", "sensitivity"}
  <1>1. asked.evidence \subseteq {"sensitivity_classification", "destination_allowlisted",
                                  "external_egress_approved", "residency_allowed"}
    <2>1. asked.evidence = ClassificationRequired(i, e).evidence
              \cup ExternalDestination(i, e).evidence \cup Residency(i, e).evidence
      BY PrivacyAsks
    <2>2. ClassificationRequired(i, e).evidence \in {{}, {"sensitivity_classification"}}
      BY Zenon, PrivacyForms
    <2>3. ExternalDestination(i, e).evidence
              \in {{}, {"destination_allowlisted", "external_egress_approved"}}
      BY Zenon, PrivacyForms
    <2>4. Residency(i, e).evidence \in {{}, {"residency_allowed"}}
      BY Zenon, PrivacyForms
    <2> HIDE DEF asked
    <2>5. QED
      BY <2>1, <2>2, <2>3, <2>4
  <1> HIDE DEF asked
  <1>2. \A k \in kept : Same(e, f, k)
    BY <1>1 DEF AnswersFully, ApprovalKeys, asked
  <1>3. \A d : Get(f, "row_count", d) = Get(e, "row_count", d)
    BY Zenon, <1>2 DEF Same, Get
  <1>4. \A k \in kept : Value(i, f, k, "") = Value(i, e, k, "")
    BY Zenon, <1>2 DEF Same, Value
  <1>5. RowCount(i, f) = RowCount(i, e)
    BY Zenon, <1>3 DEF RowCount
  <1>6. External(i, f) <=> External(i, e)
    BY <1>4 DEF External
  <1>7. Holds(i, f, "sensitive_data") <=> Holds(i, e, "sensitive_data")
    BY Zenon, <1>4 DEF Holds
  <1>8. asked.evidence \cap ApprovalKeys = {}
    BY <1>1 DEF ApprovalKeys
  <1>9. QED
    BY Zenon, <1>4, <1>5, <1>6, <1>7, <1>8 DEF asked

LEMMA PrivacySettles ==
    ASSUME NEW i \in PreflightIntents, NEW e, NEW f, NEW s, i.pack = "data_privacy",
           i.capability \in PrivacyCapabilities, AnswersFully(e, f, Check(i, e, s))
    PROVE  /\ Sensitivity(i, f) # "" \/ Holds(i, f, "sensitive_data")
           /\ Sensitivity(i, e) # "" \/ Holds(i, e, "sensitive_data") => Sensitivity(i, f) = Sensitivity(i, e)
  <1> DEFINE asked == Check(i, e, s)
             key == "sensitivity_classification"
  <1>1. key \in asked.evidence <=> ~(Sensitivity(i, e) # "" \/ Holds(i, e, "sensitive_data"))
    <2>1. asked.evidence = ClassificationRequired(i, e).evidence
              \cup ExternalDestination(i, e).evidence \cup Residency(i, e).evidence
      BY PrivacyAsks
    <2>2. ClassificationRequired(i, e).evidence =
              (IF Sensitivity(i, e) # "" \/ Holds(i, e, "sensitive_data") THEN {} ELSE {key})
      BY Zenon, PrivacyForms
    <2>3. ExternalDestination(i, e).evidence
              \in {{}, {"destination_allowlisted", "external_egress_approved"}}
      BY Zenon, PrivacyForms
    <2>4. Residency(i, e).evidence \in {{}, {"residency_allowed"}}
      BY Zenon, PrivacyForms
    <2> HIDE DEF asked
    <2>5. QED
      BY <2>1, <2>2, <2>3, <2>4
  <1> HIDE DEF asked
  <1>2. CASE Sensitivity(i, e) # "" \/ Holds(i, e, "sensitive_data")
    <2>1. Same(e, f, key)
      BY <1>1, <1>2 DEF AnswersFully, ApprovalKeys, asked
    <2>2. Value(i, f, key, "") = Value(i, e, key, "")
      BY Zenon, <2>1 DEF Same, Value
    <2>3. Sensitivity(i, f) = Sensitivity(i, e)
      <3>1. /\ Value(i, f, "data_classification", "") = Value(i, e, "data_classification", "")
            /\ Value(i, f, "sensitivity", "") = Value(i, e, "sensitivity", "")
        BY Zenon, PrivacyKeeps
      <3>2. QED
        BY Zenon, <2>2, <3>1 DEF Sensitivity
    <2>4. QED
      BY Zenon, <1>2, <2>3, PrivacyKeeps
  <1>3. CASE ~(Sensitivity(i, e) # "" \/ Holds(i, e, "sensitive_data"))
    <2> DEFINE q == <<Value(i, f, key, ""), Value(i, f, "data_classification", ""),
                      Value(i, f, "sensitivity", "")>>
    <2>1. Value(i, f, key, "") # ""
      BY Zenon, <1>1, <1>3, GivenIsGood DEF asked
    <2>2. DOMAIN q = 1..3 /\ q[1] = Value(i, f, key, "") /\ 3 \in Nat \ {0}
      OBVIOUS
    <2>3. FirstGiven(q, "", "") = Value(i, f, key, "")
      <3> HIDE DEF q
      <3>1. q[1] # ""
        BY Zenon, <2>1, <2>2
      <3>2. QED
        BY Zenon, <2>2, <3>1, FirstIsGiven
    <2>4. Sensitivity(i, f) = Value(i, f, key, "")
      BY Zenon, <2>3 DEF Sensitivity
    <2>5. QED
      BY Zenon, <1>3, <2>1, <2>4
  <1>4. QED
    BY Zenon, <1>2, <1>3

LEMMA PrivacyCompletes ==
    ASSUME NEW i \in PreflightIntents, NEW e, NEW f, NEW s, i.pack = "data_privacy",
           i.capability \in PrivacyCapabilities, AnswersFully(e, f, Check(i, e, s)),
           Settled(i, e)
    PROVE  OnlyDenials(i, f, s)
  <1> DEFINE asked == Check(i, e, s)
  <1>1. /\ Sensitivity(i, f) # "" \/ Holds(i, f, "sensitive_data")
        /\ Sensitivity(i, f) = Sensitivity(i, e)
    BY Zenon, PrivacySettles DEF Settled
  <1>2. Passes(NotCovered(i, PrivacyCapabilities)) /\ Passes(ClassificationRequired(i, f))
    BY Zenon, <1>1 DEF NotCovered, ClassificationRequired, Passes
  <1>3. External(i, f) <=> External(i, e)
    BY Zenon, PrivacyKeeps
  <1>4. asked.evidence = ClassificationRequired(i, e).evidence
            \cup ExternalDestination(i, e).evidence \cup Residency(i, e).evidence
    BY PrivacyAsks
  <1>5. asked.approvals = BroadOrSensitive(i, e, s).approvals /\ asked.evidence \cap ApprovalKeys = {}
    BY PrivacyAsks, PrivacyKeeps
  <1> HIDE DEF asked
  <1>6. Passes(BroadOrSensitive(i, f, s))
    <2> DEFINE roles == {"data_owner", "privacy_reviewer"}
    <2>1. IsBroadOrSensitive(i, f) <=> IsBroadOrSensitive(i, e)
      <3>1. RowCount(i, f) = RowCount(i, e) /\ (Holds(i, f, "sensitive_data") <=> Holds(i, e, "sensitive_data"))
        BY Zenon, PrivacyKeeps
      <3>2. QED
        BY Zenon, <1>1, <1>3, <3>1 DEF IsBroadOrSensitive
    <2>2. CASE ~IsBroadOrSensitive(i, f)
      BY Zenon, <2>2 DEF BroadOrSensitive, Passes
    <2>3. CASE IsBroadOrSensitive(i, f)
      <3>1. asked.approvals = (IF ApprovalSatisfied(i, e, s, roles) THEN {} ELSE roles)
        BY <1>5, <2>1, <2>3, AskForm DEF BroadOrSensitive
      <3>2. roles # {}
        OBVIOUS
      <3>3. ApprovalSatisfied(i, f, s, roles)
        BY Zenon, <1>5, <3>1, <3>2, ApprovalAnswered DEF asked
      <3>4. QED
        BY <2>3, <3>3, AskForm DEF BroadOrSensitive, Passes
    <2>4. QED
      BY Zenon, <2>2, <2>3
  <1>7. Passes(ExternalDestination(i, f))
    <2>1. CASE "destination_allowlisted" \in asked.evidence
      <3>1. Holds(i, f, "destination_allowlisted")
        BY Zenon, <2>1, GivenIsGood DEF asked
      <3>2. QED
        BY Zenon, <3>1 DEF ExternalDestination, Passes
    <2>2. CASE "destination_allowlisted" \notin asked.evidence
      <3>1. ExternalDestination(i, e).evidence = (IF ExternalDestination(i, e) = NoResult THEN {}
                ELSE {"destination_allowlisted", "external_egress_approved"})
        BY Zenon, PrivacyForms
      <3>2. ExternalDestination(i, e) = NoResult
        BY <1>4, <2>2, <3>1
      <3>3. "external_egress_approved" \notin asked.evidence
        <4>1. ClassificationRequired(i, e).evidence \in {{}, {"sensitivity_classification"}}
              /\ Residency(i, e).evidence \in {{}, {"residency_allowed"}}
          BY Zenon, PrivacyForms
        <4>2. QED
          BY <1>4, <3>1, <3>2, <4>1
      <3>4. Same(e, f, "destination_allowlisted") /\ Same(e, f, "external_egress_approved")
        BY <2>2, <3>3 DEF AnswersFully, ApprovalKeys, asked
      <3>5. /\ Holds(i, f, "destination_allowlisted") <=> Holds(i, e, "destination_allowlisted")
            /\ Holds(i, f, "external_egress_approved") <=> Holds(i, e, "external_egress_approved")
        BY Zenon, <3>4 DEF Same, Value, Holds
      <3>6. QED
        BY Zenon, <1>3, <3>2, <3>5 DEF ExternalDestination, Passes
    <2>3. QED
      BY Zenon, <2>1, <2>2
  <1>8. Passes(Residency(i, f))
    <2>1. CASE "residency_allowed" \in asked.evidence
      <3>1. Holds(i, f, "residency_allowed")
        BY Zenon, <2>1, GivenIsGood DEF asked
      <3>2. QED
        BY Zenon, <3>1 DEF Residency, Passes
    <2>2. CASE "residency_allowed" \notin asked.evidence
      <3>1. Residency(i, e).evidence = (IF Residency(i, e) = NoResult THEN {} ELSE {"residency_allowed"})
        BY Zenon, PrivacyForms
      <3>2. Residency(i, e) = NoResult
        BY <1>4, <2>2, <3>1
      <3>3. Same(e, f, "residency_allowed")
        BY <2>2 DEF AnswersFully, ApprovalKeys, asked
      <3>4. Holds(i, f, "residency_allowed") <=> Holds(i, e, "residency_allowed")
        BY Zenon, <3>3 DEF Same, Value, Holds
      <3>5. Value(i, f, "source_residency", "") = Value(i, e, "source_residency", "")
        BY ZenonT(30), PrivacyKeeps
      <3>6. Value(i, f, "destination_residency", "") = Value(i, e, "destination_residency", "")
        BY ZenonT(30), PrivacyKeeps
      <3>7. QED
        BY Zenon, <3>2, <3>4, <3>5, <3>6 DEF Residency, Passes
    <2>3. QED
      BY Zenon, <2>1, <2>2
  <1>9. Passes(Satisfied)
    BY ResultFields DEF Satisfied, Passes
  <1>10. Rules(i, f, s) = DataPrivacyPack(i, f, s)
    BY DEF Rules
  <1>11. \A n \in DOMAIN Rules(i, f, s) : Passes(Rules(i, f, s)[n])
    BY <1>2, <1>6, <1>7, <1>8, <1>9, <1>10 DEF DataPrivacyPack
  <1>12. QED
    BY Zenon, <1>11, AllPass

(* The packs in which one rule asks for approval and no rule waits for     *)
(* another one's evidence.                                                 *)
LEMMA AccessCompletes ==
    ASSUME NEW i \in PreflightIntents, NEW e, NEW f, NEW s, i.pack = "access_governance",
           i.capability \in AccessCapabilities, AnswersFully(e, f, Check(i, e, s))
    PROVE  OnlyDenials(i, f, s)
  <1> DEFINE v == NotCovered(i, AccessCapabilities)
             d == SeparationOfDuties(i, e, s)
             p == PrivilegedAccess(i, e, s)
             w == Satisfied
             asked == Check(i, e, s)
             roles == {"security_admin", "resource_owner"}
  <1>1. v = NoResult
    BY Zenon DEF NotCovered
  <1>2. d = NoResult \/ \E reason : d = Denies(reason)
    BY Zenon DEF SeparationOfDuties
  <1>3. p = NoResult \/ \E reason, risk, r : p = NeedsApproval(reason, risk, r)
    BY AskForm DEF PrivilegedAccess
  <1>4. w = NoResult \/ \E reason : w = Allows(reason)
    BY Zenon DEF Satisfied
  <1>5. Rules(i, e, s) = <<v, d, p, w>>
    BY DEF Rules, AccessGovernancePack
  <1>6. /\ asked.evidence = UNION {<<v, d, p, w>>[n].evidence : n \in 1..4}
        /\ asked.approvals = UNION {<<v, d, p, w>>[n].approvals : n \in 1..4}
    BY AskedByAll, <1>5
  <1>7. asked.evidence = {} /\ asked.approvals = p.approvals
    <2> HIDE DEF v, d, p, w, asked
    <2>1. v.evidence = {} /\ v.approvals = {}
      BY Zenon, <1>1, ResultFields
    <2>2. d.evidence = {} /\ d.approvals = {}
      BY <1>2, ResultFields
    <2>3. p.evidence = {}
      BY Zenon, <1>3, ApprovalForm
    <2>4. w.evidence = {} /\ w.approvals = {}
      BY Zenon, <1>4, AllowForm
    <2>5. QED
      BY <1>6, <2>1, <2>2, <2>3, <2>4
  <1> HIDE DEF asked
  <1>8. asked.evidence \cap ApprovalKeys = {}
    BY <1>7
  <1>9. IsPrivileged(i, f) <=> IsPrivileged(i, e)
    <2>1. \A k \in {"role", "permission", "role_tier", "access_mode"} : Same(e, f, k)
      BY <1>7 DEF AnswersFully, ApprovalKeys, asked
    <2>2. /\ Value(i, f, "role", "") = Value(i, e, "role", "")
          /\ Value(i, f, "permission", "") = Value(i, e, "permission", "")
          /\ Value(i, f, "role_tier", "") = Value(i, e, "role_tier", "")
          /\ Value(i, f, "access_mode", "jit") = Value(i, e, "access_mode", "jit")
      BY Zenon, <2>1 DEF Same, Value
    <2>3. QED
      BY Zenon, <2>2 DEF IsPrivileged
  <1>10. Passes(PrivilegedAccess(i, f, s))
    <2>1. CASE ~IsPrivileged(i, f)
      BY Zenon, <2>1 DEF PrivilegedAccess, Passes
    <2>2. CASE IsPrivileged(i, f)
      <3>1. asked.approvals = (IF ApprovalSatisfied(i, e, s, roles) THEN {} ELSE roles)
        BY <1>7, <1>9, <2>2, AskForm DEF PrivilegedAccess
      <3>2. roles # {}
        OBVIOUS
      <3>3. ApprovalSatisfied(i, f, s, roles)
        BY Zenon, <1>8, <3>1, <3>2, ApprovalAnswered DEF asked
      <3>4. QED
        BY <2>2, <3>3, AskForm DEF PrivilegedAccess, Passes
    <2>3. QED
      BY Zenon, <2>1, <2>2
  <1>11. Passes(SeparationOfDuties(i, f, s))
    <2>1. SeparationOfDuties(i, f, s) = NoResult \/ \E reason : SeparationOfDuties(i, f, s) = Denies(reason)
      BY Zenon DEF SeparationOfDuties
    <2>2. QED
      BY <2>1, ResultFields DEF Passes
  <1>12. Passes(v) /\ Passes(w)
    BY <1>1, ResultFields DEF Satisfied, Passes
  <1>13. Rules(i, f, s) = AccessGovernancePack(i, f, s)
    BY DEF Rules
  <1>14. \A n \in DOMAIN Rules(i, f, s) : Passes(Rules(i, f, s)[n])
    BY <1>10, <1>11, <1>12, <1>13 DEF AccessGovernancePack
  <1>15. QED
    BY Zenon, <1>14, AllPass

LEMMA PaymentsCompletes ==
    ASSUME NEW i \in PreflightIntents, NEW e, NEW f, NEW s, i.pack = "payments",
           i.capability \in PaymentCapabilities, AnswersFully(e, f, Check(i, e, s))
    PROVE  OnlyDenials(i, f, s)
  <1> DEFINE v == NotCovered(i, PaymentCapabilities)
             p == PaymentApproval(i, e, s)
             y == PayeeVerification(i, e)
             w == Satisfied
             asked == Check(i, e, s)
             roles == {"finance_approver"}
             keys == {"payee_verified", "destination_verified"}
  <1>1. v = NoResult
    BY Zenon DEF NotCovered
  <1>2. p = NoResult \/ \E reason, risk, r : p = NeedsApproval(reason, risk, r)
    BY AskForm DEF PaymentApproval
  <1>3. y = NoResult \/ \E reason, risk : y = NeedsEvidence(reason, risk, keys)
    BY Zenon DEF PayeeVerification
  <1>4. w = NoResult \/ \E reason : w = Allows(reason)
    BY Zenon DEF Satisfied
  <1>5. Rules(i, e, s) = <<v, p, y, w>>
    BY DEF Rules, PaymentsPack
  <1>6. /\ asked.evidence = UNION {<<v, p, y, w>>[n].evidence : n \in 1..4}
        /\ asked.approvals = UNION {<<v, p, y, w>>[n].approvals : n \in 1..4}
    BY AskedByAll, <1>5
  <1>7. asked.evidence = (IF y = NoResult THEN {} ELSE keys) /\ asked.approvals = p.approvals
    <2> HIDE DEF v, p, y, w, asked, keys
    <2>1. v.evidence = {} /\ v.approvals = {}
      BY Zenon, <1>1, ResultFields
    <2>2. p.evidence = {}
      BY Zenon, <1>2, ApprovalForm
    <2>3. y.evidence = (IF y = NoResult THEN {} ELSE keys) /\ y.approvals = {}
      BY Zenon, <1>3, EvidenceForm
    <2>4. w.evidence = {} /\ w.approvals = {}
      BY Zenon, <1>4, AllowForm
    <2>5. QED
      BY <1>6, <2>1, <2>2, <2>3, <2>4
  <1> HIDE DEF asked
  <1>8. asked.evidence \cap ApprovalKeys = {}
    BY <1>7 DEF ApprovalKeys
  <1>9. /\ Amount(i, f) = Amount(i, e)
        /\ Holds(i, f, "new_payee") <=> Holds(i, e, "new_payee")
        /\ DestinationChanged(i, f) <=> DestinationChanged(i, e)
    <2>1. \A k \in {"amount_minor", "notional_minor", "new_payee", "destination_changed"} : Same(e, f, k)
      BY <1>7 DEF AnswersFully, ApprovalKeys, asked
    <2>2. \A q : /\ Value(i, f, "amount_minor", q) = Value(i, e, "amount_minor", q)
                 /\ Value(i, f, "notional_minor", q) = Value(i, e, "notional_minor", q)
                 /\ Value(i, f, "new_payee", q) = Value(i, e, "new_payee", q)
                 /\ Value(i, f, "destination_changed", q) = Value(i, e, "destination_changed", q)
      BY Zenon, <2>1 DEF Same, Value
    <2>3. Amount(i, f) = Amount(i, e)
      BY Zenon, <2>2 DEF Amount
    <2>4. QED
      BY Zenon, <2>2, <2>3 DEF Holds, DestinationChanged
  <1>10. Passes(PaymentApproval(i, f, s))
    <2>1. IsNotablePayment(i, f) <=> IsNotablePayment(i, e)
      BY Zenon, <1>9 DEF IsNotablePayment
    <2>2. CASE ~IsNotablePayment(i, f)
      BY Zenon, <2>2 DEF PaymentApproval, Passes
    <2>3. CASE IsNotablePayment(i, f)
      <3>1. asked.approvals = (IF ApprovalSatisfied(i, e, s, roles) THEN {} ELSE roles)
        BY <1>7, <2>1, <2>3, AskForm DEF PaymentApproval
      <3>2. roles # {}
        OBVIOUS
      <3>3. ApprovalSatisfied(i, f, s, roles)
        BY Zenon, <1>8, <3>1, <3>2, ApprovalAnswered DEF asked
      <3>4. QED
        BY <2>3, <3>3, AskForm DEF PaymentApproval, Passes
    <2>4. QED
      BY Zenon, <2>2, <2>3
  <1>11. Passes(PayeeVerification(i, f))
    <2>1. CASE y = NoResult
      <3>1. Same(e, f, "payee_verified") /\ Same(e, f, "destination_verified")
        BY <1>7, <2>1 DEF AnswersFully, ApprovalKeys, asked
      <3>2. /\ Holds(i, f, "payee_verified") <=> Holds(i, e, "payee_verified")
            /\ Holds(i, f, "destination_verified") <=> Holds(i, e, "destination_verified")
        BY Zenon, <3>1 DEF Same, Value, Holds
      <3>3. QED
        BY Zenon, <1>9, <2>1, <3>2 DEF PayeeVerification, Passes
    <2>2. CASE y # NoResult
      <3>1. "payee_verified" \in asked.evidence /\ "destination_verified" \in asked.evidence
        BY <1>7, <2>2
      <3>2. Holds(i, f, "payee_verified") /\ Holds(i, f, "destination_verified")
        BY Zenon, <3>1, GivenIsGood DEF asked
      <3>3. QED
        BY Zenon, <3>2 DEF PayeeVerification, Passes
    <2>3. QED
      BY Zenon, <2>1, <2>2
  <1>12. Passes(v) /\ Passes(w)
    BY <1>1, ResultFields DEF Satisfied, Passes
  <1>13. Rules(i, f, s) = PaymentsPack(i, f, s)
    BY DEF Rules
  <1>14. \A n \in DOMAIN Rules(i, f, s) : Passes(Rules(i, f, s)[n])
    BY <1>10, <1>11, <1>12, <1>13 DEF PaymentsPack
  <1>15. QED
    BY Zenon, <1>14, AllPass

LEMMA ClinicalCompletes ==
    ASSUME NEW i \in PreflightIntents, NEW e, NEW f, NEW s, i.pack = "clinical_template",
           i.capability \in ClinicalCapabilities, AnswersFully(e, f, Check(i, e, s))
    PROVE  OnlyDenials(i, f, s)
  <1> DEFINE v == NotCovered(i, ClinicalCapabilities)
             p == ClinicalReview(i, e, s)
             w == Satisfied
             asked == Check(i, e, s)
             roles == {"licensed_clinician"}
  <1>1. v = NoResult
    BY Zenon DEF NotCovered
  <1>2. p = NoResult \/ \E reason, risk, r : p = NeedsApproval(reason, risk, r)
    BY AskForm DEF ClinicalReview
  <1>3. w = NoResult \/ \E reason : w = Allows(reason)
    BY Zenon DEF Satisfied
  <1>4. Rules(i, e, s) = <<v, p, w>>
    BY DEF Rules, ClinicalPack
  <1>5. /\ asked.evidence = UNION {<<v, p, w>>[n].evidence : n \in 1..3}
        /\ asked.approvals = UNION {<<v, p, w>>[n].approvals : n \in 1..3}
    BY AskedByAll, <1>4
  <1>6. asked.evidence = {} /\ asked.approvals = p.approvals
    <2> HIDE DEF v, p, w, asked
    <2>1. v.evidence = {} /\ v.approvals = {}
      BY Zenon, <1>1, ResultFields
    <2>2. p.evidence = {}
      BY Zenon, <1>2, ApprovalForm
    <2>3. w.evidence = {} /\ w.approvals = {}
      BY Zenon, <1>3, AllowForm
    <2>4. QED
      BY <1>5, <2>1, <2>2, <2>3
  <1> HIDE DEF asked
  <1>7. asked.evidence \cap ApprovalKeys = {}
    BY <1>6
  <1>8. IsClinicalRisk(i, f) <=> IsClinicalRisk(i, e)
    <2>1. Same(e, f, "clinical_risk")
      BY <1>6 DEF AnswersFully, ApprovalKeys, asked
    <2>2. Value(i, f, "clinical_risk", "") = Value(i, e, "clinical_risk", "")
      BY Zenon, <2>1 DEF Same, Value
    <2>3. QED
      BY Zenon, <2>2 DEF IsClinicalRisk
  <1>9. Passes(ClinicalReview(i, f, s))
    <2>1. CASE ~IsClinicalRisk(i, f)
      BY Zenon, <2>1 DEF ClinicalReview, Passes
    <2>2. CASE IsClinicalRisk(i, f)
      <3>1. asked.approvals = (IF ApprovalSatisfied(i, e, s, roles) THEN {} ELSE roles)
        BY <1>6, <1>8, <2>2, AskForm DEF ClinicalReview
      <3>2. roles # {}
        OBVIOUS
      <3>3. ApprovalSatisfied(i, f, s, roles)
        BY Zenon, <1>7, <3>1, <3>2, ApprovalAnswered DEF asked
      <3>4. QED
        BY <2>2, <3>3, AskForm DEF ClinicalReview, Passes
    <2>3. QED
      BY Zenon, <2>1, <2>2
  <1>10. Passes(v) /\ Passes(w)
    BY <1>1, ResultFields DEF Satisfied, Passes
  <1>11. Rules(i, f, s) = ClinicalPack(i, f, s)
    BY DEF Rules
  <1>12. \A n \in DOMAIN Rules(i, f, s) : Passes(Rules(i, f, s)[n])
    BY <1>9, <1>10, <1>11 DEF ClinicalPack
  <1>13. QED
    BY Zenon, <1>12, AllPass

(* One answer settles what later rules depend on; the next one leaves      *)
(* nothing to ask for.                                                     *)
LEMMA AnswersSettle ==
    ASSUME NEW i \in PreflightIntents, NEW e, NEW f, NEW s, Covered(i), AnswersFully(e, f, Check(i, e, s))
    PROVE  Settled(i, f)
  <1>1. i.pack = "destructive_data" => Env(i, f) # "unknown"
    BY Zenon, DefaultSettles
  <1>2. i.pack = "data_privacy" => Sensitivity(i, f) # "" \/ Holds(i, f, "sensitive_data")
    BY Zenon, PrivacySettles DEF Covered
  <1>3. QED
    BY Zenon, <1>1, <1>2 DEF Settled

LEMMA AnswersComplete ==
    ASSUME NEW i \in PreflightIntents, NEW e, NEW f, NEW s, Covered(i), Settled(i, e),
           AnswersFully(e, f, Check(i, e, s))
    PROVE  OnlyDenials(i, f, s)
  <1>1. CASE i.pack = "destructive_data"
    BY Zenon, <1>1, DefaultCompletes DEF Settled
  <1>2. CASE i.pack = "data_privacy"
    BY Zenon, <1>2, PrivacyCompletes DEF Covered
  <1>3. CASE i.pack = "access_governance"
    BY Zenon, <1>3, AccessCompletes DEF Covered
  <1>4. CASE i.pack = "payments"
    BY Zenon, <1>4, PaymentsCompletes DEF Covered
  <1>5. CASE i.pack = "clinical_template"
    BY Zenon, <1>5, ClinicalCompletes DEF Covered
  <1>6. QED
    BY Zenon, <1>1, <1>2, <1>3, <1>4, <1>5, PacksAssumption

(* A decision is what check says of the evidence at hand; after one answer *)
(* the evidence is settled, after two only a denial is left.               *)
PreflightInv ==
    /\ intent \in PreflightIntents
    /\ rounds \in Nat
    /\ decision = Undecided \/ decision = Raised \/ decision = Check(intent, evidence, signed)
    /\ Covered(intent) /\ rounds >= (IF decision = Undecided THEN 1 ELSE 2) => Settled(intent, evidence)
    /\ Covered(intent) /\ rounds >= (IF decision = Undecided THEN 2 ELSE 3) =>
           OnlyDenials(intent, evidence, signed)

LEMMA CheckDecides ==
    ASSUME NEW i \in PreflightIntents, NEW e, NEW s
    PROVE  /\ Check(i, e, s).outcome \in Outcomes
           /\ Check(i, e, s) # Undecided
           /\ OnlyDenials(i, e, s) => Check(i, e, s).outcome \in {"allow", "deny"}
  <1>1. Check(i, e, s).outcome = Governing(Rules(i, e, s)).outcome
    BY DEF Check
  <1>2. Check(i, e, s).outcome \in Outcomes
    <2>1. WellRated(Governing(Rules(i, e, s)))
      BY Zenon, GoverningRule
    <2>2. QED
      BY Zenon, <1>1, <2>1 DEF WellRated
  <1>3. Undecided.outcome \notin Outcomes
    BY DEF Undecided, Outcomes
  <1>4. OnlyDenials(i, e, s) => Check(i, e, s).outcome \in {"allow", "deny"}
    <2>1. CASE Blockers(Rules(i, e, s)) = {}
      BY Zenon, <1>1, <2>1, GoverningRule
    <2>2. CASE Blockers(Rules(i, e, s)) # {}
      BY Zenon, <1>1, <2>2, GoverningRule DEF OnlyDenials
    <2>3. QED
      BY Zenon, <2>1, <2>2
  <1>5. QED
    BY Zenon, <1>2, <1>3, <1>4

LEMMA PreflightStarts == PreflightInit => PreflightInv
  BY DEF PreflightInit, PreflightInv

LEMMA CheckKeeps == ASSUME PreflightInv, CheckIntent PROVE PreflightInv'
  <1>1. /\ intent' = intent /\ evidence' = evidence /\ signed' = signed
        /\ decision = Undecided /\ rounds' = rounds + 1 /\ rounds \in Nat /\ intent \in PreflightIntents
    BY Zenon DEF CheckIntent, PreflightInv
  <1>2. decision' = Raised \/ decision' = Check(intent, evidence, signed)
    BY Zenon DEF CheckIntent
  <1>3. Raised # Undecided
    BY DEF Raised, Undecided
  <1>4. decision' # Undecided
    BY Zenon, <1>1, <1>2, <1>3, CheckDecides
  <1>5. rounds' >= 2 => rounds >= 1
    BY <1>1
  <1>6. rounds' >= 3 => rounds >= 2
    BY <1>1
  <1>7. rounds' \in Nat
    BY <1>1
  <1>8. Covered(intent) /\ rounds' >= 2 => Settled(intent, evidence)
    BY Zenon, <1>1, <1>5 DEF PreflightInv
  <1>9. Covered(intent) /\ rounds' >= 3 => OnlyDenials(intent, evidence, signed)
    BY Zenon, <1>1, <1>6 DEF PreflightInv
  <1>10. QED
    BY Zenon, <1>1, <1>2, <1>4, <1>7, <1>8, <1>9 DEF PreflightInv

LEMMA AnswerKeeps == ASSUME PreflightInv, AnswerDecision PROVE PreflightInv'
  <1>1. /\ intent' = intent /\ signed' = signed /\ rounds' = rounds /\ decision' = Undecided
        /\ decision.outcome \in {"needs_evidence", "approval_required"}
        /\ rounds \in Nat /\ intent \in PreflightIntents
    BY Zenon DEF AnswerDecision, PreflightInv
  <1>2. decision # Undecided /\ decision # Raised
    BY <1>1 DEF Undecided, Raised
  <1>3. decision = Check(intent, evidence, signed)
    BY Zenon, <1>2 DEF PreflightInv
  <1>4. PICK values \in Answers, ids \in {{}, {intent.requester}, {"reviewer"}} :
            evidence' = Answered(decision.evidence, decision.approvals, values, ids)
    BY Zenon DEF AnswerDecision
  <1>5. AnswersFully(evidence, evidence', decision)
    BY Zenon, <1>4, AnswerIsFull
  <1>6. Covered(intent) => Settled(intent, evidence')
    BY Zenon, <1>1, <1>3, <1>5, AnswersSettle
  <1>7. Covered(intent) /\ rounds >= 2 => OnlyDenials(intent, evidence', signed)
    <2>1. Covered(intent) /\ rounds >= 2 => Settled(intent, evidence)
      BY Zenon, <1>2 DEF PreflightInv
    <2>2. QED
      BY Zenon, <1>1, <1>3, <1>5, <2>1, AnswersComplete
  <1>8. QED
    BY Zenon, <1>1, <1>6, <1>7 DEF PreflightInv

LEMMA PreflightInvariant == PreflightSpec => []PreflightInv
  <1>1. PreflightInv /\ [PreflightNext]_preflightVars => PreflightInv'
    <2> SUFFICES ASSUME PreflightInv, [PreflightNext]_preflightVars PROVE PreflightInv'
      BY Zenon
    <2>1. CASE UNCHANGED preflightVars
      BY Zenon, <2>1 DEF preflightVars, PreflightInv
    <2>2. QED
      BY Zenon, <2>1, CheckKeeps, AnswerKeeps DEF PreflightNext
  <1>2. QED
    BY PreflightStarts, <1>1, PTL DEF PreflightSpec

(* For every intent and pack, every evidence a caller has and every set of *)
(* signed approvals: one rule that denies decides, the approval of a broad *)
(* export governs the privacy pack, and a caller who answers in full is    *)
(* done after two answers (PreflightEngine.check and the policy packs).    *)
THEOREM DenyDominatesTheorem == PreflightSpec => []DenyDominates
  <1>1. PreflightInv => DenyDominates
    <2> SUFFICES ASSUME PreflightInv PROVE DenyDominates
      BY Zenon
    <2>1. Raised.outcome = "raised" /\ Undecided.outcome = "none" /\ Raised.unmet = {} /\ Undecided.unmet = {}
      BY DEF Raised, Undecided
    <2>2. HasDecision => decision = Check(intent, evidence, signed)
      BY Zenon, <2>1 DEF PreflightInv, HasDecision
    <2>3. OneDenialDenies
      <3> SUFFICES ASSUME HasDecision, NEW r \in Results, r.outcome = "deny"
                   PROVE  decision.outcome = "deny"
        BY Zenon DEF OneDenialDenies
      <3>1. PICK n \in DOMAIN Rules(intent, evidence, signed) : r = Rules(intent, evidence, signed)[n]
        BY Zenon DEF Results
      <3>2. QED
        BY Zenon, <2>2, <3>1, DenialGoverns DEF PreflightInv
    <2>4. AnsweredInTwoRounds
      <3> SUFFICES ASSUME rounds > 2, HasDecision, Covered(intent)
                   PROVE  decision.outcome \in {"allow", "deny"}
        BY Zenon DEF AnsweredInTwoRounds
      <3>1. rounds >= 3 /\ rounds \in Nat
        BY DEF PreflightInv
      <3>2. intent \in PreflightIntents
        BY Zenon DEF PreflightInv
      <3>3. decision # Undecided
        BY Zenon, <2>2, <3>2, CheckDecides
      <3>4. OnlyDenials(intent, evidence, signed)
        BY Zenon, <3>1, <3>3 DEF PreflightInv
      <3>5. QED
        BY Zenon, <2>2, <3>2, <3>4, CheckDecides
    <2>5. ExportApprovalGoverns
      <3> SUFFICES ASSUME "BROAD_DATA_EXPORT_APPROVAL_REQUIRED" \in decision.unmet,
                          intent.pack = "data_privacy"
                   PROVE  decision.reason = "BROAD_DATA_EXPORT_APPROVAL_REQUIRED"
        BY Zenon DEF ExportApprovalGoverns
      <3>1. decision = Check(intent, evidence, signed)
        BY Zenon, <2>1 DEF PreflightInv
      <3>2. QED
        BY Zenon, <3>1, ExportGoverns DEF PreflightInv
    <2>6. QED
      BY Zenon, <2>3, <2>4, <2>5 DEF DenyDominates
  <1>2. QED
    BY PreflightInvariant, <1>1, PTL
=============================================================================
