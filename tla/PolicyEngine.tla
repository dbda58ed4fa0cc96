---------------------------- MODULE PolicyEngine ----------------------------
(***************************************************************************)
(* The admission policy: the hard rules and workflow rules of              *)
(* actenon/policy, for the refund and the invoice-payment wedge, and the   *)
(* intake helper that builds invoice-payment intents.                      *)
(*                                                                         *)
(* Parameters, constraints and facts are partial functions; a key outside  *)
(* the domain is absent.  A batch hash is the tuple of what is hashed.     *)
(* Every hard rule is evaluated, also after one has denied, so a rule that *)
(* indexes an absent parameter raises whatever the earlier rules said.     *)
(***************************************************************************)
EXTENDS Integers, Sequences

Lookup(f, k, default) == IF k \in DOMAIN f THEN f[k] ELSE default

(* A fact constrains the value only when it is given.                      *)
Contradicts(facts, k, value) == k \in DOMAIN facts /\ facts[k] # value

(***************************************************************************)
(* Intake: api/invoice_payment.py and ActionIntentIntakeService.parse.     *)
(***************************************************************************)
InvoiceIds(ids) == {ids[n] : n \in DOMAIN ids}

(* sorted(set(ids)).                                                       *)
NormalizeInvoiceIds(ids) ==
    CHOOSE q \in UNION {[1 .. n -> InvoiceIds(ids)] : n \in 0 .. Len(ids)} :
        InvoiceIds(q) = InvoiceIds(ids) /\ \A m, n \in DOMAIN q : m < n => q[m] < q[n]

BatchHash(p) == <<p.payer, p.supplier, p.bank, NormalizeInvoiceIds(p.invoices), p.amount,
                  p.currency, p.date, p.batch>>

BoundKeys == {"payer", "supplier", "bank", "invoices", "amount", "currency", "date", "batch",
              "hash"}

StringKeys == {"payer", "supplier", "bank", "currency", "date", "batch", "proposer"}

(* The action that build_invoice_payment_action_intent_payload makes of a  *)
(* payment and its proposer.                                               *)
BuiltAction(payment, proposer) ==
    LET normal == [payment EXCEPT !.invoices = NormalizeInvoiceIds(payment.invoices)]
        bound == [k \in BoundKeys |-> IF k = "hash" THEN BatchHash(normal) ELSE normal[k]]
    IN  [name |-> "invoice_payment.execute", capability |-> "invoice_payment.execute",
         resourceType |-> "payment_batch", resourceId |-> payment.batch,
         parameters |-> [k \in BoundKeys \cup {"proposer"} |->
                            IF k = "proposer" THEN proposer ELSE bound[k]],
         constraints |-> bound]

Parses(i) == i.issuedAt < i.expiresAt /\ DOMAIN i.action.parameters # {}

(***************************************************************************)
(* Hard rules: the set of denials each one contributes.                    *)
(***************************************************************************)
Chronology(i, c) ==
    IF i.issuedAt > c.now THEN {"INTENT_ISSUED_IN_FUTURE"}
    ELSE IF i.expiresAt <= c.now THEN {"INTENT_EXPIRED"} ELSE {}

Ttl(i, c) ==
    IF c.maxTtl <= 0 THEN {"INVALID_MAX_TTL"}
    ELSE IF i.expiresAt - i.issuedAt > c.maxTtl THEN {"INTENT_TTL_EXCEEDED"} ELSE {}

CapabilityScope(i, c) ==
    IF c.scope # {} /\ i.action.capability \notin c.scope THEN {"CAPABILITY_OUTSIDE_SCOPE"} ELSE {}

(* ReceiptEvidenceVerificationRule: every receipt an intent cites must be  *)
(* stored, match its declared digest, be executed and of the capability.   *)
ReceiptRefDenial(ref, store, capability) ==
    IF ref.id \notin DOMAIN store THEN {"RECEIPT_EVIDENCE_MISSING"}
    ELSE IF ref.digest = "invalid" THEN {"RECEIPT_EVIDENCE_DIGEST_INVALID"}
    ELSE IF ref.digest # store[ref.id].digest THEN {"RECEIPT_EVIDENCE_DIGEST_MISMATCH"}
    ELSE IF store[ref.id].outcome # "executed" THEN {"RECEIPT_EVIDENCE_OUTCOME_INVALID"}
    ELSE IF store[ref.id].capability # capability THEN {"RECEIPT_EVIDENCE_CAPABILITY_MISMATCH"}
    ELSE {}

ReceiptEvidence(i, c, capability) ==
    UNION {ReceiptRefDenial(ref, c.receipts, capability) : ref \in i.receiptRefs}

RefundShape(a) ==
    IF a.name # "refund.create" THEN {"REFUND_ACTION_NAME_INVALID"}
    ELSE IF a.capability # "refund.execute" THEN {"REFUND_CAPABILITY_INVALID"}
    ELSE IF a.resourceType # "payment" THEN {"REFUND_TARGET_TYPE_INVALID"}
    ELSE IF Lookup(a.parameters, "amount", 0) <= 0 THEN {"REFUND_AMOUNT_INVALID"}
    ELSE IF Lookup(a.parameters, "currency", "") \in {"", "lower"} THEN {"REFUND_CURRENCY_INVALID"}
    ELSE {}

RefundBinding(a, facts) ==
    (IF Contradicts(facts, "payment_id", a.resourceId) THEN {"REFUND_TARGET_MISMATCH"} ELSE {})
    \cup (IF "remaining" \in DOMAIN facts /\ a.parameters.amount > facts.remaining
          THEN {"REFUND_AMOUNT_EXCEEDS_BALANCE"} ELSE {})
    \cup (IF Contradicts(facts, "currency", a.parameters.currency)
          THEN {"REFUND_CURRENCY_MISMATCH"} ELSE {})

InvoiceShape(i) ==
    LET a == i.action
        p == a.parameters
    IN  IF a.name # "invoice_payment.execute" THEN {"INVOICE_PAYMENT_ACTION_NAME_INVALID"}
        ELSE IF a.capability # "invoice_payment.execute" THEN {"INVOICE_PAYMENT_CAPABILITY_INVALID"}
        ELSE IF a.resourceType # "payment_batch" THEN {"INVOICE_PAYMENT_TARGET_TYPE_INVALID"}
        ELSE IF "hash" \notin DOMAIN p \/ \E k \in StringKeys : Lookup(p, k, "") = ""
             THEN {"INVOICE_PAYMENT_FIELD_INVALID"}
        ELSE IF Lookup(p, "amount", 0) <= 0 THEN {"INVOICE_PAYMENT_AMOUNT_INVALID"}
        ELSE IF p.currency = "lower" THEN {"INVOICE_PAYMENT_CURRENCY_INVALID"}
        ELSE IF Lookup(p, "invoices", <<>>) = <<>> \/ p.invoices # NormalizeInvoiceIds(p.invoices)
             THEN {"INVOICE_SET_INVALID"}
        ELSE IF p.date = "garbled" THEN {"PAYMENT_DATE_INVALID"}
        ELSE IF a.resourceId # p.batch THEN {"PAYMENT_BATCH_BINDING_MISMATCH"}
        ELSE IF p.proposer # i.requester THEN {"PROPOSER_IDENTITY_MISMATCH"}
        ELSE {}

(* Mutation of ConstraintBinding: a constraint that is absent binds nothing.*)
ConstraintBindingIfPresent(a) ==
    IF \E k \in BoundKeys : Contradicts(a.constraints, k, a.parameters[k])
    THEN {"PAYMENT_BINDING_MISMATCH"} ELSE {}

ConstraintBinding(a) ==
    IF \E k \in BoundKeys : k \notin DOMAIN a.constraints \/ a.constraints[k] # a.parameters[k]
    THEN {"PAYMENT_BINDING_MISMATCH"} ELSE {}

FactMismatch == [payer |-> "WRONG_ENTITY", supplier |-> "PAYEE_MISMATCH", bank |-> "BANK_MISMATCH",
                 amount |-> "PAYMENT_AMOUNT_MISMATCH", currency |-> "PAYMENT_CURRENCY_MISMATCH",
                 date |-> "PAYMENT_DATE_MISMATCH"]

(* The entity, payee, bank and amount/currency/date rules.                 *)
FactBinding(p, facts) ==
    {FactMismatch[k] : k \in {k \in DOMAIN FactMismatch : Contradicts(facts, k, p[k])}}

InvoiceSet(p, facts) ==
    IF "invoices" \in DOMAIN facts /\ p.invoices # NormalizeInvoiceIds(facts.invoices)
    THEN {"INVOICE_SET_MISMATCH"} ELSE {}

Duplicate(p, facts) ==
    IF InvoiceIds(p.invoices) \cap facts.duplicates # {} \/ facts.duplicateDetected
    THEN {"DUPLICATE_INVOICE_PAYMENT"} ELSE {}

BatchHashRule(p, facts) ==
    IF p.hash # BatchHash(p) \/ Contradicts(facts, "hash", p.hash)
    THEN {"BATCH_HASH_MISMATCH"} ELSE {}

(* What the rules after the shape rule raise for: a KeyError for an absent *)
(* parameter, a ValueError of compute_invoice_payment_batch_hash for an    *)
(* empty invoice set or a date that does not parse.                        *)
HardRulesRaise(i, c) ==
    LET p == i.action.parameters
    IN  IF c.wedge = "refund" THEN {"amount", "currency"} \ DOMAIN p # {}
        ELSE \/ (BoundKeys \ {"invoices"}) \ DOMAIN p # {}
             \/ Lookup(p, "invoices", <<>>) = <<>>
             \/ p.date = "garbled"

HardDenials(i, c) ==
    LET a == i.action
        p == a.parameters
    IN  Chronology(i, c) \cup Ttl(i, c) \cup CapabilityScope(i, c) \cup
        IF c.wedge = "refund"
        THEN ReceiptEvidence(i, c, "refund.execute") \cup RefundShape(a)
             \cup RefundBinding(a, c.facts)
        ELSE ReceiptEvidence(i, c, "invoice_payment.execute") \cup InvoiceShape(i)
             \cup ConstraintBinding(a) \cup FactBinding(p, c.facts) \cup InvoiceSet(p, c.facts)
             \cup Duplicate(p, c.facts) \cup BatchHashRule(p, c.facts)

(***************************************************************************)
(* Workflow rules of tenant_demo: the outcomes they contribute.            *)
(***************************************************************************)
RefundWorkflow(i, c) ==
    CASE c.facts.risk = "blocked" -> {"deny"}
      [] c.facts.risk = "review" -> IF "external_id" \in i.evidence THEN {} ELSE {"needs-evidence"}
      [] c.facts.risk = "approval" -> {"approval-required"}
      [] c.facts.risk = "normal" -> {"allow"}
      [] OTHER -> {}

InvoiceWorkflow(i, c) ==
    (IF c.facts.risk = "blocked" THEN {"deny"} ELSE {})
    \cup (IF c.facts.requiredEvidence \ i.evidence # {} THEN {"needs-evidence"} ELSE {})
    \cup (IF c.facts.requiredApprovals \ c.facts.providedApprovals # {} \/ c.facts.approvalRequired
          THEN {"approval-required"} ELSE {})
    \cup {"allow"}

Workflow(i, c) ==
    IF i.tenant # "tenant_demo" THEN {}
    ELSE IF c.wedge = "refund" THEN RefundWorkflow(i, c) ELSE InvoiceWorkflow(i, c)

(***************************************************************************)
(* PolicyEngine.evaluate.                                                  *)
(***************************************************************************)

(* Mutation of Aggregate: what the workflow allows is not held back.       *)
AggregateAllowFirst(found) ==
    IF "deny" \in found THEN "deny" ELSE IF "allow" \in found THEN "allow" ELSE "deny"

Aggregate(found) ==
    IF found = {} THEN "deny"
    ELSE LET ranks == <<"deny", "needs-evidence", "approval-required", "allow">>
         IN  ranks[CHOOSE n \in 1..4 : ranks[n] \in found
                                       /\ \A m \in 1..(n - 1) : ranks[m] \notin found]

Evaluate(i, c) ==
    IF HardRulesRaise(i, c) THEN "raised"
    ELSE IF HardDenials(i, c) # {} THEN "deny"
    ELSE Aggregate(Workflow(i, c))
=============================================================================
