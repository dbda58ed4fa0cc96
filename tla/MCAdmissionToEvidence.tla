----------------------- MODULE MCAdmissionToEvidence ------------------------
(***************************************************************************)
(* The capability escrow, and the way of a request from admission to       *)
(* evidence: kernel and policy, preflight, verification of the proof and   *)
(* of its wire form, the local runtime, execution states and modes,        *)
(* outcome records and the evidence query.                                 *)
(***************************************************************************)
EXTENDS MCCapabilityEscrow, AdmissionKernel, ProofVerification, ExecutionStates, OutcomeRecords,
        PreflightPolicy

VARIABLES live,   \* the component this behaviour is about
          jwDocument, jwRead,
          lrDisk, lrCli, lrSub, lrExp, lrBundle,
          eqIntents, eqSubmits, eqProofs, eqOutcomes, eqFiles, eqLast

jwVars == <<jwDocument, jwRead>>
lrVars == <<lrDisk, lrCli, lrSub, lrExp, lrBundle>>
eqVars == <<eqIntents, eqSubmits, eqProofs, eqOutcomes, eqFiles, eqLast>>

(***************************************************************************)
(* One submission: an invoice payment or a refund, as the wedges build     *)
(* them or with one field of the intent or of its context that deviates.   *)
(***************************************************************************)

Payment == [payer |-> "acme", supplier |-> "sup", bank |-> "iban", invoices |-> <<2, 1>>,
            amount |-> 5, currency |-> "GBP", date |-> "today", batch |-> "b1"]

InvoiceIntent == [issuedAt |-> 1, expiresAt |-> 3, tenant |-> "tenant_demo", requester |-> "alice",
               action |-> BuiltAction(Payment, "alice"), evidence |-> {"invoice"},
               receiptRefs |-> {}]

InvoiceFacts == [risk |-> "normal", duplicates |-> {}, duplicateDetected |-> FALSE,
              requiredEvidence |-> {"invoice"}, requiredApprovals |-> {"cfo"},
              providedApprovals |-> {"cfo"}, approvalRequired |-> FALSE]

InvoiceContext == [wedge |-> "invoice_payment", now |-> 2, maxTtl |-> 2, scope |-> {},
                facts |-> InvoiceFacts, receipts |-> <<>>]

Without(f, k) == [x \in DOMAIN f \ {k} |-> f[x]]

Params(k, v) == [InvoiceIntent EXCEPT !.action.parameters[k] = v]

InvoiceIntents ==
    {InvoiceIntent, Params("payer", "other"), Params("supplier", ""), Params("invoices", <<2, 1>>),
     Params("invoices", <<>>), Params("amount", 0), Params("currency", "lower"),
     Params("date", "garbled"), Params("batch", "b2"), Params("hash", <<>>),
     Params("proposer", "bob")}
    \cup {[InvoiceIntent EXCEPT !.action.parameters = Without(@, k)] : k \in {"amount", "proposer"}}
    \cup {[InvoiceIntent EXCEPT !.action.constraints = Without(@, "bank")],
          [InvoiceIntent EXCEPT !.action.constraints.bank = "iban2", !.action.parameters.bank = "iban2"],
          [InvoiceIntent EXCEPT !.expiresAt = 1], [InvoiceIntent EXCEPT !.expiresAt = 4],
          [InvoiceIntent EXCEPT !.evidence = {}], [InvoiceIntent EXCEPT !.tenant = "other"],
          [InvoiceIntent EXCEPT !.action.name = "refund.create"],
          [InvoiceIntent EXCEPT !.action.resourceType = "payment"]}

Fact(k, v) == [InvoiceContext EXCEPT !.facts = (k :> v) @@ InvoiceFacts]

InvoiceContexts ==
    {InvoiceContext, [InvoiceContext EXCEPT !.now = 0], [InvoiceContext EXCEPT !.now = 3],
     [InvoiceContext EXCEPT !.maxTtl = 0], [InvoiceContext EXCEPT !.scope = {"refund.execute"}],
     Fact("risk", "blocked"), Fact("duplicates", {2}), Fact("duplicateDetected", TRUE),
     Fact("providedApprovals", {}), Fact("approvalRequired", TRUE), Fact("payer", "other"),
     Fact("supplier", "sup"), Fact("bank", "iban3"), Fact("invoices", <<1, 2, 1>>),
     Fact("invoices", <<1>>), Fact("amount", 6), Fact("currency", "EUR"), Fact("date", "later"),
     Fact("hash", <<>>)}

RefundIntent == [InvoiceIntent EXCEPT !.action = [name |-> "refund.create",
    capability |-> "refund.execute", resourceType |-> "payment", resourceId |-> "p1",
    parameters |-> [amount |-> 2, currency |-> "GBP"], constraints |-> <<>>]]

RefundContext == [InvoiceContext EXCEPT !.wedge = "refund", !.facts = [risk |-> "normal"],
    !.receipts = "r1" :> [digest |-> "d1", outcome |-> "executed", capability |-> "refund.execute"]
              @@ "r2" :> [digest |-> "d2", outcome |-> "refused", capability |-> "refund.execute"]
              @@ "r3" :> [digest |-> "d3", outcome |-> "executed", capability |-> "other"]]

RefundIntents ==
    {RefundIntent, [RefundIntent EXCEPT !.action.parameters.amount = 0],
     [RefundIntent EXCEPT !.action.parameters = Without(@, "currency")],
     [RefundIntent EXCEPT !.action.capability = "other"],
     [RefundIntent EXCEPT !.evidence = {"external_id"}]}
    \cup {[RefundIntent EXCEPT !.receiptRefs = {[id |-> id, digest |-> d]}] :
             id \in {"r1", "r2", "r3", "r4"}, d \in {"d1", "d2", "d3", "invalid"}}

RefundContexts ==
    {[RefundContext EXCEPT !.facts = f] :
        f \in {[risk |-> r] : r \in {"normal", "blocked", "review", "approval", "odd"}}
              \cup {[risk |-> "normal", remaining |-> 1], [risk |-> "normal", payment_id |-> "p2"],
                    [risk |-> "normal", currency |-> "EUR"]}}

KernelCases ==
    {[intent |-> i, context |-> InvoiceContext, seal |-> "off"] : i \in InvoiceIntents}
    \cup {[intent |-> InvoiceIntent, context |-> c, seal |-> "off"] : c \in InvoiceContexts}
    \cup {[intent |-> InvoiceIntent, context |-> InvoiceContext, seal |-> m] :
              m \in {"optional", "required"}}
    \cup {[intent |-> i, context |-> c, seal |-> "off"] : i \in RefundIntents, c \in RefundContexts}

(***************************************************************************)
(* Every pack, with the intents that make each of its rules apply, and a   *)
(* caller that answers what it is asked for.                               *)
(***************************************************************************)

Misread == -1           \* a value that int() rejects

PreflightIntent == [pack |-> "destructive_data", capability |-> "data.export",
         parameters |-> <<>>, context |-> <<>>, selectorEnv |-> "", requester |-> "alice",
         threshold |-> 10, allowsExternal |-> FALSE, allowedResidency |-> {}]

Over(pack, capabilities, parameters) ==
    {[PreflightIntent EXCEPT !.pack = pack, !.capability = c, !.parameters = p] :
        c \in capabilities, p \in parameters}

Moves == "source_residency" :> "gb" @@ "destination_residency" :> "us"

PreflightCases ==
    Over("destructive_data",
         {"database.delete", "backup.delete", "data.export", "iam.permission.grant",
          "payment.release", "notes.read"},
         {<<>>, "environment" :> "production", "row_count" :> 10000, "row_count" :> Misread,
          "role" :> "*"})
    \cup Over("data_privacy", {"data.export", "data.share"},
              {<<>>, "row_count" :> 10, "destination" :> "external", Moves,
               Moves @@ "sensitivity" :> "pii" @@ "destination" :> "external"})
    \cup Over("access_governance", {"iam.role.assign"},
              {<<>>, "role" :> "admin", "access_mode" :> "standing",
               "role_tier" :> "critical" @@ "approver_ids" :> {"alice"}})
    \cup Over("payments", {"payment.release", "bank_details.update"},
              {<<>>, "amount_minor" :> 10, "notional_minor" :> 9, "new_payee" :> "yes",
               "new_payee" :> "no" @@ "amount_minor" :> Misread})
    \cup Over("clinical_template", {"medication.order", "clinical.record.update"},
              {<<>>, "clinical_risk" :> "high"})
    \cup Over("payments", {"data.export"}, {<<>>})
    \cup {[i EXCEPT !.allowsExternal = TRUE, !.allowedResidency = {<<"gb", "us">>}] :
             i \in Over("data_privacy", {"data.export"}, {Moves @@ "destination" :> "external"})}

(* What a caller answers: the keys a rule may ask for.                     *)
FullAnswers ==
    {[k \in {"change_ticket", "backup_verified", "destination_allowlisted",
             "external_egress_approved", "residency_allowed", "payee_verified",
             "destination_verified", "policy_pack_selection"} |-> "yes"]
     @@ "capability_classification" :> "non_consequential"
     @@ "environment" :> env @@ "sensitivity_classification" :> class :
        env \in {"production", "staging"}, class \in {"internal", "pii"}}

ApprovalSets ==
    {{}} \cup {{[approver |-> who, type |-> type, valid |-> ok]} :
                  who \in {"alice", "bob"}, type \in {"security_admin", "privacy_reviewer"},
                  ok \in BOOLEAN}

(***************************************************************************)
(* An issuer signs five intents; a proof is presented as minted or with    *)
(* one field changed, with the same intent or one that differs in a field  *)
(* or in its spelling.                                                     *)
(***************************************************************************)

Tenant(a) == [tenant_id |-> "t1", attributes |-> a]
WireAction(amount) == [name |-> "refund", capability |-> "payment.refund", parameters |-> [amount |-> amount],
                   scope |-> "absent"]
WireTarget(id) == [resource_type |-> "order", resource_id |-> id, selectors |-> [region |-> "eu"], uri |-> "absent"]
Party(id) == [id |-> id, display_name |-> "absent", attributes |-> "absent"]
WireIntent == [version |-> "v1", intent_id |-> "i1", sep |-> "T", tenant |-> Tenant("absent"),
         requester |-> Party("agent"), action |-> WireAction(1), target |-> WireTarget("o1"),
         issued_at |-> 0, expires_at |-> 1]

ShownIntents ==
    {WireIntent, [WireIntent EXCEPT !.tenant = Tenant("empty")], [WireIntent EXCEPT !.tenant = Tenant("null")],
     [WireIntent EXCEPT !.sep = " "], [WireIntent EXCEPT !.action = WireAction(2)], [WireIntent EXCEPT !.target = WireTarget("o2")],
     [WireIntent EXCEPT !.intent_id = "i2"], [WireIntent EXCEPT !.requester = Party("other")],
     [WireIntent EXCEPT !.requester.display_name = "null"], [WireIntent EXCEPT !.requester.display_name = "blank"],
     [WireIntent EXCEPT !.action.scope = "empty"], [WireIntent EXCEPT !.target.uri = "null"], [WireIntent EXCEPT !.target.resource_id = ""],
     [WireIntent EXCEPT !.target.uri = "blank"],
     [WireIntent EXCEPT !.expires_at = 2],
     [WireIntent EXCEPT !.action.capability = "payment.*", !.version = "v2"]}

Audience(id) == [type |-> "service", id |-> id, uri |-> "absent"]

ProofGrants == {[audience |-> Audience("a1"), capabilities |-> {"payment.refund"},
              constraints |-> [amount |-> 1]]}

EdgeContext(aud, caps, cons, sels) ==
    [audience |-> Audience(aud), capabilities |-> caps, constraints |-> cons, selectors |-> sels]

ProofVerifier(skew, disclosure, boundary, source) ==
    [keys |-> {"issuer_key"}, skew |-> skew, mode |-> disclosure, boundary |-> boundary, source |-> source]

PlainContext == EdgeContext("a1", {"payment.refund"}, <<>>, {})

ProofEdges ==
    {[context |-> c, verifier |-> ProofVerifier(0, "trusted_detailed", "none", "live")] :
        c \in {PlainContext, EdgeContext("a2", {"payment.refund"}, <<>>, {}),
               EdgeContext("a1", {"payment.refund", "*"}, <<>>, {}), EdgeContext("a1", {}, <<>>, {}),
               EdgeContext("a1", {"payment.refund"}, [amount |-> 1], {[resource_id |-> "o1"]}),
               EdgeContext("a1", {"payment.refund"}, [amount |-> 2], {}),
               EdgeContext("a1", {"payment.refund"}, <<>>, {<<>>}),
               EdgeContext("a1", {"payment.refund"}, <<>>, {[resource_id |-> "o2"], [region |-> "eu", resource_type |-> "order"]})}}
    \cup {[context |-> PlainContext, verifier |-> v] :
        v \in {ProofVerifier(1, "trusted_detailed", "none", "none"), ProofVerifier(0, "public_generic", "none", "error"),
               ProofVerifier(0, "local_debug", "a1", "live"), ProofVerifier(0, "local_debug", "b1", "live"),
               ProofVerifier(1, "public_generic", "none", "live")}}

WireChanges ==
    {[field |-> "none", value |-> 0], [field |-> "expires_at", value |-> 2],
     [field |-> "expires_at", value |-> 0],
     [field |-> "version", value |-> "v2"],
     [field |-> "signature", value |-> [key |-> "other_key", encoding |-> "base64url", payload |-> <<>>]],
     [field |-> "sep", value |-> "t"], [field |-> "tenant", value |-> Tenant("empty")],
     [field |-> "tenant", value |-> Tenant("null")],
     [field |-> "audience", value |-> Audience("a2")],
     [field |-> "audience", value |-> [Audience("a1") EXCEPT !.uri = "null"]],
     [field |-> "subject", value |-> [Party("agent") EXCEPT !.attributes = "empty"]], [field |-> "authority", value |-> "none"],
     [field |-> "scope", value |-> [mode |-> "exact", single_use |-> FALSE, capabilities |-> {},
                                    constraints |-> <<>>]],
     [field |-> "action", value |-> WireAction(2)],
     [field |-> "action_hash", value |-> [algorithm |-> "md5", canonicalization |-> "RFC8785-JCS",
                                          value |-> <<>>]]}

MintedIntents ==
    {WireIntent, [WireIntent EXCEPT !.requester.display_name = "blank"],
     [WireIntent EXCEPT !.target.uri = "blank"], [WireIntent EXCEPT !.tenant = Tenant("empty")],
     [WireIntent EXCEPT !.expires_at = 2]}

Unchanged == [field |-> "none", value |-> 0]

PlainEdges == {e \in ProofEdges : e.context = PlainContext /\ e.verifier.skew = 0 /\ e.verifier.source = "live"}

ProofCases ==
    {[change |-> Unchanged, intent |-> WireIntent, edge |-> e] : e \in ProofEdges}
    \cup {[change |-> Unchanged, intent |-> i, edge |-> e] : i \in ShownIntents, e \in PlainEdges}
    \cup {[change |-> c, intent |-> WireIntent, edge |-> e] : c \in WireChanges, e \in PlainEdges}

(***************************************************************************)
(* Documents nested up to one level past the transport limit.              *)
(***************************************************************************)

Wire == INSTANCE JsonWire WITH
    MaxDepth <- 3, MaxCanonical <- 1, Documents <- {}, document <- jwDocument, read <- jwRead

Level0 == {Wire!Scalar(k) : k \in Wire!Scalars} \cup {Wire!Array(<<>>), Wire!Object(<<>>, <<>>)}

KeyLists == {<<1>>, <<1, 2>>, <<2, 1>>, <<1, 1>>}

Wrap(S) == {Wire!Array(<<d>>) : d \in S}
           \cup {Wire!Object(k, [n \in DOMAIN k |-> IF n = 1 THEN d ELSE Wire!Scalar("string")]) :
                    d \in S, k \in KeyLists}

Chain(d) == {Wire!Array(<<d>>), Wire!Object(<<1>>, <<d>>)}

Level1 == Wrap(Level0)
Level2 == UNION {Chain(d) : d \in Level1} \cup {Wire!Array(<<Wire!Scalar("integer"), Wire!Scalar("string")>>)}
Level3 == UNION {Chain(d) : d \in {e \in Level2 : e.kind = "array"}}

JsonDocuments == Level0 \cup Level1 \cup Level2 \cup Level3

Json == INSTANCE JsonWire WITH
    MaxDepth <- 3, MaxCanonical <- 1, Documents <- JsonDocuments,
    document <- jwDocument, read <- jwRead

(***************************************************************************)
(* Two submissions and the demonstrations write under one root: an intent  *)
(* retried under request ids that become one segment and that are cut to   *)
(* one, a request of its own, an invoice, bodies that raise or do not      *)
(* parse. A behaviour is followed up to its export.                        *)
(***************************************************************************)

EmptyRequest ==
    [wrapped |-> FALSE, context |-> "absent", parses |-> FALSE, intent |-> <<>>, request |-> <<>>,
     capability |-> "other", complete |-> TRUE, scenario |-> "", facts |-> "none"]

RefundBody(request, scenario, facts) ==
    [EmptyRequest EXCEPT !.wrapped = TRUE, !.context = "object", !.parses = TRUE, !.intent = <<"i">>,
                      !.request = request, !.capability = "refund", !.scenario = scenario, !.facts = facts]

RuntimeCases == {
    RefundBody(<<"a", "/">>, "", "none"), RefundBody(<<"a", ":">>, "", "blocked"),
    [EmptyRequest EXCEPT !.parses = TRUE, !.intent = <<"i">>, !.capability = "invoice", !.scenario = "duplicate"],
    [RefundBody(<<"a">>, "", "none") EXCEPT !.context = "malformed"],
    [EmptyRequest EXCEPT !.request = <<"a">>]}

RuntimeSubmissions == {"s1", "s2"}
RuntimeSimulations == {"action-hash-mismatch", "replay-refused"}

Runtime == INSTANCE LocalRuntime WITH
    Submissions <- RuntimeSubmissions, Requests <- RuntimeCases,
    Simulations <- RuntimeSimulations, MaxSegment <- 3, MaxJobs <- 2,
    MaxExports <- 1, disk <- lrDisk, cli <- lrCli, sub <- lrSub, exp <- lrExp,
    bundle <- lrBundle

(***************************************************************************)
(* Two intents that may share an id with another content, two proofs, two  *)
(* outcomes and one query.                                                 *)
(***************************************************************************)

Evidence == INSTANCE EvidenceQuery WITH
    MaxProofs <- 2, MaxOutcomes <- 2, MaxSubmits <- 2, MaxChainDepth <- 2,
    Faulty <- TRUE, intents <- eqIntents, submits <- eqSubmits,
    proofs <- eqProofs, outcomes <- eqOutcomes, files <- eqFiles, last <- eqLast

(***************************************************************************)
(* The components side by side: a behaviour picks one and runs it alone.   *)
(* The others rest in an initial state or, where a component is an         *)
(* instance, its variables keep a value that it does not use.              *)
(***************************************************************************)

jwOff == jwDocument = 0 /\ jwRead = 0
lrOff == lrDisk = 0 /\ lrCli = 0 /\ lrSub = 0 /\ lrExp = 0 /\ lrBundle = 0
eqOff == eqIntents = 0 /\ eqSubmits = 0 /\ eqProofs = 0 /\ eqOutcomes = 0 /\
         eqFiles = 0 /\ eqLast = 0

KernelRests ==
    sub = [s \in Submissions |->
              [request |-> [intent |-> InvoiceIntent, context |-> InvoiceContext, seal |-> "off"],
               pc |-> "parse", proof |-> NoProof]]

SumInit == /\ live \in {"escrow", "kernel", "preflight", "proof", "json",
                        "runtime", "records", "evidence", "modes", "states"}
           /\ Init /\ VerificationInit /\ RecordsInit /\ ModesInit /\ StatesInit
           /\ (live # "kernel" => KernelRests) /\ KernelInit
           /\ (live # "preflight" => intent = PreflightIntent /\ signed = {}) /\ PreflightInit
           /\ live # "records" => frozen = Live
           /\ live # "modes" => mode = "brokered"
           /\ IF live = "json" THEN Json!Init ELSE jwOff
           /\ IF live = "runtime" THEN Runtime!Init ELSE lrOff
           /\ IF live = "evidence" THEN Evidence!Init ELSE eqOff

sumVars == <<live, escrowVars, kernelVars, preflightVars, verificationVars, jwVars, lrVars,
             recordsVars, eqVars, modesVars, statesVars>>

SumNext == \/ /\ live = "escrow" /\ Next
              /\ UNCHANGED <<live, kernelVars, preflightVars, verificationVars, jwVars, lrVars,
                             recordsVars, eqVars, modesVars, statesVars>>
           \/ /\ live = "kernel" /\ KernelNext
              /\ UNCHANGED <<live, escrowVars, preflightVars, verificationVars, jwVars, lrVars,
                             recordsVars, eqVars, modesVars, statesVars>>
           \/ /\ live = "preflight" /\ PreflightNext
              /\ UNCHANGED <<live, escrowVars, kernelVars, verificationVars, jwVars, lrVars,
                             recordsVars, eqVars, modesVars, statesVars>>
           \/ /\ live = "proof" /\ VerificationNext
              /\ UNCHANGED <<live, escrowVars, kernelVars, preflightVars, jwVars, lrVars,
                             recordsVars, eqVars, modesVars, statesVars>>
           \/ /\ live = "json" /\ Json!Next
              /\ UNCHANGED <<live, escrowVars, kernelVars, preflightVars, verificationVars, lrVars,
                             recordsVars, eqVars, modesVars, statesVars>>
           \/ /\ live = "runtime" /\ ~lrBundle.present /\ Runtime!Next
              /\ UNCHANGED <<live, escrowVars, kernelVars, preflightVars, verificationVars, jwVars,
                             recordsVars, eqVars, modesVars, statesVars>>
           \/ /\ live = "records" /\ RecordsNext
              /\ UNCHANGED <<live, escrowVars, kernelVars, preflightVars, verificationVars, jwVars, lrVars,
                             eqVars, modesVars, statesVars>>
           \/ /\ live = "evidence" /\ Evidence!Next
              /\ UNCHANGED <<live, escrowVars, kernelVars, preflightVars, verificationVars, jwVars, lrVars,
                             recordsVars, modesVars, statesVars>>
           \/ /\ live = "modes" /\ ModesNext
              /\ UNCHANGED <<live, escrowVars, kernelVars, preflightVars, verificationVars, jwVars, lrVars,
                             recordsVars, eqVars, statesVars>>
           \/ /\ live = "states" /\ StatesNext
              /\ UNCHANGED <<live, escrowVars, kernelVars, preflightVars, verificationVars, jwVars, lrVars,
                             recordsVars, eqVars, modesVars>>

SumSpec == SumInit /\ [][SumNext]_sumVars

(* What TypeScript can hash Python can hash, only an integer beyond the    *)
(* safe range is hashed by Python alone, and two documents have one        *)
(* canonical text if and only if they denote one value (canonical.py,      *)
(* strict-json.ts and canonical.ts).                                       *)
CanonicalAgreement == live = "json" => Json!CanonicalAgreement

(* An export that nobody disturbs by writing verifies, whatever labs,      *)
(* simulations and requests ran, raised or were killed before it and       *)
(* whenever SQLite checkpoints; except for request directories that two    *)
(* requests shared (export_local_runtime_bundle).                          *)
QuietExportVerifies == live = "runtime" => Runtime!QuietExportVerifies

(* A bundle that verifies tells one story per chain: intent, proof and     *)
(* outcome are of one request, also when the export raced the handler      *)
(* threads (verify_local_runtime_bundle).                                  *)
VerifiedTellsOneStory == live = "runtime" => Runtime!VerifiedTellsOneStory

(* The evidence query says VERIFIED_EXECUTION only of an action that ran   *)
(* as its intent still says, with every cited receipt on file, and         *)
(* VERIFIED_REFUSAL only if nothing it covers ran, unless the receipt was  *)
(* lost - through resubmissions, torn files and replays                    *)
(* (evidence/query.py).                                                    *)
VerdictTellsWhatRan ==
    live = "evidence" => Evidence!VerifiedExecutionRan /\ Evidence!RefusalVerdictMeansNotRun
=============================================================================
