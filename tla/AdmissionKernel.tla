-------------------------- MODULE AdmissionKernel ---------------------------
(***************************************************************************)
(* ProtectedExecutionKernel.submit_intent: the admission of an intent, one *)
(* step per call that changes state outside the submission (intent store,  *)
(* escrow, proof store, outcome writer) or leaves the process (sealing).   *)
(* Any of those calls may raise, and the process may die between them; the *)
(* submission then ends "raised" with what was written before.             *)
(*                                                                         *)
(* A proof's id is the submission it was minted for, and whether it is the *)
(* local proof or the one a seal service put in its place.                 *)
(***************************************************************************)
EXTENDS PolicyEngine

CONSTANTS Submissions,      \* concurrent calls of submit_intent
          KernelRequests,   \* what a call may carry: an intent, its context, and
                            \* whether the kernel seals: "off", "optional", "required"
          SealFields,       \* the PCCB fields a seal service may change
          KernelFaulty      \* whether calls may raise

(* No submission is called as the id of the absent proof is, and invoices  *)
(* in the facts of a request are a list of ids.                            *)
ASSUME SubmissionAssumption ==
    /\ "none" \notin Submissions
    /\ \A r \in KernelRequests :
          "invoices" \in DOMAIN r.context.facts => r.context.facts.invoices \in Seq(Int)

VARIABLES sub,        \* per submission: request, pc, proof
          intents,    \* ids of stored intents
          escrows,    \* escrow id -> proof id it was issued for
          pccbs,      \* stored proofs
          receipts,   \* written receipts
          refusals,   \* submissions with a written refusal
          handled     \* proofs whose handler was called

kernelVars == <<sub, intents, escrows, pccbs, receipts, refusals, handled>>

NoId == <<"none", "local">>

NoProof == [id |-> NoId, changed |-> {}]

KernelInit ==
    /\ \E f \in [Submissions -> KernelRequests] :
          sub = [s \in Submissions |-> [request |-> f[s], pc |-> "parse", proof |-> NoProof]]
    /\ intents = {} /\ escrows = <<>> /\ pccbs = {}
    /\ receipts = {} /\ refusals = {} /\ handled = {}

AtStep(s, pc) == sub[s].pc = pc

Goto(s, pc) == sub' = [sub EXCEPT ![s].pc = pc]

Decision(s) == Evaluate(sub[s].request.intent, sub[s].request.context)

(* intake.parse; a payload that does not parse is refused.                 *)
Parse(s) ==
    /\ AtStep(s, "parse")
    /\ Goto(s, IF Parses(sub[s].request.intent) THEN "put_intent" ELSE "refusal")
    /\ UNCHANGED <<intents, escrows, pccbs, receipts, refusals, handled>>

PutIntent(s) ==
    /\ AtStep(s, "put_intent")
    /\ intents' = intents \cup {s}
    /\ Goto(s, "policy")
    /\ UNCHANGED <<escrows, pccbs, receipts, refusals, handled>>

(* policy_engine.evaluate, and the minting of the local proof on allow.    *)
Decide(s) ==
    /\ AtStep(s, "policy")
    /\ sub' = [sub EXCEPT ![s].pc = CASE Decision(s) = "raised" -> "raised"
                                      [] Decision(s) = "deny" -> "deny_receipt"
                                      [] Decision(s) = "allow" -> "seal"
                                      [] OTHER -> "hold_receipt",
                          ![s].proof = IF Decision(s) = "allow" THEN [NoProof EXCEPT !.id = <<s, "local">>]
                                       ELSE NoProof]
    /\ UNCHANGED <<intents, escrows, pccbs, receipts, refusals, handled>>

WriteReceipt(s, proof) ==
    receipts' = receipts \cup {[of |-> s, decision |-> Decision(s), proof |-> proof.id]}

(* A denial writes its decision receipt first, then its refusal.           *)
DenyReceipt(s) ==
    /\ AtStep(s, "deny_receipt")
    /\ WriteReceipt(s, NoProof)
    /\ Goto(s, "refusal")
    /\ UNCHANGED <<intents, escrows, pccbs, refusals, handled>>

Refuse(s) ==
    /\ AtStep(s, "refusal")
    /\ refusals' = refusals \cup {s}
    /\ Goto(s, "refused")
    /\ UNCHANGED <<intents, escrows, pccbs, receipts, handled>>

HoldReceipt(s) ==
    /\ AtStep(s, "hold_receipt")
    /\ WriteReceipt(s, NoProof)
    /\ Goto(s, "held")
    /\ UNCHANGED <<intents, escrows, pccbs, refusals, handled>>

(* Fields that _validated_execution_pccb compares.                         *)
BoundFields == {"intent_id", "issued_at", "not_before", "expires_at", "subject", "tenant",
                "audience", "action", "target", "scope", "escrow_id", "action_hash"}

(* Mutation of SealAccepted: the expiry may be extended by the service.    *)
SealAcceptedExpiry(changed) == changed \cap (BoundFields \ {"expires_at"}) = {}

SealAccepted(changed) == changed \cap BoundFields = {}

SealRefused(s) ==
    /\ Goto(s, IF sub[s].request.seal = "required" THEN "refusal" ELSE "issue")
    /\ UNCHANGED <<intents, escrows, pccbs, receipts, refusals, handled>>

(* The HTTP client's transport, and what it makes of a response body.      *)
Transport(reply) == IF reply \in {"rejected", "unreachable"} THEN "PROOF_SEAL_FAILED" ELSE reply

SealReply(reply) ==
    IF Transport(reply) \in {"PROOF_SEAL_FAILED", "invalid JSON", "not an object", "no pccb", "malformed pccb"}
    THEN "PROOF_SEAL_FAILED" ELSE "sealed"

(* _resolve_execution_pccb: no client keeps the local proof; a service may *)
(* fail, or answer with a proof that differs in some fields.               *)
Seal(s) ==
    /\ AtStep(s, "seal")
    /\ \/ /\ sub[s].request.seal = "off"
          /\ Goto(s, "issue")
          /\ UNCHANGED <<intents, escrows, pccbs, receipts, refusals, handled>>
       \/ \E reply \in {"rejected", "malformed pccb"} :
             sub[s].request.seal # "off" /\ SealReply(reply) = "PROOF_SEAL_FAILED" /\ SealRefused(s)
       \/ \E changed \in SUBSET SealFields :
             /\ sub[s].request.seal # "off" /\ SealReply("pccb") = "sealed"
             /\ IF SealAccepted(changed)
                THEN /\ sub' = [sub EXCEPT ![s].pc = "issue",
                                           ![s].proof = [id |-> <<s, "sealed">>, changed |-> changed]]
                     /\ UNCHANGED <<intents, escrows, pccbs, receipts, refusals, handled>>
                ELSE SealRefused(s)

IssueEscrow(s) ==
    /\ AtStep(s, "issue")
    /\ escrows' = [e \in DOMAIN escrows \cup {s} |->
                      IF e = s THEN sub[s].proof.id ELSE escrows[e]]
    /\ Goto(s, "put_pccb")
    /\ UNCHANGED <<intents, pccbs, receipts, refusals, handled>>

PutPccb(s) ==
    /\ AtStep(s, "put_pccb")
    /\ pccbs' = pccbs \cup {sub[s].proof}
    /\ Goto(s, "allow_receipt")
    /\ UNCHANGED <<intents, escrows, receipts, refusals, handled>>

AllowReceipt(s) ==
    /\ AtStep(s, "allow_receipt")
    /\ WriteReceipt(s, sub[s].proof)
    /\ Goto(s, "admitted")
    /\ UNCHANGED <<intents, escrows, pccbs, refusals, handled>>

(* LocalAdmissionProtectedEndpoint.admit_and_execute: an admitted intent   *)
(* is executed at once, under the context it was admitted in; anything     *)
(* else returns.  The execution itself is the middleware's.                *)
AdmitAndExecute(s) ==
    /\ AtStep(s, "admitted")
    /\ handled' = handled \cup {sub[s].proof}
    /\ Goto(s, "executed")
    /\ UNCHANGED <<intents, escrows, pccbs, receipts, refusals>>

(* A store, the escrow or the writer raises, or the process dies.          *)
Fail(s) ==
    /\ KernelFaulty
    /\ sub[s].pc \in {"put_intent", "deny_receipt", "refusal", "hold_receipt", "issue",
                      "put_pccb", "allow_receipt", "admitted"}
    /\ Goto(s, "raised")
    /\ UNCHANGED <<intents, escrows, pccbs, receipts, refusals, handled>>

KernelStep(s) ==
          \/ Parse(s) \/ PutIntent(s) \/ Decide(s) \/ DenyReceipt(s) \/ Refuse(s) \/ HoldReceipt(s)
          \/ Seal(s) \/ IssueEscrow(s) \/ PutPccb(s) \/ AllowReceipt(s) \/ AdmitAndExecute(s) \/ Fail(s)

KernelNext == \E s \in Submissions : KernelStep(s)

KernelSpec == KernelInit /\ [][KernelNext]_kernelVars

(***************************************************************************)
(* Properties.                                                             *)
(***************************************************************************)

(* An allow receipt is written last: whoever finds one, also after a crash *)
(* of the kernel, finds the proof it names, and the proof's escrow record. *)
AllowReceiptBacked ==
    \A r \in receipts : r.proof # NoId =>
        /\ \E p \in pccbs : p.id = r.proof
        /\ r.of \in DOMAIN escrows /\ escrows[r.of] = r.proof

(* Nothing is stored, issued or handled for an intent the policy did not   *)
(* allow, and a proof that a seal service returned differs from the local  *)
(* one in no field the execution relies on.                                *)
OnlyAllowedAuthority ==
    /\ \A e \in DOMAIN escrows : Decision(e) = "allow"
    /\ \A p \in pccbs \cup handled : p.changed \cap BoundFields = {}
    /\ \A s \in Submissions : sub[s].proof \in handled => Decision(s) = "allow"

Invoice(s) == sub[s].request.context.wedge = "invoice_payment"

(* What the intake helper builds from an intent's own parameters for its   *)
(* requester (further parameters and constraints are ignored), paying no   *)
(* duplicate and agreeing with the facts of the protected context; there   *)
(* is no fact about the batch id.                                          *)
AsBuilt(i, facts) ==
    LET a == i.action
        p == a.parameters
        built == BuiltAction([k \in BoundKeys \ {"hash"} |-> p[k]], i.requester)
    IN  /\ <<a.name, a.capability, a.resourceType, a.resourceId>>
              = <<built.name, built.capability, built.resourceType, built.resourceId>>
        /\ \A k \in DOMAIN built.parameters : k \in DOMAIN p /\ p[k] = built.parameters[k]
        /\ \A k \in DOMAIN built.constraints :
              k \in DOMAIN a.constraints /\ a.constraints[k] = built.constraints[k]
        /\ InvoiceIds(p.invoices) \cap facts.duplicates = {} /\ ~facts.duplicateDetected
        /\ \A k \in (BoundKeys \ {"batch"}) \cap DOMAIN facts :
              IF k = "invoices" THEN InvoiceIds(facts[k]) = InvoiceIds(p[k]) ELSE facts[k] = p[k]

(* An invoice payment is admitted only as it would be built.               *)
AdmittedAsBuilt ==
    \A s \in Submissions : s \in DOMAIN escrows /\ Invoice(s) =>
        AsBuilt(sub[s].request.intent, sub[s].request.context.facts)

(* Held back until evidence and approvals are complete.                    *)
HeldUntilComplete ==
    \A s \in Submissions : s \in DOMAIN escrows /\ Invoice(s) =>
        LET facts == sub[s].request.context.facts
        IN  /\ facts.requiredEvidence \subseteq sub[s].request.intent.evidence
            /\ facts.requiredApprovals \subseteq facts.providedApprovals

(* The kernel stores, issues and hands on authority only for an intent its *)
(* policy allowed, with a proof in which a seal service changed no field   *)
(* the execution relies on; an invoice payment is admitted only as the     *)
(* intake helper builds it, with no duplicate, agreeing with the facts of  *)
(* the protected context, and with all evidence and approvals present; an  *)
(* allow receipt, also after a crash, is backed by its proof and escrow    *)
(* record (submit_intent, PolicyEngine.evaluate and the proof seal).       *)
AdmittedIsComplete ==
    OnlyAllowedAuthority /\ AllowReceiptBacked /\ AdmittedAsBuilt /\ HeldUntilComplete
=============================================================================
