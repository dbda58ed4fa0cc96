----------------------------- MODULE ActenonGate -----------------------------
(***************************************************************************)
(* ActenonGate and the adapters in front of it: FastAPI, LangChain, MCP    *)
(* and ProtectedEdge build an action from a request, protect() runs the    *)
(* preflight, and the executor, represented by what it promises            *)
(* (SingleUseAuthority), spends the proof and runs the side effect.  An    *)
(* issuer's gate mints the proofs and issues their escrow.                 *)
(*                                                                         *)
(* A request's payload is <<signed, extra>>; an action builder binds both, *)
(* or drops the extra field ("none").                                      *)
(***************************************************************************)
EXTENDS Integers, FiniteSets, Sequences

CONSTANTS GateCalls, Payloads,
          GateRequests,     \* [adapter, body, payload, lossy, header, evidence]: what a call presents
          Ids,          \* proof ids the issuer may use
          Policies,     \* configured policy packs: "none", "approval"
          Verdicts      \* what a preflight callable of the issuer may return

(* A payload is a pair; a header holds a proof by its id, or something     *)
(* that is not a proof.                                                    *)
ASSUME GateAssumption ==
    /\ \A p \in Payloads : p = <<p[1], p[2]>>
    /\ \A r \in GateRequests :
          /\ r.payload = <<r.payload[1], r.payload[2]>>
          /\ r.header \in Ids \cup {"none", "undecodable", "malformed", "untyped"}

VARIABLES gateCall,      \* per call: its request, pc, result
          policy, escrowOn,
          minted,    \* per id, the intent the proof was minted for, or Unminted
          issued,    \* ids with an escrow record
          refusedMint, \* whether a verdict of the issuer's preflight refused
          spent, ran, effects   \* effects: what side effects received, per proof id

Authority == INSTANCE SingleUseAuthority WITH Proofs <- Ids

gateVars == <<gateCall, policy, escrowOn, minted, issued, refusedMint, spent, ran, effects>>

Unminted == <<>>

GateInit == /\ \E f \in [GateCalls -> GateRequests] : gateCall = [c \in GateCalls |-> [req |-> f[c], pc |-> "adapt", result |-> "none"]]
            /\ policy \in Policies /\ escrowOn \in BOOLEAN
            /\ minted = [i \in Ids |-> Unminted]
            /\ issued = {} /\ refusedMint = FALSE
            /\ Authority!Init
            /\ effects = [i \in Ids |-> Unminted]

(***************************************************************************)
(* The issuer.                                                             *)
(***************************************************************************)

Intent(payload, lossy) == IF lossy THEN <<payload[1], "none">> ELSE payload

(* mint_proof: escrow is issued after the proof exists; the issuer may die *)
(* in between.                                                             *)
MintProof(i, p) ==
    /\ minted[i] = Unminted
    /\ minted' = [minted EXCEPT ![i] = p]
    /\ UNCHANGED <<gateCall, policy, escrowOn, issued, refusedMint, spent, ran, effects>>

IssueEscrow(i) ==
    /\ escrowOn /\ minted[i] # Unminted /\ i \notin issued
    /\ issued' = issued \cup {i}
    /\ UNCHANGED <<gateCall, policy, escrowOn, minted, refusedMint, spent, ran, effects>>

DenyWords == {"deny", "denied", "refuse", "refused", "block", "blocked"}

(* mint_proof_after_preflight: False, a mapping that says so, or an object *)
(* whose attribute `allowed` is False.                                     *)
VerdictDenies(v) ==
    \/ v.kind = "false"
    \/ v.kind = "raises"
    \/ v.kind = "dict" /\ (v.allowed = "false" \/ v.decision \in DenyWords)
    \/ v.kind = "object" /\ v.allowed = "false"

MintAfterPreflight(i, p, v) ==
    /\ minted[i] = Unminted
    /\ IF VerdictDenies(v) THEN refusedMint' = TRUE /\ UNCHANGED minted
       ELSE minted' = [minted EXCEPT ![i] = p] /\ UNCHANGED refusedMint
    /\ UNCHANGED <<gateCall, policy, escrowOn, issued, spent, ran, effects>>

(***************************************************************************)
(* The adapters.                                                           *)
(***************************************************************************)

GateStep(c, pc, result) == gateCall' = [gateCall EXCEPT ![c].pc = pc, ![c].result = result]
Untouched == UNCHANGED <<policy, escrowOn, minted, issued, refusedMint, spent, ran, effects>>

(* Mutation of BindsRequest: an edge trusts its intent builder.            *)
BindsRequestTrusted(r) == TRUE

(* ProtectedEdge.intent_for: the builder's parameters are the raw request. *)
BindsRequest(r) == Intent(r.payload, r.lossy) = r.payload

(* What an adapter refuses before the gate sees anything.                  *)
AdapterError(r) ==
    CASE r.adapter = "fastapi" /\ r.body \in {"notJson", "notObject"} -> "http400"
      [] r.adapter = "fastapi" /\ r.body = "invalid"                  -> "http422"
      [] r.adapter = "fastapi" /\ r.evidence = "undecodable"          -> "http400"
      [] r.body = "unbuildable" -> IF r.adapter = "fastapi" THEN "http400" ELSE "raised"
      [] r.adapter = "edge" /\ ~BindsRequest(r)                       -> "raised"
      [] OTHER -> "none"

Adapt(c) ==
    LET e == AdapterError(gateCall[c].req)
    IN  /\ gateCall[c].pc = "adapt"
        /\ IF e = "none" THEN GateStep(c, "protect", "none") ELSE GateStep(c, "done", e)
        /\ Untouched

(* The proof protect() receives: an undecodable header becomes the empty   *)
(* object; metadata that is no mapping carries no proof.                   *)
Presented(r) ==
    CASE r.header = "undecodable" -> IF r.adapter = "fastapi" THEN "malformed" ELSE "none"
      [] OTHER -> r.header

(***************************************************************************)
(* protect().                                                              *)
(***************************************************************************)

(* _refuse: a refusal and its receipt; nothing is spent and nothing runs.  *)
GateRefuse(c, code) == GateStep(c, "done", code) /\ Untouched

(* The preflight, computed first, on the evidence the caller supplied.     *)
Preflight(r) ==
    IF policy = "none" THEN "allow"
    ELSE IF r.evidence = "approved" THEN "allow" ELSE "approval-required"

Protect(c) ==
    LET r == gateCall[c].req
        p == Presented(r)
    IN  /\ gateCall[c].pc = "protect"
        /\ CASE p = "none"      -> GateRefuse(c, IF r.adapter = "edge" THEN "NO_PROOF" ELSE "PCCB_REQUIRED")
             [] p = "malformed" -> GateRefuse(c, "SCHEMA")
             [] p = "untyped"   -> GateStep(c, "done", "raised") /\ Untouched
             [] OTHER           -> GateStep(c, "execute", "none") /\ Untouched

(* Mutation of Execute: the proof is spent before the policy refuses.      *)
ExecuteSpendFirst(c) ==
    LET r == gateCall[c].req
        i == r.header
    IN  /\ gateCall[c].pc = "execute"
        /\ IF minted[i] # Intent(r.payload, r.lossy) THEN GateStep(c, "done", "VERIFICATION") /\ Untouched
           ELSE /\ spent' = spent \cup {i} /\ ran' = ran
                /\ IF i \notin spent /\ Preflight(r) = "allow" THEN GateStep(c, "run", "none") ELSE GateStep(c, "done", "POLICY")
                /\ UNCHANGED <<policy, escrowOn, minted, issued, refusedMint, effects>>

(* execute(): verification against the intent, then the policy decision,   *)
(* then the authority is spent, escrow included.                           *)
Execute(c) ==
    LET r == gateCall[c].req
        i == r.header
    IN  /\ gateCall[c].pc = "execute"
        /\ \/ /\ minted[i] # Intent(r.payload, r.lossy)
              /\ GateStep(c, "done", "VERIFICATION") /\ Untouched
           \/ /\ minted[i] = Intent(r.payload, r.lossy) /\ Preflight(r) # "allow"
              /\ GateStep(c, "done", "POLICY") /\ Untouched
           \/ /\ minted[i] = Intent(r.payload, r.lossy) /\ Preflight(r) = "allow"
              /\ i \in spent \/ (escrowOn /\ i \notin issued)
              /\ GateStep(c, "done", "AUTHORITY") /\ Untouched
           \/ /\ minted[i] = Intent(r.payload, r.lossy) /\ Preflight(r) = "allow"
              /\ escrowOn => i \in issued
              /\ Authority!Spend(i) /\ GateStep(c, "run", "none")
              /\ UNCHANGED <<policy, escrowOn, minted, issued, refusedMint, effects>>

(* The side effect: an edge's backend gets the verified intent, the other  *)
(* adapters close over the request.                                        *)
Run(c) ==
    LET r == gateCall[c].req
        i == r.header
    IN  /\ gateCall[c].pc = "run"
        /\ Authority!Run(i)
        /\ effects' = [effects EXCEPT ![i] = IF r.adapter = "edge" THEN Intent(r.payload, r.lossy) ELSE r.payload]
        /\ GateStep(c, "done", "executed")
        /\ UNCHANGED <<policy, escrowOn, minted, issued, refusedMint>>

GateNext ==
    \/ \E i \in Ids : \/ \E p \in Payloads : MintProof(i, p) \/ \E v \in Verdicts : MintAfterPreflight(i, p, v)
                      \/ IssueEscrow(i)
    \/ \E c \in GateCalls : Adapt(c) \/ Protect(c) \/ Execute(c) \/ Run(c)

GateSpec == GateInit /\ [][GateNext]_gateVars

(***************************************************************************)
(* Properties.                                                             *)
(***************************************************************************)

(* Behind ProtectedEdge, what ran is the whole raw request and exactly the *)
(* one a proof was minted for: no field reaches the backend unsigned.      *)
EdgeRunsWhatWasMinted ==
    \A c \in GateCalls : gateCall[c].req.adapter = "edge" /\ gateCall[c].result = "executed" =>
        /\ effects[gateCall[c].req.header] = gateCall[c].req.payload
        /\ minted[gateCall[c].req.header] = gateCall[c].req.payload

(* A preflight refusal costs nothing: the authority of a proof is spent    *)
(* only by a call whose policy allowed it, so the caller may come back     *)
(* with the evidence it lacked and the same proof.                         *)
PolicyRefusalSpendsNothing ==
    \A i \in spent : \E c \in GateCalls :
        /\ gateCall[c].req.header = i /\ Preflight(gateCall[c].req) = "allow"
        /\ gateCall[c].pc = "run" \/ gateCall[c].result = "executed"

(* Behind ProtectedEdge, what ran is the whole raw request and exactly the *)
(* one a proof was minted for: no field reaches the backend unsigned. And  *)
(* a preflight refusal costs nothing: the authority of a proof is spent    *)
(* only by a call whose policy allowed it (ActenonGate.protect).           *)
GateRunsWhatWasMinted == EdgeRunsWhatWasMinted /\ PolicyRefusalSpendsNothing
=============================================================================
