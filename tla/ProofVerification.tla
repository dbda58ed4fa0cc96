-------------------------- MODULE ProofVerification -------------------------
(***************************************************************************)
(* The life of proofs: an issuer mints them, their authority may be        *)
(* revoked, time passes, and requests present them, as minted or altered   *)
(* on the way, to the Python and the TypeScript verifier of an edge.       *)
(***************************************************************************)
EXTENDS ProofCheck

CONSTANTS SignedIntents,         \* wire intents the issuer signs
          Grants,                \* issuer contexts without the time
          Presentations,         \* [change, intent, edge]: what is done to the proof's
                                 \* wire form, the intent it comes with, and the edge's
                                 \* context and verifier, without the time
          VerificationMaxTime    \* bound on the clock

VARIABLES verifierNow,
          minted,                \* [proof, intent, grant]: what the issuer signed
          revoked,               \* the issuer revoked the authority
          presented              \* the last presentation and its two verdicts

verificationVars == <<verifierNow, minted, revoked, presented>>

HasFields(r, fields) == r = [f \in DOMAIN r |-> r[f]] /\ fields \subseteq DOMAIN r

IsWireIntent(i) ==
    /\ HasFields(i, {"version", "intent_id", "sep", "tenant", "requester", "action", "target",
                     "issued_at", "expires_at"})
    /\ HasFields(i.tenant, {"tenant_id", "attributes"})
    /\ HasFields(i.requester, {"id", "display_name", "attributes"})
    /\ HasFields(i.action, {"name", "capability", "parameters", "scope"})
    /\ HasFields(i.target, {"resource_type", "resource_id", "selectors", "uri"})
    /\ i.expires_at \in Int

(* Members are present and clocks are numbers; an edge is configured with  *)
(* named capabilities; and a signature that does not come from the issuer  *)
(* is under no key the edge trusts.                                        *)
ASSUME PresentationAssumption ==
    /\ \A i \in SignedIntents : IsWireIntent(i)
    /\ \A g \in Grants : /\ HasFields(g, {"audience", "capabilities", "constraints"})
                         /\ HasFields(g.audience, {"type", "id", "uri"})
    /\ \A r \in Presentations :
          /\ IsWireIntent(r.intent)
          /\ HasFields(r.edge.context, {"audience", "capabilities", "constraints", "selectors"})
          /\ \A c \in r.edge.context.capabilities : Named(c)
          /\ HasFields(r.edge.verifier, {"keys", "skew", "mode", "boundary", "source"})
          /\ r.edge.verifier.skew \in Int
          /\ r.change.field = "signature" => r.change.value.key \notin r.edge.verifier.keys

NothingPresented == [py |-> "none", ts |-> "none"]

VerificationInit == verifierNow = 0 /\ minted = {} /\ revoked = FALSE /\ presented = NothingPresented

AtTime(context) == [f \in DOMAIN context \cup {"now"} |-> IF f = "now" THEN verifierNow ELSE context[f]]

(* One proof is enough.                                                    *)
MintProof(i, g, authority) ==
    /\ minted = {} /\ PyIntentParses(i)
    /\ minted' = {[proof |-> Mint("p1", i, AtTime(g), "issuer_key", "none", authority),
                   intent |-> i, grant |-> g, at |-> verifierNow]}
    /\ UNCHANGED <<verifierNow, revoked, presented>>

(* What the revocation source of the edge answers.                         *)
SourceAnswer(source) == IF source = "live" THEN IF revoked THEN "revoked" ELSE "active" ELSE source

Consulting(v) == [v EXCEPT !.source = SourceAnswer(@)]

(* The wire form of a proof that reaches the edge.                         *)
Carried(m, c) == IF c.field \in DOMAIN m.proof THEN [m.proof EXCEPT ![c.field] = c.value] ELSE m.proof

(* What an edge is shown, and its verdicts.                                *)
Shown(m, r) ==
    LET p == Carried(m, r.change)
        v == Consulting(r.edge.verifier)
        context == AtTime(r.edge.context)
    IN  [py |-> PySdkVerify(r.intent, p, context, v), ts |-> TsVerify(r.intent, p, context, v),
         proof |-> p, altered |-> Unsigned(p) # Unsigned(m.proof), intent |-> r.intent,
         edge |-> r.edge]

(* Verification keeps no state, so a behaviour ends with its presentation. *)
Present(m, r) ==
    presented = NothingPresented /\ presented' = Shown(m, r) /\ UNCHANGED <<verifierNow, minted, revoked>>

RevokeAuthority ==
    /\ presented = NothingPresented /\ ~revoked /\ minted # {}
    /\ revoked' = TRUE
    /\ UNCHANGED <<verifierNow, minted, presented>>

VerifierTick ==
    /\ presented = NothingPresented /\ verifierNow < VerificationMaxTime
    /\ verifierNow' = verifierNow + 1
    /\ UNCHANGED <<minted, revoked, presented>>

VerificationNext ==
    \/ \E i \in SignedIntents, g \in Grants, a \in {"none", "plain", "revocable"} : MintProof(i, g, a)
    \/ \E m \in minted, r \in Presentations : Present(m, r)
    \/ RevokeAuthority
    \/ VerifierTick

VerificationSpec == VerificationInit /\ [][VerificationNext]_verificationVars

(***************************************************************************)
(* Properties.                                                             *)
(***************************************************************************)

Presented == presented # NothingPresented

(* What a proof authorises, stated without the verifier: the intent is the *)
(* one that was minted in every bound field, the edge is the audience,     *)
(* performs the capability, relies only on signed constraints and acts on  *)
(* that target, the time lies in the window, the authority is live.        *)
Authorised(i, e) ==
    \E m \in minted :
        /\ HashInput(PyIntent(i)) = HashInput(PyIntent(m.intent))
        /\ e.context.audience = m.grant.audience
        /\ i.action.capability \in e.context.capabilities
        /\ \A k \in DOMAIN e.context.constraints :
              k \in DOMAIN m.grant.constraints /\ m.grant.constraints[k] = e.context.constraints[k]
        /\ m.at <= verifierNow + e.verifier.skew /\ verifierNow - e.verifier.skew <= m.intent.expires_at
        /\ m.proof.authority = "revocable" /\ e.verifier.source = "live" => ~revoked

(* An accepted request is exactly what the issuer authorised, and the      *)
(* proof reached the edge unaltered up to an optional member's spelling.   *)
OnlyAuthorisedAccepted ==
    Presented /\ presented.py = "OK" =>
        /\ Authorised(presented.intent, presented.edge)
        /\ \E m \in minted : Unsigned(PyProof(presented.proof)) = Unsigned(m.proof)

(* The TypeScript verifier accepts nothing that the Python one refuses.    *)
TsAcceptsNoMore ==
    Presented /\ presented.ts = "OK" /\ presented.edge.verifier.boundary = "none" => presented.py = "OK"

(* A request whose wire form is the one the contracts serialise, presented *)
(* with the proof as minted, is judged alike by the two, but for a blank   *)
(* optional text, which Python keeps and the SDK refuses.                  *)
HasBlankText(p) == "blank" \in {p.subject.display_name, p.audience.uri, p.target.uri}

SerialisedAlike ==
    Presented /\ ~presented.altered /\ ~HasBlankText(presented.proof)
    /\ presented.edge.verifier.boundary = "none" /\ PyIntent(presented.intent) = presented.intent
    => (presented.py = "OK" <=> presented.ts = "OK")

(* Outside local debugging the answer to a proof that is not authentic     *)
(* does not depend on any of its fields.                                   *)
UnauthenticIsOpaque ==
    Presented /\ presented.edge.verifier.mode # "local_debug"
    /\ PyIntentParses(presented.intent) /\ PyProofParses(presented.proof)
    /\ (\A m \in minted : Unsigned(PyProof(presented.proof)) # Unsigned(m.proof))
    => presented.py = "PROOF_INVALID"

(* A request the Python verifier accepts is exactly what an issuer         *)
(* authorised, at an edge and a time it was authorised for, with a proof   *)
(* unaltered on its way; and outside local debugging the answer to an      *)
(* unauthentic proof tells nothing of its fields (verify in                *)
(* proof/service.py).                                                      *)
AcceptedIsAuthorised == OnlyAuthorisedAccepted /\ UnauthenticIsOpaque

(* The TypeScript verifier accepts nothing the Python one refuses, and for *)
(* the wire form that the contracts serialise the two agree, but for a     *)
(* blank optional text (verifier.ts against proof/service.py).             *)
TsNoLooser == TsAcceptsNoMore /\ SerialisedAlike
=============================================================================
