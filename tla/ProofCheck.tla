------------------------------ MODULE ProofCheck ----------------------------
(***************************************************************************)
(* Minting and verification of a PCCB, as operators: PCCBMinter.mint,      *)
(* PCCBVerifier.verify and the TypeScript SDK's verifyJSON, over the wire  *)
(* form of intents and proofs.                                             *)
(*                                                                         *)
(* An optional member of the wire form is "absent", "null", "blank" (a     *)
(* text) or "empty" (a map), or a value; the Python contracts drop some of *)
(* these when they serialise, the TypeScript ones keep what they accept.   *)
(* A digest is the value it was computed from, a signature names the       *)
(* payload that was signed and the key.                                    *)
(***************************************************************************)
EXTENDS Integers, Sequences

Failing(code, fails) == [code |-> code, fails |-> fails]

FirstFailure(checks) ==
    LET bad == {n \in DOMAIN checks : checks[n].fails}
    IN  IF bad = {} THEN "OK" ELSE checks[CHOOSE n \in bad : \A m \in bad : n <= m].code

Member(f, k, v) == k \in DOMAIN f /\ f[k] = v

(***************************************************************************)
(* Contracts.                                                              *)
(***************************************************************************)

(* expect_string, and requireString of the SDK.                            *)
Named(text) == text # ""

(* An optional text: Python reads null as absent and keeps a blank one;    *)
(* the SDK refuses both.  An optional map: dict(null) raises in Python and *)
(* requireRecord throws; Python drops an empty map when it serialises.     *)
PyText(text) == IF text = "null" THEN "absent" ELSE text
TsTextParses(text) == text \notin {"null", "blank"}
MapParses(map) == map # "null"
PyMap(map) == IF map = "empty" THEN "absent" ELSE map

(* The parts of a contract: from_dict then to_dict of each class.          *)
TenantParses(t) == Named(t.tenant_id) /\ MapParses(t.attributes)
PyTenant(t) == [t EXCEPT !.attributes = PyMap(@)]
PartyParses(p) == Named(p.id) /\ MapParses(p.attributes)
PyParty(p) == [p EXCEPT !.display_name = PyText(@), !.attributes = PyMap(@)]
AudienceParses(a) == Named(a.type) /\ Named(a.id)
PyAudience(a) == [a EXCEPT !.uri = PyText(@)]
ActionParses(a) == Named(a.name) /\ Named(a.capability) /\ MapParses(a.scope)
PyAction(a) == [a EXCEPT !.scope = PyMap(@)]
TargetParses(t) == Named(t.resource_type) /\ Named(t.resource_id)
PyTarget(t) == [t EXCEPT !.uri = PyText(@)]
ScopeParses(s) == Named(s.mode) /\ s.capabilities # {}
HashParses(h) == Named(h.algorithm) /\ Named(h.canonicalization)
SignatureParses(s) == Named(s.key) /\ Named(s.encoding)

(* The SDK's parse functions of the same parts keep what they accept, and  *)
(* let a scope without capabilities pass.                                  *)
TsTenantParses(t) == TenantParses(t)
TsPartyParses(p) == PartyParses(p) /\ TsTextParses(p.display_name)
TsAudienceParses(a) == AudienceParses(a) /\ TsTextParses(a.uri)
TsActionParses(a) == ActionParses(a)
TsTargetParses(t) == TargetParses(t) /\ TsTextParses(t.uri)
TsScopeParses(s) == s.mode = "exact"
TsSignatureParses(s) == SignatureParses(s)

(* RFC 3339 with "T", "t" or a space between date and time in Python, with *)
(* "T" only in TypeScript.                                                 *)
PyTimestamp(sep) == sep \in {"T", "t", " "}
TsTimestamp(sep) == sep = "T"

(* ActionIntent.from_dict then to_dict.                                    *)
PyIntentParses(i) ==
    /\ i.version = "v1" /\ PyTimestamp(i.sep) /\ TenantParses(i.tenant) /\ PartyParses(i.requester)
    /\ ActionParses(i.action) /\ TargetParses(i.target)
PyIntent(i) == [i EXCEPT !.tenant = PyTenant(@), !.requester = PyParty(@), !.action = PyAction(@),
                         !.target = PyTarget(@), !.sep = "T"]

(* PCCB.from_dict; unsigned_payload re-serialises what was parsed.         *)
PyProofParses(p) ==
    /\ p.version = "v1" /\ PyTimestamp(p.sep) /\ TenantParses(p.tenant) /\ PartyParses(p.subject)
    /\ AudienceParses(p.audience) /\ ActionParses(p.action) /\ TargetParses(p.target)
    /\ ScopeParses(p.scope) /\ HashParses(p.action_hash) /\ SignatureParses(p.signature)

PyProof(p) == [p EXCEPT !.tenant = PyTenant(@), !.subject = PyParty(@), !.audience = PyAudience(@),
                        !.action = PyAction(@), !.target = PyTarget(@), !.sep = "T"]

Unsigned(p) == [f \in DOMAIN p \ {"signature"} |-> p[f]]

(* buildUnsignedPccbPayload: the same members, timestamps normalised.      *)
TsUnsigned(p) == [f \in DOMAIN p \ {"signature"} |-> IF f = "sep" THEN "T" ELSE p[f]]

(* parseIntent and parsePccb.                                              *)
TsIntentParses(i) ==
    /\ i.version = "v1" /\ TsTenantParses(i.tenant) /\ TsPartyParses(i.requester)
    /\ TsActionParses(i.action) /\ TsTargetParses(i.target)

AcceptedHash(h) == h.algorithm = "sha-256" /\ h.canonicalization \in {"RFC8785-JCS", "ACTENON-JCS-STRICT-1"}

TsProofParses(p) ==
    /\ p.version = "v1" /\ TsTenantParses(p.tenant) /\ TsPartyParses(p.subject)
    /\ TsAudienceParses(p.audience) /\ TsActionParses(p.action) /\ TsTargetParses(p.target)
    /\ TsScopeParses(p.scope) /\ AcceptedHash(p.action_hash) /\ TsSignatureParses(p.signature)

(* build_action_hash_input and buildActionHashInput: the bound fields.     *)
HashInput(i) == <<i.intent_id, i.tenant, i.requester, i.action, i.target, i.issued_at, i.expires_at>>
TsHashInput(i) == <<i.intent_id, i.tenant, i.requester, i.action, i.target, i.issued_at, i.expires_at>>

(***************************************************************************)
(* Minting.                                                                *)
(***************************************************************************)

(* The scope is what the issuer grants; the window runs from now to the    *)
(* intent's expiry.                                                        *)
Mint(id, i, context, key, escrow, authority) ==
    LET intent == PyIntent(i)
        unsigned == [version |-> "v1", pccb_id |-> id, intent_id |-> intent.intent_id, sep |-> "T",
                     issued_at |-> context.now, not_before |-> context.now,
                     expires_at |-> intent.expires_at,
                     subject |-> intent.requester, tenant |-> intent.tenant,
                     audience |-> context.audience, action |-> intent.action,
                     target |-> intent.target,
                     scope |-> [mode |-> "exact", single_use |-> TRUE,
                                capabilities |-> context.capabilities,
                                constraints |-> context.constraints],
                     action_hash |-> [algorithm |-> "sha-256", canonicalization |-> "ACTENON-JCS-STRICT-1",
                                      value |-> HashInput(intent)],
                     escrow_id |-> escrow, authority |-> authority]
    IN  [f \in DOMAIN unsigned \cup {"signature"} |->
            IF f = "signature" THEN [key |-> key, encoding |-> "base64url", payload |-> unsigned]
            ELSE unsigned[f]]

(***************************************************************************)
(* Verification.                                                           *)
(***************************************************************************)

Authentic(payload, p, keys) ==
    /\ p.signature.encoding = "base64url"
    /\ p.signature.key \in keys
    /\ p.signature.payload = payload

Wildcards == {"*"}

(* A capability with a wildcard is never in scope, nor is any in a scope   *)
(* that has one.                                                           *)
CapabilityInScope(c, scope) == (scope \cup {c}) \cap Wildcards = {} /\ c \in scope

(* Mutation of TsCapabilityInScope: a scope may hold a wildcard.           *)
TsCapabilityInScopeAny(c, scope) == c \notin Wildcards /\ c \in scope

TsCapabilityInScope(c, scope) == c \notin Wildcards /\ scope \cap Wildcards = {} /\ c \in scope

TargetField(target, k) ==
    CASE k = "resource_id" -> [known |-> TRUE, value |-> target.resource_id]
      [] k = "resource_type" -> [known |-> TRUE, value |-> target.resource_type]
      [] k \in DOMAIN target.selectors -> [known |-> TRUE, value |-> target.selectors[k]]
      [] OTHER -> [known |-> FALSE, value |-> "none"]

TargetSatisfies(target, selector) ==
    /\ DOMAIN selector # {}
    /\ \A k \in DOMAIN selector : TargetField(target, k) = [known |-> TRUE, value |-> selector[k]]

(* Mutation of ConstraintsSigned: the signed value is not compared.        *)
ConstraintsNamed(p, context) == DOMAIN context.constraints \subseteq DOMAIN p.scope.constraints

ConstraintsSigned(p, context) ==
    \A k \in DOMAIN context.constraints : Member(p.scope.constraints, k, context.constraints[k])

SelectorsSatisfied(p, context) ==
    context.selectors = {} \/ \E s \in context.selectors : TargetSatisfies(p.target, s)

(* E5: the source answers "active", "revoked" or raises; "none" is no      *)
(* source.  A revocable or unreadable authority needs an answer.           *)
AuthorityRefused(p, source) ==
    \/ p.authority = "malformed"
    \/ IF source = "none" THEN p.authority = "revocable" ELSE source # "active"

(* Mutation of TsAuthorityRefused: a source that throws does not refuse.   *)
TsAuthorityRevoked(p, source) == source = "revoked"

TsAuthorityRefused(p, source) ==
    \/ p.authority = "malformed"
    \/ p.authority = "revocable" /\ source = "none"
    \/ source \notin {"none", "active"}

TooEarly(p, context, skew) == context.now + skew < p.not_before
TooLate(p, context, skew) == context.now - skew > p.expires_at

PreAuthentication(p, v) == <<
    Failing("UNSUPPORTED_PROTOCOL_VERSION", p.version # "v1"),
    Failing("SIGNATURE_INVALID", ~Authentic(Unsigned(p), p, v.keys))>>

PostAuthentication(i, p, context, v) == <<
    Failing("PROOF_NOT_YET_VALID", TooEarly(p, context, v.skew)),
    Failing("PROOF_EXPIRED", TooLate(p, context, v.skew)),
    Failing("AUDIENCE_MISMATCH", p.audience # context.audience),
    Failing("AUDIENCE_MISMATCH", v.boundary \notin {"none", p.audience.id}),
    Failing("TARGET_MISMATCH", p.target # i.target),
    Failing("SCOPE_MODE_INVALID", p.scope.mode # "exact" \/ ~p.scope.single_use),
    Failing("SCOPE_CAPABILITY_MISMATCH", ~CapabilityInScope(i.action.capability, p.scope.capabilities)),
    Failing("SCOPE_CAPABILITY_MISMATCH", ~CapabilityInScope(i.action.capability, context.capabilities)),
    Failing("INTENT_MISMATCH", p.intent_id \notin {"none", i.intent_id}),
    Failing("TENANT_MISMATCH", p.tenant # i.tenant),
    Failing("SUBJECT_MISMATCH", p.subject # i.requester),
    Failing("ACTION_MISMATCH", p.action # i.action),
    Failing("ACTION_HASH_ALGORITHM_INVALID", ~AcceptedHash(p.action_hash)),
    Failing("ACTION_HASH_MISMATCH", p.action_hash.value # HashInput(i)),
    Failing("PARAMETER_MISMATCH", ~ConstraintsSigned(p, context)),
    Failing("TARGET_MISMATCH", ~SelectorsSatisfied(p, context)),
    Failing("AUTHORITY_REVOKED", AuthorityRefused(p, v.source))>>

(* Mutation of Disclosed: an authenticated issuer's operator sees all.     *)
DisclosedToTrusted(mode, pre, post) ==
    IF mode = "public_generic" /\ (pre # "OK" \/ post # "OK") THEN "PROOF_INVALID"
    ELSE IF pre # "OK" THEN pre ELSE post

(* _raise_pre_auth_failure and _raise_post_auth_failure.                   *)
Disclosed(mode, pre, post) ==
    IF pre # "OK" THEN IF mode = "local_debug" THEN pre ELSE "PROOF_INVALID"
    ELSE IF post # "OK" /\ mode = "public_generic" THEN "PROOF_INVALID" ELSE post

(* PCCBVerifier.verify of parsed contracts.                                *)
Verify(i, p, context, v) ==
    LET pre == FirstFailure(PreAuthentication(p, v))
        post == FirstFailure(PostAuthentication(i, p, context, v))
    IN  Disclosed(v.mode, pre, post)

(* VerifierSDK.verify of wire payloads.                                    *)
PySdkVerify(i, p, context, v) ==
    IF PyIntentParses(i) /\ PyProofParses(p) THEN Verify(PyIntent(i), PyProof(p), context, v)
    ELSE "raised"

TsChecks(i, p, context, v) == <<
    Failing("PROOF_NOT_YET_VALID", TooEarly(p, context, v.skew)),
    Failing("PROOF_EXPIRED", TooLate(p, context, v.skew)),
    Failing("SIGNATURE_INVALID", ~Authentic(TsUnsigned(p), p, v.keys)),
    Failing("AUDIENCE_MISMATCH", p.audience # context.audience),
    Failing("SCOPE_MODE_INVALID", p.scope.mode # "exact" \/ ~p.scope.single_use),
    Failing("SCOPE_CAPABILITY_MISMATCH", ~TsCapabilityInScope(i.action.capability, p.scope.capabilities)),
    Failing("SCOPE_CAPABILITY_MISMATCH", ~TsCapabilityInScope(i.action.capability, context.capabilities)),
    Failing("INTENT_MISMATCH", p.intent_id \notin {"none", i.intent_id}),
    Failing("TENANT_MISMATCH", p.tenant # i.tenant),
    Failing("SUBJECT_MISMATCH", p.subject # i.requester),
    Failing("ACTION_MISMATCH", p.action # i.action),
    Failing("TARGET_MISMATCH", p.target # i.target),
    Failing("ACTION_HASH_ALGORITHM_INVALID", ~AcceptedHash(p.action_hash)),
    Failing("ACTION_HASH_MISMATCH", p.action_hash.value # TsHashInput(i)),
    Failing("PARAMETER_MISMATCH", ~ConstraintsSigned(p, context)),
    Failing("TARGET_MISMATCH", ~SelectorsSatisfied(p, context)),
    Failing("AUTHORITY_REVOKED", TsAuthorityRefused(p, v.source))>>

(* buildContext: the audience and the capabilities of the edge.            *)
TsContextParses(context) == TsAudienceParses(context.audience) /\ \A c \in context.capabilities : Named(c)

(* VerifierSDK.verifyJSON.                                                 *)
TsVerify(i, p, context, v) ==
    CASE ~TsTimestamp(i.sep) \/ ~TsTimestamp(p.sep) -> "INVALID_TIMESTAMP"
      [] ~TsIntentParses(i) -> "INVALID_INTENT"
      [] ~TsProofParses(p) -> "INVALID_PCCB"
      [] ~TsContextParses(context) -> "INVALID_CONTEXT"
      [] OTHER -> FirstFailure(TsChecks(i, p, context, v))
=============================================================================
