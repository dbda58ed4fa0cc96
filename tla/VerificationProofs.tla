-------------------------- MODULE VerificationProofs -------------------------
(***************************************************************************)
(* What the verifiers accept and what an execution reports, for any        *)
(* issued proofs, presentations, edges, revocation times and modes: the    *)
(* Python verifier accepts what an issuer authorised, the TypeScript one   *)
(* accepts no more, and a reported outcome is one the resource vouched     *)
(* for.                                                                    *)
(***************************************************************************)
EXTENDS ProofVerification, ExecutionStates, WellFoundedInduction, TLAPS

(* A set of numbers that is not empty has a least element.                 *)
LEMMA LeastOfNumbers ==
    ASSUME NEW S \in SUBSET Nat, S # {}
    PROVE  \E i \in S : \A j \in S : i <= j
  <1> DEFINE R == OpToRel(<, Nat)
  <1>1. \A x, y \in Nat : <<y, x>> \in R <=> y < x
    BY DEF OpToRel
  <1>2. IsWellFoundedOn(R, Nat)
    BY NatLessThanWellFounded
  <1> HIDE DEF R
  <1>3. PICK x \in S : \A y \in S : ~(<<y, x>> \in R)
    BY Zenon, <1>2, WFMin
  <1>4. ASSUME NEW j \in S PROVE x <= j
    <2>1. ~(j < x)
      BY Zenon, <1>1, <1>3
    <2>2. QED
      BY <2>1
  <1>5. QED
    BY <1>4

(* The verifier accepts when none of its checks fails.                     *)
LEMMA FirstFailureOk ==
    ASSUME NEW checks, NEW n \in Nat, DOMAIN checks = 1 .. n, \A k \in 1 .. n : checks[k].code # "OK"
    PROVE  FirstFailure(checks) = "OK" <=> \A k \in 1 .. n : ~checks[k].fails
  <1> DEFINE bad == {k \in DOMAIN checks : checks[k].fails}
  <1>1. CASE bad = {}
    BY Zenon, <1>1 DEF FirstFailure
  <1>2. CASE bad # {}
    <2>1. bad \in SUBSET Nat
      OBVIOUS
    <2>2. \E k \in bad : \A m \in bad : k <= m
      BY Zenon, <1>2, <2>1, LeastOfNumbers
    <2>3. (CHOOSE k \in bad : \A m \in bad : k <= m) \in bad
      BY Zenon, <2>2
    <2>4. FirstFailure(checks) # "OK"
      BY Zenon, <1>2, <2>3 DEF FirstFailure
    <2>5. QED
      BY Zenon, <1>2, <2>4
  <1>3. QED
    BY Zenon, <1>1, <1>2

(* The checks after authentication, without their order.                   *)
PostPasses(i, p, context, v) ==
    /\ ~TooEarly(p, context, v.skew)
    /\ ~TooLate(p, context, v.skew)
    /\ p.audience = context.audience
    /\ v.boundary \in {"none", p.audience.id}
    /\ p.target = i.target
    /\ p.scope.mode = "exact"
    /\ p.scope.single_use
    /\ CapabilityInScope(i.action.capability, p.scope.capabilities)
    /\ CapabilityInScope(i.action.capability, context.capabilities)
    /\ p.intent_id \in {"none", i.intent_id}
    /\ p.tenant = i.tenant
    /\ p.subject = i.requester
    /\ p.action = i.action
    /\ AcceptedHash(p.action_hash)
    /\ p.action_hash.value = HashInput(i)
    /\ ConstraintsSigned(p, context)
    /\ SelectorsSatisfied(p, context)
    /\ ~AuthorityRefused(p, v.source)

LEMMA PostOk ==
    ASSUME NEW i, NEW p, NEW context, NEW v
    PROVE  FirstFailure(PostAuthentication(i, p, context, v)) = "OK" <=> PostPasses(i, p, context, v)
  <1> DEFINE checks == PostAuthentication(i, p, context, v)
  <1>1. DOMAIN checks = 1 .. 17 /\ 17 \in Nat
    BY DEF PostAuthentication
  <1>2. /\ checks[1].code = "PROOF_NOT_YET_VALID"
        /\ checks[2].code = "PROOF_EXPIRED"
        /\ checks[3].code = "AUDIENCE_MISMATCH"
        /\ checks[4].code = "AUDIENCE_MISMATCH"
        /\ checks[5].code = "TARGET_MISMATCH"
        /\ checks[6].code = "SCOPE_MODE_INVALID"
        /\ checks[7].code = "SCOPE_CAPABILITY_MISMATCH"
        /\ checks[8].code = "SCOPE_CAPABILITY_MISMATCH"
        /\ checks[9].code = "INTENT_MISMATCH"
    BY Zenon DEF PostAuthentication, Failing
  <1>3. /\ checks[10].code = "TENANT_MISMATCH"
        /\ checks[11].code = "SUBJECT_MISMATCH"
        /\ checks[12].code = "ACTION_MISMATCH"
        /\ checks[13].code = "ACTION_HASH_ALGORITHM_INVALID"
        /\ checks[14].code = "ACTION_HASH_MISMATCH"
        /\ checks[15].code = "PARAMETER_MISMATCH"
        /\ checks[16].code = "TARGET_MISMATCH"
        /\ checks[17].code = "AUTHORITY_REVOKED"
    BY Zenon DEF PostAuthentication, Failing
  <1>4. /\ checks[1].fails <=> TooEarly(p, context, v.skew)
        /\ checks[2].fails <=> TooLate(p, context, v.skew)
        /\ checks[3].fails <=> (p.audience # context.audience)
        /\ checks[4].fails <=> (v.boundary \notin {"none", p.audience.id})
        /\ checks[5].fails <=> (p.target # i.target)
        /\ checks[6].fails <=> (p.scope.mode # "exact" \/ ~p.scope.single_use)
        /\ checks[7].fails <=> ~CapabilityInScope(i.action.capability, p.scope.capabilities)
        /\ checks[8].fails <=> ~CapabilityInScope(i.action.capability, context.capabilities)
        /\ checks[9].fails <=> (p.intent_id \notin {"none", i.intent_id})
        /\ checks[10].fails <=> (p.tenant # i.tenant)
        /\ checks[11].fails <=> (p.subject # i.requester)
        /\ checks[12].fails <=> (p.action # i.action)
        /\ checks[13].fails <=> ~AcceptedHash(p.action_hash)
        /\ checks[14].fails <=> (p.action_hash.value # HashInput(i))
        /\ checks[15].fails <=> ~ConstraintsSigned(p, context)
        /\ checks[16].fails <=> ~SelectorsSatisfied(p, context)
        /\ checks[17].fails <=> AuthorityRefused(p, v.source)
    BY Zenon DEF PostAuthentication, Failing
  <1> HIDE DEF checks
  <1>5. \A k \in 1 .. 17 : \/ k = 1 \/ k = 2 \/ k = 3 \/ k = 4 \/ k = 5 \/ k = 6 \/ k = 7 \/ k = 8
                          \/ k = 9 \/ k = 10 \/ k = 11 \/ k = 12 \/ k = 13 \/ k = 14 \/ k = 15
                          \/ k = 16 \/ k = 17
    OBVIOUS
  <1>6. \A k \in 1 .. 17 : checks[k].code # "OK"
    BY Zenon, <1>2, <1>3, <1>5
  <1>7. (\A k \in 1 .. 17 : ~checks[k].fails) <=>
          /\ ~checks[1].fails /\ ~checks[2].fails /\ ~checks[3].fails /\ ~checks[4].fails
          /\ ~checks[5].fails /\ ~checks[6].fails /\ ~checks[7].fails /\ ~checks[8].fails
          /\ ~checks[9].fails /\ ~checks[10].fails /\ ~checks[11].fails /\ ~checks[12].fails
          /\ ~checks[13].fails /\ ~checks[14].fails /\ ~checks[15].fails /\ ~checks[16].fails
          /\ ~checks[17].fails
    OBVIOUS
  <1>8. (\A k \in 1 .. 17 : ~checks[k].fails) <=> PostPasses(i, p, context, v)
    BY Zenon, <1>4, <1>7 DEF PostPasses
  <1>9. QED
    BY Zenon, <1>1, <1>6, <1>8, FirstFailureOk DEF checks

LEMMA PreOk ==
    ASSUME NEW p, NEW v
    PROVE  FirstFailure(PreAuthentication(p, v)) = "OK" <=>
               p.version = "v1" /\ Authentic(Unsigned(p), p, v.keys)
  <1> DEFINE checks == PreAuthentication(p, v)
  <1>1. DOMAIN checks = 1 .. 2 /\ 2 \in Nat
    BY DEF PreAuthentication
  <1>2. checks[1].code # "OK" /\ checks[2].code # "OK"
    BY Zenon DEF PreAuthentication, Failing
  <1>3. (checks[1].fails <=> p.version # "v1") /\ (checks[2].fails <=> ~Authentic(Unsigned(p), p, v.keys))
    BY Zenon DEF PreAuthentication, Failing
  <1> HIDE DEF checks
  <1>4. \A k \in 1 .. 2 : checks[k].code # "OK"
    BY <1>2
  <1>5. (\A k \in 1 .. 2 : ~checks[k].fails) <=> ~checks[1].fails /\ ~checks[2].fails
    OBVIOUS
  <1>6. QED
    BY Zenon, <1>1, <1>3, <1>4, <1>5, FirstFailureOk DEF checks

LEMMA VerifyOk ==
    ASSUME NEW i, NEW p, NEW context, NEW v
    PROVE  Verify(i, p, context, v) = "OK" <=>
               p.version = "v1" /\ Authentic(Unsigned(p), p, v.keys) /\ PostPasses(i, p, context, v)
  <1> DEFINE pre == FirstFailure(PreAuthentication(p, v))
             post == FirstFailure(PostAuthentication(i, p, context, v))
  <1>1. Disclosed(v.mode, pre, post) = "OK" <=> pre = "OK" /\ post = "OK"
    BY Zenon DEF Disclosed
  <1>2. QED
    BY Zenon, <1>1, PreOk, PostOk DEF Verify

(* The checks of the SDK.                                                  *)
TsPasses(i, p, context, v) ==
    /\ ~TooEarly(p, context, v.skew)
    /\ ~TooLate(p, context, v.skew)
    /\ Authentic(TsUnsigned(p), p, v.keys)
    /\ p.audience = context.audience
    /\ p.scope.mode = "exact"
    /\ p.scope.single_use
    /\ TsCapabilityInScope(i.action.capability, p.scope.capabilities)
    /\ TsCapabilityInScope(i.action.capability, context.capabilities)
    /\ p.intent_id \in {"none", i.intent_id}
    /\ p.tenant = i.tenant
    /\ p.subject = i.requester
    /\ p.action = i.action
    /\ p.target = i.target
    /\ AcceptedHash(p.action_hash)
    /\ p.action_hash.value = TsHashInput(i)
    /\ ConstraintsSigned(p, context)
    /\ SelectorsSatisfied(p, context)
    /\ ~TsAuthorityRefused(p, v.source)

LEMMA TsChecksOk ==
    ASSUME NEW i, NEW p, NEW context, NEW v
    PROVE  FirstFailure(TsChecks(i, p, context, v)) = "OK" <=> TsPasses(i, p, context, v)
  <1> DEFINE checks == TsChecks(i, p, context, v)
  <1>1. DOMAIN checks = 1 .. 17 /\ 17 \in Nat
    BY DEF TsChecks
  <1>2. /\ checks[1].code = "PROOF_NOT_YET_VALID"
        /\ checks[2].code = "PROOF_EXPIRED"
        /\ checks[3].code = "SIGNATURE_INVALID"
        /\ checks[4].code = "AUDIENCE_MISMATCH"
        /\ checks[5].code = "SCOPE_MODE_INVALID"
        /\ checks[6].code = "SCOPE_CAPABILITY_MISMATCH"
        /\ checks[7].code = "SCOPE_CAPABILITY_MISMATCH"
        /\ checks[8].code = "INTENT_MISMATCH"
    BY Zenon DEF TsChecks, Failing
  <1>3. /\ checks[9].code = "TENANT_MISMATCH"
        /\ checks[10].code = "SUBJECT_MISMATCH"
        /\ checks[11].code = "ACTION_MISMATCH"
        /\ checks[12].code = "TARGET_MISMATCH"
        /\ checks[13].code = "ACTION_HASH_ALGORITHM_INVALID"
        /\ checks[14].code = "ACTION_HASH_MISMATCH"
        /\ checks[15].code = "PARAMETER_MISMATCH"
        /\ checks[16].code = "TARGET_MISMATCH"
        /\ checks[17].code = "AUTHORITY_REVOKED"
    BY Zenon DEF TsChecks, Failing
  <1>4. /\ checks[1].fails <=> TooEarly(p, context, v.skew)
        /\ checks[2].fails <=> TooLate(p, context, v.skew)
        /\ checks[3].fails <=> ~Authentic(TsUnsigned(p), p, v.keys)
        /\ checks[4].fails <=> (p.audience # context.audience)
        /\ checks[5].fails <=> (p.scope.mode # "exact" \/ ~p.scope.single_use)
        /\ checks[6].fails <=> ~TsCapabilityInScope(i.action.capability, p.scope.capabilities)
        /\ checks[7].fails <=> ~TsCapabilityInScope(i.action.capability, context.capabilities)
        /\ checks[8].fails <=> (p.intent_id \notin {"none", i.intent_id})
        /\ checks[9].fails <=> (p.tenant # i.tenant)
        /\ checks[10].fails <=> (p.subject # i.requester)
        /\ checks[11].fails <=> (p.action # i.action)
        /\ checks[12].fails <=> (p.target # i.target)
        /\ checks[13].fails <=> ~AcceptedHash(p.action_hash)
        /\ checks[14].fails <=> (p.action_hash.value # TsHashInput(i))
        /\ checks[15].fails <=> ~ConstraintsSigned(p, context)
        /\ checks[16].fails <=> ~SelectorsSatisfied(p, context)
        /\ checks[17].fails <=> TsAuthorityRefused(p, v.source)
    BY Zenon DEF TsChecks, Failing
  <1> HIDE DEF checks
  <1>5. \A k \in 1 .. 17 : \/ k = 1 \/ k = 2 \/ k = 3 \/ k = 4 \/ k = 5 \/ k = 6 \/ k = 7 \/ k = 8
                          \/ k = 9 \/ k = 10 \/ k = 11 \/ k = 12 \/ k = 13 \/ k = 14 \/ k = 15
                          \/ k = 16 \/ k = 17
    OBVIOUS
  <1>6. \A k \in 1 .. 17 : checks[k].code # "OK"
    BY Zenon, <1>2, <1>3, <1>5
  <1>7. (\A k \in 1 .. 17 : ~checks[k].fails) <=>
          /\ ~checks[1].fails /\ ~checks[2].fails /\ ~checks[3].fails /\ ~checks[4].fails
          /\ ~checks[5].fails /\ ~checks[6].fails /\ ~checks[7].fails /\ ~checks[8].fails
          /\ ~checks[9].fails /\ ~checks[10].fails /\ ~checks[11].fails /\ ~checks[12].fails
          /\ ~checks[13].fails /\ ~checks[14].fails /\ ~checks[15].fails /\ ~checks[16].fails
          /\ ~checks[17].fails
    OBVIOUS
  <1>8. (\A k \in 1 .. 17 : ~checks[k].fails) <=> TsPasses(i, p, context, v)
    BY Zenon, <1>4, <1>7 DEF TsPasses
  <1>9. QED
    BY Zenon, <1>1, <1>6, <1>8, FirstFailureOk DEF checks

LEMMA TsVerifyOk ==
    ASSUME NEW i, NEW p, NEW context, NEW v
    PROVE  TsVerify(i, p, context, v) = "OK" <=>
               /\ TsTimestamp(i.sep) /\ TsTimestamp(p.sep) /\ TsIntentParses(i) /\ TsProofParses(p)
               /\ TsContextParses(context) /\ TsPasses(i, p, context, v)
  <1>1. FirstFailure(TsChecks(i, p, context, v)) = "OK" <=> TsPasses(i, p, context, v)
    BY Zenon, TsChecksOk
  <1>2. QED
    BY Zenon, <1>1 DEF TsVerify

(***************************************************************************)
(* What the issuer signs.                                                  *)
(***************************************************************************)

ProofFields == {"version", "pccb_id", "intent_id", "sep", "issued_at", "not_before", "expires_at",
                "subject", "tenant", "audience", "action", "target", "scope", "action_hash",
                "escrow_id", "authority", "signature"}

IntentFields == {"version", "intent_id", "sep", "tenant", "requester", "action", "target",
                 "issued_at", "expires_at"}

(* An intent as Python reads it.                                           *)
LEMMA PyIntentFields ==
    ASSUME NEW i, IsWireIntent(i)
    PROVE  /\ PyIntent(i).tenant = PyTenant(i.tenant) /\ PyIntent(i).requester = PyParty(i.requester)
           /\ PyIntent(i).action = PyAction(i.action) /\ PyIntent(i).target = PyTarget(i.target)
           /\ PyIntent(i).sep = "T" /\ PyIntent(i).version = i.version
           /\ PyIntent(i).intent_id = i.intent_id /\ PyIntent(i).issued_at = i.issued_at
           /\ PyIntent(i).expires_at = i.expires_at
           /\ PyIntent(i).action.capability = i.action.capability
           /\ DOMAIN PyIntent(i) = DOMAIN i /\ PyIntent(i) = [f \in DOMAIN i |-> PyIntent(i)[f]]
  <1>1. /\ i = [f \in DOMAIN i |-> i[f]] /\ IntentFields \subseteq DOMAIN i
        /\ "capability" \in DOMAIN i.action
    BY DEF IsWireIntent, HasFields, IntentFields
  <1>2. /\ PyIntent(i).tenant = PyTenant(i.tenant) /\ PyIntent(i).requester = PyParty(i.requester)
        /\ PyIntent(i).action = PyAction(i.action) /\ PyIntent(i).target = PyTarget(i.target)
        /\ PyIntent(i).sep = "T"
    BY <1>1 DEF PyIntent, IntentFields
  <1>3. /\ PyIntent(i).version = i.version /\ PyIntent(i).intent_id = i.intent_id
        /\ PyIntent(i).issued_at = i.issued_at /\ PyIntent(i).expires_at = i.expires_at
    BY <1>1 DEF PyIntent, IntentFields
  <1>4. PyAction(i.action).capability = i.action.capability
    BY <1>1 DEF PyAction
  <1>5. DOMAIN PyIntent(i) = DOMAIN i /\ PyIntent(i) = [f \in DOMAIN i |-> PyIntent(i)[f]]
    BY Zenon, <1>1 DEF PyIntent
  <1>6. QED
    BY Zenon, <1>2, <1>3, <1>4, <1>5

SignedOver(q, i, context, key, authority) ==
    /\ DOMAIN q = ProofFields /\ q = [f \in ProofFields |-> q[f]]
    /\ q.signature.key = key /\ q.signature.encoding = "base64url"
    /\ q.signature.payload = Unsigned(q)
    /\ q.version = "v1" /\ q.sep = "T" /\ q.intent_id = PyIntent(i).intent_id
    /\ q.not_before = context.now /\ q.expires_at = PyIntent(i).expires_at
    /\ q.subject = PyIntent(i).requester /\ q.tenant = PyIntent(i).tenant
    /\ q.audience = context.audience /\ q.action = PyIntent(i).action
    /\ q.target = PyIntent(i).target /\ q.scope.constraints = context.constraints
    /\ q.action_hash.value = HashInput(PyIntent(i)) /\ q.authority = authority

(* A minted proof: its signature is over its own members.                  *)
LEMMA MintFields ==
    ASSUME NEW id, NEW i, NEW context, NEW key, NEW escrow, NEW authority,
           NEW q, q = Mint(id, i, context, key, escrow, authority)
    PROVE  SignedOver(q, i, context, key, authority)
  <1> DEFINE intent == PyIntent(i)
             unsigned == [version |-> "v1", pccb_id |-> id, intent_id |-> intent.intent_id, sep |-> "T",
                     issued_at |-> context.now, not_before |-> context.now,
                     expires_at |-> intent.expires_at,
                     subject |-> intent.requester, tenant |-> intent.tenant,
                     audience |-> context.audience, action |-> intent.action,
                     target |-> intent.target,
                     scope |-> [mode |-> "exact", single_use |-> TRUE,
                                capabilities |-> context.capabilities,
                                constraints |-> context.constraints],
                     action_hash |-> [algorithm |-> "sha-256", canonicalization |-> "ACTENON-JCS-STRICT-1",
                                      value |-> HashInput(intent)],
                     escrow_id |-> escrow, authority |-> authority]
             signature == [key |-> key, encoding |-> "base64url", payload |-> unsigned]
  <1>1. q = [f \in DOMAIN unsigned \cup {"signature"} |-> IF f = "signature" THEN signature ELSE unsigned[f]]
    BY Zenon DEF Mint
  <1>2. DOMAIN unsigned = ProofFields \ {"signature"}
    BY DEF ProofFields
  <1>3. /\ unsigned.version = "v1" /\ unsigned.sep = "T" /\ unsigned.intent_id = intent.intent_id
        /\ unsigned.not_before = context.now /\ unsigned.expires_at = intent.expires_at
        /\ unsigned.subject = intent.requester /\ unsigned.tenant = intent.tenant
        /\ unsigned.audience = context.audience /\ unsigned.action = intent.action
        /\ unsigned.target = intent.target /\ unsigned.scope.constraints = context.constraints
        /\ unsigned.action_hash.value = HashInput(intent) /\ unsigned.authority = authority
    BY Zenon
  <1>4. /\ signature.key = key /\ signature.encoding = "base64url" /\ signature.payload = unsigned
    BY Zenon
  <1>5. unsigned = [f \in DOMAIN unsigned |-> unsigned[f]]
    BY Zenon
  <1> HIDE DEF unsigned, signature, intent
  <1>6. DOMAIN q = ProofFields /\ q = [f \in ProofFields |-> q[f]] /\ q.signature = signature
    BY Zenon, <1>1, <1>2 DEF ProofFields
  <1>7. \A f \in ProofFields \ {"signature"} : q[f] = unsigned[f]
    BY Zenon, <1>1, <1>2
  <1>8. Unsigned(q) = unsigned
    BY Zenon, <1>2, <1>5, <1>6, <1>7 DEF Unsigned
  <1>9. /\ q.version = unsigned.version /\ q.sep = unsigned.sep /\ q.intent_id = unsigned.intent_id
        /\ q.not_before = unsigned.not_before /\ q.expires_at = unsigned.expires_at
        /\ q.subject = unsigned.subject /\ q.tenant = unsigned.tenant
        /\ q.audience = unsigned.audience /\ q.action = unsigned.action
        /\ q.target = unsigned.target /\ q.scope = unsigned.scope
        /\ q.action_hash = unsigned.action_hash /\ q.authority = unsigned.authority
    BY Zenon, <1>7 DEF ProofFields
  <1>10. /\ q.version = "v1" /\ q.sep = "T" /\ q.intent_id = intent.intent_id
         /\ q.not_before = context.now /\ q.expires_at = intent.expires_at
         /\ q.subject = intent.requester /\ q.tenant = intent.tenant
         /\ q.audience = context.audience /\ q.action = intent.action
         /\ q.target = intent.target /\ q.scope.constraints = context.constraints
         /\ q.action_hash.value = HashInput(intent) /\ q.authority = authority
    BY Zenon, <1>3, <1>9
  <1>11. q.signature.key = key /\ q.signature.encoding = "base64url" /\ q.signature.payload = Unsigned(q)
    BY Zenon, <1>4, <1>6, <1>8
  <1>12. QED
    BY Zenon, <1>6, <1>10, <1>11 DEF SignedOver, intent

(***************************************************************************)
(* Presentations.                                                          *)
(***************************************************************************)

Timed(context, t) == [f \in DOMAIN context \cup {"now"} |-> IF f = "now" THEN t ELSE context[f]]

Issued(m) ==
    /\ m.intent \in SignedIntents /\ m.grant \in Grants /\ m.at \in Nat
    /\ \E a : m.proof = Mint("p1", m.intent, Timed(m.grant, m.at), "issuer_key", "none", a)

(* What is presented is judged on the clock and the revocations of now:    *)
(* nothing moves after a presentation.                                     *)
VerificationInv ==
    /\ verifierNow \in Nat
    /\ \A m \in minted : Issued(m)
    /\ presented = NothingPresented \/ \E m \in minted, r \in Presentations : presented = Shown(m, r)

LEMMA IssuedFields ==
    ASSUME NEW m, Issued(m)
    PROVE  /\ DOMAIN m.proof = ProofFields /\ m.proof = [f \in ProofFields |-> m.proof[f]]
           /\ m.proof.signature.encoding = "base64url" /\ m.proof.signature.payload = Unsigned(m.proof)
           /\ m.proof.version = "v1" /\ m.proof.sep = "T"
           /\ m.proof.not_before = m.at /\ m.at \in Nat
           /\ m.proof.expires_at = m.intent.expires_at /\ m.intent.expires_at \in Int
           /\ m.proof.tenant = PyTenant(m.intent.tenant) /\ m.proof.subject = PyParty(m.intent.requester)
           /\ m.proof.action = PyAction(m.intent.action) /\ m.proof.target = PyTarget(m.intent.target)
           /\ m.proof.audience = m.grant.audience /\ m.proof.scope.constraints = m.grant.constraints
           /\ m.proof.action_hash.value = HashInput(PyIntent(m.intent))
           /\ HasFields(m.grant.audience, {"type", "id", "uri"})
  <1>1. PICK a : m.proof = Mint("p1", m.intent, Timed(m.grant, m.at), "issuer_key", "none", a)
    BY Zenon DEF Issued
  <1>2. /\ IsWireIntent(m.intent) /\ HasFields(m.grant, {"audience", "capabilities", "constraints"})
        /\ HasFields(m.grant.audience, {"type", "id", "uri"}) /\ m.at \in Nat
    BY Zenon, PresentationAssumption DEF Issued
  <1> DEFINE context == Timed(m.grant, m.at)
             i == PyIntent(m.intent)
  <1>3. context.now = m.at /\ context.audience = m.grant.audience
        /\ context.constraints = m.grant.constraints
    BY Zenon, <1>2 DEF Timed, HasFields
  <1> HIDE DEF context
  <1>4. /\ i.tenant = PyTenant(m.intent.tenant) /\ i.requester = PyParty(m.intent.requester)
        /\ i.action = PyAction(m.intent.action) /\ i.target = PyTarget(m.intent.target)
        /\ i.expires_at = m.intent.expires_at
    BY Zenon, <1>2, PyIntentFields
  <1>5. m.intent.expires_at \in Int
    BY Zenon, <1>2 DEF IsWireIntent
  <1>6. m.proof = Mint("p1", m.intent, context, "issuer_key", "none", a)
    BY Zenon, <1>1 DEF context
  <1>7. /\ DOMAIN m.proof = ProofFields /\ m.proof = [f \in ProofFields |-> m.proof[f]]
        /\ m.proof.signature.encoding = "base64url" /\ m.proof.signature.payload = Unsigned(m.proof)
        /\ m.proof.version = "v1" /\ m.proof.sep = "T"
        /\ m.proof.not_before = context.now /\ m.proof.expires_at = i.expires_at
        /\ m.proof.subject = i.requester /\ m.proof.tenant = i.tenant
        /\ m.proof.audience = context.audience /\ m.proof.action = i.action
        /\ m.proof.target = i.target /\ m.proof.scope.constraints = context.constraints
        /\ m.proof.action_hash.value = HashInput(i)
    <2>1. SignedOver(m.proof, m.intent, context, "issuer_key", a)
      BY Zenon, <1>6, MintFields
    <2>2. QED
      BY Zenon, <2>1 DEF SignedOver
  <1>8. QED
    BY Zenon, <1>2, <1>3, <1>4, <1>5, <1>7

(* The edge's context and verifier are the configured ones, at this time.  *)
LEMMA EdgeFields ==
    ASSUME NEW r \in Presentations
    PROVE  LET v == Consulting(r.edge.verifier)
               context == AtTime(r.edge.context)
           IN  /\ v.keys = r.edge.verifier.keys /\ v.skew = r.edge.verifier.skew /\ v.skew \in Int
               /\ v.mode = r.edge.verifier.mode /\ v.boundary = r.edge.verifier.boundary
               /\ v.source = SourceAnswer(r.edge.verifier.source)
               /\ context.now = verifierNow /\ context.audience = r.edge.context.audience
               /\ context.capabilities = r.edge.context.capabilities
               /\ context.constraints = r.edge.context.constraints
               /\ \A c \in context.capabilities : Named(c)
               /\ IsWireIntent(r.intent)
  <1>1. /\ HasFields(r.edge.context, {"audience", "capabilities", "constraints", "selectors"})
        /\ HasFields(r.edge.verifier, {"keys", "skew", "mode", "boundary", "source"})
        /\ r.edge.verifier.skew \in Int /\ IsWireIntent(r.intent)
        /\ \A c \in r.edge.context.capabilities : Named(c)
    BY Zenon, PresentationAssumption
  <1> DEFINE w == r.edge.verifier
             v == Consulting(w)
             context == AtTime(r.edge.context)
  <1>2. /\ v.keys = w.keys /\ v.skew = w.skew /\ v.mode = w.mode /\ v.boundary = w.boundary
        /\ v.source = SourceAnswer(w.source)
    BY Zenon, <1>1 DEF Consulting, HasFields
  <1>3. /\ context.now = verifierNow /\ context.audience = r.edge.context.audience
        /\ context.capabilities = r.edge.context.capabilities
        /\ context.constraints = r.edge.context.constraints
    BY Zenon, <1>1 DEF AtTime, HasFields
  <1>4. QED
    BY Zenon, <1>1, <1>2, <1>3

(* What reaches an edge has the members of a proof, and the signature of   *)
(* the issuer or one the edge does not trust.                              *)
LEMMA CarriedFields ==
    ASSUME NEW m, Issued(m), NEW r \in Presentations
    PROVE  LET p == Carried(m, r.change)
           IN  /\ DOMAIN p = ProofFields /\ p = [f \in ProofFields |-> p[f]]
               /\ p.signature = m.proof.signature \/ p.signature.key \notin r.edge.verifier.keys
  <1> DEFINE q == m.proof
             c == r.change
             p == Carried(m, c)
  <1>1. DOMAIN q = ProofFields /\ q = [f \in ProofFields |-> q[f]]
    BY Zenon, IssuedFields
  <1>2. c.field = "signature" => c.value.key \notin r.edge.verifier.keys
    BY Zenon, PresentationAssumption
  <1>3. "signature" \in ProofFields
    BY Zenon DEF ProofFields
  <1>4. p = IF c.field \in ProofFields THEN [q EXCEPT ![c.field] = c.value] ELSE q
    BY Zenon, <1>1 DEF Carried
  <1> HIDE DEF q, c, p
  <1>5. DOMAIN p = ProofFields /\ p = [f \in ProofFields |-> p[f]]
    BY <1>1, <1>4
  <1>6. c.field = "signature" => p.signature = c.value
    BY Zenon, <1>1, <1>3, <1>4
  <1>7. c.field # "signature" => p.signature = q.signature
    BY <1>1, <1>3, <1>4
  <1>8. QED
    BY Zenon, <1>2, <1>5, <1>6, <1>7 DEF q, c, p

(* An authentic signature is the issuer's: the payload is what was minted. *)
LEMMA AuthenticIsMinted ==
    ASSUME NEW m, Issued(m), NEW r \in Presentations, NEW payload, NEW x,
           x.signature = Carried(m, r.change).signature,
           Authentic(payload, x, Consulting(r.edge.verifier).keys)
    PROVE  payload = Unsigned(m.proof)
  <1> DEFINE p == Carried(m, r.change)
             trusted == Consulting(r.edge.verifier).keys
  <1>1. p.signature = m.proof.signature \/ p.signature.key \notin r.edge.verifier.keys
    BY Zenon, CarriedFields
  <1>2. trusted = r.edge.verifier.keys
    BY Zenon, EdgeFields
  <1>3. m.proof.signature.payload = Unsigned(m.proof)
    BY Zenon, IssuedFields
  <1>4. p.signature.key \in trusted /\ p.signature.payload = payload
    BY Zenon DEF Authentic
  <1>5. QED
    BY Zenon, <1>1, <1>2, <1>3, <1>4

LEMMA SameMembers ==
    ASSUME NEW a, NEW b, DOMAIN a = ProofFields, DOMAIN b = ProofFields, Unsigned(a) = Unsigned(b)
    PROVE  \A f \in ProofFields \ {"signature"} : a[f] = b[f]
  <1> SUFFICES ASSUME NEW f \in ProofFields \ {"signature"} PROVE a[f] = b[f]
    BY Zenon
  <1>1. Unsigned(a)[f] = a[f] /\ Unsigned(b)[f] = b[f]
    BY DEF Unsigned
  <1>2. QED
    BY Zenon, <1>1

(* A proof as Python reads it keeps its members and its signature.         *)
LEMMA PyProofFields ==
    ASSUME NEW p, DOMAIN p = ProofFields, p = [f \in ProofFields |-> p[f]]
    PROVE  DOMAIN PyProof(p) = ProofFields /\ PyProof(p).signature = p.signature
  BY DEF PyProof, ProofFields

LEMMA PyAcceptsAuthorised ==
    ASSUME verifierNow \in Nat, NEW m \in minted, Issued(m), NEW r \in Presentations,
           PySdkVerify(r.intent, Carried(m, r.change), AtTime(r.edge.context),
                       Consulting(r.edge.verifier)) = "OK"
    PROVE  Authorised(r.intent, r.edge) /\ Unsigned(PyProof(Carried(m, r.change))) = Unsigned(m.proof)
  <1> DEFINE i == r.intent
             j == PyIntent(i)
             p == Carried(m, r.change)
             x == PyProof(p)
             e == r.edge
             v == Consulting(e.verifier)
             context == AtTime(e.context)
  <1>1. Verify(j, x, context, v) = "OK"
    BY Zenon DEF PySdkVerify
  <1>2. Authentic(Unsigned(x), x, v.keys) /\ PostPasses(j, x, context, v)
    BY Zenon, <1>1, VerifyOk
  <1>3. DOMAIN x = ProofFields /\ x.signature = p.signature
    BY Zenon, CarriedFields, PyProofFields
  <1>4. Unsigned(x) = Unsigned(m.proof)
    BY Zenon, <1>2, <1>3, AuthenticIsMinted
  <1>5. \A f \in ProofFields \ {"signature"} : x[f] = m.proof[f]
    <2>1. DOMAIN m.proof = ProofFields
      BY Zenon, IssuedFields
    <2> HIDE DEF x
    <2>2. QED
      BY Zenon, <1>3, <1>4, <2>1, SameMembers
  <1>6. /\ x.not_before = m.at /\ m.at \in Nat /\ x.expires_at = m.intent.expires_at
        /\ m.intent.expires_at \in Int /\ x.audience = m.grant.audience
        /\ x.scope.constraints = m.grant.constraints
        /\ x.action_hash.value = HashInput(PyIntent(m.intent)) /\ x.authority = m.proof.authority
    <2>1. /\ x.not_before = m.proof.not_before /\ x.expires_at = m.proof.expires_at
          /\ x.audience = m.proof.audience /\ x.scope = m.proof.scope
          /\ x.action_hash = m.proof.action_hash /\ x.authority = m.proof.authority
      BY Zenon, <1>5 DEF ProofFields
    <2>2. QED
      BY Zenon, <2>1, IssuedFields
  <1>7. /\ v.skew = e.verifier.skew /\ v.skew \in Int /\ v.source = SourceAnswer(e.verifier.source)
        /\ context.now = verifierNow /\ context.audience = e.context.audience
        /\ context.capabilities = e.context.capabilities
        /\ context.constraints = e.context.constraints /\ IsWireIntent(i)
    BY Zenon, EdgeFields
  <1>8. /\ ~TooEarly(x, context, v.skew) /\ ~TooLate(x, context, v.skew)
        /\ x.audience = context.audience /\ x.action_hash.value = HashInput(j)
        /\ CapabilityInScope(j.action.capability, context.capabilities)
        /\ ConstraintsSigned(x, context) /\ ~AuthorityRefused(x, v.source)
    BY Zenon, <1>2 DEF PostPasses
  <1>9. j.action.capability = i.action.capability
    BY Zenon, <1>7, PyIntentFields
  <1> HIDE DEF i, j, p, x, e, v, context
  <1>10. HashInput(PyIntent(i)) = HashInput(PyIntent(m.intent))
    BY Zenon, <1>6, <1>8 DEF j
  <1>11. e.context.audience = m.grant.audience /\ i.action.capability \in e.context.capabilities
    BY Zenon, <1>6, <1>7, <1>8, <1>9 DEF CapabilityInScope
  <1>12. \A k \in DOMAIN e.context.constraints :
            k \in DOMAIN m.grant.constraints /\ m.grant.constraints[k] = e.context.constraints[k]
    BY Zenon, <1>6, <1>7, <1>8 DEF ConstraintsSigned, Member
  <1>13. m.at <= verifierNow + e.verifier.skew /\ verifierNow - e.verifier.skew <= m.intent.expires_at
    BY <1>6, <1>7, <1>8 DEF TooEarly, TooLate
  <1>14. m.proof.authority = "revocable" /\ e.verifier.source = "live" => ~revoked
    BY Zenon, <1>6, <1>7, <1>8 DEF AuthorityRefused, SourceAnswer
  <1>15. Authorised(i, e)
    BY Zenon, <1>10, <1>11, <1>12, <1>13, <1>14 DEF Authorised
  <1>16. QED
    BY Zenon, <1>4, <1>15 DEF i, e, x, p

(* Outside local debugging an unauthentic proof gets the generic answer.   *)
LEMMA UnauthenticAnswer ==
    ASSUME NEW m \in minted, Issued(m), NEW r \in Presentations, r.edge.verifier.mode # "local_debug",
           PyIntentParses(r.intent), PyProofParses(Carried(m, r.change)),
           Unsigned(PyProof(Carried(m, r.change))) # Unsigned(m.proof)
    PROVE  PySdkVerify(r.intent, Carried(m, r.change), AtTime(r.edge.context),
                       Consulting(r.edge.verifier)) = "PROOF_INVALID"
  <1> DEFINE p == Carried(m, r.change)
             x == PyProof(p)
             v == Consulting(r.edge.verifier)
             pre == FirstFailure(PreAuthentication(x, v))
  <1>1. x.signature = p.signature
    BY Zenon, CarriedFields, PyProofFields
  <1>2. ~Authentic(Unsigned(x), x, v.keys)
    BY Zenon, <1>1, AuthenticIsMinted
  <1>3. pre # "OK"
    BY Zenon, <1>2, PreOk
  <1>4. v.mode # "local_debug"
    BY Zenon, EdgeFields
  <1> HIDE DEF pre
  <1>5. \A post : Disclosed(v.mode, pre, post) = "PROOF_INVALID"
    BY Zenon, <1>3, <1>4 DEF Disclosed
  <1>6. QED
    BY Zenon, <1>5 DEF PySdkVerify, Verify, pre

(***************************************************************************)
(* The two verifiers.                                                      *)
(***************************************************************************)

(* What Python writes it reads back unchanged.                             *)
LEMMA PyTwice ==
    ASSUME NEW t
    PROVE  /\ PyTenant(PyTenant(t)) = PyTenant(t) /\ PyParty(PyParty(t)) = PyParty(t)
           /\ PyAction(PyAction(t)) = PyAction(t) /\ PyTarget(PyTarget(t)) = PyTarget(t)
  <1>1. \A y : PyMap(PyMap(y)) = PyMap(y)
    BY DEF PyMap
  <1>2. \A y : PyText(PyText(y)) = PyText(y)
    BY DEF PyText
  <1>3. PyTenant(PyTenant(t)) = PyTenant(t)
    BY Zenon, <1>1 DEF PyTenant
  <1>4. PyParty(PyParty(t)) = PyParty(t)
    BY <1>1, <1>2 DEF PyParty
  <1>5. PyAction(PyAction(t)) = PyAction(t)
    BY Zenon, <1>1 DEF PyAction
  <1>6. PyTarget(PyTarget(t)) = PyTarget(t)
    BY Zenon, <1>2 DEF PyTarget
  <1>7. QED
    BY Zenon, <1>3, <1>4, <1>5, <1>6

(* A proof whose members are the minted ones, and whose audience has no    *)
(* null uri, is read by Python as it is.                                   *)
LEMMA MintedIsNormal ==
    ASSUME NEW m, Issued(m), NEW p, DOMAIN p = ProofFields, p = [f \in ProofFields |-> p[f]],
           \A f \in ProofFields \ {"signature"} : p[f] = m.proof[f], p.audience.uri # "null"
    PROVE  PyProof(p) = p
  <1>1. /\ p.tenant = PyTenant(m.intent.tenant) /\ p.subject = PyParty(m.intent.requester)
        /\ p.action = PyAction(m.intent.action) /\ p.target = PyTarget(m.intent.target)
        /\ p.audience = m.grant.audience /\ p.sep = "T"
        /\ HasFields(m.grant.audience, {"type", "id", "uri"})
    <2>1. /\ p.tenant = m.proof.tenant /\ p.subject = m.proof.subject /\ p.action = m.proof.action
          /\ p.target = m.proof.target /\ p.audience = m.proof.audience /\ p.sep = m.proof.sep
      BY Zenon DEF ProofFields
    <2>2. QED
      BY Zenon, <2>1, IssuedFields
  <1>2. PyTenant(p.tenant) = p.tenant /\ PyParty(p.subject) = p.subject
        /\ PyAction(p.action) = p.action /\ PyTarget(p.target) = p.target
    <2>1. PyTenant(PyTenant(m.intent.tenant)) = PyTenant(m.intent.tenant)
      BY Zenon, PyTwice
    <2>2. PyParty(PyParty(m.intent.requester)) = PyParty(m.intent.requester)
      BY Zenon, PyTwice
    <2>3. PyAction(PyAction(m.intent.action)) = PyAction(m.intent.action)
      BY Zenon, PyTwice
    <2>4. PyTarget(PyTarget(m.intent.target)) = PyTarget(m.intent.target)
      BY Zenon, PyTwice
    <2>5. QED
      BY Zenon, <1>1, <2>1, <2>2, <2>3, <2>4
  <1>3. PyAudience(p.audience) = p.audience
    <2>1. PyText(p.audience.uri) = p.audience.uri
      BY Zenon DEF PyText
    <2>2. p.audience = [f \in DOMAIN p.audience |-> p.audience[f]]
      BY Zenon, <1>1 DEF HasFields
    <2>3. QED
      BY <2>1, <2>2 DEF PyAudience
  <1>4. QED
    BY ZenonT(30), <1>1, <1>2, <1>3 DEF PyProof, ProofFields

(* An intent with the members of such a proof is read as it is too.        *)
LEMMA SameIntentIsNormal ==
    ASSUME NEW i, IsWireIntent(i), NEW p, PyProof(p) = p, DOMAIN p = ProofFields,
           i.tenant = p.tenant, i.requester = p.subject, i.action = p.action, i.target = p.target,
           i.sep = "T"
    PROVE  PyIntent(i) = i
  <1>1. PyTenant(p.tenant) = p.tenant /\ PyParty(p.subject) = p.subject
        /\ PyAction(p.action) = p.action /\ PyTarget(p.target) = p.target
    <2>1. /\ PyProof(p).tenant = PyTenant(p.tenant) /\ PyProof(p).subject = PyParty(p.subject)
          /\ PyProof(p).action = PyAction(p.action) /\ PyProof(p).target = PyTarget(p.target)
      BY DEF PyProof, ProofFields
    <2>2. QED
      BY Zenon, <2>1
  <1>2. i = [f \in DOMAIN i |-> i[f]]
    BY Zenon DEF IsWireIntent, HasFields
  <1>3. QED
    BY Zenon, <1>1, <1>2 DEF PyIntent

LEMMA TsAcceptsSoPython ==
    ASSUME NEW m, Issued(m), NEW r \in Presentations, r.edge.verifier.boundary = "none",
           TsVerify(r.intent, Carried(m, r.change), AtTime(r.edge.context),
                    Consulting(r.edge.verifier)) = "OK"
    PROVE  PySdkVerify(r.intent, Carried(m, r.change), AtTime(r.edge.context),
                       Consulting(r.edge.verifier)) = "OK"
  <1> DEFINE i == r.intent
             p == Carried(m, r.change)
             v == Consulting(r.edge.verifier)
             context == AtTime(r.edge.context)
  <1>1. /\ TsTimestamp(i.sep) /\ TsTimestamp(p.sep) /\ TsIntentParses(i) /\ TsProofParses(p)
        /\ TsPasses(i, p, context, v)
    BY Zenon, TsVerifyOk
  <1>2. DOMAIN p = ProofFields /\ p = [f \in ProofFields |-> p[f]]
    BY Zenon, CarriedFields
  <1>3. IsWireIntent(i) /\ v.boundary = "none"
    BY Zenon, EdgeFields
  <1>4. Authentic(TsUnsigned(p), p, v.keys)
    BY Zenon, <1>1 DEF TsPasses
  <1>5. TsUnsigned(p) = Unsigned(m.proof)
    BY Zenon, <1>4, AuthenticIsMinted
  <1> HIDE DEF i, p, v, context
  <1>6. i.sep = "T" /\ p.sep = "T"
    BY Zenon, <1>1 DEF TsTimestamp
  <1>7. TsUnsigned(p) = Unsigned(p)
    BY <1>6 DEF TsUnsigned, Unsigned
  <1>8. \A f \in ProofFields \ {"signature"} : p[f] = m.proof[f]
    <2>1. DOMAIN m.proof = ProofFields
      BY Zenon, IssuedFields
    <2>2. DOMAIN p = ProofFields
      BY Zenon, <1>2
    <2>3. Unsigned(p) = Unsigned(m.proof)
      BY Zenon, <1>5, <1>7
    <2>4. QED
      BY Zenon, <2>1, <2>2, <2>3, SameMembers
  <1>9. p.audience.uri # "null"
    BY Zenon, <1>1 DEF TsProofParses, TsAudienceParses, TsTextParses
  <1>10. PyProof(p) = p
    BY Zenon, <1>2, <1>8, <1>9, MintedIsNormal
  <1>11. i.tenant = p.tenant /\ i.requester = p.subject /\ i.action = p.action /\ i.target = p.target
    BY Zenon, <1>1 DEF TsPasses
  <1>12. PyIntent(i) = i
    BY Zenon, <1>2, <1>3, <1>6, <1>10, <1>11, SameIntentIsNormal
  <1>13. PyIntentParses(i)
    BY Zenon, <1>1, <1>6
       DEF PyIntentParses, PyTimestamp, TsIntentParses, TsTenantParses, TsPartyParses, TsActionParses,
           TsTargetParses
  <1>14. PyProofParses(p)
    <2>1. HashParses(p.action_hash)
      BY Zenon, <1>1 DEF TsProofParses, AcceptedHash, HashParses, Named
    <2>2. ScopeParses(p.scope)
      BY Zenon, <1>1 DEF TsProofParses, TsScopeParses, TsPasses, TsCapabilityInScope, ScopeParses, Named
    <2>3. QED
      BY Zenon, <1>1, <1>6, <2>1, <2>2
         DEF PyProofParses, PyTimestamp, TsProofParses, TsTenantParses, TsPartyParses, TsAudienceParses,
             TsActionParses, TsTargetParses, TsSignatureParses
  <1>15. PostPasses(i, p, context, v)
    <2>1. \A c, scope : TsCapabilityInScope(c, scope) => CapabilityInScope(c, scope)
      BY Zenon DEF TsCapabilityInScope, CapabilityInScope
    <2>2. ~TsAuthorityRefused(p, v.source) => ~AuthorityRefused(p, v.source)
      BY Zenon DEF TsAuthorityRefused, AuthorityRefused
    <2>3. TsHashInput(i) = HashInput(i)
      BY Zenon DEF TsHashInput, HashInput
    <2>4. QED
      BY Zenon, <1>1, <1>3, <2>1, <2>2, <2>3 DEF TsPasses, PostPasses
  <1>16. p.version = "v1" /\ Authentic(Unsigned(p), p, v.keys)
    BY Zenon, <1>1, <1>4, <1>7 DEF TsProofParses
  <1>17. Verify(i, p, context, v) = "OK"
    BY Zenon, <1>15, <1>16, VerifyOk
  <1>18. PySdkVerify(i, p, context, v) = "OK"
    BY Zenon, <1>10, <1>12, <1>13, <1>14, <1>17 DEF PySdkVerify
  <1>19. QED
    BY Zenon, <1>18 DEF i, p, v, context

LEMMA PythonAcceptsSoTs ==
    ASSUME NEW m, Issued(m), NEW r \in Presentations, r.edge.verifier.boundary = "none",
           Unsigned(Carried(m, r.change)) = Unsigned(m.proof), ~HasBlankText(Carried(m, r.change)),
           PyIntent(r.intent) = r.intent,
           PySdkVerify(r.intent, Carried(m, r.change), AtTime(r.edge.context),
                       Consulting(r.edge.verifier)) = "OK"
    PROVE  TsVerify(r.intent, Carried(m, r.change), AtTime(r.edge.context),
                    Consulting(r.edge.verifier)) = "OK"
  <1> DEFINE i == r.intent
             p == Carried(m, r.change)
             x == PyProof(p)
             v == Consulting(r.edge.verifier)
             context == AtTime(r.edge.context)
  <1>1. PyIntentParses(i) /\ PyProofParses(p) /\ Verify(PyIntent(i), x, context, v) = "OK"
    BY Zenon DEF PySdkVerify
  <1>2. DOMAIN p = ProofFields /\ p = [f \in ProofFields |-> p[f]]
    BY Zenon, CarriedFields
  <1>3. IsWireIntent(i) /\ v.boundary = "none" /\ \A c \in context.capabilities : Named(c)
    BY Zenon, EdgeFields
  <1>4. /\ Authentic(Unsigned(x), x, v.keys) /\ PostPasses(i, x, context, v)
    BY Zenon, <1>1, VerifyOk
  <1>5. DOMAIN x = ProofFields /\ x.signature = p.signature
    BY Zenon, <1>2, PyProofFields
  <1>6. Unsigned(x) = Unsigned(m.proof)
    <2> HIDE DEF x
    <2>1. QED
      BY Zenon, <1>4, <1>5, AuthenticIsMinted
  <1> HIDE DEF p
  <1>7. p.audience.uri # "null"
    <2>0. Unsigned(p) = Unsigned(m.proof) /\ DOMAIN p = ProofFields
      BY Zenon, <1>2 DEF p
    <2>1. "audience" \in ProofFields \ {"signature"}
      BY DEF ProofFields
    <2>2. DOMAIN m.proof = ProofFields /\ m.proof.audience = m.grant.audience
          /\ HasFields(m.grant.audience, {"type", "id", "uri"})
      BY Zenon, IssuedFields
    <2>3. x.audience = PyAudience(p.audience)
      BY <1>2 DEF PyProof, ProofFields
    <2> HIDE DEF x
    <2>4. \A f \in ProofFields \ {"signature"} : x[f] = m.proof[f] /\ p[f] = m.proof[f]
      <3>1. DOMAIN x = ProofFields /\ DOMAIN m.proof = ProofFields
        BY Zenon, <1>5, <2>2
      <3>2. \A f \in ProofFields \ {"signature"} : x[f] = m.proof[f]
        BY Zenon, <1>6, <3>1, SameMembers
      <3>3. \A f \in ProofFields \ {"signature"} : p[f] = m.proof[f]
        BY <2>0, <3>1, SameMembers
      <3>4. QED
        BY Zenon, <3>2, <3>3
    <2>5. x.audience = m.proof.audience /\ p.audience = m.proof.audience
      BY Zenon, <2>1, <2>4
    <2>6. "uri" \in DOMAIN p.audience /\ PyAudience(p.audience) = p.audience
      BY Zenon, <2>2, <2>3, <2>5 DEF HasFields
    <2>7. PyText(p.audience.uri) = p.audience.uri
      BY Zenon, <2>6 DEF PyAudience
    <2>8. QED
      BY <2>7 DEF PyText
  <1>8. \A f \in ProofFields \ {"signature"} : p[f] = m.proof[f]
    <2>1. DOMAIN m.proof = ProofFields
      BY Zenon, IssuedFields
    <2>2. Unsigned(p) = Unsigned(m.proof)
      BY Zenon DEF p
    <2>3. DOMAIN p = ProofFields
      BY Zenon, <1>2
    <2>4. QED
      BY Zenon, <2>1, <2>2, <2>3, SameMembers
  <1>9. x = p
    BY Zenon, <1>2, <1>7, <1>8, MintedIsNormal
  <1>10. p.sep = "T"
    <2>1. p.sep = m.proof.sep
      BY <1>8 DEF ProofFields
    <2>2. QED
      BY Zenon, <2>1, IssuedFields
  <1>11. i.sep = "T" /\ PyParty(i.requester) = i.requester /\ PyTarget(i.target) = i.target
    <2>1. /\ PyIntent(i).sep = "T" /\ PyIntent(i).requester = PyParty(i.requester)
          /\ PyIntent(i).target = PyTarget(i.target)
      BY Zenon, <1>3, PyIntentFields
    <2>2. QED
      BY Zenon, <2>1
  <1>12. i.requester.display_name # "null" /\ i.target.uri # "null"
    <2>1. "display_name" \in DOMAIN i.requester /\ "uri" \in DOMAIN i.target
      BY Zenon, <1>3 DEF IsWireIntent, HasFields
    <2>2. PyText(i.requester.display_name) = i.requester.display_name
      BY Zenon, <1>11, <2>1 DEF PyParty
    <2>3. PyText(i.target.uri) = i.target.uri
      BY <1>11, <2>1 DEF PyTarget
    <2>4. QED
      BY <2>2, <2>3 DEF PyText
  <1> HIDE DEF i, x, v, context
  <1>13. i.tenant = p.tenant /\ i.requester = p.subject /\ i.action = p.action /\ i.target = p.target
         /\ context.audience = p.audience
    BY Zenon, <1>4, <1>9 DEF PostPasses
  <1>14. /\ p.subject.display_name # "blank" /\ p.audience.uri # "blank" /\ p.target.uri # "blank"
    BY Zenon DEF HasBlankText, p
  <1>15. TsTextParses(i.requester.display_name) /\ TsTextParses(i.target.uri)
         /\ TsTextParses(p.audience.uri)
    BY Zenon, <1>7, <1>12, <1>13, <1>14 DEF TsTextParses
  <1>16. TsIntentParses(i)
    BY Zenon, <1>1, <1>15 DEF TsIntentParses, PyIntentParses, TsTenantParses, TsPartyParses,
           TsActionParses, TsTargetParses
  <1>17. TsProofParses(p)
    <2>1. TsScopeParses(p.scope) /\ AcceptedHash(p.action_hash)
      BY Zenon, <1>4, <1>9 DEF PostPasses, TsScopeParses
    <2>2. QED
      BY Zenon, <1>1, <1>13, <1>15, <2>1
         DEF PyProofParses, TsProofParses, TsTenantParses, TsPartyParses, TsAudienceParses,
             TsActionParses, TsTargetParses, TsSignatureParses
  <1>18. TsContextParses(context)
    BY Zenon, <1>3, <1>13, <1>17 DEF TsContextParses, TsProofParses
  <1>19. TsUnsigned(p) = Unsigned(p)
    BY <1>10 DEF TsUnsigned, Unsigned
  <1>20. TsPasses(i, p, context, v)
    <2>1. \A c, scope : CapabilityInScope(c, scope) => TsCapabilityInScope(c, scope)
      BY Zenon DEF TsCapabilityInScope, CapabilityInScope
    <2>2. ~AuthorityRefused(p, v.source) => ~TsAuthorityRefused(p, v.source)
      BY Zenon DEF TsAuthorityRefused, AuthorityRefused
    <2>3. TsHashInput(i) = HashInput(i)
      BY Zenon DEF TsHashInput, HashInput
    <2>4. QED
      BY Zenon, <1>4, <1>9, <1>19, <2>1, <2>2, <2>3 DEF TsPasses, PostPasses
  <1>21. TsVerify(i, p, context, v) = "OK"
    BY Zenon, <1>10, <1>11, <1>16, <1>17, <1>18, <1>20, TsVerifyOk DEF TsTimestamp
  <1>22. QED
    BY Zenon, <1>21 DEF i, p, v, context

(***************************************************************************)
(* The invariant and the theorems.                                         *)
(***************************************************************************)

LEMMA VerificationStarts == VerificationInit => VerificationInv
  BY DEF VerificationInit, VerificationInv

LEMMA VerificationStep == VerificationInv /\ [VerificationNext]_verificationVars => VerificationInv'
  <1> SUFFICES ASSUME VerificationInv, [VerificationNext]_verificationVars PROVE VerificationInv'
    OBVIOUS
  <1>1. ASSUME NEW i \in SignedIntents, NEW g \in Grants, NEW a \in {"none", "plain", "revocable"},
               MintProof(i, g, a)
        PROVE  VerificationInv'
    <2>1. minted = {} /\ verifierNow \in Nat
      BY Zenon, <1>1 DEF MintProof, VerificationInv
    <2>2. presented = NothingPresented
      BY Zenon, <2>1 DEF VerificationInv
    <2> DEFINE m == [proof |-> Mint("p1", i, AtTime(g), "issuer_key", "none", a), intent |-> i,
                     grant |-> g, at |-> verifierNow]
    <2>3. minted' = {m} /\ UNCHANGED <<verifierNow, presented>>
      BY Zenon, <1>1 DEF MintProof
    <2>4. m.intent = i /\ m.grant = g /\ m.at = verifierNow
          /\ m.proof = Mint("p1", i, AtTime(g), "issuer_key", "none", a)
      OBVIOUS
    <2> HIDE DEF m
    <2>5. AtTime(g) = Timed(g, verifierNow)
      BY Zenon DEF AtTime, Timed
    <2>6. Issued(m)
      BY Zenon, <2>1, <2>4, <2>5 DEF Issued
    <2>7. QED
      BY Zenon, <2>1, <2>2, <2>3, <2>6 DEF VerificationInv
  <1>2. ASSUME NEW m \in minted, NEW r \in Presentations, Present(m, r)
        PROVE  VerificationInv'
    <2>1. presented' = Shown(m, r) /\ UNCHANGED <<verifierNow, minted, revoked>>
      BY Zenon, <1>2 DEF Present
    <2>2. Shown(m, r)' = Shown(m, r)
      BY Zenon, <2>1 DEF Shown, Consulting, SourceAnswer, AtTime
    <2>3. QED
      BY Zenon, <2>1, <2>2 DEF VerificationInv
  <1>3. ASSUME RevokeAuthority \/ VerifierTick
        PROVE  VerificationInv'
    <2>1. UNCHANGED <<minted, presented>> /\ presented = NothingPresented
      BY Zenon, <1>3 DEF RevokeAuthority, VerifierTick
    <2>2. verifierNow' \in Nat
      BY <1>3 DEF RevokeAuthority, VerifierTick, VerificationInv
    <2>3. QED
      BY Zenon, <2>1, <2>2 DEF VerificationInv
  <1>4. ASSUME UNCHANGED verificationVars
        PROVE  VerificationInv'
    <2>1. UNCHANGED <<verifierNow, minted, revoked, presented>>
      BY Zenon, <1>4 DEF verificationVars
    <2>2. ASSUME NEW m, NEW r PROVE Shown(m, r)' = Shown(m, r)
      BY Zenon, <2>1 DEF Shown, Consulting, SourceAnswer, AtTime
    <2>3. verifierNow' \in Nat /\ \A m \in minted' : Issued(m)
      BY Zenon, <2>1 DEF VerificationInv
    <2>4. presented' = NothingPresented
          \/ \E m \in minted', r \in Presentations : presented' = Shown(m, r)'
      <3>1. CASE presented = NothingPresented
        BY Zenon, <2>1, <3>1
      <3>2. CASE \E m \in minted, r \in Presentations : presented = Shown(m, r)
        BY Zenon, <2>1, <2>2, <3>2
      <3>3. QED
        BY Zenon, <3>1, <3>2 DEF VerificationInv
    <2>5. QED
      BY Zenon, <2>3, <2>4 DEF VerificationInv
  <1>5. QED
    BY Zenon, <1>1, <1>2, <1>3, <1>4 DEF VerificationNext

LEMMA ShownMembers ==
    ASSUME NEW m, NEW r
    PROVE  /\ Shown(m, r).py = PySdkVerify(r.intent, Carried(m, r.change), AtTime(r.edge.context),
                                           Consulting(r.edge.verifier))
           /\ Shown(m, r).ts = TsVerify(r.intent, Carried(m, r.change), AtTime(r.edge.context),
                                        Consulting(r.edge.verifier))
           /\ Shown(m, r).proof = Carried(m, r.change) /\ Shown(m, r).intent = r.intent
           /\ Shown(m, r).altered = (Unsigned(Carried(m, r.change)) # Unsigned(m.proof))
           /\ Shown(m, r).edge = r.edge
  BY DEF Shown

LEMMA VerificationInvImplies == VerificationInv => AcceptedIsAuthorised /\ TsNoLooser
  <1> SUFFICES ASSUME VerificationInv, Presented
               PROVE  AcceptedIsAuthorised /\ TsNoLooser
    BY Zenon DEF AcceptedIsAuthorised, OnlyAuthorisedAccepted, UnauthenticIsOpaque, TsNoLooser,
           TsAcceptsNoMore, SerialisedAlike
  <1>1. PICK m \in minted : \E r \in Presentations : presented = Shown(m, r)
    BY Zenon DEF Presented, VerificationInv
  <1>2. PICK r \in Presentations : presented = Shown(m, r)
    BY Zenon, <1>1
  <1>3. Issued(m) /\ verifierNow \in Nat
    BY Zenon DEF VerificationInv
  <1> DEFINE i == r.intent
             p == Carried(m, r.change)
             py == PySdkVerify(i, p, AtTime(r.edge.context), Consulting(r.edge.verifier))
             ts == TsVerify(i, p, AtTime(r.edge.context), Consulting(r.edge.verifier))
             whole == Unsigned(p) = Unsigned(m.proof)
             serialised == whole /\ ~HasBlankText(p) /\ PyIntent(i) = i
  <1>4. /\ presented.py = py /\ presented.ts = ts /\ presented.proof = p /\ presented.intent = i
        /\ presented.edge = r.edge
    BY Zenon, <1>2, ShownMembers
  <1>5. presented.altered = ~whole
    BY Zenon, <1>2, ShownMembers
  <1>6. py = "OK" => Authorised(i, r.edge) /\ Unsigned(PyProof(p)) = Unsigned(m.proof)
    BY Zenon, <1>3, PyAcceptsAuthorised
  <1>7. r.edge.verifier.mode # "local_debug" /\ PyIntentParses(i) /\ PyProofParses(p)
        /\ Unsigned(PyProof(p)) # Unsigned(m.proof) => py = "PROOF_INVALID"
    BY Zenon, <1>3, UnauthenticAnswer
  <1>8. r.edge.verifier.boundary = "none" /\ ts = "OK" => py = "OK"
    BY Zenon, <1>3, TsAcceptsSoPython
  <1>9. r.edge.verifier.boundary = "none" /\ serialised /\ py = "OK" => ts = "OK"
    BY Zenon, <1>3, PythonAcceptsSoTs
  <1> HIDE DEF i, p, py, ts, whole
  <1>10. OnlyAuthorisedAccepted
    BY Zenon, <1>4, <1>6 DEF OnlyAuthorisedAccepted
  <1>11. UnauthenticIsOpaque
    BY Zenon, <1>4, <1>7 DEF UnauthenticIsOpaque
  <1>12. TsAcceptsNoMore
    BY Zenon, <1>4, <1>8 DEF TsAcceptsNoMore
  <1>13. SerialisedAlike
    BY Zenon, <1>4, <1>5, <1>8, <1>9 DEF SerialisedAlike
  <1>14. QED
    BY Zenon, <1>10, <1>11, <1>12, <1>13 DEF AcceptedIsAuthorised, TsNoLooser

(* A request the Python verifier accepts is what the issuer authorised, at *)
(* an edge and a time it was authorised for, whatever was changed on the   *)
(* way and whenever the authority was revoked; outside local debugging an  *)
(* unauthentic proof gets one answer (verify in proof/service.py).         *)
THEOREM AcceptedIsAuthorisedTheorem == VerificationSpec => []AcceptedIsAuthorised
  BY VerificationStarts, VerificationStep, VerificationInvImplies, PTL DEF VerificationSpec

(* The TypeScript verifier accepts nothing the Python one refuses, and on  *)
(* what the contracts serialise the two agree but for a blank optional     *)
(* text (verifier.ts against proof/service.py).                            *)
THEOREM TsNoLooserTheorem == VerificationSpec => []TsNoLooser
  BY VerificationStarts, VerificationStep, VerificationInvImplies, PTL DEF VerificationSpec

(***************************************************************************)
(* What the resource and the execution states vouch for.                   *)
(***************************************************************************)

(* What the resource signed about this attempt, unaltered, is what it did. *)
Truthful(r) ==
    r.secret \in ResourceSecrets /\ r.intact /\ r.about = "this" =>
        done = (IF r.says = "succeeded" THEN "done" ELSE "failed")

(* Registered secrets are the resource's, an observed answer and a held    *)
(* receipt stay true because what was done is never undone.                *)
VouchInv ==
    /\ \A k \in KeyIds : keys[k] \in ResourceSecrets \cup {NoSecret}
    /\ keys = [k \in KeyIds |-> keys[k]]
    /\ receipt # NoReceipt => receipt.key \in KeyIds /\ Truthful(receipt)
    /\ answer = "done" => done = "done"
    /\ SucceededIsVouched

LEMMA VouchInit == ModesInit => VouchInv
  BY Zenon DEF ModesInit, VouchInv, SucceededIsVouched

(* A success can be reported only on the provider's answer, or on a        *)
(* receipt under a key the resource registered.                            *)
LEMMA ReportKeeps ==
    ASSUME VouchInv, NEW to, Report(to)
    PROVE  VouchInv'
  <1>1. UNCHANGED <<mode, done, answer, receipt, keys>> /\ state' = to /\ result' = receipt
    BY Zenon DEF Report
  <1>2. ASSUME to = "succeeded", mode = "brokered" PROVE done = "done"
    BY Zenon, <1>2 DEF Report, BuildBrokeredResult, BrokeredResultValid, VouchInv
  <1>3. ASSUME to = "succeeded", mode # "brokered"
        PROVE  receipt.secret \in ResourceSecrets /\ receipt.intact
               /\ (receipt.about = "this" => done = "done")
    <2>1. VerifyReceipt(receipt) /\ receipt.says = "succeeded"
      BY Zenon, <1>3 DEF Report, BuildResourceOwnedResult, ResourceResultValid
    <2>2. receipt # NoReceipt /\ receipt.key \in KeyIds /\ Truthful(receipt)
      BY <2>1 DEF VerifyReceipt, VouchInv
    <2>3. keys[receipt.key] \in ResourceSecrets \cup {NoSecret}
      BY Zenon, <2>2 DEF VouchInv
    <2>4. receipt.secret \in ResourceSecrets /\ receipt.intact
      BY Zenon, <2>1, <2>3 DEF VerifyReceipt
    <2>5. QED
      BY Zenon, <2>1, <2>2, <2>4 DEF Truthful
  <1>4. SucceededIsVouched'
    BY Zenon, <1>1, <1>2, <1>3 DEF SucceededIsVouched
  <1>5. QED
    BY Zenon, <1>1, <1>4 DEF VouchInv, Truthful

LEMMA VouchStep == VouchInv /\ [ModesNext]_modesVars => VouchInv'
  <1> SUFFICES ASSUME VouchInv, [ModesNext]_modesVars PROVE VouchInv'
    OBVIOUS
  <1>1. CASE UNCHANGED modesVars
    BY <1>1 DEF modesVars, VouchInv, Truthful, SucceededIsVouched
  <1>2. ASSUME NEW k \in KeyIds, NEW secret \in ResourceSecrets, RegisterKey(k, secret)
        PROVE  VouchInv'
    <2>1. keys' = [keys EXCEPT ![k] = secret]
          /\ UNCHANGED <<mode, state, done, answer, receipt, result>>
      BY <1>2 DEF RegisterKey
    <2>2. /\ \A j \in KeyIds : keys'[j] \in ResourceSecrets \cup {NoSecret}
          /\ keys' = [j \in KeyIds |-> keys'[j]]
      BY <2>1 DEF VouchInv
    <2>3. QED
      BY <2>1, <2>2 DEF VouchInv, Truthful, SucceededIsVouched
  <1>3. ASSUME NEW what \in {"done", "failed"}, Acts(what) PROVE VouchInv'
    BY <1>3 DEF Acts, VouchInv, Truthful, SucceededIsVouched
  <1>4. ASSUME NEW seen \in {"done", "failed", "lost"}, Observe(seen) PROVE VouchInv'
    BY Zenon, <1>4 DEF Observe, VouchInv, Truthful, SucceededIsVouched
  <1>5. ASSUME NEW r, r.key \in KeyIds, ReceiptArrives(r) PROVE VouchInv'
    BY Zenon, <1>5 DEF ReceiptArrives, VouchInv, Truthful, SucceededIsVouched
  <1>6. ASSUME NEW k \in KeyIds, NEW secret \in Secrets, NEW says \in {"succeeded", "failed"},
               NEW about \in {"this", "other"}, NEW intact \in BOOLEAN,
               ReceiptArrives([key |-> k, secret |-> secret, says |-> says, about |-> about,
                               intact |-> intact])
        PROVE  VouchInv'
    BY <1>5, <1>6
  <1>7. QED
    BY ZenonT(30), <1>1, <1>2, <1>3, <1>4, <1>6, ReportKeeps DEF ModesNext

ExecutionStateNames ==
    TerminalExecutionStates \cup {"received", "policy_allowed", "proof_minted", "escrow_issued",
                                  "execution_attempted", "provider_pending", "ambiguous"}

(* The states an attempted execution can be in, and what they lead to.     *)
AfterAttempt == {"execution_attempted", "provider_pending", "ambiguous", "confirmed", "failed",
                 "expired", "revoked"}

LEMMA AttemptIsFinal ==
    ASSUME NEW from, NEW s \in ExecutionTransitions(from)
    PROVE  (from \in AfterAttempt \/ s = "execution_attempted") => s \in AfterAttempt
  BY Zenon DEF ExecutionTransitions, AfterAttempt

(* A failure code ends the path; an attempted execution is past refusals.  *)
PathInv ==
    /\ path \in Seq(ExecutionStateNames) /\ Len(path) > 0
    /\ failure # "none" => path[Len(path)] \in {"refused", "replay_refused"}
    /\ (\E n \in DOMAIN path : path[n] = "execution_attempted") =>
           path[Len(path)] \in AfterAttempt /\ failure = "none"

LEMMA PathStarts == StatesInit => PathInv
  <1> SUFFICES ASSUME StatesInit PROVE PathInv
    OBVIOUS
  <1>1. "received" \in ExecutionStateNames
    BY Zenon DEF ExecutionStateNames
  <1>2. failure = "none" /\ path \in Seq(ExecutionStateNames) /\ Len(path) = 1 /\ path[1] = "received"
    BY <1>1 DEF StatesInit
  <1>3. QED
    BY <1>2 DEF PathInv

LEMMA ExtendKeeps ==
    ASSUME PathInv, NEW s \in ExecutionStateNames, NEW code, Extend(s, code)
    PROVE  PathInv'
  <1> DEFINE n == Len(path)
             last == path[n]
  <1>1. path \in Seq(ExecutionStateNames) /\ n \in Nat /\ n > 0
    BY DEF PathInv
  <1>2. /\ path' \in Seq(ExecutionStateNames) /\ Len(path') = n + 1 /\ path'[n + 1] = s
        /\ \A k \in 1 .. n : path'[k] = path[k]
    BY <1>1 DEF Extend
  <1>3. last \notin TerminalExecutionStates /\ s \in ExecutionTransitions(last)
    <2>1. ValidPath(path') /\ n \in 1 .. (Len(path') - 1)
      BY <1>1, <1>2 DEF Extend
    <2>2. path'[n] \notin TerminalExecutionStates /\ path'[n + 1] \in ExecutionTransitions(path'[n])
      BY Zenon, <2>1 DEF ValidPath
    <2>3. path'[n] = last
      BY <1>1, <1>2
    <2>4. QED
      BY Zenon, <1>2, <2>2, <2>3
  <1>4. failure = "none"
    <2>1. {"refused", "replay_refused"} \subseteq TerminalExecutionStates
      BY Zenon DEF TerminalExecutionStates
    <2>2. QED
      BY Zenon, <1>3, <2>1 DEF PathInv
  <1>5. failure' # "none" => s \in {"refused", "replay_refused"}
    BY Zenon, <1>4 DEF Extend
  <1>6. ASSUME NEW k \in DOMAIN path', path'[k] = "execution_attempted"
        PROVE  s \in AfterAttempt /\ failure' = "none"
    <2>1. k \in 1 .. n \/ k = n + 1
      BY <1>1, <1>2
    <2>2. CASE k \in 1 .. n
      <3>1. last \in AfterAttempt
        BY <1>1, <1>2, <1>6, <2>2 DEF PathInv
      <3>2. s \in AfterAttempt
        BY Zenon, <1>3, <3>1, AttemptIsFinal
      <3>3. QED
        BY Zenon, <1>5, <3>2 DEF AfterAttempt
    <2>3. CASE k = n + 1
      <3>1. s = "execution_attempted"
        BY Zenon, <1>2, <1>6, <2>3
      <3>2. QED
        BY Zenon, <1>5, <3>1 DEF AfterAttempt
    <2>4. QED
      BY Zenon, <2>1, <2>2, <2>3
  <1>7. path'[Len(path')] = s
    BY Zenon, <1>2
  <1>8. QED
    BY <1>1, <1>2, <1>5, <1>6, <1>7 DEF PathInv

LEMMA PathStep == PathInv /\ [StatesNext]_statesVars => PathInv'
  <1> SUFFICES ASSUME PathInv, [StatesNext]_statesVars PROVE PathInv'
    OBVIOUS
  <1>1. CASE UNCHANGED statesVars
    BY Zenon, <1>1 DEF statesVars, PathInv
  <1>2. ASSUME NEW s \in TerminalExecutionStates \cup {"policy_allowed", "proof_minted", "escrow_issued",
                        "execution_attempted", "provider_pending", "ambiguous"},
               NEW code, Extend(s, code)
        PROVE  PathInv'
    <2>1. s \in ExecutionStateNames
      BY Zenon DEF ExecutionStateNames
    <2>2. QED
      BY Zenon, <1>2, <2>1, ExtendKeeps
  <1>3. QED
    BY Zenon, <1>1, <1>2 DEF StatesNext

(* Whatever keys are registered and rotated, and whatever receipts are     *)
(* lost, altered, late or foreign, an attempt that mode_aware.py reports   *)
(* as succeeded is vouched for by the provider or by the resource itself;  *)
(* and, however long its path, an execution that was attempted is never    *)
(* reported refused.                                                       *)
THEOREM OutcomeIsVouchedTheorem == ModesSpec /\ StatesSpec => []OutcomeIsVouched
  <1>1. VouchInv => SucceededIsVouched
    BY Zenon DEF VouchInv
  <1>2. PathInv => AttemptedNeverRefused
    BY Zenon DEF PathInv, AttemptedNeverRefused, AfterAttempt
  <1>3. ModesSpec => []SucceededIsVouched
    BY <1>1, VouchInit, VouchStep, PTL DEF ModesSpec
  <1>4. StatesSpec => []AttemptedNeverRefused
    BY <1>2, PathStarts, PathStep, PTL DEF StatesSpec
  <1>5. QED
    BY <1>3, <1>4, PTL DEF OutcomeIsVouched
==============================================================================
