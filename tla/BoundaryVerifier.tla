-------------------------- MODULE BoundaryVerifier --------------------------
(***************************************************************************)
(* BoundaryVerifier (actenon/boundary): verification for a resource that   *)
(* executes on its own.  Calls of verify_boundary run in the workers of a  *)
(* service, over a shared durable replay store or, in a development        *)
(* configuration, over a set in the memory of each worker; they may claim  *)
(* the signed effect in the owner's ledger, and the caller later asks for  *)
(* a receipt.                                                              *)
(*                                                                         *)
(* The checks before the claim read only the request; what a request is    *)
(* like is a record of their answers.                                      *)
(***************************************************************************)
EXTENDS ReplayRows, Sequences

CONSTANTS BoundaryCalls, Workers, WorkerOf,   \* calls of verify_boundary, and where they run
          BoundaryRequests,       \* what a call may present
          Configurations, \* [root, durable, ledger : BOOLEAN]
          BoundarySkew, BoundaryMaxTime,  \* clock skew of the verifier; bound on the clock
          Faulty          \* whether store and ledger may raise

(* A request names the key of its proof.                                   *)
ASSUME RequestAssumption == \A r \in BoundaryRequests : r.proof \in Keys

VARIABLES boundaryCall,       \* per call: request, pc, now, code, owns (effect claimed), receipt
          config,
          boundaryRow,        \* the replay table
          memory,     \* _replay_keys of each worker
          ledger,     \* effects whose reservation was claimed
          boundaryClock

boundaryVars == <<boundaryCall, config, boundaryRow, memory, ledger, boundaryClock>>

NewCall(r) == [request |-> r, pc |-> "verify", now |-> 0, code |-> "none", owns |-> FALSE,
               receipt |-> "none"]

BoundaryInit == /\ \E f \in [BoundaryCalls -> BoundaryRequests] : boundaryCall = [c \in BoundaryCalls |-> NewCall(f[c])]
                /\ config \in Configurations
                /\ boundaryRow = [k \in Keys |-> "absent"]
                /\ memory = [w \in Workers |-> {}]
                /\ ledger = {}
                /\ boundaryClock = 0

BoundaryStep(c, f) == boundaryCall' = [boundaryCall EXCEPT ![c] = f]
Refused(c, code) == [boundaryCall[c] EXCEPT !.pc = "refused", !.code = code]
Proceed(c, pc) == [boundaryCall[c] EXCEPT !.pc = pc]
KeyOf(c) == boundaryCall[c].request.proof

Failing(code, fails) == [code |-> code, fails |-> fails]

(* _verify up to the replay claim, in order.                               *)
Checks(r) == <<
    Failing("PROOF_MISSING", ~r.token),
    Failing("ISSUER_UNTRUSTED", ~config.root),
    Failing("PROOF_INVALID", ~r.decodes),
    Failing("MALFORMED_REQUEST", ~r.intent \/ ~r.declared),
    Failing("ACTION_MISMATCH", ~r.action),
    Failing("TARGET_MISMATCH", ~r.target),
    Failing("PROOF_INVALID", ~r.authentic),
    Failing("PROOF_EXPIRED", boundaryClock - BoundarySkew > ExpiresAt[r.proof]),
    Failing("ACTION_HASH_MISMATCH", ~r.hash),
    Failing("POLICY_REFUSAL", r.effect # "none" /\ ~config.ledger)>>

Least(bad) == CHOOSE n \in bad : \A m \in bad : n <= m

Verify(c) ==
    LET bad == {n \in DOMAIN Checks(boundaryCall[c].request) : Checks(boundaryCall[c].request)[n].fails}
    IN  /\ boundaryCall[c].pc = "verify"
        /\ BoundaryStep(c, [IF bad = {} THEN Proceed(c, IF config.durable THEN "claim" ELSE "remember")
                            ELSE Refused(c, Checks(boundaryCall[c].request)[Least(bad)].code) EXCEPT !.now = boundaryClock])
        /\ UNCHANGED <<config, boundaryRow, memory, ledger, boundaryClock>>

(* claim_once, and the read that ends it.                                  *)
Claim(c) ==
    /\ boundaryCall[c].pc = "claim"
    /\ IF Claimable(boundaryRow, KeyOf(c), boundaryCall[c].now)
       THEN boundaryRow' = Claimed(boundaryRow, KeyOf(c)) /\ BoundaryStep(c, Proceed(c, "reread"))
       ELSE boundaryRow' = boundaryRow /\ BoundaryStep(c, Refused(c, "REPLAY_DETECTED"))
    /\ UNCHANGED <<config, memory, ledger, boundaryClock>>

BoundaryReread(c) ==
    /\ boundaryCall[c].pc = "reread"
    /\ boundaryRow' = Inspected(boundaryRow, KeyOf(c), boundaryCall[c].now)
    /\ BoundaryStep(c, Proceed(c, "mark"))
    /\ UNCHANGED <<config, memory, ledger, boundaryClock>>

(* Mutation of Mark: the claim is taken for the consumption.               *)
MarkIgnored(c) ==
    /\ boundaryCall[c].pc = "mark"
    /\ boundaryRow' = IF Consumable(boundaryRow, KeyOf(c)) THEN Consumed(boundaryRow, KeyOf(c)) ELSE boundaryRow
    /\ BoundaryStep(c, Proceed(c, "effect"))
    /\ UNCHANGED <<config, memory, ledger, boundaryClock>>

(* mark_consumed: a row that is no longer claimed raises a replay refusal. *)
Mark(c) ==
    /\ boundaryCall[c].pc = "mark"
    /\ IF Consumable(boundaryRow, KeyOf(c))
       THEN boundaryRow' = Consumed(boundaryRow, KeyOf(c)) /\ BoundaryStep(c, Proceed(c, "effect"))
       ELSE boundaryRow' = boundaryRow /\ BoundaryStep(c, Refused(c, "REPLAY_DETECTED"))
    /\ UNCHANGED <<config, memory, ledger, boundaryClock>>

(* A store call raises, before or after its statement took effect.         *)
StoreRaises(c) ==
    /\ Faulty /\ boundaryCall[c].pc \in {"claim", "reread", "mark"}
    /\ boundaryRow' \in {boundaryRow} \cup (IF boundaryCall[c].pc = "mark" /\ Consumable(boundaryRow, KeyOf(c))
                                            THEN {Consumed(boundaryRow, KeyOf(c))} ELSE {})
    /\ BoundaryStep(c, Refused(c, "REPLAY_STORE_UNAVAILABLE"))
    /\ UNCHANGED <<config, memory, ledger, boundaryClock>>

(* The in-memory set, under the worker's lock.                             *)
Remember(c) ==
    LET w == WorkerOf[c]
    IN  /\ boundaryCall[c].pc = "remember"
        /\ IF KeyOf(c) \in memory[w]
           THEN memory' = memory /\ BoundaryStep(c, Refused(c, "REPLAY_DETECTED"))
           ELSE memory' = [memory EXCEPT ![w] = @ \cup {KeyOf(c)}] /\ BoundaryStep(c, Proceed(c, "effect"))
        /\ UNCHANGED <<config, boundaryRow, ledger, boundaryClock>>

Valid(c) == [boundaryCall[c] EXCEPT !.pc = "valid", !.code = "OK"]

(* EffectProtector.claim_request before the ledger: the reference parses,  *)
(* belongs to this attempt, comes from the proof's issuer and is the       *)
(* identity of the request the edge derives.                               *)
ReferenceChecks(r) == <<
    Failing("MALFORMED_REQUEST", r.effect = "none"),
    Failing("ACTION_MISMATCH", r.reference = "owner"),
    Failing("ISSUER_UNTRUSTED", r.reference = "issuer"),
    Failing("ACTION_MISMATCH", r.reference = "identity")>>

BadReference(r) == {n \in DOMAIN ReferenceChecks(r) : ReferenceChecks(r)[n].fails}

(* claim_request: an effect that is already owned is refused.              *)
ClaimEffect(c) ==
    LET e   == boundaryCall[c].request.effect
        bad == BadReference(boundaryCall[c].request)
    IN  /\ boundaryCall[c].pc = "effect"
        /\ IF ~config.ledger THEN ledger' = ledger /\ BoundaryStep(c, Valid(c))
           ELSE IF bad # {} THEN ledger' = ledger
                                 /\ BoundaryStep(c, Refused(c, ReferenceChecks(boundaryCall[c].request)[Least(bad)].code))
           ELSE IF e \in ledger THEN ledger' = ledger /\ BoundaryStep(c, Refused(c, "POLICY_REFUSAL"))
           ELSE ledger' = ledger \cup {e} /\ BoundaryStep(c, [Valid(c) EXCEPT !.owns = TRUE])
        /\ UNCHANGED <<config, boundaryRow, memory, boundaryClock>>

(* The ledger raises, perhaps after it recorded the claim.                 *)
LedgerRaises(c) ==
    LET e == boundaryCall[c].request.effect
    IN  /\ Faulty /\ boundaryCall[c].pc = "effect" /\ config.ledger /\ BadReference(boundaryCall[c].request) = {}
        /\ ledger' \in {ledger, ledger \cup {e}}
        /\ BoundaryStep(c, Refused(c, "POLICY_REFUSAL"))
        /\ UNCHANGED <<config, boundaryRow, memory, boundaryClock>>

Reported == [COMMITTED |-> "succeeded", NOT_EXECUTED |-> "refused", AMBIGUOUS |-> "outcome_unknown"]

(* Mutation of ReceiptOutcome: the caller's outcome is preferred.          *)
ReceiptOutcomeAsTold(owns, outcome, evidence, same) ==
    IF outcome # "none" THEN outcome
    ELSE IF evidence \in DOMAIN Reported THEN Reported[evidence] ELSE "succeeded"

(* construct_receipt: without an owned effect the caller's outcome, or     *)
(* "succeeded"; with one, what matching evidence for the verified request  *)
(* says, which the caller may not contradict.                              *)
ReceiptOutcome(owns, outcome, evidence, same) ==
    IF ~owns THEN IF evidence # "none" THEN "raised"
                  ELSE IF outcome = "none" THEN "succeeded" ELSE outcome
    ELSE IF ~same \/ evidence \notin DOMAIN Reported THEN "raised"
    ELSE IF outcome \notin {"none", Reported[evidence]} THEN "raised" ELSE Reported[evidence]

(* The evidence is what the resource observed; "foreign" names another     *)
(* effect.                                                                 *)
ConstructReceipt(c, outcome, evidence, same) ==
    /\ boundaryCall[c].pc = "valid" /\ boundaryCall[c].receipt = "none"
    /\ BoundaryStep(c, [boundaryCall[c] EXCEPT !.receipt = ReceiptOutcome(boundaryCall[c].owns, outcome, evidence, same),
                                               !.pc = IF evidence = "none" THEN "reported" ELSE evidence])
    /\ UNCHANGED <<config, boundaryRow, memory, ledger, boundaryClock>>

BoundaryTick == boundaryClock < BoundaryMaxTime /\ boundaryClock' = boundaryClock + 1 /\ UNCHANGED <<boundaryCall, config, boundaryRow, memory, ledger>>

(* A worker restarts between calls and forgets what it saw.                *)
WorkerRestarts(w) ==
    /\ memory[w] # {} /\ \A c \in BoundaryCalls : WorkerOf[c] = w => boundaryCall[c].pc \notin {"remember", "effect"}
    /\ memory' = [memory EXCEPT ![w] = {}]
    /\ UNCHANGED <<boundaryCall, config, boundaryRow, ledger, boundaryClock>>

Evidence == DOMAIN Reported \cup {"none", "foreign"}

BoundaryNext ==
    \/ \E c \in BoundaryCalls : \/ Verify(c) \/ Claim(c) \/ BoundaryReread(c) \/ Mark(c) \/ StoreRaises(c)
                                \/ Remember(c) \/ ClaimEffect(c) \/ LedgerRaises(c)
                                \/ \E o \in {"none", "succeeded", "refused"}, e \in Evidence, same \in BOOLEAN :
                                      ConstructReceipt(c, o, e, same)
    \/ BoundaryTick
    \/ \E w \in Workers : WorkerRestarts(w)

BoundarySpec == BoundaryInit /\ [][BoundaryNext]_boundaryVars

(***************************************************************************)
(* Properties.                                                             *)
(***************************************************************************)

Permitted(c) == boundaryCall[c].code = "OK"

(* Over a durable store a proof permits one dispatch, whatever the workers *)
(* interleave, however long one sleeps between claim and consumption, and  *)
(* when calls of the store fail; and an effect is owned by one call at     *)
(* most, also when two proofs name it.                                     *)
BoundaryAtMostOnce ==
    \A c, d \in BoundaryCalls : c # d /\ Permitted(c) /\ Permitted(d) =>
        /\ config.durable => KeyOf(c) # KeyOf(d)
        /\ config.ledger => boundaryCall[c].request.effect # boundaryCall[d].request.effect

(* A receipt for a proof whose effect the call owns says what evidence for *)
(* that effect says, never what the caller hopes.                          *)
EffectReceiptHonest ==
    \A c \in BoundaryCalls : boundaryCall[c].owns /\ boundaryCall[c].receipt \notin {"none", "raised"} =>
        boundaryCall[c].pc \in DOMAIN Reported /\ boundaryCall[c].receipt = Reported[boundaryCall[c].pc]
=============================================================================
