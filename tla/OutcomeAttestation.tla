-------------------------- MODULE OutcomeAttestation --------------------------
(***************************************************************************)
(* Signed outcomes and their anchors: OutcomeAttestationService            *)
(* (receipts/attestation.py) signing through ExternalManagedSigner and AWS *)
(* KMS, LocalAppendOnlyAnchorLog (anchors/local_log.py) shared by writers  *)
(* that may crash, and verification against the issuer's discovery         *)
(* document after the key was retired, revoked or hard-revoked.            *)
(***************************************************************************)
EXTENDS KeyLifecycle

CONSTANTS Workers, TypeOf,   \* what a worker attests: a receipt or a refusal
          AttestationMaxTime, MaxMoves,
          KmsMoves,  \* the states AWS may move the key to (bounds KmsStates)
          Faulty     \* whether a write of the log may be torn by a crash

VARIABLES attestNow,
          key,       \* the issuer's descriptor of the one signing key
          kms,       \* its state at AWS
          moves,     \* lifecycle and KMS changes so far
          pc,        \* per worker: how far its attestation has come
          held,      \* per worker: the status in its ManagedKeyReference
          made,      \* per worker: its attestation
          log,       \* lines of the anchor log
          pend,      \* per worker: the entry it is about to append
          judged       \* <<>> or the one verification: <<worker, verifier, change, answer, whose parts>>

attestationVars == <<attestNow, key, kms, moves, pc, held, made, log, pend, judged>>

(***************************************************************************)
(* An attestation: the outcome it embeds (named after its worker, who also *)
(* stands for its intent, proof and action hash), the outcome's digest,    *)
(* the proof binding, and the signature, which is the payload it covers.   *)
(* Anchors sit beside the signature.                                       *)
(***************************************************************************)
NoArtifact == [type |-> "none", outcome |-> "none", digest |-> "none", binding |-> "none", issuedAt |-> None,
               signature |-> <<>>, signedAt |-> None, anchors |-> <<>>]

BuildDigest(outcome) == outcome

DeriveProofBinding(outcome) == outcome

UnsignedPayload(a) == <<a.type, a.outcome, a.digest, a.binding, a.issuedAt>>

ReceiptParses(a) == a.type = "receipt"
RefusalParses(a) == a.type = "refusal"

DigestHolds(a) == a.digest = BuildDigest(a.outcome)

BindingHolds(a) == a.binding = DeriveProofBinding(a.outcome)

SignedPayload(a) == a.signature = UnsignedPayload(a)

(* What a holder may have done to an attestation before presenting it:     *)
(* nothing, or one part replaced by that of another attestation.           *)
Altered(a, b, change) ==
    CASE change = "none"    -> a
      [] change = "outcome" -> [a EXCEPT !.outcome = b.outcome, !.digest = b.digest, !.binding = b.binding]
      [] change = "binding" -> [a EXCEPT !.binding = b.binding]
      [] change = "type"    -> [a EXCEPT !.type = IF a.type = "receipt" THEN "refusal" ELSE "receipt"]
      [] change = "anchors" -> [a EXCEPT !.anchors = b.anchors]

NoEntry == [seq |-> 0, prev |-> <<>>, digest |-> "none", at |-> None]
Torn == [seq |-> None, prev |-> <<>>, digest |-> "torn", at |-> None]

(***************************************************************************)
(* The log.  An entry's hash is the entry itself, which includes the hash  *)
(* of the one before it.                                                   *)
(***************************************************************************)

HashOf(e) == <<e.seq, e.digest, e.at, e.prev>>

(* _read_entries(validate_chain=True): what the first bad line raises.     *)
ReadEntries(lines) ==
    LET bad == {n \in DOMAIN lines : \/ lines[n] = Torn \/ lines[n].seq # n
                                     \/ lines[n].prev # (IF n = 1 THEN <<>> ELSE HashOf(lines[n - 1]))}
        n   == CHOOSE m \in bad : \A k \in bad : m <= k
    IN  IF \E m \in DOMAIN lines : lines[m] = Torn THEN "Format"
        ELSE IF bad = {} THEN "ok"
        ELSE IF lines[n].seq # n THEN "Format" ELSE "Verification"

(* Mutation of DigestsMatch: any anchor of the log will do.                *)
DigestsMatchAny(anchor, digest) == TRUE

DigestsMatch(anchor, digest) == anchor.digest = digest

(* verify_external_anchor against the signed artifact's digest.            *)
VerifyExternalAnchor(anchor, digest) ==
    IF ~DigestsMatch(anchor, digest) THEN "Verification"
    ELSE IF ReadEntries(log) # "ok" THEN ReadEntries(log)
    ELSE IF anchor.seq > Len(log) THEN "Verification"
    ELSE IF log[anchor.seq] # anchor THEN "Verification"
    ELSE "ok"

(***************************************************************************)
(* Signing and anchoring.                                                  *)
(***************************************************************************)

AttestationInit == /\ attestNow = 0 /\ kms = "Enabled" /\ moves = 0
                   /\ key = [kid |-> "k", algorithm |-> "EdDSA", uses |-> {"outcome_attestation"}, status |-> "active",
                             notBefore |-> None, expires |-> None, revoked |-> None, hardRevoked |-> None]
                   /\ pc = [w \in Workers |-> "idle"] /\ held = [w \in Workers |-> "active"]
                   /\ made = [w \in Workers |-> NoArtifact] /\ pend = [w \in Workers |-> NoEntry]
                   /\ log = <<>> /\ judged = <<>>

(* A worker builds its signer and passes _ensure_key_can_sign.             *)
Ensure(w) ==
    /\ pc[w] = "idle" /\ judged = <<>>
    /\ held' = [held EXCEPT ![w] = key.status]
    /\ pc' = [pc EXCEPT ![w] = IF EnsureKeyCanSign([purpose |-> "outcome_attestation", required |-> "outcome_attestation"], key.status, kms)
                               THEN "ensured" ELSE "refused"]
    /\ UNCHANGED <<attestNow, key, kms, moves, made, log, pend, judged>>

(* attest_receipt / attest_refusal: the backend reads the status again,    *)
(* then KMS signs if the key is enabled.                                   *)
Attest(w, issuedAt) ==
    /\ pc[w] = "ensured" /\ judged = <<>>
    /\ IF KmsWouldSign(held[w], kms) /\ kms = "Enabled"
       THEN /\ LET unsigned == [NoArtifact EXCEPT !.type = TypeOf[w], !.outcome = w, !.digest = BuildDigest(w),
                                   !.binding = DeriveProofBinding(w), !.issuedAt = issuedAt, !.signedAt = attestNow]
               IN  made' = [made EXCEPT ![w] = [unsigned EXCEPT !.signature = UnsignedPayload(unsigned)]]
            /\ pc' = [pc EXCEPT ![w] = "signed"]
       ELSE pc' = [pc EXCEPT ![w] = "refused"] /\ made' = made
    /\ UNCHANGED <<attestNow, key, kms, moves, held, log, pend, judged>>

(* anchor_artifact_digest: read and validate, build the entry ...          *)
ReadLog(w) ==
    /\ pc[w] = "signed" /\ judged = <<>>
    /\ IF ReadEntries(log) = "ok"
       THEN /\ pend' = [pend EXCEPT ![w] = [seq |-> Len(log) + 1, prev |-> IF log = <<>> THEN <<>> ELSE HashOf(log[Len(log)]),
                                            digest |-> made[w].digest, at |-> attestNow]]
            /\ pc' = [pc EXCEPT ![w] = "read"]
       ELSE pc' = [pc EXCEPT ![w] = "unanchored"] /\ pend' = pend
    /\ UNCHANGED <<attestNow, key, kms, moves, held, made, log, judged>>

(* ... and append it.  A line written after a torn one continues it.       *)
AppendEntry(w) ==
    /\ pc[w] = "read" /\ judged = <<>>
    /\ log' = IF log # <<>> /\ log[Len(log)] = Torn THEN log ELSE Append(log, pend[w])
    /\ made' = [made EXCEPT ![w].anchors = <<pend[w]>>]
    /\ pc' = [pc EXCEPT ![w] = "anchored"]
    /\ UNCHANGED <<attestNow, key, kms, moves, held, pend, judged>>

CrashInAppend(w) ==
    /\ Faulty /\ pc[w] = "read" /\ judged = <<>>
    /\ log' = IF log # <<>> /\ log[Len(log)] = Torn THEN log ELSE Append(log, Torn)
    /\ pc' = [pc EXCEPT ![w] = "unanchored"]
    /\ UNCHANGED <<attestNow, key, kms, moves, held, made, pend, judged>>

(***************************************************************************)
(* Verification.                                                           *)
(***************************************************************************)

(* _verify_external_anchors: an anchor that does not verify fails the      *)
(* artifact, a log that cannot be read only leaves it without an anchor.   *)
GoodAnchors(a) == {n \in DOMAIN a.anchors : VerifyExternalAnchor(a.anchors[n], a.digest) = "ok"}

AnchorTime(a) ==
    IF \E n \in DOMAIN a.anchors : VerifyExternalAnchor(a.anchors[n], a.digest) = "Verification" THEN "fails"
    ELSE IF GoodAnchors(a) = {} THEN "none" ELSE "some"

EarliestAnchor(a) ==
    LET times == {a.anchors[n].at : n \in GoodAnchors(a)} IN CHOOSE t \in times : \A u \in times : t <= u

(* The key resolver of a third party judges the signing key ...            *)
VerifyWithResolver(a) ==
    LET artifact == [kid |-> "k", algorithm |-> "EdDSA", issuer |-> "issuer", issuedAt |-> a.issuedAt,
                     use |-> "outcome_attestation", signedBy |-> "k", intact |-> SignedPayload(a)]
        verdict  == SelectDiscovered([issuer |-> "issuer", keys |-> <<key>>], artifact,
                                     IF AnchorTime(a) = "some" THEN EarliestAnchor(a) ELSE None)
    IN  IF verdict = "ok" /\ SignatureHolds(artifact) THEN "accepted" ELSE "rejected"

(* ... or the signer is its own verifier (`verifier or self.signer`).      *)
VerifyWithSigner(w, a) ==
    LET v == KmsVerify(held[w], kms, SignedPayload(a))
    IN  CASE v = "raises" -> "raises" [] v = "valid" -> "accepted" [] v = "invalid" -> "rejected"

(* Digest, proof binding, anchors, signature.                              *)
VerifyOutcome(w, a, how) ==
    IF ~DigestHolds(a) \/ ~BindingHolds(a) \/ AnchorTime(a) = "fails" THEN "rejected"
    ELSE IF how = "signer" THEN VerifyWithSigner(w, a) ELSE VerifyWithResolver(a)

VerifyReceiptAttestation(w, a, how) == IF ReceiptParses(a) THEN VerifyOutcome(w, a, how) ELSE "rejected"

VerifyRefusalAttestation(w, a, how) == IF RefusalParses(a) THEN VerifyOutcome(w, a, how) ELSE "rejected"

Verify(w, how, other, change) ==
    LET a == Altered(made[w], made[other], change)
    IN  /\ judged = <<>> /\ pc[w] \in {"signed", "anchored", "unanchored"} /\ made[w] # NoArtifact
        /\ change = "none" <=> w = other
        /\ made[other] # NoArtifact
        /\ judged' = <<w, how, change, IF TypeOf[w] = "receipt" THEN VerifyReceiptAttestation(w, a, how)
                                       ELSE VerifyRefusalAttestation(w, a, how), other>>
        /\ UNCHANGED <<attestNow, key, kms, moves, pc, held, made, log, pend>>

(***************************************************************************)
(* The issuer's operators, AWS and time.                                   *)
(***************************************************************************)

MoveKey(to) ==
    /\ judged = <<>> /\ moves < MaxMoves /\ CanTransition(key.status, to)
    /\ key' = [key EXCEPT !.status = to, !.revoked = IF to = "revoked" THEN attestNow ELSE @,
                          !.hardRevoked = IF to = "hard_revoked" THEN attestNow ELSE @]
    /\ moves' = moves + 1
    /\ UNCHANGED <<attestNow, kms, pc, held, made, log, pend, judged>>

KmsChanges(to) ==
    /\ judged = <<>> /\ moves < MaxMoves /\ to # kms
    /\ kms' = to /\ moves' = moves + 1
    /\ UNCHANGED <<attestNow, key, pc, held, made, log, pend, judged>>

AttestationTick == /\ judged = <<>> /\ attestNow < AttestationMaxTime /\ attestNow' = attestNow + 1
                   /\ UNCHANGED <<key, kms, moves, pc, held, made, log, pend, judged>>

AttestationNext == \/ AttestationTick
                   \/ \E s \in States : MoveKey(s)
                   \/ \E s \in KmsMoves \cap KmsStates : KmsChanges(s)
                   \/ \E w \in Workers : \/ Ensure(w) \/ ReadLog(w) \/ AppendEntry(w) \/ CrashInAppend(w)
                                         \/ \E i \in 0..attestNow : Attest(w, i)
                                         \/ \E how \in {"wellKnown", "signer"}, other \in Workers,
                                               change \in {"none", "outcome", "binding", "type", "anchors"} :
                                               Verify(w, how, other, change)

AttestationSpec == AttestationInit /\ [][AttestationNext]_attestationVars

(***************************************************************************)
(* Properties.                                                             *)
(***************************************************************************)

(* An outcome accepted against a hard-revoked key was really signed before *)
(* the revocation, and its anchor is in a log that still validates: torn   *)
(* lines, colliding writers and backdated issue times excuse nothing.      *)
HardRevokedNeedsEarlyAnchor ==
    judged # <<>> /\ judged[2] # "signer" /\ judged[4] = "accepted" /\ key.hardRevoked # None =>
        /\ made[judged[1]].signedAt < key.hardRevoked
        /\ ReadEntries(log) = "ok"
        /\ \E n \in DOMAIN log : log[n].digest = made[judged[1]].digest /\ log[n].at < key.hardRevoked

(* Nothing that was signed may be changed: an outcome, a proof binding or  *)
(* a type taken from another attestation is rejected by every verifier,    *)
(* and so are borrowed anchors, though no signature covers them, whatever  *)
(* the state of the log: a holder may only leave the anchors out.          *)
AlteredIsRejected ==
    judged # <<>> /\ judged[3] # "none" /\ judged[4] = "accepted" =>
        judged[3] = "anchors" /\ made[judged[5]].anchors = <<>>

(* An outcome accepted against a hard-revoked key was signed before the    *)
(* revocation and its anchor is in a log that still validates, whatever    *)
(* torn lines, colliding writers and backdated issue times there are; and  *)
(* no outcome, binding, type or anchor taken from another attestation is   *)
(* accepted (verify_receipt_attestation and verify_external_anchor).       *)
AttestationStands == HardRevokedNeedsEarlyAnchor /\ AlteredIsRejected
===============================================================================
