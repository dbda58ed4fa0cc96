----------------------------- MODULE KeyLifecycle -----------------------------
(***************************************************************************)
(* Pure rules on signing keys: the lifecycle machine (key_lifecycle.py),   *)
(* the AWS KMS status (aws_kms.py), the managed signer's guard             *)
(* (external_managed.py), and which key of a discovery document verifies   *)
(* an artifact (well_known.py).                                            *)
(***************************************************************************)
EXTENDS Integers, Sequences, FiniteSets

None == -1      \* an absent instant

States == {"active", "retired", "suspended", "revoked", "hard_revoked"}

AllowedTransitions ==
    [active       |-> {"retired", "suspended", "revoked", "hard_revoked"},
     retired      |-> {"suspended", "revoked", "hard_revoked"},
     suspended    |-> {"active", "retired", "revoked", "hard_revoked"},
     revoked      |-> {"hard_revoked"},
     hard_revoked |-> {}]

CanTransition(from, to) == to \in AllowedTransitions[from]
CanSign(state) == state = "active"
CanVerify(state) == state \in States \ {"hard_revoked"}

(***************************************************************************)
(* AwsKmsSigningBackend.  "unreachable" is a describe_key call that raises, *)
(* "Creating" stands for the states the map does not know.                 *)
(***************************************************************************)

KmsStates == {"Enabled", "Disabled", "PendingDeletion", "Creating", "unreachable"}

KmsLifecycle(kms) == CASE kms = "Enabled"         -> "active"
                       [] kms = "Disabled"        -> "suspended"
                       [] kms = "PendingDeletion" -> "revoked"
                       [] OTHER                   -> "raises"

Restrictiveness == [active |-> 0, retired |-> 1, suspended |-> 2, revoked |-> 3, hard_revoked |-> 4]

GetKeyStatus(status, kms) ==
    IF status = "hard_revoked" THEN status
    ELSE IF KmsLifecycle(kms) = "raises" THEN "raises"
    ELSE IF Restrictiveness[KmsLifecycle(kms)] > Restrictiveness[status] THEN KmsLifecycle(kms)
    ELSE status

(* sign_canonical_bytes up to the call of KMS.                             *)
KmsWouldSign(status, kms) == GetKeyStatus(status, kms) # "raises" /\ CanSign(GetKeyStatus(status, kms))

(* verify_canonical_bytes: a status that cannot be read raises.            *)
KmsVerify(status, kms, valid) ==
    LET s == GetKeyStatus(status, kms)
    IN  IF s = "raises" THEN "raises" ELSE IF CanVerify(s) /\ valid THEN "valid" ELSE "invalid"

(* ExternalManagedSigner._ensure_key_can_sign.                             *)
EnsureKeyCanSign(key, status, kms) ==
    key.purpose = key.required /\ status = "active" /\ GetKeyStatus(status, kms) = "active"

(***************************************************************************)
(* Discovery documents.  A document is [issuer, origin, keys, maxAge],     *)
(* keys a sequence of [kid, algorithm, uses, status, notBefore, expires,   *)
(* revoked, hardRevoked].                                                  *)
(***************************************************************************)

Uses == {"verify", "proof_issuance", "outcome_attestation", "receipt_countersignature"}

(* A URL is [scheme, host, userinfo, rest]; "public" is a host that is     *)
(* neither a blocked literal nor resolves to a non-public address.         *)
OriginOk(url) == url.scheme = "https" /\ url.host \in {"public", "name"} /\ ~url.userinfo /\ ~url.rest

(* The custom fetchers are not asked to resolve the host.                  *)
FetchUrlOk(url, resolves) == OriginOk(url) /\ (resolves => url.host = "public")

ParsesDocument(doc, origin) ==
    /\ doc.contract /\ doc.origin = origin
    /\ doc.maxAge = None \/ doc.maxAge > 0
    /\ doc.keys # <<>>
    /\ \A n \in DOMAIN doc.keys : doc.keys[n].uses # {} /\ doc.keys[n].uses \subseteq Uses
    /\ \A n, m \in DOMAIN doc.keys : n # m => doc.keys[n].kid # doc.keys[m].kid

(* Cache-Control against the document's own advice.                        *)
MaxAge(header, advisory, default) ==
    LET candidates == {header, advisory} \ {None}
    IN  IF candidates = {} THEN default ELSE CHOOSE a \in candidates : \A b \in candidates : a <= b

(* The anchor that can excuse a hard-revoked key; None when none verified. *)
Excused(key, anchorTime) == anchorTime # None /\ key.hardRevoked # None /\ anchorTime < key.hardRevoked

(* Mutation of KeyUsable: any verified anchor excuses a hard revocation.   *)
KeyUsableAnyAnchor(key, issuedAt, use, anchorTime) ==
    IF key.status = "suspended" THEN "Revoked"
    ELSE IF (key.status = "hard_revoked" \/ key.hardRevoked # None) /\ anchorTime = None THEN "Revoked"
    ELSE IF key.revoked # None /\ issuedAt >= key.revoked THEN "Revoked"
    ELSE "ok"

(* _assert_key_usable, in its order.                                       *)
KeyUsable(key, issuedAt, use, anchorTime) ==
    IF key.status \notin States THEN "Format"
    ELSE IF use \notin Uses \ {"verify"} THEN "Format"
    ELSE IF use \notin key.uses THEN "PurposeMismatch"
    ELSE IF key.notBefore # None /\ issuedAt < key.notBefore THEN "NotYetValid"
    ELSE IF key.expires # None /\ issuedAt >= key.expires THEN "Expired"
    ELSE IF key.status = "suspended" THEN "Revoked"
    ELSE IF (key.status = "hard_revoked" \/ key.hardRevoked # None) /\ ~Excused(key, anchorTime) THEN "Revoked"
    ELSE IF key.status = "revoked" /\ key.revoked = None THEN "Revoked"
    ELSE IF key.revoked # None /\ issuedAt >= key.revoked THEN "Revoked"
    ELSE "ok"

(* An artifact is [kid, algorithm, issuer, issuedAt, use]; a key of        *)
(* another algorithm counts as not found.                                  *)
SelectDiscovered(doc, a, anchorTime) ==
    LET matches == {n \in DOMAIN doc.keys : doc.keys[n].kid = a.kid}
        key     == doc.keys[CHOOSE n \in matches : TRUE]
    IN  IF doc.issuer # a.issuer THEN "IssuerMismatch"
        ELSE IF matches = {} THEN "NotFound"
        ELSE IF key.algorithm # a.algorithm THEN "NotFound"
        ELSE KeyUsable(key, a.issuedAt, a.use, anchorTime)

(* _verify_signature_with_resolved_key: both supported algorithms reduce   *)
(* to the key having made the signature over this payload.                 *)
SignatureHolds(a) == a.algorithm \in {"EdDSA", "RS256"} /\ a.signedBy = a.kid /\ a.intact
=============================================================================
