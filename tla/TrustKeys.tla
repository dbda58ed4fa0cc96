------------------------------ MODULE TrustKeys ------------------------------
(***************************************************************************)
(* How the offline verifiers of countersignatures, trust artifacts and     *)
(* transparency checkpoints pick a key of a pinned key set and check an    *)
(* Ed25519 signature with it, in Python ("py") and in TypeScript ("ts").   *)
(*                                                                         *)
(* A signature is symbolic: the key that made it and the statement it is   *)
(* over.  Instants count half milliseconds; JavaScript's Date.parse keeps  *)
(* whole milliseconds.  A party may carry attributes, which only Python    *)
(* puts into the statement it rebuilds.                                    *)
(***************************************************************************)
EXTENDS Integers, Sequences

Never == -1     \* an absent bound of a key

Instant(lang, t) == IF lang = "ts" THEN t \div 2 ELSE t

(* PartyRef.to_dict against the `party` helpers of the SDK.                *)
PartyForm(lang, party) ==
    IF lang = "ts" THEN [party EXCEPT !.attributes = FALSE] ELSE party

SameParty(p, q) == p.type = q.type /\ p.id = q.id

(* A contract header: Python compares the whole object, the SDK two        *)
(* fields of it.                                                           *)
ContractOk(lang, contract) == contract = "v1" \/ (lang = "ts" /\ contract = "v1 and more")

(* A digest: the SDK knows one canonicalization profile.                   *)
DigestOk(lang, d) == d.wellFormed /\ d.profile \in (IF lang = "ts" THEN {"RFC8785-JCS"} ELSE {"RFC8785-JCS", "ACTENON-JCS-STRICT-1"})

Matching(set, kid) == {n \in DOMAIN set.keys : set.keys[n].kid = kid}

(* Mutation of Usable: any key of the party will do.                       *)
UsableForAny(key, use) == TRUE

Usable(key, use) == use \in key.uses

(* not_before is inclusive, expires_at and revoked_at exclude.             *)
InForce(lang, key, at) ==
    /\ key.notBefore # Never => Instant(lang, at) >= Instant(lang, key.notBefore)
    /\ key.expires # Never => Instant(lang, at) < Instant(lang, key.expires)
    /\ key.revoked # Never => Instant(lang, at) < Instant(lang, key.revoked)

(* _select_key of the trust artifacts; the other verifiers carry copies.   *)
SelectKey(lang, set, signer, sig, at, use) ==
    IF ~set.contract THEN "TRUSTED_KEYS_INVALID"
    ELSE IF ~SameParty(set.issuer, signer) THEN "SIGNER_MISMATCH"
    ELSE IF set.keys = <<>> THEN "TRUSTED_KEYS_INVALID"
    ELSE IF Matching(set, sig.kid) = {} THEN "UNKNOWN_KEY_ID"
    ELSE IF \E n, m \in Matching(set, sig.kid) : n # m THEN "TRUSTED_KEYS_INVALID"
    ELSE LET key == set.keys[CHOOSE n \in Matching(set, sig.kid) : TRUE]
         IN  IF key.algorithm # sig.algorithm THEN "SIGNATURE_INVALID"
             ELSE IF ~Usable(key, use) THEN "KEY_PURPOSE_MISMATCH"
             ELSE IF key.status \notin {"active", "retired"} THEN "KEY_NOT_VALID"
             ELSE IF ~InForce(lang, key, at) THEN "KEY_NOT_VALID"
             ELSE "ok"

SelectedKey(set, sig) == set.keys[CHOOSE n \in Matching(set, sig.kid) : TRUE]

(* _verify_ed25519: algorithm, JWK, lengths, then the signature itself.    *)
VerifyEd25519(key, sig, statement) ==
    IF sig.algorithm # "EdDSA" \/ sig.encoding # "base64url" THEN "UNSUPPORTED_ALGORITHM"
    ELSE IF ~key.jwk THEN "TRUSTED_KEYS_INVALID"
    ELSE IF sig.by # key.material \/ sig.over # statement THEN "SIGNATURE_INVALID"
    ELSE "ok"

(* selectKey and verifyEd25519 of the SDK, _select_trusted_key and         *)
(* _verify_ed25519 of the countersignatures, _select_checkpoint_key of the *)
(* transparency log: the same steps in the same order.                     *)
TsSelectKey(set, signer, sig, at, use) == SelectKey("ts", set, signer, sig, at, use)
SelectTrustedKey(lang, set, signer, sig, at) == SelectKey(lang, set, signer, sig, at, "receipt_countersignature")
SelectCheckpointKey(lang, set, signer, sig, at) == SelectKey(lang, set, signer, sig, at, "transparency_checkpoint")
TsVerifyEd25519(key, sig, statement) == VerifyEd25519(key, sig, statement)
CounterVerifyEd25519(key, sig, statement) == VerifyEd25519(key, sig, statement)

KeyAndSignature(lang, set, signer, sig, at, use, statement) ==
    LET v   == CASE use = "receipt_countersignature" -> SelectTrustedKey(lang, set, signer, sig, at)
                 [] use = "transparency_checkpoint"  -> SelectCheckpointKey(lang, set, signer, sig, at)
                 [] lang = "ts" -> TsSelectKey(set, signer, sig, at, use)
                 [] OTHER -> SelectKey(lang, set, signer, sig, at, use)
        key == SelectedKey(set, sig)
    IN  IF v # "ok" THEN v
        ELSE IF use = "receipt_countersignature" THEN CounterVerifyEd25519(key, sig, statement)
        ELSE IF lang = "ts" THEN TsVerifyEd25519(key, sig, statement) ELSE VerifyEd25519(key, sig, statement)
=============================================================================
