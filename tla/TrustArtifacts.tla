--------------------------- MODULE TrustArtifacts ---------------------------
(***************************************************************************)
(* Issuer status, approval artifacts and receipt countersignatures         *)
(* (verifier/trust_artifacts.py, verifier/countersignature.py and their    *)
(* TypeScript counterparts).  An authority signs statements about the      *)
(* world over time; whoever holds old artifacts, or alters one, presents   *)
(* it to a verifier later.                                                 *)
(***************************************************************************)
EXTENDS TrustKeys, FiniteSets

CONSTANTS KeySet,      \* the pinned key set; its issuer is the authority
          Party, Attributed,   \* the authority's party reference, without and with attributes
          Actions, Receipts,   \* hashes of actions, digests of receipts
          StatusMaxAge, Lifetime,    \* freshness window and lifetime of a status, in instants
          MaxSigned, AuthorityMaxTime

(* A party reference is a type and an id, with or without attributes.      *)
ASSUME TrustAssumption ==
    /\ StatusMaxAge \in Nat
    /\ Party = [type |-> Party.type, id |-> Party.id, attributes |-> FALSE]
    /\ Attributed = [Party EXCEPT !.attributes = TRUE]

VARIABLES clock,
          standing,    \* the issuer's standing, and since when it is not good
          since,
          signed,      \* signatures the authority made, with the statements they are over
          checked         \* the last verification: [kind, lang, verdict, artifact, now]

artifactsVars == <<clock, standing, since, signed, checked>>

Nothing == [kind |-> "none", lang |-> "py", verdict |-> "none", artifact |-> <<>>]

ArtifactsInit == clock = 0 /\ standing = "good_standing" /\ since = 0 /\ signed = {} /\ checked = Nothing

(***************************************************************************)
(* Statements, as the verifiers rebuild them.                              *)
(***************************************************************************)

Statement(lang, kind, a) == <<kind, PartyForm(lang, a.party), a.subject, a.meaning, a.at, a.until>>

(* Mutation of StatusFresh: a status is believed while it has not expired. *)
StatusFreshWhileAlive(lang, at, now) == TRUE

StatusFresh(lang, at, now) == Instant(lang, now) - Instant(lang, at) <= Instant(lang, StatusMaxAge)

(* verify_issuer_status before the key: contract, issuer, authority,       *)
(* status token, interval, expiry and age.                                 *)
StatusChecks(lang, a, now) ==
    IF ~ContractOk(lang, a.contract) THEN "INVALID_ISSUER_STATUS"
    ELSE IF a.subject # "issuer" THEN "ISSUER_MISMATCH"
    ELSE IF a.meaning \notin {"good_standing", "suspended", "revoked"} THEN "INVALID_ISSUER_STATUS"
    ELSE IF Instant(lang, a.until) <= Instant(lang, a.at) THEN "INVALID_ISSUER_STATUS"
    ELSE IF Instant(lang, now) < Instant(lang, a.at) THEN "ISSUER_STATUS_NOT_YET_VALID"
    ELSE IF Instant(lang, now) >= Instant(lang, a.until) THEN "ISSUER_STATUS_EXPIRED"
    ELSE IF ~StatusFresh(lang, a.at, now) THEN "ISSUER_STATUS_STALE"
    ELSE "ok"

StandingVerdict(status) ==
    CASE status = "revoked" -> "ISSUER_REVOKED" [] status = "suspended" -> "ISSUER_SUSPENDED" [] OTHER -> "ok"

VerifyIssuerStatus(lang, policy, a, now) ==
    LET keys == KeyAndSignature(lang, KeySet, a.party, a.sig, a.at, "issuer_status", Statement(lang, "issuer_status", a))
    IN  IF policy = "disabled" THEN "skipped"
        ELSE IF StatusChecks(lang, a, now) # "ok" THEN StatusChecks(lang, a, now)
        ELSE IF keys # "ok" THEN keys ELSE StandingVerdict(a.meaning)

(* An action hash compared by value in Python, with its profile in the     *)
(* SDK; both are optional bindings.                                        *)
ExpectedAction(lang, a, expected) ==
    expected = "none" \/ (a.subject = expected /\ (lang = "ts" => a.profile = "RFC8785-JCS"))

VerifyApproval(lang, a, expected) ==
    LET keys == KeyAndSignature(lang, KeySet, a.party, a.sig, a.at, "approval_artifact", Statement(lang, "approval_artifact", a))
    IN  IF ~ContractOk(lang, a.contract) THEN "INVALID_APPROVAL_ARTIFACT"
        ELSE IF a.meaning # "approved" THEN "APPROVAL_NOT_GRANTED"
        ELSE IF ~DigestOk(lang, [wellFormed |-> TRUE, profile |-> a.profile]) THEN "INVALID_APPROVAL_ARTIFACT"
        ELSE IF ~ExpectedAction(lang, a, expected) THEN "APPROVAL_ACTION_MISMATCH"
        ELSE keys

(* Mutation of VerifyCountersignature: the digest is compared with itself. *)
VerifyCountersignatureUnbound(lang, receipt, a) ==
    LET keys == KeyAndSignature(lang, KeySet, a.party, a.sig, a.at, "receipt_countersignature",
                                Statement(lang, "receipt_countersignature", a))
    IN  IF ~ContractOk(lang, a.contract) THEN "INVALID_COUNTERSIGNATURE" ELSE keys

VerifyCountersignature(lang, receipt, a) ==
    LET keys == KeyAndSignature(lang, KeySet, a.party, a.sig, a.at, "receipt_countersignature",
                                Statement(lang, "receipt_countersignature", a))
    IN  IF ~ContractOk(lang, a.contract) THEN "INVALID_COUNTERSIGNATURE"
        ELSE IF ~DigestOk(lang, [wellFormed |-> TRUE, profile |-> a.profile]) THEN "INVALID_RECEIPT_DIGEST"
        ELSE IF a.subject # receipt THEN "RECEIPT_DIGEST_MISMATCH"
        ELSE keys

(* The SDK's verifyIssuerStatus, verifyApprovalArtifact and                *)
(* verifyCountersignature.                                                 *)
TsVerifyIssuerStatus(policy, a, now) == VerifyIssuerStatus("ts", policy, a, now)
TsVerifyApproval(a, expected) == VerifyApproval("ts", a, expected)
TsVerifyCountersignature(receipt, a) == VerifyCountersignature("ts", receipt, a)

(***************************************************************************)
(* The authority and the world.                                            *)
(***************************************************************************)

Sign(key, party, kind, subject, meaning, until) ==
    /\ signed' = signed \cup {[by |-> key.material, kid |-> key.kid, algorithm |-> key.algorithm, encoding |-> "base64url",
                               over |-> <<kind, party, subject, meaning, clock, until>>]}
    /\ UNCHANGED <<clock, standing, since, checked>>

(* Any key of the set may sign what is true when it is in force, in one of *)
(* the two forms of the authority's name; the verifiers decide which keys  *)
(* count for which purpose.                                                *)
SignStatus(key, party) == Sign(key, party, "issuer_status", "issuer", standing, clock + Lifetime)
SignApproval(key, h) == Sign(key, Party, "approval_artifact", h, "approved", 0)
Countersign(key, r) == Sign(key, Party, "receipt_countersignature", r, "witnessed", 0)

LoseStanding(s) ==
    /\ standing = "good_standing" /\ standing' = s /\ since' = clock
    /\ UNCHANGED <<clock, signed, checked>>

AuthorityTick == clock < AuthorityMaxTime /\ clock' = clock + 1 /\ UNCHANGED <<standing, since, signed, checked>>

(* What can be presented: a signature with the artifact it was made for,   *)
(* or with one field of that artifact changed.                             *)
Of(sig) == [contract |-> "v1", profile |-> "RFC8785-JCS", party |-> sig.over[2], subject |-> sig.over[3],
            meaning |-> sig.over[4], at |-> sig.over[5], until |-> sig.over[6], sig |-> sig]

Presentable(sig) ==
    {Of(sig)} \cup {[Of(sig) EXCEPT !.contract = c] : c \in {"v1 and more", "v2"}}
              \cup {[Of(sig) EXCEPT !.profile = "ACTENON-JCS-STRICT-1"]}
              \cup {[Of(sig) EXCEPT !.party = p] : p \in {Party, Attributed}}
              \cup {[Of(sig) EXCEPT !.subject = x] : x \in Actions \cup Receipts \cup {"issuer"}}
              \cup {[Of(sig) EXCEPT !.meaning = x] : x \in {"good_standing", "approved", "witnessed"}}
              \cup {[Of(sig) EXCEPT !.at = clock, !.until = clock + Lifetime]}

(* A verification ends a behaviour: it changes nothing but its answer.     *)
Verified(kind, lang, verdict, a) ==
    /\ checked.kind = "none"
    /\ checked' = [kind |-> kind, lang |-> lang, verdict |-> verdict, artifact |-> a]
    /\ UNCHANGED <<clock, standing, since, signed>>

Check(lang, sig, a) ==
    \/ \E p \in {"required", "disabled"} :
           Verified("issuer_status", lang,
                    IF lang = "ts" THEN TsVerifyIssuerStatus(p, a, clock) ELSE VerifyIssuerStatus(lang, p, a, clock), a)
    \/ \E e \in Actions \cup {"none"} :
           Verified("approval_artifact", lang, IF lang = "ts" THEN TsVerifyApproval(a, e) ELSE VerifyApproval(lang, a, e), a)
    \/ \E r \in Receipts :
           Verified("receipt_countersignature", lang,
                    IF lang = "ts" THEN TsVerifyCountersignature(r, a) ELSE VerifyCountersignature(lang, r, a),
                    [a EXCEPT !.contract = r])

ArtifactsNext ==
    \/ checked.kind = "none" /\ \E n \in DOMAIN KeySet.keys :
          LET key == KeySet.keys[n]
          IN  /\ Cardinality(signed) < MaxSigned /\ KeySet.keys[n].status = "active" /\ InForce("py", key, clock)
              /\ \/ \E p \in {Party, Attributed} : SignStatus(key, p)
                 \/ \E h \in Actions : SignApproval(key, h)
                 \/ \E r \in Receipts : Countersign(key, r)
    \/ checked.kind = "none" /\ (AuthorityTick \/ \E s \in {"suspended", "revoked"} : LoseStanding(s))
    \/ \E lang \in {"py", "ts"}, sig \in signed : \E a \in Presentable(sig) : Check(lang, sig, a)

ArtifactsSpec == ArtifactsInit /\ [][ArtifactsNext]_artifactsVars

(***************************************************************************)
(* Properties.                                                             *)
(***************************************************************************)

(* A lost standing is believed for at most the freshness window: a status  *)
(* accepted now was signed by the authority no longer ago than MaxAge (one *)
(* millisecond more in the SDK), when the issuer was in good standing.     *)
StandingIsFresh ==
    checked.kind = "issuer_status" /\ checked.verdict = "ok" =>
           /\ \E s \in signed : s.over[1] = "issuer_status" /\ s.over[4] = "good_standing" /\ s.over[5] = checked.artifact.at
           /\ clock - checked.artifact.at <= StatusMaxAge + 1
           /\ standing # "good_standing" => clock <= since + StatusMaxAge + 1

(* What verifies was said: an approval or countersignature that verifies   *)
(* was signed by the named party for that action or receipt, with a key    *)
(* kept for that use; a signature made for another purpose never serves.   *)
VerifiedWasSigned ==
    checked.verdict = "ok" /\ checked.kind # "issuer_status" =>
           \E s \in signed :
               /\ s.over[1] = checked.kind /\ SameParty(s.over[2], checked.artifact.party)
               /\ s.over[3] = IF checked.kind = "receipt_countersignature" THEN checked.artifact.contract ELSE checked.artifact.subject
               /\ s.over[5] = checked.artifact.at
               /\ \A n \in DOMAIN KeySet.keys : KeySet.keys[n].kid = s.kid => checked.kind \in KeySet.keys[n].uses

(* A status that verifies is no older than the freshness window, so that a *)
(* lost standing is believed no longer than that; an approval or a         *)
(* countersignature that verifies was signed for that action or receipt    *)
(* with a key kept for that use (the verifiers of trust_artifacts.py and   *)
(* of the SDK).                                                            *)
TrustedWasSigned == StandingIsFresh /\ VerifiedWasSigned
=============================================================================
