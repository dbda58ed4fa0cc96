----------------------------- MODULE TrustProofs -----------------------------
(***************************************************************************)
(* What a third party trusts, for any number of workers, keys, anchors and *)
(* artifacts: an attestation stands only as it was signed, and against a   *)
(* hard-revoked key only with an anchor from before; and what verifies     *)
(* against a pinned key set was signed, for that use.                      *)
(***************************************************************************)
EXTENDS OutcomeAttestation, TrustArtifacts, TLAPS

(***************************************************************************)
(* Outcome attestation.                                                    *)
(***************************************************************************)

SigningKeys == [kid : {"k"}, algorithm : {"EdDSA"}, uses : {{"outcome_attestation"}}, status : States,
                notBefore : Int, expires : Int, revoked : Int, hardRevoked : Int]

(* The entry of worker w was made after its attestation a was signed.      *)
EntryOf(e, w, a) == e.seq \in Nat \ {0} /\ e.digest = w /\ e.at \in Int /\ a.signedAt <= e.at

(* An attestation that was signed: its parts are its worker's and the      *)
(* signature covers them; it has no anchor or one of its own.              *)
Attested(w, a) ==
    /\ a = [type |-> TypeOf[w], outcome |-> w, digest |-> w, binding |-> w, issuedAt |-> a.issuedAt,
            signature |-> <<TypeOf[w], w, w, w, a.issuedAt>>, signedAt |-> a.signedAt, anchors |-> a.anchors]
    /\ a.signedAt \in Int /\ a.signedAt <= attestNow
    /\ a.anchors = <<>> \/ \E e : a.anchors = <<e>> /\ EntryOf(e, w, a)

WorkerInv(w) ==
    /\ pc[w] \in {"idle", "ensured"} => made[w] = NoArtifact
    /\ pc[w] \in {"signed", "read"} => Attested(w, made[w])
    /\ pc[w] = "read" => EntryOf(pend[w], w, made[w])
    /\ made[w] = NoArtifact \/ Attested(w, made[w])

AttestationType ==
    /\ attestNow \in Int /\ key \in SigningKeys
    /\ DOMAIN pc = Workers /\ DOMAIN made = Workers /\ DOMAIN pend = Workers
    /\ \E S : log \in Seq(S)

AttestationInv == AttestationType /\ (\A w \in Workers : WorkerInv(w)) /\ AttestationStands

(***************************************************************************)
(* Steps before the verification.                                          *)
(***************************************************************************)

LEMMA AttestedLater ==
    ASSUME NEW w, NEW a, Attested(w, a), attestNow \in Int, attestNow' \in Int, attestNow <= attestNow'
    PROVE  Attested(w, a)'
  BY DEF Attested, EntryOf

(* A step of worker w, or of none, while nothing is verified.              *)
LEMMA WorkerMoves ==
    ASSUME AttestationInv, NEW w \in Workers, AttestationType', WorkerInv(w)',
           attestNow <= attestNow', judged' = <<>>,
           \A v \in Workers \ {w} : pc'[v] = pc[v] /\ made'[v] = made[v] /\ pend'[v] = pend[v]
    PROVE  AttestationInv'
  <1>1. ASSUME NEW v \in Workers \ {w} PROVE WorkerInv(v)'
    <2>1. attestNow \in Int /\ attestNow' \in Int /\ WorkerInv(v)
      BY DEF AttestationInv, AttestationType
    <2>2. PICK a, e : a = made[v] /\ e = pend[v]
      OBVIOUS
    <2>3. Attested(v, a) => Attested(v, a)'
      BY <2>1, AttestedLater
    <2>4. QED
      BY ZenonT(30), <2>1, <2>2, <2>3 DEF WorkerInv, Attested, EntryOf
  <1>2. AttestationStands'
    BY DEF AttestationStands, HardRevokedNeedsEarlyAnchor, AlteredIsRejected
  <1>3. QED
    BY <1>1, <1>2 DEF AttestationInv

LEMMA OutsideMoves ==
    ASSUME AttestationInv, AttestationType', attestNow <= attestNow', judged' = <<>>,
           UNCHANGED <<pc, made, pend>>
    PROVE  AttestationInv'
  <1>1. ASSUME NEW v \in Workers PROVE WorkerInv(v)'
    <2>1. attestNow \in Int /\ attestNow' \in Int /\ WorkerInv(v)
      BY Zenon DEF AttestationInv, AttestationType
    <2>2. PICK a : a = made[v]
      BY Zenon
    <2>3. Attested(v, a) => Attested(v, a)'
      BY Zenon, <2>1, AttestedLater
    <2>4. QED
      BY <2>1, <2>2, <2>3 DEF WorkerInv, Attested, EntryOf
  <1>2. AttestationStands'
    BY Zenon DEF AttestationStands, HardRevokedNeedsEarlyAnchor, AlteredIsRejected
  <1>3. QED
    BY <1>1, <1>2 DEF AttestationInv

LEMMA EnsureKeeps == ASSUME AttestationInv, NEW w \in Workers, Ensure(w) PROVE AttestationInv'
  <1>1. /\ pc[w] = "idle" /\ UNCHANGED <<attestNow, key, made, log, pend, judged>> /\ judged = <<>>
        /\ attestNow \in Int /\ DOMAIN pc = Workers /\ made[w] = NoArtifact
    BY DEF Ensure, AttestationInv, AttestationType, WorkerInv
  <1>2. PICK x \in {"ensured", "refused"} : pc' = [pc EXCEPT ![w] = x]
    BY Zenon DEF Ensure
  <1>3. AttestationType'
    BY Zenon, <1>1, <1>2 DEF AttestationInv, AttestationType
  <1>4. WorkerInv(w)'
    BY Zenon, <1>1, <1>2 DEF WorkerInv
  <1>5. QED
    BY <1>1, <1>2, <1>3, <1>4, WorkerMoves

LEMMA AttestKeeps == ASSUME AttestationInv, NEW w \in Workers, NEW i, Attest(w, i) PROVE AttestationInv'
  <1>1. /\ pc[w] = "ensured" /\ UNCHANGED <<attestNow, key, log, pend, judged>> /\ judged = <<>>
        /\ attestNow \in Int /\ DOMAIN pc = Workers /\ DOMAIN made = Workers /\ made[w] = NoArtifact
    BY Zenon DEF Attest, AttestationInv, AttestationType, WorkerInv
  <1> DEFINE a == [type |-> TypeOf[w], outcome |-> w, digest |-> w, binding |-> w, issuedAt |-> i,
                   signature |-> <<TypeOf[w], w, w, w, i>>, signedAt |-> attestNow, anchors |-> <<>>]
  <1>2. CASE made' = [made EXCEPT ![w] = a] /\ pc' = [pc EXCEPT ![w] = "signed"]
    <2>1. AttestationType'
      BY Zenon, <1>1, <1>2 DEF AttestationInv, AttestationType
    <2>2. Attested(w, a)'
      BY <1>1 DEF Attested
    <2>3. made'[w] = a /\ pc'[w] = "signed"
      BY Zenon, <1>1, <1>2
    <2>4. WorkerInv(w)'
      BY Zenon, <1>1, <2>2, <2>3 DEF WorkerInv, Attested
    <2> HIDE DEF a
    <2>5. QED
      BY <1>1, <1>2, <2>1, <2>4, WorkerMoves
  <1>3. CASE made' = made /\ pc' = [pc EXCEPT ![w] = "refused"]
    <2>1. AttestationType'
      BY Zenon, <1>1, <1>3 DEF AttestationInv, AttestationType
    <2>2. WorkerInv(w)'
      BY <1>1, <1>3 DEF WorkerInv
    <2>3. QED
      BY <1>1, <1>3, <2>1, <2>2, WorkerMoves
  <1>4. KmsWouldSign(held[w], kms) /\ kms = "Enabled" =>
            made' = [made EXCEPT ![w] = a] /\ pc' = [pc EXCEPT ![w] = "signed"]
    <2> DEFINE x == [NoArtifact EXCEPT !.type = TypeOf[w], !.outcome = w, !.digest = BuildDigest(w),
                                       !.binding = DeriveProofBinding(w), !.issuedAt = i, !.signedAt = attestNow]
               y == [type |-> TypeOf[w], outcome |-> w, digest |-> w, binding |-> w, issuedAt |-> i,
                     signature |-> <<>>, signedAt |-> attestNow, anchors |-> <<>>]
    <2>1. x = y
      <3>1. BuildDigest(w) = w /\ DeriveProofBinding(w) = w
        BY DEF BuildDigest, DeriveProofBinding
      <3>2. DOMAIN x = DOMAIN y
        BY DEF NoArtifact
      <3>3. /\ x.type = y.type /\ x.outcome = y.outcome /\ x.digest = y.digest /\ x.binding = y.binding
            /\ x.issuedAt = y.issuedAt /\ x.signature = y.signature /\ x.signedAt = y.signedAt /\ x.anchors = y.anchors
        BY <3>1 DEF NoArtifact
      <3>4. QED
        BY ZenonT(30), <3>1, <3>2, <3>3 DEF NoArtifact
    <2>2. UnsignedPayload(y) = <<TypeOf[w], w, w, w, i>>
      BY DEF UnsignedPayload
    <2>3. [y EXCEPT !.signature = <<TypeOf[w], w, w, w, i>>] = a
      OBVIOUS
    <2>4. [x EXCEPT !.signature = UnsignedPayload(x)] = a
      BY Zenon, <2>1, <2>2, <2>3
    <2>5. KmsWouldSign(held[w], kms) /\ kms = "Enabled" =>
              /\ made' = [made EXCEPT ![w] = [x EXCEPT !.signature = UnsignedPayload(x)]]
              /\ pc' = [pc EXCEPT ![w] = "signed"]
      BY DEF Attest
    <2>6. QED
      BY <2>4, <2>5
  <1>5. ~(KmsWouldSign(held[w], kms) /\ kms = "Enabled") => made' = made /\ pc' = [pc EXCEPT ![w] = "refused"]
    BY DEF Attest
  <1>6. QED
    BY <1>2, <1>3, <1>4, <1>5

LEMMA ReadLogKeeps == ASSUME AttestationInv, NEW w \in Workers, ReadLog(w) PROVE AttestationInv'
  <1>1. /\ pc[w] = "signed" /\ UNCHANGED <<attestNow, key, made, log, judged>> /\ judged = <<>>
        /\ attestNow \in Int /\ DOMAIN pc = Workers /\ DOMAIN pend = Workers /\ Attested(w, made[w])
    BY Zenon DEF ReadLog, AttestationInv, AttestationType, WorkerInv
  <1>2. Len(log) \in Nat
    BY DEF AttestationInv, AttestationType
  <1>3. Attested(w, made[w])'
    BY Zenon, <1>1 DEF Attested, EntryOf
  <1>4. CASE ReadEntries(log) = "ok"
    <2>1. PICK p, e : /\ e = [seq |-> Len(log) + 1, prev |-> p, digest |-> made[w].digest, at |-> attestNow]
                      /\ pend' = [pend EXCEPT ![w] = e] /\ pc' = [pc EXCEPT ![w] = "read"]
      BY Zenon, <1>4 DEF ReadLog
    <2>2. e.seq \in Nat \ {0} /\ e.digest = w /\ e.at = attestNow
      BY <1>1, <1>2, <2>1 DEF Attested
    <2>3. AttestationType'
      BY Zenon, <1>1, <2>1 DEF AttestationInv, AttestationType
    <2>4. pend'[w] = e /\ pc'[w] = "read"
      BY Zenon, <1>1, <2>1
    <2>5. EntryOf(pend[w], w, made[w])'
      BY Zenon, <1>1, <2>2, <2>4 DEF EntryOf, Attested
    <2>6. WorkerInv(w)'
      BY Zenon, <1>3, <2>4, <2>5 DEF WorkerInv
    <2>7. QED
      BY <1>1, <2>1, <2>3, <2>6, WorkerMoves
  <1>5. CASE ReadEntries(log) # "ok"
    <2>1. pc' = [pc EXCEPT ![w] = "unanchored"] /\ pend' = pend
      BY Zenon, <1>5 DEF ReadLog
    <2>2. AttestationType'
      BY Zenon, <1>1, <2>1 DEF AttestationInv, AttestationType
    <2>3. WorkerInv(w)'
      BY Zenon, <1>1, <1>3, <2>1 DEF WorkerInv
    <2>4. QED
      BY <1>1, <2>1, <2>2, <2>3, WorkerMoves
  <1>6. QED
    BY Zenon, <1>4, <1>5

(* The log stays a sequence, whatever line is added to it.                 *)
LEMMA LogGrows ==
    ASSUME NEW s, \E S : s \in Seq(S), NEW e PROVE \E S : Append(s, e) \in Seq(S)
  <1>1. PICK S : s \in Seq(S)
    BY Zenon
  <1>2. s \in Seq(S \cup {e})
    BY <1>1
  <1>3. Append(s, e) \in Seq(S \cup {e})
    BY <1>2
  <1>4. QED
    BY <1>3

LEMMA AppendKeeps ==
    ASSUME AttestationInv, NEW w \in Workers, AppendEntry(w) \/ CrashInAppend(w) PROVE AttestationInv'
  <1>1. /\ pc[w] = "read" /\ UNCHANGED <<attestNow, key, pend, judged>> /\ judged = <<>>
        /\ attestNow \in Int /\ DOMAIN pc = Workers /\ DOMAIN made = Workers
        /\ Attested(w, made[w]) /\ EntryOf(pend[w], w, made[w])
    BY Zenon DEF AppendEntry, CrashInAppend, AttestationInv, AttestationType, WorkerInv
  <1>2. \E S : log' \in Seq(S)
    <2>1. \E S : log \in Seq(S)
      BY Zenon DEF AttestationInv, AttestationType
    <2>2. log' = log \/ \E e : log' = Append(log, e)
      BY Zenon DEF AppendEntry, CrashInAppend
    <2>3. QED
      BY Zenon, <2>1, <2>2, LogGrows
  <1>3. CASE AppendEntry(w)
    <2>1. PICK a, b, e : a = made[w] /\ e = pend[w] /\ b = [a EXCEPT !.anchors = <<e>>]
      BY Zenon
    <2>2. made' = [made EXCEPT ![w] = b] /\ pc' = [pc EXCEPT ![w] = "anchored"]
      BY Zenon, <1>3, <2>1 DEF AppendEntry
    <2>3. Attested(w, b)'
      <3>1. Attested(w, a) /\ EntryOf(e, w, a)
        BY Zenon, <1>1, <2>1
      <3>2. /\ b.anchors = <<e>> /\ b.signedAt = a.signedAt /\ b.issuedAt = a.issuedAt
            /\ b = [type |-> TypeOf[w], outcome |-> w, digest |-> w, binding |-> w, issuedAt |-> b.issuedAt,
                    signature |-> <<TypeOf[w], w, w, w, b.issuedAt>>, signedAt |-> b.signedAt, anchors |-> b.anchors]
        BY <2>1, <3>1 DEF Attested
      <3>3. QED
        BY <1>1, <3>1, <3>2 DEF Attested, EntryOf
    <2>4. made'[w] = b /\ pc'[w] = "anchored"
      BY <1>1, <2>2
    <2>5. AttestationType'
      BY <1>1, <1>2, <2>2 DEF AttestationInv, AttestationType
    <2>6. WorkerInv(w)'
      BY Zenon, <2>3, <2>4 DEF WorkerInv, Attested
    <2>7. QED
      BY <1>1, <2>2, <2>5, <2>6, WorkerMoves
  <1>4. CASE CrashInAppend(w)
    <2>1. pc' = [pc EXCEPT ![w] = "unanchored"] /\ made' = made
      BY Zenon, <1>4 DEF CrashInAppend
    <2>2. AttestationType'
      BY Zenon, <1>1, <1>2, <2>1 DEF AttestationInv, AttestationType
    <2>3. Attested(w, made[w])'
      BY Zenon, <1>1, <2>1 DEF Attested, EntryOf
    <2>4. WorkerInv(w)'
      BY Zenon, <1>1, <2>1, <2>3 DEF WorkerInv
    <2>5. QED
      BY <1>1, <2>1, <2>2, <2>4, WorkerMoves
  <1>5. QED
    BY Zenon, <1>3, <1>4

LEMMA OutsideKeeps ==
    ASSUME AttestationInv,
           \/ AttestationTick \/ (\E s \in States : MoveKey(s)) \/ (\E s \in KmsMoves \cap KmsStates : KmsChanges(s))
    PROVE  AttestationInv'
  <1>1. attestNow \in Int /\ key \in SigningKeys
    BY Zenon DEF AttestationInv, AttestationType
  <1>2. CASE AttestationTick
    BY <1>1, <1>2, OutsideMoves DEF AttestationTick, AttestationInv, AttestationType
  <1>3. ASSUME NEW s \in States, MoveKey(s) PROVE AttestationInv'
    <2>1. UNCHANGED <<attestNow, pc, made, log, pend, judged>> /\ judged = <<>>
      BY Zenon, <1>3 DEF MoveKey
    <2>2. key' \in SigningKeys
      BY Zenon, <1>1, <1>3 DEF MoveKey, SigningKeys
    <2>3. AttestationType'
      BY Zenon, <2>1, <2>2 DEF AttestationInv, AttestationType
    <2>4. QED
      BY <1>1, <2>1, <2>3, OutsideMoves
  <1>4. ASSUME NEW s, KmsChanges(s) PROVE AttestationInv'
    BY <1>1, <1>4, OutsideMoves DEF KmsChanges, AttestationInv, AttestationType
  <1>5. QED
    BY Zenon, <1>2, <1>3, <1>4

(***************************************************************************)
(* The verification.                                                       *)
(***************************************************************************)

(* A key that is or was hard-revoked is usable only through an anchor      *)
(* before the revocation.                                                  *)
LEMMA HardRevokedIsExcused ==
    ASSUME NEW a, NEW t, SelectDiscovered([issuer |-> "issuer", keys |-> <<key>>], a, t) = "ok", key.hardRevoked # None
    PROVE  t # None /\ t < key.hardRevoked
  <1> DEFINE doc == [issuer |-> "issuer", keys |-> <<key>>]
             M == {n \in DOMAIN doc.keys : doc.keys[n].kid = a.kid}
             c == CHOOSE n \in M : TRUE
  <1>1. M # {} /\ KeyUsable(doc.keys[c], a.issuedAt, a.use, t) = "ok"
    BY Zenon DEF SelectDiscovered
  <1>2. c \in M
    BY Zenon, <1>1
  <1>3. doc.keys[c] = key
    <2>1. doc.keys = <<key>> /\ c \in DOMAIN doc.keys
      BY Zenon, <1>2
    <2> HIDE DEF doc, c
    <2>2. DOMAIN <<key>> = {1} /\ <<key>>[1] = key
      OBVIOUS
    <2>3. QED
      BY Zenon, <2>1, <2>2
  <1>4. KeyUsable(key, a.issuedAt, a.use, t) = "ok"
    BY Zenon, <1>1, <1>3
  <1>5. Excused(key, t)
    BY Zenon, <1>4 DEF KeyUsable
  <1>6. QED
    BY Zenon, <1>5 DEF Excused

(* What verify_external_anchor accepts is a line of a log that validates.  *)
LEMMA AnchorIsLogged ==
    ASSUME NEW e, NEW d, VerifyExternalAnchor(e, d) = "ok"
    PROVE  e.digest = d /\ ReadEntries(log) = "ok" /\ ~(e.seq > Len(log)) /\ log[e.seq] = e
  BY Zenon DEF VerifyExternalAnchor, DigestsMatch

(* The parts that an accepted attestation shows are those that were signed *)
(* and only its anchors may be another's, and then none.                   *)
LEMMA AcceptedParts ==
    ASSUME NEW w, NEW a, NEW how, VerifyOutcome(w, a, how) = "accepted"
    PROVE  SignedPayload(a) /\ a.binding = a.outcome /\ AnchorTime(a) # "fails"
  <1>1. BindingHolds(a) /\ AnchorTime(a) # "fails"
    BY Zenon DEF VerifyOutcome
  <1>2. CASE how = "signer"
    <2>1. KmsVerify(held[w], kms, SignedPayload(a)) = "valid"
      <3>1. KmsVerify(held[w], kms, SignedPayload(a)) \in {"raises", "valid", "invalid"}
        BY Zenon DEF KmsVerify
      <3>2. VerifyWithSigner(w, a) = "accepted"
        BY Zenon, <1>2 DEF VerifyOutcome
      <3>3. QED
        BY Zenon, <3>1, <3>2 DEF VerifyWithSigner
    <2>2. SignedPayload(a)
      BY Zenon, <2>1 DEF KmsVerify
    <2>3. QED
      BY Zenon, <1>1, <2>2 DEF BindingHolds, DeriveProofBinding
  <1>3. CASE how # "signer"
    <2>1. VerifyWithResolver(a) = "accepted"
      BY Zenon, <1>3 DEF VerifyOutcome
    <2>2. SignedPayload(a)
      BY Zenon, <2>1 DEF VerifyWithResolver, SignatureHolds
    <2>3. QED
      BY <1>1, <2>2 DEF BindingHolds, DeriveProofBinding
  <1>4. QED
    BY Zenon, <1>2, <1>3

(* A lone anchor: its digest is the artifact's, or the artifact fails.     *)
LEMMA OneAnchor ==
    ASSUME NEW a, NEW e, a.anchors = <<e>>, e.at \in Int, AnchorTime(a) # "fails"
    PROVE  /\ e.digest = a.digest
           /\ AnchorTime(a) = "some" => VerifyExternalAnchor(e, a.digest) = "ok" /\ EarliestAnchor(a) = e.at
  <1>1. DOMAIN a.anchors = {1} /\ a.anchors[1] = e
    OBVIOUS
  <1>2. VerifyExternalAnchor(e, a.digest) # "Verification"
    BY Zenon, <1>1 DEF AnchorTime
  <1>3. e.digest = a.digest
    BY Zenon, <1>2 DEF VerifyExternalAnchor, DigestsMatch
  <1>4. ASSUME AnchorTime(a) = "some" PROVE VerifyExternalAnchor(e, a.digest) = "ok" /\ EarliestAnchor(a) = e.at
    <2>1. GoodAnchors(a) # {}
      BY Zenon, <1>4 DEF AnchorTime
    <2>2. VerifyExternalAnchor(e, a.digest) = "ok" /\ GoodAnchors(a) = {1}
      BY Zenon, <1>1, <2>1 DEF GoodAnchors
    <2>3. {a.anchors[n].at : n \in GoodAnchors(a)} = {e.at}
      BY <1>1, <2>2
    <2>4. EarliestAnchor(a) = CHOOSE t \in {e.at} : \A u \in {e.at} : t <= u
      BY Zenon, <2>3 DEF EarliestAnchor
    <2>5. QED
      BY <2>2, <2>4
  <1>5. QED
    BY Zenon, <1>3, <1>4

(* What a change may be if the result is accepted.                         *)
LEMMA AlteredParts ==
    ASSUME NEW w, NEW v, NEW a, NEW b, NEW how, NEW change \in {"none", "outcome", "binding", "type", "anchors"},
           Attested(w, a), Attested(v, b), change = "none" <=> w = v,
           VerifyOutcome(w, Altered(a, b, change), how) = "accepted"
    PROVE  /\ change \in {"none", "anchors"}
           /\ change = "anchors" => b.anchors = <<>>
  <1> DEFINE x == Altered(a, b, change)
  <1>1. SignedPayload(x) /\ x.binding = x.outcome /\ AnchorTime(x) # "fails"
    BY Zenon, AcceptedParts
  <1>2. /\ a.outcome = w /\ a.digest = w /\ a.binding = w /\ a.signature = <<a.type, w, w, w, a.issuedAt>>
        /\ b.outcome = v /\ b.digest = v /\ b.binding = v
        /\ DOMAIN a = {"type", "outcome", "digest", "binding", "issuedAt", "signature", "signedAt", "anchors"}
    BY DEF Attested
  <1>3. x.signature = <<x.type, x.outcome, x.digest, x.binding, x.issuedAt>>
    BY Zenon, <1>1 DEF SignedPayload, UnsignedPayload
  <1>4. change # "outcome"
    <2>1. SUFFICES ASSUME change = "outcome" PROVE FALSE
      BY Zenon
    <2>2. x.signature = a.signature /\ x.outcome = v
      BY Zenon, <1>2, <2>1 DEF Altered
    <2>3. QED
      BY <1>2, <1>3, <2>1, <2>2
  <1>5. change # "binding"
    <2>1. SUFFICES ASSUME change = "binding" PROVE FALSE
      BY Zenon
    <2>2. x.outcome = w /\ x.binding = v
      BY Zenon, <1>2, <2>1 DEF Altered
    <2>3. QED
      BY Zenon, <1>1, <2>1, <2>2
  <1>6. change # "type"
    <2>1. SUFFICES ASSUME change = "type" PROVE FALSE
      BY Zenon
    <2>2. x.signature = a.signature /\ x.type # a.type
      BY Zenon, <1>2, <2>1 DEF Altered
    <2>3. QED
      BY <1>2, <1>3, <2>2
  <1>7. ASSUME change = "anchors", b.anchors # <<>> PROVE FALSE
    <2>1. PICK e : b.anchors = <<e>> /\ EntryOf(e, v, b)
      BY Zenon, <1>7 DEF Attested
    <2>2. x.anchors = <<e>> /\ x.digest = w
      BY Zenon, <1>2, <1>7, <2>1 DEF Altered
    <2>3. e.digest = x.digest
      BY Zenon, <1>1, <2>1, <2>2, OneAnchor DEF EntryOf
    <2>4. QED
      BY Zenon, <1>7, <2>1, <2>2, <2>3 DEF EntryOf
  <1>8. QED
    BY Zenon, <1>4, <1>5, <1>6, <1>7

(* An attestation that a third party accepts against a hard-revoked key    *)
(* shows an entry of its own, before the revocation.                       *)
LEMMA HardRevokedParts ==
    ASSUME AttestationType, NEW w, NEW a, NEW how, how # "signer", Attested(w, a),
           VerifyOutcome(w, a, how) = "accepted", key.hardRevoked # None
    PROVE  /\ a.signedAt < key.hardRevoked /\ ReadEntries(log) = "ok"
           /\ \E n \in DOMAIN log : log[n].digest = a.digest /\ log[n].at < key.hardRevoked
  <1>1. AnchorTime(a) # "fails" /\ VerifyWithResolver(a) = "accepted"
    BY Zenon DEF VerifyOutcome
  <1> DEFINE t == IF AnchorTime(a) = "some" THEN EarliestAnchor(a) ELSE None
  <1>2. t # None /\ t < key.hardRevoked
    BY Zenon, <1>1, HardRevokedIsExcused DEF VerifyWithResolver
  <1>3. AnchorTime(a) = "some" /\ t = EarliestAnchor(a)
    BY Zenon, <1>2
  <1>4. a.anchors # <<>>
    BY <1>3 DEF AnchorTime, GoodAnchors
  <1>5. PICK e : a.anchors = <<e>> /\ EntryOf(e, w, a)
    BY Zenon, <1>4 DEF Attested
  <1>6. VerifyExternalAnchor(e, a.digest) = "ok" /\ EarliestAnchor(a) = e.at
    BY Zenon, <1>1, <1>3, <1>5, OneAnchor DEF EntryOf
  <1>7. e.digest = a.digest /\ ReadEntries(log) = "ok" /\ ~(e.seq > Len(log)) /\ log[e.seq] = e
    BY Zenon, <1>6, AnchorIsLogged
  <1>8. e.at < key.hardRevoked
    BY Zenon, <1>2, <1>3, <1>6
  <1>9. e.seq \in DOMAIN log
    BY <1>5, <1>7 DEF AttestationType, EntryOf
  <1>10. a.signedAt < key.hardRevoked
    BY <1>5, <1>8 DEF EntryOf, Attested, AttestationType, SigningKeys
  <1>11. QED
    BY Zenon, <1>7, <1>8, <1>9, <1>10

LEMMA VerifyKeeps ==
    ASSUME AttestationInv, NEW w \in Workers, NEW how, NEW v \in Workers,
           NEW change \in {"none", "outcome", "binding", "type", "anchors"}, Verify(w, how, v, change)
    PROVE  AttestationInv'
  <1> DEFINE a == made[w]
             b == made[v]
             x == Altered(a, b, change)
  <1>1. /\ UNCHANGED <<attestNow, key, kms, pc, held, made, log, pend>>
        /\ Attested(w, a) /\ Attested(v, b) /\ (change = "none" <=> w = v) /\ AttestationType
    BY Zenon DEF Verify, AttestationInv, WorkerInv
  <1>2. PICK r : /\ judged' = <<w, how, change, r, v>>
                 /\ r = "accepted" => VerifyOutcome(w, x, how) = "accepted"
    BY DEF Verify, VerifyReceiptAttestation, VerifyRefusalAttestation
  <1>3. judged'[1] = w /\ judged'[2] = how /\ judged'[3] = change /\ judged'[4] = r /\ judged'[5] = v
    BY Zenon, <1>2
  <1>4. AttestationType'
    BY Zenon, <1>1 DEF AttestationType
  <1>5. ASSUME NEW u \in Workers PROVE WorkerInv(u)'
    BY Zenon, <1>1 DEF AttestationInv, WorkerInv, Attested, EntryOf
  <1>6. r = "accepted" => change \in {"none", "anchors"} /\ (change = "anchors" => b.anchors = <<>>)
    BY ZenonT(30), <1>1, <1>2, AlteredParts
  <1>7. AlteredIsRejected'
    BY <1>1, <1>3, <1>6 DEF AlteredIsRejected
  <1>8. HardRevokedNeedsEarlyAnchor'
    <2>1. SUFFICES ASSUME how # "signer", r = "accepted", key.hardRevoked # None
          PROVE  /\ a.signedAt < key.hardRevoked /\ ReadEntries(log)' = "ok"
                 /\ \E n \in DOMAIN log : log[n].digest = a.digest /\ log[n].at < key.hardRevoked
      BY Zenon, <1>1, <1>3 DEF HardRevokedNeedsEarlyAnchor
    <2>2. ReadEntries(log)' = ReadEntries(log)
      BY <1>1 DEF ReadEntries, HashOf
    <2>3. CASE change = "none"
      <3>1. x = a
        BY Zenon, <2>3 DEF Altered
      <3>2. QED
        BY <1>1, <1>2, <2>1, <2>2, <3>1, HardRevokedParts
    <2>4. CASE change = "anchors"
      <3>1. x.anchors = <<>>
        BY Zenon, <1>1, <1>6, <2>1, <2>4 DEF Altered, Attested
      <3>2. VerifyOutcome(w, x, how) = "accepted"
        BY Zenon, <1>2, <2>1
      <3> HIDE DEF x
      <3>3. AnchorTime(x) = "none"
        BY <3>1 DEF AnchorTime, GoodAnchors
      <3>4. VerifyWithResolver(x) = "accepted"
        BY Zenon, <2>1, <3>2 DEF VerifyOutcome
      <3>5. None # None
        BY Zenon, <2>1, <3>3, <3>4, HardRevokedIsExcused DEF VerifyWithResolver
      <3>6. QED
        BY Zenon, <3>5
    <2>5. QED
      BY Zenon, <1>6, <2>1, <2>3, <2>4
  <1>9. QED
    BY <1>4, <1>5, <1>7, <1>8 DEF AttestationInv, AttestationStands

LEMMA AttestationInitially == AttestationInit => AttestationInv
  <1> SUFFICES ASSUME AttestationInit PROVE AttestationInv
    BY Zenon
  <1>1. key \in SigningKeys
    BY DEF AttestationInit, SigningKeys, States, None
  <1>2. log \in Seq({})
    BY DEF AttestationInit
  <1>3. AttestationType
    BY <1>1, <1>2 DEF AttestationInit, AttestationType
  <1>4. \A w \in Workers : WorkerInv(w)
    BY Zenon DEF AttestationInit, WorkerInv
  <1>5. AttestationStands
    BY Zenon DEF AttestationInit, AttestationStands, HardRevokedNeedsEarlyAnchor, AlteredIsRejected
  <1>6. QED
    BY Zenon, <1>3, <1>4, <1>5 DEF AttestationInv

LEMMA AttestationKept == ASSUME AttestationInv, [AttestationNext]_attestationVars PROVE AttestationInv'
  <1>1. CASE UNCHANGED attestationVars
    <2>1. UNCHANGED <<attestNow, key, pc, made, log, pend, judged>>
      BY Zenon, <1>1 DEF attestationVars
    <2>2. AttestationType'
      BY Zenon, <2>1 DEF AttestationInv, AttestationType
    <2>3. \A w \in Workers : WorkerInv(w)'
      BY ZenonT(30), <2>1 DEF AttestationInv, WorkerInv, Attested, EntryOf
    <2>4. AttestationStands'
      BY ZenonT(30), <2>1 DEF AttestationInv, AttestationStands, HardRevokedNeedsEarlyAnchor, AlteredIsRejected, ReadEntries, HashOf
    <2>5. QED
      BY Zenon, <2>2, <2>3, <2>4 DEF AttestationInv
  <1>2. CASE AttestationNext
    BY <1>2, OutsideKeeps, EnsureKeeps, ReadLogKeeps, AppendKeeps, AttestKeeps, VerifyKeeps DEF AttestationNext
  <1>3. QED
    BY Zenon, <1>1, <1>2

(* For any number of workers, torn lines, moves of the key and of KMS: an  *)
(* outcome accepted against a hard-revoked key was signed and logged       *)
(* before the revocation, and no altered attestation is accepted.          *)
THEOREM AttestationStandsTheorem ==
    AttestationSpec => []AttestationStands
  <1>1. AttestationInit => AttestationInv
    BY Zenon, AttestationInitially
  <1>2. AttestationInv /\ [AttestationNext]_attestationVars => AttestationInv'
    BY Zenon, AttestationKept
  <1>3. AttestationInv => AttestationStands
    BY DEF AttestationInv
  <1>4. QED
    BY <1>1, <1>2, <1>3, PTL DEF AttestationSpec

(***************************************************************************)
(* Trust artifacts.                                                        *)
(***************************************************************************)

IsParty(p) == p = Party \/ p = Attributed

(* What the authority signed: a six-part statement about an instant that   *)
(* has passed, and never that an issuer is in good standing after it was   *)
(* not.                                                                    *)
SignedSound(s) ==
    /\ s.over = <<s.over[1], s.over[2], s.over[3], s.over[4], s.over[5], s.over[6]>>
    /\ IsParty(s.over[2])
    /\ s.over[5] \in Nat /\ s.over[5] <= clock
    /\ s.over[1] = "issuer_status" /\ s.over[4] = "good_standing" /\ standing # "good_standing" => s.over[5] <= since

ArtifactsInv ==
    /\ clock \in Nat /\ since \in Nat
    /\ \A s \in signed : SignedSound(s)
    /\ checked.kind = "none" => checked.verdict = "none"
    /\ TrustedWasSigned

Kinds == {"issuer_status", "approval_artifact", "receipt_countersignature"}

(* A key and signature that hold: the statement is the one signed, and the *)
(* one key of that id is kept for the use.                                 *)
LEMMA SelectKeyOk ==
    ASSUME NEW lang, NEW signer, NEW g, NEW t, NEW use, SelectKey(lang, KeySet, signer, g, t, use) = "ok"
    PROVE  \A n \in DOMAIN KeySet.keys : KeySet.keys[n].kid = g.kid => use \in KeySet.keys[n].uses
  <1> DEFINE M == Matching(KeySet, g.kid)
             c == CHOOSE n \in M : TRUE
  <1>1. M # {} /\ (\A n, m \in M : n = m) /\ Usable(KeySet.keys[c], use)
    BY Zenon DEF SelectKey
  <1>2. ASSUME NEW n \in DOMAIN KeySet.keys, KeySet.keys[n].kid = g.kid PROVE n = c
    BY Zenon, <1>1, <1>2 DEF Matching
  <1>3. QED
    BY Zenon, <1>1, <1>2 DEF Usable

LEMMA KeyAndSignatureOk ==
    ASSUME NEW lang \in {"py", "ts"}, NEW signer, NEW g, NEW t, NEW use \in Kinds, NEW st,
           KeyAndSignature(lang, KeySet, signer, g, t, use, st) = "ok"
    PROVE  /\ g.over = st
           /\ \A n \in DOMAIN KeySet.keys : KeySet.keys[n].kid = g.kid => use \in KeySet.keys[n].uses
  <1>1. SelectKey(lang, KeySet, signer, g, t, use) = "ok"
    BY Zenon DEF KeyAndSignature, Kinds, SelectTrustedKey, SelectCheckpointKey, TsSelectKey
  <1>2. VerifyEd25519(SelectedKey(KeySet, g), g, st) = "ok"
    BY DEF KeyAndSignature, Kinds, CounterVerifyEd25519, TsVerifyEd25519, SelectTrustedKey, SelectCheckpointKey, TsSelectKey
  <1>3. g.over = st
    BY Zenon, <1>2 DEF VerifyEd25519
  <1>4. QED
    BY Zenon, <1>1, <1>3, SelectKeyOk

LEMMA PresentableSound ==
    ASSUME NEW s, IsParty(s.over[2]), NEW a \in Presentable(s)
    PROVE  /\ a.sig = s /\ IsParty(a.party)
           /\ a = [contract |-> a.contract, profile |-> a.profile, party |-> a.party, subject |-> a.subject,
                   meaning |-> a.meaning, at |-> a.at, until |-> a.until, sig |-> a.sig]
  <1> DEFINE o == Of(s)
             Shape(x) == [contract |-> x.contract, profile |-> x.profile, party |-> x.party, subject |-> x.subject,
                          meaning |-> x.meaning, at |-> x.at, until |-> x.until, sig |-> x.sig]
  <1>1. o = Shape(o) /\ o.sig = s /\ o.party = s.over[2]
    BY Zenon DEF Of
  <1> HIDE DEF o
  <1>2. CASE a = o
    BY Zenon, <1>1, <1>2
  <1>3. ASSUME NEW c, a = [o EXCEPT !.contract = c] PROVE a = Shape(a) /\ a.sig = s /\ a.party = s.over[2]
    BY Zenon, <1>1, <1>3
  <1>4. CASE a = [o EXCEPT !.profile = "ACTENON-JCS-STRICT-1"]
    BY Zenon, <1>1, <1>4
  <1>5. ASSUME NEW p \in {Party, Attributed}, a = [o EXCEPT !.party = p] PROVE a = Shape(a) /\ a.sig = s /\ IsParty(a.party)
    BY Zenon, <1>1, <1>5 DEF IsParty
  <1>6. ASSUME NEW x, a = [o EXCEPT !.subject = x] PROVE a = Shape(a) /\ a.sig = s /\ a.party = s.over[2]
    BY Zenon, <1>1, <1>6
  <1>7. ASSUME NEW x, a = [o EXCEPT !.meaning = x] PROVE a = Shape(a) /\ a.sig = s /\ a.party = s.over[2]
    BY Zenon, <1>1, <1>7
  <1>8. ASSUME NEW x, NEW y, a = [o EXCEPT !.at = x, !.until = y] PROVE a = Shape(a) /\ a.sig = s /\ a.party = s.over[2]
    BY Zenon, <1>1, <1>8
  <1>9. \/ a = o \/ a = [o EXCEPT !.profile = "ACTENON-JCS-STRICT-1"]
        \/ \E c : a = [o EXCEPT !.contract = c]
        \/ \E p \in {Party, Attributed} : a = [o EXCEPT !.party = p]
        \/ \E x : a = [o EXCEPT !.subject = x]
        \/ \E x : a = [o EXCEPT !.meaning = x]
        \/ \E x, y : a = [o EXCEPT !.at = x, !.until = y]
    BY Zenon DEF Presentable, o
  <1>10. QED
    BY Zenon, <1>2, <1>3, <1>4, <1>5, <1>6, <1>7, <1>8, <1>9

LEMMA FormKeepsParty ==
    ASSUME NEW lang, NEW p, IsParty(p) PROVE SameParty(PartyForm(lang, p), p)
  BY TrustAssumption DEF PartyForm, SameParty, IsParty

(* Half milliseconds lost by the SDK cost at most one instant.             *)
LEMMA FreshWithin ==
    ASSUME NEW lang, NEW x \in Nat, NEW y \in Nat, StatusFresh(lang, x, y)
    PROVE  y - x <= StatusMaxAge + 1
  <1>1. CASE lang # "ts"
    BY <1>1, TrustAssumption DEF StatusFresh, Instant
  <1>2. CASE lang = "ts"
    <2>1. y \div 2 - x \div 2 <= StatusMaxAge \div 2
      BY Zenon, <1>2 DEF StatusFresh, Instant
    <2>2. \A z \in Nat : z \div 2 \in Int /\ 2 * (z \div 2) <= z /\ z <= 2 * (z \div 2) + 1
      OBVIOUS
    <2>3. /\ x \div 2 \in Int /\ 2 * (x \div 2) <= x
          /\ y \div 2 \in Int /\ y <= 2 * (y \div 2) + 1
          /\ StatusMaxAge \div 2 \in Int /\ 2 * (StatusMaxAge \div 2) <= StatusMaxAge
      BY Zenon, <2>2, TrustAssumption
    <2>4. QED
      BY <2>1, <2>3, TrustAssumption
  <1>3. QED
    BY <1>1, <1>2

(* A verification that says ok presents a signature over the statement it  *)
(* rebuilds.                                                               *)
Rebuilt(lang, kind, a) ==
    /\ a.sig.over = Statement(lang, kind, a)
    /\ \A n \in DOMAIN KeySet.keys : KeySet.keys[n].kid = a.sig.kid => kind \in KeySet.keys[n].uses

LEMMA StatusOk ==
    ASSUME NEW lang \in {"py", "ts"}, NEW p, NEW a, NEW t, VerifyIssuerStatus(lang, p, a, t) = "ok"
    PROVE  Rebuilt(lang, "issuer_status", a) /\ a.meaning = "good_standing" /\ StatusFresh(lang, a.at, t)
  <1>1. /\ StatusChecks(lang, a, t) = "ok" /\ StandingVerdict(a.meaning) = "ok"
        /\ KeyAndSignature(lang, KeySet, a.party, a.sig, a.at, "issuer_status", Statement(lang, "issuer_status", a)) = "ok"
    BY DEF VerifyIssuerStatus
  <1>2. a.meaning = "good_standing" /\ StatusFresh(lang, a.at, t)
    BY <1>1 DEF StatusChecks, StandingVerdict
  <1>3. "issuer_status" \in Kinds
    BY DEF Kinds
  <1>4. QED
    BY <1>1, <1>2, <1>3, KeyAndSignatureOk DEF Rebuilt

LEMMA ApprovalOk ==
    ASSUME NEW lang \in {"py", "ts"}, NEW a, NEW e, VerifyApproval(lang, a, e) = "ok"
    PROVE  Rebuilt(lang, "approval_artifact", a)
  <1>1. KeyAndSignature(lang, KeySet, a.party, a.sig, a.at, "approval_artifact", Statement(lang, "approval_artifact", a)) = "ok"
    BY DEF VerifyApproval
  <1>2. "approval_artifact" \in Kinds
    BY DEF Kinds
  <1>3. QED
    BY <1>1, <1>2, KeyAndSignatureOk DEF Rebuilt

LEMMA CountersignatureOk ==
    ASSUME NEW lang \in {"py", "ts"}, NEW r, NEW a, VerifyCountersignature(lang, r, a) = "ok"
    PROVE  Rebuilt(lang, "receipt_countersignature", a) /\ a.subject = r
  <1>1. /\ a.subject = r
        /\ KeyAndSignature(lang, KeySet, a.party, a.sig, a.at, "receipt_countersignature",
                           Statement(lang, "receipt_countersignature", a)) = "ok"
    BY DEF VerifyCountersignature
  <1>2. "receipt_countersignature" \in Kinds
    BY DEF Kinds
  <1>3. QED
    BY <1>1, <1>2, KeyAndSignatureOk DEF Rebuilt

LEMMA RebuiltParts ==
    ASSUME NEW lang, NEW kind, NEW a, IsParty(a.party), Rebuilt(lang, kind, a)
    PROVE  /\ a.sig.over[1] = kind /\ SameParty(a.sig.over[2], a.party) /\ a.sig.over[3] = a.subject
           /\ a.sig.over[4] = a.meaning /\ a.sig.over[5] = a.at
  BY FormKeepsParty DEF Rebuilt, Statement

(* The three verifications.                                                *)
LEMMA CheckKeeps ==
    ASSUME ArtifactsInv, NEW lang \in {"py", "ts"}, NEW s \in signed, NEW a \in Presentable(s), Check(lang, s, a)
    PROVE  ArtifactsInv'
  <1>1. SignedSound(s) /\ s.over[5] \in Nat /\ clock \in Nat /\ since \in Nat
    BY DEF ArtifactsInv, SignedSound
  <1>2. /\ a.sig = s /\ IsParty(a.party)
        /\ a = [contract |-> a.contract, profile |-> a.profile, party |-> a.party, subject |-> a.subject,
                meaning |-> a.meaning, at |-> a.at, until |-> a.until, sig |-> a.sig]
    BY <1>1, PresentableSound DEF SignedSound
  <1>3. UNCHANGED <<clock, standing, since, signed>>
    BY DEF Check, Verified
  <1>4. clock' \in Nat /\ since' \in Nat /\ \A g \in signed' : SignedSound(g)'
    BY <1>3 DEF ArtifactsInv, SignedSound
  <1>5. CASE \E p \in {"required", "disabled"} :
                Verified("issuer_status", lang,
                         IF lang = "ts" THEN TsVerifyIssuerStatus(p, a, clock) ELSE VerifyIssuerStatus(lang, p, a, clock), a)
    <2>1. PICK p : checked' = [kind |-> "issuer_status", lang |-> lang, verdict |-> VerifyIssuerStatus(lang, p, a, clock), artifact |-> a]
      BY Zenon, <1>5 DEF Verified, TsVerifyIssuerStatus
    <2>2. checked'.kind = "issuer_status" /\ checked'.artifact = a /\ checked'.verdict = VerifyIssuerStatus(lang, p, a, clock)
      BY Zenon, <2>1
    <2>3. VerifiedWasSigned'
      BY Zenon, <2>2 DEF VerifiedWasSigned
    <2>4. CASE checked'.verdict = "ok"
      <3>1. Rebuilt(lang, "issuer_status", a) /\ a.meaning = "good_standing" /\ StatusFresh(lang, a.at, clock)
        BY ZenonT(30), <2>2, <2>4, StatusOk
      <3>2. s.over[1] = "issuer_status" /\ s.over[4] = "good_standing" /\ s.over[5] = a.at
        BY <1>2, <3>1, RebuiltParts
      <3>3. clock - a.at <= StatusMaxAge + 1 /\ StatusMaxAge \in Nat
        BY Zenon, <1>1, <3>1, <3>2, FreshWithin, TrustAssumption
      <3>4. standing # "good_standing" => a.at <= since
        BY Zenon, <1>1, <3>2 DEF SignedSound
      <3>5. standing # "good_standing" => clock <= since + StatusMaxAge + 1
        BY <1>1, <3>2, <3>3, <3>4
      <3>6. StandingIsFresh'
        BY Zenon, <1>3, <2>2, <3>2, <3>3, <3>5 DEF StandingIsFresh
      <3>7. QED
        BY Zenon, <1>4, <2>2, <2>3, <3>6 DEF ArtifactsInv, TrustedWasSigned
    <2>5. CASE checked'.verdict # "ok"
      BY Zenon, <1>4, <2>2, <2>3, <2>5 DEF ArtifactsInv, TrustedWasSigned, StandingIsFresh
    <2>6. QED
      BY <2>4, <2>5
  <1>6. ASSUME NEW kind \in {"approval_artifact", "receipt_countersignature"}, NEW b, NEW subject, NEW verdict,
               checked' = [kind |-> kind, lang |-> lang, verdict |-> verdict, artifact |-> b],
               b.party = a.party, b.at = a.at,
               subject = IF kind = "receipt_countersignature" THEN b.contract ELSE b.subject,
               verdict = "ok" => Rebuilt(lang, kind, a) /\ a.subject = subject
        PROVE  ArtifactsInv'
    <2>1. checked'.kind = kind /\ checked'.artifact = b /\ checked'.verdict = verdict
      BY Zenon, <1>6
    <2>2. StandingIsFresh'
      BY Zenon, <1>6, <2>1 DEF StandingIsFresh
    <2>3. VerifiedWasSigned'
      <3>1. CASE verdict = "ok"
        <4>1. s.over[1] = kind /\ SameParty(s.over[2], a.party) /\ s.over[3] = subject /\ s.over[5] = a.at
          BY <1>2, <1>6, <3>1, RebuiltParts
        <4>2. \A n \in DOMAIN KeySet.keys : KeySet.keys[n].kid = s.kid => kind \in KeySet.keys[n].uses
          BY Zenon, <1>2, <1>6, <3>1 DEF Rebuilt
        <4>3. QED
          BY ZenonT(30), <1>3, <1>6, <2>1, <4>1, <4>2 DEF VerifiedWasSigned
      <3>2. CASE verdict # "ok"
        BY Zenon, <2>1, <3>2 DEF VerifiedWasSigned
      <3>3. QED
        BY Zenon, <3>1, <3>2
    <2>4. QED
      BY Zenon, <1>4, <1>6, <2>1, <2>2, <2>3 DEF ArtifactsInv, TrustedWasSigned
  <1>7. CASE \E e \in Actions \cup {"none"} :
                Verified("approval_artifact", lang, IF lang = "ts" THEN TsVerifyApproval(a, e) ELSE VerifyApproval(lang, a, e), a)
    <2>1. PICK e : checked' = [kind |-> "approval_artifact", lang |-> lang, verdict |-> VerifyApproval(lang, a, e), artifact |-> a]
      BY Zenon, <1>7 DEF Verified, TsVerifyApproval
    <2>2. VerifyApproval(lang, a, e) = "ok" => Rebuilt(lang, "approval_artifact", a)
      BY Zenon, ApprovalOk
    <2>3. QED
      BY Zenon, <1>6, <2>1, <2>2
  <1>8. CASE \E r \in Receipts :
                Verified("receipt_countersignature", lang,
                         IF lang = "ts" THEN TsVerifyCountersignature(r, a) ELSE VerifyCountersignature(lang, r, a),
                         [a EXCEPT !.contract = r])
    <2>1. PICK r : checked' = [kind |-> "receipt_countersignature", lang |-> lang,
                               verdict |-> VerifyCountersignature(lang, r, a), artifact |-> [a EXCEPT !.contract = r]]
      BY <1>8 DEF Verified, TsVerifyCountersignature
    <2>2. VerifyCountersignature(lang, r, a) = "ok" => Rebuilt(lang, "receipt_countersignature", a) /\ a.subject = r
      BY Zenon, CountersignatureOk
    <2>3. /\ [a EXCEPT !.contract = r].party = a.party /\ [a EXCEPT !.contract = r].at = a.at
          /\ [a EXCEPT !.contract = r].contract = r
      BY Zenon, <1>2
    <2>4. QED
      BY ZenonT(30), <1>6, <2>1, <2>2, <2>3
  <1>9. QED
    BY Zenon, <1>5, <1>7, <1>8 DEF Check

(* Before the verification nothing is claimed of it.                       *)
LEMMA WorldKeeps ==
    ASSUME ArtifactsInv, checked.kind = "none", checked' = checked,
           clock' \in Nat, since' \in Nat, \A s \in signed' : SignedSound(s)'
    PROVE  ArtifactsInv'
  BY Zenon DEF ArtifactsInv, TrustedWasSigned, StandingIsFresh, VerifiedWasSigned

(* The authority signs what is true now.                                   *)
LEMMA SignKeeps ==
    ASSUME ArtifactsInv, NEW k, NEW party, IsParty(party), NEW kind, NEW subject, NEW meaning, NEW until,
           Sign(k, party, kind, subject, meaning, until),
           kind = "issuer_status" => meaning = standing
    PROVE  clock' \in Nat /\ since' \in Nat /\ checked' = checked /\ \A s \in signed' : SignedSound(s)'
  <1>1. UNCHANGED <<clock, standing, since, checked>> /\ clock \in Nat /\ since \in Nat
    BY Zenon DEF Sign, ArtifactsInv
  <1> DEFINE y == [by |-> k.material, kid |-> k.kid, algorithm |-> k.algorithm, encoding |-> "base64url",
                   over |-> <<kind, party, subject, meaning, clock, until>>]
  <1> PICK x : x = y
    BY Zenon
  <1>2. signed' = signed \cup {x} /\ x.over = <<kind, party, subject, meaning, clock, until>>
    BY Zenon DEF Sign
  <1>3. SignedSound(x)'
    BY <1>1, <1>2 DEF SignedSound, IsParty
  <1>4. ASSUME NEW s \in signed PROVE SignedSound(s)'
    BY Zenon, <1>1 DEF SignedSound, ArtifactsInv, IsParty
  <1>5. QED
    BY Zenon, <1>1, <1>2, <1>3, <1>4

LEMMA ArtifactsKept == ASSUME ArtifactsInv, [ArtifactsNext]_artifactsVars PROVE ArtifactsInv'
  <1>1. CASE UNCHANGED artifactsVars
    BY <1>1 DEF artifactsVars, ArtifactsInv, SignedSound, TrustedWasSigned, StandingIsFresh, VerifiedWasSigned
  <1>2. ASSUME checked.kind = "none", NEW k, NEW p \in {Party, Attributed}, SignStatus(k, p) PROVE ArtifactsInv'
    BY Zenon, <1>2, SignKeeps, WorldKeeps DEF SignStatus, IsParty
  <1>3. ASSUME checked.kind = "none", NEW k, NEW h, SignApproval(k, h) PROVE ArtifactsInv'
    BY Zenon, <1>3, SignKeeps, WorldKeeps DEF SignApproval, IsParty
  <1>4. ASSUME checked.kind = "none", NEW k, NEW r, Countersign(k, r) PROVE ArtifactsInv'
    BY Zenon, <1>4, SignKeeps, WorldKeeps DEF Countersign, IsParty
  <1>5. CASE checked.kind = "none" /\ AuthorityTick
    <2>1. clock' \in Nat /\ since' \in Nat /\ checked' = checked /\ \A s \in signed' : SignedSound(s)'
      BY <1>5 DEF AuthorityTick, ArtifactsInv, SignedSound, IsParty
    <2>2. QED
      BY Zenon, <1>5, <2>1, WorldKeeps
  <1>6. ASSUME checked.kind = "none", NEW s, LoseStanding(s) PROVE ArtifactsInv'
    <2>1. /\ clock' = clock /\ since' = clock /\ checked' = checked /\ signed' = signed
          /\ standing = "good_standing" /\ clock \in Nat
      BY Zenon, <1>6 DEF LoseStanding, ArtifactsInv
    <2>2. ASSUME NEW g \in signed PROVE SignedSound(g)'
      BY Zenon, <2>1 DEF SignedSound, ArtifactsInv, IsParty
    <2>3. QED
      BY Zenon, <1>6, <2>1, <2>2, WorldKeeps
  <1>7. QED
    BY Zenon, <1>1, <1>2, <1>3, <1>4, <1>5, <1>6, CheckKeeps DEF ArtifactsNext

(* For any key set, parties, actions, receipts and ages, and any number of *)
(* signatures: what verifies was signed, for that use, and a status not    *)
(* longer ago than the freshness window.                                   *)
THEOREM TrustedWasSignedTheorem ==
    ArtifactsSpec => []TrustedWasSigned
  <1>1. ArtifactsInit => ArtifactsInv
    BY DEF ArtifactsInit, ArtifactsInv, Nothing, TrustedWasSigned, StandingIsFresh, VerifiedWasSigned
  <1>2. ArtifactsInv /\ [ArtifactsNext]_artifactsVars => ArtifactsInv'
    BY Zenon, ArtifactsKept
  <1>3. ArtifactsInv => TrustedWasSigned
    BY DEF ArtifactsInv
  <1>4. QED
    BY <1>1, <1>2, <1>3, PTL DEF ArtifactsSpec
==============================================================================
