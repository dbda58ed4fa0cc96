-------------------------- MODULE MCStoresAndTrust --------------------------
(***************************************************************************)
(* The replay store, and what a third party trusts: discovered keys,       *)
(* attested outcomes with their anchors, trust artifacts and the           *)
(* transparency log. No two of them share state.                           *)
(***************************************************************************)
EXTENDS MCReplayStore, KeyDiscovery, OutcomeAttestation, TrustArtifacts

CONSTANTS v1, v2     \* verifier threads

VARIABLES live,   \* the component this behaviour is about
          tlFollowed, tlLast

tlVars == <<tlFollowed, tlLast>>

(***************************************************************************)
(* Two threads share a resolver; each verifies an artifact signed with the *)
(* first key or with the one that a rotation brings. A document, and the   *)
(* answer that carries it, names an age of one.                            *)
(***************************************************************************)

DiscoveryOrigin == [scheme |-> "https", host |-> "public", userinfo |-> FALSE, rest |-> FALSE]

DiscoveredArtifacts ==
    {[kid |-> k, algorithm |-> "EdDSA", issuer |-> "issuer", issuedAt |-> 0,
      use |-> "proof_issuance", signedBy |-> k, intact |-> TRUE] : k \in {"k1", "k2"}}

(***************************************************************************)
(* Two writers share the anchor log, one with a receipt and one with a     *)
(* refusal. The key is moved once, by its issuer or at AWS.                *)
(***************************************************************************)

AttestedType == "w1" :> "receipt" @@ "w2" :> "refusal"

(***************************************************************************)
(* The authority has a key for all three kinds of artifact, one for        *)
(* another use that is revoked at instant 2, and one that is suspended.    *)
(***************************************************************************)

Authority == [type |-> "service", id |-> "authority", attributes |-> FALSE]

AuthorityKey(kid, uses, status, expires, revoked) ==
    [kid |-> kid, algorithm |-> "EdDSA", uses |-> uses, status |-> status, notBefore |-> 1,
     expires |-> expires, revoked |-> revoked, jwk |-> TRUE, material |-> kid]

AuthorityKeySet ==
    [contract |-> TRUE, issuer |-> Authority,
     keys |-> <<AuthorityKey("k1", {"issuer_status", "approval_artifact", "receipt_countersignature"},
                             "active", 5, Never),
                AuthorityKey("k2", {"audit"}, "active", Never, 2),
                AuthorityKey("k3", {"issuer_status"}, "suspended", Never, Never)>>]

ArtifactsAttributed == [Authority EXCEPT !.attributes = TRUE]

(***************************************************************************)
(* A log with two views that part at the fourth leaf; the second view's    *)
(* fourth leaf repeats its first.                                          *)
(***************************************************************************)

LogParty == [type |-> "service", id |-> "log", attributes |-> FALSE]

LogKeySet ==
    [contract |-> TRUE, issuer |-> LogParty,
     keys |-> <<[AuthorityKey("k1", {"transparency_checkpoint"}, "active", Never,
                              Never) EXCEPT !.notBefore = 0]>>]

LogViews == [main |-> <<"a", "b", "c", "d", "e", "f", "g">>,
             fork |-> <<"a", "b", "c", "a", "e", "f", "g">>]

TransparencySizes == 0 .. 6

Transparency == INSTANCE TransparencyLog WITH
    Log <- LogParty, KeySet <- LogKeySet, SigningKey <- "k1", Views <- LogViews,
    Sizes <- TransparencySizes, MaxUpdates <- 2, followed <- tlFollowed,
    last <- tlLast

(***************************************************************************)
(* The components side by side: a behaviour picks one and runs it alone,   *)
(* the others rest in an initial state.                                    *)
(***************************************************************************)

tlOff == tlFollowed = 0 /\ tlLast = 0

SumInit == /\ live \in {"replay", "resolver", "attestation", "artifacts", "log"}
           /\ Init /\ DiscoveryInit /\ AttestationInit /\ ArtifactsInit
           /\ live # "resolver" => what = [t \in Verifiers |-> CHOOSE a \in Artifacts : TRUE]
           /\ IF live = "log" THEN Transparency!Init ELSE tlOff

sumVars == <<live, vars, discoveryVars, attestationVars, artifactsVars, tlVars>>

SumNext == \/ /\ live = "replay" /\ Next
              /\ UNCHANGED <<live, discoveryVars, attestationVars, artifactsVars, tlVars>>
           \/ /\ live = "resolver" /\ DiscoveryNext
              /\ UNCHANGED <<live, vars, attestationVars, artifactsVars, tlVars>>
           \/ /\ live = "attestation" /\ AttestationNext
              /\ UNCHANGED <<live, vars, discoveryVars, artifactsVars, tlVars>>
           \/ /\ live = "artifacts" /\ ArtifactsNext
              /\ UNCHANGED <<live, vars, discoveryVars, attestationVars, tlVars>>
           \/ /\ live = "log" /\ Transparency!Next
              /\ UNCHANGED <<live, vars, discoveryVars, attestationVars, artifactsVars>>

SumSpec == SumInit /\ [][SumNext]_sumVars

(* A monitor follows every extension of the tree it has accepted and       *)
(* nothing else, whatever views and proofs the log shows; and a            *)
(* countersignature is found included only when its digest is at the leaf  *)
(* its anchor names (verify_monitor_update and                             *)
(* verify_countersignature_inclusion).                                     *)
MonitorFollowsOneLog ==
    live = "log" =>
        /\ Transparency!MonitorNeverForked /\ Transparency!HonestLogIsFollowed
        /\ Transparency!AuditedLeafIsThere
=============================================================================
