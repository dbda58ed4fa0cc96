----------------------------- MODULE KeyDiscovery -----------------------------
(***************************************************************************)
(* WellKnownKeyResolver (well_known.py) shared by verifier threads: a      *)
(* cached discovery document, refetched when it is too old or lacks the    *)
(* key.  The issuer rotates and revokes keys and republishes.              *)
(***************************************************************************)
EXTENDS KeyLifecycle

CONSTANTS Verifiers, Artifacts,    \* Artifacts: records of what a thread may be asked to verify
          Origin, DefaultMaxAge, Ages, DiscoveryMaxTime, MaxPublished

(* The ages a document or a Cache-Control header may name have a longest.  *)
ASSUME AgesAssumption ==
    /\ Ages \cup {DefaultMaxAge} \subseteq Int
    /\ \E a \in Ages \cup {DefaultMaxAge} : \A b \in Ages \cup {DefaultMaxAge} : b <= a

VARIABLES resolverNow,
          published,   \* history of served documents, each with the time it appeared
          cache,       \* <<>> or <<[version, expires]>>
          at,          \* per thread: where its call stands
          got,         \* per thread: version fetched, or 0
          began,       \* per thread: `now` as read by _get_document
          seen,        \* per thread: the version served when its call began
          what,        \* per thread: the artifact being verified
          answer       \* per thread: the call's result

discoveryVars == <<resolverNow, published, cache, at, got, began, seen, what, answer>>

Current == Len(published)

Fresh(k) == [kid |-> k, algorithm |-> "EdDSA", uses |-> {"proof_issuance"}, status |-> "active",
             notBefore |-> None, expires |-> None, revoked |-> None, hardRevoked |-> None]

(* build_key_discovery_document.                                           *)
Document(keys, age) ==
    [contract |-> TRUE, issuer |-> "issuer", origin |-> Origin, maxAge |-> age, keys |-> keys, at |-> resolverNow]

DiscoveryInit == /\ resolverNow = 0
                 /\ \E age \in Ages : published = <<Document(<<Fresh("k1")>>, age)>>
                 /\ cache = <<>>
                 /\ at = [t \in Verifiers |-> "idle"] /\ got = [t \in Verifiers |-> 0]
                 /\ began = [t \in Verifiers |-> 0] /\ seen = [t \in Verifiers |-> 0]
                 /\ what \in [Verifiers -> Artifacts]
                 /\ answer = [t \in Verifiers |-> "none"]

(***************************************************************************)
(* The issuer republishes after a rotation or a lifecycle transition.      *)
(***************************************************************************)

Moved(key, to) == [key EXCEPT !.status = to,
                              !.revoked = IF to = "revoked" THEN resolverNow ELSE @,
                              !.hardRevoked = IF to = "hard_revoked" THEN resolverNow ELSE @]

Rotate(age) ==
    LET keys == published[Current].keys
    IN  /\ Current < MaxPublished /\ Len(keys) = 1 /\ CanTransition(keys[1].status, "retired")
        /\ published' = Append(published, Document(<<Moved(keys[1], "retired"), Fresh("k2")>>, age))
        /\ UNCHANGED <<resolverNow, cache, at, got, began, seen, what, answer>>

Transition(n, to, age) ==
    LET keys == published[Current].keys
    IN  /\ Current < MaxPublished /\ n \in DOMAIN keys /\ CanTransition(keys[n].status, to)
        /\ published' = Append(published, Document([keys EXCEPT ![n] = Moved(@, to)], age))
        /\ UNCHANGED <<resolverNow, cache, at, got, began, seen, what, answer>>

DiscoveryTick == resolverNow < DiscoveryMaxTime /\ resolverNow' = resolverNow + 1 /\ UNCHANGED <<published, cache, at, got, began, seen, what, answer>>

(***************************************************************************)
(* A call of verify_with_metadata on a thread: resolve_key reads the cache *)
(* or fetches, selects, and refetches once when the key is missing.        *)
(***************************************************************************)

Settle(t, verdict) ==
    /\ at' = [at EXCEPT ![t] = "done"]
    /\ answer' = [answer EXCEPT ![t] = IF verdict = "ok" /\ ~SignatureHolds(what[t]) THEN "BadSignature" ELSE verdict]

(* The document read is judged; `first` says whether a refetch is left.    *)
Judge(t, version, first, cached) ==
    LET verdict == SelectDiscovered(published[version], what[t], None)
    IN  /\ IF verdict = "NotFound" /\ first /\ cached THEN at' = [at EXCEPT ![t] = "refresh"] /\ answer' = answer
           ELSE Settle(t, verdict)
        /\ got' = [got EXCEPT ![t] = version]

(* Mutation of CacheFresh: the expiry instant itself still counts.         *)
CacheFreshToTheEnd(c) == c # <<>> /\ resolverNow <= c[1].expires

CacheFresh(c) == c # <<>> /\ resolverNow < c[1].expires

Call(t) ==
    /\ at[t] = "idle"
    /\ IF CacheFresh(cache)
       THEN Judge(t, cache[1].version, TRUE, TRUE) /\ UNCHANGED began
       ELSE at' = [at EXCEPT ![t] = "fetch"] /\ began' = [began EXCEPT ![t] = resolverNow] /\ UNCHANGED <<got, answer>>
    /\ seen' = [seen EXCEPT ![t] = Current]
    /\ UNCHANGED <<resolverNow, published, cache, what>>

(* Mutation of Refresh: the missing key is reported at once.               *)
RefreshNever(t) ==
    /\ at[t] = "refresh"
    /\ Settle(t, "NotFound")
    /\ UNCHANGED <<resolverNow, published, cache, got, began, seen, what>>

(* _get_document(bypass_cache=True): the instant is read again.            *)
Refresh(t) ==
    /\ at[t] = "refresh"
    /\ at' = [at EXCEPT ![t] = "refetch"] /\ began' = [began EXCEPT ![t] = resolverNow]
    /\ UNCHANGED <<resolverNow, published, cache, got, seen, what, answer>>

(* The server's answer, or a fetch that raises.                            *)
Fetch(t) ==
    /\ at[t] \in {"fetch", "refetch"} /\ FetchUrlOk(Origin, TRUE)
    /\ \/ /\ got' = [got EXCEPT ![t] = Current]
          /\ at' = [at EXCEPT ![t] = IF @ = "fetch" THEN "store" ELSE "restore"] /\ answer' = answer
       \/ Settle(t, "FetchError") /\ got' = got
    /\ UNCHANGED <<resolverNow, published, cache, began, seen, what>>

(* The fetched document is parsed, cached and judged.                      *)
Store(t, header) ==
    LET doc == published[got[t]]
    IN  /\ at[t] \in {"store", "restore"}
        /\ IF ParsesDocument(doc, Origin)
           THEN /\ cache' = <<[version |-> got[t], expires |-> began[t] + MaxAge(header, doc.maxAge, DefaultMaxAge)]>>
                /\ Judge(t, got[t], at[t] = "store", TRUE)
           ELSE Settle(t, "Format") /\ UNCHANGED <<cache, got>>
        /\ UNCHANGED <<resolverNow, published, began, seen, what>>

DiscoveryNext == \/ DiscoveryTick
                 \/ \E age \in Ages : Rotate(age) \/ \E n \in 1..2, s \in States : Transition(n, s, age)
                 \/ \E t \in Verifiers : Call(t) \/ Refresh(t) \/ Fetch(t) \/ \E header \in Ages : Store(t, header)

DiscoverySpec == DiscoveryInit /\ [][DiscoveryNext]_discoveryVars

(***************************************************************************)
(* Properties.                                                             *)
(***************************************************************************)

(* A version was superseded when the next one appeared.                    *)
Superseded(v) == published[v + 1].at

LongestAge == CHOOSE a \in Ages \cup {DefaultMaxAge} : \A b \in Ages \cup {DefaultMaxAge} : b <= a

(* A thread never accepts on a document that had been replaced for as long *)
(* as the longest age the issuer or its server allows, whatever threads    *)
(* overwrite the cache in between (WellKnownKeyResolver._get_document).    *)
AcceptsInTime ==
    \A t \in Verifiers : at[t] = "idle" /\ at'[t] = "done" /\ answer'[t] = "ok" /\ got'[t] < Current =>
        resolverNow < Superseded(got'[t]) + LongestAge

(* In the form of a property: every step of the resolver accepts in time   *)
(* (WellKnownKeyResolver._get_document).                                   *)
StalenessBounded == [][AcceptsInTime]_discoveryVars

(* A key is reported missing only on a document at least as new as the one *)
(* served when the call began: a stale cache never hides a rotated key     *)
(* (the refetch of resolve_key).                                           *)
MissingIsMissing == \A t \in Verifiers : answer[t] = "NotFound" => got[t] >= seen[t]
=============================================================================
