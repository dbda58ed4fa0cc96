--------------------------- MODULE TransparencyLog ---------------------------
(***************************************************************************)
(* The transparency verifiers (verifier/transparency.py, transparency.ts): *)
(* checkpoint signatures, inclusion and consistency proofs, and a monitor  *)
(* that follows a log.  The log may show two views that diverge; it holds  *)
(* the checkpoint key and builds whatever proof it likes.                  *)
(*                                                                         *)
(* Hashes are symbolic: <<"leaf", d>> and <<"node", l, r>>.                *)
(***************************************************************************)
EXTENDS TrustKeys, SequencesExt

CONSTANTS Log, KeySet, SigningKey,   \* the log's identity, its pinned key set, the key it signs with
          Views,                     \* function from view names to leaf sequences
          Sizes,                     \* tree sizes a checkpoint may have
          MaxUpdates

VARIABLES followed,   \* what the monitor accepted: a sequence of [view, size]
          last        \* the last countersignature audit

vars == <<followed, last>>

(***************************************************************************)
(* RFC 6962 reference definitions.                                         *)
(***************************************************************************)

Leaf(d) == <<"leaf", d>>
Node(l, r) == <<"node", l, r>>

(* The largest power of two below n.                                       *)
Split(n) == CHOOSE k \in {2 ^ e : e \in 0..n} : k < n /\ 2 * k >= n

RECURSIVE Root(_)
Root(D) == IF D = <<>> THEN <<"empty">>
           ELSE IF Len(D) = 1 THEN Leaf(D[1])
           ELSE LET k == Split(Len(D)) IN Node(Root(SubSeq(D, 1, k)), Root(SubSeq(D, k + 1, Len(D))))

RECURSIVE Path(_, _)
Path(m, D) == IF Len(D) = 1 THEN <<>>
              ELSE LET k == Split(Len(D))
                   IN  IF m < k THEN Append(Path(m, SubSeq(D, 1, k)), Root(SubSeq(D, k + 1, Len(D))))
                       ELSE Append(Path(m - k, SubSeq(D, k + 1, Len(D))), Root(SubSeq(D, 1, k)))

RECURSIVE SubProof(_, _, _)
SubProof(m, D, whole) ==
    IF m = Len(D) THEN IF whole THEN <<>> ELSE <<Root(D)>>
    ELSE LET k == Split(Len(D))
         IN  IF m <= k THEN Append(SubProof(m, SubSeq(D, 1, k), whole), Root(SubSeq(D, k + 1, Len(D))))
             ELSE Append(SubProof(m - k, SubSeq(D, k + 1, Len(D)), FALSE), Root(SubSeq(D, 1, k)))

(***************************************************************************)
(* The verifiers.                                                          *)
(***************************************************************************)

Odd(n) == n % 2 = 1
Halve(p) == <<p[1] \div 2, p[2] \div 2>>

(* The inner `while fn and not (fn & 1)` loop on <<fn, sn>>.               *)
RECURSIVE SkipLevels(_)
SkipLevels(p) == IF p[1] = 0 \/ Odd(p[1]) THEN p ELSE SkipLevels(Halve(p))

(* Mutation of FromLeft: a last node without sibling is hashed as a left.  *)
FromLeftOdd(fn, sn) == Odd(fn)

FromLeft(fn, sn) == Odd(fn) \/ fn = sn

(* The loop of verify_inclusion over the audit path.                       *)
RECURSIVE Climb(_, _, _)
Climb(node, p, path) ==
    IF path = <<>> THEN [node |-> node, sn |-> p[2]]
    ELSE IF FromLeft(p[1], p[2])
         THEN Climb(Node(Head(path), node), Halve(SkipLevels(p)), Tail(path))
         ELSE Climb(Node(node, Head(path)), Halve(p), Tail(path))

InclusionHolds(digest, index, size, path, root) ==
    LET r == Climb(Leaf(digest), <<index, size - 1>>, path) IN r.sn = 0 /\ r.node = root

(* The loop of verify_consistency; a path longer than the tree is refused. *)
RECURSIVE ClimbBoth(_, _, _, _)
ClimbBoth(first, second, p, path) ==
    IF path = <<>> THEN [first |-> first, second |-> second, done |-> p[2] = 0]
    ELSE IF p[2] = 0 THEN [first |-> first, second |-> second, done |-> FALSE]
    ELSE IF FromLeft(p[1], p[2])
         THEN ClimbBoth(Node(Head(path), first), Node(Head(path), second), Halve(SkipLevels(p)), Tail(path))
         ELSE ClimbBoth(first, Node(second, Head(path)), Halve(p), Tail(path))

RECURSIVE SkipComplete(_)
SkipComplete(p) == IF Odd(p[1]) THEN SkipComplete(Halve(p)) ELSE p

GrowsFrom(old, new, path) ==
    LET start == SkipComplete(<<old.size - 1, new.size - 1>>)
        r     == IF start[1] = 0 THEN ClimbBoth(old.root, old.root, start, path)
                 ELSE ClimbBoth(Head(path), Head(path), start, Tail(path))
    IN  /\ start[1] # 0 => path # <<>>
        /\ r.done /\ r.first = old.root /\ r.second = new.root

(* Mutation of VerifyConsistency: equal sizes need no comparison.          *)
VerifyConsistencySameSize(old, new, path) ==
    IF ~SameParty(old.log, new.log) THEN "LOG_IDENTITY_MISMATCH"
    ELSE IF new.size < old.size THEN "REWIND_DETECTED"
    ELSE IF old.size \in {0, new.size} THEN "ok"
    ELSE IF GrowsFrom(old, new, path) THEN "ok" ELSE "CONSISTENCY_PROOF_INVALID"

VerifyConsistency(old, new, path) ==
    IF ~SameParty(old.log, new.log) THEN "LOG_IDENTITY_MISMATCH"
    ELSE IF new.size < old.size THEN "REWIND_DETECTED"
    ELSE IF old.size = 0 THEN IF path = <<>> THEN "ok" ELSE "CONSISTENCY_PROOF_INVALID"
    ELSE IF old.size = new.size THEN IF path = <<>> /\ old.root = new.root THEN "ok" ELSE "EQUIVOCATION_DETECTED"
    ELSE IF GrowsFrom(old, new, path) THEN "ok" ELSE "CONSISTENCY_PROOF_INVALID"

(* transparency.ts repeats the Python checks in the same order.            *)
TsVerifyConsistency(old, new, path) == VerifyConsistency(old, new, path)

(* log.to_dict() in Python, the checkpoint's own log object in the SDK:    *)
(* both keep the attributes.                                               *)
CheckpointStatement(c) == <<"checkpoint", PartyForm("py", c.log), c.size, c.root, c.at>>

(* The algorithm is refused before a key is looked up.                     *)
VerifyCheckpointSignature(lang, c) ==
    IF ~ContractOk(lang, c.contract) THEN "INVALID_CHECKPOINT"
    ELSE IF c.sig.algorithm # "EdDSA" \/ c.sig.encoding # "base64url" THEN "UNSUPPORTED_ALGORITHM"
    ELSE KeyAndSignature(lang, KeySet, c.log, c.sig, c.at, "transparency_checkpoint", CheckpointStatement(c))

TsVerifyCheckpointSignature(c) == VerifyCheckpointSignature("ts", c)

(* The tail of verify_inclusion, after the digests were compared.          *)
InclusionOutcome(digest, proof, c) ==
    IF proof.size = 0 \/ proof.index >= proof.size THEN "INVALID_INCLUSION_PROOF"
    ELSE IF proof.log # c.log.id \/ proof.size # c.size THEN "CHECKPOINT_MISMATCH"
    ELSE IF InclusionHolds(digest.value, proof.index, proof.size, proof.path, c.root) THEN "ok"
    ELSE "INCLUSION_PROOF_INVALID"

VerifyInclusion(digest, proof, c) ==
    IF ~DigestOk("py", digest) \/ ~DigestOk("py", proof.digest) THEN "INVALID_LEAF_DIGEST"
    ELSE IF digest # proof.digest THEN "LEAF_DIGEST_MISMATCH"
    ELSE InclusionOutcome(digest, proof, c)

(* The SDK compares the digests' values only.                              *)
TsVerifyInclusion(digest, proof, c) ==
    IF ~DigestOk("ts", digest) \/ ~DigestOk("ts", proof.digest) THEN "INVALID_LEAF_DIGEST"
    ELSE IF digest.value # proof.digest.value THEN "LEAF_DIGEST_MISMATCH"
    ELSE InclusionOutcome(digest, proof, c)

(* verify_countersignature_inclusion, given the verdicts on the checkpoint *)
(* and on the inclusion.                                                   *)
AnchoredOutcome(cs, proof, checkpoint, inclusion) ==
    IF cs.anchor.type # "transparency_log" THEN "ORPHAN_COUNTERSIGNATURE"
    ELSE IF checkpoint # "ok" THEN checkpoint
    ELSE IF inclusion = "LEAF_DIGEST_MISMATCH" THEN "ORPHAN_COUNTERSIGNATURE"
    ELSE IF inclusion # "ok" THEN inclusion
    ELSE IF cs.anchor.log # proof.log \/ cs.anchor.index # proof.index THEN "ORPHAN_COUNTERSIGNATURE"
    ELSE "ok"

(* Mutation of VerifyCountersignatureInclusion: the anchor's leaf is not   *)
(* compared with the leaf that was proved.                                 *)
VerifyCountersignatureInclusionAnyLeaf(cs, proof, c) ==
    LET here == [cs EXCEPT !.anchor.index = proof.index]
    IN  AnchoredOutcome(here, proof, VerifyCheckpointSignature("py", c), VerifyInclusion(cs.digest, proof, c))

VerifyCountersignatureInclusion(cs, proof, c) ==
    IF ~DigestOk("py", cs.digest) THEN "INVALID_LEAF_DIGEST"
    ELSE AnchoredOutcome(cs, proof, VerifyCheckpointSignature("py", c), VerifyInclusion(cs.digest, proof, c))

TsVerifyCountersignatureInclusion(cs, proof, c) ==
    IF ~DigestOk("ts", cs.digest) THEN "INVALID_LEAF_DIGEST"
    ELSE AnchoredOutcome(cs, proof, TsVerifyCheckpointSignature(c), TsVerifyInclusion(cs.digest, proof, c))

FirstFailure(a, b, c) == IF a # "ok" THEN a ELSE IF b # "ok" THEN b ELSE c

VerifyMonitorUpdate(old, new, path) ==
    FirstFailure(VerifyCheckpointSignature("py", old), VerifyCheckpointSignature("py", new),
                 VerifyConsistency(old, new, path))

TsVerifyMonitorUpdate(old, new, path) ==
    FirstFailure(TsVerifyCheckpointSignature(old), TsVerifyCheckpointSignature(new),
                 TsVerifyConsistency(old, new, path))

(***************************************************************************)
(* The log, the monitor and the auditor.                                   *)
(***************************************************************************)

Tree(p) == SubSeq(Views[p.view], 1, p.size)
Places == [view : DOMAIN Views, size : Sizes]

Checkpoint(p) ==
    LET c == [contract |-> "v1", log |-> Log, size |-> p.size, root |-> Root(Tree(p)), at |-> 1]
    IN  c @@ [sig |-> [by |-> SigningKey, kid |-> SigningKey, algorithm |-> "EdDSA", encoding |-> "base64url",
                       over |-> CheckpointStatement(c)]]

(* A path the log may send: the right one for some pair of trees, also     *)
(* shortened by one hash or lengthened by one.                             *)
Proofs(old, new) ==
    LET right == UNION {{SubProof(m, Tree(q), TRUE) : m \in 1..old.size} : q \in {x \in Places : x.size = new.size}}
    IN  right \cup {<<>>} \cup {Front(p) : p \in right \ {<<>>}} \cup {Append(p, Leaf("x")) : p \in right}

Init == followed \in {<<p>> : p \in Places} /\ last = <<>>

(* The monitor takes a new checkpoint with either verifier.                *)
Follow(new) ==
    LET old == Last(followed)
    IN  /\ Len(followed) <= MaxUpdates /\ last = <<>>
        /\ \E path \in IF old.size = 0 \/ new.size < old.size THEN {<<>>} ELSE Proofs(old, new) :
              "ok" \in {VerifyMonitorUpdate(Checkpoint(old), Checkpoint(new), path),
                        TsVerifyMonitorUpdate(Checkpoint(old), Checkpoint(new), path)}
        /\ followed' = Append(followed, new) /\ last' = last

(* An auditor checks a countersignature of the digest at leaf n of p,      *)
(* anchored there, against a proof for leaf m of q.                        *)
Audit(p, q, n, m) ==
    LET digest == [wellFormed |-> TRUE, profile |-> "RFC8785-JCS", value |-> Views[p.view][n + 1]]
        cs     == [digest |-> digest, anchor |-> [type |-> "transparency_log", log |-> Log.id, index |-> n]]
        proof  == [digest |-> digest, log |-> Log.id, size |-> q.size, index |-> m, path |-> Path(m, Tree(q))]
    IN  /\ last = <<>> /\ Len(followed) = 1
        /\ last' = <<p, q, n, VerifyCountersignatureInclusion(cs, proof, Checkpoint(q)),
                              TsVerifyCountersignatureInclusion(cs, proof, Checkpoint(q))>>
        /\ followed' = followed

Next == \E q \in Places :
            \/ Follow(q)
            \/ q.size > 0 /\ \E p \in Places, m \in 0..(q.size - 1) : \E n \in 0..(p.size - 1) : Audit(p, q, n, m)

Spec == Init /\ [][Next]_vars

(***************************************************************************)
(* Properties.                                                             *)
(***************************************************************************)

(* A monitor that starts from a non-empty tree only ever follows           *)
(* extensions of it, whatever proofs and views the log shows.              *)
MonitorNeverForked ==
    \A i, j \in DOMAIN followed : i < j /\ followed[i].size > 0 =>
        IsPrefix(Tree(followed[i]), Tree(followed[j]))

(* And it can follow every extension: an honest proof is never refused.    *)
HonestLogIsFollowed ==
    \A new \in Places :
        LET old  == Last(followed)
            path == SubProof(old.size, Tree(new), TRUE)
        IN  old.size \in 1..(new.size - 1) /\ IsPrefix(Tree(old), Tree(new)) =>
                /\ VerifyMonitorUpdate(Checkpoint(old), Checkpoint(new), path) = "ok"
                /\ TsVerifyMonitorUpdate(Checkpoint(old), Checkpoint(new), path) = "ok"

(* A countersignature passes verify_countersignature_inclusion only when   *)
(* its digest is at the leaf its anchor names in the tree the checkpoint   *)
(* commits to, and both verifiers agree.                                   *)
AuditedLeafIsThere ==
    last # <<>> =>
        LET p == last[1]
            q == last[2]
            n == last[3]
        IN  /\ last[4] = "ok" => n < q.size /\ Tree(q)[n + 1] = Views[p.view][n + 1]
            /\ last[5] = last[4]
=============================================================================
