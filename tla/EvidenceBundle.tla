--------------------------- MODULE EvidenceBundle ---------------------------
(***************************************************************************)
(* The portable bundle of the local runtime: what its manifest says of the *)
(* files below the runtime root, and how a bundle is verified against it.  *)
(*                                                                         *)
(* Disk: a function from paths <<root, directory, file>> to artifacts.  An *)
(* artifact keeps the fields that link it to others (None where a file has *)
(* no such field), whether a proof's action hash is its own intent's, and  *)
(* the version of a database; `by`, who wrote it, is there for the         *)
(* properties alone.  Ids and directories are sequences of segments.  A    *)
(* digest is the artifact itself.                                          *)
(***************************************************************************)
EXTENDS Integers, Sequences, FiniteSets, Functions

None == <<>>

Artifact(by, intent, pccb, refusal, outcome) ==
    [by |-> by, intent |-> intent, pccb |-> pccb, refusal |-> refusal,
     outcome |-> outcome, hash |-> "own", v |-> 0]

Database(v) == [Artifact(None, None, None, None, "none") EXCEPT !.v = v]

Put(disk, path, artifact) ==
    [p \in DOMAIN disk \cup {path} |-> IF p = path THEN artifact ELSE disk[p]]

(* _ensure_removed of a directory.                                         *)
EnsureRemoved(disk, dirs) == Restrict(disk, {p \in DOMAIN disk : <<p[1], p[2]>> \notin dirs})

Manifest == <<"root", None, "runtime_manifest">>

(***************************************************************************)
(* Export.                                                                 *)
(***************************************************************************)
(* _is_ephemeral_sqlite_file: the log of a database is archived, unhashed. *)
Ephemeral(path) == path[3] = "sqlite3-wal"

BundleEntries == {"root", "labs", "requests", "outcomes", "state", "simulations"}

FileEntries(disk) == {p \in DOMAIN disk : p[1] \in BundleEntries /\ ~Ephemeral(p)}

FileHashes(disk) == Restrict(disk, FileEntries(disk))

CandidateDirs(disk) ==
    {<<p[1], p[2]>> : p \in {q \in DOMAIN disk : q[1] \in {"labs", "requests", "simulations"}
                                                  /\ q[3] = "action_intent"}}

In(dir, file) == <<dir[1], dir[2], file>>

(* A refusal tells a chain's outcome before an execution receipt does, and *)
(* a receipt does only if it says that the action was executed.            *)
OutcomeOf(disk, dir) ==
    IF In(dir, "refusal") \in DOMAIN disk THEN "refusal"
    ELSE IF In(dir, "execution_receipt") \in DOMAIN disk THEN "execution_receipt"
    ELSE IF In(dir, "receipt") \in DOMAIN disk /\ disk[In(dir, "receipt")].outcome = "executed" THEN "receipt"
    ELSE "none"

SupportingReceipt(disk, dir) ==
    IF OutcomeOf(disk, dir) # "refusal" THEN "none"
    ELSE IF In(dir, "receipt") \in DOMAIN disk THEN "receipt"
    ELSE IF In(dir, "decision_receipt") \in DOMAIN disk THEN "decision_receipt"
    ELSE "none"

(* The parts of a chain, each a path and the digest of what is there.      *)
Part(disk, dir, file) == [path |-> In(dir, file), digest |-> disk[In(dir, file)]]

Parts(disk, dir, files) == {Part(disk, dir, f) : f \in files}

EvidenceChains(disk) ==
    {[intent |-> Part(disk, d, "action_intent"), pccb |-> Part(disk, d, "pccb"),
      type |-> IF OutcomeOf(disk, d) = "refusal" THEN "refusal" ELSE "receipt",
      outcome |-> Part(disk, d, OutcomeOf(disk, d)),
      supporting |-> Parts(disk, d, {SupportingReceipt(disk, d)} \ {"none"})]
     : d \in {c \in CandidateDirs(disk) : In(c, "pccb") \in DOMAIN disk /\ OutcomeOf(disk, c) # "none"}}

DecisionRecords(disk) ==
    {[intent |-> Part(disk, d, "action_intent"), receipt |-> Part(disk, d, "decision_receipt")]
     : d \in {c \in CandidateDirs(disk) : In(c, "pccb") \notin DOMAIN disk
                                          /\ In(c, "decision_receipt") \in DOMAIN disk}}

(***************************************************************************)
(* Verification of a bundle: its files against its manifest, then each     *)
(* chain and decision record.  The result is the set of errors.            *)
(***************************************************************************)
(* _verify_bundle_artifact: present, and its digest and identifier match.  *)
PartVerifies(bundle, part) ==
    part.path \in DOMAIN bundle.files /\ bundle.files[part.path] = part.digest

PccbMatchesIntent(intent, pccb) == pccb.intent = intent.intent /\ pccb.hash = "own"

ReceiptLinks(receipt, intent, pccb) == receipt.intent = intent.intent /\ receipt.pccb = pccb.pccb

(* Mutation of RefusalLinks: a refusal that names no proof fits any proof. *)
RefusalLinksIfNamed(refusal, intent, pccb, supporting) ==
    /\ refusal.intent = intent.intent
    /\ refusal.pccb \in {pccb.pccb, None}
    /\ \A r \in supporting : r.refusal \in {None, refusal.refusal}

RefusalLinks(refusal, intent, pccb, supporting) ==
    /\ refusal.intent = intent.intent
    /\ refusal.pccb = pccb.pccb
    /\ \A r \in supporting : r.refusal \in {None, refusal.refusal}

VerifyChain(bundle, chain) ==
    /\ \A part \in {chain.intent, chain.pccb, chain.outcome} \cup chain.supporting : PartVerifies(bundle, part)
    /\ IF chain.type = "receipt"
       THEN /\ PccbMatchesIntent(chain.intent.digest, chain.pccb.digest)
            /\ ReceiptLinks(chain.outcome.digest, chain.intent.digest, chain.pccb.digest)
       ELSE RefusalLinks(chain.outcome.digest, chain.intent.digest, chain.pccb.digest,
                         {part.digest : part \in chain.supporting})

VerifyDecisionRecord(bundle, record) ==
    /\ PartVerifies(bundle, record.intent) /\ PartVerifies(bundle, record.receipt)
    /\ record.receipt.digest.intent = record.intent.digest.intent

VerifyErrors(bundle) ==
    {<<"file", p>> : p \in {q \in DOMAIN bundle.hashes : q \notin DOMAIN bundle.files
                                                          \/ bundle.files[q] # bundle.hashes[q]}}
    \cup {<<"chain", c.intent.path>> : c \in {d \in bundle.chains : ~VerifyChain(bundle, d)}}
    \cup {<<"record", r.intent.path>> : r \in {d \in bundle.records : ~VerifyDecisionRecord(bundle, d)}}
    \cup {<<"empty", p>> : p \in {q \in {Manifest} : bundle.chains = {} /\ bundle.records = {}}}
=============================================================================
