---------------------------- MODULE EvidenceQuery ----------------------------
(***************************************************************************)
(* What can be asked about past executions: the EvidenceQueryService       *)
(* (evidence/query.py) over the stores of evidence/stores.py and           *)
(* receipts/store.py.  Receipts and refusals are read from their artifact  *)
(* files; an intent may be submitted again under its id, an execution's    *)
(* receipt may never have reached its file, and a file may be torn.        *)
(***************************************************************************)
EXTENDS Integers, Sequences, FiniteSets, FiniteSetsExt, SequencesExt

CONSTANTS MaxSubmits,     \* bounds: intents put, proofs, outcomes
          MaxProofs,
          MaxOutcomes,
          MaxChainDepth,
          Faulty          \* whether a write may fail or be torn by a crash

VARIABLES intents,   \* the action intents put so far, by id: the latest one
          submits,
          proofs,    \* the proofs minted so far
          outcomes,  \* outcomes decided so far, in order
          files,     \* the artifact files: whole, or torn
          last       \* <<>> or the one query: <<by, value, result>>

vars == <<intents, submits, proofs, outcomes, files, last>>

(* Ids of intents and proofs, and what an intent asks for, are numbered in *)
(* the order they are first used.                                          *)
None == 0
Ids == 1..MaxSubmits
Contents == 1..MaxSubmits
ProofIds == 1..MaxProofs

(***************************************************************************)
(* Artifacts.  Their id is kind and number, their time the number, and     *)
(* their digest the artifact itself.                                       *)
(***************************************************************************)

Torn(n, kind) == [n |-> n, kind |-> kind, intent |-> None, proof |-> None, hash |-> <<>>, outcome |-> "torn"]
Receipt(n, i, p, h, outcome) == [n |-> n, kind |-> "receipt", intent |-> i, proof |-> p, hash |-> h, outcome |-> outcome]
Refusal(n, i, p, h) == [n |-> n, kind |-> "refusal", intent |-> i, proof |-> p, hash |-> h, outcome |-> "refused"]

(* build_action_hash_input: the id and the action, not the evidence refs.  *)
HashOf(intent) == <<intent.id, intent.content>>

Init == /\ intents = {} /\ submits = 0 /\ proofs = {} /\ outcomes = <<>> /\ files = {} /\ last = <<>>

(* put_intent: the store keeps the latest per id, perhaps citing receipts. *)
PutIntent(i, content, refs) ==
    /\ last = <<>> /\ submits < MaxSubmits /\ submits' = submits + 1
    /\ i <= Cardinality(intents) + 1 /\ content <= submits + 1
    /\ intents' = {x \in intents : x.id # i} \cup {[id |-> i, content |-> content, refs |-> refs]}
    /\ UNCHANGED <<proofs, outcomes, files, last>>

(* put_pccb of a proof minted for an intent.                               *)
PutProof(p, intent) ==
    /\ last = <<>> /\ p = Cardinality(proofs) + 1
    /\ proofs' = proofs \cup {[id |-> p, intent |-> intent.id, hash |-> HashOf(intent), at |-> Cardinality(proofs)]}
    /\ UNCHANGED <<intents, submits, outcomes, files, last>>

(* The writes of one outcome, in order, may stop short, and a crash leaves *)
(* the file it was writing torn.                                           *)
Written(artifacts) ==
    LET before(k) == Range(SubSeq(artifacts, 1, k - 1))
        torn(k)   == {Torn(artifacts[k].n, artifacts[k].kind)}
    IN  {Range(artifacts)} \cup
        (IF Faulty THEN UNION {{before(k), before(k) \cup torn(k)} : k \in DOMAIN artifacts} ELSE {})

Decided(artifacts) ==
    /\ last = <<>> /\ Len(outcomes) < MaxOutcomes
    /\ outcomes' = Append(outcomes, Last(artifacts))
    /\ \E written \in Written(artifacts) : files' = files \cup written
    /\ UNCHANGED <<intents, submits, proofs, last>>

Number == Len(outcomes) + 1
Ran == {outcomes[n].proof : n \in {m \in DOMAIN outcomes : outcomes[m].outcome = "executed"}}
Lost == {n \in DOMAIN outcomes : outcomes[n] \notin files}

(* The kernel wants evidence: a decision receipt without a proof.          *)
DecisionReceipt(intent) == Decided(<<Receipt(Number, intent.id, None, <<>>, "needs-evidence")>>)

(* A proof's handler ran, which it does at most once.                      *)
ExecutionReceipt(p) == p.id \notin Ran /\ Decided(<<Receipt(Number, p.intent, p.id, p.hash, "executed")>>)

(* A presentation is refused: the refusal, then the refused receipt.       *)
RefusedReceipt(p) ==
    Decided(<<Refusal(Number, p.intent, p.id, p.hash), Receipt(Number, p.intent, p.id, p.hash, "refused")>>)

(***************************************************************************)
(* The stores and the query.                                               *)
(***************************************************************************)

Receipts == {f \in files : f.kind = "receipt"}
Refusals == {f \in files : f.kind = "refusal"}
NoIntent == [id |-> None, content |-> None, refs |-> {}]
NoProof == [id |-> None, intent |-> None, hash |-> <<>>, at |-> 0]
NoOutcome == Torn(None, "none")

(* _load_intent, _load_pccb, get_receipt: None when absent.                *)
LoadIntent(i) == IF \E x \in intents : x.id = i THEN CHOOSE x \in intents : x.id = i ELSE NoIntent
LoadProof(p) == IF \E x \in proofs : x.id = p THEN CHOOSE x \in proofs : x.id = p ELSE NoProof
GetReceipt(n) == IF \E r \in Receipts : r.n = n THEN CHOOSE r \in Receipts : r.n = n ELSE NoOutcome

(* _prefer_receipt: by rank of the outcome, then by time; _prefer_refusal  *)
(* and _prefer_pccb: by time.                                              *)
RankRefusedFirst(outcome) == CASE outcome = "refused" -> 0 [] outcome = "executed" -> 1 [] OTHER -> 5
Rank(outcome) == CASE outcome = "executed" -> 0 [] outcome = "refused" -> 1 [] OTHER -> 5

PreferReceipt(rs) ==
    IF rs = {} THEN NoOutcome
    ELSE CHOOSE r \in rs : \A s \in rs \ {r} :
             \/ Rank(r.outcome) < Rank(s.outcome)
             \/ Rank(r.outcome) = Rank(s.outcome) /\ r.n < s.n

PreferRefusal(fs) == IF fs = {} THEN NoOutcome ELSE CHOOSE f \in fs : \A g \in fs : f.n <= g.n
PreferProof(ps) == IF ps = {} THEN NoProof ELSE CHOOSE p \in ps : \A q \in ps : p.at <= q.at

Result(verdict, proof, receipt) == [verdict |-> verdict, proof |-> proof, receipt |-> receipt]
Broken == Result("CHAIN_BROKEN", None, None)
NotFound == Result("PROOF_NOT_FOUND", None, None)

(* _verify_hash_integrity.                                                 *)
HashIntegrity(intent, p, outs) ==
    p.hash = HashOf(intent) /\ \A o \in outs : o.hash # <<>> => o.hash = HashOf(intent)

(* _verify_receipt_evidence_chain: what is wrong with one cited receipt,   *)
(* `path` being the receipts already on the way to it.                     *)
BadRefUnhashed(ref, path) ==
    LET r == GetReceipt(ref.n)
    IN  IF r = NoOutcome \/ r.n \in Range(path) \/ LoadIntent(r.intent) = NoIntent THEN "CHAIN_BROKEN" ELSE "ok"

BadRef(ref, path) ==
    LET r == GetReceipt(ref.n)
    IN  IF r = NoOutcome THEN "CHAIN_BROKEN"
        ELSE IF r.n \in Range(path) THEN "CHAIN_BROKEN"
        ELSE IF ref.digest # r THEN "HASH_MISMATCH"
        ELSE IF LoadIntent(r.intent) = NoIntent THEN "CHAIN_BROKEN"
        ELSE "ok"

(* The refs of one intent are tried in order of their numbers.             *)
FirstFault(verdicts) ==
    LET faults == {v \in verdicts : v.says # "ok"}
    IN  IF faults = {} THEN "ok" ELSE (CHOOSE v \in faults : \A w \in faults : v.n <= w.n).says

EvidenceChain(intent) ==
    LET walk[path \in Seq(1..MaxOutcomes), i \in Ids] ==
            IF LoadIntent(i).refs = {} THEN "ok"
            ELSE IF Len(path) >= MaxChainDepth THEN "CHAIN_BROKEN"
            ELSE FirstFault({[n |-> ref.n,
                              says |-> LET bad == BadRef(ref, path)
                                       IN  IF bad # "ok" THEN bad
                                           ELSE walk[Append(path, ref.n), GetReceipt(ref.n).intent]] :
                             ref \in LoadIntent(i).refs})
    IN  walk[<<>>, intent.id]

(* A verdict stands when the chain below the intent does.                  *)
Standing(chain, result) == IF chain = "ok" THEN result ELSE [result EXCEPT !.verdict = chain]

RefusalVerdict(f, intent, p, paired) ==
    IF intent = NoIntent \/ f.proof = None \/ p = NoProof THEN Broken
    ELSE IF p.intent # intent.id \/ paired = NoOutcome \/ paired.outcome # "refused" THEN Broken
    ELSE IF ~HashIntegrity(intent, p, {paired, f}) THEN Result("HASH_MISMATCH", p.id, paired.n)
    ELSE Standing(EvidenceChain(intent), Result("VERIFIED_REFUSAL", p.id, paired.n))

(* _verify_from_refusal; `receipt`, `intent` and `p` are what the caller   *)
(* has, NoOutcome, NoIntent or NoProof otherwise.                          *)
PairedReceipt(receipt, intent, p) ==
    IF receipt # NoOutcome THEN receipt
    ELSE PreferReceipt({r \in Receipts : r.outcome = "refused" /\ r.intent = intent.id /\ r.proof = p.id})

VerifyFromRefusal(f, receipt, intent0, p0) ==
    LET intent == IF intent0 # NoIntent THEN intent0 ELSE LoadIntent(f.intent)
        p      == IF p0 # NoProof THEN p0 ELSE LoadProof(f.proof)
    IN  RefusalVerdict(f, intent, p, PairedReceipt(receipt, intent, p))

(* _verify_from_receipt.                                                   *)
PairedRefusal(r) == PreferRefusal({f \in Refusals : f.proof = r.proof /\ f.intent = r.intent})

ExecutionVerdict(r, intent, p) ==
    IF intent = NoIntent \/ r.proof = None \/ p = NoProof THEN Broken
    ELSE IF p.intent # intent.id THEN Broken
    ELSE IF ~HashIntegrity(intent, p, {r}) THEN Result("HASH_MISMATCH", p.id, r.n)
    ELSE Standing(EvidenceChain(intent), Result("VERIFIED_EXECUTION", p.id, r.n))

VerifyFromReceipt(r, intent0, p0) ==
    IF r.outcome = "refused"
    THEN IF PairedRefusal(r) = NoOutcome THEN Broken ELSE VerifyFromRefusal(PairedRefusal(r), r, intent0, p0)
    ELSE IF r.outcome # "executed" THEN NotFound
    ELSE ExecutionVerdict(r, IF intent0 # NoIntent THEN intent0 ELSE LoadIntent(r.intent),
                             IF p0 # NoProof THEN p0 ELSE LoadProof(r.proof))

(* What an anchor leads to: outcomes, and the intent and proof already     *)
(* loaded for each.                                                        *)
Found(refusal, receipt, intent, ofRefusal, ofReceipt, otherwise) ==
    [refusal |-> refusal, receipt |-> receipt, intent |-> intent, ofRefusal |-> ofRefusal,
     ofReceipt |-> ofReceipt, otherwise |-> otherwise]

Unlinked(p) == IF p # NoProof THEN Broken ELSE NotFound

(* The four anchors.                                                       *)
QueryByReceiptId(n) == Found(NoOutcome, GetReceipt(n), NoIntent, NoProof, NoProof, NotFound)

QueryByPccbId(id) ==
    Found(PreferRefusal({f \in Refusals : f.proof = id}), PreferReceipt({r \in Receipts : r.proof = id}),
          NoIntent, NoProof, LoadProof(id), Unlinked(LoadProof(id)))

QueryByIntentId(i) ==
    LET p == PreferProof({q \in proofs : q.intent = i})
    IN  Found(PreferRefusal({f \in Refusals : f.intent = i}), PreferReceipt({r \in Receipts : r.intent = i}),
              LoadIntent(i), p, p, Unlinked(p))

QueryByActionHash(h) ==
    LET p == PreferProof({q \in proofs : q.hash = h})
    IN  IF p # NoProof THEN QueryByPccbId(p.id)
        ELSE Found(PreferRefusal({f \in Refusals : f.hash = h}), PreferReceipt({r \in Receipts : r.hash = h}),
                   NoIntent, NoProof, NoProof, NotFound)

(* A refusal is preferred to a receipt, and that to the proof alone.       *)
Answer(found) ==
    IF found.refusal # NoOutcome
    THEN VerifyFromRefusal(found.refusal, found.receipt, found.intent, found.ofRefusal)
    ELSE IF found.receipt # NoOutcome
    THEN VerifyFromReceipt(found.receipt, found.intent, found.ofReceipt)
    ELSE found.otherwise

(* Listing parses every file, so a torn one fails every query that lists;  *)
(* a query by receipt id parses that receipt and, for a refused one, lists *)
(* the refusals (the receipts a chain cites were whole when cited).        *)
Raises(by, n) ==
    LET torn == {f \in files : f.outcome = "torn"}
    IN  IF by = "receipt" THEN (\E f \in torn : f.kind = "receipt" /\ f.n = n)
                               \/ (GetReceipt(n).outcome = "refused" /\ \E f \in torn : f.kind = "refusal")
        ELSE torn # {}

Query(by, value) ==
    /\ last = <<>>
    /\ LET found  == CASE by = "receipt" -> QueryByReceiptId(value[1])
                       [] by = "pccb"    -> QueryByPccbId(value[2])
                       [] by = "intent"  -> QueryByIntentId(value[3])
                       [] by = "hash"    -> QueryByActionHash(<<value[3], value[4]>>)
       IN  last' = <<by, value, IF Raises(by, value[1]) THEN Result("raises", None, None) ELSE Answer(found)>>
    /\ UNCHANGED <<intents, submits, proofs, outcomes, files>>

Anchor(by, value) == [by |-> by, value |-> value]
Anchors == {Anchor("receipt", <<n, None, None, None>>) : n \in 1..MaxOutcomes}
           \cup {Anchor("pccb", <<None, p, None, None>>) : p \in ProofIds}
           \cup {Anchor("intent", <<None, None, i, None>>) : i \in Ids}
           \cup {Anchor("hash", <<None, None, i, c>>) : i \in Ids, c \in Contents}

(* A caller cites receipts it has read, by their digest or a wrong one.    *)
RefsOf == LET whole == {r \in Receipts : r.outcome # "torn"}
          IN  {{}} \cup UNION {{{[n |-> r.n, digest |-> r]}, {[n |-> r.n, digest |-> NoOutcome]}} : r \in whole}
                   \cup {{[n |-> r.n, digest |-> r] : r \in whole}}

Next == \/ \E i \in Ids, c \in Contents, refs \in RefsOf : PutIntent(i, c, refs)
        \/ \E p \in ProofIds, intent \in intents : PutProof(p, intent)
        \/ \E intent \in intents : DecisionReceipt(intent)
        \/ \E p \in proofs : ExecutionReceipt(p) \/ RefusedReceipt(p)
        \/ \E q \in Anchors : Query(q.by, q.value)

Spec == Init /\ [][Next]_vars

(***************************************************************************)
(* Properties.                                                             *)
(***************************************************************************)

Verdict == last[3].verdict

(* The intents reached from i through the receipts that intents cite.      *)
Cited(i) ==
    LET parents(S) == {r.intent : r \in {x \in Receipts : \E y \in intents : y.id \in S /\ \E ref \in y.refs : ref.n = x.n}}
        reach[k \in 0..MaxSubmits] == IF k = 0 THEN {i} ELSE reach[k - 1] \cup parents(reach[k - 1])
    IN  reach[MaxSubmits]

(* VERIFIED_EXECUTION is never said of an action that did not run: the     *)
(* receipt it names is whole, its proof's handler ran, the intent still    *)
(* says what that proof authorised, and every receipt cited anywhere up    *)
(* the chain is on file as cited, with no intent above itself - through    *)
(* resubmissions under the same id, lost receipts and torn files.          *)
VerifiedExecutionRan ==
    last # <<>> /\ Verdict = "VERIFIED_EXECUTION" =>
        \E r \in Receipts :
            /\ r.n = last[3].receipt /\ r.outcome = "executed" /\ r.proof \in Ran
            /\ r.hash = HashOf(LoadIntent(r.intent))
            /\ \A i \in Cited(r.intent) : \A ref \in LoadIntent(i).refs : ref.digest \in Receipts /\ ref.digest.n = ref.n

(* VERIFIED_REFUSAL for a proof or an intent is never said when a proof it *)
(* covers ran, unless that execution's receipt was lost on its way to the  *)
(* files: a replay refused after the execution does not hide it.           *)
RefusalVerdictMeansNotRun ==
    last # <<>> /\ Verdict = "VERIFIED_REFUSAL" /\ last[1] \in {"pccb", "intent"} =>
        \A n \in DOMAIN outcomes :
            LET o == outcomes[n]
            IN  o.outcome = "executed" /\ (IF last[1] = "pccb" THEN o.proof = last[2][2] ELSE o.intent = last[2][3])
                    => o.n \in Lost
=============================================================================
