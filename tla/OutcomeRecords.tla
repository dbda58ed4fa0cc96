---------------------------- MODULE OutcomeRecords ----------------------------
(***************************************************************************)
(* How outcomes are recorded and published: outcome writers that put       *)
(* receipts and refusals in memory and in artifact files                   *)
(* (receipts/writers.py) and hand execution anchors to daemon threads      *)
(* (execution_graph.py).  The proof store the writers consult is live, or, *)
(* when it reads artifact files, frozen by a cached property at its first  *)
(* use (evidence/stores.py).                                               *)
(***************************************************************************)
EXTENDS Integers, Sequences, FiniteSets

CONSTANTS Proofs,
          MaxOutcomes,    \* receipts and refusals are numbered 1..MaxOutcomes
          WritesMayFail          \* whether a write may fail or be torn by a crash

VARIABLES proofs,    \* the proofs minted so far
          frozen,    \* the cached property of a file-backed proof store
          outcomes,  \* outcomes decided so far, in order
          todo,      \* writes the current call still has to do
          memory,    \* receipts and refusals of the in-memory writer
          files,     \* artifact files: whole, or torn
          crashed,   \* whether the process ever died
          inflight,  \* anchors on their daemon threads
          graph      \* anchors the execution graph received

recordsVars == <<proofs, frozen, outcomes, todo, memory, files, crashed, inflight, graph>>

Live == [fileBacked |-> FALSE, read |-> FALSE, proofs |-> {}]
Unread == [fileBacked |-> TRUE, read |-> FALSE, proofs |-> {}]

Receipt(n, p, outcome) == [n |-> n, kind |-> "receipt", proof |-> p, outcome |-> outcome]
Refusal(n, p) == [n |-> n, kind |-> "refusal", proof |-> p, outcome |-> "refused"]
Torn(artifact) == [artifact EXCEPT !.proof = "torn", !.outcome = "torn"]

RecordsInit == /\ proofs = {} /\ frozen \in {Live, Unread} /\ outcomes = <<>> /\ todo = <<>>
               /\ memory = {} /\ files = {} /\ crashed = FALSE /\ inflight = {} /\ graph = {}

(* put_pccb, or the proof's artifact file.                                 *)
PutProof(p) ==
    /\ todo = <<>> /\ p \notin proofs /\ proofs' = proofs \cup {p}
    /\ UNCHANGED <<frozen, outcomes, todo, memory, files, crashed, inflight, graph>>

(* CompositeOutcomeWriter: one artifact goes to every writer in turn.      *)
WritesOf(artifact) == <<<<"memory", artifact>>, <<"files", artifact>>>>

Decided(artifact, writes) ==
    /\ todo = <<>> /\ Len(outcomes) < MaxOutcomes
    /\ outcomes' = Append(outcomes, artifact)
    /\ todo' = writes
    /\ UNCHANGED <<proofs, frozen, memory, files, crashed, inflight, graph>>

Number == Len(outcomes) + 1
Ran == {outcomes[n].proof : n \in {m \in DOMAIN outcomes : outcomes[m].outcome = "executed"}}

(* A decision receipt of the kernel, with or without a proof.              *)
DecisionReceipt(p, outcome) == LET r == Receipt(Number, p, outcome) IN Decided(r, WritesOf(r))

(* A proof's handler ran, which it does at most once.                      *)
ExecutionReceipt(p) ==
    LET r == Receipt(Number, p, "executed") IN p \notin Ran /\ Decided(r, WritesOf(r))

(* A presentation is refused: the refusal, then the refused receipt.  The  *)
(* proof presented need not be one the store knows.                        *)
RefusedReceipt(p) ==
    LET r == Receipt(Number, p, "refused")
        f == Refusal(Number, p)
    IN  Decided(r, <<<<"memory", f>>, <<"files", f>>, <<"memory", r>>, <<"files", r>>>>)

(* get_pccb and list_pccbs: a file-backed store answers from its first     *)
(* reading.                                                                *)
KnownProofs == IF frozen.read THEN frozen.proofs ELSE proofs
ReadProofs == frozen' = IF frozen.fileBacked THEN [frozen EXCEPT !.read = TRUE, !.proofs = KnownProofs] ELSE frozen

(* create_execution_anchor_from_receipt / _from_refusal.                   *)
AnchorOf(artifact) == [outcome |-> artifact.outcome, proof |-> artifact.proof, digest |-> artifact]

(* An executed receipt, or a refusal, with a correlated proof.             *)
PublishableAny(artifact) == artifact.proof # "none"
Publishable(artifact) ==
    artifact.proof # "none" /\ (artifact.kind = "receipt" => artifact.outcome = "executed")

(* The publication that ends a writer's write: HttpExecutionGraphClient    *)
(* hands the anchor to a daemon thread.                                    *)
Publish(artifact) ==
    IF ~Publishable(artifact) THEN UNCHANGED <<inflight, frozen>>
    ELSE /\ ReadProofs
         /\ inflight' = IF artifact.proof \in KnownProofs THEN inflight \cup {AnchorOf(artifact)} ELSE inflight

(* InMemoryOutcomeWriter.                                                  *)
MemoryWrite ==
    /\ todo # <<>> /\ Head(todo)[1] = "memory"
    /\ memory' = memory \cup {Head(todo)[2]}
    /\ Publish(Head(todo)[2])
    /\ todo' = Tail(todo)
    /\ UNCHANGED <<proofs, outcomes, files, crashed, graph>>

(* JsonArtifactOutcomeWriter: one file per artifact id.                    *)
FileWrite ==
    /\ todo # <<>> /\ Head(todo)[1] = "files"
    /\ files' = files \cup {Head(todo)[2]}
    /\ Publish(Head(todo)[2])
    /\ todo' = Tail(todo)
    /\ UNCHANGED <<proofs, outcomes, memory, crashed, graph>>

(* A writer raises: no later writer, and no later artifact, is reached.    *)
WriteRaises ==
    /\ WritesMayFail /\ todo # <<>> /\ Head(todo)[1] = "files"
    /\ todo' = <<>>
    /\ UNCHANGED <<proofs, frozen, outcomes, memory, files, crashed, inflight, graph>>

(* The process dies inside write_text; memory and threads die with it.     *)
CrashInWrite ==
    /\ WritesMayFail /\ todo # <<>> /\ Head(todo)[1] = "files"
    /\ files' = files \cup {Torn(Head(todo)[2])}
    /\ todo' = <<>> /\ crashed' = TRUE
    /\ memory' = {} /\ inflight' = {} /\ frozen' = IF frozen.fileBacked THEN Unread ELSE Live
    /\ UNCHANGED <<proofs, outcomes, graph>>

(* The daemon threads deliver in any order, or log the failure and give up.*)
Deliver(a) ==
    /\ a \in inflight /\ inflight' = inflight \ {a} /\ graph' = graph \cup {a}
    /\ UNCHANGED <<proofs, frozen, outcomes, todo, memory, files, crashed>>

PublicationFails(a) ==
    /\ a \in inflight /\ inflight' = inflight \ {a}
    /\ UNCHANGED <<proofs, frozen, outcomes, todo, memory, files, crashed, graph>>

RecordsNext == \/ \E p \in Proofs : \/ PutProof(p) \/ ExecutionReceipt(p) \/ RefusedReceipt(p)
                                    \/ DecisionReceipt(p, "allow")
               \/ DecisionReceipt("none", "needs-evidence")
               \/ MemoryWrite \/ FileWrite \/ WriteRaises \/ CrashInWrite
               \/ \E a \in inflight : Deliver(a) \/ PublicationFails(a)

RecordsSpec == RecordsInit /\ [][RecordsNext]_recordsVars

(***************************************************************************)
(* Properties.                                                             *)
(***************************************************************************)

(* What reaches the execution graph, in whatever order the daemon threads  *)
(* deliver it, is a terminal outcome of a known proof, an execution by its *)
(* receipt and a refusal by its refusal, and a writer recorded it first    *)
(* (only the death of the process loses that record again).                *)
AnchorsAreRecorded ==
    \A a \in graph \cup inflight :
        /\ a.proof \in proofs
        /\ a.outcome = "executed" => a.digest.kind = "receipt" /\ a.proof \in Ran
        /\ a.outcome # "executed" => a.outcome = "refused" /\ a.digest.kind = "refusal"
        /\ a.digest \in memory \cup files \/ crashed
=============================================================================
