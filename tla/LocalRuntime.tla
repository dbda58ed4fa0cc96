---------------------------- MODULE LocalRuntime ----------------------------
(***************************************************************************)
(* The local single-node runtime: the command line that bootstraps labs    *)
(* and runs simulations, the HTTP issuer whose handler threads admit       *)
(* intents and write their artifacts file by file, SQLite state that is    *)
(* checkpointed when a connection is finalised, and the export of it all   *)
(* as a bundle.  They are separate processes over one directory tree.      *)
(***************************************************************************)
EXTENDS EvidenceBundle, TLC

CONSTANTS Submissions,    \* handler threads, one request each
          Requests,       \* bodies a client may post
          Simulations,    \* names of the simulations that may be run
          MaxSegment,     \* length a path segment is cut to (96 in the code)
          MaxJobs,        \* bound: bootstraps and simulations
          MaxExports      \* bound: exports

VARIABLES disk,      \* the runtime root
          cli,       \* the running bootstrap or simulation: name ("" none), jobs started
          sub,       \* per submission: pc, request, directory, files still to write
          exp,       \* the running export
          bundle     \* the exported bundle

vars == <<disk, cli, sub, exp, bundle>>

NoBundle == [present |-> FALSE, quiet |-> TRUE, hashes |-> <<>>, chains |-> {}, records |-> {}, files |-> <<>>]

NoRequest == [wrapped |-> FALSE, context |-> "absent", parses |-> FALSE, intent |-> <<>>, request |-> <<>>,
              capability |-> "other", complete |-> TRUE, scenario |-> "", facts |-> "none"]

Init ==
    /\ disk = <<>> /\ cli = [job |-> "", started |-> 0]
    /\ sub = [s \in Submissions |-> [pc |-> "idle", request |-> NoRequest, dir |-> <<>>, todo |-> <<>>]]
    /\ exp = [pc |-> "idle", n |-> 0, quiet |-> TRUE, hashes |-> <<>>, chains |-> {}, records |-> {}]
    /\ bundle = NoBundle

Writing == cli.job # "" \/ \E s \in Submissions : sub[s].pc \in {"admit", "write"}

(* Every write below the root while an export runs is noted.               *)
Disturb == exp' = [exp EXCEPT !.quiet = @ /\ exp.pc = "idle"]

(***************************************************************************)
(* What labs and simulations write: per directory, files and artifacts.    *)
(* All ids and times in them are fixed, so a rerun writes the same.        *)
(***************************************************************************)
Files(dir, intent, artifacts) ==
    [p \in {In(dir, "action_intent")} \cup {In(dir, f) : f \in DOMAIN artifacts} |->
        IF p[3] = "action_intent" THEN Artifact(dir[2], intent, None, None, "none")
        ELSE artifacts[p[3]]]

Receipt(by, pccb, refusal, outcome) == Artifact(by, by, pccb, refusal, outcome)

(* An admission that was executed, refused by policy, or held back.        *)
Executed(dir) ==
    Files(dir, dir[2], [pccb |-> Receipt(dir[2], dir[2], None, "none"),
                        decision_receipt |-> Receipt(dir[2], dir[2], None, "allow"),
                        execution_receipt |-> Receipt(dir[2], dir[2], None, "executed")])

Denied(dir) ==
    Files(dir, dir[2], [decision_receipt |-> Receipt(dir[2], None, None, "deny"),
                        refusal |-> Receipt(dir[2], None, dir[2], "deny")])

Held(dir) == Files(dir, dir[2], [decision_receipt |-> Receipt(dir[2], None, None, "hold")])

RunLocalProofDemo ==
    Executed(<<"labs", <<"refund/allow">>>>) @@ Denied(<<"labs", <<"refund/deny">>>>)
    @@ Held(<<"labs", <<"refund/approval_required">>>>)

RunInvoicePaymentDemo ==
    Executed(<<"labs", <<"invoice/allow">>>>) @@ Denied(<<"labs", <<"invoice/bank_mismatch">>>>)
    @@ Held(<<"labs", <<"invoice/approval_missing">>>>)
    @@ In(<<"labs", <<"invoice/state">>>>, "protected_endpoint_state")
          :> Artifact(None, None, None, None, "paid")

(* Verified, but no receipt is written: no chain.                          *)
BootstrapPortableRuntime ==
    Files(<<"labs", <<"portable">>>>, <<"hello">>, [pccb |-> Artifact(<<"portable">>, <<"hello">>, <<"portable">>, None, "none")])

(* One proof for the hello-world intent, presented as the scenario says.   *)
SimulatePortableVerifierCase(name) ==
    LET dir == <<"simulations", <<name>>>>
        pccb == [Artifact(<<name>>, <<"hello">>, <<name>>, None, "none") EXCEPT
                    !.hash = IF name = "action-hash-mismatch" THEN "other" ELSE "own"]
        record == Artifact(<<name>>, <<"hello">>, <<name>>, None, "allow")
    IN  IF name = "valid-proof"
        THEN Files(dir, <<"hello">>, [pccb |-> pccb, intent_record |-> record])
        ELSE Files(dir, <<"hello">>, [pccb |-> pccb, intent_record |-> record,
                                  refusal |-> Artifact(<<name>>, <<"hello">>, <<name>>, <<name>>, "refused")])

SimulateReplayRefused ==
    LET dir == <<"simulations", <<"replay-refused">>>>
        record == Receipt(dir[2], dir[2], None, "allow")
    IN  Executed(dir) @@ Files(dir, dir[2], [intent_record |-> record,
                                             replay_refusal |-> Receipt(dir[2], dir[2], dir[2], "refused")])

(* A preflight pattern mints no proof: a decision record.                  *)
WritePatternSimulation(name) ==
    LET dir == <<"simulations", <<name>>>>
    IN  Denied(dir) @@ Files(dir, dir[2], [intent_record |-> Receipt(dir[2], None, dir[2], "deny"),
                                         refused_receipt |-> Receipt(dir[2], None, dir[2], "refused")])

(* An incident: the proof is minted, altered or misdirected, and refused.  *)
SimulateIncidentProofRefusal(name, hash) ==
    LET dir == <<"simulations", <<name>>>>
    IN  Files(dir, dir[2], [pccb |-> [Receipt(dir[2], dir[2], None, "none") EXCEPT !.hash = hash],
                          intent_record |-> Receipt(dir[2], dir[2], None, "allow"),
                          refusal |-> Receipt(dir[2], dir[2], dir[2], "refused")])

(* The purchase of the remaining incident waits for an approval.           *)
SimulateNamedIncident(name) ==
    CASE name = "prod-delete" -> WritePatternSimulation(name)
      [] name = "replit" -> SimulateIncidentProofRefusal(name, "other")
      [] name = "amazon-kiro" -> SimulateIncidentProofRefusal(name, "own")
      [] OTHER -> Held(<<"simulations", <<name>>>>)

Incidents == {"prod-delete", "replit", "openai-eggs", "amazon-kiro"}

Simulated(name) ==
    IF name \in Incidents THEN SimulateNamedIncident(name)
    ELSE IF name = "replay-refused" THEN SimulateReplayRefused
    ELSE IF name \in {"iam-escalation", "data-export", "mcp-tool-proof-laundering"} THEN WritePatternSimulation(name)
    ELSE SimulatePortableVerifierCase(name)

(***************************************************************************)
(* Bootstrap and simulate: directories are removed, then written anew.     *)
(***************************************************************************)
Begin(job, dirs) ==
    /\ cli.job = "" /\ cli.started < MaxJobs
    /\ cli' = [job |-> job, started |-> cli.started + 1]
    /\ disk' = EnsureRemoved(disk, dirs)
    /\ Disturb /\ UNCHANGED <<sub, bundle>>

BeginBootstrap == Begin("bootstrap", {<<p[1], p[2]>> : p \in {q \in DOMAIN disk : q[1] = "labs"}})

BeginSimulation(name) == Begin(name, {<<"simulations", <<name>>>>})

Finish(job, files) ==
    /\ cli.job = job
    /\ cli' = [cli EXCEPT !.job = ""]
    /\ disk' = files @@ disk
    /\ Disturb /\ UNCHANGED <<sub, bundle>>

Db == <<"state", None, "sqlite3">>
Wal == <<"state", None, "sqlite3-wal">>

(* Labs and manifest are written, and the issuer starts: its stores are    *)
(* created unless they are there.                                          *)
BootstrapLocalRuntime ==
    Finish("bootstrap", RunLocalProofDemo @@ RunInvoicePaymentDemo @@ BootstrapPortableRuntime
                        @@ Manifest :> Artifact(None, None, None, None, "none")
                        @@ Db :> (IF Db \in DOMAIN disk THEN disk[Db] ELSE Database(0)))

SimulateLocalRuntime(name) == Finish(name, Simulated(name))

(***************************************************************************)
(* POST /v1/intents.                                                       *)
(***************************************************************************)
(* _safe_segment: foreign characters become "_", the rest is cut off.      *)
SafeSegment(value) ==
    LET cleaned == [i \in DOMAIN value |-> IF value[i] \in {"/", ":", "."} THEN "_" ELSE value[i]]
    IN  IF value = <<>> THEN <<"request">>
        ELSE SubSeq(cleaned, 1, IF Len(cleaned) < MaxSegment THEN Len(cleaned) ELSE MaxSegment)

(* A wrapped body carries a context, which must be an object.              *)
ExtractRaises(r) == r.wrapped /\ r.context = "not an object"

RawContext(r) == IF r.wrapped THEN r.context ELSE "absent"

(* A context that does not parse is parsed again for the fallback.         *)
FallbackRaises(r) == RawContext(r) = "malformed"

ContextRaises(r) ==
    IF r.parses /\ RawContext(r) # "malformed" THEN r.capability = "invoice" /\ ~r.complete
    ELSE FallbackRaises(r)

RequestId(s, r) == IF RawContext(r) = "absent" \/ r.request = <<>> THEN <<s>> ELSE r.request

DefaultRefundFacts(r) ==
    CASE r.scenario = "deny" -> "blocked"
      [] r.scenario = "approval_required" -> "approval"
      [] OTHER -> "normal"

(* Invoices are duplicates if the lab's state has them paid.               *)
DefaultInvoiceFacts(r) ==
    CASE r.scenario = "duplicate" /\ In(<<"labs", <<"invoice/state">>>>, "protected_endpoint_state") \in DOMAIN disk
            -> "blocked"
      [] r.scenario = "approval_missing" -> "approval"
      [] OTHER -> "normal"

(* _context_from_raw: facts of the request override the defaults.          *)
ContextFacts(r) ==
    IF RawContext(r) = "object" /\ r.facts # "none" THEN r.facts
    ELSE IF r.capability = "refund" THEN DefaultRefundFacts(r) ELSE DefaultInvoiceFacts(r)

(* LocalRuntimePolicyRouter.evaluate; `late`: the intent has expired.      *)
Decide(r, late) ==
    CASE r.capability \notin {"refund", "invoice"} -> "deny"
      [] late \/ ContextFacts(r) = "blocked" -> "deny"
      [] ContextFacts(r) = "approval" -> "hold"
      [] OTHER -> "allow"

(* _write_request_artifacts, in the order of its writes.  context.json and *)
(* intent_record.json are in no chain and are left out.                    *)
RequestArtifacts(s, r, decision) ==
    LET A(pccb, refusal, outcome) == Artifact(<<s>>, IF r.parses THEN r.intent ELSE None, pccb, refusal, outcome)
        pccb == IF decision = "allow" THEN <<s>> ELSE None
        refusal == IF decision \in {"deny", "invalid"} THEN <<s>> ELSE None
        When(condition, file, artifact) == IF condition THEN <<<<file, artifact>>>> ELSE <<>>
    IN  <<<<IF r.parses THEN "action_intent" ELSE "request_payload", A(None, None, "none")>>>>
        \o When(pccb # None, "pccb", A(pccb, None, "none"))
        \o When(r.parses, "receipt", A(pccb, None, decision))
        \o When(refusal # None, "refusal", A(None, refusal, decision))

(* A request that raises gets no answer and leaves no artifact.            *)
Receive(s, r) ==
    /\ sub[s].pc = "idle"
    /\ Manifest \in DOMAIN disk
    /\ sub' = [sub EXCEPT ![s].request = r,
                          ![s].pc = IF ExtractRaises(r) \/ ContextRaises(r) THEN "raised" ELSE "admit"]
    /\ UNCHANGED <<disk, cli, exp, bundle>>

Commit(d) ==
    LET v == IF Wal \in DOMAIN d THEN d[Wal].v ELSE d[Db].v
    IN  Put(d, Wal, Database(v + 1))

Checkpoint(d) ==
    IF Wal \in DOMAIN d THEN Put(Restrict(d, DOMAIN d \ {Wal}), Db, d[Wal]) ELSE d

(* kernel.submit_intent, which issues the escrow of what it allows and     *)
(* writes the outcome.                                                     *)
Submit(s, late) ==
    LET r == sub[s].request
        decision == IF r.parses THEN Decide(r, late) ELSE "invalid"
    IN  /\ sub[s].pc = "admit"
        /\ sub' = [sub EXCEPT
                ![s].pc = "write",
                ![s].dir = SafeSegment(RequestId(s, r)) \o <<"_">>
                           \o SafeSegment(IF r.parses THEN r.intent ELSE <<"invalid_intent">>),
                ![s].todo = RequestArtifacts(s, r, decision)]
        /\ disk' = Put(IF decision = "allow" THEN Commit(disk) ELSE disk, <<"outcomes", <<s>>, "outcome">>,
                       Artifact(<<s>>, None, None, None, decision))
        /\ Disturb /\ UNCHANGED <<cli, bundle>>

WriteArtifact(s) ==
    LET next == Head(sub[s].todo)
    IN  /\ sub[s].pc = "write"
        /\ disk' = Put(disk, <<"requests", sub[s].dir, next[1]>>, next[2])
        /\ sub' = [sub EXCEPT ![s].todo = Tail(@), ![s].pc = IF Len(sub[s].todo) = 1 THEN "done" ELSE "write"]
        /\ Disturb /\ UNCHANGED <<cli, bundle>>

(* A connection is finalised: its write-ahead log goes into the database.  *)
Finalise ==
    /\ Wal \in DOMAIN disk
    /\ disk' = Checkpoint(disk)
    /\ UNCHANGED <<cli, sub, exp, bundle>>

(***************************************************************************)
(* bundle export.                                                          *)
(***************************************************************************)
(* An existing bundle is replaced only with --force, and removed at once.  *)
BeginExport(force) ==
    /\ exp.pc = "idle" /\ exp.n < MaxExports
    /\ Manifest \in DOMAIN disk
    /\ ~bundle.present \/ force
    /\ exp' = [exp EXCEPT !.pc = "stabilise", !.n = @ + 1, !.quiet = ~Writing]
    /\ bundle' = NoBundle
    /\ UNCHANGED <<disk, cli, sub>>

At(pc) == exp.pc = pc /\ UNCHANGED <<cli, sub>>

(* Mutation of StabilizeSqliteState: no checkpoint before hashing.         *)
StabilizeNothing ==
    /\ At("stabilise")
    /\ exp' = [exp EXCEPT !.pc = "hash"]
    /\ UNCHANGED <<disk, bundle>>

(* Garbage is collected and every database checkpointed, unless one is     *)
(* locked by a request: then it is hashed as it is.                        *)
StabilizeSqliteState ==
    /\ At("stabilise")
    /\ \E locked \in (IF Writing THEN BOOLEAN ELSE {FALSE}) :
          /\ disk' = IF locked THEN disk ELSE Checkpoint(disk)
          /\ exp' = [exp EXCEPT !.pc = "hash", !.quiet = @ /\ ~locked]
    /\ UNCHANGED bundle

BuildManifest ==
    /\ At("hash")
    /\ exp' = [exp EXCEPT !.pc = "archive", !.hashes = FileHashes(disk), !.chains = EvidenceChains(disk),
                          !.records = DecisionRecords(disk)]
    /\ UNCHANGED <<disk, bundle>>

Archive ==
    /\ At("archive")
    /\ bundle' = [present |-> TRUE, quiet |-> exp.quiet, hashes |-> exp.hashes, chains |-> exp.chains,
                  records |-> exp.records, files |-> disk]
    /\ exp' = [exp EXCEPT !.pc = "idle", !.quiet = TRUE, !.hashes = <<>>, !.chains = {}, !.records = {}]
    /\ UNCHANGED disk

Next ==
    \/ BeginBootstrap \/ BootstrapLocalRuntime
    \/ \E name \in Simulations : BeginSimulation(name) \/ SimulateLocalRuntime(name)
    \/ \E s \in Submissions : (\E r \in Requests : Receive(s, r))
                              \/ (\E late \in BOOLEAN : Submit(s, late))
                              \/ WriteArtifact(s)
    \/ Finalise
    \/ \E force \in BOOLEAN : BeginExport(force)
    \/ StabilizeSqliteState \/ BuildManifest \/ Archive

Spec == Init /\ [][Next]_vars

(***************************************************************************)
(* Properties.                                                             *)
(***************************************************************************)

(* Directories a later request wrote its artifacts into as well.           *)
Reused(files) ==
    {d \in CandidateDirs(files) :
        \E p, q \in DOMAIN files : <<p[1], p[2]>> = d /\ <<q[1], q[2]>> = d /\ files[p].by # files[q].by}

(* An export that nobody disturbs by writing is a bundle that verifies,    *)
(* whatever labs, simulations and requests ran, raised or were killed      *)
(* before, and whenever SQLite moves its log into a database.  The one     *)
(* exception are request directories that two requests shared: a proof of  *)
(* the one beside a refusal of the other is a chain that never verifies.   *)
QuietExportVerifies ==
    bundle.present /\ bundle.quiet /\ Reused(bundle.files) = {} =>
        VerifyErrors(bundle) \subseteq {<<"empty", Manifest>>}

(* A bundle that verifies, also one written while requests were served and *)
(* labs removed, tells of each chain one story: intent, proof and outcome  *)
(* come from one request or one scenario.                                  *)
VerifiedTellsOneStory ==
    bundle.present /\ VerifyErrors(bundle) = {} =>
        \A c \in bundle.chains :
            {bundle.files[part.path].by : part \in {c.intent, c.pccb, c.outcome}} = {c.pccb.digest.by}
=============================================================================
