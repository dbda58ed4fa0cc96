------------------------------ MODULE McpServer ------------------------------
(***************************************************************************)
(* actenon-mcp (mcp_server.py): how a server starts, its tools             *)
(* actenon_verify, actenon_gate, actenon_receipt and actenon_demo_grant,   *)
(* and the hash-chained log of its decisions.  A server handles one call   *)
(* at a time; several servers may share a key file and a replay store.     *)
(* The gate behind the tools is represented by what it decides: the proof  *)
(* verifies for the intent, then its single use is spent                   *)
(* (SingleUseAuthority).                                                   *)
(*                                                                         *)
(* Tool arguments name an action and a capability (one value), parameters  *)
(* and a target; an intent is an id with arguments.  A hash is the value   *)
(* it was computed from.                                                   *)
(***************************************************************************)
EXTENDS Integers, Sequences, FiniteSets, Functions

CONSTANTS Servers, McpEnvironments,
          Grantable,       \* arguments proofs are minted for: [capability, params, target]
          ToolCalls,           \* what a caller may send: [args, given, proof]
          Declarations,    \* what --capability may list; {} is no option
          MaxProofs, MaxEntries, MaxLives   \* bounds over all servers

(* Arguments are an action with its capability, parameters and a target.   *)
IsArgs(a) == a = [capability |-> a.capability, params |-> a.params, target |-> a.target]
ASSUME ArgsAssumption == (\A a \in Grantable : IsArgs(a)) /\ (\A c \in ToolCalls : IsArgs(c.args))

VARIABLES mcpEnv,       \* [productionLike, development, replayDb]
          server,    \* [mode, life, declared]; life counts the starts
          log,       \* per server, its decision log
          granted,    \* the proofs: [id, args, key]
          sharedSpent, sharedRan,   \* proofs spent in the shared store, proofs acted on
          local,     \* per server, proofs spent in a per-process store
          allowed,   \* ALLOW answers so far: [proof, args, server, life]
          refs,      \* chain references of running servers that callers hold: [server, index, hash]
          last       \* the proof and arguments actenon_verify called VALID, or <<>>

mcpVars == <<mcpEnv, server, log, granted, sharedSpent, sharedRan, local, allowed, refs, last>>

SharedAuthority == INSTANCE SingleUseAuthority WITH Proofs <- 1..MaxProofs, spent <- sharedSpent, ran <- sharedRan

AnyCapability == {"any"}    \* capabilities of a gate that declares none

McpInit == /\ mcpEnv \in McpEnvironments
           /\ server = [s \in Servers |-> [mode |-> "down", life |-> 0, declared |-> {}]]
           /\ log = [s \in Servers |-> <<>>] /\ local = [s \in Servers |-> {}]
           /\ granted = {} /\ allowed = {} /\ refs = {} /\ last = <<>>
           /\ SharedAuthority!Init

(***************************************************************************)
(* Starting.                                                               *)
(***************************************************************************)

Up(s, mode, declared) ==
    /\ server[s].mode = "down" /\ FoldFunction(+, 0, [t \in Servers |-> server[t].life]) < MaxLives
    /\ server' = [server EXCEPT ![s] = [mode |-> mode, life |-> @.life + 1, declared |-> declared]]
    /\ UNCHANGED <<mcpEnv, log, granted, sharedSpent, sharedRan, local, allowed, refs, last>>

(* main --demo: refused in a production-like environment; otherwise its    *)
(* gate has a fresh key and declares no capabilities.                      *)
BuildDemoGate(s) == ~mcpEnv.productionLike /\ Up(s, "demo", AnyCapability)

(* main --key-file: the key of the file.  Local HMAC is refused in a       *)
(* production-like environment, a gate without capabilities or without a   *)
(* shared replay store outside development.                                *)
BuildConfiguredGate(s, capabilities) ==
    /\ ~mcpEnv.productionLike
    /\ capabilities = {} \/ ~mcpEnv.replayDb => mcpEnv.development
    /\ Up(s, "configured", IF capabilities = {} THEN AnyCapability ELSE capabilities)

(* The process ends, and with it the log and a per-process replay store.   *)
Stop(s) ==
    /\ server[s].mode # "down"
    /\ server' = [server EXCEPT ![s].mode = "down"]
    /\ log' = [log EXCEPT ![s] = <<>>] /\ local' = [local EXCEPT ![s] = {}]
    /\ refs' = {r \in refs : r.server # s}
    /\ UNCHANGED <<mcpEnv, granted, sharedSpent, sharedRan, allowed, last>>

ServerKey(s) == IF server[s].mode = "demo" THEN <<s, server[s].life>> ELSE <<"file", 0>>

(***************************************************************************)
(* The decision log.                                                       *)
(***************************************************************************)

(* Mutation of AppendTo: the link is looked up after the entry is added.   *)
AppendToItself(entries, kind, artifact) ==
    LET previous == <<Len(entries), kind, artifact>>
    IN  Append(entries, [kind |-> kind, artifact |-> artifact, previous |-> previous,
                         hash |-> <<Len(entries), kind, artifact, previous>>])

AppendTo(entries, kind, artifact) ==
    LET previous == IF entries = <<>> THEN <<>> ELSE entries[Len(entries)].hash
    IN  Append(entries, [kind |-> kind, artifact |-> artifact, previous |-> previous,
                         hash |-> <<Len(entries), kind, artifact, previous>>])

ChainReference(s, entries, n) ==
    [server |-> s, index |-> n, hash |-> entries[n].hash]

(* find: the first entry of the artifact.                                  *)
Find(s, artifact) ==
    LET found == {n \in DOMAIN log[s] : log[s][n].artifact = artifact}
    IN  IF found = {} THEN 0 ELSE CHOOSE n \in found : \A m \in found : n <= m

(***************************************************************************)
(* The tools.                                                              *)
(***************************************************************************)

(* _build_intent and intake.parse: a fresh intent, or what the caller      *)
(* gives: the intent the proof was issued for, as it was or with other     *)
(* arguments written into it.                                              *)
BuildIntent(c, id) ==
    CASE c.given = "none"    -> [id |-> 0, args |-> c.args]
      [] c.given = "altered" -> [id |-> id, args |-> c.args]
      [] OTHER -> [id |-> id, args |-> (CHOOSE m \in granted : m.id = id).args]

(* Mutation of ArgumentMismatch: parameters are left to the proof.         *)
ArgumentMismatchUnread(intent, a) ==
    intent.args.capability # a.capability \/ intent.args.target # a.target

(* _argument_mismatch: a float has no canonical form, so it matches        *)
(* nothing.                                                                *)
ArgumentMismatch(intent, a) ==
    \/ intent.args.capability # a.capability
    \/ "float" \in {a.params, intent.args.params} \/ intent.args.params # a.params
    \/ intent.args.target # a.target

(* The verifier: made with this server's key for exactly this intent.      *)
Verifies(s, intent, proof, capabilities) ==
    /\ [id |-> proof, args |-> intent.args, key |-> ServerKey(s)] \in granted
    /\ intent.id = proof
    /\ intent.args.capability \in capabilities

(* _verifier_context takes the capability from the intent,                 *)
(* gate._build_context the ones the gate declares.                         *)
VerifierContext(intent) == {intent.args.capability}
GateContext(s, intent) == IF server[s].declared = AnyCapability THEN {intent.args.capability} ELSE server[s].declared

(* The order in which a tool answers before anything is verified.          *)
VerifyAnswer(c, id) ==
    IF c.given = "malformed" THEN "INTENT_MALFORMED"
    ELSE IF ArgumentMismatch(BuildIntent(c, id), c.args) THEN "MISMATCH"
    ELSE IF c.proof = "malformed" THEN "PROOF_MALFORMED"
    ELSE IF c.proof = "none" THEN "PCCB_REQUIRED" ELSE "verify"

GateAnswer(c, id) ==
    IF c.given = "malformed" THEN "INTENT_MALFORMED"
    ELSE IF c.proof = "malformed" THEN "PROOF_MALFORMED"
    ELSE IF ArgumentMismatch(BuildIntent(c, id), c.args) THEN "MISMATCH"
    ELSE IF c.proof = "none" THEN "PCCB_REQUIRED" ELSE "protect"

(* actenon_verify: nothing is spent and nothing is logged, so a behaviour  *)
(* ends when it answers VALID.                                             *)
ActenonVerify(s, c, id) ==
    LET intent == BuildIntent(c, id)
    IN  /\ server[s].mode # "down"
        /\ last' = IF VerifyAnswer(c, id) = "verify" /\ Verifies(s, intent, id, VerifierContext(intent))
                   THEN <<id, c.args>> ELSE <<>>
        /\ UNCHANGED <<mcpEnv, server, log, granted, sharedSpent, sharedRan, local, allowed, refs>>

(* An artifact is its reason code and an id of its own.                    *)
Logged(s, kind, code) ==
    LET entries == AppendTo(log[s], kind, <<code, Len(log[s])>>)
    IN  /\ Len(log[s]) < MaxEntries
        /\ log' = [log EXCEPT ![s] = entries]
        /\ refs' = refs \cup {ChainReference(s, entries, Len(entries))}

Unlogged == UNCHANGED <<log, refs>>

(* gate.protect: the proof's single use, in the shared store or in the     *)
(* server's own.                                                           *)
Spend(s, id) ==
    /\ id \notin local[s] \cup sharedSpent
    /\ IF mcpEnv.replayDb THEN SharedAuthority!Spend(id) /\ UNCHANGED local
       ELSE local' = [local EXCEPT ![s] = @ \cup {id}] /\ UNCHANGED <<sharedSpent, sharedRan>>

Refusal(s, code) == Logged(s, "refusal", code) /\ UNCHANGED <<sharedSpent, sharedRan, local, allowed>>

(* actenon_gate: a malformed intent or proof is answered and forgotten;    *)
(* a mismatch is refused without spending, and recorded like every other   *)
(* decision.                                                               *)
ActenonGate(s, c, id) ==
    LET intent == BuildIntent(c, id)
        answer == GateAnswer(c, id)
    IN  /\ server[s].mode # "down"
        /\ \/ /\ answer \in {"INTENT_MALFORMED", "PROOF_MALFORMED"}
              /\ Unlogged /\ UNCHANGED <<sharedSpent, sharedRan, local, allowed>>
           \/ answer \in {"MISMATCH", "PCCB_REQUIRED"} /\ Refusal(s, answer)
           \/ /\ answer = "protect"
              /\ ~Verifies(s, intent, id, GateContext(s, intent)) \/ id \in local[s] \cup sharedSpent
              /\ Refusal(s, "REFUSED")
           \/ /\ answer = "protect" /\ Verifies(s, intent, id, GateContext(s, intent))
              /\ Spend(s, id)
              /\ Logged(s, "receipt", "ALLOW")
              /\ allowed' = allowed \cup {[proof |-> id, args |-> c.args, server |-> s, life |-> server[s].life]}
        /\ UNCHANGED <<mcpEnv, server, granted, last>>

(* The process dies after the single use was spent and before it answers.  *)
DieInGate(s, c, id) ==
    LET intent == BuildIntent(c, id)
    IN  /\ server[s].mode # "down" /\ GateAnswer(c, id) = "protect"
        /\ Verifies(s, intent, id, GateContext(s, intent))
        /\ mcpEnv.replayDb /\ SharedAuthority!Spend(id)
        /\ server' = [server EXCEPT ![s].mode = "down"]
        /\ log' = [log EXCEPT ![s] = <<>>] /\ refs' = {r \in refs : r.server # s}
        /\ UNCHANGED <<mcpEnv, granted, local, allowed, last>>

(* actenon_receipt: a reference to an entry that is in the log.            *)
ActenonReceipt(s, artifact) ==
    /\ server[s].mode # "down" /\ Find(s, artifact) # 0
    /\ refs' = refs \cup {ChainReference(s, log[s], Find(s, artifact))}
    /\ UNCHANGED <<mcpEnv, server, log, granted, sharedSpent, sharedRan, local, allowed, last>>

Minted(a, key) ==
    /\ Cardinality(granted) < MaxProofs
    /\ granted' = granted \cup {[id |-> Cardinality(granted) + 1, args |-> a, key |-> key]}
    /\ UNCHANGED <<mcpEnv, server, log, sharedSpent, sharedRan, local, allowed, refs, last>>

(* actenon_demo_grant exists in demo mode only; otherwise a broker that    *)
(* holds the key file issues the proofs.                                   *)
ActenonDemoGrant(s, a) == server[s].mode = "demo" /\ Minted(a, ServerKey(s))
BrokerGrant(a) == Minted(a, <<"file", 0>>)

McpNext ==
    /\ last = <<>>
    /\ \/ \E s \in Servers :
             \/ BuildDemoGate(s) \/ Stop(s)
             \/ \E c \in Declarations : BuildConfiguredGate(s, c)
             \/ \E a \in Grantable : ActenonDemoGrant(s, a)
             \/ \E c \in ToolCalls, m \in granted :
                   ActenonVerify(s, c, m.id) \/ ActenonGate(s, c, m.id) \/ DieInGate(s, c, m.id)
             \/ \E n \in DOMAIN log[s] : ActenonReceipt(s, log[s][n].artifact)
       \/ \E a \in Grantable : BrokerGrant(a)

McpSpec == McpInit /\ [][McpNext]_mcpVars

(***************************************************************************)
(* Properties.                                                             *)
(***************************************************************************)

(* VALID and ALLOW are for the arguments the host will run: they are those *)
(* a proof was minted for.  A proof is allowed once over all servers and   *)
(* restarts that share a replay store, and once per start of a server that *)
(* does not (a demo's proofs die with it).                                 *)
AllowedAsMintedOnce ==
    /\ last # <<>> => \E m \in granted : m.id = last[1] /\ m.args = last[2]
    /\ \A r \in allowed : \E m \in granted : m.id = r.proof /\ m.args = r.args
    /\ \A q, r \in allowed : q.proof = r.proof /\ q # r =>
          ~mcpEnv.replayDb /\ mcpEnv.development /\ <<q.server, q.life>> # <<r.server, r.life>>
          /\ \A m \in granted : m.id = r.proof => m.key = <<"file", 0>>

(* "A caller that fetched an earlier receipt can prove the log has not     *)
(* been rewritten": in one life of a server every reference it ever gave   *)
(* is an entry of its log, and each entry commits to the one before it.    *)
HistoryKept ==
    \A s \in Servers :
        /\ \A n \in DOMAIN log[s] : n > 1 => log[s][n].previous = log[s][n - 1].hash
        /\ \A r \in refs : r.server = s =>
              r.index \in DOMAIN log[s] /\ log[s][r.index].hash = r.hash
=============================================================================
