--------------------------- MODULE MCEntryPoints ----------------------------
(***************************************************************************)
(* The ways into a protected action: the endpoint middleware, the boundary *)
(* verifier, the gate with its adapters and the MCP server, and the        *)
(* security posture they are built under.                                  *)
(***************************************************************************)
EXTENDS MCEndpointMiddleware, BoundaryVerifier, SecurityPosture, ActenonGate, McpServer

CONSTANT k2

VARIABLE live   \* the component this behaviour is about

(***************************************************************************)
(* Two calls in two workers, with one proof or with two that name one      *)
(* effect, sound or with one defect; with and without a root key, a        *)
(* durable store and an effect ledger.                                     *)
(***************************************************************************)

Sound(k, e) == [token |-> TRUE, decodes |-> TRUE, intent |-> TRUE, declared |-> TRUE, action |-> TRUE, target |-> TRUE,
                authentic |-> TRUE, hash |-> TRUE, effect |-> e, reference |-> "ok", proof |-> k]

BoundaryCases ==
    {Sound(k1, "none"), Sound(k1, "f1"), Sound(k2, "f1")}
    \cup {[Sound(k1, "none") EXCEPT ![d] = FALSE] :
             d \in {"token", "decodes", "intent", "action", "target", "authentic", "hash"}}
    \cup {[Sound(k1, "f1") EXCEPT !.reference = x] : x \in {"owner", "issuer", "identity"}}

BoundarySetups ==
    {s \in [root : BOOLEAN, durable : BOOLEAN, ledger : BOOLEAN] :
        (s.root /\ s.durable) \/ (~s.ledger /\ s.root # s.durable)}

MCWorkerOf == "c1" :> "w1" @@ "c2" :> "w2"

(***************************************************************************)
(* Two contexts build at most two objects, in every environment that the   *)
(* code tells apart.                                                       *)
(***************************************************************************)

PostureEnvironment(name, flag, overrides, db) ==
    [name |-> name, flag |-> flag, overrides |-> overrides, replayDb |-> db, secret |-> FALSE]

PostureCases ==
    {PostureEnvironment(n, f, {}, db) : n \in {"", "dev", "production", "live"}, f \in BOOLEAN, db \in BOOLEAN}
    \cup {PostureEnvironment("production", FALSE, {d}, FALSE) : d \in {"process_local_replay", "replay_store_fail_open"}}
    \cup {[PostureEnvironment("", FALSE, {}, TRUE) EXCEPT !.secret = TRUE]}

Option(disabled, failOpen, store, capabilities) ==
    [disabled |-> disabled, failOpen |-> failOpen, store |-> store, capabilities |-> capabilities]

OfferedToExecutor == {Option(TRUE, FALSE, FALSE, TRUE), Option(TRUE, TRUE, FALSE, TRUE),
                      Option(FALSE, TRUE, TRUE, TRUE), Option(FALSE, FALSE, FALSE, TRUE)}
OfferedToBoundary == [root : BOOLEAN, store : BOOLEAN]
OfferedToGate == {Option(FALSE, FALSE, FALSE, TRUE), Option(FALSE, FALSE, TRUE, FALSE), Option(FALSE, TRUE, TRUE, TRUE)}

(***************************************************************************)
(* Two calls through the adapters present the one proof, or something that *)
(* is not a proof; the issuer's preflight may answer in every form the     *)
(* code reads.                                                             *)
(***************************************************************************)

GateCase(adapter, body, lossy, header, evidence) ==
    [adapter |-> adapter, body |-> body, payload |-> <<"a", "x">>, lossy |-> lossy, header |-> header, evidence |-> evidence]

GateCases ==
    {GateCase(a, "ok", l, "p1", e) : a \in {"fastapi", "edge"}, l \in BOOLEAN, e \in {"none", "approved"}}
    \cup {GateCase("fastapi", "ok", FALSE, h, "none") : h \in {"none", "undecodable", "malformed", "untyped"}}
    \cup {GateCase("fastapi", b, FALSE, "p1", "none") : b \in {"notJson", "invalid", "unbuildable"}}
    \cup {GateCase("mcp", "ok", FALSE, "undecodable", "none"), GateCase("edge", "ok", FALSE, "none", "none"),
          GateCase("mcp", "unbuildable", FALSE, "p1", "none"), GateCase("fastapi", "ok", FALSE, "p1", "undecodable")}

Verdict(kind, says, decision) == [kind |-> kind, allowed |-> says, decision |-> decision]

PreflightVerdicts ==
    {Verdict(k, "none", "none") : k \in {"false", "true", "raises"}}
    \cup {Verdict("dict", "false", "none"), Verdict("dict", "none", "deny"), Verdict("dict", "true", "allow"),
          Verdict("object", "false", "none"), Verdict("object", "none", "deny")}

GatePayloads == {<<"a", "x">>, <<"a", "none">>}

(***************************************************************************)
(* Two servers, each with its decision log, in development or with a       *)
(* shared replay database, and calls with and without the proof.           *)
(***************************************************************************)

McpEnvironmentCases == {[productionLike |-> FALSE, development |-> shared, replayDb |-> ~shared] : shared \in BOOLEAN}

Arguments(c, p) == [capability |-> c, params |-> p, target |-> "t"]
Granted == {Arguments("refund", "small"), Arguments("wire", "small")}

McpCall(args, given, proof) == [args |-> args, given |-> given, proof |-> proof]

McpCases ==
    {McpCall(a, "issued", "proof") : a \in Granted \cup {Arguments("refund", "large"), Arguments("refund", "float")}}
    \cup {McpCall(Arguments("refund", "large"), g, "proof") : g \in {"none", "altered"}}
    \cup {McpCall(Arguments("refund", "small"), "malformed", "proof"),
          McpCall(Arguments("refund", "small"), "issued", "malformed"),
          McpCall(Arguments("refund", "small"), "none", "none")}

McpDeclarations == {{}, {"refund"}}

(***************************************************************************)
(* The components side by side: a behaviour picks one and runs it alone,   *)
(* the others rest in an initial state.                                    *)
(***************************************************************************)

BoundaryRests ==
    /\ boundaryCall = [c \in BoundaryCalls |-> NewCall(Sound(k1, "none"))]
    /\ config = [root |-> TRUE, durable |-> TRUE, ledger |-> TRUE]
    /\ boundaryRow = [k \in Keys |-> "absent"] /\ memory = [w \in Workers |-> {}]
    /\ ledger = {} /\ boundaryClock = 0

PostureRests == /\ env = PostureEnvironment("dev", FALSE, {}, FALSE)
                /\ declared = [c \in Contexts |-> 0] /\ built = {}

GateRests ==
    /\ gateCall = [c \in GateCalls |-> [req |-> GateCase("edge", "ok", FALSE, "p1", "none"),
                                        pc |-> "adapt", result |-> "none"]]
    /\ policy = "none" /\ escrowOn = FALSE /\ minted = [i \in Ids |-> Unminted]
    /\ issued = {} /\ refusedMint = FALSE /\ Authority!Init /\ effects = [i \in Ids |-> Unminted]

McpRests == mcpEnv = CHOOSE e \in McpEnvironments : TRUE

SumInit == /\ live \in {"middleware", "boundary", "posture", "gate", "mcp"}
           /\ Init
           /\ IF live = "boundary" THEN BoundaryInit ELSE BoundaryRests
           /\ IF live = "posture" THEN PostureInit ELSE PostureRests
           /\ IF live = "gate" THEN GateInit ELSE GateRests
           /\ (live # "mcp" => McpRests) /\ McpInit

sumVars == <<live, vars, boundaryVars, postureVars, gateVars, mcpVars>>

SumNext == \/ /\ live = "middleware" /\ Next
              /\ UNCHANGED <<live, boundaryVars, postureVars, gateVars, mcpVars>>
           \/ /\ live = "boundary" /\ BoundaryNext
              /\ UNCHANGED <<live, vars, postureVars, gateVars, mcpVars>>
           \/ /\ live = "posture" /\ PostureNext
              /\ UNCHANGED <<live, vars, boundaryVars, gateVars, mcpVars>>
           \/ /\ live = "gate" /\ GateNext
              /\ UNCHANGED <<live, vars, boundaryVars, postureVars, mcpVars>>
           \/ /\ live = "mcp" /\ McpNext
              /\ UNCHANGED <<live, vars, boundaryVars, postureVars, gateVars>>

SumSpec == SumInit /\ [][SumNext]_sumVars
=============================================================================
