--------------------------- MODULE SecurityPosture ---------------------------
(***************************************************************************)
(* actenon/security_posture.py: who may build an object with a weakened    *)
(* guarantee.  Development intent comes from ACTENON_ENV or from a scope   *)
(* declared in code; the environment belongs to the process, the           *)
(* declaration to an execution context (a ContextVar), and several         *)
(* contexts build gates, executors, boundaries and signers concurrently.   *)
(***************************************************************************)
EXTENDS Integers, Sequences, FiniteSets

CONSTANTS Contexts, Environments, MaxNesting, MaxObjects,
          ExecutorOptions, BoundaryOptions, GateOptions

(* An environment: the value of ACTENON_ENV, whether a production flag is  *)
(* set, the unsafe overrides, ACTENON_REPLAY_DB, and whether               *)
(* ACTENON_LOCAL_HMAC_SECRET holds a private secret.                       *)
VARIABLES env,
          declared,   \* per context, the nested scopes of explicit_development_intent
          built       \* the objects constructed so far

postureVars == <<env, declared, built>>

PostureInit == /\ env \in Environments
               /\ declared = [c \in Contexts |-> 0]
               /\ built = {}

DevelopmentValues == {"development", "dev", "local", "test"}
(* local.py and external_managed.py keep a list of production names.       *)
ProductionValues == {"prod", "production", "staging", "release", "ci", "non-dev", "nondev"}

(* Mutation of DevelopmentIntent: the declaration is a process variable.   *)
DevelopmentIntentShared(c) ==
    ~env.flag /\ (env.name \in DevelopmentValues \/ (env.name = "" /\ \E d \in Contexts : declared[d] > 0))

DevelopmentIntent(c) ==
    ~env.flag /\ (env.name \in DevelopmentValues \/ (env.name = "" /\ declared[c] > 0))

(* explicit_development_intent refuses a declared production environment.  *)
Declarable == ~env.flag /\ env.name \in DevelopmentValues \cup {""}

EnterScope(c) ==
    /\ Declarable /\ declared[c] < MaxNesting
    /\ declared' = [declared EXCEPT ![c] = @ + 1]
    /\ UNCHANGED <<env, built>>

(* The token restores what the scope found, on any exit.                   *)
LeaveScope(c) ==
    /\ declared[c] > 0
    /\ declared' = [declared EXCEPT ![c] = @ - 1]
    /\ UNCHANGED <<env, built>>

(* declare_process_development_intent marks the whole process.             *)
DeclareProcess ==
    /\ Declarable /\ env.name = ""
    /\ env' = [env EXCEPT !.name = "development"]
    /\ UNCHANGED <<declared, built>>

(* permit_downgrade: intent, or the override that names the downgrade.     *)
Permits(c, downgrade) == DevelopmentIntent(c) \/ downgrade \in env.overrides

AllPermitted(c, downgrades) == \A d \in downgrades : Permits(c, d)

Build(c, kind, weak, listed) ==
    /\ Cardinality(built) < MaxObjects
    /\ built' = built \cup {[kind |-> kind, weak |-> weak, listed |-> listed,
                             scoped |-> declared[c] > 0, env |-> env]}
    /\ UNCHANGED <<env, declared>>

(* HmacSha256Signer: an explicit secret, the environment's, or the public  *)
(* one; local HMAC signing is refused in any production-like environment.  *)
SignerSecret(given) == IF given # "none" THEN given ELSE IF env.secret THEN "private" ELSE "public"

SignerAllowed(c, given) ==
    /\ env.name \notin ProductionValues /\ ~env.flag
    /\ SignerSecret(given) = "public" => DevelopmentIntent(c)

SignerWeakness(given) == IF SignerSecret(given) = "public" THEN {"public_development_secret"} ELSE {}

BuildSigner(c, given) ==
    /\ SignerAllowed(c, given)
    /\ Build(c, "signer", SignerWeakness(given), SignerWeakness(given))

(* Options ProtectedExecutor.__post_init__ raises on, whatever the         *)
(* environment.                                                            *)
Contradictory(o) == o.disabled /\ (o.store \/ o.failOpen)

(* The downgrades an executor asks for: disabled replay stands alone; the  *)
(* default store is process-local unless ACTENON_REPLAY_DB names a file.   *)
ExecutorDowngrades(o) ==
    IF o.disabled THEN {"replay_protection_disabled"}
    ELSE (IF o.failOpen THEN {"replay_store_fail_open"} ELSE {})
         \cup (IF ~o.store /\ ~env.replayDb THEN {"process_local_replay"} ELSE {})

BuildExecutor(c, o) ==
    /\ ~Contradictory(o) /\ AllPermitted(c, ExecutorDowngrades(o))
    /\ Build(c, "executor", ExecutorDowngrades(o), ExecutorDowngrades(o))

(* BoundaryVerifier: without a trust root it refuses everything and asks   *)
(* for no store.                                                           *)
BoundaryDowngrades(o) ==
    IF o.root /\ ~o.store /\ ~env.replayDb THEN {"process_local_replay"} ELSE {}

BuildBoundary(c, o) ==
    /\ AllPermitted(c, BoundaryDowngrades(o))
    /\ Build(c, "boundary", BoundaryDowngrades(o), BoundaryDowngrades(o))

(* ActenonGate: undeclared capabilities are asked for first; the material  *)
(* was built earlier, maybe elsewhere, and is recognised by its secret.    *)
Undeclared(o) == IF o.capabilities THEN {} ELSE {"undeclared_capabilities"}

Material == {s \in built : s.kind = "signer"}

(* Mutation of GateListed: only the gate's own downgrades are reported.    *)
GateListedOwn(o, s) == Undeclared(o) \cup s.weak

GateListed(o, s) == ExecutorDowngrades(o) \cup Undeclared(o) \cup s.weak

BuildGate(c, o) ==
    \E s \in Material \cup {[weak |-> {}]} :
        /\ ~Contradictory(o) /\ AllPermitted(c, ExecutorDowngrades(o) \cup Undeclared(o))
        /\ Build(c, "gate", ExecutorDowngrades(o) \cup Undeclared(o) \cup s.weak, GateListed(o, s))

(* ActenonGate.local_dev: a scope around the signer and the gate.          *)
LocalDev(c, o) ==
    /\ Declarable
    /\ ~Contradictory(o)
    /\ Cardinality(built) < MaxObjects
    /\ built' = built \cup {[kind |-> "gate", scoped |-> TRUE, env |-> env,
            weak |-> ExecutorDowngrades(o) \cup Undeclared(o) \cup SignerWeakness("none"),
            listed |-> GateListed(o, [weak |-> SignerWeakness("none")])]}
    /\ UNCHANGED <<env, declared>>

PostureNext ==
    \E c \in Contexts :
        \/ EnterScope(c) \/ LeaveScope(c) \/ DeclareProcess
        \/ \E given \in {"none", "private", "public"} : BuildSigner(c, given)
        \/ \E o \in ExecutorOptions : BuildExecutor(c, o)
        \/ \E o \in BoundaryOptions : BuildBoundary(c, o)
        \/ \E o \in GateOptions : BuildGate(c, o) \/ LocalDev(c, o)

PostureSpec == PostureInit /\ [][PostureNext]_postureVars

(***************************************************************************)
(* Property.                                                               *)
(***************************************************************************)

(* "Insecure development behaviour requires explicit development intent":  *)
(* every weakness of every object is listed by the object, and the object  *)
(* was built inside a scope of its own context, in an environment that     *)
(* says development, or under the override that names the weakness; never  *)
(* because some other context declared intent, or declared it earlier.     *)
(* Only the signing material may come from elsewhere.                      *)
NoSilentDowngrade ==
    \A o \in built :
        /\ o.listed = o.weak
        /\ \A d \in o.weak :
              \/ o.scoped /\ ~o.env.flag /\ o.env.name \in DevelopmentValues \cup {""}
              \/ ~o.env.flag /\ o.env.name \in DevelopmentValues
              \/ d \in o.env.overrides
              \/ /\ o.kind = "gate" /\ d = "public_development_secret"
                 /\ \E s \in Material : d \in s.weak /\ (s.scoped \/ s.env.name \in DevelopmentValues)
=============================================================================
