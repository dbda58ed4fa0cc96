-------------------------- MODULE EntryPointsProofs --------------------------
(***************************************************************************)
(* The entry points for any number of calls, workers, contexts, keys and   *)
(* requests: no object is built weaker than it says it is; a gate runs     *)
(* what a proof was minted for; and over a durable store the boundary      *)
(* verifier permits one dispatch per proof and over a ledger one owner per *)
(* effect, with receipts that say what the evidence says.                  *)
(***************************************************************************)
EXTENDS BoundaryVerifier, SecurityPosture, ActenonGate, TLAPS

(***************************************************************************)
(* The security posture.                                                   *)
(***************************************************************************)

(* What NoSilentDowngrade says of one object.                              *)
WeaknessExcused(o, d) ==
    \/ o.scoped /\ ~o.env.flag /\ o.env.name \in DevelopmentValues \cup {""}
    \/ ~o.env.flag /\ o.env.name \in DevelopmentValues
    \/ d \in o.env.overrides
    \/ /\ o.kind = "gate" /\ d = "public_development_secret"
       /\ \E s \in Material : d \in s.weak /\ (s.scoped \/ s.env.name \in DevelopmentValues)

(* A signer has the one weakness of the public secret, and only where      *)
(* development was declared: no override admits it, and a gate that takes  *)
(* it over points to a declaration.                                        *)
SignersDeclared ==
    \A s \in Material : \A d \in s.weak :
        d = "public_development_secret" /\ (s.scoped \/ s.env.name \in DevelopmentValues)

PostureInv == NoSilentDowngrade /\ SignersDeclared

(* An object that is excused joins those that are.                         *)
LEMMA PostureGrows ==
    ASSUME PostureInv, NEW o, built' = built \cup {o}, o.listed = o.weak,
           \A d \in o.weak : WeaknessExcused(o, d),
           o.kind = "signer" =>
               \A d \in o.weak : d = "public_development_secret" /\ (o.scoped \/ o.env.name \in DevelopmentValues)
    PROVE  PostureInv'
  <1>1. Material \subseteq Material' /\ Material' \subseteq Material \cup {o}
    BY DEF Material
  <1>2. NoSilentDowngrade'
    <2>1. SUFFICES ASSUME NEW x \in built'
          PROVE  x.listed = x.weak /\ \A d \in x.weak : WeaknessExcused(x, d)'
      BY ZenonT(30) DEF NoSilentDowngrade, WeaknessExcused
    <2>2. x.listed = x.weak /\ \A d \in x.weak : WeaknessExcused(x, d)
      BY ZenonT(30) DEF PostureInv, NoSilentDowngrade, WeaknessExcused
    <2>3. QED
      BY ZenonT(30), <1>1, <2>2 DEF WeaknessExcused
  <1>3. SignersDeclared'
    BY <1>1 DEF PostureInv, SignersDeclared, Material
  <1>4. QED
    BY Zenon, <1>2, <1>3 DEF PostureInv

(* Nothing but the objects matters.                                        *)
LEMMA PostureRest ==
    ASSUME PostureInv, built' = built PROVE PostureInv'
  BY ZenonT(30) DEF PostureInv, NoSilentDowngrade, SignersDeclared, Material

(* The object a constructor makes in context c.                            *)
Made(c, kind, weak, listed) ==
    [kind |-> kind, weak |-> weak, listed |-> listed, scoped |-> declared[c] > 0, env |-> env]

(* What permit_downgrade let through in c is excused by c's own scope, the *)
(* environment or the override.                                            *)
LEMMA PermittedIsExcused ==
    ASSUME NEW c, NEW kind, NEW weak, NEW listed, NEW d, Permits(c, d)
    PROVE  WeaknessExcused(Made(c, kind, weak, listed), d)
  BY ZenonT(30) DEF Permits, DevelopmentIntent, WeaknessExcused, Made

LEMMA PostureKept == ASSUME PostureInv, [PostureNext]_postureVars PROVE PostureInv'
  <1>1. CASE UNCHANGED postureVars
    BY <1>1, PostureRest DEF postureVars
  <1>2. ASSUME NEW c \in Contexts, EnterScope(c) \/ LeaveScope(c) \/ DeclareProcess PROVE PostureInv'
    BY ZenonT(30), <1>2, PostureRest DEF EnterScope, LeaveScope, DeclareProcess
  <1>3. ASSUME NEW c \in Contexts, NEW given, BuildSigner(c, given) PROVE PostureInv'
    <2> DEFINE w == SignerWeakness(given)
               o == Made(c, "signer", w, w)
    <2>1. built' = built \cup {o}
      BY <1>3 DEF BuildSigner, Build, Made
    <2>2. \A d \in w : d = "public_development_secret" /\ DevelopmentIntent(c)
      BY Zenon, <1>3 DEF BuildSigner, SignerAllowed, SignerWeakness
    <2>3. o.listed = o.weak /\ o.weak = w /\ o.env = env /\ o.scoped = (declared[c] > 0)
      BY Zenon DEF Made
    <2>4. \A d \in w : WeaknessExcused(o, d)
      BY <2>2, PermittedIsExcused DEF Permits
    <2>5. \A d \in w : o.scoped \/ o.env.name \in DevelopmentValues
      BY ZenonT(30), <2>2, <2>3 DEF DevelopmentIntent
    <2> HIDE DEF w, o
    <2>6. QED
      BY <2>1, <2>2, <2>3, <2>4, <2>5, PostureGrows
  <1>4. ASSUME NEW c \in Contexts, NEW o, BuildExecutor(c, o) PROVE PostureInv'
    <2> DEFINE w == ExecutorDowngrades(o)
               x == Made(c, "executor", w, w)
    <2>1. built' = built \cup {x} /\ \A d \in w : Permits(c, d)
      BY <1>4 DEF BuildExecutor, Build, Made, AllPermitted
    <2>2. x.listed = x.weak /\ x.weak = w /\ x.kind = "executor"
      BY Zenon DEF Made
    <2>3. \A d \in w : WeaknessExcused(x, d)
      BY Zenon, <2>1, PermittedIsExcused
    <2> HIDE DEF w, x
    <2>4. QED
      BY Zenon, <2>1, <2>2, <2>3, PostureGrows
  <1>5. ASSUME NEW c \in Contexts, NEW o, BuildBoundary(c, o) PROVE PostureInv'
    <2> DEFINE w == BoundaryDowngrades(o)
               x == Made(c, "boundary", w, w)
    <2>1. built' = built \cup {x} /\ \A d \in w : Permits(c, d)
      BY Zenon, <1>5 DEF BuildBoundary, Build, Made, AllPermitted
    <2>2. x.listed = x.weak /\ x.weak = w /\ x.kind = "boundary"
      BY Zenon DEF Made
    <2>3. \A d \in w : WeaknessExcused(x, d)
      BY Zenon, <2>1, PermittedIsExcused
    <2> HIDE DEF w, x
    <2>4. QED
      BY Zenon, <2>1, <2>2, <2>3, PostureGrows
  <1>6. ASSUME NEW c \in Contexts, NEW o, BuildGate(c, o) PROVE PostureInv'
    <2>1. PICK s \in Material \cup {[weak |-> {}]} :
              /\ AllPermitted(c, ExecutorDowngrades(o) \cup Undeclared(o))
              /\ Build(c, "gate", ExecutorDowngrades(o) \cup Undeclared(o) \cup s.weak, GateListed(o, s))
      BY ZenonT(30), <1>6 DEF BuildGate
    <2> DEFINE own == ExecutorDowngrades(o) \cup Undeclared(o)
               x == Made(c, "gate", own \cup s.weak, own \cup s.weak)
    <2>2. built' = built \cup {x} /\ \A d \in own : Permits(c, d)
      BY Zenon, <2>1 DEF Build, Made, AllPermitted, GateListed
    <2>3. x.listed = x.weak /\ x.weak = own \cup s.weak /\ x.kind = "gate"
      BY Zenon DEF Made
    <2>4. \A d \in own : WeaknessExcused(x, d)
      BY Zenon, <2>2, PermittedIsExcused
    <2>5. \A d \in s.weak : s \in Material
      OBVIOUS
    <2> HIDE DEF own, x
    <2>6. \A d \in s.weak : WeaknessExcused(x, d)
      BY ZenonT(30), <2>3, <2>5 DEF PostureInv, SignersDeclared, WeaknessExcused
    <2>7. QED
      BY Zenon, <2>2, <2>3, <2>4, <2>6, PostureGrows
  <1>7. ASSUME NEW c \in Contexts, NEW o, LocalDev(c, o) PROVE PostureInv'
    <2> DEFINE w == ExecutorDowngrades(o) \cup Undeclared(o) \cup SignerWeakness("none")
               x == [kind |-> "gate", scoped |-> TRUE, env |-> env, weak |-> w, listed |-> w]
    <2>1. built' = built \cup {x}
      BY Zenon, <1>7 DEF LocalDev, GateListed
    <2>2. x.listed = x.weak /\ x.kind = "gate" /\ x.scoped /\ x.env = env
      OBVIOUS
    <2>3. ~env.flag /\ env.name \in DevelopmentValues \cup {""}
      BY ZenonT(30), <1>7 DEF LocalDev, Declarable
    <2> HIDE DEF w, x
    <2>4. \A d \in x.weak : WeaknessExcused(x, d)
      BY ZenonT(30), <2>2, <2>3 DEF WeaknessExcused
    <2>5. QED
      BY Zenon, <2>1, <2>2, <2>4, PostureGrows
  <1>8. QED
    BY <1>1, <1>2, <1>3, <1>4, <1>5, <1>6, <1>7 DEF PostureNext

(* However many contexts build objects in whatever order, no object is     *)
(* weaker than it lists, and each weakness has its declaration.            *)
THEOREM NoSilentDowngradeTheorem ==
    PostureSpec => []NoSilentDowngrade
  <1>1. PostureInit => PostureInv
    BY DEF PostureInit, PostureInv, NoSilentDowngrade, SignersDeclared, Material
  <1>2. PostureInv /\ [PostureNext]_postureVars => PostureInv'
    BY PostureKept
  <1>3. PostureInv => NoSilentDowngrade
    BY Zenon DEF PostureInv
  <1>4. QED
    BY <1>1, <1>2, <1>3, PTL DEF PostureSpec

(***************************************************************************)
(* The gate.                                                               *)
(***************************************************************************)

GatePcs == {"adapt", "protect", "execute", "run", "done"}
Refusals == {"none", "http400", "http422", "raised", "NO_PROOF", "PCCB_REQUIRED", "SCHEMA",
             "VERIFICATION", "POLICY", "AUTHORITY"}
Results == Refusals \cup {"executed"}

GateType ==
    /\ gateCall \in [GateCalls -> [req : GateRequests, pc : GatePcs, result : Results]]
    /\ minted \in [Ids -> Payloads \cup {Unminted}]
    /\ DOMAIN effects = Ids

(* What is known of a call by the place it has reached: an edge past its   *)
(* adapter binds the raw request; a call that may look its proof up has    *)
(* one; a call that spent its proof was verified against the intent the    *)
(* proof was minted for; and a call that ran used the authority up.        *)
Passed(k) == k.pc \in {"protect", "execute", "run"} \/ k.result = "executed"
Verified(k) == k.pc = "run" \/ k.result = "executed"

CallSound(k) ==
    /\ k.result = "executed" => k.pc = "done"
    /\ k.pc \in {"execute", "run"} \/ k.result = "executed" => k.req.header \in Ids
    /\ Passed(k) /\ k.req.adapter = "edge" => BindsRequest(k.req)
    /\ Verified(k) => minted[k.req.header] = Intent(k.req.payload, k.req.lossy)
    /\ k.result = "executed" =>
          /\ k.req.header \in ran
          /\ k.req.adapter = "edge" => effects[k.req.header] = k.req.payload

GateInv == GateType /\ (\A c \in GateCalls : CallSound(gateCall[c])) /\ PolicyRefusalSpendsNothing

(* What a gate step may do to the rest: a minted proof stays as it is, the *)
(* effect of a proof that ran stays, and the policy is fixed.              *)
Preserves ==
    /\ policy' = policy /\ ran \subseteq ran'
    /\ \A i \in Ids : minted[i] # Unminted => minted'[i] = minted[i]
    /\ \A i \in ran \cap Ids : effects'[i] = effects[i]

(* No intent is the mark of an unminted proof.                             *)
LEMMA IntentIsMinted ==
    ASSUME NEW r \in GateRequests PROVE Intent(r.payload, r.lossy) # Unminted
  BY GateAssumption DEF Intent, Unminted

LEMMA CallKept ==
    ASSUME NEW k, k.req \in GateRequests, CallSound(k), Preserves
    PROVE  CallSound(k)'
  BY Zenon, IntentIsMinted DEF CallSound, Preserves, Passed, Verified

(* A step of one call, or of none, in a system that preserves the rest.    *)
LEMMA GateMoves ==
    ASSUME GateInv, Preserves, GateType', NEW c \in GateCalls, NEW k,
           gateCall' = [gateCall EXCEPT ![c] = k], k.req = gateCall[c].req,
           CallSound(k)', Verified(gateCall[c]) => Verified(k),
           \A i \in spent' : i \in spent \/ (i = k.req.header /\ Verified(k) /\ Preflight(k.req) = "allow")
    PROVE  GateInv'
  <1>1. \A d \in GateCalls : CallSound(gateCall[d])'
    <2>1. TAKE d \in GateCalls
    <2>2. CASE d = c
      BY Zenon, <2>2 DEF GateInv, GateType
    <2>3. CASE d # c
      <3>1. gateCall'[d] = gateCall[d] /\ gateCall[d].req \in GateRequests /\ CallSound(gateCall[d])
        BY Zenon, <2>3 DEF GateInv, GateType
      <3>3. PICK x : x = gateCall[d]
        BY Zenon
      <3>4. CallSound(x)'
        BY Zenon, <3>1, <3>3, CallKept
      <3>5. QED
        BY Zenon, <3>1, <3>3, <3>4 DEF CallSound, Passed, Verified
    <2>4. QED
      BY Zenon, <2>2, <2>3
  <1>2. PolicyRefusalSpendsNothing'
    <2>1. ASSUME NEW i \in spent' PROVE
            \E d \in GateCalls : /\ gateCall'[d].req.header = i /\ Preflight(gateCall[d].req)' = "allow"
                                 /\ Verified(gateCall'[d])
      <3>1. \A d \in GateCalls : gateCall'[d].req = gateCall[d].req /\ Preflight(gateCall[d].req)' = Preflight(gateCall[d].req)
        BY Zenon DEF Preflight, Preserves, GateInv, GateType
      <3>2. gateCall'[c] = k
        BY Zenon DEF GateInv, GateType
      <3>3. CASE i \in spent
        <4>1. PICK d \in GateCalls : /\ gateCall[d].req.header = i /\ Preflight(gateCall[d].req) = "allow"
                                     /\ Verified(gateCall[d])
          BY Zenon, <3>3 DEF GateInv, PolicyRefusalSpendsNothing, Verified
        <4>2. gateCall'[d].req = gateCall[d].req /\ Verified(gateCall'[d])
          BY Zenon, <3>2, <4>1 DEF GateInv, GateType
        <4>3. QED
          BY Zenon, <3>1, <4>1, <4>2
      <3>4. CASE i \notin spent
        BY Zenon, <3>1, <3>2, <3>4
      <3>5. QED
        BY Zenon, <3>3, <3>4
    <2>2. QED
      BY Zenon, <2>1 DEF PolicyRefusalSpendsNothing, Verified
  <1>3. QED
    BY Zenon, <1>1, <1>2 DEF GateInv

(* A step of the issuer.                                                   *)
LEMMA IssuerMoves ==
    ASSUME GateInv, Preserves, GateType', gateCall' = gateCall, spent' = spent
    PROVE  GateInv'
  <1>1. \A d \in GateCalls : CallSound(gateCall[d])'
    <2>1. TAKE d \in GateCalls
    <2>2. PICK x : x = gateCall[d]
      BY Zenon
    <2>3. CallSound(x)'
      BY Zenon, <2>2, CallKept DEF GateInv, GateType
    <2>4. QED
      BY Zenon, <2>2, <2>3 DEF CallSound, Passed, Verified
  <1>2. PolicyRefusalSpendsNothing'
    BY DEF PolicyRefusalSpendsNothing, GateInv, Preflight, Preserves
  <1>3. QED
    BY Zenon, <1>1, <1>2 DEF GateInv

(* The call c with a new place and result.                                 *)
CallMoved(c, pc, result) == [gateCall[c] EXCEPT !.pc = pc, !.result = result]

LEMMA MovedFields ==
    ASSUME GateType, NEW c \in GateCalls, NEW pc \in GatePcs, NEW result \in Results, GateStep(c, pc, result)
    PROVE  /\ gateCall' = [gateCall EXCEPT ![c] = CallMoved(c, pc, result)]
           /\ CallMoved(c, pc, result).req = gateCall[c].req
           /\ CallMoved(c, pc, result).pc = pc /\ CallMoved(c, pc, result).result = result
           /\ gateCall' \in [GateCalls -> [req : GateRequests, pc : GatePcs, result : Results]]
  BY ZenonT(30) DEF GateType, GateStep, CallMoved

(* A call that ends without running, or goes on to the next place.         *)
LEMMA GateRefuses ==
    ASSUME GateInv, NEW c \in GateCalls, NEW pc \in {"protect", "execute", "done"},
           NEW result \in Refusals, GateStep(c, pc, result), Untouched,
           ~Verified(gateCall[c]),
           pc = "execute" => gateCall[c].req.header \in Ids,
           pc # "done" /\ gateCall[c].req.adapter = "edge" => BindsRequest(gateCall[c].req)
    PROVE  GateInv'
  <1> PICK k : k = CallMoved(c, pc, result)
    OBVIOUS
  <1>1. /\ gateCall' = [gateCall EXCEPT ![c] = k] /\ k.req = gateCall[c].req
        /\ k.pc = pc /\ k.result = result
        /\ gateCall' \in [GateCalls -> [req : GateRequests, pc : GatePcs, result : Results]]
    BY MovedFields DEF GateInv, GatePcs, Results
  <1>2. Preserves /\ spent' = spent /\ GateType'
    BY Zenon, <1>1 DEF Untouched, Preserves, GateInv, GateType
  <1>3. CallSound(k)'
    BY Zenon, <1>1 DEF CallSound, Passed, Verified, BindsRequest, Refusals
  <1>4. QED
    BY ZenonT(30), <1>1, <1>2, <1>3, GateMoves DEF Verified

LEMMA AdapterErrors ==
    ASSUME NEW r
    PROVE  /\ AdapterError(r) \in {"http400", "http422", "raised", "none"}
           /\ AdapterError(r) = "none" /\ r.adapter = "edge" => BindsRequest(r)
  BY Zenon DEF AdapterError

LEMMA MintKept ==
    ASSUME GateInv, NEW i \in Ids, NEW p \in Payloads, minted[i] = Unminted,
           minted' = [minted EXCEPT ![i] = p],
           UNCHANGED <<gateCall, policy, spent, ran, effects>>
    PROVE  GateInv'
  <1>1. Preserves /\ GateType'
    BY Zenon DEF GateInv, GateType, Preserves
  <1>2. QED
    BY Zenon, <1>1, IssuerMoves

LEMMA GateKept == ASSUME GateInv, [GateNext]_gateVars PROVE GateInv'
  <1>1. ASSUME minted' = minted, UNCHANGED <<gateCall, policy, spent, ran, effects>> PROVE GateInv'
    <2>1. Preserves /\ GateType'
      BY Zenon, <1>1 DEF GateInv, GateType, Preserves
    <2>2. QED
      BY Zenon, <1>1, <2>1, IssuerMoves
  <1>2. CASE UNCHANGED gateVars
    BY Zenon, <1>1, <1>2 DEF gateVars
  <1>3. ASSUME NEW i \in Ids, NEW p \in Payloads, MintProof(i, p) PROVE GateInv'
    BY ZenonT(30), <1>3, MintKept DEF MintProof
  <1>4. ASSUME NEW i \in Ids, NEW p \in Payloads, NEW v, MintAfterPreflight(i, p, v) PROVE GateInv'
    BY Zenon, <1>1, <1>4, MintKept DEF MintAfterPreflight
  <1>5. ASSUME NEW i \in Ids, IssueEscrow(i) PROVE GateInv'
    BY Zenon, <1>1, <1>5 DEF IssueEscrow
  <1>6. ASSUME NEW c \in GateCalls, Adapt(c) PROVE GateInv'
    <2>1. gateCall[c].pc = "adapt" /\ Untouched /\ ~Verified(gateCall[c])
      BY Zenon, <1>6 DEF Adapt, GateInv, CallSound, Verified
    <2>2. CASE AdapterError(gateCall[c].req) = "none"
      <3>1. GateStep(c, "protect", "none")
        BY Zenon, <1>6, <2>2 DEF Adapt
      <3>2. QED
        BY Zenon, <2>1, <2>2, <3>1, AdapterErrors, GateRefuses DEF Refusals
    <2>3. CASE AdapterError(gateCall[c].req) # "none"
      <3>1. PICK e \in {"http400", "http422", "raised"} : GateStep(c, "done", e)
        BY Zenon, <1>6, <2>3, AdapterErrors DEF Adapt
      <3>2. QED
        BY Zenon, <2>1, <3>1, GateRefuses DEF Refusals
    <2>4. QED
      BY Zenon, <2>2, <2>3
  <1>7. ASSUME NEW c \in GateCalls, Protect(c) PROVE GateInv'
    <2>1. /\ gateCall[c].pc = "protect" /\ ~Verified(gateCall[c]) /\ gateCall[c].req \in GateRequests
          /\ gateCall[c].req.adapter = "edge" => BindsRequest(gateCall[c].req)
      BY Zenon, <1>7 DEF Protect, GateInv, GateType, CallSound, Verified, Passed
    <2>2. CASE Presented(gateCall[c].req) \in {"none", "malformed", "untyped"}
      <3>1. Untouched /\ \E code \in {"NO_PROOF", "PCCB_REQUIRED", "SCHEMA", "raised"} : GateStep(c, "done", code)
        BY Zenon, <1>7, <2>2 DEF Protect, GateRefuse
      <3>2. QED
        BY Zenon, <2>1, <3>1, GateRefuses DEF Refusals
    <2>3. CASE Presented(gateCall[c].req) \notin {"none", "malformed", "untyped"}
      <3>1. Untouched /\ GateStep(c, "execute", "none")
        BY Zenon, <1>7, <2>3 DEF Protect, GateRefuse
      <3>2. gateCall[c].req.header \in Ids
        BY Zenon, <2>1, <2>3, GateAssumption DEF Presented
      <3>3. QED
        BY Zenon, <2>1, <3>1, <3>2, GateRefuses DEF Refusals
    <2>4. QED
      BY Zenon, <2>2, <2>3
  <1>8. ASSUME NEW c \in GateCalls, Execute(c) PROVE GateInv'
    <2> DEFINE r == gateCall[c].req
               i == r.header
    <2>1. /\ gateCall[c].pc = "execute" /\ ~Verified(gateCall[c]) /\ i \in Ids
          /\ r.adapter = "edge" => BindsRequest(r)
      BY Zenon, <1>8 DEF Execute, GateInv, GateType, CallSound, Verified, Passed
    <2>2. ASSUME NEW code \in {"VERIFICATION", "POLICY", "AUTHORITY"}, GateStep(c, "done", code), Untouched
          PROVE  GateInv'
      BY Zenon, <2>1, <2>2, GateRefuses DEF Refusals
    <2>3. ASSUME minted[i] = Intent(r.payload, r.lossy), Preflight(r) = "allow",
                 Authority!Spend(i), GateStep(c, "run", "none"),
                 UNCHANGED <<policy, minted, effects>>
          PROVE  GateInv'
      <3> PICK k : k = CallMoved(c, "run", "none")
        BY Zenon
      <3>1. /\ gateCall' = [gateCall EXCEPT ![c] = k] /\ k.req = r
            /\ k.pc = "run" /\ k.result = "none"
            /\ gateCall' \in [GateCalls -> [req : GateRequests, pc : GatePcs, result : Results]]
        <4>1. GateStep(c, "run", "none") /\ GateType
          BY Zenon, <2>3 DEF GateInv
        <4>2. "run" \in GatePcs /\ "none" \in Results
          BY Zenon DEF GatePcs, Results, Refusals
        <4>3. QED
          BY <4>1, <4>2, MovedFields
      <3>2. Preserves /\ spent' = spent \cup {i} /\ GateType'
        BY Zenon, <2>3, <3>1 DEF Preserves, GateInv, GateType, Authority!Spend
      <3>3. CallSound(k)'
        BY Zenon, <2>1, <2>3, <3>1 DEF CallSound, Passed, Verified, BindsRequest
      <3>4. QED
        BY ZenonT(30), <2>1, <2>3, <3>1, <3>2, <3>3, GateMoves DEF Verified
    <2>4. QED
      BY Zenon, <1>8, <2>2, <2>3 DEF Execute
  <1>9. ASSUME NEW c \in GateCalls, Run(c) PROVE GateInv'
    <2> DEFINE r == gateCall[c].req
               i == r.header
    <2> PICK k : k = CallMoved(c, "done", "executed")
      BY Zenon
    <2>1. /\ gateCall[c].pc = "run" /\ i \in Ids
          /\ r.adapter = "edge" => BindsRequest(r)
          /\ minted[i] = Intent(r.payload, r.lossy)
      BY Zenon, <1>9 DEF Run, GateInv, GateType, CallSound, Verified, Passed
    <2>2. /\ GateStep(c, "done", "executed") /\ policy' = policy /\ minted' = minted
          /\ i \notin ran /\ ran' = ran \cup {i} /\ spent' = spent
          /\ effects' = [effects EXCEPT ![i] = IF r.adapter = "edge" THEN Intent(r.payload, r.lossy) ELSE r.payload]
      BY Zenon, <1>9 DEF Run, Authority!Run
    <2>3. /\ gateCall' = [gateCall EXCEPT ![c] = k] /\ k.req = r
          /\ k.pc = "done" /\ k.result = "executed"
          /\ gateCall' \in [GateCalls -> [req : GateRequests, pc : GatePcs, result : Results]]
      BY <2>2, MovedFields DEF GateInv, GatePcs, Results
    <2>4. Preserves /\ GateType'
      BY Zenon, <2>1, <2>2, <2>3 DEF Preserves, GateInv, GateType
    <2>5. r.adapter = "edge" => effects'[i] = r.payload
      BY Zenon, <2>1, <2>2 DEF GateInv, GateType, BindsRequest
    <2>6. CallSound(k)'
      BY Zenon, <2>1, <2>2, <2>3, <2>5 DEF CallSound, Passed, Verified, BindsRequest
    <2>7. QED
      BY ZenonT(30), <2>2, <2>3, <2>4, <2>6, GateMoves DEF Verified
  <1>10. QED
    BY Zenon, <1>2, <1>3, <1>4, <1>5, <1>6, <1>7, <1>8, <1>9 DEF GateNext

LEMMA GateInitially == GateInit => GateInv
  <1> SUFFICES ASSUME GateInit PROVE GateInv
    BY Zenon
  <1>2. PICK f \in [GateCalls -> GateRequests] :
            gateCall = [c \in GateCalls |-> [req |-> f[c], pc |-> "adapt", result |-> "none"]]
    BY Zenon DEF GateInit
  <1>3. GateType
    BY Zenon, <1>2 DEF GateInit, GateType, GatePcs, Results, Refusals
  <1>4. \A c \in GateCalls : CallSound(gateCall[c])
    BY Zenon, <1>2 DEF CallSound, Passed, Verified
  <1>5. spent = {}
    BY Zenon DEF GateInit, Authority!Init
  <1>6. QED
    BY Zenon, <1>3, <1>4, <1>5 DEF GateInv, PolicyRefusalSpendsNothing

(* Whatever adapters, policies, proofs and concurrent calls there are: an  *)
(* edge ran the raw request a proof was minted for, and a proof was spent  *)
(* only by a call its policy allowed.                                      *)
THEOREM GateRunsWhatWasMintedTheorem ==
    GateSpec => []GateRunsWhatWasMinted
  <1>1. GateInit => GateInv
    BY GateInitially
  <1>2. GateInv /\ [GateNext]_gateVars => GateInv'
    BY Zenon, GateKept
  <1>3. GateInv => GateRunsWhatWasMinted
    BY Zenon DEF GateInv, CallSound, Passed, Verified, BindsRequest, GateRunsWhatWasMinted, EdgeRunsWhatWasMinted
  <1>4. QED
    BY <1>1, <1>2, <1>3, PTL DEF GateSpec

(***************************************************************************)
(* The boundary verifier.                                                  *)
(***************************************************************************)

RefusalCodes == {"PROOF_MISSING", "ISSUER_UNTRUSTED", "PROOF_INVALID", "MALFORMED_REQUEST",
                 "ACTION_MISMATCH", "TARGET_MISMATCH", "PROOF_EXPIRED", "ACTION_HASH_MISMATCH",
                 "POLICY_REFUSAL", "REPLAY_DETECTED", "REPLAY_STORE_UNAVAILABLE"}

Ends == {"reported", "foreign", "COMMITTED", "NOT_EXECUTED", "AMBIGUOUS"}

CallType == [request : BoundaryRequests,
             pc : {"verify", "claim", "reread", "mark", "remember", "effect", "valid", "refused"}
                  \cup Ends,
             now : Int, code : RefusalCodes \cup {"none", "OK"}, owns : BOOLEAN,
             receipt : {"none", "succeeded", "refused", "outcome_unknown", "raised"}]

BoundaryType == /\ boundaryCall \in [BoundaryCalls -> CallType]
          /\ boundaryRow \in [Keys -> Status]
          /\ boundaryClock \in Int

(* Past mark_consumed, whatever came of it.                                *)
Secured(c) == boundaryCall[c].pc = "effect" \/ Permitted(c)

(* Whoever is past mark_consumed made the one transition of its row to     *)
(* consumed, and the in-memory set is never asked.                         *)
RowInv ==
    config.durable =>
        /\ \A c \in BoundaryCalls : boundaryCall[c].pc # "remember"
        /\ \A c \in BoundaryCalls : Secured(c) => boundaryRow[KeyOf(c)] = "consumed"
        /\ \A c, d \in BoundaryCalls : c # d /\ Secured(c) /\ Secured(d) => KeyOf(c) # KeyOf(d)

(* The effect of a permitted call is in the ledger because that call put   *)
(* it there.                                                               *)
LedgerInv ==
    config.ledger =>
        /\ \A c \in BoundaryCalls : Permitted(c) => boundaryCall[c].request.effect \in ledger
        /\ \A c, d \in BoundaryCalls : c # d /\ Permitted(c) /\ Permitted(d) =>
               boundaryCall[c].request.effect # boundaryCall[d].request.effect

ReceiptInv ==
    /\ \A c \in BoundaryCalls : boundaryCall[c].receipt # "none" => boundaryCall[c].pc \in Ends
    /\ EffectReceiptHonest

BoundaryInv == BoundaryType /\ RowInv /\ LedgerInv /\ ReceiptInv

(* The first failing check of a list of at most ten is one of them.        *)
LEMMA LeastIsMember ==
    ASSUME NEW S \in SUBSET (1 .. 10), S # {}
    PROVE  Least(S) \in S
  <1> DEFINE First(k) == k \in S /\ \A m \in S : k <= m
  <1>1. \A k \in 1 .. 10 : First(k) => Least(S) \in S
    BY Zenon DEF Least
  <1>2. \A k \in 1 .. 10 : k \in S /\ (\A j \in 1 .. (k - 1) : j \notin S) => First(k)
    OBVIOUS
  <1> HIDE DEF First
  <1>3. ASSUME NEW k \in 1 .. 10, \A j \in 1 .. 10 : j < k => j \notin S, Least(S) \notin S
        PROVE  k \notin S
    BY <1>1, <1>2, <1>3
  <1>4. Least(S) \notin S => 1 \notin S /\ 2 \notin S /\ 3 \notin S /\ 4 \notin S
    BY <1>3
  <1>5. Least(S) \notin S => 5 \notin S /\ 6 \notin S /\ 7 \notin S
    BY <1>3, <1>4
  <1>6. Least(S) \notin S => 8 \notin S /\ 9 \notin S /\ 10 \notin S
    BY <1>3, <1>4, <1>5
  <1>7. PICK x \in S : x \in 1 .. 10
    BY Zenon
  <1>8. x \in {1, 2, 3, 4, 5, 6, 7, 8, 9, 10}
    BY <1>7
  <1>9. QED
    BY <1>4, <1>5, <1>6, <1>7, <1>8

(* A failed check refuses with a code of its own, never with success.      *)
LEMMA ChecksRefuse ==
    ASSUME NEW r, NEW S, S = {n \in DOMAIN Checks(r) : Checks(r)[n].fails}, S # {}
    PROVE  Checks(r)[Least(S)].code \in RefusalCodes
  <1>1. DOMAIN Checks(r) = 1 .. 10
    BY DEF Checks
  <1>2. S \in SUBSET (1 .. 10)
    BY Zenon, <1>1
  <1>3. Least(S) \in {1, 2, 3, 4, 5, 6, 7, 8, 9, 10}
    <2>1. Least(S) \in 1 .. 10
      BY Zenon, <1>1, <1>2, LeastIsMember
    <2>2. QED
      BY <2>1
  <1>4. /\ Checks(r)[1].code = "PROOF_MISSING" /\ Checks(r)[2].code = "ISSUER_UNTRUSTED"
        /\ Checks(r)[3].code = "PROOF_INVALID" /\ Checks(r)[4].code = "MALFORMED_REQUEST"
        /\ Checks(r)[5].code = "ACTION_MISMATCH" /\ Checks(r)[6].code = "TARGET_MISMATCH"
        /\ Checks(r)[7].code = "PROOF_INVALID" /\ Checks(r)[8].code = "PROOF_EXPIRED"
        /\ Checks(r)[9].code = "ACTION_HASH_MISMATCH" /\ Checks(r)[10].code = "POLICY_REFUSAL"
    BY Zenon DEF Checks, Failing
  <1>5. QED
    BY <1>3, <1>4 DEF RefusalCodes

LEMMA ReferenceRefuses ==
    ASSUME NEW r, BadReference(r) # {}
    PROVE  ReferenceChecks(r)[Least(BadReference(r))].code \in RefusalCodes
  <1>1. DOMAIN ReferenceChecks(r) = 1 .. 4
    BY DEF ReferenceChecks
  <1>2. BadReference(r) \in SUBSET (1 .. 10)
    BY <1>1 DEF BadReference
  <1>3. Least(BadReference(r)) \in {1, 2, 3, 4}
    <2>1. Least(BadReference(r)) \in 1 .. 4
      BY Zenon, <1>1, <1>2, LeastIsMember DEF BadReference
    <2>2. QED
      BY <2>1
  <1>4. /\ ReferenceChecks(r)[1].code = "MALFORMED_REQUEST"
        /\ ReferenceChecks(r)[2].code = "ACTION_MISMATCH"
        /\ ReferenceChecks(r)[3].code = "ISSUER_UNTRUSTED"
        /\ ReferenceChecks(r)[4].code = "ACTION_MISMATCH"
    BY Zenon DEF ReferenceChecks, Failing
  <1>5. QED
    BY Zenon, <1>3, <1>4 DEF RefusalCodes

(* A step of one call that gains neither security nor permission, and      *)
(* takes back no consumption and no claim of an effect.                    *)
LEMMA QuietMove ==
    ASSUME BoundaryInv, NEW c \in BoundaryCalls, NEW f \in CallType, BoundaryStep(c, f),
           f.request = boundaryCall[c].request, config' = config, boundaryClock' = boundaryClock,
           boundaryRow' \in [Keys -> Status], \A k \in Keys : boundaryRow[k] = "consumed" => boundaryRow'[k] = "consumed",
           ledger \subseteq ledger',
           f.pc = "effect" \/ f.code = "OK" => Secured(c) \/ ~config.durable,
           f.code = "OK" => Permitted(c) \/ ~config.ledger,
           f.pc = "remember" => ~config.durable,
           boundaryCall[c].receipt = "none", f.receipt = "none"
    PROVE  BoundaryInv'
  <1>0. BoundaryType /\ RowInv /\ LedgerInv /\ ReceiptInv
    BY Zenon DEF BoundaryInv
  <1>1. boundaryCall' \in [BoundaryCalls -> CallType] /\ boundaryCall'[c] = f
        /\ \A d \in BoundaryCalls : d # c => boundaryCall'[d] = boundaryCall[d]
    BY Zenon, <1>0 DEF BoundaryType, BoundaryStep
  <1>2. \A d \in BoundaryCalls : KeyOf(d)' = KeyOf(d) /\ KeyOf(d) \in Keys
                                /\ boundaryCall'[d].request = boundaryCall[d].request
    BY Zenon, <1>1, RequestAssumption DEF KeyOf, BoundaryInv, BoundaryType, CallType
  <1>3. BoundaryType'
    BY Zenon, <1>0, <1>1 DEF BoundaryType
  <1>4. RowInv'
    BY <1>0, <1>1, <1>2 DEF RowInv, Secured, Permitted
  <1>5. LedgerInv'
    BY <1>0, <1>1, <1>2 DEF LedgerInv, Permitted
  <1>6. ReceiptInv'
    BY Zenon, <1>0, <1>1 DEF ReceiptInv, EffectReceiptHonest
  <1>7. QED
    BY Zenon, <1>3, <1>4, <1>5, <1>6 DEF BoundaryInv

LEMMA BoundaryInitially == BoundaryInit => BoundaryInv
  BY DEF BoundaryInit, NewCall, BoundaryInv, BoundaryType, CallType, RowInv, LedgerInv, ReceiptInv, Status,
         Secured, Permitted, EffectReceiptHonest

(* A call that still takes steps has no receipt.                           *)
LEMMA NoReceiptYet ==
    ASSUME BoundaryInv, NEW c \in BoundaryCalls, boundaryCall[c].pc \notin Ends
    PROVE  boundaryCall[c].receipt = "none"
  BY Zenon DEF BoundaryInv, ReceiptInv

LEMMA RefusedTyped ==
    ASSUME BoundaryInv, NEW c \in BoundaryCalls, NEW code \in RefusalCodes
    PROVE  /\ Refused(c, code) \in CallType
           /\ Refused(c, code).request = boundaryCall[c].request
           /\ Refused(c, code).receipt = boundaryCall[c].receipt
           /\ Refused(c, code).pc = "refused"
           /\ Refused(c, code).code # "OK"
  BY ZenonT(30) DEF BoundaryInv, BoundaryType, CallType, Refused, RefusalCodes

LEMMA ProceedTyped ==
    ASSUME BoundaryInv, NEW c \in BoundaryCalls,
           NEW pc \in {"claim", "reread", "mark", "remember", "effect"}
    PROVE  /\ Proceed(c, pc) \in CallType
           /\ Proceed(c, pc).request = boundaryCall[c].request
           /\ Proceed(c, pc).receipt = boundaryCall[c].receipt
           /\ Proceed(c, pc).pc = pc
           /\ Proceed(c, pc).code = boundaryCall[c].code
  BY DEF BoundaryInv, BoundaryType, CallType, Proceed

LEMMA VerifyKeeps ==
    ASSUME BoundaryInv, NEW c \in BoundaryCalls, Verify(c)
    PROVE  BoundaryInv'
  <1>0. BoundaryType /\ RowInv /\ LedgerInv /\ ReceiptInv
    BY Zenon DEF BoundaryInv
  <1> DEFINE r == boundaryCall[c].request
             bad == {n \in DOMAIN Checks(r) : Checks(r)[n].fails}
             g == IF bad = {} THEN Proceed(c, IF config.durable THEN "claim" ELSE "remember")
                  ELSE Refused(c, Checks(r)[Least(bad)].code)
             f == [g EXCEPT !.now = boundaryClock]
  <1>1. BoundaryStep(c, f) /\ boundaryCall[c].pc = "verify" /\ UNCHANGED <<config, boundaryRow, memory, ledger, boundaryClock>>
    BY ZenonT(30) DEF Verify
  <1>2. bad # {} => Checks(r)[Least(bad)].code \in RefusalCodes
    BY Zenon, ChecksRefuse
  <1>3. boundaryCall[c].receipt = "none"
    BY ZenonT(30), <1>1, NoReceiptYet DEF Ends
  <1>4. /\ g \in CallType /\ g.request = boundaryCall[c].request /\ g.receipt = "none" /\ g.pc # "effect"
        /\ g.pc = "remember" => ~config.durable
        /\ g.code = "OK" => Permitted(c)
    <2> HIDE DEF bad
    <2>1. CASE bad = {}
      BY <1>3, <2>1, ProceedTyped DEF Permitted
    <2>2. CASE bad # {}
      BY Zenon, <1>2, <1>3, <2>2, RefusedTyped
    <2>3. QED
      BY ZenonT(30), <2>1, <2>2
  <1> HIDE DEF g
  <1>5. /\ f \in CallType /\ f.request = g.request /\ f.receipt = g.receipt /\ f.pc = g.pc
        /\ f.code = g.code
    BY Zenon, <1>4 DEF CallType, BoundaryInv, BoundaryType
  <1> HIDE DEF f
  <1>6. boundaryRow' \in [Keys -> Status]
    BY Zenon, <1>0, <1>1 DEF BoundaryType
  <1>7. QED
    BY <1>1, <1>3, <1>4, <1>5, <1>6, QuietMove DEF Secured

LEMMA ClaimKeeps ==
    ASSUME BoundaryInv, NEW c \in BoundaryCalls, Claim(c)
    PROVE  BoundaryInv'
  <1>0. BoundaryType /\ RowInv /\ LedgerInv /\ ReceiptInv
    BY Zenon DEF BoundaryInv
  <1>1. boundaryCall[c].receipt = "none"
    BY Zenon, NoReceiptYet DEF Claim, Ends
  <1>2. "REPLAY_DETECTED" \in RefusalCodes
    BY Zenon DEF RefusalCodes
  <1>3. boundaryRow \in [Keys -> Status]
    BY Zenon, <1>0 DEF BoundaryType
  <1>4. CASE Claimable(boundaryRow, KeyOf(c), boundaryCall[c].now)
    <2>1. boundaryRow' = Claimed(boundaryRow, KeyOf(c)) /\ BoundaryStep(c, Proceed(c, "reread"))
      BY Zenon, <1>4 DEF Claim
    <2>2. /\ boundaryRow' \in [Keys -> Status]
          /\ \A k \in Keys : boundaryRow[k] = "consumed" => boundaryRow'[k] = "consumed"
      BY ZenonT(30), <1>3, <1>4, <2>1 DEF Claimable, Claimed, Status
    <2>3. QED
      BY <1>1, <2>1, <2>2, ProceedTyped, QuietMove DEF Claim, Secured, Permitted
  <1>5. CASE ~Claimable(boundaryRow, KeyOf(c), boundaryCall[c].now)
    <2>1. boundaryRow' = boundaryRow /\ BoundaryStep(c, Refused(c, "REPLAY_DETECTED"))
      BY Zenon, <1>5 DEF Claim
    <2>2. QED
      BY Zenon, <1>1, <1>2, <1>3, <2>1, RefusedTyped, QuietMove DEF Claim
  <1>6. QED
    BY Zenon, <1>4, <1>5

LEMMA BoundaryRereadKeeps ==
    ASSUME BoundaryInv, NEW c \in BoundaryCalls, BoundaryReread(c)
    PROVE  BoundaryInv'
  <1>0. BoundaryType /\ RowInv /\ LedgerInv /\ ReceiptInv
    BY DEF BoundaryInv
  <1>1. boundaryCall[c].receipt = "none"
    BY Zenon, NoReceiptYet DEF BoundaryReread, Ends
  <1>2. boundaryRow \in [Keys -> Status]
    BY Zenon, <1>0 DEF BoundaryType
  <1>3. /\ boundaryRow' \in [Keys -> Status]
        /\ \A k \in Keys : boundaryRow[k] = "consumed" => boundaryRow'[k] = "consumed"
    BY ZenonT(30), <1>2 DEF BoundaryReread, Inspected, Status
  <1>4. /\ BoundaryStep(c, Proceed(c, "mark"))
        /\ config' = config /\ ledger' = ledger /\ boundaryClock' = boundaryClock
    BY Zenon DEF BoundaryReread
  <1>5. /\ Proceed(c, "mark") \in CallType
        /\ Proceed(c, "mark").request = boundaryCall[c].request
        /\ Proceed(c, "mark").receipt = boundaryCall[c].receipt
        /\ Proceed(c, "mark").pc = "mark"
        /\ Proceed(c, "mark").code = boundaryCall[c].code
    BY Zenon, ProceedTyped
  <1>6. QED
    BY Zenon, <1>1, <1>3, <1>4, <1>5, QuietMove DEF Secured, Permitted

LEMMA StoreRaisesKeeps ==
    ASSUME BoundaryInv, NEW c \in BoundaryCalls, StoreRaises(c)
    PROVE  BoundaryInv'
  <1>0. BoundaryType /\ RowInv /\ LedgerInv /\ ReceiptInv
    BY DEF BoundaryInv
  <1>1. boundaryCall[c].receipt = "none"
    BY Zenon, NoReceiptYet DEF StoreRaises, Ends
  <1>2. "REPLAY_STORE_UNAVAILABLE" \in RefusalCodes
    BY Zenon DEF RefusalCodes
  <1>3. boundaryRow \in [Keys -> Status]
    BY <1>0 DEF BoundaryType
  <1>4. boundaryRow' = boundaryRow \/ boundaryRow' = Consumed(boundaryRow, KeyOf(c))
    BY Zenon DEF StoreRaises
  <1>5. /\ boundaryRow' \in [Keys -> Status]
        /\ \A k \in Keys : boundaryRow[k] = "consumed" => boundaryRow'[k] = "consumed"
    BY Zenon, <1>3, <1>4 DEF Consumed, Status
  <1>6. QED
    BY Zenon, <1>1, <1>2, <1>5, RefusedTyped, QuietMove DEF StoreRaises

(* The one step that secures a call: it found the row claimed, so no call  *)
(* secured before it has that key.                                         *)
LEMMA MarkKeeps ==
    ASSUME BoundaryInv, NEW c \in BoundaryCalls, Mark(c)
    PROVE  BoundaryInv'
  <1>0. BoundaryType /\ RowInv /\ LedgerInv /\ ReceiptInv
    BY DEF BoundaryInv
  <1>1. boundaryCall[c].receipt = "none"
    BY Zenon, NoReceiptYet DEF Mark, Ends
  <1>2. boundaryRow \in [Keys -> Status]
    BY <1>0 DEF BoundaryType
  <1>3. CASE ~Consumable(boundaryRow, KeyOf(c))
    <2>1. boundaryRow' = boundaryRow /\ BoundaryStep(c, Refused(c, "REPLAY_DETECTED"))
      BY Zenon, <1>3 DEF Mark
    <2>2. "REPLAY_DETECTED" \in RefusalCodes
      BY Zenon DEF RefusalCodes
    <2>3. QED
      BY Zenon, <1>1, <1>2, <2>1, <2>2, RefusedTyped, QuietMove DEF Mark
  <1>4. CASE Consumable(boundaryRow, KeyOf(c))
    <2> DEFINE f == Proceed(c, "effect")
    <2>1. boundaryRow' = Consumed(boundaryRow, KeyOf(c)) /\ BoundaryStep(c, f) /\ UNCHANGED <<config, memory, ledger, boundaryClock>>
      BY Zenon, <1>4 DEF Mark
    <2>2. /\ f \in CallType /\ f.request = boundaryCall[c].request /\ f.receipt = "none"
          /\ f.pc = "effect" /\ f.code = boundaryCall[c].code
      BY Zenon, <1>1, ProceedTyped
    <2> HIDE DEF f
    <2>3. boundaryCall' \in [BoundaryCalls -> CallType] /\ boundaryCall'[c] = f
          /\ \A d \in BoundaryCalls : d # c => boundaryCall'[d] = boundaryCall[d]
      BY Zenon, <1>0, <2>1, <2>2 DEF BoundaryType, BoundaryStep
    <2>4. \A d \in BoundaryCalls : KeyOf(d)' = KeyOf(d) /\ KeyOf(d) \in Keys
                                  /\ boundaryCall'[d].request = boundaryCall[d].request
      BY Zenon, <2>2, <2>3, RequestAssumption DEF KeyOf, BoundaryInv, BoundaryType, CallType
    <2>5. /\ boundaryRow' \in [Keys -> Status] /\ boundaryRow'[KeyOf(c)] = "consumed"
          /\ \A k \in Keys : boundaryRow[k] = "consumed" => boundaryRow'[k] = "consumed"
      BY Zenon, <1>2, <2>1, <2>4 DEF Consumed, Status
    <2>6. config.durable => \A d \in BoundaryCalls : Secured(d) => KeyOf(d) # KeyOf(c)
      BY Zenon, <1>4 DEF Consumable, BoundaryInv, RowInv
    <2>7. BoundaryType'
      BY Zenon, <1>0, <2>1, <2>3, <2>5 DEF BoundaryType
    <2>8. RowInv'
      BY <1>0, <2>1, <2>2, <2>3, <2>4, <2>5, <2>6 DEF RowInv, Secured, Permitted
    <2>9. LedgerInv'
      BY <1>0, <2>1, <2>2, <2>3, <2>4 DEF LedgerInv, Permitted
    <2>10. ReceiptInv'
      BY <1>0, <2>2, <2>3 DEF ReceiptInv, EffectReceiptHonest
    <2>11. QED
      BY Zenon, <2>7, <2>8, <2>9, <2>10 DEF BoundaryInv
  <1>5. QED
    BY Zenon, <1>3, <1>4

LEMMA RememberKeeps ==
    ASSUME BoundaryInv, NEW c \in BoundaryCalls, Remember(c)
    PROVE  BoundaryInv'
  <1>0. BoundaryType /\ RowInv /\ LedgerInv /\ ReceiptInv
    BY DEF BoundaryInv
  <1>1. boundaryCall[c].receipt = "none"
    BY Zenon, NoReceiptYet DEF Remember, Ends
  <1>2. boundaryRow' \in [Keys -> Status] /\ ~config.durable
    BY Zenon, <1>0 DEF BoundaryType, RowInv, Remember
  <1>3. CASE BoundaryStep(c, Refused(c, "REPLAY_DETECTED"))
    <2>1. "REPLAY_DETECTED" \in RefusalCodes
      BY DEF RefusalCodes
    <2>2. QED
      BY Zenon, <1>1, <1>2, <1>3, <2>1, RefusedTyped, QuietMove DEF Remember
  <1>4. CASE BoundaryStep(c, Proceed(c, "effect"))
    BY <1>1, <1>2, <1>4, ProceedTyped, QuietMove DEF Remember, Permitted
  <1>5. QED
    BY Zenon, <1>3, <1>4 DEF Remember

LEMMA ValidTyped ==
    ASSUME BoundaryInv, NEW c \in BoundaryCalls, NEW f, f \in {Valid(c), [Valid(c) EXCEPT !.owns = TRUE]}
    PROVE  /\ f \in CallType /\ f.request = boundaryCall[c].request /\ f.receipt = boundaryCall[c].receipt
           /\ f.pc = "valid" /\ f.code = "OK"
  <1>0. BoundaryType /\ RowInv /\ LedgerInv /\ ReceiptInv
    BY DEF BoundaryInv
  <1>1. boundaryCall[c] \in CallType
    BY <1>0 DEF BoundaryType
  <1>2. QED
    BY ZenonT(30), <1>1 DEF CallType, Valid

LEMMA ClaimEffectKeeps ==
    ASSUME BoundaryInv, NEW c \in BoundaryCalls, ClaimEffect(c)
    PROVE  BoundaryInv'
  <1>0. BoundaryType /\ RowInv /\ LedgerInv /\ ReceiptInv
    BY DEF BoundaryInv
  <1> DEFINE e == boundaryCall[c].request.effect
             r == boundaryCall[c].request
  <1>1. boundaryCall[c].receipt = "none" /\ Secured(c) /\ boundaryCall[c].pc = "effect"
    BY Zenon, NoReceiptYet DEF ClaimEffect, Ends, Secured
  <1>2. boundaryRow' = boundaryRow /\ boundaryRow' \in [Keys -> Status] /\ config' = config /\ boundaryClock' = boundaryClock
    BY Zenon, <1>0 DEF BoundaryType, ClaimEffect
  <1>3. CASE ~config.ledger
    <2>1. ledger' = ledger /\ BoundaryStep(c, Valid(c))
      BY Zenon, <1>3 DEF ClaimEffect
    <2>2. QED
      BY Zenon, <1>1, <1>2, <1>3, <2>1, ValidTyped, QuietMove
  <1>4. CASE config.ledger /\ BadReference(r) # {}
    <2>1. ledger' = ledger /\ BoundaryStep(c, Refused(c, ReferenceChecks(r)[Least(BadReference(r))].code))
      BY Zenon, <1>4 DEF ClaimEffect
    <2>2. QED
      BY Zenon, <1>1, <1>2, <1>4, <2>1, ReferenceRefuses, RefusedTyped, QuietMove
  <1>5. CASE config.ledger /\ BadReference(r) = {} /\ e \in ledger
    <2>1. ledger' = ledger /\ BoundaryStep(c, Refused(c, "POLICY_REFUSAL"))
      BY Zenon, <1>5 DEF ClaimEffect
    <2>2. "POLICY_REFUSAL" \in RefusalCodes
      BY Zenon DEF RefusalCodes
    <2>3. QED
      BY Zenon, <1>1, <1>2, <2>1, <2>2, RefusedTyped, QuietMove
  <1>6. CASE config.ledger /\ BadReference(r) = {} /\ e \notin ledger
    <2> DEFINE f == [Valid(c) EXCEPT !.owns = TRUE]
    <2>1. ledger' = ledger \cup {e} /\ BoundaryStep(c, f)
      BY Zenon, <1>6 DEF ClaimEffect
    <2>2. /\ f \in CallType /\ f.request = boundaryCall[c].request /\ f.receipt = "none"
          /\ f.pc = "valid" /\ f.code = "OK"
      BY Zenon, <1>1, ValidTyped
    <2> HIDE DEF f
    <2>3. boundaryCall' \in [BoundaryCalls -> CallType] /\ boundaryCall'[c] = f
          /\ \A d \in BoundaryCalls : d # c => boundaryCall'[d] = boundaryCall[d]
      BY Zenon, <1>0, <2>1, <2>2 DEF BoundaryType, BoundaryStep
    <2>4. \A d \in BoundaryCalls : KeyOf(d)' = KeyOf(d) /\ boundaryCall'[d].request = boundaryCall[d].request
      BY Zenon, <2>2, <2>3 DEF KeyOf
    <2>5. \A d \in BoundaryCalls : Permitted(d) => boundaryCall[d].request.effect # e
      BY Zenon, <1>0, <1>6 DEF LedgerInv
    <2>6. BoundaryType'
      BY Zenon, <1>0, <1>2, <2>3 DEF BoundaryType
    <2>7. RowInv'
      BY <1>0, <1>1, <1>2, <2>2, <2>3, <2>4 DEF RowInv, Secured, Permitted
    <2>8. LedgerInv'
      BY <1>0, <1>2, <2>1, <2>2, <2>3, <2>4, <2>5 DEF LedgerInv, Permitted
    <2>9. ReceiptInv'
      BY ZenonT(30), <1>0, <2>2, <2>3 DEF ReceiptInv, EffectReceiptHonest
    <2>10. QED
      BY Zenon, <2>6, <2>7, <2>8, <2>9 DEF BoundaryInv
  <1>7. QED
    BY Zenon, <1>3, <1>4, <1>5, <1>6

LEMMA LedgerRaisesKeeps ==
    ASSUME BoundaryInv, NEW c \in BoundaryCalls, LedgerRaises(c)
    PROVE  BoundaryInv'
  <1>0. BoundaryType /\ RowInv /\ LedgerInv /\ ReceiptInv
    BY DEF BoundaryInv
  <1>1. boundaryCall[c].receipt = "none"
    BY Zenon, NoReceiptYet DEF LedgerRaises, Ends
  <1>2. boundaryRow' = boundaryRow /\ boundaryRow' \in [Keys -> Status] /\ config' = config /\ boundaryClock' = boundaryClock
    BY Zenon, <1>0 DEF BoundaryType, LedgerRaises
  <1>3. "POLICY_REFUSAL" \in RefusalCodes
    BY Zenon DEF RefusalCodes
  <1>4. ledger \subseteq ledger' /\ BoundaryStep(c, Refused(c, "POLICY_REFUSAL"))
    BY Zenon DEF LedgerRaises
  <1>5. QED
    BY Zenon, <1>1, <1>2, <1>3, <1>4, RefusedTyped, QuietMove

(* With an effect of its own, a call's receipt follows its evidence.       *)
LEMMA ReceiptFollowsEvidence ==
    ASSUME NEW owns \in BOOLEAN, NEW o \in {"none", "succeeded", "refused"}, NEW e \in Evidence,
           NEW same \in BOOLEAN
    PROVE  /\ ReceiptOutcome(owns, o, e, same)
                  \in {"none", "succeeded", "refused", "outcome_unknown", "raised"}
           /\ owns /\ ReceiptOutcome(owns, o, e, same) # "raised" =>
                  e \in DOMAIN Reported /\ ReceiptOutcome(owns, o, e, same) = Reported[e]
  <1>1. /\ DOMAIN Reported = {"COMMITTED", "NOT_EXECUTED", "AMBIGUOUS"}
        /\ \A x \in DOMAIN Reported : Reported[x] \in {"succeeded", "refused", "outcome_unknown"}
    BY DEF Reported
  <1>2. QED
    BY Zenon, <1>1 DEF ReceiptOutcome

LEMMA ConstructReceiptKeeps ==
    ASSUME BoundaryInv, NEW c \in BoundaryCalls,
           NEW o \in {"none", "succeeded", "refused"}, NEW e \in Evidence, NEW same \in BOOLEAN,
           ConstructReceipt(c, o, e, same)
    PROVE  BoundaryInv'
  <1>0. BoundaryType /\ RowInv /\ LedgerInv /\ ReceiptInv
    BY Zenon DEF BoundaryInv
  <1> DEFINE out == ReceiptOutcome(boundaryCall[c].owns, o, e, same)
             end == IF e = "none" THEN "reported" ELSE e
             f == [boundaryCall[c] EXCEPT !.receipt = out, !.pc = end]
  <1>1. /\ BoundaryStep(c, f) /\ boundaryCall[c].pc = "valid"
        /\ boundaryRow' = boundaryRow /\ config' = config /\ boundaryClock' = boundaryClock /\ ledger' = ledger
    BY Zenon DEF ConstructReceipt
  <1>2. boundaryCall[c] \in CallType
    BY Zenon, <1>0 DEF BoundaryType
  <1>3. /\ out \in {"none", "succeeded", "refused", "outcome_unknown", "raised"}
        /\ boundaryCall[c].owns /\ out # "raised" => e \in DOMAIN Reported /\ out = Reported[e]
    <2>1. boundaryCall[c].owns \in BOOLEAN
      BY Zenon, <1>2 DEF CallType
    <2>2. QED
      BY <2>1, ReceiptFollowsEvidence
  <1>4. /\ e \in {"COMMITTED", "NOT_EXECUTED", "AMBIGUOUS", "none", "foreign"}
        /\ DOMAIN Reported = {"COMMITTED", "NOT_EXECUTED", "AMBIGUOUS"}
        /\ end \in Ends /\ (e \in DOMAIN Reported => end = e)
    BY Zenon DEF Evidence, Reported, Ends
  <1> HIDE DEF out, end
  <1>5. /\ f \in CallType /\ f.request = boundaryCall[c].request /\ f.code = boundaryCall[c].code
        /\ f.owns = boundaryCall[c].owns /\ f.receipt = out /\ f.pc = end /\ f.pc \in Ends
    BY ZenonT(30), <1>2, <1>3, <1>4 DEF CallType
  <1> HIDE DEF f
  <1>6. boundaryCall' \in [BoundaryCalls -> CallType] /\ boundaryCall'[c] = f
        /\ \A d \in BoundaryCalls : d # c => boundaryCall'[d] = boundaryCall[d]
    BY Zenon, <1>0, <1>1, <1>5 DEF BoundaryType, BoundaryStep
  <1>7. \A d \in BoundaryCalls : KeyOf(d)' = KeyOf(d) /\ boundaryCall'[d].request = boundaryCall[d].request
                                /\ boundaryCall'[d].code = boundaryCall[d].code
    BY Zenon, <1>5, <1>6 DEF KeyOf
  <1>8. BoundaryType'
    BY Zenon, <1>0, <1>1, <1>6 DEF BoundaryType
  <1>9. RowInv'
    <2>1. \A d \in BoundaryCalls : (Secured(d)' => Secured(d))
                                  /\ (boundaryCall'[d].pc = "remember" => boundaryCall[d].pc = "remember")
      BY Zenon, <1>1, <1>5, <1>6, <1>7 DEF Secured, Permitted, Ends
    <2>2. QED
      BY <1>0, <1>1, <1>7, <2>1 DEF RowInv
  <1>10. LedgerInv'
    BY <1>0, <1>1, <1>7 DEF LedgerInv, Permitted
  <1>11. ReceiptInv'
    <2>1. f.owns /\ f.receipt \notin {"none", "raised"} =>
              f.pc \in DOMAIN Reported /\ f.receipt = Reported[f.pc]
      BY Zenon, <1>3, <1>4, <1>5
    <2>2. QED
      BY <1>0, <1>5, <1>6, <2>1 DEF ReceiptInv, EffectReceiptHonest
  <1>12. QED
    BY Zenon, <1>8, <1>9, <1>10, <1>11 DEF BoundaryInv

LEMMA ElsewhereKeeps ==
    ASSUME BoundaryInv, UNCHANGED <<boundaryCall, config, boundaryRow, ledger>>, boundaryClock' \in Int
    PROVE  BoundaryInv'
  BY Zenon DEF BoundaryInv, BoundaryType, RowInv, LedgerInv, ReceiptInv, Secured, Permitted, KeyOf,
         EffectReceiptHonest

LEMMA BoundaryKept ==
    ASSUME BoundaryInv, [BoundaryNext]_boundaryVars
    PROVE  BoundaryInv'
  <1>0. BoundaryType /\ RowInv /\ LedgerInv /\ ReceiptInv
    BY Zenon DEF BoundaryInv
  <1>1. boundaryClock \in Int
    BY Zenon, <1>0 DEF BoundaryType
  <1>2. CASE UNCHANGED boundaryVars
    BY Zenon, <1>1, <1>2, ElsewhereKeeps DEF boundaryVars
  <1>3. CASE BoundaryTick
    BY <1>1, <1>3, ElsewhereKeeps DEF BoundaryTick
  <1>4. CASE \E w \in Workers : WorkerRestarts(w)
    BY Zenon, <1>1, <1>4, ElsewhereKeeps DEF WorkerRestarts
  <1>5. ASSUME NEW c \in BoundaryCalls,
               \/ Verify(c) \/ Claim(c) \/ BoundaryReread(c) \/ Mark(c) \/ StoreRaises(c)
               \/ Remember(c) \/ ClaimEffect(c) \/ LedgerRaises(c)
        PROVE  BoundaryInv'
    BY Zenon, <1>5, VerifyKeeps, ClaimKeeps, BoundaryRereadKeeps, MarkKeeps, StoreRaisesKeeps, RememberKeeps,
       ClaimEffectKeeps, LedgerRaisesKeeps
  <1>6. ASSUME NEW c \in BoundaryCalls, NEW o \in {"none", "succeeded", "refused"}, NEW e \in Evidence,
               NEW same \in BOOLEAN, ConstructReceipt(c, o, e, same)
        PROVE  BoundaryInv'
    BY <1>6, ConstructReceiptKeeps
  <1>7. QED
    BY Zenon, <1>2, <1>3, <1>4, <1>5, <1>6 DEF BoundaryNext

(* Whatever the workers, the calls, the keys and the faults of store and   *)
(* ledger, verify_boundary over a durable store permits a proof once, and  *)
(* over an effect ledger it gives an effect one owner.                     *)
THEOREM BoundaryAtMostOnceTheorem ==
    BoundarySpec => []BoundaryAtMostOnce
  <1>1. BoundaryInit => BoundaryInv
    BY Zenon, BoundaryInitially
  <1>2. BoundaryInv /\ [BoundaryNext]_boundaryVars => BoundaryInv'
    BY Zenon, BoundaryKept
  <1>3. BoundaryInv => BoundaryAtMostOnce
    BY Zenon DEF BoundaryInv, RowInv, LedgerInv, Secured, BoundaryAtMostOnce
  <1>4. QED
    BY <1>1, <1>2, <1>3, PTL DEF BoundarySpec

(* construct_receipt for a call that owns its effect reports the outcome   *)
(* that evidence for the effect shows, in every state of every system.     *)
THEOREM EffectReceiptHonestTheorem ==
    BoundarySpec => []EffectReceiptHonest
  <1>1. BoundaryInit => BoundaryInv
    BY BoundaryInitially
  <1>2. BoundaryInv /\ [BoundaryNext]_boundaryVars => BoundaryInv'
    BY BoundaryKept
  <1>3. BoundaryInv => EffectReceiptHonest
    BY DEF BoundaryInv, ReceiptInv
  <1>4. QED
    BY <1>1, <1>2, <1>3, PTL DEF BoundarySpec
=============================================================================
