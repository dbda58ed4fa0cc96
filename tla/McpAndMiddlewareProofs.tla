----------------------- MODULE McpAndMiddlewareProofs ------------------------
(***************************************************************************)
(* The MCP server's answers and its decision log, for any servers, calls,  *)
(* proofs, declared capabilities, restarts and log lengths; and the        *)
(* endpoint middleware's single-use guarantees, for any calls, proofs,     *)
(* escrow records and faults.                                              *)
(***************************************************************************)
EXTENDS McpServer, EndpointMiddleware, FiniteSetTheorems, WellFoundedInduction, TLAPS

File == <<"file", 0>>

Modes == {"down", "demo", "configured"}

(***************************************************************************)
(* The decision log.                                                       *)
(***************************************************************************)

IsSequence(q) == Len(q) \in Nat /\ q = [n \in 1 .. Len(q) |-> q[n]]

Chained(q) == \A n \in DOMAIN q : n > 1 => q[n].previous = q[n - 1].hash

(* Logs are chained sequences that hold every reference given away.        *)
LogInv ==
    /\ log = [s \in Servers |-> log[s]]
    /\ \A s \in Servers : IsSequence(log[s]) /\ Chained(log[s])
    /\ \A r \in refs : r.server \in Servers =>
          r.index \in DOMAIN log[r.server] /\ log[r.server][r.index].hash = r.hash

(* append keeps the entries before it and links to the last of them.       *)
LEMMA AppendToChains ==
    ASSUME NEW q, NEW kind, NEW artifact, IsSequence(q), Chained(q)
    PROVE  /\ IsSequence(AppendTo(q, kind, artifact)) /\ Chained(AppendTo(q, kind, artifact))
           /\ Len(AppendTo(q, kind, artifact)) \in DOMAIN AppendTo(q, kind, artifact)
           /\ \A n \in DOMAIN q : /\ n \in DOMAIN AppendTo(q, kind, artifact)
                                  /\ AppendTo(q, kind, artifact)[n] = q[n]
  <1> DEFINE previous == IF q = <<>> THEN <<>> ELSE q[Len(q)].hash
             entry == [kind |-> kind, artifact |-> artifact, previous |-> previous,
                       hash |-> <<Len(q), kind, artifact, previous>>]
             S == {q[n] : n \in 1 .. Len(q)} \cup {entry}
             p == Append(q, entry)
  <1>1. AppendTo(q, kind, artifact) = p
    BY DEF AppendTo
  <1>2. entry.previous = previous
    BY Zenon
  <1>3. q \in Seq(S) /\ DOMAIN q = 1 .. Len(q) /\ Len(q) \in Nat
    BY DEF IsSequence
  <1> HIDE DEF entry, previous
  <1>4. /\ p \in Seq(S) /\ Len(p) = Len(q) + 1 /\ DOMAIN p = 1 .. Len(q) + 1
        /\ p[Len(q) + 1] = entry /\ \A n \in 1 .. Len(q) : p[n] = q[n]
    BY <1>3
  <1>5. Len(q) # 0 => previous = q[Len(q)].hash
    BY <1>3 DEF previous
  <1> HIDE DEF p, S
  <1>6. Chained(p)
    <2> SUFFICES ASSUME NEW n \in 1 .. Len(q) + 1, n > 1 PROVE p[n].previous = p[n - 1].hash
      BY Zenon, <1>4 DEF Chained
    <2>1. CASE n = Len(q) + 1
      BY <1>2, <1>3, <1>4, <1>5, <2>1
    <2>2. CASE n \in 1 .. Len(q)
      BY <1>3, <1>4, <2>2 DEF Chained
    <2>3. QED
      BY <1>3, <2>1, <2>2
  <1>7. IsSequence(p)
    BY <1>3, <1>4 DEF IsSequence
  <1>8. QED
    BY <1>1, <1>3, <1>4, <1>6, <1>7

(* A set of numbers that is not empty has a least element.                 *)
LEMMA LeastExists ==
    ASSUME NEW S \in SUBSET Nat, S # {}
    PROVE  \E i \in S : \A j \in S : i <= j
  <1> DEFINE R == OpToRel(<, Nat)
  <1>1. \A x, y \in Nat : <<y, x>> \in R <=> y < x
    BY DEF OpToRel
  <1>2. IsWellFoundedOn(R, Nat)
    BY NatLessThanWellFounded
  <1> HIDE DEF R
  <1>3. PICK x \in S : \A y \in S : ~(<<y, x>> \in R)
    BY Zenon, <1>2, WFMin
  <1>4. ASSUME NEW j \in S PROVE x <= j
    <2>1. ~(j < x)
      BY Zenon, <1>1, <1>3
    <2>2. QED
      BY <2>1
  <1>5. QED
    BY Zenon, <1>4

(* A step that records a decision.                                         *)
LEMMA LoggedKeeps ==
    ASSUME LogInv, NEW s \in Servers, NEW kind, NEW code, Logged(s, kind, code)
    PROVE  LogInv'
  <1> DEFINE q == log[s]
             p == AppendTo(q, kind, <<code, Len(q)>>)
             given == ChainReference(s, p, Len(p))
  <1>1. log' = [log EXCEPT ![s] = p] /\ refs' = refs \cup {given}
    BY Zenon DEF Logged
  <1>2. /\ IsSequence(p) /\ Chained(p) /\ Len(p) \in DOMAIN p
        /\ \A n \in DOMAIN q : n \in DOMAIN p /\ p[n] = q[n]
    BY AppendToChains DEF LogInv
  <1>3. given.server = s /\ given.index = Len(p) /\ given.hash = p[Len(p)].hash
    BY Zenon DEF ChainReference
  <1> HIDE DEF p, given
  <1>4. /\ log' = [t \in Servers |-> log'[t]] /\ log'[s] = p
        /\ \A t \in Servers : t # s => log'[t] = log[t]
    BY Zenon, <1>1 DEF LogInv
  <1>5. \A t \in Servers : IsSequence(log'[t]) /\ Chained(log'[t])
    BY Zenon, <1>2, <1>4 DEF LogInv
  <1>6. ASSUME NEW r \in refs', r.server \in Servers
        PROVE  r.index \in DOMAIN log'[r.server] /\ log'[r.server][r.index].hash = r.hash
    <2>1. CASE r = given
      BY Zenon, <1>2, <1>3, <1>4, <2>1
    <2>2. CASE r \in refs
      BY <1>2, <1>4, <1>6, <2>2 DEF LogInv
    <2>3. QED
      BY Zenon, <1>1, <2>1, <2>2
  <1>7. QED
    BY Zenon, <1>4, <1>5, <1>6 DEF LogInv

(* A process that ends takes its log and its references with it.           *)
LEMMA ForgetKeeps ==
    ASSUME LogInv, NEW s \in Servers, log' = [log EXCEPT ![s] = <<>>],
           refs' = {r \in refs : r.server # s}
    PROVE  LogInv'
  <1>1. /\ log' = [t \in Servers |-> log'[t]] /\ log'[s] = <<>>
        /\ \A t \in Servers : t # s => log'[t] = log[t]
    BY Zenon DEF LogInv
  <1>2. IsSequence(<<>>) /\ Chained(<<>>)
    BY DEF IsSequence, Chained
  <1>3. \A t \in Servers : IsSequence(log'[t]) /\ Chained(log'[t])
    BY Zenon, <1>1, <1>2 DEF LogInv
  <1>4. QED
    BY Zenon, <1>1, <1>3 DEF LogInv

LEMMA ReceiptKeeps ==
    ASSUME LogInv, NEW s \in Servers, NEW artifact, ActenonReceipt(s, artifact)
    PROVE  LogInv'
  <1> DEFINE found == {n \in DOMAIN log[s] : log[s][n].artifact = artifact}
             n == Find(s, artifact)
             given == ChainReference(s, log[s], n)
  <1>1. n # 0 /\ log' = log /\ refs' = refs \cup {given}
    BY Zenon DEF ActenonReceipt
  <1>2. n \in DOMAIN log[s]
    <2>1. found # {} /\ n = CHOOSE i \in found : \A j \in found : i <= j
      BY Zenon, <1>1 DEF Find
    <2>2. found \in SUBSET Nat
      BY DEF LogInv, IsSequence
    <2>3. \E i \in found : \A j \in found : i <= j
      BY Zenon, <2>1, <2>2, LeastExists
    <2>4. QED
      BY Zenon, <2>1, <2>3
  <1>3. given.server = s /\ given.index = n /\ given.hash = log[s][n].hash
    BY Zenon DEF ChainReference
  <1> HIDE DEF given, n
  <1>4. QED
    BY Zenon, <1>1, <1>2, <1>3 DEF LogInv

(***************************************************************************)
(* The answers.                                                            *)
(***************************************************************************)

ServerInv ==
    /\ server \in [Servers -> [mode : Modes, life : Nat, declared : Declarations \cup {AnyCapability, {}}]]
    /\ local = [s \in Servers |-> local[s]]
    /\ \A s \in Servers : server[s].mode = "configured" => mcpEnv.replayDb \/ mcpEnv.development

(* Proofs are numbered in the order of minting.                            *)
MintInv ==
    /\ IsFiniteSet(granted)
    /\ \A m \in granted : m.id \in 1 .. Cardinality(granted) /\ m.args \in Grantable
    /\ \A m, n \in granted : m.id = n.id => m = n

(* An ALLOW is for a proof as it was minted, under the key of that server  *)
(* at that start, or under the key file, and is spent where the server     *)
(* looks.                                                                  *)
Backed(r, m) ==
    /\ m.id = r.proof /\ m.args = r.args
    /\ m.key = <<r.server, r.life>> \/ (m.key = File /\ (mcpEnv.replayDb \/ mcpEnv.development))

AllowInv ==
    \A r \in allowed :
        /\ r.server \in Servers /\ r.life \in Nat /\ r.life <= server[r.server].life
        /\ \E m \in granted : Backed(r, m)
        /\ mcpEnv.replayDb => r.proof \in sharedSpent
        /\ ~mcpEnv.replayDb /\ server[r.server].mode # "down" /\ r.life = server[r.server].life
              => r.proof \in local[r.server]

AnswerInv == ServerInv /\ MintInv /\ AllowInv /\ AllowedAsMintedOnce

LEMMA AnswerInit == McpInit => AnswerInv
  <1> SUFFICES ASSUME McpInit PROVE AnswerInv
    BY Zenon
  <1>1. ServerInv
    BY Zenon DEF McpInit, ServerInv, Modes
  <1>2. MintInv
    BY Zenon, FS_EmptySet DEF McpInit, MintInv
  <1>3. AllowInv /\ AllowedAsMintedOnce
    BY Zenon DEF McpInit, AllowInv, AllowedAsMintedOnce
  <1>4. QED
    BY Zenon, <1>1, <1>2, <1>3 DEF AnswerInv

(* What verifies, verifies for the arguments of the call.                  *)
LEMMA VerifiedArgs ==
    ASSUME AnswerInv, NEW s, NEW c \in ToolCalls, NEW id, NEW capabilities,
           Verifies(s, BuildIntent(c, id), id, capabilities),
           ~ArgumentMismatch(BuildIntent(c, id), c.args)
    PROVE  \E m \in granted : m.id = id /\ m.args = c.args /\ m.key = ServerKey(s)
  <1> DEFINE a == BuildIntent(c, id).args
             m == [id |-> id, args |-> a, key |-> ServerKey(s)]
  <1>1. m \in granted
    BY Zenon DEF Verifies
  <1>2. m.id = id /\ m.args = a /\ m.key = ServerKey(s)
    BY Zenon
  <1>3. IsArgs(a) /\ IsArgs(c.args)
    BY Zenon, <1>1, <1>2, ArgsAssumption DEF AnswerInv, MintInv
  <1>4. a.capability = c.args.capability /\ a.params = c.args.params /\ a.target = c.args.target
    BY Zenon DEF ArgumentMismatch
  <1> HIDE DEF a
  <1>5. a = c.args
    BY Zenon, <1>3, <1>4 DEF IsArgs
  <1>6. QED
    BY Zenon, <1>1, <1>2, <1>5

(* A step that allows nothing, and takes back nothing that was spent.      *)
LEMMA SpentKeeps ==
    ASSUME AnswerInv, UNCHANGED <<mcpEnv, granted, allowed, last>>, ServerInv', sharedSpent \subseteq sharedSpent',
           \A t \in Servers : server'[t].life >= server[t].life,
           \A t \in Servers : server'[t].mode # "down" /\ server'[t].life = server[t].life =>
                 server[t].mode # "down" /\ local[t] \subseteq local'[t]
    PROVE  AnswerInv'
  <1>1. MintInv' /\ AllowedAsMintedOnce'
    BY DEF AnswerInv, MintInv, AllowedAsMintedOnce
  <1>2. AllowInv'
    <2> SUFFICES ASSUME NEW r \in allowed
                 PROVE  /\ r.server \in Servers /\ r.life \in Nat /\ r.life <= server'[r.server].life
                        /\ \E m \in granted : Backed(r, m)'
                        /\ mcpEnv.replayDb => r.proof \in sharedSpent'
                        /\ ~mcpEnv.replayDb /\ server'[r.server].mode # "down"
                              /\ r.life = server'[r.server].life => r.proof \in local'[r.server]
      BY Zenon DEF AllowInv
    <2>1. /\ r.server \in Servers /\ r.life \in Nat /\ r.life <= server[r.server].life
          /\ \E m \in granted : Backed(r, m)
          /\ mcpEnv.replayDb => r.proof \in sharedSpent
          /\ ~mcpEnv.replayDb /\ server[r.server].mode # "down" /\ r.life = server[r.server].life
                => r.proof \in local[r.server]
      BY Zenon DEF AnswerInv, AllowInv
    <2>2. server[r.server].life \in Nat /\ server'[r.server].life \in Nat
      BY Zenon, <2>1 DEF AnswerInv, ServerInv
    <2>3. r.life <= server'[r.server].life
      BY <2>1, <2>2
    <2>4. ASSUME r.life = server'[r.server].life PROVE server'[r.server].life = server[r.server].life
      BY <2>1, <2>2, <2>4
    <2>5. \E m \in granted : Backed(r, m)'
      BY Zenon, <2>1 DEF Backed
    <2>6. QED
      BY Zenon, <2>1, <2>3, <2>4, <2>5
  <1>3. QED
    BY Zenon, <1>1, <1>2 DEF AnswerInv

(* The one step that allows: the proof was not spent where this server     *)
(* looks, so an earlier ALLOW of it came from another start and the key    *)
(* file.                                                                   *)
LEMMA AllowKeeps ==
    ASSUME AnswerInv, NEW s \in Servers, NEW c \in ToolCalls, NEW id, NEW capabilities,
           server[s].mode # "down", Verifies(s, BuildIntent(c, id), id, capabilities),
           ~ArgumentMismatch(BuildIntent(c, id), c.args), Spend(s, id),
           allowed' = allowed \cup {[proof |-> id, args |-> c.args, server |-> s,
                                     life |-> server[s].life]},
           UNCHANGED <<mcpEnv, server, granted, last>>
    PROVE  AnswerInv'
  <1> DEFINE new == [proof |-> id, args |-> c.args, server |-> s, life |-> server[s].life]
  <1>1. new.proof = id /\ new.args = c.args /\ new.server = s /\ new.life = server[s].life
        /\ allowed' = allowed \cup {new}
    BY Zenon
  <1> HIDE DEF new
  <1>2. server[s].life \in Nat /\ server[s].mode \in {"demo", "configured"}
    BY Zenon DEF AnswerInv, ServerInv, Modes
  <1>3. PICK m \in granted : m.id = id /\ m.args = c.args /\ m.key = ServerKey(s)
    BY VerifiedArgs
  <1>4. Backed(new, m)
    <2>1. CASE server[s].mode = "demo"
      BY Zenon, <1>1, <1>3, <2>1 DEF Backed, ServerKey
    <2>2. CASE server[s].mode = "configured"
      BY Zenon, <1>1, <1>3, <2>2 DEF Backed, ServerKey, File, AnswerInv, ServerInv
    <2>3. QED
      BY Zenon, <1>2, <2>1, <2>2
  <1>5. /\ id \notin local[s] /\ id \notin sharedSpent
        /\ mcpEnv.replayDb => sharedSpent' = sharedSpent \cup {id} /\ local' = local
        /\ ~mcpEnv.replayDb => local' = [local EXCEPT ![s] = @ \cup {id}] /\ sharedSpent' = sharedSpent
    BY Zenon DEF Spend, SharedAuthority!Spend
  <1>6. /\ local' = [t \in Servers |-> local'[t]]
        /\ \A t \in Servers : local[t] \subseteq local'[t]
        /\ ~mcpEnv.replayDb => id \in local'[s]
    BY Zenon, <1>5 DEF AnswerInv, ServerInv
  <1>7. ServerInv' /\ MintInv'
    BY Zenon, <1>6 DEF AnswerInv, ServerInv, MintInv
  <1>8. AllowInv'
    <2> SUFFICES ASSUME NEW r \in allowed'
                 PROVE  /\ r.server \in Servers /\ r.life \in Nat /\ r.life <= server[r.server].life
                        /\ \E n \in granted : Backed(r, n)
                        /\ mcpEnv.replayDb => r.proof \in sharedSpent'
                        /\ ~mcpEnv.replayDb /\ server[r.server].mode # "down"
                              /\ r.life = server[r.server].life => r.proof \in local'[r.server]
      BY ZenonT(30) DEF AllowInv, Backed
    <2>1. CASE r = new
      BY <1>1, <1>2, <1>4, <1>5, <1>6, <2>1
    <2>2. CASE r \in allowed
      BY Zenon, <1>5, <1>6, <2>2 DEF AnswerInv, AllowInv
    <2>3. QED
      BY Zenon, <1>1, <2>1, <2>2
  <1>9. ASSUME NEW q \in allowed, q.proof = id
        PROVE  /\ ~mcpEnv.replayDb /\ mcpEnv.development /\ <<q.server, q.life>> # <<s, server[s].life>>
               /\ \A n \in granted : n.id = id => n.key = File
    <2>1. /\ q.server \in Servers /\ q.life \in Nat
          /\ mcpEnv.replayDb => id \in sharedSpent
          /\ ~mcpEnv.replayDb /\ server[q.server].mode # "down" /\ q.life = server[q.server].life
                => id \in local[q.server]
      BY Zenon, <1>9 DEF AnswerInv, AllowInv
    <2>2. PICK n \in granted : Backed(q, n)
      BY Zenon DEF AnswerInv, AllowInv
    <2>3. n = m
      BY Zenon, <1>3, <1>9, <2>2 DEF Backed, AnswerInv, MintInv
    <2>4. ~mcpEnv.replayDb /\ <<q.server, q.life>> # <<s, server[s].life>>
      BY Zenon, <1>5, <2>1
    <2>5. m.key = File /\ mcpEnv.development
      BY Zenon, <1>1, <1>4, <2>2, <2>3, <2>4 DEF Backed
    <2>6. QED
      BY Zenon, <1>3, <2>4, <2>5 DEF AnswerInv, MintInv
  <1>10. AllowedAsMintedOnce'
    <2>1. \A r \in allowed' : \E n \in granted : n.id = r.proof /\ n.args = r.args
      BY <1>1, <1>4 DEF Backed, AnswerInv, AllowedAsMintedOnce
    <2>2. ASSUME NEW q \in allowed', NEW r \in allowed', q.proof = r.proof, q # r
          PROVE  /\ ~mcpEnv.replayDb /\ mcpEnv.development /\ <<q.server, q.life>> # <<r.server, r.life>>
                 /\ \A n \in granted : n.id = r.proof => n.key = File
      <3>1. CASE q \in allowed /\ r \in allowed
        BY Zenon, <2>2, <3>1 DEF AnswerInv, AllowedAsMintedOnce, File
      <3>2. CASE q \in allowed /\ r = new
        BY Zenon, <1>1, <1>9, <2>2, <3>2
      <3>3. CASE q = new /\ r \in allowed
        BY <1>1, <1>9, <2>2, <3>3
      <3>4. QED
        BY Zenon, <1>1, <2>2, <3>1, <3>2, <3>3
    <2>3. QED
      BY <2>1, <2>2 DEF AnswerInv, AllowedAsMintedOnce, File
  <1>11. QED
    BY Zenon, <1>7, <1>8, <1>10 DEF AnswerInv

(* A new proof has a number that no proof had.                             *)
LEMMA MintedKeeps ==
    ASSUME AnswerInv, NEW a \in Grantable, NEW key, Minted(a, key)
    PROVE  AnswerInv'
  <1> DEFINE new == [id |-> Cardinality(granted) + 1, args |-> a, key |-> key]
  <1>1. /\ granted' = granted \cup {new} /\ new.id = Cardinality(granted) + 1 /\ new.args = a
        /\ UNCHANGED <<mcpEnv, server, sharedSpent, local, allowed, last>>
    BY Zenon DEF Minted
  <1> HIDE DEF new
  <1>2. IsFiniteSet(granted) /\ Cardinality(granted) \in Nat
    BY Zenon, FS_CardinalityType DEF AnswerInv, MintInv
  <1>3. \A m \in granted : m.id \in 1 .. Cardinality(granted) /\ m.id # new.id
    BY <1>1, <1>2 DEF AnswerInv, MintInv
  <1>4. IsFiniteSet(granted') /\ Cardinality(granted') = Cardinality(granted) + 1
    BY Zenon, <1>1, <1>2, <1>3, FS_AddElement
  <1>5. MintInv'
    <2>1. \A m \in granted' : m.id \in 1 .. Cardinality(granted') /\ m.args \in Grantable
      BY <1>1, <1>2, <1>3, <1>4 DEF AnswerInv, MintInv
    <2>2. \A m, n \in granted' : m.id = n.id => m = n
      BY Zenon, <1>1, <1>3 DEF AnswerInv, MintInv
    <2>3. QED
      BY Zenon, <1>4, <2>1, <2>2 DEF MintInv
  <1>6. ServerInv'
    BY Zenon, <1>1 DEF AnswerInv, ServerInv
  <1>7. AllowInv'
    BY ZenonT(30), <1>1 DEF AnswerInv, AllowInv, Backed
  <1>8. AllowedAsMintedOnce'
    <2>1. \A r \in allowed : \E m \in granted : m.id = r.proof
      BY Zenon DEF AnswerInv, AllowedAsMintedOnce
    <2>2. \A r \in allowed, n \in granted' : n.id = r.proof => n \in granted
      BY Zenon, <1>1, <1>3, <2>1
    <2>3. QED
      BY <1>1, <2>2 DEF AnswerInv, AllowedAsMintedOnce
  <1>9. QED
    BY Zenon, <1>5, <1>6, <1>7, <1>8 DEF AnswerInv

LEMMA UpKeeps ==
    ASSUME AnswerInv, NEW s \in Servers, NEW mode \in Modes \ {"down"},
           NEW declared \in Declarations \cup {AnyCapability, {}}, Up(s, mode, declared),
           mode = "configured" => mcpEnv.replayDb \/ mcpEnv.development
    PROVE  AnswerInv'
  <1> DEFINE new == [mode |-> mode, life |-> server[s].life + 1, declared |-> declared]
  <1>1. server' = [server EXCEPT ![s] = new] /\ UNCHANGED <<mcpEnv, granted, sharedSpent, local, allowed, last>>
    BY Zenon DEF Up
  <1>2. /\ server \in [Servers -> [mode : Modes, life : Nat, declared : Declarations \cup {AnyCapability, {}}]]
        /\ server[s].life \in Nat
    BY Zenon DEF AnswerInv, ServerInv
  <1>3. new \in [mode : Modes, life : Nat, declared : Declarations \cup {AnyCapability, {}}]
        /\ new.life = server[s].life + 1 /\ new.mode = mode
    BY <1>2
  <1> HIDE DEF new
  <1>4. /\ server' \in [Servers -> [mode : Modes, life : Nat, declared : Declarations \cup {AnyCapability, {}}]]
        /\ server'[s] = new /\ \A t \in Servers : t # s => server'[t] = server[t]
    BY Zenon, <1>1, <1>2, <1>3
  <1>5. ServerInv'
    BY Zenon, <1>1, <1>3, <1>4 DEF AnswerInv, ServerInv
  <1>6. /\ \A t \in Servers : server'[t].life >= server[t].life
        /\ \A t \in Servers : server'[t].life = server[t].life => t # s
    BY <1>2, <1>3, <1>4
  <1>7. QED
    BY Zenon, <1>1, <1>4, <1>5, <1>6, SpentKeeps

(* The process ends, by itself or within a call.                           *)
LEMMA DownKeeps ==
    ASSUME AnswerInv, NEW s \in Servers, server' = [server EXCEPT ![s].mode = "down"],
           UNCHANGED <<mcpEnv, granted, allowed, last>>, sharedSpent \subseteq sharedSpent',
           local' = local \/ local' = [local EXCEPT ![s] = {}]
    PROVE  AnswerInv'
  <1> DEFINE new == [server[s] EXCEPT !.mode = "down"]
  <1>1. /\ server \in [Servers -> [mode : Modes, life : Nat, declared : Declarations \cup {AnyCapability, {}}]]
        /\ server' = [server EXCEPT ![s] = new]
    BY Zenon DEF AnswerInv, ServerInv
  <1>2. /\ new \in [mode : Modes, life : Nat, declared : Declarations \cup {AnyCapability, {}}]
        /\ new.mode = "down" /\ new.life = server[s].life
    BY <1>1 DEF Modes
  <1> HIDE DEF new
  <1>3. /\ server' \in [Servers -> [mode : Modes, life : Nat, declared : Declarations \cup {AnyCapability, {}}]]
        /\ server'[s] = new /\ \A t \in Servers : t # s => server'[t] = server[t]
    BY <1>1, <1>2
  <1>4. /\ local' = [t \in Servers |-> local'[t]]
        /\ \A t \in Servers : t # s => local'[t] = local[t]
    BY Zenon DEF AnswerInv, ServerInv
  <1>5. ServerInv'
    BY Zenon, <1>2, <1>3, <1>4 DEF AnswerInv, ServerInv
  <1>6. \A t \in Servers : server'[t].life = server[t].life /\ server[t].life \in Nat
    BY Zenon, <1>1, <1>2, <1>3
  <1>7. \A t \in Servers : server'[t].life >= server[t].life
    BY <1>6
  <1>8. QED
    BY Zenon, <1>2, <1>3, <1>4, <1>5, <1>7, SpentKeeps

LEMMA VerifyKeeps ==
    ASSUME AnswerInv, NEW s \in Servers, NEW c \in ToolCalls, NEW id,
           ActenonVerify(s, c, id)
    PROVE  AnswerInv'
  <1> DEFINE intent == BuildIntent(c, id)
             yes == VerifyAnswer(c, id) = "verify" /\ Verifies(s, intent, id, VerifierContext(intent))
  <1>1. UNCHANGED <<mcpEnv, server, granted, sharedSpent, local, allowed>>
        /\ last' = IF yes THEN <<id, c.args>> ELSE <<>>
    BY Zenon DEF ActenonVerify
  <1>2. ASSUME yes PROVE \E m \in granted : m.id = id /\ m.args = c.args
    <2>1. ~ArgumentMismatch(intent, c.args)
      BY Zenon, <1>2 DEF VerifyAnswer
    <2>2. QED
      BY <1>2, <2>1, VerifiedArgs
  <1> HIDE DEF yes
  <1>3. last' # <<>> => \E m \in granted : m.id = last'[1] /\ m.args = last'[2]
    BY Zenon, <1>1, <1>2
  <1>4. AllowedAsMintedOnce'
    BY <1>1, <1>3 DEF AnswerInv, AllowedAsMintedOnce
  <1>5. ServerInv' /\ MintInv' /\ AllowInv'
    BY ZenonT(30), <1>1 DEF AnswerInv, ServerInv, MintInv, AllowInv, Backed
  <1>6. QED
    BY Zenon, <1>4, <1>5 DEF AnswerInv

LEMMA StayKeeps ==
    ASSUME AnswerInv, UNCHANGED <<mcpEnv, server, granted, sharedSpent, local, allowed, last>>
    PROVE  AnswerInv'
  <1>1. ServerInv' /\ MintInv'
    BY DEF AnswerInv, ServerInv, MintInv
  <1>2. AllowInv'
    BY Zenon DEF AnswerInv, AllowInv, Backed
  <1>3. AllowedAsMintedOnce'
    BY DEF AnswerInv, AllowedAsMintedOnce
  <1>4. QED
    BY <1>1, <1>2, <1>3 DEF AnswerInv

LEMMA GateKeeps ==
    ASSUME AnswerInv, LogInv, NEW s \in Servers, NEW c \in ToolCalls, NEW id,
           ActenonGate(s, c, id)
    PROVE  AnswerInv' /\ LogInv'
  <1> DEFINE intent == BuildIntent(c, id)
             given == [proof |-> id, args |-> c.args, server |-> s, life |-> server[s].life]
  <1>1. server[s].mode # "down" /\ UNCHANGED <<mcpEnv, server, granted, last>>
    BY Zenon DEF ActenonGate
  <1>2. CASE Unlogged /\ UNCHANGED <<sharedSpent, sharedRan, local, allowed>>
    BY Zenon, <1>1, <1>2, StayKeeps DEF Unlogged, LogInv
  <1>3. ASSUME NEW code, Refusal(s, code) PROVE AnswerInv' /\ LogInv'
    BY Zenon, <1>1, <1>3, StayKeeps, LoggedKeeps DEF Refusal
  <1>4. CASE /\ GateAnswer(c, id) = "protect" /\ Verifies(s, intent, id, GateContext(s, intent))
             /\ Spend(s, id) /\ Logged(s, "receipt", "ALLOW") /\ allowed' = allowed \cup {given}
    <2>1. ~ArgumentMismatch(intent, c.args)
      BY Zenon, <1>4 DEF GateAnswer
    <2>2. QED
      BY Zenon, <1>1, <1>4, <2>1, AllowKeeps, LoggedKeeps
  <1>5. QED
    BY Zenon, <1>2, <1>3, <1>4 DEF ActenonGate

LEMMA McpInitially == McpInit => AnswerInv /\ LogInv
  <1> SUFFICES ASSUME McpInit PROVE LogInv
    BY Zenon, AnswerInit
  <1>1. IsSequence(<<>>) /\ Chained(<<>>)
    BY DEF IsSequence, Chained
  <1>2. QED
    BY Zenon, <1>1 DEF McpInit, LogInv

LEMMA McpKept ==
    ASSUME AnswerInv, LogInv, [McpNext]_mcpVars
    PROVE  AnswerInv' /\ LogInv'
  <1>1. CASE UNCHANGED mcpVars
    BY Zenon, <1>1, StayKeeps DEF mcpVars, LogInv
  <1>2. ASSUME NEW s \in Servers, BuildDemoGate(s) PROVE AnswerInv' /\ LogInv'
    <2>1. Up(s, "demo", AnyCapability)
      BY Zenon, <1>2 DEF BuildDemoGate
    <2>2. AnswerInv'
      BY Zenon, <2>1, UpKeeps DEF Modes
    <2>3. QED
      BY Zenon, <2>1, <2>2 DEF Up, LogInv
  <1>3. ASSUME NEW s \in Servers, NEW d \in Declarations, BuildConfiguredGate(s, d)
        PROVE  AnswerInv' /\ LogInv'
    <2> DEFINE e == IF d = {} THEN AnyCapability ELSE d
    <2>1. Up(s, "configured", e) /\ (mcpEnv.replayDb \/ mcpEnv.development)
      BY Zenon, <1>3 DEF BuildConfiguredGate
    <2>2. e \in Declarations \cup {AnyCapability, {}}
      BY Zenon
    <2> HIDE DEF e
    <2>3. AnswerInv'
      BY Zenon, <2>1, <2>2, UpKeeps DEF Modes
    <2>4. QED
      BY Zenon, <2>1, <2>3 DEF Up, LogInv
  <1>4. ASSUME NEW s \in Servers, Stop(s) PROVE AnswerInv' /\ LogInv'
    BY Zenon, <1>4, DownKeeps, ForgetKeeps DEF Stop
  <1>5. ASSUME NEW a \in Grantable, NEW key, Minted(a, key) PROVE AnswerInv' /\ LogInv'
    BY Zenon, <1>5, MintedKeeps DEF Minted, LogInv
  <1>6. ASSUME NEW s \in Servers, NEW c \in ToolCalls, NEW id, ActenonVerify(s, c, id)
        PROVE  AnswerInv' /\ LogInv'
    BY <1>6, VerifyKeeps DEF ActenonVerify, LogInv
  <1>7. ASSUME NEW s \in Servers, NEW c \in ToolCalls, NEW id, DieInGate(s, c, id)
        PROVE  AnswerInv' /\ LogInv'
    BY Zenon, <1>7, DownKeeps, ForgetKeeps DEF DieInGate, SharedAuthority!Spend
  <1>8. ASSUME NEW s \in Servers, NEW artifact, ActenonReceipt(s, artifact)
        PROVE  AnswerInv' /\ LogInv'
    BY <1>8, StayKeeps, ReceiptKeeps DEF ActenonReceipt
  <1>9. QED
    BY Zenon, <1>1, <1>2, <1>3, <1>4, <1>5, <1>6, <1>7, <1>8, GateKeeps
       DEF McpNext, ActenonDemoGrant, BrokerGrant

(* actenon_verify and actenon_gate answer for the arguments a proof was    *)
(* minted for, and a proof is allowed once over all servers that share a   *)
(* replay store, for any number of servers, restarts and proofs.           *)
THEOREM AllowedAsMintedOnceTheorem ==
    McpSpec => []AllowedAsMintedOnce
  <1>1. AnswerInv /\ LogInv /\ [McpNext]_mcpVars => AnswerInv' /\ LogInv'
    BY McpKept
  <1>2. AnswerInv => AllowedAsMintedOnce
    BY DEF AnswerInv
  <1>3. QED
    BY <1>1, <1>2, McpInitially, PTL DEF McpSpec

(* Every chain reference that a running server gave is an entry of its     *)
(* decision log, and each entry commits to the one before it, however long *)
(* the log grows.                                                          *)
THEOREM HistoryKeptTheorem ==
    McpSpec => []HistoryKept
  <1>1. AnswerInv /\ LogInv /\ [McpNext]_mcpVars => AnswerInv' /\ LogInv'
    BY McpKept
  <1>2. LogInv => HistoryKept
    BY ZenonT(30) DEF LogInv, Chained, HistoryKept
  <1>3. QED
    BY <1>1, <1>2, McpInitially, PTL DEF McpSpec

(***************************************************************************)
(* The middleware.  The handler runs before the replay state is consumed,  *)
(* so the argument for AtMostOnce rests on the escrow alone: the one call  *)
(* whose consume() succeeded is entitled to the handler, and the record    *)
(* never opens again, not even when it is revoked.                         *)
(***************************************************************************)

USE CallAssumption, TimeAssumption, ExpiryAssumption, IssuedForAssumption,
    EscrowExpiryAssumption

Pcs == {"idle", "escrow", "handler", "running", "receipt", "refuse", "abort", "refusal",
        "refusedReceipt"} \cup StorePcs \cup Ended

Frame == [pc : Pcs, now : Int, held : BOOLEAN, started : BOOLEAN, acted : BOOLEAN,
          releases : BOOLEAN, outage : BOOLEAN,
          wrote : SUBSET {"executed", "refusal", "refused"}]

TypeOK == /\ frame \in [Calls -> Frame]
          /\ row \in [Keys -> Status]
          /\ escrow \in [EscrowIds -> EscrowState]
          /\ clock \in Int

(* Frames before the escrow, past it, past mark_consumed, and past the     *)
(* side effect.                                                            *)
Early(f) == f.pc \in {"claim", "claimRead", "claimLost", "escrow"}
PastEscrow(f) == f.pc = "handler" \/ f.started
PastConsume(f) == f.pc \in {"consumeRead", "receipt"} \/ "executed" \in f.wrote
PastEffect(f) == f.pc \in {"consume", "consumeRead", "receipt"} \/ "executed" \in f.wrote

(* Whoever is past the escrow is the one call whose consume() closed the   *)
(* record of its proof.                                                    *)
EscrowInv ==
    /\ \A c \in Calls : Early(frame[c]) \/ PastEscrow(frame[c]) => EscrowOf[Presents[c]] # None
    /\ \A c \in Calls : PastEscrow(frame[c]) => escrow[EscrowOf[Presents[c]]] \in {"consumed", "revoked"}
    /\ \A c, d \in Calls : PastEscrow(frame[c]) /\ PastEscrow(frame[d]) /\ Presents[c] = Presents[d]
                              => c = d

ReplayInv ==
    \A c \in Calls : /\ PastConsume(frame[c]) => row[Presents[c]] = "consumed"
                     /\ PastEffect(frame[c]) => frame[c].acted
                     /\ frame[c].pc = "running" => frame[c].started

MiddlewareInv == TypeOK /\ EscrowInv /\ ReplayInv

(* No table forgets that a row was consumed or a record closed.            *)
TablesKept ==
    /\ row' \in [Keys -> Status]
    /\ \A k \in Keys : row[k] = "consumed" => row'[k] = "consumed"
    /\ escrow' \in [EscrowIds -> EscrowState]
    /\ \A e \in EscrowIds : escrow[e] \in {"consumed", "revoked"}
                              => escrow'[e] \in {"consumed", "revoked"}

(* Frame g gives call c no entitlement, and what else it claims is so.     *)
Earned(c, g) ==
    /\ g \in Frame
    /\ Early(g) => EscrowOf[Presents[c]] # None
    /\ PastEscrow(g) => PastEscrow(frame[c])
    /\ PastConsume(g) => row'[Presents[c]] = "consumed"
    /\ PastEffect(g) => g.acted
    /\ g.pc = "running" => g.started

LEMMA MiddlewareInit == Init => MiddlewareInv
  <1> SUFFICES ASSUME Init PROVE MiddlewareInv
    BY Zenon
  <1>1. NewFrame \in Frame /\ NewFrame.pc = "idle" /\ ~NewFrame.started /\ NewFrame.wrote = {}
    BY DEF NewFrame, Frame, Pcs
  <1>2. TypeOK
    BY <1>1 DEF Init, TypeOK, Status, EscrowState
  <1>3. QED
    BY Zenon, <1>1, <1>2 DEF Init, MiddlewareInv, EscrowInv, ReplayInv, Early, PastEscrow, PastConsume,
                      PastEffect

LEMMA MoveFrames ==
    ASSUME TypeOK, NEW c \in Calls, NEW g \in Frame, Move(c, g)
    PROVE  /\ frame' \in [Calls -> Frame] /\ frame'[c] = g
           /\ \A d \in Calls : d # c => frame'[d] = frame[d]
           /\ clock' = clock
  BY DEF TypeOK, Move

(* A step that earns nothing more and keeps the tables keeps the invariant.*)
LEMMA EarnedKeeps ==
    ASSUME MiddlewareInv, NEW c \in Calls, NEW g, Earned(c, g), Move(c, g), TablesKept
    PROVE  MiddlewareInv'
  <1>1. /\ frame' \in [Calls -> Frame] /\ frame'[c] = g
        /\ \A d \in Calls : d # c => frame'[d] = frame[d]
        /\ clock' = clock
    BY Zenon, MoveFrames DEF MiddlewareInv, Earned
  <1>2. TypeOK'
    BY Zenon, <1>1 DEF MiddlewareInv, TypeOK, TablesKept
  <1>3. \A d \in Calls : PastEscrow(frame'[d]) => PastEscrow(frame[d])
    BY Zenon, <1>1 DEF Earned
  <1>4. \A d \in Calls : Early(frame'[d]) => EscrowOf[Presents[d]] # None
    BY Zenon, <1>1 DEF Earned, MiddlewareInv, EscrowInv
  <1>5. EscrowInv'
    BY <1>3, <1>4 DEF MiddlewareInv, EscrowInv, TablesKept
  <1>6. ReplayInv'
    <2>1. \A d \in Calls : d # c => /\ PastConsume(frame'[d]) => row'[Presents[d]] = "consumed"
                                    /\ PastEffect(frame'[d]) => frame'[d].acted
                                    /\ frame'[d].pc = "running" => frame'[d].started
      BY <1>1 DEF MiddlewareInv, ReplayInv, TablesKept
    <2>2. QED
      BY Zenon, <1>1, <2>1 DEF ReplayInv, Earned
  <1>7. QED
    BY Zenon, <1>2, <1>5, <1>6 DEF MiddlewareInv

(* A jump keeps all but the program point, a refusal all but that and the  *)
(* claim's fate.                                                           *)
LEMMA JumpFields ==
    ASSUME TypeOK, NEW c \in Calls, NEW pc \in Pcs
    PROVE  /\ To(c, pc) \in Frame /\ To(c, pc).pc = pc
           /\ To(c, pc).started = frame[c].started
           /\ To(c, pc).acted = frame[c].acted /\ To(c, pc).wrote = frame[c].wrote
  <1>1. frame[c] \in Frame
    BY Zenon DEF TypeOK
  <1>2. To(c, pc) \in Frame
    BY Zenon, <1>1 DEF To, Frame
  <1>3. QED
    BY Zenon, <1>1, <1>2 DEF To, Frame

LEMMA RefuseFields ==
    ASSUME TypeOK, NEW c \in Calls, NEW releases \in BOOLEAN
    PROVE  /\ Refuse(c, releases) \in Frame /\ Refuse(c, releases).pc = "refuse"
           /\ Refuse(c, releases).started = frame[c].started
           /\ Refuse(c, releases).acted = frame[c].acted
           /\ Refuse(c, releases).wrote = frame[c].wrote
  <1>1. frame[c] \in Frame /\ "refuse" \in Pcs
    BY Zenon DEF TypeOK, Pcs
  <1>2. Refuse(c, releases) \in Frame
    BY Zenon, <1>1 DEF Refuse, Frame
  <1>3. QED
    BY Zenon, <1>1, <1>2 DEF Refuse, Frame

(* The program points at which nothing is asked of a frame.                *)
Free == {"refuse", "abort", "refusal", "refusedReceipt", "consumeLost", "unclaim", "unclaimRead",
         "burn", "burnRead", "burnLost", "done", "raised", "crashed"}

LEMMA FreeEarned ==
    ASSUME MiddlewareInv, TablesKept, NEW c \in Calls, NEW g \in Frame, g.pc \in Free,
           g.started = frame[c].started, g.acted = frame[c].acted,
           "executed" \in g.wrote => "executed" \in frame[c].wrote
    PROVE  Earned(c, g)
  BY Zenon DEF Earned, Free, Early, PastEscrow, PastConsume, PastEffect, MiddlewareInv, ReplayInv,
         TablesKept

(* Every transaction of the replay store keeps what is consumed.           *)
LEMMA RowsKept ==
    ASSUME NEW rows \in [Keys -> Status], NEW k \in Keys, NEW now
    PROVE  /\ Consumed(rows, k) \in [Keys -> Status] /\ Consumed(rows, k)[k] = "consumed"
           /\ Claimed(rows, k) \in [Keys -> Status]
           /\ Released(rows, k) \in [Keys -> Status]
           /\ Inspected(rows, k, now) \in [Keys -> Status]
           /\ Purged(rows, now) \in [Keys -> Status]
           /\ \A j \in Keys : rows[j] = "consumed" =>
                 /\ Consumed(rows, k)[j] = "consumed"
                 /\ Claimable(rows, k, now) => Claimed(rows, k)[j] = "consumed"
                 /\ Releasable(rows, k) => Released(rows, k)[j] = "consumed"
                 /\ Inspected(rows, k, now)[j] = "consumed"
                 /\ Purged(rows, now)[j] = "consumed"
  BY Zenon DEF Status, Claimable, Releasable, Claimed, Consumed, Released, Inspected, Purged

LEMMA RowStepKeeps ==
    ASSUME MiddlewareInv, NEW c \in Calls, UNCHANGED escrow,
           \/ row' = row
           \/ row' = Consumed(row, Presents[c])
           \/ Claimable(row, Presents[c], frame[c].now) /\ row' = Claimed(row, Presents[c])
           \/ Releasable(row, Presents[c]) /\ row' = Released(row, Presents[c])
           \/ row' = Inspected(row, Presents[c], frame[c].now)
    PROVE  TablesKept
  <1>1. row \in [Keys -> Status] /\ Presents[c] \in Keys /\ escrow \in [EscrowIds -> EscrowState]
    BY Zenon DEF MiddlewareInv, TypeOK
  <1>2. /\ row' \in [Keys -> Status]
        /\ \A k \in Keys : row[k] = "consumed" => row'[k] = "consumed"
    <2>1. CASE row' = row
      BY ZenonT(30), <1>1, <2>1
    <2>2. CASE row' = Consumed(row, Presents[c])
      BY ZenonT(30), <1>1, <2>2 DEF Consumed, Status
    <2>3. CASE Claimable(row, Presents[c], frame[c].now) /\ row' = Claimed(row, Presents[c])
      BY <1>1, <2>3, RowsKept
    <2>4. CASE Releasable(row, Presents[c]) /\ row' = Released(row, Presents[c])
      BY Zenon, <1>1, <2>4 DEF Releasable, Released, Status
    <2>5. CASE row' = Inspected(row, Presents[c], frame[c].now)
      BY <1>1, <2>5, RowsKept
    <2>6. QED
      BY ZenonT(30), <2>1, <2>2, <2>3, <2>4, <2>5
  <1>3. QED
    BY Zenon, <1>1, <1>2 DEF TablesKept

(* A jump to a free point, with a transaction of the replay store at most. *)
LEMMA FreeJumpKeeps ==
    ASSUME MiddlewareInv, TablesKept, NEW c \in Calls,
           \/ \E pc \in Free : Move(c, To(c, pc))
           \/ \E releases \in BOOLEAN : Move(c, Refuse(c, releases))
    PROVE  MiddlewareInv'
  <1>1. Free \subseteq Pcs /\ TypeOK /\ "refuse" \in Free
    BY Zenon DEF Free, Pcs, StorePcs, Ended, MiddlewareInv
  <1>2. ASSUME NEW pc \in Free, Move(c, To(c, pc)) PROVE MiddlewareInv'
    <2> DEFINE g == To(c, pc)
    <2>1. /\ g \in Frame /\ g.pc = pc /\ g.started = frame[c].started
          /\ g.acted = frame[c].acted /\ g.wrote = frame[c].wrote
      BY Zenon, <1>1, JumpFields
    <2>2. Earned(c, g)
      BY <2>1, FreeEarned
    <2>3. QED
      BY ZenonT(30), <1>2, <2>2, EarnedKeeps
  <1>3. ASSUME NEW releases \in BOOLEAN, Move(c, Refuse(c, releases)) PROVE MiddlewareInv'
    <2> DEFINE g == Refuse(c, releases)
    <2>1. /\ g \in Frame /\ g.pc = "refuse" /\ g.started = frame[c].started
          /\ g.acted = frame[c].acted /\ g.wrote = frame[c].wrote
      BY ZenonT(30), <1>1, RefuseFields
    <2>2. Earned(c, g)
      BY <1>1, <2>1, FreeEarned
    <2>3. QED
      BY Zenon, <1>3, <2>2, EarnedKeeps
  <1>4. QED
    BY Zenon, <1>2, <1>3

-----------------------------------------------------------------------------
(* The steps of a call, action by action.                                  *)
LEMMA BeginKeeps ==
    ASSUME MiddlewareInv, NEW c \in Calls, Begin(c)
    PROVE  MiddlewareInv'
  <1> DEFINE f == [frame[c] EXCEPT !.now = clock]
             go == [f EXCEPT !.pc = "claim"]
             no == [f EXCEPT !.pc = "refuse", !.releases = TRUE]
  <1>1. frame[c] \in Frame /\ frame[c].pc = "idle" /\ clock \in Int
    BY Zenon DEF MiddlewareInv, TypeOK, Begin, At
  <1>2. TablesKept
    BY Zenon, RowStepKeeps DEF Begin
  <1>3. CASE EscrowOf[Presents[c]] # None /\ Move(c, go)
    <2>1. go \in Frame
      BY Zenon, <1>1 DEF Frame, Pcs, StorePcs
    <2>2. go.pc = "claim" /\ go.started = frame[c].started /\ go.wrote = frame[c].wrote
          /\ go.acted = frame[c].acted
      BY Zenon, <1>1 DEF Frame
    <2> HIDE DEF go
    <2>3. Earned(c, go)
      BY ZenonT(30), <1>2, <1>3, <2>1, <2>2 DEF Earned, Early, PastEscrow, PastConsume, PastEffect,
                                    MiddlewareInv, ReplayInv, TablesKept
    <2>4. QED
      BY Zenon, <1>2, <1>3, <2>3, EarnedKeeps
  <1>4. CASE Move(c, no)
    <2>1. no \in Frame
      BY Zenon, <1>1 DEF Frame, Pcs
    <2>2. no.pc = "refuse" /\ no.started = frame[c].started /\ no.wrote = frame[c].wrote
          /\ no.acted = frame[c].acted
      BY Zenon, <1>1 DEF Frame
    <2> HIDE DEF no
    <2>3. Earned(c, no)
      BY ZenonT(30), <1>2, <2>1, <2>2, FreeEarned DEF Free
    <2>4. QED
      BY ZenonT(30), <1>2, <1>4, <2>3, EarnedKeeps
  <1>5. QED
    BY Zenon, <1>3, <1>4 DEF Begin

LEMMA ClaimRequestKeeps ==
    ASSUME MiddlewareInv, NEW c \in Calls, ClaimRequest(c)
    PROVE  MiddlewareInv'
  <1>1. TypeOK /\ frame[c].pc = "claim" /\ EscrowOf[Presents[c]] # None
    BY DEF MiddlewareInv, EscrowInv, Early, ClaimRequest, At
  <1>2. TablesKept
    BY Zenon, RowStepKeeps DEF ClaimRequest
  <1>3. ASSUME NEW pc \in {"claimRead", "claimLost"}, Move(c, To(c, pc))
        PROVE  MiddlewareInv'
    <2> DEFINE g == To(c, pc)
    <2>1. /\ g \in Frame /\ g.pc = pc /\ g.started = frame[c].started
          /\ g.acted = frame[c].acted /\ g.wrote = frame[c].wrote
      BY <1>1, JumpFields DEF Pcs, StorePcs
    <2> HIDE DEF g
    <2>2. Earned(c, g)
      BY Zenon, <1>1, <1>2, <2>1 DEF Earned, Early, PastEscrow, PastConsume, PastEffect,
                              MiddlewareInv, ReplayInv, TablesKept
    <2>3. QED
      BY Zenon, <1>2, <1>3, <2>2, EarnedKeeps DEF g
  <1>4. QED
    BY Zenon, <1>3 DEF ClaimRequest

LEMMA ClaimRereadKeeps ==
    ASSUME MiddlewareInv, NEW c \in Calls, ClaimReread(c)
    PROVE  MiddlewareInv'
  <1> DEFINE g == [frame[c] EXCEPT !.pc = "escrow", !.held = TRUE]
  <1>1. frame[c] \in Frame /\ frame[c].pc = "claimRead" /\ EscrowOf[Presents[c]] # None
    BY Zenon DEF MiddlewareInv, TypeOK, EscrowInv, Early, ClaimReread, Reread, At
  <1>2. TablesKept /\ Move(c, g)
    BY Zenon, RowStepKeeps DEF ClaimReread, Reread
  <1>3. g \in Frame
    BY Zenon, <1>1 DEF Frame, Pcs
  <1>4. g.pc = "escrow" /\ g.started = frame[c].started /\ g.wrote = frame[c].wrote
        /\ g.acted = frame[c].acted
    BY Zenon, <1>1 DEF Frame
  <1> HIDE DEF g
  <1>5. Earned(c, g)
    BY Zenon, <1>1, <1>2, <1>3, <1>4 DEF Earned, Early, PastEscrow, PastConsume, PastEffect,
                                  MiddlewareInv, ReplayInv, TablesKept
  <1>6. QED
    BY Zenon, <1>2, <1>5, EarnedKeeps

(* The steps that lead to points where nothing is asked.                   *)
LEMMA LosingKeeps ==
    ASSUME MiddlewareInv, NEW c \in Calls,
           \/ DuplicateReplay(c) \/ ConsumeInvalid(c) \/ BurnReread(c) \/ BurnInvalid(c)
           \/ UnclaimReread(c) \/ Unclaim(c) \/ Crash(c) \/ HandlerRaises(c) \/ HandleException(c)
    PROVE  MiddlewareInv'
  <1>1. TablesKept
    BY Zenon, RowStepKeeps DEF DuplicateReplay, ConsumeInvalid, BurnReread, BurnInvalid, UnclaimReread,
                        Reread, Unclaim, Crash, HandlerRaises, HandleException
  <1>2. \/ \E pc \in Free : Move(c, To(c, pc))
        \/ \E releases \in BOOLEAN : Move(c, Refuse(c, releases))
    BY Zenon DEF DuplicateReplay, ConsumeInvalid, BurnReread, BurnInvalid, UnclaimReread, Reread,
           Unclaim, Crash, HandlerRaises, HandleException, Free
  <1>3. QED
    BY Zenon, <1>1, <1>2, FreeJumpKeeps

(* The one step that entitles a call: the record was open, so no call      *)
(* before it was entitled with this proof.                                 *)
LEMMA EntitleKeeps ==
    ASSUME MiddlewareInv, NEW c \in Calls, frame[c].pc = "escrow",
           EscrowConsumable(escrow, EscrowOf[Presents[c]], Presents[c], frame[c].now),
           escrow' = EscrowConsumed(escrow, EscrowOf[Presents[c]]), row' = row,
           Move(c, To(c, "handler"))
    PROVE  MiddlewareInv'
  <1> DEFINE g == To(c, "handler")
             e == EscrowOf[Presents[c]]
  <1>1. TypeOK /\ e \in EscrowIds /\ escrow \in [EscrowIds -> EscrowState]
    BY Zenon DEF MiddlewareInv, TypeOK, EscrowInv, Early
  <1>2. /\ g \in Frame /\ g.pc = "handler" /\ g.started = frame[c].started
        /\ g.acted = frame[c].acted /\ g.wrote = frame[c].wrote
    BY <1>1, JumpFields DEF Pcs
  <1>3. /\ frame' \in [Calls -> Frame] /\ frame'[c] = g
        /\ \A d \in Calls : d # c => frame'[d] = frame[d]
        /\ clock' = clock
    BY Zenon, <1>1, <1>2, MoveFrames
  <1> HIDE DEF g
  <1>4. /\ escrow' \in [EscrowIds -> EscrowState] /\ escrow'[e] = "consumed"
        /\ \A i \in EscrowIds : escrow[i] \in {"consumed", "revoked"}
                                  => escrow'[i] \in {"consumed", "revoked"}
    BY Zenon, <1>1 DEF EscrowConsumed, EscrowState
  <1>5. escrow[e] \notin {"consumed", "revoked"}
    BY Zenon DEF EscrowConsumable, EscrowClosed
  <1>6. \A d \in Calls : PastEscrow(frame[d]) => Presents[d] # Presents[c]
    BY Zenon, <1>5 DEF MiddlewareInv, EscrowInv
  <1>7. TypeOK'
    BY Zenon, <1>1, <1>3, <1>4 DEF TypeOK
  <1>8. EscrowInv'
    <2>1. \A d \in Calls : d # c => /\ Early(frame'[d]) <=> Early(frame[d])
                                    /\ PastEscrow(frame'[d]) <=> PastEscrow(frame[d])
      BY Zenon, <1>3
    <2>2. \A d \in Calls : Early(frame'[d]) \/ PastEscrow(frame'[d]) => EscrowOf[Presents[d]] # None
      BY Zenon, <1>1, <2>1 DEF MiddlewareInv, EscrowInv
    <2>3. \A d \in Calls : PastEscrow(frame'[d])
                              => escrow'[EscrowOf[Presents[d]]] \in {"consumed", "revoked"}
      <3> SUFFICES ASSUME NEW d \in Calls, PastEscrow(frame'[d]), d # c
                   PROVE  escrow'[EscrowOf[Presents[d]]] \in {"consumed", "revoked"}
        BY Zenon, <1>4
      <3>1. escrow[EscrowOf[Presents[d]]] \in {"consumed", "revoked"}
        BY Zenon, <2>1 DEF MiddlewareInv, EscrowInv
      <3>2. EscrowOf[Presents[d]] \in EscrowIds
        BY Zenon, <2>2
      <3>3. QED
        BY Zenon, <1>4, <3>1, <3>2
    <2>4. QED
      BY Zenon, <1>6, <2>1, <2>2, <2>3 DEF MiddlewareInv, EscrowInv
  <1>9. ReplayInv'
    BY <1>2, <1>3 DEF MiddlewareInv, ReplayInv, PastConsume, PastEffect
  <1>10. QED
    BY ZenonT(30), <1>7, <1>8, <1>9 DEF MiddlewareInv

LEMMA ConsumeEscrowKeeps ==
    ASSUME MiddlewareInv, NEW c \in Calls, ConsumeEscrow(c)
    PROVE  MiddlewareInv'
  <1> DEFINE k == Presents[c]
             e == EscrowOf[k]
  <1>1. /\ TypeOK /\ frame[c].pc = "escrow" /\ e \in EscrowIds /\ row' = row
        /\ escrow \in [EscrowIds -> EscrowState]
    BY Zenon DEF MiddlewareInv, TypeOK, EscrowInv, Early, ConsumeEscrow, At
  <1>2. CASE /\ EscrowConsumable(escrow, e, k, frame[c].now) /\ escrow' = EscrowConsumed(escrow, e)
             /\ Move(c, To(c, "handler"))
    BY ZenonT(30), <1>1, <1>2, EntitleKeeps
  <1>3. CASE /\ escrow' \in {escrow, EscrowConsumed(escrow, e), EscrowRefused(escrow, e, frame[c].now)}
             /\ Move(c, To(c, "abort")) \/ Move(c, Refuse(c, TRUE))
    <2>1. /\ escrow' \in [EscrowIds -> EscrowState]
          /\ \A i \in EscrowIds : escrow[i] \in {"consumed", "revoked"}
                                    => escrow'[i] \in {"consumed", "revoked"}
      BY ZenonT(30), <1>1, <1>3 DEF EscrowConsumed, EscrowRefused, EscrowClosed, EscrowState
    <2>2. TablesKept
      BY ZenonT(30), <1>1, <2>1 DEF TablesKept, TypeOK
    <2>3. QED
      BY Zenon, <1>3, <2>2, FreeJumpKeeps DEF Free
  <1>4. QED
    BY Zenon, <1>2, <1>3 DEF ConsumeEscrow

(* The handler: called, acting, returning.                                 *)
LEMMA HandlerKeeps ==
    ASSUME MiddlewareInv, NEW c \in Calls,
           CallHandler(c) \/ SideEffect(c) \/ HandlerReturns(c)
    PROVE  MiddlewareInv'
  <1>1. frame[c] \in Frame
    BY DEF MiddlewareInv, TypeOK
  <1>2. TablesKept
    BY Zenon, RowStepKeeps DEF CallHandler, SideEffect, HandlerReturns
  <1>3. CASE CallHandler(c)
    <2> DEFINE g == [frame[c] EXCEPT !.pc = "running", !.started = TRUE]
    <2>1. frame[c].pc = "handler" /\ Move(c, g)
      BY Zenon, <1>3 DEF CallHandler, At
    <2>2. g \in Frame
      BY Zenon, <1>1 DEF Frame, Pcs
    <2>3. g.pc = "running" /\ g.started /\ g.acted = frame[c].acted /\ g.wrote = frame[c].wrote
      BY Zenon, <1>1 DEF Frame
    <2> HIDE DEF g
    <2>4. Earned(c, g)
      BY ZenonT(30), <1>2, <2>1, <2>2, <2>3 DEF Earned, Early, PastEscrow, PastConsume, PastEffect,
                                    MiddlewareInv, ReplayInv, TablesKept
    <2>5. QED
      BY Zenon, <1>2, <2>1, <2>4, EarnedKeeps
  <1>4. CASE SideEffect(c)
    <2> DEFINE g == [frame[c] EXCEPT !.acted = TRUE]
    <2>1. frame[c].pc = "running" /\ Move(c, g)
      BY <1>4 DEF SideEffect, At
    <2>2. g \in Frame
      BY Zenon, <1>1 DEF Frame
    <2>3. g.pc = "running" /\ g.started = frame[c].started /\ g.acted /\ g.wrote = frame[c].wrote
      BY Zenon, <1>1, <2>1 DEF Frame
    <2> HIDE DEF g
    <2>4. Earned(c, g)
      BY ZenonT(30), <1>2, <2>1, <2>2, <2>3 DEF Earned, Early, PastEscrow, PastConsume, PastEffect,
                                    MiddlewareInv, ReplayInv, TablesKept
    <2>5. QED
      BY ZenonT(30), <1>2, <2>1, <2>4, EarnedKeeps
  <1>5. CASE HandlerReturns(c)
    <2> DEFINE g == To(c, "consume")
    <2>1. frame[c].acted /\ Move(c, g)
      BY Zenon, <1>5 DEF HandlerReturns
    <2>2. /\ g \in Frame /\ g.pc = "consume" /\ g.started = frame[c].started
          /\ g.acted = frame[c].acted /\ g.wrote = frame[c].wrote
      BY JumpFields DEF MiddlewareInv, Pcs, StorePcs
    <2> HIDE DEF g
    <2>3. Earned(c, g)
      BY Zenon, <1>2, <2>1, <2>2 DEF Earned, Early, PastEscrow, PastConsume, PastEffect,
                              MiddlewareInv, ReplayInv, TablesKept
    <2>4. QED
      BY ZenonT(30), <1>2, <2>1, <2>3, EarnedKeeps
  <1>6. QED
    BY ZenonT(30), <1>3, <1>4, <1>5

(* A successful mark_consumed after the handler makes the row consumed.    *)
LEMMA MarkConsumedKeeps ==
    ASSUME MiddlewareInv, NEW c \in Calls, NEW site \in {"consume", "burn"}, MarkConsumed(c, site)
    PROVE  MiddlewareInv'
  <1>1. TypeOK /\ row \in [Keys -> Status] /\ Presents[c] \in Keys /\ frame[c].pc = site
    BY Zenon DEF MiddlewareInv, TypeOK, MarkConsumed, At
  <1>2. TablesKept
    BY Zenon, RowStepKeeps DEF MarkConsumed
  <1>3. CASE \E pc \in Free : Move(c, To(c, pc))
    BY Zenon, <1>2, <1>3, FreeJumpKeeps
  <1>4. CASE site = "consume" /\ row' = Consumed(row, Presents[c]) /\ Move(c, To(c, "consumeRead"))
    <2> DEFINE g == To(c, "consumeRead")
    <2>1. /\ g \in Frame /\ g.pc = "consumeRead" /\ g.started = frame[c].started
          /\ g.acted = frame[c].acted /\ g.wrote = frame[c].wrote
      BY <1>1, JumpFields DEF Pcs, StorePcs
    <2>2. row'[Presents[c]] = "consumed"
      BY Zenon, <1>1, <1>4 DEF Consumed
    <2> HIDE DEF g
    <2>3. Earned(c, g)
      BY Zenon, <1>1, <1>4, <2>1, <2>2 DEF Earned, Early, PastEscrow, PastEffect, MiddlewareInv, ReplayInv
    <2>4. QED
      BY Zenon, <1>2, <1>4, <2>3, EarnedKeeps DEF g
  <1>5. QED
    BY Zenon, <1>3, <1>4 DEF MarkConsumed, Free

LEMMA ConsumeRereadKeeps ==
    ASSUME MiddlewareInv, NEW c \in Calls, ConsumeReread(c)
    PROVE  MiddlewareInv'
  <1> DEFINE g == To(c, "receipt")
  <1>1. TypeOK /\ frame[c].pc = "consumeRead" /\ Move(c, g)
    BY Zenon DEF MiddlewareInv, ConsumeReread, Reread, At
  <1>2. TablesKept
    BY Zenon, RowStepKeeps DEF ConsumeReread, Reread
  <1>3. /\ g \in Frame /\ g.pc = "receipt" /\ g.started = frame[c].started
        /\ g.acted = frame[c].acted /\ g.wrote = frame[c].wrote
    BY <1>1, JumpFields DEF Pcs
  <1> HIDE DEF g
  <1>4. Earned(c, g)
    BY Zenon, <1>1, <1>2, <1>3 DEF Earned, Early, PastEscrow, PastConsume, PastEffect,
                            MiddlewareInv, ReplayInv, TablesKept
  <1>5. QED
    BY Zenon, <1>1, <1>2, <1>4, EarnedKeeps

(* The writes, each of which may raise.                                    *)
LEMMA WriteKeeps ==
    ASSUME MiddlewareInv, NEW c \in Calls,
           WriteReceipt(c) \/ WriteRefusal(c) \/ WriteRefusedReceipt(c)
    PROVE  MiddlewareInv'
  <1>1. TypeOK /\ frame[c] \in Frame
    BY Zenon DEF MiddlewareInv, TypeOK
  <1>2. TablesKept
    BY Zenon, RowStepKeeps DEF WriteReceipt, WriteRefusal, WriteRefusedReceipt
  <1>3. CASE \E pc \in Free : Move(c, To(c, pc))
    BY Zenon, <1>2, <1>3, FreeJumpKeeps
  <1>4. ASSUME NEW pc \in {"done", "refusedReceipt"}, NEW what \in {"executed", "refusal", "refused"},
               what = "executed" => frame[c].pc = "receipt",
               Move(c, [frame[c] EXCEPT !.pc = pc, !.wrote = @ \cup {what}])
        PROVE  MiddlewareInv'
    <2> DEFINE g == [frame[c] EXCEPT !.pc = pc, !.wrote = @ \cup {what}]
    <2>1. g \in Frame
      BY Zenon, <1>1 DEF Frame, Pcs, Ended
    <2>2. /\ g.pc = pc /\ g.started = frame[c].started /\ g.acted = frame[c].acted
          /\ g.wrote = frame[c].wrote \cup {what}
      BY Zenon, <1>1 DEF Frame
    <2> HIDE DEF g
    <2>3. Earned(c, g)
      BY ZenonT(30), <1>2, <1>4, <2>1, <2>2 DEF Earned, Early, PastEscrow, PastConsume, PastEffect,
                                    MiddlewareInv, ReplayInv, TablesKept
    <2>4. QED
      BY Zenon, <1>2, <1>4, <2>3, EarnedKeeps DEF g
  <1>5. QED
    BY Zenon, <1>3, <1>4 DEF WriteReceipt, WriteRefusal, WriteRefusedReceipt, At, Free

LEMMA StoreFailsKeeps ==
    ASSUME MiddlewareInv, NEW c \in Calls, StoreFails(c)
    PROVE  MiddlewareInv'
  <1> DEFINE pc == IF frame[c].pc \in {"unclaim", "unclaimRead", "burn", "burnRead", "burnLost"}
                   THEN "raised" ELSE "abort"
             g == [frame[c] EXCEPT !.outage = TRUE, !.pc = pc]
  <1>1. TypeOK /\ frame[c] \in Frame /\ Move(c, g)
    BY Zenon DEF MiddlewareInv, TypeOK, StoreFails
  <1>2. TablesKept
    BY Zenon, RowStepKeeps DEF StoreFails
  <1>3. pc \in Free /\ pc \in Pcs
    BY DEF Free, Pcs, Ended
  <1> HIDE DEF pc
  <1>4. g \in Frame
    BY Zenon, <1>1, <1>3 DEF Frame
  <1>5. g.pc = pc /\ g.started = frame[c].started /\ g.acted = frame[c].acted
        /\ g.wrote = frame[c].wrote
    BY Zenon, <1>1 DEF Frame
  <1> HIDE DEF g
  <1>6. Earned(c, g)
    BY ZenonT(30), <1>2, <1>3, <1>4, <1>5, FreeEarned
  <1>7. QED
    BY ZenonT(30), <1>1, <1>2, <1>6, EarnedKeeps

(* Clock, sweep and revocation touch no frame.                             *)
LEMMA ElsewhereKeeps ==
    ASSUME MiddlewareInv, UNCHANGED frame, TablesKept, clock' \in Int
    PROVE  MiddlewareInv'
  <1>1. TypeOK'
    BY Zenon DEF MiddlewareInv, TypeOK, TablesKept
  <1>2. EscrowInv'
    BY DEF MiddlewareInv, EscrowInv, TablesKept, Early, PastEscrow
  <1>3. ReplayInv'
    BY Zenon DEF MiddlewareInv, ReplayInv, TablesKept, PastConsume, PastEffect
  <1>4. QED
    BY ZenonT(30), <1>1, <1>2, <1>3 DEF MiddlewareInv

LEMMA MiddlewareStep == MiddlewareInv /\ [Next]_vars => MiddlewareInv'
  <1> SUFFICES ASSUME MiddlewareInv, [Next]_vars PROVE MiddlewareInv'
    BY Zenon
  <1>1. /\ row \in [Keys -> Status] /\ escrow \in [EscrowIds -> EscrowState] /\ clock \in Int
    BY Zenon DEF MiddlewareInv, TypeOK
  <1>2. CASE UNCHANGED vars \/ Tick
    BY <1>1, <1>2, ElsewhereKeeps DEF vars, Tick, TablesKept
  <1>3. CASE PurgeExpired
    <2>1. TablesKept
      BY Zenon, <1>1, <1>3 DEF PurgeExpired, Purged, Status, TablesKept
    <2>2. QED
      BY Zenon, <1>1, <1>3, <2>1, ElsewhereKeeps DEF PurgeExpired
  <1>4. ASSUME NEW e \in EscrowIds, RevokeEscrow(e) PROVE MiddlewareInv'
    <2>1. TablesKept
      BY Zenon, <1>1, <1>4 DEF RevokeEscrow, EscrowRevoked, EscrowState, TablesKept
    <2>2. QED
      BY Zenon, <1>1, <1>4, <2>1, ElsewhereKeeps DEF RevokeEscrow
  <1>5. ASSUME NEW c \in Calls, Step(c) PROVE MiddlewareInv'
    BY <1>5, BeginKeeps, ClaimRequestKeeps, ClaimRereadKeeps, ConsumeEscrowKeeps, HandlerKeeps,
       MarkConsumedKeeps, ConsumeRereadKeeps, WriteKeeps, StoreFailsKeeps, LosingKeeps DEF Step
  <1>6. QED
    BY Zenon, <1>2, <1>3, <1>4, <1>5 DEF Next

(* The handler of ProtectedEndpointMiddleware runs at most once per proof, *)
(* whatever the calls, the sweeps, the revocations and the faults.         *)
THEOREM AtMostOnceTheorem == Spec => []AtMostOnce
  <1>1. MiddlewareInv => AtMostOnce
    BY Zenon DEF MiddlewareInv, EscrowInv, PastEscrow, AtMostOnce
  <1>2. QED
    BY <1>1, MiddlewareInit, MiddlewareStep, PTL DEF Spec

(* An executed receipt of the middleware stands for a side effect that     *)
(* happened and a replay row that is consumed, and stays consumed.         *)
THEOREM ExecutedIsConsumedTheorem == Spec => []ExecutedIsConsumed
  <1>1. MiddlewareInv => ExecutedIsConsumed
    BY DEF MiddlewareInv, ReplayInv, PastConsume, PastEffect, ExecutedIsConsumed
  <1>2. QED
    BY <1>1, MiddlewareInit, MiddlewareStep, PTL DEF Spec
==============================================================================
