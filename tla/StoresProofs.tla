---------------------------- MODULE StoresProofs -----------------------------
(***************************************************************************)
(* The replay store and the key cache, for any keys, instances, instants,  *)
(* threads, rotations and cache ages: a key is consumed once as long as no *)
(* rollback escapes every counter, a database behind its peak is refused,  *)
(* and no key is reported missing, nor accepted, on a document older than  *)
(* the caller may be given.                                                *)
(***************************************************************************)
EXTENDS ReplayStore, KeyDiscovery, TLAPS

(***************************************************************************)
(* The replay store.                                                       *)
(***************************************************************************)

USE ExpiryAssumption, HostAssumption, InstantAssumption, MaxCounterAssumption

(* The row operators return rows.                                          *)
LEMMA RowsTyped ==
    ASSUME NEW rows \in [Keys -> Status], NEW k \in Keys, NEW now \in Instants
    PROVE  /\ Claimed(rows, k) \in [Keys -> Status]
           /\ Consumed(rows, k) \in [Keys -> Status]
           /\ Released(rows, k) \in [Keys -> Status]
           /\ Inspected(rows, k, now) \in [Keys -> Status]
           /\ Purged(rows, now) \in [Keys -> Status]
    BY DEF Status, Claimed, Consumed, Released, Inspected, Purged

(* Only mark_consumed changes which rows are consumed: a claim takes a row *)
(* that is not consumed, and inspect, release and the sweep touch only     *)
(* claimed rows.                                                           *)
LEMMA ConsumedRowsKept ==
    ASSUME NEW rows \in [Keys -> Status], NEW k \in Keys, NEW now \in Instants
    PROVE  /\ Claimable(rows, k, now) => \A j \in Keys :
                 (Claimed(rows, k)[j] = "consumed") <=> (rows[j] = "consumed")
           /\ Releasable(rows, k) => \A j \in Keys :
                 (Released(rows, k)[j] = "consumed") <=> (rows[j] = "consumed")
           /\ \A j \in Keys :
                 (Inspected(rows, k, now)[j] = "consumed") <=> (rows[j] = "consumed")
           /\ \A j \in Keys :
                 (Purged(rows, now)[j] = "consumed") <=> (rows[j] = "consumed")
    BY DEF Status, Claimable, Releasable, Claimed, Released, Inspected, Purged

LEMMA StoreInit == Init => StoreInv
  <1> SUFFICES ASSUME Init PROVE StoreInv
    BY Zenon
  <1>1. row \in [Keys -> Status] /\ backup \in [row : [Keys -> Status], counter : 0 .. MaxCounter]
    BY DEF Init, Status
  <1>2. TypeOK
    BY ZenonT(60), <1>1 DEF Init, TypeOK, Calls
  <1>3. RowsMatchHistory(row) /\ RowsMatchHistory(backup.row)
    BY Zenon DEF Init, RowsMatchHistory
  <1>4. QED
    BY <1>2, <1>3 DEF Init, StoreInv, RollbackLocksOut, ConsumedOnce

(* A transaction that changes rows without consuming a key.                *)
LEMMA MutateKeeps ==
    ASSUME StoreInv, NEW p \in Procs, NEW rows \in [Keys -> Status],
           Monotonic(p), Mutate(p, rows), UNCHANGED consumptions,
           call' \in [Threads -> Calls],
           \A j \in Keys : (rows[j] = "consumed") <=> (row[j] = "consumed")
    PROVE  StoreInv'
  <1>1. TypeOK'
    BY DEF StoreInv, TypeOK, Mutate
  <1>2. ~blindSpot => counter = peak
    BY DEF StoreInv, RollbackLocksOut, TypeOK
  <1>3. ~blindSpot => peak' = counter' /\ backup'.counter < peak'
    BY <1>2 DEF Mutate, StoreInv, TypeOK
  <1>4. counter' <= peak' /\ backup'.counter <= peak'
    BY DEF Mutate, StoreInv, TypeOK
  <1>5. \A q \in Procs : observed'[q] <= peak'
    BY DEF Mutate, StoreInv, TypeOK
  <1>6. RollbackLocksOut' /\ ConsumedOnce'
    BY <1>1, <1>3 DEF Mutate, StoreInv, TypeOK, RollbackLocksOut, ConsumedOnce
  <1>7. ~blindSpot' => RowsMatchHistory(row)'
    BY Zenon, <1>2 DEF Mutate, StoreInv, TypeOK, RowsMatchHistory
  <1>8. QED
    BY <1>1, <1>3, <1>4, <1>5, <1>6, <1>7 DEF StoreInv, Mutate, TypeOK

(* A transaction that changes nothing only notes the counter.              *)
LEMMA ReadOnlyKeeps ==
    ASSUME StoreInv, NEW p \in Procs, Monotonic(p), ReadOnly(p),
           call' \in [Threads -> Calls]
    PROVE  StoreInv'
  <1>1. TypeOK'
    BY Zenon DEF StoreInv, TypeOK, ReadOnly, historyVars
  <1>2. RollbackLocksOut'
    BY Zenon DEF StoreInv, TypeOK, ReadOnly, RollbackLocksOut, Monotonic, historyVars
  <1>3. QED
    BY <1>1, <1>2 DEF StoreInv, TypeOK, ReadOnly, RowsMatchHistory, ConsumedOnce, historyVars

LEMMA InspectKeeps ==
    ASSUME StoreInv, NEW p \in Procs, NEW k \in Keys, NEW now \in Instants,
           Monotonic(p), InspectTransaction(p, k, now), call' \in [Threads -> Calls]
    PROVE  StoreInv'
  <1>1. row \in [Keys -> Status]
    BY Zenon DEF StoreInv, TypeOK
  <1>2. CASE Inspected(row, k, now) = row /\ ReadOnly(p)
    BY Zenon, <1>2, ReadOnlyKeeps
  <1>3. CASE Mutate(p, Inspected(row, k, now)) /\ UNCHANGED consumptions
    BY <1>1, <1>3, RowsTyped, ConsumedRowsKept, MutateKeeps
  <1>4. QED
    BY <1>2, <1>3 DEF InspectTransaction

LEMMA ContinueTyped ==
    ASSUME TypeOK, NEW t \in Threads, NEW k \in Keys, NEW now \in Instants,
           NEW phase \in {"reread", "lost"}, Continue(t, phase, k, now)
    PROVE  call' \in [Threads -> Calls]
    BY DEF TypeOK, Continue, Calls

LEMMA ClaimOnceKeeps ==
    ASSUME StoreInv, NEW t \in Threads, NEW k \in Keys, NEW now \in Instants,
           ClaimOnce(t, k, now)
    PROVE  StoreInv'
  <1>1. row \in [Keys -> Status] /\ Host[t] \in Procs /\ Monotonic(Host[t])
    BY Zenon DEF StoreInv, TypeOK, ClaimOnce, Begin
  <1>2. call' \in [Threads -> Calls]
    BY Zenon, ContinueTyped DEF ClaimOnce, StoreInv
  <1>3. CASE Claimable(row, k, now) /\ Mutate(Host[t], Claimed(row, k)) /\ UNCHANGED consumptions
    BY Zenon, <1>1, <1>2, <1>3, RowsTyped, ConsumedRowsKept, MutateKeeps
  <1>4. CASE ReadOnly(Host[t])
    BY <1>1, <1>2, <1>4, ReadOnlyKeeps
  <1>5. QED
    BY Zenon, <1>3, <1>4 DEF ClaimOnce

LEMMA ReleaseClaimKeeps ==
    ASSUME StoreInv, NEW t \in Threads, NEW k \in Keys, NEW now \in Instants,
           ReleaseClaim(t, k, now)
    PROVE  StoreInv'
  <1>1. row \in [Keys -> Status] /\ Host[t] \in Procs /\ Monotonic(Host[t])
    BY Zenon DEF StoreInv, TypeOK, ReleaseClaim, Begin
  <1>2. call' \in [Threads -> Calls]
    BY Zenon, ContinueTyped DEF ReleaseClaim, StoreInv, TypeOK
  <1>3. CASE Releasable(row, k) /\ Mutate(Host[t], Released(row, k)) /\ UNCHANGED consumptions
    BY Zenon, <1>1, <1>2, <1>3, RowsTyped, ConsumedRowsKept, MutateKeeps
  <1>4. CASE ReadOnly(Host[t])
    BY <1>1, <1>2, <1>4, ReadOnlyKeeps
  <1>5. QED
    BY Zenon, <1>3, <1>4 DEF ReleaseClaim

(* The one transaction that adds a consumption: the row was claimed at the *)
(* peak, so the key had none.                                              *)
LEMMA MarkConsumedKeeps ==
    ASSUME StoreInv, NEW t \in Threads, NEW k \in Keys, NEW now \in Instants,
           MarkConsumed(t, k, now)
    PROVE  StoreInv'
  <1>1. row \in [Keys -> Status] /\ Host[t] \in Procs /\ Monotonic(Host[t])
    BY Zenon DEF StoreInv, TypeOK, MarkConsumed, Begin
  <1>2. call' \in [Threads -> Calls]
    BY Zenon, ContinueTyped DEF MarkConsumed, StoreInv
  <1>3. CASE ReadOnly(Host[t])
    BY <1>1, <1>2, <1>3, ReadOnlyKeeps
  <1>4. CASE /\ Consumable(row, k)
             /\ Mutate(Host[t], Consumed(row, k))
             /\ consumptions' = [consumptions EXCEPT ![k] = @ + 1]
    <2>1. TypeOK'
      BY <1>1, <1>2, <1>4, RowsTyped DEF StoreInv, TypeOK, Mutate
    <2>2. ~blindSpot => counter = peak
      BY <1>1 DEF StoreInv, RollbackLocksOut, TypeOK
    <2>3. ~blindSpot' => RowsMatchHistory(row)'
      BY <1>1, <1>4, <2>2
      DEF StoreInv, TypeOK, RowsMatchHistory, Mutate, Consumable, Consumed
    <2>4. ConsumedOnce'
      BY <2>1, <2>3 DEF ConsumedOnce, RowsMatchHistory, TypeOK
    <2>5. ~blindSpot => peak' = counter' /\ backup'.counter < peak'
      BY <2>2, <1>4 DEF Mutate, StoreInv, TypeOK
    <2>6. RollbackLocksOut'
      BY <2>1, <2>5, <1>4 DEF RollbackLocksOut, Mutate, TypeOK
    <2>7. counter' <= peak' /\ backup'.counter <= peak'
      BY <1>4 DEF Mutate, StoreInv, TypeOK
    <2>8. \A q \in Procs : observed'[q] <= peak'
      BY <1>1, <1>4 DEF Mutate, StoreInv, TypeOK
    <2>9. QED
      BY <1>4, <2>1, <2>3, <2>4, <2>5, <2>6, <2>7, <2>8 DEF StoreInv, Mutate, TypeOK
  <1>5. QED
    BY Zenon, <1>3, <1>4 DEF MarkConsumed

LEMMA PurgeExpiredKeeps ==
    ASSUME StoreInv, NEW t \in Threads, NEW now \in Instants, PurgeExpired(t, now)
    PROVE  StoreInv'
  <1>1. row \in [Keys -> Status] /\ Host[t] \in Procs /\ Monotonic(Host[t])
        /\ call' \in [Threads -> Calls]
    BY Zenon DEF StoreInv, TypeOK, PurgeExpired, Begin
  <1>2. CASE Mutate(Host[t], Purged(row, now)) /\ UNCHANGED consumptions
    <2>1. Purged(row, now) \in [Keys -> Status]
      BY Zenon, <1>1 DEF Purged, Status
    <2>2. \A j \in Keys : (Purged(row, now)[j] = "consumed") <=> (row[j] = "consumed")
      BY Zenon, <1>1 DEF Purged, Status
    <2>3. QED
      BY Zenon, <1>1, <1>2, <2>1, <2>2, MutateKeeps
  <1>3. CASE ReadOnly(Host[t])
    BY Zenon, <1>1, <1>3, ReadOnlyKeeps
  <1>4. QED
    BY Zenon, <1>2, <1>3 DEF PurgeExpired

LEMMA RereadKeeps ==
    ASSUME StoreInv, NEW t \in Threads, Reread(t) \/ RereadLost(t)
    PROVE  StoreInv'
  <1>1. call[t] \in Calls /\ call[t].phase # "idle"
    BY Zenon DEF StoreInv, TypeOK, Reread, RereadLost
  <1>2. call[t].key \in Keys /\ call[t].now \in Instants
    BY <1>1 DEF Calls, Idle
  <1>3. Host[t] \in Procs /\ call' \in [Threads -> Calls] /\ Monotonic(Host[t])
    BY Zenon DEF StoreInv, TypeOK, Reread, RereadLost, Calls
  <1>4. InspectTransaction(Host[t], call[t].key, call[t].now)
    BY Zenon DEF Reread, RereadLost
  <1>5. QED
    BY ZenonT(60), <1>2, <1>3, <1>4, InspectKeeps

(* A restart forgets what the instance had observed; when the database is  *)
(* behind its peak that is a blind spot, otherwise nothing is lost.        *)
LEMMA RestartKeeps ==
    ASSUME StoreInv, NEW p \in Procs, Restart(p)
    PROVE  StoreInv'
  <1>1. TypeOK'
    BY ZenonT(60) DEF StoreInv, TypeOK, Restart, dbVars, Calls
  <1>2. RollbackLocksOut'
    BY Zenon DEF StoreInv, TypeOK, Restart, RollbackLocksOut, Monotonic, dbVars
  <1>3. QED
    BY Zenon, <1>1, <1>2 DEF StoreInv, TypeOK, Restart, RowsMatchHistory, ConsumedOnce, dbVars

(* A restore goes back to a backup at the peak, which agrees with the      *)
(* history, or behind it: then every instance is ahead, or it is a blind   *)
(* spot.                                                                   *)
LEMMA RestoreKeeps ==
    ASSUME StoreInv, Restore
    PROVE  StoreInv'
  <1>1. TypeOK'
    BY Zenon DEF StoreInv, TypeOK, Restore
  <1>2. RollbackLocksOut'
    BY Zenon DEF StoreInv, TypeOK, Restore, RollbackLocksOut, Monotonic
  <1>3. QED
    BY Zenon, <1>1, <1>2 DEF StoreInv, TypeOK, Restore, RowsMatchHistory, ConsumedOnce

LEMMA BackupKeeps ==
    ASSUME StoreInv, Backup
    PROVE  StoreInv'
    BY Zenon DEF StoreInv, TypeOK, Backup, RollbackLocksOut, Monotonic, RowsMatchHistory,
           ConsumedOnce, dbVars, historyVars

LEMMA RefusedKeeps ==
    ASSUME StoreInv, NEW t \in Threads, RereadRefused(t)
    PROVE  StoreInv'
    BY Zenon DEF StoreInv, TypeOK, RereadRefused, RollbackLocksOut, Monotonic, RowsMatchHistory,
           ConsumedOnce, dbVars, historyVars, Calls

LEMMA StutterKeeps ==
    ASSUME StoreInv, UNCHANGED vars
    PROVE  StoreInv'
    BY DEF StoreInv, TypeOK, vars, RollbackLocksOut, Monotonic, RowsMatchHistory, ConsumedOnce

(* Every transaction, restart, backup and restore preserves the invariant. *)
LEMMA StoreStep == StoreInv /\ [Next]_vars => StoreInv'
  <1> SUFFICES ASSUME StoreInv, [Next]_vars PROVE StoreInv'
    BY Zenon
  <1>1. ASSUME NEW t \in Threads, NEW k \in Keys, NEW now \in Instants, Inspect(t, k, now)
        PROVE  StoreInv'
    <2>1. Host[t] \in Procs /\ Monotonic(Host[t]) /\ call' \in [Threads -> Calls]
      BY Zenon, <1>1 DEF Inspect, Begin, StoreInv, TypeOK
    <2>2. QED
      BY Zenon, <1>1, <2>1, InspectKeeps DEF Inspect
  <1>2. ASSUME NEW t \in Threads, ThreadStep(t) PROVE StoreInv'
    BY <1>1, <1>2, ClaimOnceKeeps, MarkConsumedKeeps, ReleaseClaimKeeps, PurgeExpiredKeeps,
       RereadKeeps, RefusedKeeps DEF ThreadStep
  <1>3. QED
    BY Zenon, <1>2, RestartKeeps, BackupKeeps, RestoreKeeps, StutterKeeps DEF Next

(* The inductive invariant of the replay store holds in every behaviour.   *)
THEOREM StoreInvariant == Spec => []StoreInv
    BY StoreInit, StoreStep, PTL DEF Spec

(* DbApiReplayStore never consumes a key twice, whatever restarts and      *)
(* restores happen, unless the rollback was invisible to every counter.    *)
THEOREM ConsumedOnceTheorem == Spec => []ConsumedOnce
  <1>1. StoreInv => ConsumedOnce
    BY Zenon DEF StoreInv
  <1>2. QED
    BY <1>1, StoreInvariant, PTL

(* A database behind its peak is refused by every live store instance.     *)
THEOREM RollbackLocksOutTheorem == Spec => []RollbackLocksOut
  <1>1. StoreInv => RollbackLocksOut
    BY Zenon DEF StoreInv
  <1>2. QED
    BY <1>1, StoreInvariant, PTL

(* An instant is a second and a fraction.                                  *)
LEMMA SecondsOf ==
    ASSUME NEW n \in Nat
    PROVE  /\ n \div Resolution \in Nat /\ n % Resolution \in 0 .. Resolution - 1
           /\ n = Resolution * (n \div Resolution) + (n % Resolution)
    BY ResolutionAssumption

(* Seconds are Resolution ticks apart.                                     *)
LEMMA NextSecond ==
    ASSUME NEW m \in Nat, NEW n \in Nat, m < n
    PROVE  Resolution * m + Resolution <= Resolution * n
  <1> USE ResolutionAssumption
  <1>1. n - m - 1 \in Nat
    OBVIOUS
  <1>2. \A a, b \in Nat : a * b \in Nat
    OBVIOUS
  <1>3. Resolution * (n - m - 1) \in Nat
    BY <1>1, <1>2
  <1>4. Resolution * (n - m - 1) = Resolution * n - Resolution * m - Resolution
    OBVIOUS
  <1>5. Resolution * n \in Nat /\ Resolution * m \in Nat
    BY <1>2
  <1>6. QED
    BY <1>3, <1>4, <1>5

(* However the texts of one second sort, an earlier second sorts first.    *)
LEMMA TextWithinSecond ==
    ASSUME NEW e \in Nat, NEW n \in Nat, TextOrder(e) <= TextOrder(n)
    PROVE  e \div Resolution <= n \div Resolution
  <1> DEFINE E == e \div Resolution
             N == n \div Resolution
             Re == Resolution * E
             Rn == Resolution * N
  <1> USE ResolutionAssumption
  <1>1. E \in Nat /\ e % Resolution \in 0 .. Resolution - 1 /\ e = Re + (e % Resolution)
    BY SecondsOf
  <1>2. N \in Nat /\ n % Resolution \in 0 .. Resolution - 1 /\ n = Rn + (n % Resolution)
    BY SecondsOf
  <1>3. Re \in Int /\ Rn \in Int
    BY <1>1, <1>2
  <1>4. SUFFICES ASSUME N < E PROVE FALSE
    BY <1>1, <1>2
  <1>5. Rn + Resolution <= Re
    BY <1>1, <1>2, <1>4, NextSecond
  <1>6. 2 * e <= TextOrder(e)
    BY <1>1 DEF TextOrder
  <1> HIDE DEF E, N, Re, Rn
  <1>7. TextOrder(n) < 2 * (Rn + Resolution)
    <2>1. CASE n % Resolution = 0
      BY <1>2, <1>3, <2>1 DEF TextOrder
    <2>2. CASE n % Resolution # 0
      BY <1>2, <1>3, <2>2 DEF TextOrder
    <2>3. QED
      BY <2>1, <2>2
  <1>8. TextOrder(n) \in Int /\ TextOrder(e) \in Int
    BY <1>1, <1>2 DEF TextOrder
  <1>9. QED
    BY <1>1, <1>3, <1>5, <1>6, <1>7, <1>8

(* claim_once takes over a claim at the earliest in the second in which it *)
(* expires, whatever fractions `now` and expires_at have.                  *)
THEOREM ActiveClaimExclusiveToTheSecondTheorem ==
    Spec => ActiveClaimExclusiveToTheSecond
  <1>1. ASSUME StoreInv, NEW t \in Threads, NEW k \in Keys, NEW now \in Instants, TakesOver(t, k, now)
        PROVE  ExpiresAt[k] \div Resolution <= now \div Resolution
    <2>1. counter \in Nat
      BY <1>1 DEF StoreInv, TypeOK
    <2>2. counter' # counter
      BY <1>1, <2>1 DEF TakesOver
    <2>3. Claimable(row, k, now) /\ row[k] = "claimed"
      BY Zenon, <1>1, <2>2 DEF TakesOver, ClaimOnce, ReadOnly
    <2>4. TextOrder(ExpiresAt[k]) <= TextOrder(now)
      BY <2>3 DEF Claimable, TextDue
    <2>5. QED
      BY <2>4, TextWithinSecond
  <1>2. StoreInv => [\A t \in Threads, k \in Keys, now \in Instants :
                        TakesOver(t, k, now) => ExpiresAt[k] \div Resolution <= now \div Resolution]_vars
    BY Zenon, <1>1
  <1>3. QED
    BY <1>2, StoreInvariant, PTL DEF Spec, ActiveClaimExclusiveToTheSecond

(***************************************************************************)
(* Key discovery.                                                          *)
(***************************************************************************)

DiscoveredKeys == [kid : {"k1", "k2"}, algorithm : {"EdDSA"}, uses : {{"proof_issuance"}}, status : States,
                   notBefore : Int, expires : Int, revoked : Int, hardRevoked : Int]
Documents == [contract : {TRUE}, issuer : {"issuer"}, origin : {Origin}, maxAge : Ages, keys : Seq(DiscoveredKeys), at : Int]
DiscoveryPcs == {"idle", "fetch", "refresh", "refetch", "store", "restore", "done"}
KeyVerdicts == {"ok", "NotFound", "IssuerMismatch", "Format", "PurposeMismatch", "NotYetValid", "Expired", "Revoked", "FetchError"}
Answers == KeyVerdicts \cup {"none", "BadSignature"}

DiscoveryType ==
    /\ resolverNow \in Int
    /\ published \in Seq(Documents) /\ Current >= 1
    /\ cache = <<>> \/ \E v \in Nat, e \in Int : cache = <<[version |-> v, expires |-> e]>>
    /\ at \in [Verifiers -> DiscoveryPcs] /\ answer \in [Verifiers -> Answers]
    /\ got \in [Verifiers -> Nat] /\ seen \in [Verifiers -> Nat] /\ began \in [Verifiers -> Int]

(* Instant b is no later than the moment version v was superseded.         *)
Timely(b, v) == b <= resolverNow /\ (v < Current => b <= Superseded(v))

(* A fetch that is under way began in the past; what it fetched was served *)
(* after the call began, and replaced, if at all, after the fetch began.   *)
ThreadInv(t) ==
    /\ seen[t] <= Current
    /\ at[t] \in {"fetch", "refetch"} => began[t] <= resolverNow
    /\ at[t] \in {"store", "restore"} =>
          got[t] \in 1..Current /\ got[t] >= seen[t] /\ Timely(began[t], got[t])
    /\ at[t] # "done" => answer[t] = "none"
    /\ answer[t] = "NotFound" => got[t] >= seen[t]

CacheInv ==
    cache # <<>> => cache[1].version \in 1..Current /\ Timely(cache[1].expires - LongestAge, cache[1].version)

DiscoveryInv == DiscoveryType /\ CacheInv /\ \A t \in Verifiers : ThreadInv(t)

LEMMA LongestAgeBounds ==
    LongestAge \in Int /\ \A a \in Ages \cup {DefaultMaxAge} : a \in Int /\ a <= LongestAge
  <1> DEFINE Longest(x) == x \in Ages \cup {DefaultMaxAge} /\ \A b \in Ages \cup {DefaultMaxAge} : b <= x
  <1>1. \E x : Longest(x)
    BY Zenon, AgesAssumption
  <1>2. LongestAge = CHOOSE x : Longest(x)
    BY Zenon DEF LongestAge
  <1> HIDE DEF Longest
  <1>3. Longest(LongestAge)
    BY Zenon, <1>1, <1>2
  <1>4. QED
    BY Zenon, <1>3, AgesAssumption DEF Longest

LEMMA MaxAgeBounds ==
    ASSUME NEW h \in Ages, NEW a \in Ages
    PROVE  MaxAge(h, a, DefaultMaxAge) \in Int /\ MaxAge(h, a, DefaultMaxAge) <= LongestAge
  <1> DEFINE C == {h, a} \ {None}
             Least(x) == x \in C /\ \A b \in C : x <= b
  <1>1. CASE C = {}
    BY Zenon, <1>1, LongestAgeBounds DEF MaxAge
  <1>2. CASE C # {}
    <2>1. \E x : Least(x)
      BY <1>2, LongestAgeBounds
    <2>2. MaxAge(h, a, DefaultMaxAge) = CHOOSE x : Least(x)
      BY Zenon, <1>2 DEF MaxAge
    <2> HIDE DEF Least
    <2>3. Least(MaxAge(h, a, DefaultMaxAge))
      BY Zenon, <2>1, <2>2
    <2>4. QED
      BY Zenon, <2>3, LongestAgeBounds DEF Least
  <1>3. QED
    BY Zenon, <1>1, <1>2

LEMMA SelectAnswers ==
    ASSUME NEW doc, NEW a, NEW s
    PROVE  SelectDiscovered(doc, a, s) \in KeyVerdicts
  <1>1. \A k : KeyUsable(k, a.issuedAt, a.use, s) \in KeyVerdicts
    BY DEF KeyUsable, KeyVerdicts
  <1>2. QED
    BY Zenon, <1>1 DEF SelectDiscovered, KeyVerdicts

(* Time passes, or the issuer publishes: what was timely stays so.         *)
LEMMA TimelyKept ==
    ASSUME DiscoveryType, NEW b \in Int, NEW v \in 1..Current, Timely(b, v),
           \/ published' = published /\ resolverNow' \in Int /\ resolverNow' >= resolverNow
           \/ \E d \in Documents : d.at = resolverNow /\ published' = Append(published, d) /\ resolverNow' = resolverNow
    PROVE  Timely(b, v)'
  <1>1. CASE published' = published
    BY <1>1 DEF DiscoveryType, Timely, Current, Superseded
  <1>2. CASE published' # published
    <2>1. PICK d \in Documents : d.at = resolverNow /\ published' = Append(published, d) /\ resolverNow' = resolverNow
      BY Zenon, <1>2
    <2>2. /\ Current \in Nat /\ Current' = Current + 1 /\ published'[Current + 1] = d
          /\ \A n \in 1..Current : published'[n] = published[n]
      BY <2>1 DEF DiscoveryType, Current
    <2>3. CASE v < Current
      <3>1. v + 1 \in 1..Current
        BY <2>2, <2>3
      <3>2. published'[v + 1] = published[v + 1]
        BY Zenon, <2>2, <3>1
      <3>3. QED
        BY Zenon, <2>1, <2>3, <3>2 DEF Timely, Superseded
    <2>4. CASE v = Current
      BY Zenon, <2>1, <2>2, <2>4 DEF Timely, Superseded
    <2>5. QED
      BY <2>2, <2>3, <2>4
  <1>3. QED
    BY Zenon, <1>1, <1>2

(* So the issuer and the clock disturb nothing.                            *)
LEMMA IssuerKeeps ==
    ASSUME DiscoveryInv, UNCHANGED <<cache, at, got, began, seen, what, answer>>,
           \/ published' = published /\ resolverNow' \in Int /\ resolverNow' >= resolverNow
           \/ \E d \in Documents : d.at = resolverNow /\ published' = Append(published, d) /\ resolverNow' = resolverNow
    PROVE  DiscoveryInv'
  <1>1. /\ published' \in Seq(Documents) /\ Current' >= Current /\ Current' \in Nat /\ Current \in Nat
        /\ resolverNow' \in Int /\ resolverNow' >= resolverNow
    <2>1. published \in Seq(Documents) /\ resolverNow \in Int /\ Current \in Nat
      BY DEF DiscoveryInv, DiscoveryType, Current
    <2>2. CASE published' = published /\ resolverNow' \in Int /\ resolverNow' >= resolverNow
      BY <2>1, <2>2 DEF Current
    <2>3. CASE \E d \in Documents : published' = Append(published, d) /\ resolverNow' = resolverNow
      <3>1. PICK d \in Documents : published' = Append(published, d) /\ resolverNow' = resolverNow
        BY Zenon, <2>3
      <3>2. published' \in Seq(Documents) /\ Len(published') = Len(published) + 1
        BY <2>1, <3>1
      <3>3. QED
        BY <2>1, <3>1, <3>2 DEF Current
    <2>4. QED
      BY Zenon, <2>2, <2>3
  <1>2. DiscoveryType'
    BY <1>1 DEF DiscoveryInv, DiscoveryType
  <1>3. CacheInv'
    <2>1. SUFFICES ASSUME cache # <<>>
          PROVE  cache[1].version \in 1..Current' /\ Timely(cache[1].expires - LongestAge, cache[1].version)'
      BY Zenon DEF CacheInv
    <2>2. PICK b, v : b = cache[1].expires - LongestAge /\ v = cache[1].version
      BY Zenon
    <2>3. cache[1].version \in Nat /\ cache[1].expires \in Int
      BY <2>1 DEF DiscoveryInv, DiscoveryType
    <2>4. b \in Int /\ v \in 1..Current /\ Timely(b, v)
      BY <2>1, <2>2, <2>3, LongestAgeBounds DEF DiscoveryInv, CacheInv
    <2>5. Timely(b, v)'
      BY Zenon, <2>4, TimelyKept DEF DiscoveryInv
    <2>6. QED
      BY <1>1, <2>2, <2>4, <2>5 DEF Timely, Superseded, LongestAge
  <1>4. ASSUME NEW t \in Verifiers PROVE ThreadInv(t)'
    <2>1. ThreadInv(t) /\ seen[t] \in Nat /\ got[t] \in Nat /\ began[t] \in Int
      BY Zenon DEF DiscoveryInv, DiscoveryType
    <2>2. at[t] \in {"store", "restore"} => Timely(began[t], got[t])'
      <3>1. PICK b, v : b = began[t] /\ v = got[t]
        BY Zenon
      <3>2. at[t] \in {"store", "restore"} => Timely(b, v)'
        BY Zenon, <2>1, <3>1, TimelyKept DEF DiscoveryInv, ThreadInv
      <3>3. QED
        BY Zenon, <3>1, <3>2 DEF Timely, Superseded
    <2>3. seen[t] <= Current' /\ (got[t] \in 1..Current => got[t] \in 1..Current')
          /\ (began[t] <= resolverNow => began[t] <= resolverNow')
      BY <1>1, <2>1 DEF ThreadInv, DiscoveryInv, DiscoveryType
    <2>4. QED
      BY Zenon, <2>1, <2>2, <2>3 DEF ThreadInv
  <1>5. QED
    BY Zenon, <1>2, <1>3, <1>4 DEF DiscoveryInv

(* A step of thread t that publishes nothing leaves the others alone.      *)
LEMMA ThreadMoves ==
    ASSUME DiscoveryInv, NEW t \in Verifiers, DiscoveryType', CacheInv', ThreadInv(t)',
           UNCHANGED <<resolverNow, published>>,
           \A u \in Verifiers \ {t} : /\ at'[u] = at[u] /\ got'[u] = got[u] /\ began'[u] = began[u]
                                      /\ seen'[u] = seen[u] /\ answer'[u] = answer[u]
    PROVE  DiscoveryInv'
  <1>1. ASSUME NEW u \in Verifiers \ {t} PROVE ThreadInv(u)'
    BY DEF DiscoveryInv, ThreadInv, Timely, Current, Superseded
  <1>2. QED
    BY Zenon, <1>1 DEF DiscoveryInv

LEMMA CacheKept ==
    ASSUME CacheInv, UNCHANGED <<resolverNow, published, cache>> PROVE CacheInv'
  BY Zenon DEF CacheInv, Timely, Current, Superseded, LongestAge

(* What a verdict becomes.                                                 *)
Settled(t, verdict) == IF verdict = "ok" /\ ~SignatureHolds(what[t]) THEN "BadSignature" ELSE verdict

LEMMA SettleMoves ==
    ASSUME DiscoveryType, NEW t \in Verifiers, NEW verdict \in KeyVerdicts, Settle(t, verdict)
    PROVE  /\ at' \in [Verifiers -> DiscoveryPcs] /\ answer' \in [Verifiers -> Answers]
           /\ at'[t] = "done" /\ (answer'[t] = "NotFound" => verdict = "NotFound")
           /\ \A u \in Verifiers \ {t} : at'[u] = at[u] /\ answer'[u] = answer[u]
  BY Zenon DEF DiscoveryType, Settle, DiscoveryPcs, Answers

LEMMA JudgeMoves ==
    ASSUME DiscoveryType, NEW t \in Verifiers, NEW v \in Nat, NEW first \in BOOLEAN, Judge(t, v, first, TRUE),
           at[t] # "done", answer[t] = "none"
    PROVE  /\ at' \in [Verifiers -> DiscoveryPcs] /\ answer' \in [Verifiers -> Answers] /\ got' \in [Verifiers -> Nat]
           /\ got'[t] = v /\ at'[t] \in {"refresh", "done"} /\ (at'[t] # "done" => answer'[t] = "none")
           /\ (first => answer'[t] # "NotFound")
           /\ \A u \in Verifiers \ {t} : at'[u] = at[u] /\ answer'[u] = answer[u] /\ got'[u] = got[u]
  <1> DEFINE verdict == SelectDiscovered(published[v], what[t], None)
  <1>1. verdict \in KeyVerdicts
    BY Zenon, SelectAnswers
  <1>2. /\ got' = [got EXCEPT ![t] = v]
        /\ IF verdict = "NotFound" /\ first THEN at' = [at EXCEPT ![t] = "refresh"] /\ answer' = answer
           ELSE Settle(t, verdict)
    BY Zenon DEF Judge
  <1> HIDE DEF verdict
  <1>3. got' \in [Verifiers -> Nat] /\ got'[t] = v /\ \A u \in Verifiers \ {t} : got'[u] = got[u]
    BY Zenon, <1>2 DEF DiscoveryType
  <1>4. CASE verdict = "NotFound" /\ first
    BY ZenonT(30), <1>2, <1>3, <1>4 DEF DiscoveryType, DiscoveryPcs
  <1>5. CASE ~(verdict = "NotFound" /\ first)
    <2>1. Settle(t, verdict)
      BY <1>2, <1>5
    <2>2. QED
      BY <1>1, <1>3, <1>5, <2>1, SettleMoves
  <1>6. QED
    BY Zenon, <1>4, <1>5

LEMMA CallKeeps == ASSUME DiscoveryInv, NEW t \in Verifiers, Call(t) PROVE DiscoveryInv'
  <1>1. /\ at[t] = "idle" /\ answer[t] = "none" /\ UNCHANGED <<resolverNow, published, cache, what>>
        /\ seen' = [seen EXCEPT ![t] = Current] /\ Current \in Nat /\ Current' = Current /\ DiscoveryType
    BY DEF DiscoveryInv, DiscoveryType, ThreadInv, Call, Current
  <1>2. seen' \in [Verifiers -> Nat] /\ seen'[t] = Current /\ \A u \in Verifiers \ {t} : seen'[u] = seen[u]
    BY Zenon, <1>1 DEF DiscoveryType
  <1>3. CacheInv'
    BY Zenon, <1>1, CacheKept DEF DiscoveryInv
  <1>4. CASE CacheFresh(cache)
    <2>1. Judge(t, cache[1].version, TRUE, TRUE) /\ began' = began
      BY Zenon, <1>4 DEF Call
    <2>2. cache[1].version \in Nat
      BY <1>1, <1>4 DEF DiscoveryType, CacheFresh
    <2>3. /\ at' \in [Verifiers -> DiscoveryPcs] /\ answer' \in [Verifiers -> Answers] /\ got' \in [Verifiers -> Nat]
          /\ at'[t] \in {"refresh", "done"} /\ (at'[t] # "done" => answer'[t] = "none")
          /\ answer'[t] # "NotFound"
          /\ \A u \in Verifiers \ {t} : at'[u] = at[u] /\ answer'[u] = answer[u] /\ got'[u] = got[u]
      BY Zenon, <1>1, <2>1, <2>2, JudgeMoves
    <2>4. DiscoveryType'
      BY Zenon, <1>1, <1>2, <2>1, <2>3 DEF DiscoveryType
    <2>5. ThreadInv(t)'
      BY <1>1, <1>2, <2>3 DEF ThreadInv
    <2>6. QED
      BY Zenon, <1>1, <1>2, <1>3, <2>1, <2>3, <2>4, <2>5, ThreadMoves
  <1>5. CASE ~CacheFresh(cache)
    <2>1. /\ at' = [at EXCEPT ![t] = "fetch"] /\ began' = [began EXCEPT ![t] = resolverNow]
          /\ got' = got /\ answer' = answer
      BY Zenon, <1>5 DEF Call
    <2>2. DiscoveryType'
      BY Zenon, <1>1, <1>2, <2>1 DEF DiscoveryType, DiscoveryPcs
    <2>3. at'[t] = "fetch" /\ began'[t] = resolverNow
      BY Zenon, <1>1, <2>1 DEF DiscoveryType
    <2>4. ThreadInv(t)'
      BY <1>1, <1>2, <2>1, <2>3 DEF ThreadInv, DiscoveryType
    <2>5. QED
      BY Zenon, <1>1, <1>2, <1>3, <2>1, <2>2, <2>4, ThreadMoves DEF DiscoveryType
  <1>6. QED
    BY Zenon, <1>4, <1>5

LEMMA RefreshKeeps == ASSUME DiscoveryInv, NEW t \in Verifiers, Refresh(t) PROVE DiscoveryInv'
  <1>1. /\ at[t] = "refresh" /\ UNCHANGED <<resolverNow, published, cache, got, seen, what, answer>>
        /\ at' = [at EXCEPT ![t] = "refetch"] /\ began' = [began EXCEPT ![t] = resolverNow]
        /\ DiscoveryType /\ ThreadInv(t)
    BY Zenon DEF Refresh, DiscoveryInv
  <1>2. DiscoveryType'
    BY Zenon, <1>1 DEF DiscoveryType, DiscoveryPcs, Current
  <1>3. at'[t] = "refetch" /\ began'[t] = resolverNow
    BY Zenon, <1>1 DEF DiscoveryType
  <1>4. ThreadInv(t)'
    BY <1>1, <1>3 DEF ThreadInv, DiscoveryType, Current
  <1>5. CacheInv'
    BY Zenon, <1>1, CacheKept DEF DiscoveryInv
  <1>6. QED
    BY Zenon, <1>1, <1>2, <1>4, <1>5, ThreadMoves DEF DiscoveryType

LEMMA FetchKeeps == ASSUME DiscoveryInv, NEW t \in Verifiers, Fetch(t) PROVE DiscoveryInv'
  <1>1. /\ at[t] \in {"fetch", "refetch"} /\ UNCHANGED <<resolverNow, published, cache, began, seen, what>>
        /\ DiscoveryType /\ ThreadInv(t) /\ Current \in Nat /\ Current >= 1 /\ Current' = Current
    BY DEF Fetch, DiscoveryInv, DiscoveryType, Current
  <1>2. CacheInv'
    BY Zenon, <1>1, CacheKept DEF DiscoveryInv
  <1>3. CASE /\ got' = [got EXCEPT ![t] = Current] /\ answer' = answer
             /\ at' = [at EXCEPT ![t] = IF @ = "fetch" THEN "store" ELSE "restore"]
    <2>1. DiscoveryType'
      BY Zenon, <1>1, <1>3 DEF DiscoveryType, DiscoveryPcs
    <2>2. at'[t] \in {"store", "restore"} /\ got'[t] = Current
      BY Zenon, <1>1, <1>3 DEF DiscoveryType
    <2>3. ThreadInv(t)'
      BY <1>1, <1>3, <2>2 DEF ThreadInv, DiscoveryType, Timely
    <2>4. QED
      BY Zenon, <1>1, <1>2, <1>3, <2>1, <2>3, ThreadMoves DEF DiscoveryType
  <1>4. CASE Settle(t, "FetchError") /\ got' = got
    <2>1. "FetchError" \in KeyVerdicts
      BY Zenon DEF KeyVerdicts
    <2>2. /\ at' \in [Verifiers -> DiscoveryPcs] /\ answer' \in [Verifiers -> Answers]
          /\ at'[t] = "done" /\ answer'[t] # "NotFound"
          /\ \A u \in Verifiers \ {t} : at'[u] = at[u] /\ answer'[u] = answer[u]
      BY Zenon, <1>1, <1>4, <2>1, SettleMoves
    <2>3. DiscoveryType'
      BY Zenon, <1>1, <1>4, <2>2 DEF DiscoveryType
    <2>4. ThreadInv(t)'
      BY Zenon, <1>1, <1>4, <2>2 DEF ThreadInv
    <2>5. QED
      BY Zenon, <1>1, <1>2, <1>4, <2>2, <2>3, <2>4, ThreadMoves
  <1>5. QED
    BY Zenon, <1>3, <1>4 DEF Fetch

LEMMA StoreKeeps == ASSUME DiscoveryInv, NEW t \in Verifiers, NEW header \in Ages, Store(t, header) PROVE DiscoveryInv'
  <1> DEFINE doc == published[got[t]]
             age == MaxAge(header, doc.maxAge, DefaultMaxAge)
  <1>1. /\ at[t] \in {"store", "restore"} /\ UNCHANGED <<resolverNow, published, began, seen, what>>
        /\ DiscoveryType /\ ThreadInv(t) /\ Current \in Nat /\ Current' = Current /\ answer[t] = "none"
        /\ got[t] \in 1..Current /\ got[t] >= seen[t] /\ Timely(began[t], got[t])
    BY DEF Store, DiscoveryInv, DiscoveryType, ThreadInv, Current
  <1>2. doc \in Documents /\ began[t] \in Int /\ got[t] \in Nat /\ seen[t] \in Nat
    BY <1>1 DEF DiscoveryType, Current
  <1>3. age \in Int /\ age <= LongestAge
    BY Zenon, <1>2, MaxAgeBounds DEF Documents
  <1>4. CASE ParsesDocument(doc, Origin)
    <2>1. /\ cache' = <<[version |-> got[t], expires |-> began[t] + age]>>
          /\ Judge(t, got[t], at[t] = "store", TRUE)
      BY Zenon, <1>4 DEF Store
    <2> HIDE DEF age, doc
    <2>2. /\ at' \in [Verifiers -> DiscoveryPcs] /\ answer' \in [Verifiers -> Answers] /\ got' \in [Verifiers -> Nat]
          /\ got'[t] = got[t] /\ at'[t] \in {"refresh", "done"} /\ (at'[t] # "done" => answer'[t] = "none")
          /\ \A u \in Verifiers \ {t} : at'[u] = at[u] /\ answer'[u] = answer[u] /\ got'[u] = got[u]
      <3>1. (at[t] = "store") \in BOOLEAN /\ at[t] # "done"
        BY Zenon, <1>1
      <3>2. QED
        BY Zenon, <1>1, <1>2, <2>1, <3>1, JudgeMoves
    <2>3. /\ \E v \in Nat, e \in Int : cache' = <<[version |-> v, expires |-> e]>>
          /\ cache'[1].version = got[t] /\ cache'[1].expires = began[t] + age
      BY <1>2, <1>3, <2>1
    <2>4. DiscoveryType'
      BY Zenon, <1>1, <2>2, <2>3 DEF DiscoveryType
    <2>5. CacheInv'
      <3>1. cache'[1].expires - LongestAge <= began[t] /\ cache'[1].expires - LongestAge \in Int
        BY <1>2, <1>3, <2>3, LongestAgeBounds
      <3>2. LongestAge' = LongestAge
        BY Zenon DEF LongestAge
      <3>3. resolverNow \in Int /\ (got[t] < Current => Superseded(got[t]) \in Int)
        <4>1. got[t] < Current => got[t] + 1 \in 1..Len(published)
          BY <1>1, <1>2 DEF Current
        <4>2. got[t] < Current => published[got[t] + 1] \in Documents
          BY <1>1, <4>1 DEF DiscoveryType
        <4>3. QED
          BY Zenon, <1>1, <4>2 DEF DiscoveryType, Superseded, Documents
      <3>4. QED
        BY <1>1, <1>2, <2>3, <3>1, <3>2, <3>3 DEF CacheInv, Timely, Superseded
    <2>6. ThreadInv(t)'
      BY Zenon, <1>1, <2>2 DEF ThreadInv
    <2>7. QED
      BY Zenon, <1>1, <2>2, <2>4, <2>5, <2>6, ThreadMoves
  <1>5. CASE ~ParsesDocument(doc, Origin)
    <2>1. Settle(t, "Format") /\ cache' = cache /\ got' = got
      BY Zenon, <1>5 DEF Store
    <2>2. "Format" \in KeyVerdicts
      BY Zenon DEF KeyVerdicts
    <2>3. /\ at' \in [Verifiers -> DiscoveryPcs] /\ answer' \in [Verifiers -> Answers]
          /\ at'[t] = "done" /\ answer'[t] # "NotFound"
          /\ \A u \in Verifiers \ {t} : at'[u] = at[u] /\ answer'[u] = answer[u]
      BY Zenon, <1>1, <2>1, <2>2, SettleMoves
    <2>4. DiscoveryType'
      BY Zenon, <1>1, <2>1, <2>3 DEF DiscoveryType
    <2>5. CacheInv'
      BY Zenon, <1>1, <2>1, CacheKept DEF DiscoveryInv
    <2>6. ThreadInv(t)'
      BY Zenon, <1>1, <2>1, <2>3 DEF ThreadInv
    <2>7. QED
      BY Zenon, <1>1, <2>1, <2>3, <2>4, <2>5, <2>6, ThreadMoves
  <1>6. QED
    BY Zenon, <1>4, <1>5

LEMMA MovedKey ==
    ASSUME DiscoveryType, NEW k \in DiscoveredKeys, NEW to \in States PROVE Moved(k, to) \in DiscoveredKeys
  BY Zenon DEF Moved, DiscoveredKeys, DiscoveryType

(* Every document the issuer builds is one.                                *)
LEMMA PublishKeeps ==
    ASSUME DiscoveryInv, NEW age \in Ages,
           Rotate(age) \/ \E n \in 1..2, s \in States : Transition(n, s, age)
    PROVE  DiscoveryInv'
  <1> DEFINE keys == published[Current].keys
  <1>1. DiscoveryType /\ resolverNow \in Int
    BY DEF DiscoveryInv, DiscoveryType
  <1>2. keys \in Seq(DiscoveredKeys)
    <2>1. published \in Seq(Documents) /\ Current \in 1..Len(published)
      BY <1>1 DEF DiscoveryType, Current
    <2>2. published[Current] \in Documents
      BY <2>1
    <2>3. QED
      BY Zenon, <2>2 DEF Documents
  <1>3. \A s \in Seq(DiscoveredKeys) : Document(s, age) \in Documents /\ Document(s, age).at = resolverNow
    BY <1>1 DEF Document, Documents
  <1> HIDE DEF keys
  <1>4. CASE Rotate(age)
    <2>1. /\ Len(keys) = 1 /\ resolverNow' = resolverNow /\ UNCHANGED <<cache, at, got, began, seen, what, answer>>
          /\ published' = Append(published, Document(<<Moved(keys[1], "retired"), Fresh("k2")>>, age))
      BY Zenon, <1>4 DEF Rotate, keys
    <2>2. keys[1] \in DiscoveredKeys /\ "retired" \in States
      <3>1. 1 \in 1..Len(keys)
        BY <2>1
      <3>2. QED
        BY <1>2, <3>1 DEF States
    <2>3. Moved(keys[1], "retired") \in DiscoveredKeys
      BY Zenon, <1>1, <2>2, MovedKey
    <2>4. Fresh("k2") \in DiscoveredKeys
      BY DEF Fresh, DiscoveredKeys, States, None
    <2>5. <<Moved(keys[1], "retired"), Fresh("k2")>> \in Seq(DiscoveredKeys)
      BY <2>3, <2>4
    <2>6. QED
      BY Zenon, <1>3, <2>1, <2>5, IssuerKeeps
  <1>5. CASE \E n \in 1..2, s \in States : Transition(n, s, age)
    <2>1. PICK n \in 1..2, s \in States : Transition(n, s, age)
      BY Zenon, <1>5
    <2>2. /\ n \in DOMAIN keys /\ resolverNow' = resolverNow /\ UNCHANGED <<cache, at, got, began, seen, what, answer>>
          /\ published' = Append(published, Document([keys EXCEPT ![n] = Moved(keys[n], s)], age))
      BY Zenon, <2>1 DEF Transition, keys
    <2>3. keys[n] \in DiscoveredKeys
      BY <1>2, <2>2
    <2>4. Moved(keys[n], s) \in DiscoveredKeys
      BY Zenon, <1>1, <2>3, MovedKey
    <2>5. [keys EXCEPT ![n] = Moved(keys[n], s)] \in Seq(DiscoveredKeys)
      BY <1>2, <2>2, <2>4
    <2>6. QED
      BY Zenon, <1>3, <2>2, <2>5, IssuerKeeps
  <1>6. QED
    BY Zenon, <1>4, <1>5

LEMMA DiscoveryInitially == DiscoveryInit => DiscoveryInv
  <1> SUFFICES ASSUME DiscoveryInit PROVE DiscoveryInv
    BY Zenon
  <1>1. PICK age \in Ages : published = <<Document(<<Fresh("k1")>>, age)>>
    BY Zenon DEF DiscoveryInit
  <1>2. Fresh("k1") \in DiscoveredKeys
    BY DEF Fresh, DiscoveredKeys, States, None
  <1>3. <<Fresh("k1")>> \in Seq(DiscoveredKeys) /\ resolverNow = 0
    BY <1>2 DEF DiscoveryInit
  <1>4. Document(<<Fresh("k1")>>, age) \in Documents
    BY <1>3 DEF Document, Documents
  <1>5. published \in Seq(Documents) /\ Current = 1
    BY <1>1, <1>4 DEF Current
  <1>6. DiscoveryType
    BY <1>5 DEF DiscoveryInit, DiscoveryType, DiscoveryPcs, Answers
  <1>7. CacheInv /\ \A t \in Verifiers : ThreadInv(t)
    BY <1>5 DEF DiscoveryInit, CacheInv, ThreadInv
  <1>8. QED
    BY Zenon, <1>6, <1>7 DEF DiscoveryInv

LEMMA DiscoveryKept == ASSUME DiscoveryInv, [DiscoveryNext]_discoveryVars PROVE DiscoveryInv'
  <1>1. ASSUME UNCHANGED <<published, cache, at, got, began, seen, what, answer>>,
               resolverNow' = resolverNow \/ resolverNow' = resolverNow + 1
        PROVE  DiscoveryInv'
    <2>1. resolverNow' \in Int /\ resolverNow' >= resolverNow
      BY <1>1 DEF DiscoveryInv, DiscoveryType
    <2>2. QED
      BY Zenon, <1>1, <2>1, IssuerKeeps
  <1>2. CASE UNCHANGED discoveryVars
    BY Zenon, <1>1, <1>2 DEF discoveryVars
  <1>3. CASE DiscoveryTick
    BY Zenon, <1>1, <1>3 DEF DiscoveryTick
  <1>4. QED
    BY Zenon, <1>2, <1>3, PublishKeeps, CallKeeps, RefreshKeeps, FetchKeeps, StoreKeeps DEF DiscoveryNext

(* Only a call that finds the cache fresh is over in the step it begins,   *)
(* and then the document it accepts on is the cached one.                  *)
LEMMA AcceptsStep == ASSUME DiscoveryInv, DiscoveryNext PROVE AcceptsInTime
  <1>1. SUFFICES ASSUME NEW t \in Verifiers, at[t] = "idle", at'[t] = "done", got'[t] < Current
        PROVE  resolverNow < Superseded(got'[t]) + LongestAge
    BY Zenon DEF AcceptsInTime
  <1>2. at \in [Verifiers -> DiscoveryPcs] /\ DiscoveryType
    BY Zenon DEF DiscoveryInv, DiscoveryType
  <1>3. ASSUME at' = at PROVE FALSE
    BY Zenon, <1>1, <1>3
  <1>4. ~DiscoveryTick /\ \A age \in Ages : ~Rotate(age) /\ \A n \in 1..2, s \in States : ~Transition(n, s, age)
    BY Zenon, <1>3 DEF DiscoveryTick, Rotate, Transition
  <1>5. PICK u \in Verifiers : Call(u) \/ Refresh(u) \/ Fetch(u) \/ \E header \in Ages : Store(u, header)
    BY Zenon, <1>4 DEF DiscoveryNext
  <1>6. \A v \in Verifiers : Refresh(u) \/ Fetch(u) \/ (\E header \in Ages : Store(u, header)) => at[u] # "idle"
    BY Zenon DEF Refresh, Fetch, Store
  <1>7. u = t
    <2>1. \A x \in Verifiers \ {u} : at'[x] = at[x]
      BY Zenon, <1>2, <1>5 DEF Call, Refresh, Fetch, Store, Judge, Settle
    <2>2. QED
      BY Zenon, <1>1, <2>1
  <1>8. Call(t) /\ CacheFresh(cache)
    BY Zenon, <1>1, <1>2, <1>5, <1>6, <1>7 DEF Call
  <1>9. got'[t] = cache[1].version
    BY Zenon, <1>2, <1>8 DEF Call, Judge, DiscoveryType
  <1>10. /\ cache # <<>> /\ resolverNow < cache[1].expires
         /\ cache[1].version \in Nat /\ cache[1].expires \in Int /\ resolverNow \in Int /\ LongestAge \in Int
    BY <1>2, <1>8, LongestAgeBounds DEF CacheFresh, DiscoveryType
  <1>11. cache[1].expires - LongestAge <= Superseded(got'[t]) /\ got'[t] \in 1..Current
    BY Zenon, <1>1, <1>9, <1>10 DEF DiscoveryInv, CacheInv, Timely
  <1>12. Superseded(got'[t]) \in Int
    <2>1. got'[t] + 1 \in 1..Len(published)
      BY <1>1, <1>2, <1>11 DEF Current, DiscoveryType
    <2>2. published[got'[t] + 1] \in Documents
      BY <1>2, <2>1 DEF DiscoveryType
    <2>3. QED
      BY Zenon, <2>2 DEF Superseded, Documents
  <1>13. QED
    BY <1>10, <1>11, <1>12

(* For any number of threads, any ages and any history of rotations and    *)
(* transitions: no key is reported missing on a document older than the    *)
(* one served when the call began.                                         *)
THEOREM MissingIsMissingTheorem ==
    DiscoverySpec => []MissingIsMissing
  <1>1. DiscoveryInit => DiscoveryInv
    BY Zenon, DiscoveryInitially
  <1>2. DiscoveryInv /\ [DiscoveryNext]_discoveryVars => DiscoveryInv'
    BY Zenon, DiscoveryKept
  <1>3. DiscoveryInv => MissingIsMissing
    BY Zenon DEF DiscoveryInv, ThreadInv, MissingIsMissing
  <1>4. QED
    BY <1>1, <1>2, <1>3, PTL DEF DiscoverySpec

(* And no thread accepts on a document superseded for the longest age.     *)
THEOREM StalenessBoundedTheorem ==
    DiscoverySpec => StalenessBounded
  <1>1. DiscoveryInit => DiscoveryInv
    BY Zenon, DiscoveryInitially
  <1>2. DiscoveryInv /\ [DiscoveryNext]_discoveryVars => DiscoveryInv'
    BY Zenon, DiscoveryKept
  <1>3. DiscoveryInv /\ [DiscoveryNext]_discoveryVars => [AcceptsInTime]_discoveryVars
    BY Zenon, AcceptsStep
  <1>4. QED
    BY <1>1, <1>2, <1>3, PTL DEF DiscoverySpec, StalenessBounded
==============================================================================
