---------------------------- MODULE ReplayStore -----------------------------
(***************************************************************************)
(* DbApiReplayStore (actenon/replay/dbapi.py) with its rollback detection: *)
(* one database shared by several processes, each with one store instance  *)
(* and any number of threads that call it.                                 *)
(*                                                                         *)
(* A public call is one or two transactions, and a transaction is atomic:  *)
(* SQLite runs it under BEGIN IMMEDIATE, and PostgreSQL serialises the     *)
(* statements on a key by its row lock and unique index.  A successful     *)
(* claim_once, mark_consumed or release_claim releases the instance's lock *)
(* and then runs `inspect` in a transaction of its own; one that loses     *)
(* rolls back and runs `inspect` with the lock still held.                 *)
(*                                                                         *)
(* The database may be restored from a backup at any time, and a process   *)
(* may restart at any time: the counter a store instance has observed is   *)
(* lost with the instance.                                                 *)
(***************************************************************************)
EXTENDS ReplayRows

CONSTANTS Procs,        \* processes, one store instance each
          Threads,      \* caller threads
          Host,         \* the process of each thread
          Instants,     \* the values callers pass as `now`
          MaxCounter    \* bound on the mutation counter (model bound)

ASSUME HostAssumption == Host \in [Threads -> Procs]
ASSUME InstantAssumption == Instants \subseteq Nat
ASSUME MaxCounterAssumption == MaxCounter \in Nat

VARIABLES row,          \* action_consumption
          counter,      \* replay_store_metadata.mutation_counter
          observed,     \* _last_observed_counter of each process's instance
          call,         \* the transaction each thread's call still has to run
          backup,       \* the backup a restore would use
          peak,         \* history: the highest counter ever committed
          consumptions, \* history: how often each key was marked consumed
          blindSpot     \* history: a rollback happened that no counter shows

dbVars == <<row, counter>>
historyVars == <<peak, consumptions, blindSpot>>
vars == <<row, counter, observed, call, backup, peak, consumptions, blindSpot>>

Idle == [phase |-> "idle"]
Calls == {Idle} \cup [phase : {"reread", "lost"}, key : Keys, now : Instants]

Init == /\ row = [k \in Keys |-> "absent"]
        /\ counter = 0
        /\ observed = [p \in Procs |-> 0]
        /\ call = [t \in Threads |-> Idle]
        /\ backup = [row |-> row, counter |-> 0]
        /\ peak = 0
        /\ consumptions = [k \in Keys |-> 0]
        /\ blindSpot = FALSE

(* _mutation_lock: a losing call keeps it over its second transaction.     *)
LockFree(t) == \A u \in Threads : Host[u] = Host[t] => call[u].phase # "lost"

(* Mutation of Monotonic: a store one mutation behind is accepted.         *)
MonotonicOffByOne(p) == counter + 1 >= observed[p]

(* _assert_store_monotonic: otherwise the transaction is refused with      *)
(* REPLAY_STORE_ROLLBACK_DETECTED and changes nothing.                     *)
Monotonic(p) == counter >= observed[p]

(* A transaction that changes rows: _advance_mutation_counter and commit.  *)
Mutate(p, rows) == /\ counter < MaxCounter
                   /\ row' = rows
                   /\ counter' = counter + 1
                   /\ observed' = [observed EXCEPT ![p] = counter + 1]
                   /\ peak' = IF counter + 1 > peak THEN counter + 1 ELSE peak
                   /\ UNCHANGED <<backup, blindSpot>>

(* A transaction that changes no row still notes the counter it has read.  *)
ReadOnly(p) == /\ observed' = [observed EXCEPT ![p] = counter]
               /\ UNCHANGED <<row, counter, backup, historyVars>>

Begin(t) == call[t] = Idle /\ LockFree(t) /\ Monotonic(Host[t])

Continue(t, phase, k, now) ==
    call' = [call EXCEPT ![t] = [phase |-> phase, key |-> k, now |-> now]]

ClaimOnce(t, k, now) ==
    /\ Begin(t)
    /\ \/ /\ Claimable(row, k, now)
          /\ Mutate(Host[t], Claimed(row, k))
          /\ Continue(t, "reread", k, now)
          /\ UNCHANGED consumptions
       \/ /\ ~Claimable(row, k, now)
          /\ ReadOnly(Host[t])
          /\ Continue(t, "lost", k, now)

MarkConsumed(t, k, now) ==
    /\ Begin(t)
    /\ \/ /\ Consumable(row, k)
          /\ Mutate(Host[t], Consumed(row, k))
          /\ consumptions' = [consumptions EXCEPT ![k] = @ + 1]
          /\ Continue(t, "reread", k, now)
       \/ /\ ~Consumable(row, k)
          /\ ReadOnly(Host[t])
          /\ Continue(t, "lost", k, now)

ReleaseClaim(t, k, now) ==
    /\ Begin(t)
    /\ \/ /\ Releasable(row, k)
          /\ Mutate(Host[t], Released(row, k))
          /\ Continue(t, "reread", k, now)
          /\ UNCHANGED consumptions
       \/ /\ ~Releasable(row, k)
          /\ ReadOnly(Host[t])
          /\ UNCHANGED call

InspectTransaction(p, k, now) ==
    LET rows == Inspected(row, k, now)
    IN  \/ rows # row /\ Mutate(p, rows) /\ UNCHANGED consumptions
        \/ rows = row /\ ReadOnly(p)

(* A call of inspect by a caller of the store.                             *)
Inspect(t, k, now) == /\ Begin(t)
                      /\ InspectTransaction(Host[t], k, now)
                      /\ UNCHANGED call

(* The inspect that ends a claim, consume or release.                      *)
Reread(t) == /\ call[t].phase = "reread"
             /\ LockFree(t)
             /\ Monotonic(Host[t])
             /\ InspectTransaction(Host[t], call[t].key, call[t].now)
             /\ call' = [call EXCEPT ![t] = Idle]

RereadLost(t) == /\ call[t].phase = "lost"
                 /\ Monotonic(Host[t])
                 /\ InspectTransaction(Host[t], call[t].key, call[t].now)
                 /\ call' = [call EXCEPT ![t] = Idle]

(* Either of them refused by _assert_store_monotonic: the call raises.     *)
RereadRefused(t) == /\ call[t] # Idle
                    /\ call[t].phase = "reread" => LockFree(t)
                    /\ ~Monotonic(Host[t])
                    /\ call' = [call EXCEPT ![t] = Idle]
                    /\ UNCHANGED <<dbVars, observed, backup, historyVars>>

PurgeExpired(t, now) ==
    /\ Begin(t)
    /\ LET rows == Purged(row, now)
       IN  \/ rows # row /\ Mutate(Host[t], rows) /\ UNCHANGED consumptions
           \/ rows = row /\ ReadOnly(Host[t])
    /\ UNCHANGED call

(* A process is restarted: __init__ reads the counter, its calls are gone. *)
Restart(p) ==
    /\ observed' = [observed EXCEPT ![p] = counter]
    /\ call' = [t \in Threads |-> IF Host[t] = p THEN Idle ELSE call[t]]
    /\ blindSpot' = (blindSpot \/ counter < peak)
    /\ UNCHANGED <<dbVars, backup, peak, consumptions>>

Backup == /\ backup' = [row |-> row, counter |-> counter]
          /\ UNCHANGED <<dbVars, observed, call, historyVars>>

(* An operator restores the backup.  It goes unnoticed by an instance that *)
(* has observed nothing newer.                                             *)
Restore == /\ row' = backup.row
           /\ counter' = backup.counter
           /\ blindSpot' = \/ blindSpot
                           \/ /\ backup.counter < peak
                              /\ \E p \in Procs : observed[p] <= backup.counter
           /\ UNCHANGED <<observed, call, backup, peak, consumptions>>

ThreadStep(t) ==
    \/ \E k \in Keys, now \in Instants : \/ ClaimOnce(t, k, now)
                                         \/ MarkConsumed(t, k, now)
                                         \/ ReleaseClaim(t, k, now)
                                         \/ Inspect(t, k, now)
    \/ \E now \in Instants : PurgeExpired(t, now)
    \/ Reread(t)
    \/ RereadLost(t)
    \/ RereadRefused(t)

Next == \/ \E t \in Threads : ThreadStep(t)
        \/ \E p \in Procs : Restart(p)
        \/ Backup
        \/ Restore

Spec == Init /\ [][Next]_vars
-----------------------------------------------------------------------------
(* The variables keep their types: statuses of the table, a counter within *)
(* its bound, calls with at most one transaction left to run.              *)
TypeOK == /\ row \in [Keys -> Status]
          /\ counter \in 0 .. MaxCounter
          /\ observed \in [Procs -> 0 .. MaxCounter]
          /\ call \in [Threads -> Calls]
          /\ backup \in [row : [Keys -> Status], counter : 0 .. MaxCounter]
          /\ peak \in 0 .. MaxCounter
          /\ consumptions \in [Keys -> Nat]
          /\ blindSpot \in BOOLEAN

(* A key is marked consumed at most once, through any interleaving of      *)
(* claims, releases, expiry sweeps, restarts and restores of a backup,     *)
(* unless a restore met an instance that had observed nothing newer than   *)
(* the backup, or a process restarted on the regressed database: the two   *)
(* cases the mutation counter cannot see.                                  *)
ConsumedOnce == ~blindSpot => \A k \in Keys : consumptions[k] <= 1

(* While the database is behind its peak, every live instance has observed *)
(* a newer counter, so _assert_store_monotonic refuses all its             *)
(* transactions: the regressed database can be neither read nor extended.  *)
RollbackLocksOut ==
    ~blindSpot /\ counter < peak => \A p \in Procs : ~Monotonic(p)

(* At its peak the database knows exactly the consumptions that happened.  *)
RowsMatchHistory(rows) ==
    \A k \in Keys : consumptions[k] = IF rows[k] = "consumed" THEN 1 ELSE 0

(* What a step needs to preserve ConsumedOnce: no counter exceeds the      *)
(* peak, a database behind its peak is locked out, and a database or a     *)
(* backup at the peak agrees with the history of consumptions.             *)
StoreInv ==
    /\ TypeOK
    /\ counter <= peak
    /\ backup.counter <= peak
    /\ \A p \in Procs : observed[p] <= peak
    /\ RollbackLocksOut
    /\ ~blindSpot /\ counter = peak => RowsMatchHistory(row)
    /\ ~blindSpot /\ backup.counter = peak => RowsMatchHistory(backup.row)
    /\ ConsumedOnce

(* claim_once takes over a row in status claimed.                          *)
TakesOver(t, k, now) == ClaimOnce(t, k, now) /\ counter' > counter /\ row[k] = "claimed"

(* Duplicate active claims fail: claim_once takes over a row in status     *)
(* claimed only when that claim has expired at the caller's instant.       *)
ActiveClaimExclusive ==
    [][\A t \in Threads, k \in Keys, now \in Instants :
          TakesOver(t, k, now) => Due(k, now)]_vars

(* What the comparison of texts does guarantee: a claim is never taken     *)
(* over in a second before the one it expires in.                          *)
ActiveClaimExclusiveToTheSecond ==
    [][\A t \in Threads, k \in Keys, now \in Instants :
          TakesOver(t, k, now) => ExpiresAt[k] \div Resolution <= now \div Resolution]_vars
=============================================================================
