------------------------- MODULE ProtectedExecutor --------------------------
(***************************************************************************)
(* ProtectedExecutor.execute (actenon/execution/protected_executor.py):    *)
(* concurrent attempts, in several processes, at executing proof-bound     *)
(* actions against one replay database, one escrow, one effect ledger and  *)
(* a credential broker.                                                    *)
(*                                                                         *)
(* An attempt is one call of execute(), and its frame holds the locals of  *)
(* that call.  Every transaction or external call is a step of its own, so *)
(* other attempts, the clock, an expiry sweep, a revocation, a failure of  *)
(* the callee or a crash of the process may come between any two.          *)
(*                                                                         *)
(* The mutation counter of the replay store is left out: without a restore *)
(* of the database it never refuses a transaction (module ReplayStore).    *)
(***************************************************************************)
EXTENDS ReplayRows, EscrowRecords

CONSTANTS Attempts, Procs,
          Presents,       \* the proof each attempt presents (a replay key)
          Host,           \* the process each attempt runs in
          Operations,     \* operation ids
          Operation,      \* the operation_id of each proof's intent, or None
          Hashes, ActionHash,
          EscrowOf,       \* the escrow_id of each proof, or None
          Effects,
          EffectOf,       \* the effect extension of each proof, or None
          None,
          Skew,           \* clock skew the proof verifier tolerates
          MaxTime,        \* bound on the clock (model bound)
          ReplayOn,       \* replay_protection = "default"
          FailOpen,       \* replay_store_failure = "fail_open"
          UseEscrow, UseIdempotency, UseEffects,
          Faults          \* the failures of the environment that may occur

ASSUME AttemptAssumption == /\ Presents \in [Attempts -> Keys]
                            /\ Host \in [Attempts -> Procs]
ASSUME ProofAssumption == /\ Operation \in [Keys -> Operations \cup {None}]
                          /\ ActionHash \in [Keys -> Hashes]
                          /\ EscrowOf \in [Keys -> EscrowIds \cup {None}]
                          /\ EffectOf \in [Keys -> Effects \cup {None}]
ASSUME NoneAssumption == None \notin Operations \cup Hashes \cup EscrowIds \cup Effects
ASSUME TimeAssumption == Skew \in Nat /\ MaxTime \in Nat
ASSUME ConfigAssumption ==
    /\ {ReplayOn, FailOpen, UseEscrow, UseIdempotency, UseEffects} \subseteq BOOLEAN
    /\ FailOpen => ReplayOn                                    \* __post_init__
    /\ Durable
    /\ EscrowProofs = Keys
ASSUME FaultAssumption ==
    Faults \subseteq {"store", "escrow", "ledger", "broker", "handler", "writer",
                      "policy", "crash"}

VARIABLES att,        \* the frame of each attempt
          row,        \* the replay table
          escrow,     \* the escrow records
          dispatched, \* effects the ledger has moved to DISPATCHING
          idem,       \* the IdempotencyStore of each process
          clock

vars == <<att, row, escrow, dispatched, idem, clock>>
stores == <<row, escrow, dispatched, idem>>

ClaimPcs == {"claim", "claimRead", "claimLost"}
SpendPcs == {"spend", "spendRead", "spendLost"}
ConsumePcs == {"consume", "consumeRead", "consumeLost"}
BurnPcs == {"burn", "burnRead", "burnLost"}
UnclaimPcs == {"unclaim", "unclaimRead"}
MainPcs == {"lookup", "priorReceipt", "escrow", "effect", "acquire", "handler",
            "running", "release", "receipt", "record"}
ExceptPcs == {"refuse", "abort", "refusal", "refusedReceipt"}
Ended == {"done", "raised", "crashed"}
Pcs == {"idle"} \cup ClaimPcs \cup SpendPcs \cup ConsumePcs \cup BurnPcs
         \cup UnclaimPcs \cup MainPcs \cup ExceptPcs \cup Ended

Frame == [pc : Pcs,
          now : 0 .. MaxTime,        \* request.context.now
          held : BOOLEAN,            \* replay_state is not None
          burnt : BOOLEAN,           \* replay_consumed
          cred : {"none", "held", "released"},
          owned : BOOLEAN,           \* effect_reference is not None
          started : BOOLEAN,         \* handler_started
          evidence : {"none", "COMMITTED", "AMBIGUOUS", "NOT_EXECUTED"},
          code : {"none", "rejected", "unavailable", "unknown", "failed"},
          acted : BOOLEAN,           \* the handler's side effect has happened
          wrote : SUBSET {"executed", "prior", "refusal", "refused"}]

NewFrame == [pc |-> "idle", now |-> 0, held |-> FALSE, burnt |-> FALSE,
             cred |-> "none", owned |-> FALSE, started |-> FALSE,
             evidence |-> "none", code |-> "none", acted |-> FALSE, wrote |-> {}]

Init == /\ att = [a \in Attempts |-> NewFrame]
        /\ row = [k \in Keys |-> "absent"]
        /\ escrow = [e \in EscrowIds |-> "issued"]
        /\ dispatched = {}
        /\ idem = [p \in Procs |-> [o \in Operations |-> None]]
        /\ clock = 0

Live(a) == att[a].pc \notin Ended \cup {"idle"}
At(a, pc) == att[a].pc = pc
To(a, pc) == [att[a] EXCEPT !.pc = pc]
Move(a, frame) == att' = [att EXCEPT ![a] = frame] /\ UNCHANGED clock

(* `raise RefusalException` and any other exception inside the try block.  *)
Refuse(a, code) == [att[a] EXCEPT !.pc = "refuse", !.code = code]
Abort(a) == To(a, "abort")
-----------------------------------------------------------------------------
(* PCCBVerifier.verify, its expiry check: now - skew > expires_at refuses. *)
Verifies(k, now) == now <= ExpiresAt[k] + Skew

(* verify, policy_decision.allowed, and the effect extension guard.        *)
Begin(a) ==
    LET k == Presents[a]
        frame == [att[a] EXCEPT !.now = clock]
        admitted == Verifies(k, clock) /\ (EffectOf[k] # None => UseEffects)
    IN  /\ At(a, "idle")
        /\ \/ admitted /\ Move(a, [frame EXCEPT !.pc = "claim"])
           \/ /\ ~admitted \/ "policy" \in Faults
              /\ Move(a, [frame EXCEPT !.pc = "refuse", !.code = "rejected"])
        /\ UNCHANGED stores

(* The second transaction of a store call.                                 *)
Reread(a) == /\ row' = Inspected(row, Presents[a], att[a].now)
             /\ UNCHANGED <<escrow, dispatched, idem>>

ClaimReplay(a) ==
    LET k == Presents[a]
    IN  /\ At(a, "claim")
        /\ \/ ~ReplayOn /\ row' = row /\ Move(a, To(a, "lookup"))
           \/ /\ ReplayOn /\ Claimable(row, k, att[a].now)
              /\ row' = Claimed(row, k)
              /\ Move(a, To(a, "claimRead"))
           \/ /\ ReplayOn /\ ~Claimable(row, k, att[a].now)
              /\ row' = row
              /\ Move(a, To(a, "claimLost"))
        /\ UNCHANGED <<escrow, dispatched, idem>>

ClaimReread(a) == /\ At(a, "claimRead")
                  /\ Reread(a)
                  /\ Move(a, [att[a] EXCEPT !.pc = "lookup", !.held = TRUE])

(* Mutation of DuplicateReplay: the loser releases the winner's claim.     *)
DuplicateReleases(a) == /\ At(a, "claimLost")
                        /\ row' = IF Releasable(row, Presents[a])
                                  THEN Released(row, Presents[a]) ELSE row
                        /\ Move(a, Refuse(a, "rejected"))
                        /\ UNCHANGED <<escrow, dispatched, idem>>

DuplicateReplay(a) == /\ At(a, "claimLost")
                      /\ Reread(a)
                      /\ Move(a, Refuse(a, "rejected"))

(* mark_consumed is called at three sites: for an idempotent retry, before *)
(* the handler, and in the handler for unexpected exceptions.              *)
ReadOf == [spend |-> "spendRead", consume |-> "consumeRead", burn |-> "burnRead"]
LostOf == [spend |-> "spendLost", consume |-> "consumeLost", burn |-> "burnLost"]
AfterMark == [spend |-> "priorReceipt", consume |-> "handler", burn |-> "refusal"]

MarkConsumed(a, site) ==
    LET k == Presents[a]
    IN  /\ At(a, site)
        /\ \/ ~att[a].held /\ row' = row /\ Move(a, To(a, AfterMark[site]))
           \/ /\ att[a].held /\ Consumable(row, k)
              /\ row' = Consumed(row, k)
              /\ Move(a, To(a, ReadOf[site]))
           \/ /\ att[a].held /\ ~Consumable(row, k)
              /\ row' = row
              /\ Move(a, To(a, LostOf[site]))
        /\ UNCHANGED <<escrow, dispatched, idem>>

MarkReread(a, site) ==
    /\ At(a, ReadOf[site])
    /\ Reread(a)
    /\ Move(a, [att[a] EXCEPT !.pc = AfterMark[site], !.burnt = TRUE])

(* REPLAY_STATE_INVALID; the exception handler swallows it.                *)
MarkInvalid(a, site) ==
    /\ At(a, LostOf[site])
    /\ Reread(a)
    /\ Move(a, IF site = "burn" THEN To(a, "refusal") ELSE Refuse(a, "rejected"))

(* The replay store raises something other than a refusal: before its      *)
(* transaction commits, or after (the inspect that follows the commit).    *)
StoreFails(a) ==
    LET pc == att[a].pc
        continue == CASE pc \in ClaimPcs   -> "lookup"
                      [] pc \in SpendPcs   -> "priorReceipt"
                      [] pc \in ConsumePcs -> "handler"
                      [] OTHER             -> "refusal"
    IN  /\ "store" \in Faults /\ ReplayOn
        /\ \/ pc \in ClaimPcs
           \/ pc \in SpendPcs \cup ConsumePcs /\ att[a].held
           \/ pc \in BurnPcs \cup UnclaimPcs
        /\ Move(a, IF FailOpen \/ continue = "refusal"
                   THEN To(a, continue) ELSE Refuse(a, "unavailable"))
        /\ UNCHANGED stores
-----------------------------------------------------------------------------
Idempotent(a) == Operation[Presents[a]] # None /\ UseIdempotency /\ ~UseEffects

CheckIdempotency(a) ==
    LET prior == IF Idempotent(a) THEN idem[Host[a]][Operation[Presents[a]]] ELSE None
    IN  /\ At(a, "lookup")
        /\ Move(a, CASE prior = None                    -> To(a, "escrow")
                     [] prior = ActionHash[Presents[a]] -> To(a, "spend")
                     [] OTHER                           -> Refuse(a, "rejected"))
        /\ UNCHANGED stores

ReturnPrior(a) ==
    /\ At(a, "priorReceipt")
    /\ \/ Move(a, [att[a] EXCEPT !.pc = "done", !.wrote = @ \cup {"prior"}])
       \/ "writer" \in Faults /\ Move(a, Abort(a))
    /\ UNCHANGED stores

(* escrow.consume; it may raise before or after its commit.                *)
ConsumeEscrow(a) ==
    LET k == Presents[a]
        e == EscrowOf[k]
        ok == e # None /\ EscrowConsumable(escrow, e, k, att[a].now)
    IN  /\ At(a, "escrow")
        /\ \/ ~UseEscrow /\ escrow' = escrow /\ Move(a, To(a, "effect"))
           \/ /\ UseEscrow /\ ok
              /\ escrow' = EscrowConsumed(escrow, e)
              /\ \/ Move(a, To(a, "effect"))
                 \/ "escrow" \in Faults /\ Move(a, Abort(a))
           \/ /\ UseEscrow /\ ~ok
              /\ escrow' = IF e = None THEN escrow
                           ELSE EscrowRefused(escrow, e, att[a].now)
              /\ Move(a, Refuse(a, "rejected"))
           \/ /\ UseEscrow /\ "escrow" \in Faults
              /\ escrow' = escrow
              /\ Move(a, Abort(a))
        /\ UNCHANGED <<row, dispatched, idem>>

(* Mutation of ClaimEffect: a dispatched effect is handed out again.       *)
ClaimEffectAgain(a) ==
    LET f == EffectOf[Presents[a]]
    IN  /\ At(a, "effect") /\ f # None
        /\ dispatched' = dispatched \cup {f}
        /\ Move(a, [att[a] EXCEPT !.pc = "acquire", !.owned = TRUE])
        /\ UNCHANGED <<row, escrow, idem>>

(* EffectProtector.claim_request: the ledger moves an effect from RESERVED *)
(* to DISPATCHING once.  Whatever it raises becomes a refusal.             *)
ClaimEffect(a) ==
    LET f == EffectOf[Presents[a]]
        free == f # None /\ f \notin dispatched
    IN  /\ At(a, "effect")
        /\ \/ ~UseEffects /\ dispatched' = dispatched /\ Move(a, To(a, "acquire"))
           \/ /\ UseEffects /\ free
              /\ dispatched' = dispatched \cup {f}
              /\ \/ Move(a, [att[a] EXCEPT !.pc = "acquire", !.owned = TRUE])
                 \/ "ledger" \in Faults /\ Move(a, Refuse(a, "rejected"))
           \/ /\ UseEffects /\ (~free \/ "ledger" \in Faults)
              /\ dispatched' = dispatched
              /\ Move(a, Refuse(a, "rejected"))
        /\ UNCHANGED <<row, escrow, idem>>

AcquireCredential(a) ==
    /\ At(a, "acquire")
    /\ \/ Move(a, [att[a] EXCEPT !.pc = "consume", !.cred = "held"])
       \/ "broker" \in Faults /\ (Move(a, Refuse(a, "rejected")) \/ Move(a, Abort(a)))
    /\ UNCHANGED stores

CallHandler(a) == /\ At(a, "handler")
                  /\ Move(a, [att[a] EXCEPT !.pc = "running", !.started = TRUE])
                  /\ UNCHANGED stores

(* The handler crosses the boundary: the protected action happens.         *)
SideEffect(a) == /\ At(a, "running") /\ ~att[a].acted
                 /\ Move(a, [att[a] EXCEPT !.acted = TRUE])
                 /\ UNCHANGED stores

(* The handler returns; an owned effect needs evidence that it committed.  *)
HandlerReturns(a) ==
    /\ At(a, "running") /\ att[a].acted
    /\ Move(a, [att[a] EXCEPT !.pc = "release",
                              !.evidence = IF att[a].owned THEN "COMMITTED" ELSE @])
    /\ UNCHANGED stores

(* The handler returns evidence of another outcome, or none that is valid. *)
HandlerUnconfirmed(a) ==
    /\ At(a, "running") /\ att[a].owned /\ "handler" \in Faults
    /\ \/ ~att[a].acted /\ Move(a, [Refuse(a, "rejected") EXCEPT !.evidence = "NOT_EXECUTED"])
       \/ Move(a, [Refuse(a, "unknown") EXCEPT !.evidence = "AMBIGUOUS"])
       \/ Move(a, Refuse(a, "unknown"))
    /\ UNCHANGED stores

HandlerRaises(a) ==
    /\ At(a, "running") /\ "handler" \in Faults
    /\ Move(a, Refuse(a, "rejected")) \/ Move(a, Abort(a))
    /\ UNCHANGED stores

ReleaseCredential(a) ==
    /\ At(a, "release")
    /\ \/ Move(a, [att[a] EXCEPT !.pc = "receipt", !.cred = "released"])
       \/ "broker" \in Faults /\ (Move(a, Refuse(a, "rejected")) \/ Move(a, Abort(a)))
    /\ UNCHANGED stores

WriteReceipt(a) ==
    /\ At(a, "receipt")
    /\ \/ Move(a, [att[a] EXCEPT !.pc = "record", !.wrote = @ \cup {"executed"}])
       \/ "writer" \in Faults /\ Move(a, Abort(a))
    /\ UNCHANGED stores

(* idempotency_store.record: another hash is refused, the same hash keeps  *)
(* the result recorded first.                                              *)
RecordOperation(a) ==
    LET k == Presents[a]
        prior == IF Idempotent(a) THEN idem[Host[a]][Operation[k]] ELSE None
    IN  /\ At(a, "record")
        /\ \/ /\ Idempotent(a) /\ prior = None
              /\ idem' = [idem EXCEPT ![Host[a]][Operation[k]] = ActionHash[k]]
              /\ Move(a, To(a, "done"))
           \/ /\ ~Idempotent(a) \/ prior # None
              /\ idem' = idem
              /\ Move(a, IF prior \in {None, ActionHash[k]}
                         THEN To(a, "done") ELSE Refuse(a, "rejected"))
        /\ UNCHANGED <<row, escrow, dispatched>>
-----------------------------------------------------------------------------
(* Mutation of Cleanup: the credential is not given back.                  *)
CleanupKeepsCredential(a) ==
    LET f == att[a]
        next == CASE f.burnt \/ ~f.held -> "refusal"
                  [] At(a, "refuse")    -> "unclaim"
                  [] OTHER              -> "burn"
    IN  /\ f.pc \in {"refuse", "abort"}
        /\ Move(a, To(a, next))
        /\ UNCHANGED stores

(* except RefusalException, except Exception: the credential is given back *)
(* (best effort), then the claim is released, or burnt when the cause was  *)
(* not a refusal.                                                          *)
Cleanup(a) ==
    LET f == att[a]
        ambiguous == f.owned /\ f.started /\ (At(a, "refuse") => f.evidence = "none")
        code == CASE ambiguous       -> "unknown"
                  [] At(a, "abort")  -> "failed"
                  [] OTHER           -> f.code
        next == CASE f.burnt \/ ~f.held -> "refusal"
                  [] At(a, "refuse")    -> "unclaim"
                  [] OTHER              -> "burn"
    IN  /\ f.pc \in {"refuse", "abort"}
        /\ \E cred \in IF f.cred # "held" THEN {f.cred}
                       ELSE {"released"} \cup (IF "broker" \in Faults THEN {"held"} ELSE {}) :
             Move(a, [f EXCEPT !.pc = next, !.code = code, !.cred = cred])
        /\ UNCHANGED stores

(* Mutation of Unclaim: the claim is not released.                         *)
UnclaimSkipped(a) == At(a, "unclaim") /\ Move(a, To(a, "refusal")) /\ UNCHANGED stores

Unclaim(a) ==
    LET k == Presents[a]
    IN  /\ At(a, "unclaim")
        /\ \/ /\ Releasable(row, k)
              /\ row' = Released(row, k)
              /\ Move(a, To(a, "unclaimRead"))
           \/ ~Releasable(row, k) /\ row' = row /\ Move(a, To(a, "refusal"))
        /\ UNCHANGED <<escrow, dispatched, idem>>

UnclaimReread(a) == At(a, "unclaimRead") /\ Reread(a) /\ Move(a, To(a, "refusal"))

WriteRefusal(a) ==
    /\ At(a, "refusal")
    /\ \/ Move(a, [att[a] EXCEPT !.pc = "refusedReceipt", !.wrote = @ \cup {"refusal"}])
       \/ "writer" \in Faults /\ Move(a, To(a, "raised"))
    /\ UNCHANGED stores

WriteRefusedReceipt(a) ==
    /\ At(a, "refusedReceipt")
    /\ \/ Move(a, [att[a] EXCEPT !.pc = "done", !.wrote = @ \cup {"refused"}])
       \/ "writer" \in Faults /\ Move(a, To(a, "raised"))
    /\ UNCHANGED stores

(* Mutation of RefusedSideEffects: a handler that raised is not ambiguous. *)
RefusedUnlessReported(f) ==
    IF f.owned /\ f.evidence = "AMBIGUOUS" THEN "unknown" ELSE "none"

(* side_effects.state of the refused receipt.                              *)
RefusedSideEffects(f) ==
    IF f.owned /\ (f.evidence = "AMBIGUOUS" \/ (f.evidence = "none" /\ f.started))
    THEN "unknown" ELSE "none"
-----------------------------------------------------------------------------
(* The process dies: its calls and its idempotency store are gone.         *)
Crash(p) ==
    /\ "crash" \in Faults
    /\ \E a \in Attempts : Host[a] = p /\ Live(a)
    /\ att' = [a \in Attempts |-> IF Host[a] = p /\ Live(a) THEN To(a, "crashed") ELSE att[a]]
    /\ idem' = [idem EXCEPT ![p] = [o \in Operations |-> None]]
    /\ UNCHANGED <<row, escrow, dispatched, clock>>

Tick == clock < MaxTime /\ clock' = clock + 1 /\ UNCHANGED <<att, stores>>

PurgeExpired == /\ ReplayOn
                /\ row' = Purged(row, clock)
                /\ UNCHANGED <<att, escrow, dispatched, idem, clock>>

RevokeEscrow(e) == /\ UseEscrow /\ "escrow" \in Faults
                   /\ escrow' = EscrowRevoked(escrow, e)
                   /\ UNCHANGED <<att, row, dispatched, idem, clock>>

ReplayStep(a) ==
    \/ ClaimReplay(a) \/ ClaimReread(a) \/ DuplicateReplay(a)
    \/ \E site \in {"spend", "consume", "burn"} :
         MarkConsumed(a, site) \/ MarkReread(a, site) \/ MarkInvalid(a, site)
    \/ Unclaim(a) \/ UnclaimReread(a) \/ StoreFails(a)

HandlerStep(a) ==
    \/ CallHandler(a) \/ SideEffect(a) \/ HandlerReturns(a)
    \/ HandlerUnconfirmed(a) \/ HandlerRaises(a)

LocalStep(a) ==
    \/ CheckIdempotency(a) \/ ReturnPrior(a) \/ ConsumeEscrow(a) \/ ClaimEffect(a)
    \/ AcquireCredential(a) \/ ReleaseCredential(a) \/ WriteReceipt(a)
    \/ RecordOperation(a) \/ Cleanup(a) \/ WriteRefusal(a) \/ WriteRefusedReceipt(a)

Step(a) == ReplayStep(a) \/ HandlerStep(a) \/ LocalStep(a)

Environment == \/ \E p \in Procs : Crash(p)
               \/ \E e \in EscrowIds : RevokeEscrow(e)
               \/ Tick
               \/ PurgeExpired

Next == (\E a \in Attempts : Begin(a) \/ Step(a)) \/ Environment

(* A thread that runs execute() is scheduled again and again, and every    *)
(* call it makes returns or raises.                                        *)
Fairness == \A a \in Attempts : WF_vars(Step(a))

Spec == Init /\ [][Next]_vars /\ Fairness
-----------------------------------------------------------------------------
(* Frames are frames, and the stores hold what their tables can hold.      *)
TypeOK == /\ att \in [Attempts -> Frame]
          /\ row \in [Keys -> Status]
          /\ escrow \in [EscrowIds -> EscrowState]
          /\ dispatched \subseteq Effects
          /\ idem \in [Procs -> [Operations -> Hashes \cup {None}]]
          /\ clock \in 0 .. MaxTime

(* Single use: of all the attempts that ever present a proof, in whatever  *)
(* processes and however they interleave, fail, expire or crash, at most   *)
(* one enters the handler.                                                 *)
AtMostOnce == \A a, b \in Attempts :
    att[a].started /\ att[b].started /\ Presents[a] = Presents[b] => a = b

(* Replay consumption is durable before the handler runs and is never      *)
(* undone, by cleanup, sweep, inspection or another attempt.               *)
ConsumedBeforeHandler == \A a \in Attempts :
    att[a].started => row[Presents[a]] = "consumed"

(* With an escrow, the handler runs only on a record that was consumed     *)
(* for this proof (it may have been revoked since).                        *)
EscrowBeforeHandler == \A a \in Attempts :
    att[a].started => /\ EscrowOf[Presents[a]] \in EscrowIds
                      /\ escrow[EscrowOf[Presents[a]]] \in {"consumed", "revoked"}

(* One logical effect is dispatched by at most one attempt, even when      *)
(* several valid proofs name it.                                           *)
EffectOnce == \A a, b \in Attempts :
    /\ att[a].started /\ att[b].started
    /\ EffectOf[Presents[a]] # None /\ EffectOf[Presents[a]] = EffectOf[Presents[b]]
    => a = b

(* No claim is orphaned: while the store and the processes stay up, a row  *)
(* in status claimed belongs to an attempt still in execute(); each way    *)
(* out of execute() has released, consumed or expired it.                  *)
NoOrphanClaim == \A k \in Keys :
    row[k] = "claimed" => \E a \in Attempts : Presents[a] = k /\ Live(a)

(* execute() never returns or raises with the brokered credential still    *)
(* held, as long as the broker takes it back when asked.                   *)
CredentialReturned == \A a \in Attempts :
    att[a].pc \in {"done", "raised"} => att[a].cred # "held"

(* A refused receipt that reports side_effects "none" is about an attempt  *)
(* whose protected action did not happen.                                  *)
RefusedMeansNoSideEffect == \A a \in Attempts :
    "refused" \in att[a].wrote /\ RefusedSideEffects(att[a]) = "none" => ~att[a].acted

(* Concurrent requests with the same operation_id and action_hash, in one  *)
(* process, do not both execute the handler.                               *)
SameOperationOnce == \A a, b \in Attempts :
    /\ att[a].started /\ att[b].started /\ Host[a] = Host[b]
    /\ Operation[Presents[a]] # None
    /\ Operation[Presents[a]] = Operation[Presents[b]]
    /\ ActionHash[Presents[a]] = ActionHash[Presents[b]]
    => a = b

(* Once the escrow of a proof is consumed and every attempt has ended, the *)
(* replay state is consumed as well: the proof cannot be claimed again.    *)
EscrowAndReplayBurnTogether == \A k \in Keys :
    /\ EscrowOf[k] # None /\ escrow[EscrowOf[k]] = "consumed"
    /\ \A a \in Attempts : Presents[a] = k => att[a].pc \in {"idle", "done"}
    => row[k] = "consumed"

(* Racing presentations of the proofs of one operation never refuse each  *)
(* other to the last: when nothing fails, one of them executes, unless a   *)
(* proof of the operation expires first.                                   *)
SomeoneExecutes == \A o \in Operations :
    LET For(a) == Operation[Presents[a]] = o
    IN  (\E a \in Attempts : For(a) /\ At(a, "claim"))
            ~> \/ \E a \in Attempts : For(a) /\ "executed" \in att[a].wrote
               \/ \E k \in Keys : Operation[k] = o /\ clock >= ExpiresAt[k]

(* The executor implements single-use authority: a proof is spent when its *)
(* replay row is consumed, and has run when an attempt entered the handler.*)
Authority == INSTANCE SingleUseAuthority
                 WITH Proofs <- Keys,
                      spent <- {k \in Keys : row[k] = "consumed"},
                      ran <- {k \in Keys : \E a \in Attempts :
                                             Presents[a] = k /\ att[a].started}
ImplementsAuthority == Authority!Spec
-----------------------------------------------------------------------------
(* The inductive strengthening of the safety properties.                   *)
FailClosed == ReplayOn /\ ~FailOpen

(* An attempt has secured its proof once its mark_consumed has committed.  *)
Secured(a) == att[a].pc \in {"consumeRead", "handler"} \/ att[a].started

(* Replay, when it fails closed: an attempt gets past its claim only with  *)
(* the claim, and past mark_consumed only by the one transition of the row *)
(* from claimed to consumed.                                               *)
ReplayInv == FailClosed =>
    /\ \A a \in Attempts :
         att[a].pc \in {"lookup", "escrow", "effect", "acquire", "consume"} => att[a].held
    /\ \A a \in Attempts : Secured(a) => row[Presents[a]] = "consumed"
    /\ \A a, b \in Attempts :
         Secured(a) /\ Secured(b) /\ Presents[a] = Presents[b] => a = b

(* An attempt is entitled once it has consumed the escrow of its proof.    *)
Entitled(a) == \/ att[a].pc \in {"effect", "acquire", "handler"} \cup ConsumePcs
               \/ att[a].started

EscrowInv == UseEscrow =>
    /\ \A a \in Attempts : Entitled(a) =>
         /\ EscrowOf[Presents[a]] \in EscrowIds
         /\ escrow[EscrowOf[Presents[a]]] \in {"consumed", "revoked"}
    /\ \A a, b \in Attempts :
         Entitled(a) /\ Entitled(b) /\ Presents[a] = Presents[b] => a = b

(* Effects: nothing gets near the handler with an effect it does not own,  *)
(* and what it owns was dispatched for it alone.                           *)
EffectInv ==
    /\ \A a \in Attempts : EffectOf[Presents[a]] # None =>
         /\ att[a].pc \in ClaimPcs \cup {"lookup", "escrow", "effect"} => UseEffects
         /\ \/ att[a].pc \in {"acquire", "handler"} \cup ConsumePcs
            \/ att[a].started
            => att[a].owned
    /\ \A a \in Attempts : att[a].owned => EffectOf[Presents[a]] \in dispatched
    /\ \A a, b \in Attempts :
         /\ att[a].owned /\ att[b].owned
         /\ EffectOf[Presents[a]] = EffectOf[Presents[b]]
         => a = b

ExecutorInv == TypeOK /\ ReplayInv /\ EscrowInv /\ EffectInv

(* An attempt answers for a claim from its insert up to the transaction    *)
(* that consumes or releases it.                                           *)
KeeperPcs == {"lookup", "escrow", "effect", "acquire", "consume", "consumeLost",
              "spend", "spendLost", "refuse", "abort", "unclaim", "burn"}
Keeper(a) == \/ att[a].pc = "claimRead"
             \/ att[a].held /\ att[a].pc \in KeeperPcs

Undisturbed == Faults \cap {"store", "crash"} = {}

(* While the store and the processes stay up, every claim has a keeper.    *)
ClaimInv == Undisturbed =>
    /\ \A a \in Attempts :
         att[a].burnt \/ att[a].pc \in {"spendRead", "consumeRead", "burnRead"}
         => row[Presents[a]] = "consumed"
    /\ \A k \in Keys : row[k] = "claimed" =>
         \E a \in Attempts : Presents[a] = k /\ Keeper(a)

(* Where an attempt may have a credential that it has not given back.      *)
HoldingPcs == ConsumePcs \cup {"handler", "running", "release", "refuse", "abort",
                               "crashed"}

(* The evidence a frame holds tells what its handler did, and committed    *)
(* evidence keeps an attempt off the ways that end in a refused receipt.   *)
CommittedPcs == {"release", "receipt", "record", "done", "crashed"}
EvidencePcs == CommittedPcs \cup ExceptPcs \cup BurnPcs \cup UnclaimPcs \cup {"raised"}

Honest(f) ==
    /\ f.pc \in {"acquire", "handler", "running"} \cup ConsumePcs => f.owned
    /\ f.pc = "running" => f.started
    /\ f.acted => f.started /\ f.owned
    /\ f.evidence # "none" => f.pc \in EvidencePcs
    /\ f.evidence = "NOT_EXECUTED" => ~f.acted
    /\ f.evidence = "COMMITTED" => f.pc \in CommittedPcs /\ "refused" \notin f.wrote
    /\ f.pc \in {"release", "receipt", "record"} => f.evidence = "COMMITTED"
    /\ "refused" \in f.wrote => f.pc = "done"

(* The credential and the evidence are looked after in frame f.            *)
EffectsReported == UseEffects /\ Faults \cap {"writer", "broker"} = {}

Tidy(f) == /\ "broker" \notin Faults => (f.cred = "held" => f.pc \in HoldingPcs)
           /\ EffectsReported => Honest(f)

TidyInv == \A a \in Attempts : Tidy(att[a])
=============================================================================
