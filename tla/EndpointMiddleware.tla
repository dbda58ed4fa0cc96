------------------------ MODULE EndpointMiddleware --------------------------
(***************************************************************************)
(* ProtectedEndpointMiddleware.execute (actenon/verifier/middleware.py):   *)
(* the endpoint that always uses both a replay store and an escrow.        *)
(*                                                                         *)
(* Unlike ProtectedExecutor it runs the handler between the claim and the  *)
(* consumption of the replay state, releases the claim only for some       *)
(* categories of refusal, and lets what its exception handlers raise       *)
(* propagate to the caller.  Steps, clock and stores are as in             *)
(* ProtectedExecutor.                                                      *)
(***************************************************************************)
EXTENDS ReplayRows, EscrowRecords

CONSTANTS Calls,          \* calls of execute()
          Presents,       \* the proof each call presents
          EscrowOf,       \* the escrow_id of each proof, or None
          None,
          Skew,           \* clock skew the proof verifier tolerates
          MaxTime,        \* bound on the clock (model bound)
          Faults          \* the failures of the environment that may occur

ASSUME CallAssumption == /\ Presents \in [Calls -> Keys]
                         /\ EscrowOf \in [Keys -> EscrowIds \cup {None}]
                         /\ None \notin EscrowIds
                         /\ EscrowProofs = Keys
ASSUME TimeAssumption == Skew \in Nat /\ MaxTime \in Nat
ASSUME FaultAssumption == Faults \subseteq {"store", "escrow", "handler", "writer", "crash"}

VARIABLES frame,      \* the locals of each call
          row,        \* the replay table
          escrow,     \* the escrow records
          clock

vars == <<frame, row, escrow, clock>>

StorePcs == {"claim", "claimRead", "claimLost", "consume", "consumeRead", "consumeLost",
             "unclaim", "unclaimRead", "burn", "burnRead", "burnLost"}
Ended == {"done", "raised", "crashed"}

(* The locals of a call, and what it has done so far.                      *)
NewFrame ==
    [pc |-> "idle",
     now |-> 0,              \* request.context.now
     held |-> FALSE,         \* replay_state is not None
     started |-> FALSE,      \* the handler was called
     acted |-> FALSE,        \* its side effect has happened
     releases |-> FALSE,     \* the refusal's category releases the claim
     outage |-> FALSE,       \* the replay store failed
     wrote |-> {}]           \* executed receipt, refusal, refused receipt

Init == /\ frame = [c \in Calls |-> NewFrame]
        /\ row = [k \in Keys |-> "absent"]
        /\ escrow = [e \in EscrowIds |-> "issued"]
        /\ clock = 0

At(c, pc) == frame[c].pc = pc
To(c, pc) == [frame[c] EXCEPT !.pc = pc]
Move(c, f) == frame' = [frame EXCEPT ![c] = f] /\ UNCHANGED clock

(* A refusal of category escrow, authorization or proof releases the       *)
(* claim; one of category replay, policy or execution does not.            *)
Refuse(c, releases) == [frame[c] EXCEPT !.pc = "refuse", !.releases = releases]
-----------------------------------------------------------------------------
(* verify, the effect extension, the missing escrow reference.             *)
Begin(c) ==
    LET k == Presents[c]
        f == [frame[c] EXCEPT !.now = clock]
    IN  /\ At(c, "idle")
        /\ \/ /\ clock <= ExpiresAt[k] + Skew /\ EscrowOf[k] # None
              /\ Move(c, [f EXCEPT !.pc = "claim"])
           \/ /\ clock > ExpiresAt[k] + Skew \/ EscrowOf[k] = None
              /\ Move(c, [f EXCEPT !.pc = "refuse", !.releases = TRUE])
        /\ UNCHANGED <<row, escrow>>

ClaimRequest(c) ==
    LET k == Presents[c]
    IN  /\ At(c, "claim")
        /\ \/ /\ Claimable(row, k, frame[c].now)
              /\ row' = Claimed(row, k)
              /\ Move(c, To(c, "claimRead"))
           \/ /\ ~Claimable(row, k, frame[c].now)
              /\ row' = row
              /\ Move(c, To(c, "claimLost"))
        /\ UNCHANGED escrow

(* The inspect that ends each store call.                                  *)
Reread(c, pc, f) == /\ At(c, pc)
                    /\ row' = Inspected(row, Presents[c], frame[c].now)
                    /\ Move(c, f)
                    /\ UNCHANGED escrow

ClaimReread(c) == Reread(c, "claimRead", [frame[c] EXCEPT !.pc = "escrow", !.held = TRUE])
DuplicateReplay(c) == Reread(c, "claimLost", Refuse(c, FALSE))

ConsumeEscrow(c) ==
    LET k == Presents[c]
        e == EscrowOf[k]
        ok == EscrowConsumable(escrow, e, k, frame[c].now)
    IN  /\ At(c, "escrow")
        /\ \/ /\ ok
              /\ escrow' = EscrowConsumed(escrow, e)
              /\ \/ Move(c, To(c, "handler"))
                 \/ "escrow" \in Faults /\ Move(c, To(c, "abort"))
           \/ /\ ~ok
              /\ escrow' = EscrowRefused(escrow, e, frame[c].now)
              /\ Move(c, Refuse(c, TRUE))
           \/ /\ "escrow" \in Faults
              /\ escrow' = escrow
              /\ Move(c, To(c, "abort"))
        /\ UNCHANGED row

CallHandler(c) == /\ At(c, "handler")
                  /\ Move(c, [frame[c] EXCEPT !.pc = "running", !.started = TRUE])
                  /\ UNCHANGED <<row, escrow>>

SideEffect(c) == /\ At(c, "running") /\ ~frame[c].acted
                 /\ Move(c, [frame[c] EXCEPT !.acted = TRUE])
                 /\ UNCHANGED <<row, escrow>>

HandlerReturns(c) == /\ At(c, "running") /\ frame[c].acted
                     /\ Move(c, To(c, "consume"))
                     /\ UNCHANGED <<row, escrow>>

HandlerRaises(c) == /\ At(c, "running") /\ "handler" \in Faults
                    /\ \/ \E releases \in BOOLEAN : Move(c, Refuse(c, releases))
                       \/ Move(c, To(c, "abort"))
                    /\ UNCHANGED <<row, escrow>>

(* mark_consumed, after the handler (consume) or for an exception (burn).  *)
MarkConsumed(c, site) ==
    LET k == Presents[c]
    IN  /\ At(c, site)
        /\ \/ /\ Consumable(row, k)
              /\ row' = Consumed(row, k)
              /\ Move(c, To(c, IF site = "burn" THEN "burnRead" ELSE "consumeRead"))
           \/ /\ ~Consumable(row, k)
              /\ row' = row
              /\ Move(c, To(c, IF site = "burn" THEN "burnLost" ELSE "consumeLost"))
        /\ UNCHANGED escrow

(* Mutation of ConsumeInvalid: REPLAY_STATE_INVALID is ignored.            *)
ConsumeInvalidIgnored(c) == Reread(c, "consumeLost", To(c, "receipt"))

(* REPLAY_STATE_INVALID is a refusal after the handler, and propagates     *)
(* from the exception handler.                                             *)
ConsumeReread(c) == Reread(c, "consumeRead", To(c, "receipt"))
ConsumeInvalid(c) == Reread(c, "consumeLost", Refuse(c, FALSE))
BurnReread(c) == Reread(c, "burnRead", To(c, "refusal"))
BurnInvalid(c) == Reread(c, "burnLost", To(c, "raised"))

WriteReceipt(c) == /\ At(c, "receipt")
                   /\ \/ Move(c, [frame[c] EXCEPT !.pc = "done", !.wrote = @ \cup {"executed"}])
                      \/ "writer" \in Faults /\ Move(c, To(c, "abort"))
                   /\ UNCHANGED <<row, escrow>>
-----------------------------------------------------------------------------
(* except RefusalException, except Exception.                              *)
HandleException(c) ==
    /\ frame[c].pc \in {"refuse", "abort"}
    /\ Move(c, To(c, CASE ~frame[c].held -> "refusal"
                       [] At(c, "abort") -> "burn"
                       [] frame[c].releases -> "unclaim"
                       [] OTHER -> "refusal"))
    /\ UNCHANGED <<row, escrow>>

(* release_claim returns a consumed row as it is, and raises for a row     *)
(* that is missing, released or expired: nothing here catches that.        *)
Unclaim(c) ==
    LET k == Presents[c]
    IN  /\ At(c, "unclaim")
        /\ \/ /\ Releasable(row, k)
              /\ row' = Released(row, k)
              /\ Move(c, To(c, "unclaimRead"))
           \/ /\ ~Releasable(row, k)
              /\ row' = row
              /\ Move(c, To(c, IF row[k] = "consumed" THEN "refusal" ELSE "raised"))
        /\ UNCHANGED escrow

UnclaimReread(c) == Reread(c, "unclaimRead", To(c, "refusal"))

(* The replay store raises something other than a refusal, before or after *)
(* its commit: an exception of the try block, or one of its handlers.      *)
StoreFails(c) ==
    /\ "store" \in Faults /\ frame[c].pc \in StorePcs
    /\ Move(c, [frame[c] EXCEPT
                  !.outage = TRUE,
                  !.pc = IF @ \in {"unclaim", "unclaimRead", "burn", "burnRead", "burnLost"}
                         THEN "raised" ELSE "abort"])
    /\ UNCHANGED <<row, escrow>>

WriteRefusal(c) == /\ At(c, "refusal")
                   /\ \/ Move(c, [frame[c] EXCEPT !.pc = "refusedReceipt",
                                                  !.wrote = @ \cup {"refusal"}])
                      \/ "writer" \in Faults /\ Move(c, To(c, "raised"))
                   /\ UNCHANGED <<row, escrow>>

WriteRefusedReceipt(c) == /\ At(c, "refusedReceipt")
                          /\ \/ Move(c, [frame[c] EXCEPT !.pc = "done",
                                                         !.wrote = @ \cup {"refused"}])
                             \/ "writer" \in Faults /\ Move(c, To(c, "raised"))
                          /\ UNCHANGED <<row, escrow>>
-----------------------------------------------------------------------------
(* The process of a call dies.                                             *)
Crash(c) == /\ "crash" \in Faults /\ frame[c].pc \notin Ended \cup {"idle"}
            /\ Move(c, To(c, "crashed"))
            /\ UNCHANGED <<row, escrow>>

Tick == clock < MaxTime /\ clock' = clock + 1 /\ UNCHANGED <<frame, row, escrow>>

PurgeExpired == row' = Purged(row, clock) /\ UNCHANGED <<frame, escrow, clock>>

RevokeEscrow(e) == /\ "escrow" \in Faults
                   /\ escrow' = EscrowRevoked(escrow, e)
                   /\ UNCHANGED <<frame, row, clock>>

Step(c) ==
    \/ Begin(c) \/ ClaimRequest(c) \/ ClaimReread(c) \/ DuplicateReplay(c)
    \/ ConsumeEscrow(c)
    \/ CallHandler(c) \/ SideEffect(c) \/ HandlerReturns(c) \/ HandlerRaises(c)
    \/ \E site \in {"consume", "burn"} : MarkConsumed(c, site)
    \/ ConsumeReread(c) \/ ConsumeInvalid(c) \/ BurnReread(c) \/ BurnInvalid(c)
    \/ WriteReceipt(c) \/ HandleException(c) \/ Unclaim(c) \/ UnclaimReread(c)
    \/ StoreFails(c) \/ WriteRefusal(c) \/ WriteRefusedReceipt(c) \/ Crash(c)

Next == \/ \E c \in Calls : Step(c)
        \/ \E e \in EscrowIds : RevokeEscrow(e)
        \/ Tick
        \/ PurgeExpired

Spec == Init /\ [][Next]_vars
-----------------------------------------------------------------------------
(* Although the handler runs before the replay state is consumed, and the  *)
(* claim may expire or be released under it, a proof runs it at most once: *)
(* the escrow is consumed first and never reopens.                         *)
AtMostOnce == \A c, d \in Calls :
    frame[c].started /\ frame[d].started /\ Presents[c] = Presents[d] => c = d

(* An executed receipt is evidence of a proof that is used up for good:    *)
(* its replay row is consumed, and stays so.                               *)
ExecutedIsConsumed == \A c \in Calls :
    "executed" \in frame[c].wrote => row[Presents[c]] = "consumed" /\ frame[c].acted

(* A replay-store outage is not reported as a refusal after the side       *)
(* effect has already occurred.                                            *)
OutageNotRefusedAfterEffect == \A c \in Calls :
    "refusal" \in frame[c].wrote /\ frame[c].outage => ~frame[c].acted
=============================================================================
