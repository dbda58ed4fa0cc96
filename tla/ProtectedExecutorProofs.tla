---------------------- MODULE ProtectedExecutorProofs -----------------------
(***************************************************************************)
(* The executor's single-use guarantees for any number of attempts,        *)
(* proofs, processes and faults, by the inductive invariant ExecutorInv.   *)
(*                                                                         *)
(* A step of attempt a writes a's frame and at most one table.  Three      *)
(* facts about it preserve the invariant: a's new frame is a frame, a does *)
(* not become secured, entitled or owner except by the one transition that *)
(* makes it so, and no table forgets that it was consumed or dispatched.   *)
(***************************************************************************)
EXTENDS ProtectedExecutor, TLAPS

USE AttemptAssumption, ProofAssumption, NoneAssumption, TimeAssumption,
    ExpiryAssumption, IssuedForAssumption, EscrowExpiryAssumption

(* Jumps to a program point, refusals and aborts yield frames.             *)
LEMMA JumpTyped ==
    ASSUME TypeOK, NEW a \in Attempts
    PROVE  /\ att[a] \in Frame
           /\ \A pc \in Pcs : To(a, pc) \in Frame
           /\ \A code \in {"rejected", "unavailable", "unknown"} : Refuse(a, code) \in Frame
           /\ Abort(a) \in Frame
  <1>1. att[a] \in Frame
    BY DEF TypeOK
  <1>2. "refuse" \in Pcs /\ "abort" \in Pcs
    BY DEF Pcs, ExceptPcs
  <1>3. QED
    BY ZenonT(60), <1>1, <1>2 DEF To, Refuse, Abort, Frame

(* A jump changes the program point and nothing else.                      *)
LEMMA JumpFields ==
    ASSUME TypeOK, NEW a \in Attempts, NEW pc \in Pcs
    PROVE  /\ To(a, pc) \in Frame
           /\ To(a, pc).pc = pc
           /\ To(a, pc).held = att[a].held
           /\ To(a, pc).started = att[a].started
           /\ To(a, pc).owned = att[a].owned
  <1>1. att[a] \in Frame
    BY Zenon DEF TypeOK
  <1>2. To(a, pc) \in Frame
    BY Zenon, <1>1 DEF To, Frame
  <1>3. QED
    BY Zenon, <1>1, <1>2 DEF To, Frame

(* A step that moves one attempt leaves all other frames alone.            *)
LEMMA MoveTyped ==
    ASSUME TypeOK, NEW a \in Attempts, NEW frame \in Frame, Move(a, frame)
    PROVE  /\ att' \in [Attempts -> Frame]
           /\ att'[a] = frame
           /\ \A b \in Attempts \ {a} : att'[b] = att[b]
           /\ clock' = clock
    BY DEF TypeOK, Move

(* No transaction of the replay store but mark_consumed changes which rows *)
(* are consumed.                                                           *)
LEMMA RowsKept ==
    ASSUME NEW rows \in [Keys -> Status], NEW k \in Keys, NEW now
    PROVE  /\ Claimed(rows, k) \in [Keys -> Status]
           /\ Consumed(rows, k) \in [Keys -> Status]
           /\ Released(rows, k) \in [Keys -> Status]
           /\ Inspected(rows, k, now) \in [Keys -> Status]
           /\ Purged(rows, now) \in [Keys -> Status]
           /\ Claimable(rows, k, now) => \A j \in Keys :
                 (Claimed(rows, k)[j] = "consumed") <=> (rows[j] = "consumed")
           /\ Releasable(rows, k) => \A j \in Keys :
                 (Released(rows, k)[j] = "consumed") <=> (rows[j] = "consumed")
           /\ \A j \in Keys :
                 (Inspected(rows, k, now)[j] = "consumed") <=> (rows[j] = "consumed")
           /\ \A j \in Keys :
                 (Purged(rows, now)[j] = "consumed") <=> (rows[j] = "consumed")
    BY DEF Status, Claimable, Releasable, Claimed, Consumed, Released, Inspected, Purged

(* Frames near the handler, by what the invariant asks of them.            *)
ClaimantPcs == {"lookup", "escrow", "effect", "acquire", "consume"}
SecuredFrame(f) == f.pc \in {"consumeRead", "handler"} \/ f.started
EntitledFrame(f) == \/ f.pc \in {"effect", "acquire", "handler"} \cup ConsumePcs
                    \/ f.started
OwnerFrame(f) == f.pc \in {"acquire", "handler"} \cup ConsumePcs \/ f.started
Guarded == ClaimPcs \cup ConsumePcs \cup {"lookup", "escrow", "effect", "acquire", "handler"}

(* Frame g gives attempt a nothing that it had not earned before.          *)
Quiet(a, g) ==
    /\ g \in Frame
    /\ FailClosed /\ g.pc \in ClaimantPcs => g.held
    /\ FailClosed /\ SecuredFrame(g) => Secured(a)
    /\ UseEscrow /\ EntitledFrame(g) => Entitled(a)
    /\ EffectOf[Presents[a]] # None =>
         /\ g.pc \in ClaimPcs \cup {"lookup", "escrow", "effect"} => UseEffects
         /\ OwnerFrame(g) => g.owned
    /\ g.owned = att[a].owned

QuietMove(a) == \E g : Quiet(a, g) /\ Move(a, g)

(* The tables forget nothing: consumed rows, closed escrow records and     *)
(* dispatched effects stay.                                                *)
TablesKept ==
    /\ row' \in [Keys -> Status]
    /\ \A k \in Keys : row[k] = "consumed" => row'[k] = "consumed"
    /\ escrow' \in [EscrowIds -> EscrowState]
    /\ \A e \in EscrowIds : escrow[e] \in {"consumed", "revoked"}
                              => escrow'[e] \in {"consumed", "revoked"}
    /\ dispatched' \subseteq Effects
    /\ dispatched \subseteq dispatched'
    /\ idem' \in [Procs -> [Operations -> Hashes \cup {None}]]

LEMMA StoresKept == ASSUME TypeOK, UNCHANGED stores PROVE TablesKept
    BY Zenon DEF TypeOK, stores, TablesKept

(* A quiet move with kept tables preserves the invariant.                  *)
LEMMA QuietKeeps ==
    ASSUME ExecutorInv, NEW a \in Attempts, QuietMove(a), TablesKept
    PROVE  ExecutorInv'
  <1> PICK g : Quiet(a, g) /\ Move(a, g)
    BY Zenon DEF QuietMove
  <1>1. TypeOK
    BY Zenon DEF ExecutorInv
  <1>2. /\ att' \in [Attempts -> Frame]
        /\ att'[a] = g
        /\ \A b \in Attempts \ {a} : att'[b] = att[b]
        /\ clock' = clock
    BY Zenon, <1>1, MoveTyped DEF Quiet
  <1>3. TypeOK'
    BY Zenon, <1>1, <1>2 DEF TypeOK, TablesKept
  <1>4. FailClosed => \A b \in Attempts : Secured(b)' => Secured(b)
    BY Zenon, <1>2 DEF Secured, SecuredFrame, Quiet
  <1>5. ReplayInv'
    <2>1. FailClosed => \A b \in Attempts : att'[b].pc \in ClaimantPcs => att'[b].held
      BY <1>2 DEF ExecutorInv, ReplayInv, Quiet, ClaimantPcs
    <2>2. FailClosed => \A b \in Attempts : Secured(b)' => row'[Presents[b]] = "consumed"
      BY Zenon, <1>4 DEF ExecutorInv, ReplayInv, TablesKept
    <2>3. QED
      BY Zenon, <1>4, <2>1, <2>2 DEF ExecutorInv, ReplayInv, ClaimantPcs, FailClosed
  <1>6. UseEscrow => \A b \in Attempts : Entitled(b)' => Entitled(b)
    BY <1>2 DEF Entitled, EntitledFrame, Quiet
  <1>7. EscrowInv'
    BY ZenonT(60), <1>6 DEF ExecutorInv, EscrowInv, TablesKept
  <1>8. \A b \in Attempts : att'[b].owned = att[b].owned
    BY <1>2 DEF Quiet
  <1>9. EffectInv'
    <2>1. \A b \in Attempts : EffectOf[Presents[b]] # None =>
            /\ att'[b].pc \in ClaimPcs \cup {"lookup", "escrow", "effect"} => UseEffects
            /\ att'[b].pc \in {"acquire", "handler"} \cup ConsumePcs \/ att'[b].started
               => att'[b].owned
      BY <1>2 DEF ExecutorInv, EffectInv, Quiet, OwnerFrame
    <2>2. QED
      BY ZenonT(60), <1>8, <2>1 DEF ExecutorInv, EffectInv, TablesKept
  <1>10. QED
    BY Zenon, <1>3, <1>5, <1>7, <1>9 DEF ExecutorInv

(* A jump away from the guarded points is quiet.                           *)
LEMMA OutsideQuiet ==
    ASSUME ExecutorInv, NEW a \in Attempts, NEW g \in Frame, g.pc \notin Guarded,
           g.started = att[a].started, g.owned = att[a].owned
    PROVE  Quiet(a, g)
    BY Zenon DEF Quiet, Guarded, ClaimPcs, ConsumePcs, ClaimantPcs, SecuredFrame, Secured,
           EntitledFrame, Entitled, OwnerFrame, ExecutorInv, EffectInv

LEMMA JumpQuiet ==
    ASSUME ExecutorInv, NEW a \in Attempts
    PROVE  /\ \A pc \in Pcs \ Guarded : Quiet(a, To(a, pc))
           /\ \A code \in {"rejected", "unavailable", "unknown"} : Quiet(a, Refuse(a, code))
           /\ Quiet(a, Abort(a))
  <1>1. TypeOK
    BY Zenon DEF ExecutorInv
  <1>2. "refuse" \notin Guarded /\ "abort" \notin Guarded
    BY Zenon DEF Guarded, ClaimPcs, ConsumePcs
  <1>3. ASSUME NEW pc \in Pcs \ Guarded PROVE Quiet(a, To(a, pc))
    <2>1. To(a, pc) \in Frame
      BY Zenon, <1>1, JumpTyped
    <2>2. To(a, pc).pc = pc /\ To(a, pc).started = att[a].started
          /\ To(a, pc).owned = att[a].owned
      BY <1>1 DEF To, TypeOK, Frame
    <2>3. QED
      BY <2>1, <2>2, OutsideQuiet
  <1>4. ASSUME NEW code \in {"rejected", "unavailable", "unknown"}
        PROVE  Quiet(a, Refuse(a, code))
    <2>1. Refuse(a, code) \in Frame
      BY <1>1, JumpTyped
    <2>2. Refuse(a, code).pc = "refuse" /\ Refuse(a, code).started = att[a].started
          /\ Refuse(a, code).owned = att[a].owned
      BY <1>1 DEF Refuse, TypeOK, Frame
    <2>3. QED
      BY <1>2, <2>1, <2>2, OutsideQuiet
  <1>5. Quiet(a, Abort(a))
    BY Zenon, <1>2, <1>3 DEF Abort, Pcs, ExceptPcs
  <1>6. QED
    BY Zenon, <1>3, <1>4, <1>5

(* So is a jump to a point before the escrow, if the effect extension is   *)
(* honoured and the claim is held where it must be.                        *)
LEMMA EarlyQuiet ==
    ASSUME ExecutorInv, NEW a \in Attempts, NEW g \in Frame,
           g.pc \in ClaimPcs \cup {"lookup", "escrow"},
           EffectOf[Presents[a]] # None => UseEffects,
           FailClosed /\ g.pc \in {"lookup", "escrow"} => g.held,
           g.started = att[a].started, g.owned = att[a].owned
    PROVE  Quiet(a, g)
    BY DEF Quiet, ClaimPcs, ConsumePcs, ClaimantPcs, SecuredFrame, Secured,
           EntitledFrame, Entitled, OwnerFrame, ExecutorInv, EffectInv

-----------------------------------------------------------------------------
(* The steps of an attempt, action by action.                              *)
LEMMA BeginKeeps ==
    ASSUME ExecutorInv, NEW a \in Attempts, Begin(a)
    PROVE  ExecutorInv'
  <1> DEFINE frame == [att[a] EXCEPT !.now = clock]
             claim == [frame EXCEPT !.pc = "claim"]
             refused == [frame EXCEPT !.pc = "refuse", !.code = "rejected"]
  <1>1. TypeOK /\ att[a] \in Frame /\ att[a].pc = "idle" /\ clock \in 0 .. MaxTime
    BY DEF ExecutorInv, TypeOK, Begin, At
  <1>2. TablesKept
    BY <1>1, StoresKept DEF Begin
  <1>3. claim \in Frame /\ refused \in Frame
    BY ZenonT(60), <1>1 DEF Frame, Pcs, ClaimPcs, ExceptPcs
  <1>4. CASE Move(a, refused)
    <2>1. refused.pc = "refuse" /\ refused.started = att[a].started
          /\ refused.owned = att[a].owned
      BY <1>1 DEF Frame
    <2>2. Quiet(a, refused)
      BY ZenonT(60), <1>3, <2>1, OutsideQuiet DEF Guarded, ClaimPcs, ConsumePcs
    <2>3. QED
      BY <1>2, <1>4, <2>2, QuietKeeps DEF QuietMove
  <1>5. CASE (EffectOf[Presents[a]] # None => UseEffects) /\ Move(a, claim)
    <2>1. claim.pc = "claim" /\ claim.started = att[a].started /\ claim.owned = att[a].owned
      BY <1>1 DEF Frame
    <2>2. Quiet(a, claim)
      BY ZenonT(60), <1>3, <1>5, <2>1, EarlyQuiet DEF ClaimPcs
    <2>3. QED
      BY <1>2, <1>5, <2>2, QuietKeeps DEF QuietMove
  <1>6. QED
    BY Zenon, <1>4, <1>5 DEF Begin

(* The second transaction of a store call keeps the tables.                *)
LEMMA RereadTables ==
    ASSUME ExecutorInv, NEW a \in Attempts, Reread(a)
    PROVE  TablesKept
  <1>1. row \in [Keys -> Status] /\ Presents[a] \in Keys
    BY DEF ExecutorInv, TypeOK
  <1>2. /\ row' \in [Keys -> Status]
        /\ \A k \in Keys : row[k] = "consumed" => row'[k] = "consumed"
    BY <1>1, RowsKept DEF Reread
  <1>3. QED
    BY <1>2 DEF ExecutorInv, TypeOK, Reread, TablesKept

LEMMA ClaimReplayKeeps ==
    ASSUME ExecutorInv, NEW a \in Attempts, ClaimReplay(a)
    PROVE  ExecutorInv'
  <1>1. TypeOK /\ att[a] \in Frame /\ att[a].pc = "claim" /\ row \in [Keys -> Status]
    BY Zenon DEF ExecutorInv, TypeOK, ClaimReplay, At
  <1>2. TablesKept
    <2>1. /\ row' \in [Keys -> Status]
          /\ \A k \in Keys : row[k] = "consumed" => row'[k] = "consumed"
      BY <1>1, RowsKept DEF ClaimReplay
    <2>2. QED
      BY Zenon, <1>1, <2>1 DEF ClaimReplay, TypeOK, TablesKept
  <1>3. /\ ~ReplayOn => Quiet(a, To(a, "lookup"))
        /\ Quiet(a, To(a, "claimRead"))
        /\ Quiet(a, To(a, "claimLost"))
    <2>1. \A pc \in {"lookup", "claimRead", "claimLost"} :
            /\ To(a, pc) \in Frame
            /\ To(a, pc).pc = pc
            /\ To(a, pc).started = att[a].started
            /\ To(a, pc).owned = att[a].owned
      BY <1>1, JumpFields DEF Pcs, ClaimPcs, MainPcs
    <2>2. EffectOf[Presents[a]] # None => UseEffects
      BY Zenon, <1>1 DEF ExecutorInv, EffectInv, ClaimPcs
    <2>3. QED
      BY Zenon, <2>1, <2>2, EarlyQuiet DEF ClaimPcs, FailClosed
  <1>4. QED
    BY Zenon, <1>2, <1>3, QuietKeeps DEF ClaimReplay, QuietMove

LEMMA ClaimRereadKeeps ==
    ASSUME ExecutorInv, NEW a \in Attempts, ClaimReread(a)
    PROVE  ExecutorInv'
  <1> DEFINE g == [att[a] EXCEPT !.pc = "lookup", !.held = TRUE]
  <1>1. att[a] \in Frame /\ att[a].pc = "claimRead"
    BY DEF ExecutorInv, TypeOK, ClaimReread, At
  <1>2. g \in Frame /\ g.pc = "lookup" /\ g.held /\ g.started = att[a].started
        /\ g.owned = att[a].owned
    BY ZenonT(60), <1>1 DEF Frame, Pcs, MainPcs
  <1>3. Quiet(a, g)
    <2>1. EffectOf[Presents[a]] # None => UseEffects
      BY Zenon, <1>1 DEF ExecutorInv, EffectInv, ClaimPcs
    <2>2. QED
      BY ZenonT(60), <1>2, <2>1, EarlyQuiet
  <1>4. TablesKept
    BY Zenon, RereadTables DEF ClaimReread
  <1>5. QED
    BY Zenon, <1>3, <1>4, QuietKeeps DEF ClaimReread, QuietMove

LEMMA DuplicateReplayKeeps ==
    ASSUME ExecutorInv, NEW a \in Attempts, DuplicateReplay(a)
    PROVE  ExecutorInv'
    BY Zenon, RereadTables, JumpQuiet, QuietKeeps DEF DuplicateReplay, QuietMove

(* mark_consumed before the handler is where an attempt secures its proof: *)
(* the row was claimed, so nobody had secured it.                          *)
LEMMA SecureKeeps ==
    ASSUME ExecutorInv, NEW a \in Attempts, At(a, "consume"), att[a].held,
           Consumable(row, Presents[a]), row' = Consumed(row, Presents[a]),
           Move(a, To(a, "consumeRead")), UNCHANGED <<escrow, dispatched, idem>>
    PROVE  ExecutorInv'
  <1> DEFINE k == Presents[a]
  <1>1. TypeOK /\ att[a] \in Frame /\ att[a].pc = "consume"
    BY Zenon DEF ExecutorInv, TypeOK, At
  <1>2. To(a, "consumeRead") \in Frame
    BY Zenon, <1>1, JumpTyped DEF Pcs, ConsumePcs
  <1>3. /\ att' \in [Attempts -> Frame]
        /\ att'[a] = To(a, "consumeRead")
        /\ \A b \in Attempts \ {a} : att'[b] = att[b]
        /\ clock' = clock
    BY Zenon, <1>1, <1>2, MoveTyped
  <1>4. /\ att'[a].pc = "consumeRead" /\ att'[a].started = att[a].started
        /\ att'[a].owned = att[a].owned
    BY <1>1, <1>3 DEF To, Frame
  <1>5. TypeOK'
    BY ZenonT(60), <1>1, <1>3, RowsKept DEF TypeOK
  <1>6. ReplayInv'
    <2>1. CASE FailClosed
      <3>1. row[k] # "consumed"
        BY DEF Consumable
      <3>2. \A b \in Attempts : Secured(b) => Presents[b] # k
        BY Zenon, <2>1, <3>1 DEF ExecutorInv, ReplayInv
      <3>3. \A b \in Attempts \ {a} : Secured(b)' => Secured(b)
        BY Zenon, <1>3 DEF Secured
      <3>4. \A b \in Attempts : Secured(b)' => row'[Presents[b]] = "consumed"
        BY ZenonT(60), <1>1, <2>1, <3>3 DEF ExecutorInv, ReplayInv, TypeOK, Consumed
      <3>5. \A b, c \in Attempts :
              Secured(b)' /\ Secured(c)' /\ Presents[b] = Presents[c] => b = c
        BY ZenonT(60), <2>1, <3>2, <3>3 DEF ExecutorInv, ReplayInv
      <3>6. \A b \in Attempts : att'[b].pc \in ClaimantPcs => att'[b].held
        BY ZenonT(60), <1>3, <1>4, <2>1 DEF ExecutorInv, ReplayInv, ClaimantPcs
      <3>7. QED
        BY <3>4, <3>5, <3>6 DEF ReplayInv, ClaimantPcs
    <2>2. QED
      BY <2>1 DEF ReplayInv, FailClosed
  <1>7. EscrowInv'
    <2>1. \A b \in Attempts : Entitled(b)' => Entitled(b)
      BY ZenonT(60), <1>1, <1>3, <1>4 DEF Entitled, ConsumePcs
    <2>2. QED
      BY ZenonT(60), <2>1 DEF ExecutorInv, EscrowInv
  <1>8. EffectInv'
    BY ZenonT(60), <1>1, <1>3, <1>4 DEF ExecutorInv, EffectInv, ClaimPcs, ConsumePcs
  <1>9. QED
    BY Zenon, <1>5, <1>6, <1>7, <1>8 DEF ExecutorInv

LEMMA MarkConsumedKeeps ==
    ASSUME ExecutorInv, NEW a \in Attempts, NEW site \in {"spend", "consume", "burn"},
           MarkConsumed(a, site)
    PROVE  ExecutorInv'
  <1> DEFINE k == Presents[a]
  <1>1. TypeOK /\ att[a].pc = site /\ row \in [Keys -> Status]
    BY ZenonT(60) DEF ExecutorInv, TypeOK, MarkConsumed, At
  <1>2. TablesKept
    <2>1. /\ row' \in [Keys -> Status]
          /\ \A j \in Keys : row[j] = "consumed" => row'[j] = "consumed"
      BY <1>1 DEF MarkConsumed, Consumed, Status
    <2>2. QED
      BY ZenonT(60), <1>1, <2>1 DEF MarkConsumed, TypeOK, TablesKept
  <1>3. CASE ~att[a].held /\ Move(a, To(a, AfterMark[site]))
    <2>1. CASE site = "consume"
      <3>1. "handler" \in Pcs /\ AfterMark[site] = "handler"
        BY <2>1 DEF Pcs, MainPcs, AfterMark
      <3>2. ~FailClosed
        BY <1>1, <1>3, <2>1 DEF ExecutorInv, ReplayInv
      <3>3. /\ To(a, "handler") \in Frame
            /\ To(a, "handler").pc = "handler"
            /\ To(a, "handler").started = att[a].started
            /\ To(a, "handler").owned = att[a].owned
        BY ZenonT(60), <1>1, <3>1, JumpFields
      <3>4. Quiet(a, To(a, "handler"))
        BY Zenon, <1>1, <2>1, <3>2, <3>3
        DEF Quiet, ClaimPcs, ConsumePcs, ClaimantPcs, EntitledFrame, Entitled, OwnerFrame,
            ExecutorInv, EffectInv
      <3>5. QED
        BY <1>2, <1>3, <3>1, <3>4, QuietKeeps DEF QuietMove
    <2>2. CASE site # "consume"
      <3>1. AfterMark[site] \in Pcs \ Guarded
        BY SMTT(60), <2>2 DEF AfterMark, Pcs, MainPcs, ExceptPcs, Guarded, ClaimPcs, ConsumePcs
      <3>2. QED
        BY Zenon, <1>2, <1>3, <3>1, JumpQuiet, QuietKeeps DEF QuietMove
    <2>3. QED
      BY <2>1, <2>2
  <1>4. CASE /\ att[a].held /\ Consumable(row, k)
             /\ row' = Consumed(row, k)
             /\ Move(a, To(a, ReadOf[site]))
    <2>1. CASE site = "consume"
      BY Zenon, <1>4, <2>1, SecureKeeps DEF MarkConsumed, ReadOf
    <2>2. CASE site # "consume"
      <3>1. ReadOf[site] \in Pcs \ Guarded
        BY <2>2 DEF ReadOf, Pcs, SpendPcs, BurnPcs, Guarded, ClaimPcs, ConsumePcs
      <3>2. QED
        BY Zenon, <1>2, <1>4, <3>1, JumpQuiet, QuietKeeps DEF QuietMove
    <2>3. QED
      BY <2>1, <2>2
  <1>5. CASE Move(a, To(a, LostOf[site]))
    <2>1. CASE site = "consume"
      <3>1. "consumeLost" \in Pcs /\ LostOf[site] = "consumeLost"
        BY <2>1 DEF Pcs, ConsumePcs, LostOf
      <3>2. /\ To(a, "consumeLost") \in Frame
            /\ To(a, "consumeLost").pc = "consumeLost"
            /\ To(a, "consumeLost").started = att[a].started
            /\ To(a, "consumeLost").owned = att[a].owned
        BY ZenonT(60), <1>1, <3>1, JumpFields
      <3>3. Quiet(a, To(a, "consumeLost"))
        BY <1>1, <2>1, <3>2
        DEF Quiet, ClaimPcs, ConsumePcs, ClaimantPcs, SecuredFrame, Secured, EntitledFrame,
            Entitled, OwnerFrame, ExecutorInv, EffectInv
      <3>4. QED
        BY Zenon, <1>2, <1>5, <3>1, <3>3, QuietKeeps DEF QuietMove
    <2>2. CASE site # "consume"
      <3>1. LostOf[site] \in Pcs \ Guarded
        BY <2>2 DEF LostOf, Pcs, SpendPcs, BurnPcs, Guarded, ClaimPcs, ConsumePcs
      <3>2. QED
        BY Zenon, <1>2, <1>5, <3>1, JumpQuiet, QuietKeeps DEF QuietMove
    <2>3. QED
      BY <2>1, <2>2
  <1>6. QED
    BY ZenonT(60), <1>3, <1>4, <1>5 DEF MarkConsumed

LEMMA MarkRereadKeeps ==
    ASSUME ExecutorInv, NEW a \in Attempts, NEW site \in {"spend", "consume", "burn"},
           MarkReread(a, site)
    PROVE  ExecutorInv'
  <1> DEFINE g == [att[a] EXCEPT !.pc = AfterMark[site], !.burnt = TRUE]
  <1>1. att[a] \in Frame /\ att[a].pc = ReadOf[site]
    BY Zenon DEF ExecutorInv, TypeOK, MarkReread, At
  <1>2. AfterMark[site] \in Pcs
    BY DEF AfterMark, Pcs, MainPcs, ExceptPcs
  <1>3. g \in Frame /\ g.pc = AfterMark[site] /\ g.started = att[a].started
        /\ g.owned = att[a].owned
    BY ZenonT(60), <1>1, <1>2 DEF Frame
  <1>4. CASE site = "consume"
    <2>1. att[a].pc = "consumeRead" /\ g.pc = "handler"
      BY ZenonT(60), <1>1, <1>3, <1>4 DEF ReadOf, AfterMark
    <2>2. Quiet(a, g)
      <3> HIDE DEF g
      <3> QED
        BY ZenonT(60), <1>3, <2>1
        DEF Quiet, ClaimPcs, ConsumePcs, ClaimantPcs, SecuredFrame, Secured, EntitledFrame,
            Entitled, OwnerFrame, ExecutorInv, EffectInv
    <2>3. QED
      BY <2>2, RereadTables, QuietKeeps DEF MarkReread, QuietMove
  <1>5. CASE site # "consume"
    <2>1. AfterMark[site] \notin Guarded
      BY <1>5 DEF AfterMark, Guarded, ClaimPcs, ConsumePcs
    <2>2. Quiet(a, g)
      BY ZenonT(60), <1>3, <2>1, OutsideQuiet
    <2>3. QED
      BY <2>2, RereadTables, QuietKeeps DEF MarkReread, QuietMove
  <1>6. QED
    BY <1>4, <1>5

LEMMA MarkInvalidKeeps ==
    ASSUME ExecutorInv, NEW a \in Attempts, NEW site \in {"spend", "consume", "burn"},
           MarkInvalid(a, site)
    PROVE  ExecutorInv'
  <1>1. Quiet(a, To(a, "refusal")) /\ Quiet(a, Refuse(a, "rejected"))
    BY Zenon, JumpQuiet DEF Pcs, ExceptPcs, Guarded, ClaimPcs, ConsumePcs
  <1>2. QED
    BY Zenon, <1>1, RereadTables, QuietKeeps DEF MarkInvalid, QuietMove

(* A failing store lets an attempt proceed only in fail-open mode, and     *)
(* then from the consume to the handler, never past the escrow.            *)
LEMMA StoreFailsKeeps ==
    ASSUME ExecutorInv, NEW a \in Attempts, StoreFails(a)
    PROVE  ExecutorInv'
  <1>1. TypeOK /\ TablesKept
    BY ZenonT(60), StoresKept DEF ExecutorInv, StoreFails
  <1>2. \A pc \in {"lookup", "priorReceipt", "handler", "refusal"} :
          /\ To(a, pc) \in Frame
          /\ To(a, pc).pc = pc
          /\ To(a, pc).started = att[a].started
          /\ To(a, pc).owned = att[a].owned
    BY <1>1, JumpFields DEF Pcs, MainPcs, ExceptPcs
  <1>3. CASE Move(a, Refuse(a, "unavailable"))
    BY <1>1, <1>3, JumpQuiet, QuietKeeps DEF QuietMove
  <1>4. CASE att[a].pc \in ClaimPcs /\ FailOpen /\ Move(a, To(a, "lookup"))
    <2>1. EffectOf[Presents[a]] # None => UseEffects
      BY ZenonT(60), <1>4 DEF ExecutorInv, EffectInv
    <2>2. Quiet(a, To(a, "lookup"))
      BY <1>2, <1>4, <2>1, EarlyQuiet DEF FailClosed
    <2>3. QED
      BY ZenonT(60), <1>1, <1>4, <2>2, QuietKeeps DEF QuietMove
  <1>5. CASE att[a].pc \in ConsumePcs /\ FailOpen /\ Move(a, To(a, "handler"))
    <2>1. Quiet(a, To(a, "handler"))
      BY <1>2, <1>5
      DEF Quiet, ClaimPcs, ConsumePcs, ClaimantPcs, EntitledFrame, Entitled, OwnerFrame,
          ExecutorInv, EffectInv, FailClosed
    <2>2. QED
      BY ZenonT(60), <1>1, <1>5, <2>1, QuietKeeps DEF QuietMove
  <1>6. CASE Move(a, To(a, "priorReceipt")) \/ Move(a, To(a, "refusal"))
    <2>1. {"priorReceipt", "refusal"} \subseteq Pcs \ Guarded
      BY DEF Pcs, MainPcs, ExceptPcs, Guarded, ClaimPcs, ConsumePcs
    <2>2. Quiet(a, To(a, "priorReceipt")) /\ Quiet(a, To(a, "refusal"))
      BY ZenonT(60), <2>1, JumpQuiet
    <2>3. QED
      BY <1>1, <1>6, <2>2, QuietKeeps DEF QuietMove
  <1>7. QED
    BY <1>3, <1>4, <1>5, <1>6
    DEF StoreFails, ClaimPcs, SpendPcs, ConsumePcs, BurnPcs, UnclaimPcs

LEMMA CheckIdempotencyKeeps ==
    ASSUME ExecutorInv, NEW a \in Attempts, CheckIdempotency(a)
    PROVE  ExecutorInv'
  <1>1. TypeOK /\ TablesKept /\ att[a].pc = "lookup"
    BY ZenonT(60), StoresKept DEF ExecutorInv, CheckIdempotency, At
  <1>2. /\ To(a, "escrow") \in Frame
        /\ To(a, "escrow").pc = "escrow"
        /\ To(a, "escrow").held = att[a].held
        /\ To(a, "escrow").started = att[a].started
        /\ To(a, "escrow").owned = att[a].owned
    BY ZenonT(60), <1>1, JumpFields DEF Pcs, MainPcs
  <1>3. /\ EffectOf[Presents[a]] # None => UseEffects
        /\ FailClosed => att[a].held
    BY ZenonT(60), <1>1 DEF ExecutorInv, EffectInv, ReplayInv
  <1>4. Quiet(a, To(a, "escrow"))
    BY <1>2, <1>3, EarlyQuiet
  <1>5. Quiet(a, To(a, "spend")) /\ Quiet(a, Refuse(a, "rejected"))
    BY Zenon, JumpQuiet DEF Pcs, SpendPcs, Guarded, ClaimPcs, ConsumePcs
  <1>6. \/ Move(a, To(a, "escrow"))
        \/ Move(a, To(a, "spend"))
        \/ Move(a, Refuse(a, "rejected"))
    BY DEF CheckIdempotency
  <1>7. QED
    BY <1>1, <1>4, <1>5, <1>6, QuietKeeps DEF QuietMove

(* The escrow entitles one attempt: the record was open, so nobody was     *)
(* entitled by it before.                                                  *)
LEMMA EntitleKeeps ==
    ASSUME ExecutorInv, NEW a \in Attempts, At(a, "escrow"), UseEscrow,
           EscrowOf[Presents[a]] \in EscrowIds,
           EscrowConsumable(escrow, EscrowOf[Presents[a]], Presents[a], att[a].now),
           escrow' = EscrowConsumed(escrow, EscrowOf[Presents[a]]),
           Move(a, To(a, "effect")), UNCHANGED <<row, dispatched, idem>>
    PROVE  ExecutorInv'
  <1> DEFINE e == EscrowOf[Presents[a]]
  <1>1. TypeOK /\ att[a].pc = "escrow"
    BY ZenonT(60) DEF ExecutorInv, At
  <1>2. /\ To(a, "effect") \in Frame
        /\ To(a, "effect").pc = "effect"
        /\ To(a, "effect").held = att[a].held
        /\ To(a, "effect").started = att[a].started
        /\ To(a, "effect").owned = att[a].owned
    BY ZenonT(60), <1>1, JumpFields DEF Pcs, MainPcs
  <1>3. /\ att' \in [Attempts -> Frame]
        /\ att'[a] = To(a, "effect")
        /\ \A b \in Attempts \ {a} : att'[b] = att[b]
        /\ clock' = clock
    BY <1>1, <1>2, MoveTyped
  <1>4. TypeOK'
    BY ZenonT(60), <1>1, <1>3 DEF TypeOK, EscrowConsumed, EscrowState
  <1>5. escrow[e] \notin {"consumed", "revoked"}
    BY ZenonT(60) DEF EscrowConsumable, EscrowClosed
  <1>6. \A b \in Attempts : Entitled(b) => Presents[b] # Presents[a]
    BY ZenonT(60), <1>5 DEF ExecutorInv, EscrowInv
  <1>7. \A b \in Attempts \ {a} : Entitled(b)' => Entitled(b)
    BY ZenonT(60), <1>3 DEF Entitled
  <1>8. EscrowInv'
    <2>1. \A b \in Attempts : Entitled(b)' =>
            /\ EscrowOf[Presents[b]] \in EscrowIds
            /\ escrow'[EscrowOf[Presents[b]]] \in {"consumed", "revoked"}
      BY ZenonT(60), <1>1, <1>7 DEF ExecutorInv, EscrowInv, TypeOK, EscrowConsumed
    <2>2. QED
      BY ZenonT(60), <1>6, <1>7, <2>1 DEF ExecutorInv, EscrowInv
  <1>9. ReplayInv'
    <2>1. \A b \in Attempts : Secured(b)' => Secured(b)
      BY ZenonT(60), <1>2, <1>3 DEF Secured
    <2>2. FailClosed => \A b \in Attempts : att'[b].pc \in ClaimantPcs => att'[b].held
      BY ZenonT(60), <1>1, <1>2, <1>3 DEF ExecutorInv, ReplayInv, ClaimantPcs
    <2>3. QED
      BY ZenonT(60), <2>1, <2>2 DEF ExecutorInv, ReplayInv, ClaimantPcs, FailClosed
  <1>10. EffectInv'
    BY ZenonT(60), <1>1, <1>2, <1>3 DEF ExecutorInv, EffectInv, ClaimPcs, ConsumePcs
  <1>11. QED
    BY ZenonT(60), <1>4, <1>8, <1>9, <1>10 DEF ExecutorInv

LEMMA ConsumeEscrowKeeps ==
    ASSUME ExecutorInv, NEW a \in Attempts, ConsumeEscrow(a)
    PROVE  ExecutorInv'
  <1> DEFINE k == Presents[a]
             e == EscrowOf[k]
             ok == e # None /\ EscrowConsumable(escrow, e, k, att[a].now)
  <1>1. TypeOK /\ att[a].pc = "escrow" /\ UNCHANGED <<row, dispatched, idem>>
    BY ZenonT(60) DEF ExecutorInv, ConsumeEscrow, At
  <1>2. e # None => e \in EscrowIds
    OBVIOUS
  <1>3. ASSUME \/ escrow' = escrow
               \/ e \in EscrowIds /\ escrow' = EscrowConsumed(escrow, e)
               \/ e \in EscrowIds /\ escrow' = EscrowRefused(escrow, e, att[a].now)
        PROVE  TablesKept
    <2>1. escrow' \in [EscrowIds -> EscrowState]
      BY ZenonT(60), <1>1, <1>3 DEF TypeOK, EscrowConsumed, EscrowRefused, EscrowState
    <2>2. \A x \in EscrowIds : escrow[x] \in {"consumed", "revoked"}
                                 => escrow'[x] \in {"consumed", "revoked"}
      BY <1>1, <1>3 DEF TypeOK, EscrowConsumed, EscrowRefused, EscrowClosed, EscrowState
    <2>3. QED
      BY <1>1, <2>1, <2>2 DEF TypeOK, TablesKept
  <1>4. CASE ~UseEscrow /\ escrow' = escrow /\ Move(a, To(a, "effect"))
    <2>1. /\ To(a, "effect") \in Frame
          /\ To(a, "effect").pc = "effect"
          /\ To(a, "effect").held = att[a].held
          /\ To(a, "effect").started = att[a].started
          /\ To(a, "effect").owned = att[a].owned
      BY <1>1, JumpFields DEF Pcs, MainPcs
    <2>2. Quiet(a, To(a, "effect"))
      BY ZenonT(60), <1>1, <1>4, <2>1
      DEF Quiet, ClaimPcs, ConsumePcs, ClaimantPcs, SecuredFrame, Secured, OwnerFrame,
          ExecutorInv, EffectInv, ReplayInv
    <2>3. QED
      BY ZenonT(60), <1>3, <1>4, <2>2, QuietKeeps DEF QuietMove
  <1>5. CASE /\ UseEscrow /\ ok /\ escrow' = EscrowConsumed(escrow, e)
             /\ Move(a, To(a, "effect"))
    BY ZenonT(60), <1>1, <1>2, <1>5, EntitleKeeps DEF At
  <1>6. CASE /\ UseEscrow /\ ok /\ escrow' = EscrowConsumed(escrow, e)
             /\ Move(a, Abort(a))
    BY Zenon, <1>2, <1>3, <1>6, JumpQuiet, QuietKeeps DEF QuietMove
  <1>7. CASE /\ escrow' = IF e = None THEN escrow ELSE EscrowRefused(escrow, e, att[a].now)
             /\ Move(a, Refuse(a, "rejected"))
    <2>1. TablesKept
      BY Zenon, <1>2, <1>3, <1>7
    <2>2. QED
      BY Zenon, <1>7, <2>1, JumpQuiet, QuietKeeps DEF QuietMove
  <1>8. CASE escrow' = escrow /\ Move(a, Abort(a))
    BY <1>3, <1>8, JumpQuiet, QuietKeeps DEF QuietMove
  <1>9. QED
    BY <1>4, <1>5, <1>6, <1>7, <1>8 DEF ConsumeEscrow

(* The ledger dispatches an effect to one owner: it was not dispatched, so *)
(* nobody owned it before.                                                 *)
LEMMA OwnKeeps ==
    ASSUME ExecutorInv, NEW a \in Attempts, At(a, "effect"),
           EffectOf[Presents[a]] \in Effects, EffectOf[Presents[a]] \notin dispatched,
           dispatched' = dispatched \cup {EffectOf[Presents[a]]},
           Move(a, [att[a] EXCEPT !.pc = "acquire", !.owned = TRUE]),
           UNCHANGED <<row, escrow, idem>>
    PROVE  ExecutorInv'
  <1> DEFINE g == [att[a] EXCEPT !.pc = "acquire", !.owned = TRUE]
  <1>1. TypeOK /\ att[a] \in Frame /\ att[a].pc = "effect"
    BY DEF ExecutorInv, TypeOK, At
  <1>2. /\ g \in Frame /\ g.pc = "acquire" /\ g.owned
        /\ g.held = att[a].held /\ g.started = att[a].started
    BY ZenonT(60), <1>1 DEF Frame, Pcs, MainPcs
  <1>3. /\ att' \in [Attempts -> Frame]
        /\ att'[a] = g
        /\ \A b \in Attempts \ {a} : att'[b] = att[b]
        /\ clock' = clock
    BY Zenon, <1>1, <1>2, MoveTyped
  <1> HIDE DEF g
  <1>4. TypeOK'
    BY <1>1, <1>3 DEF TypeOK
  <1>5. \A b \in Attempts : (Secured(b)' => Secured(b)) /\ (Entitled(b)' => Entitled(b))
    BY <1>1, <1>2, <1>3 DEF Secured, Entitled
  <1>6. ReplayInv'
    <2>1. FailClosed => \A b \in Attempts : att'[b].pc \in ClaimantPcs => att'[b].held
      BY <1>1, <1>2, <1>3 DEF ExecutorInv, ReplayInv, ClaimantPcs
    <2>2. QED
      BY <1>5, <2>1 DEF ExecutorInv, ReplayInv, ClaimantPcs, FailClosed
  <1>7. EscrowInv'
    BY Zenon, <1>5 DEF ExecutorInv, EscrowInv
  <1>8. EffectInv'
    <2>1. \A b \in Attempts : att[b].owned => EffectOf[Presents[b]] # EffectOf[Presents[a]]
      BY Zenon DEF ExecutorInv, EffectInv
    <2>2. \A b \in Attempts : EffectOf[Presents[b]] # None =>
            /\ att'[b].pc \in ClaimPcs \cup {"lookup", "escrow", "effect"} => UseEffects
            /\ att'[b].pc \in {"acquire", "handler"} \cup ConsumePcs \/ att'[b].started
               => att'[b].owned
      <3>1. "acquire" \notin ClaimPcs \cup {"lookup", "escrow", "effect"}
        BY Zenon DEF ClaimPcs
      <3>2. QED
        BY <1>2, <1>3, <3>1 DEF ExecutorInv, EffectInv
    <2>3. \A b \in Attempts : att'[b].owned => EffectOf[Presents[b]] \in dispatched'
      BY Zenon, <1>3 DEF ExecutorInv, EffectInv
    <2>4. \A b, c \in Attempts : /\ att'[b].owned /\ att'[c].owned
                                 /\ EffectOf[Presents[b]] = EffectOf[Presents[c]]
                                 => b = c
      BY <1>3, <2>1 DEF ExecutorInv, EffectInv
    <2>5. QED
      BY Zenon, <2>2, <2>3, <2>4 DEF EffectInv
  <1>9. QED
    BY <1>4, <1>6, <1>7, <1>8 DEF ExecutorInv

LEMMA ClaimEffectKeeps ==
    ASSUME ExecutorInv, NEW a \in Attempts, ClaimEffect(a)
    PROVE  ExecutorInv'
  <1> DEFINE f == EffectOf[Presents[a]]
             free == f # None /\ f \notin dispatched
  <1>1. /\ TypeOK /\ att[a].pc = "effect" /\ UNCHANGED <<row, escrow, idem>>
        /\ f # None => f \in Effects
    BY Zenon DEF ExecutorInv, ClaimEffect, At
  <1>2. ASSUME dispatched' = dispatched \/ (f \in Effects /\ dispatched' = dispatched \cup {f})
        PROVE  TablesKept
    BY <1>1, <1>2 DEF TypeOK, TablesKept
  <1>3. CASE UseEffects /\ Move(a, Refuse(a, "rejected"))
    <2>1. TablesKept
      BY <1>1, <1>2 DEF ClaimEffect
    <2>2. QED
      BY <1>3, <2>1, JumpQuiet, QuietKeeps DEF QuietMove
  <1>4. CASE ~UseEffects /\ dispatched' = dispatched /\ Move(a, To(a, "acquire"))
    <2>1. /\ To(a, "acquire") \in Frame
          /\ To(a, "acquire").pc = "acquire"
          /\ To(a, "acquire").held = att[a].held
          /\ To(a, "acquire").started = att[a].started
          /\ To(a, "acquire").owned = att[a].owned
      BY ZenonT(60), <1>1, JumpFields DEF Pcs, MainPcs
    <2>2. f = None
      BY ZenonT(60), <1>1, <1>4 DEF ExecutorInv, EffectInv
    <2>3. Quiet(a, To(a, "acquire"))
      BY ZenonT(60), <1>1, <2>1, <2>2
      DEF Quiet, ConsumePcs, ClaimantPcs, SecuredFrame, Secured, EntitledFrame, Entitled,
          ExecutorInv, ReplayInv
    <2>4. QED
      BY ZenonT(60), <1>2, <1>4, <2>3, QuietKeeps DEF QuietMove
  <1>5. CASE /\ UseEffects /\ free /\ dispatched' = dispatched \cup {f}
             /\ Move(a, [att[a] EXCEPT !.pc = "acquire", !.owned = TRUE])
    BY ZenonT(60), <1>1, <1>5, OwnKeeps DEF At
  <1>6. QED
    BY Zenon, <1>3, <1>4, <1>5 DEF ClaimEffect

LEMMA AcquireCredentialKeeps ==
    ASSUME ExecutorInv, NEW a \in Attempts, AcquireCredential(a)
    PROVE  ExecutorInv'
  <1> DEFINE g == [att[a] EXCEPT !.pc = "consume", !.cred = "held"]
  <1>1. TypeOK /\ TablesKept /\ att[a] \in Frame /\ att[a].pc = "acquire"
    BY StoresKept DEF ExecutorInv, TypeOK, AcquireCredential, At
  <1>2. /\ g \in Frame /\ g.pc = "consume" /\ g.held = att[a].held
        /\ g.started = att[a].started /\ g.owned = att[a].owned
    BY ZenonT(60), <1>1 DEF Frame, Pcs, ConsumePcs
  <1>3. Quiet(a, g)
    <2> HIDE DEF g
    <2>1. FailClosed => att[a].held
      BY ZenonT(60), <1>1 DEF ExecutorInv, ReplayInv
    <2>2. EffectOf[Presents[a]] # None => att[a].owned
      BY <1>1 DEF ExecutorInv, EffectInv
    <2>3. QED
      BY ZenonT(60), <1>1, <1>2, <2>1, <2>2
      DEF Quiet, ClaimPcs, ConsumePcs, ClaimantPcs, SecuredFrame, Secured, EntitledFrame,
          Entitled, OwnerFrame
  <1>4. Move(a, g) \/ Move(a, Refuse(a, "rejected")) \/ Move(a, Abort(a))
    BY DEF AcquireCredential
  <1>5. QED
    BY <1>1, <1>3, <1>4, JumpQuiet, QuietKeeps DEF QuietMove

(* At the call of the handler the attempt has everything already.          *)
LEMMA CallHandlerKeeps ==
    ASSUME ExecutorInv, NEW a \in Attempts, CallHandler(a)
    PROVE  ExecutorInv'
  <1> DEFINE g == [att[a] EXCEPT !.pc = "running", !.started = TRUE]
  <1>1. TypeOK /\ TablesKept /\ att[a] \in Frame /\ att[a].pc = "handler"
    BY StoresKept DEF ExecutorInv, TypeOK, CallHandler, At
  <1>2. g \in Frame /\ g.pc = "running" /\ g.started /\ g.owned = att[a].owned
    BY ZenonT(60), <1>1 DEF Frame, Pcs, MainPcs
  <1>3. Quiet(a, g)
    <2> HIDE DEF g
    <2>1. EffectOf[Presents[a]] # None => att[a].owned
      BY ZenonT(60), <1>1 DEF ExecutorInv, EffectInv
    <2>2. QED
      BY ZenonT(60), <1>1, <1>2, <2>1
      DEF Quiet, ClaimPcs, ConsumePcs, ClaimantPcs, SecuredFrame, Secured, EntitledFrame,
          Entitled, OwnerFrame
  <1>4. QED
    BY <1>1, <1>3, QuietKeeps DEF CallHandler, QuietMove

-----------------------------------------------------------------------------
(* After the handler has started, and on every way out, a step can only    *)
(* take an attempt away from the guarded points.                           *)
AwayMove(a) == \E g \in Frame : /\ g.pc \notin Guarded
                                /\ g.started = att[a].started
                                /\ g.owned = att[a].owned
                                /\ Move(a, g)

LEMMA AwayKeeps ==
    ASSUME ExecutorInv, NEW a \in Attempts, AwayMove(a), TablesKept
    PROVE  ExecutorInv'
    BY OutsideQuiet, QuietKeeps DEF AwayMove, QuietMove

LEMMA LeaveMoves ==
    ASSUME ExecutorInv, NEW a \in Attempts
    PROVE  /\ \A pc \in Pcs \ Guarded : Move(a, To(a, pc)) => AwayMove(a)
           /\ \A code \in {"rejected", "unavailable", "unknown"} :
                Move(a, Refuse(a, code)) => AwayMove(a)
           /\ Move(a, Abort(a)) => AwayMove(a)
  <1>1. TypeOK /\ att[a] \in Frame
    BY Zenon DEF ExecutorInv, TypeOK
  <1>2. {"refuse", "abort"} \subseteq Pcs \ Guarded
    BY DEF Pcs, ExceptPcs, Guarded, ClaimPcs, ConsumePcs
  <1>3. \A pc \in Pcs \ Guarded : Move(a, To(a, pc)) => AwayMove(a)
    BY ZenonT(60), <1>1, JumpFields DEF AwayMove
  <1>4. ASSUME NEW code \in {"rejected", "unavailable", "unknown"}, Move(a, Refuse(a, code))
        PROVE  AwayMove(a)
    <2>1. Refuse(a, code) \in Frame
      BY <1>1, JumpTyped
    <2>2. /\ Refuse(a, code).pc = "refuse" /\ Refuse(a, code).started = att[a].started
          /\ Refuse(a, code).owned = att[a].owned
      BY Zenon, <1>1 DEF Refuse, Frame
    <2>3. QED
      BY <1>2, <1>4, <2>1, <2>2 DEF AwayMove
  <1>5. QED
    BY <1>2, <1>3, <1>4 DEF Abort

(* The points after the handler was entered, and the ends.                 *)
LEMMA AwayPcs ==
    {"running", "release", "receipt", "record", "priorReceipt", "refuse", "abort",
     "unclaim", "unclaimRead", "burn", "refusal", "refusedReceipt",
     "done", "raised", "crashed"} \subseteq Pcs \ Guarded
    BY DEF Pcs, MainPcs, ExceptPcs, UnclaimPcs, BurnPcs, Ended, Guarded, ClaimPcs, ConsumePcs

LEMMA HandlerStepKeeps ==
    ASSUME ExecutorInv, NEW a \in Attempts, HandlerStep(a)
    PROVE  ExecutorInv'
  <1>1. TypeOK /\ TablesKept /\ att[a] \in Frame
    BY Zenon, StoresKept
    DEF ExecutorInv, TypeOK, HandlerStep, CallHandler, SideEffect, HandlerReturns,
        HandlerUnconfirmed, HandlerRaises
  <1>2. CASE SideEffect(a)
    <2> DEFINE g == [att[a] EXCEPT !.acted = TRUE]
    <2>1. att[a].pc = "running"
      BY Zenon, <1>2 DEF SideEffect, At
    <2>2. g \in Frame /\ g.pc = "running" /\ g.started = att[a].started /\ g.owned = att[a].owned
      BY ZenonT(60), <1>1, <2>1 DEF Frame
    <2>3. AwayMove(a)
      BY ZenonT(60), <1>2, <2>2, AwayPcs DEF SideEffect, AwayMove
    <2>4. QED
      BY Zenon, <1>1, <2>3, AwayKeeps
  <1>3. CASE HandlerReturns(a)
    <2> DEFINE g == [att[a] EXCEPT !.pc = "release",
                         !.evidence = IF att[a].owned THEN "COMMITTED" ELSE @]
    <2>1. g \in Frame
      BY ZenonT(60), <1>1, AwayPcs DEF Frame
    <2>2. g.pc = "release" /\ g.started = att[a].started /\ g.owned = att[a].owned
      BY <1>1 DEF Frame
    <2>3. AwayMove(a)
      BY ZenonT(60), <1>3, <2>1, <2>2, AwayPcs DEF HandlerReturns, AwayMove
    <2>4. QED
      BY <1>1, <2>3, AwayKeeps
  <1>4. CASE HandlerUnconfirmed(a)
    <2> DEFINE g(code, ev) == [Refuse(a, code) EXCEPT !.evidence = ev]
    <2>1. ASSUME NEW code \in {"rejected", "unknown"},
                 NEW ev \in {"NOT_EXECUTED", "AMBIGUOUS"}, Move(a, g(code, ev))
          PROVE  AwayMove(a)
      <3>1. g(code, ev) \in Frame
        BY ZenonT(60), <1>1, AwayPcs DEF Frame, Refuse
      <3>2. /\ g(code, ev).pc = "refuse" /\ g(code, ev).started = att[a].started
            /\ g(code, ev).owned = att[a].owned
        BY <1>1 DEF Frame, Refuse
      <3>3. QED
        BY ZenonT(60), <2>1, <3>1, <3>2, AwayPcs DEF AwayMove
    <2>2. \/ Move(a, g("rejected", "NOT_EXECUTED"))
          \/ Move(a, g("unknown", "AMBIGUOUS"))
          \/ Move(a, Refuse(a, "unknown"))
      BY <1>4 DEF HandlerUnconfirmed
    <2>3. AwayMove(a)
      BY <2>1, <2>2, LeaveMoves
    <2>4. QED
      BY <1>1, <2>3, AwayKeeps
  <1>5. CASE HandlerRaises(a)
    BY Zenon, <1>1, <1>5, LeaveMoves, AwayKeeps DEF HandlerRaises
  <1>6. QED
    BY Zenon, <1>2, <1>3, <1>4, <1>5, CallHandlerKeeps DEF HandlerStep

(* Steps that write a receipt or a refusal, or give the credential back.   *)
LEMMA OutputKeeps ==
    ASSUME ExecutorInv, NEW a \in Attempts,
           \/ ReturnPrior(a) \/ ReleaseCredential(a) \/ WriteReceipt(a)
           \/ WriteRefusal(a) \/ WriteRefusedReceipt(a)
    PROVE  ExecutorInv'
  <1>1. TypeOK /\ TablesKept /\ att[a] \in Frame
    BY StoresKept DEF ExecutorInv, TypeOK, ReturnPrior, ReleaseCredential, WriteReceipt,
                      WriteRefusal, WriteRefusedReceipt
  <1> DEFINE g(pc, doc) == [att[a] EXCEPT !.pc = pc, !.wrote = @ \cup {doc}]
             returned == [att[a] EXCEPT !.pc = "receipt", !.cred = "released"]
  <1>2. ASSUME NEW pc \in {"done", "record", "refusedReceipt"},
               NEW doc \in {"executed", "prior", "refusal", "refused"}, Move(a, g(pc, doc))
        PROVE  AwayMove(a)
    <2>1. g(pc, doc) \in Frame
      BY ZenonT(60), <1>1, AwayPcs DEF Frame
    <2>2. g(pc, doc).pc = pc /\ g(pc, doc).started = att[a].started
          /\ g(pc, doc).owned = att[a].owned
      BY <1>1 DEF Frame
    <2>3. QED
      BY ZenonT(60), <1>2, <2>1, <2>2, AwayPcs DEF AwayMove
  <1>3. ASSUME Move(a, returned) PROVE AwayMove(a)
    <2>1. returned \in Frame /\ returned.pc = "receipt"
          /\ returned.started = att[a].started /\ returned.owned = att[a].owned
      BY ZenonT(60), <1>1, AwayPcs DEF Frame
    <2>2. QED
      BY ZenonT(60), <1>3, <2>1, AwayPcs DEF AwayMove
  <1>4. \/ Move(a, g("done", "prior")) \/ Move(a, returned)
        \/ Move(a, g("record", "executed")) \/ Move(a, g("refusedReceipt", "refusal"))
        \/ Move(a, g("done", "refused"))
        \/ Move(a, Abort(a)) \/ Move(a, Refuse(a, "rejected")) \/ Move(a, To(a, "raised"))
    BY DEF ReturnPrior, ReleaseCredential, WriteReceipt, WriteRefusal, WriteRefusedReceipt
  <1>5. AwayMove(a)
    BY <1>2, <1>3, <1>4, LeaveMoves, AwayPcs
  <1>6. QED
    BY Zenon, <1>1, <1>5, AwayKeeps

LEMMA RecordOperationKeeps ==
    ASSUME ExecutorInv, NEW a \in Attempts, RecordOperation(a)
    PROVE  ExecutorInv'
  <1> DEFINE k == Presents[a]
  <1>1. TypeOK /\ UNCHANGED <<row, escrow, dispatched>> /\ Operation[k] \in Operations \cup {None}
    BY ZenonT(60) DEF ExecutorInv, RecordOperation
  <1>2. idem' \in [Procs -> [Operations -> Hashes \cup {None}]]
    <2> DEFINE p == Host[a]
               o == Operation[k]
    <2>1. p \in Procs /\ ActionHash[k] \in Hashes /\ k \in Keys
          /\ idem \in [Procs -> [Operations -> Hashes \cup {None}]]
      BY <1>1 DEF TypeOK
    <2>2. CASE idem' = idem
      BY Zenon, <2>1, <2>2
    <2>3. CASE o \in Operations /\ idem' = [idem EXCEPT ![p][o] = ActionHash[k]]
      <3>1. [idem[p] EXCEPT ![o] = ActionHash[k]] \in [Operations -> Hashes \cup {None}]
        BY Zenon, <2>1, <2>3
      <3>2. idem' = [idem EXCEPT ![p] = [idem[p] EXCEPT ![o] = ActionHash[k]]]
        BY <2>1, <2>3
      <3>3. QED
        BY Zenon, <2>1, <3>1, <3>2
    <2>4. QED
      BY Zenon, <1>1, <2>2, <2>3 DEF RecordOperation, Idempotent
  <1>3. TablesKept
    BY ZenonT(60), <1>1, <1>2 DEF TypeOK, TablesKept
  <1>4. AwayMove(a)
    BY Zenon, LeaveMoves, AwayPcs DEF RecordOperation
  <1>5. QED
    BY Zenon, <1>3, <1>4, AwayKeeps

LEMMA CleanupKeeps ==
    ASSUME ExecutorInv, NEW a \in Attempts, Cleanup(a)
    PROVE  ExecutorInv'
  <1> DEFINE g(pc, code, cred) == [att[a] EXCEPT !.pc = pc, !.code = code, !.cred = cred]
  <1>1. TypeOK /\ TablesKept /\ att[a] \in Frame
    BY ZenonT(60), StoresKept DEF ExecutorInv, TypeOK, Cleanup
  <1>2. att[a].code \in {"none", "rejected", "unavailable", "unknown", "failed"}
        /\ att[a].cred \in {"none", "held", "released"}
    BY <1>1 DEF Frame
  <1> DEFINE next == CASE att[a].burnt \/ ~att[a].held -> "refusal"
                       [] At(a, "refuse")             -> "unclaim"
                       [] OTHER                       -> "burn"
             ambiguous == /\ att[a].owned /\ att[a].started
                          /\ At(a, "refuse") => att[a].evidence = "none"
             said == CASE ambiguous      -> "unknown"
                       [] At(a, "abort") -> "failed"
                       [] OTHER          -> att[a].code
  <1>3. PICK pc \in {"refusal", "unclaim", "burn"},
             code \in {"none", "rejected", "unavailable", "unknown", "failed"},
             cred \in {"none", "held", "released"} : Move(a, g(pc, code, cred))
    <2>1. next \in {"refusal", "unclaim", "burn"}
      OBVIOUS
    <2>2. said \in {"none", "rejected", "unavailable", "unknown", "failed"}
      BY <1>2
    <2>3. \E cred \in {"none", "held", "released"} : Move(a, g(next, said, cred))
      BY ZenonT(60), <1>2 DEF Cleanup
    <2> HIDE DEF next, said
    <2>4. QED
      BY ZenonT(60), <2>1, <2>2, <2>3
  <1>4. g(pc, code, cred) \in Frame
    BY ZenonT(60), <1>1, AwayPcs DEF Frame
  <1>5. /\ g(pc, code, cred).pc = pc /\ g(pc, code, cred).started = att[a].started
        /\ g(pc, code, cred).owned = att[a].owned
    BY <1>1 DEF Frame
  <1>6. AwayMove(a)
    BY ZenonT(60), <1>3, <1>4, <1>5, AwayPcs DEF AwayMove
  <1>7. QED
    BY <1>1, <1>6, AwayKeeps

LEMMA UnclaimKeeps ==
    ASSUME ExecutorInv, NEW a \in Attempts, Unclaim(a) \/ UnclaimReread(a)
    PROVE  ExecutorInv'
  <1>1. row \in [Keys -> Status] /\ Presents[a] \in Keys
    BY DEF ExecutorInv, TypeOK
  <1>2. TablesKept
    <2>1. CASE Unclaim(a)
      <3>1. /\ row' \in [Keys -> Status]
            /\ \A k \in Keys : row[k] = "consumed" => row'[k] = "consumed"
        BY <1>1, <2>1 DEF Unclaim, Releasable, Released, Status
      <3>2. QED
        BY ZenonT(60), <2>1, <3>1 DEF Unclaim, ExecutorInv, TypeOK, TablesKept
    <2>2. CASE UnclaimReread(a)
      BY ZenonT(60), <2>2, RereadTables DEF UnclaimReread
    <2>3. QED
      BY ZenonT(60), <2>1, <2>2
  <1>3. AwayMove(a)
    BY LeaveMoves, AwayPcs DEF Unclaim, UnclaimReread
  <1>4. QED
    BY Zenon, <1>2, <1>3, AwayKeeps

LEMMA StepKeeps ==
    ASSUME ExecutorInv, NEW a \in Attempts, Step(a)
    PROVE  ExecutorInv'
  <1>1. CASE ReplayStep(a)
    BY SMTT(60), <1>1, ClaimReplayKeeps, ClaimRereadKeeps, DuplicateReplayKeeps, MarkConsumedKeeps,
       MarkRereadKeeps, MarkInvalidKeeps, UnclaimKeeps, StoreFailsKeeps DEF ReplayStep
  <1>2. CASE HandlerStep(a)
    BY ZenonT(60), <1>2, HandlerStepKeeps
  <1>3. CASE LocalStep(a)
    BY <1>3, CheckIdempotencyKeeps, ConsumeEscrowKeeps, ClaimEffectKeeps,
       AcquireCredentialKeeps, RecordOperationKeeps, CleanupKeeps, OutputKeeps DEF LocalStep
  <1>4. QED
    BY ZenonT(60), <1>1, <1>2, <1>3 DEF Step
-----------------------------------------------------------------------------
(* A crash takes attempts away from the guarded points too, several at     *)
(* once.                                                                   *)
LEMMA CrashKeeps ==
    ASSUME ExecutorInv, NEW p \in Procs, Crash(p)
    PROVE  ExecutorInv'
  <1>1. TypeOK /\ UNCHANGED <<row, escrow, dispatched, clock>>
    BY ZenonT(60) DEF ExecutorInv, Crash
  <1>2. \A a \in Attempts :
          /\ att'[a] \in Frame
          /\ att'[a].started = att[a].started
          /\ att'[a].owned = att[a].owned
          /\ att'[a] = att[a] \/ att'[a].pc = "crashed"
    <2> TAKE a \in Attempts
    <2>1. att[a] \in Frame /\ "crashed" \in Pcs
      BY ZenonT(60), <1>1, AwayPcs DEF TypeOK
    <2>2. /\ To(a, "crashed") \in Frame /\ To(a, "crashed").pc = "crashed"
          /\ To(a, "crashed").started = att[a].started
          /\ To(a, "crashed").owned = att[a].owned
      BY ZenonT(60), <1>1, <2>1, JumpFields
    <2>3. att'[a] = att[a] \/ att'[a] = To(a, "crashed")
      BY ZenonT(60) DEF Crash
    <2>4. QED
      BY ZenonT(60), <2>1, <2>2, <2>3
  <1>3. idem' \in [Procs -> [Operations -> Hashes \cup {None}]]
    BY ZenonT(60), <1>1 DEF Crash, TypeOK
  <1>4. att' \in [Attempts -> Frame]
    BY Zenon, <1>2 DEF Crash
  <1>5. TypeOK'
    BY Zenon, <1>1, <1>3, <1>4 DEF TypeOK
  <1>6. "crashed" \notin Guarded
    BY ZenonT(60), AwayPcs
  <1>7. \A a \in Attempts : (Secured(a)' => Secured(a)) /\ (Entitled(a)' => Entitled(a))
    BY ZenonT(60), <1>2, <1>6 DEF Secured, Entitled, Guarded, ConsumePcs
  <1>8. ReplayInv'
    <2>1. FailClosed => \A a \in Attempts : att'[a].pc \in ClaimantPcs => att'[a].held
      BY ZenonT(60), <1>2, <1>6 DEF ExecutorInv, ReplayInv, ClaimantPcs, Guarded
    <2>2. QED
      BY ZenonT(60), <1>1, <1>7, <2>1 DEF ExecutorInv, ReplayInv, ClaimantPcs, FailClosed
  <1>9. EscrowInv'
    BY ZenonT(60), <1>1, <1>7 DEF ExecutorInv, EscrowInv
  <1>10. EffectInv'
    <2>1. \A a \in Attempts : EffectOf[Presents[a]] # None =>
            /\ att'[a].pc \in ClaimPcs \cup {"lookup", "escrow", "effect"} => UseEffects
            /\ att'[a].pc \in {"acquire", "handler"} \cup ConsumePcs \/ att'[a].started
               => att'[a].owned
      BY ZenonT(60), <1>2, <1>6 DEF ExecutorInv, EffectInv, Guarded
    <2>2. QED
      BY ZenonT(60), <1>1, <1>2, <2>1 DEF ExecutorInv, EffectInv
  <1>11. QED
    BY ZenonT(60), <1>5, <1>8, <1>9, <1>10 DEF ExecutorInv

(* Time, expiry sweeps and revocations change no frame.                    *)
LEMMA SurroundingsKeep ==
    ASSUME ExecutorInv, UNCHANGED att, TablesKept, clock' \in 0 .. MaxTime
    PROVE  ExecutorInv'
  <1>1. TypeOK'
    BY ZenonT(60) DEF ExecutorInv, TypeOK, TablesKept
  <1>2. \A a \in Attempts : (Secured(a)' <=> Secured(a)) /\ (Entitled(a)' <=> Entitled(a))
    BY ZenonT(60) DEF Secured, Entitled
  <1>3. ReplayInv' /\ EscrowInv' /\ EffectInv'
    BY ZenonT(60), <1>2 DEF ExecutorInv, ReplayInv, EscrowInv, EffectInv, TablesKept
  <1>4. QED
    BY ZenonT(60), <1>1, <1>3 DEF ExecutorInv

LEMMA EnvironmentKeeps ==
    ASSUME ExecutorInv, Environment
    PROVE  ExecutorInv'
  <1>1. TypeOK /\ row \in [Keys -> Status] /\ clock \in 0 .. MaxTime
    BY Zenon DEF ExecutorInv, TypeOK
  <1>2. CASE Tick
    <2>1. TablesKept
      BY Zenon, <1>1, <1>2, StoresKept DEF Tick
    <2>2. clock' \in 0 .. MaxTime
      BY <1>1, <1>2 DEF Tick
    <2>3. QED
      BY Zenon, <1>2, <2>1, <2>2, SurroundingsKeep DEF Tick
  <1>3. CASE PurgeExpired
    <2>1. /\ row' \in [Keys -> Status]
          /\ \A k \in Keys : row[k] = "consumed" => row'[k] = "consumed"
      <3>1. CASE Keys = {}
        BY ZenonT(60), <1>1, <1>3, <3>1 DEF PurgeExpired, Purged
      <3>2. CASE Keys # {}
        BY SMTT(60), <1>1, <1>3, <3>2, RowsKept DEF PurgeExpired
      <3>3. QED
        BY Zenon, <3>1, <3>2
    <2>2. TablesKept
      BY ZenonT(60), <1>1, <1>3, <2>1 DEF PurgeExpired, TypeOK, TablesKept
    <2>3. QED
      BY Zenon, <1>1, <1>3, <2>2, SurroundingsKeep DEF PurgeExpired
  <1>4. ASSUME NEW e \in EscrowIds, RevokeEscrow(e) PROVE ExecutorInv'
    <2>1. TablesKept
      BY Zenon, <1>1, <1>4
      DEF RevokeEscrow, EscrowRevoked, EscrowState, TypeOK, TablesKept
    <2>2. QED
      BY ZenonT(60), <1>1, <1>4, <2>1, SurroundingsKeep DEF RevokeEscrow
  <1>5. QED
    BY ZenonT(60), <1>2, <1>3, <1>4, CrashKeeps DEF Environment

LEMMA ExecutorInit == Init => ExecutorInv
  <1> SUFFICES ASSUME Init PROVE ExecutorInv
    BY ZenonT(60)
  <1>1. NewFrame \in Frame
    <2>1. "idle" \in Pcs
      BY ZenonT(60) DEF Pcs
    <2>2. 0 \in 0 .. MaxTime
      BY TimeAssumption
    <2>3. QED
      BY ZenonT(60), <2>1, <2>2 DEF NewFrame, Frame
  <1>2. \A a \in Attempts : /\ att[a] = NewFrame
                            /\ att[a].pc = "idle" /\ att[a].started = FALSE
                            /\ att[a].owned = FALSE
    BY ZenonT(60) DEF Init, NewFrame
  <1>3. TypeOK
    BY SMTT(60), <1>1 DEF Init, TypeOK, Status, EscrowState
  <1>4. ReplayInv /\ EscrowInv
    BY ZenonT(60), <1>2 DEF ReplayInv, EscrowInv, Secured, Entitled, ConsumePcs
  <1>5. EffectInv
    BY Zenon, <1>2 DEF EffectInv, ClaimPcs, ConsumePcs
  <1>6. QED
    BY Zenon, <1>3, <1>4, <1>5 DEF ExecutorInv

LEMMA ExecutorStep == ExecutorInv /\ [Next]_vars => ExecutorInv'
  <1> SUFFICES ASSUME ExecutorInv, [Next]_vars PROVE ExecutorInv'
    OBVIOUS
  <1>1. CASE UNCHANGED vars
    <2>1. UNCHANGED att /\ TablesKept /\ clock' \in 0 .. MaxTime
      BY ZenonT(60), <1>1, StoresKept DEF vars, stores, ExecutorInv, TypeOK
    <2>2. QED
      BY ZenonT(60), <2>1, SurroundingsKeep
  <1>2. CASE \E a \in Attempts : Begin(a) \/ Step(a)
    BY Zenon, <1>2, BeginKeeps, StepKeeps
  <1>3. CASE Environment
    BY Zenon, <1>3, EnvironmentKeeps
  <1>4. QED
    BY Zenon, <1>1, <1>2, <1>3 DEF Next

(* Frames stay typed, and the replay, escrow and effect invariants hold in *)
(* every reachable state of execute(), whatever its configuration.         *)
THEOREM ExecutorInvariant == Spec => []ExecutorInv
    BY ExecutorInit, ExecutorStep, PTL DEF Spec

(* A proof enters the handler at most once if the replay store fails       *)
(* closed or an escrow is configured: either alone is enough, in           *)
(* particular when replay protection is disabled or fails open.            *)
THEOREM AtMostOnceTheorem ==
    ASSUME FailClosed \/ UseEscrow
    PROVE  Spec => []AtMostOnce
  <1>1. ExecutorInv => AtMostOnce
    BY ZenonT(60) DEF ExecutorInv, ReplayInv, EscrowInv, Secured, Entitled, AtMostOnce
  <1>2. QED
    BY <1>1, ExecutorInvariant, PTL

(* With a replay store that fails closed, consumption is durable before    *)
(* the handler runs and is never undone.                                   *)
THEOREM ConsumedBeforeHandlerTheorem ==
    ASSUME FailClosed
    PROVE  Spec => []ConsumedBeforeHandler
  <1>1. ExecutorInv => ConsumedBeforeHandler
    BY DEF ExecutorInv, ReplayInv, Secured, ConsumedBeforeHandler
  <1>2. QED
    BY <1>1, ExecutorInvariant, PTL

(* With an escrow, the handler runs only on a record consumed for it.      *)
THEOREM EscrowBeforeHandlerTheorem ==
    ASSUME UseEscrow
    PROVE  Spec => []EscrowBeforeHandler
  <1>1. ExecutorInv => EscrowBeforeHandler
    BY DEF ExecutorInv, EscrowInv, Entitled, EscrowBeforeHandler
  <1>2. QED
    BY <1>1, ExecutorInvariant, PTL

(* No effect is dispatched to the handler by two attempts, in any          *)
(* configuration: a proof that names an effect is refused without a ledger.*)
THEOREM EffectOnceTheorem == Spec => []EffectOnce
  <1>1. ExecutorInv => EffectOnce
    BY ZenonT(60) DEF ExecutorInv, EffectInv, EffectOnce
  <1>2. QED
    BY <1>1, ExecutorInvariant, PTL

-----------------------------------------------------------------------------
(* The executor implements SingleUseAuthority: a successful mark_consumed  *)
(* spends the proof, the call of the handler runs it, and every other step *)
(* is a stutter.                                                           *)
SameRows == \A k \in Keys : (row'[k] = "consumed") <=> (row[k] = "consumed")
SameStarts == \A a \in Attempts : att'[a].started = att[a].started

LEMMA StutterMaps ==
    ASSUME SameRows, SameStarts
    PROVE  [Authority!Next]_<<{k \in Keys : row[k] = "consumed"},
                              {k \in Keys : \E a \in Attempts :
                                              Presents[a] = k /\ att[a].started}>>
    BY ZenonT(60) DEF SameRows, SameStarts

(* A move whose frame keeps `started` enters no handler.                   *)
LEMMA MoveStarts ==
    ASSUME TypeOK, NEW a \in Attempts, NEW g, g.started = att[a].started, Move(a, g)
    PROVE  SameStarts
    BY ZenonT(60) DEF TypeOK, Move, SameStarts

LEMMA JumpStarts ==
    ASSUME TypeOK, NEW a \in Attempts
    PROVE  /\ \A pc : Move(a, To(a, pc)) => SameStarts
           /\ \A code : Move(a, Refuse(a, code)) => SameStarts
           /\ Move(a, Abort(a)) => SameStarts
  <1>1. att[a] \in Frame
    BY DEF TypeOK
  <1>2. /\ \A pc : To(a, pc).started = att[a].started
        /\ \A code : Refuse(a, code).started = att[a].started
    BY ZenonT(60), <1>1 DEF To, Refuse, Frame
  <1>3. QED
    BY ZenonT(60), <1>2, MoveStarts DEF Abort

LEMMA LocalStill ==
    ASSUME TypeOK, NEW a \in Attempts, LocalStep(a) \/ Begin(a)
    PROVE  SameStarts /\ SameRows
  <1>1. att[a] \in Frame
    BY ZenonT(60) DEF TypeOK
  <1>2. SameRows
    BY ZenonT(60) DEF LocalStep, Begin, CheckIdempotency, ReturnPrior, ConsumeEscrow, ClaimEffect,
           AcquireCredential, ReleaseCredential, WriteReceipt, RecordOperation, Cleanup,
           WriteRefusal, WriteRefusedReceipt, stores, SameRows
  <1>3. CASE Begin(a)
    <2> DEFINE frame == [att[a] EXCEPT !.now = clock]
    <2>1. /\ [frame EXCEPT !.pc = "claim"].started = att[a].started
          /\ [frame EXCEPT !.pc = "refuse", !.code = "rejected"].started = att[a].started
      BY ZenonT(60), <1>1 DEF Frame
    <2>2. QED
      BY ZenonT(60), <1>2, <1>3, <2>1, MoveStarts DEF Begin
  <1>4. CASE CheckIdempotency(a) \/ ConsumeEscrow(a) \/ RecordOperation(a)
    BY <1>2, <1>4, JumpStarts DEF CheckIdempotency, ConsumeEscrow, RecordOperation
  <1>5. CASE ClaimEffect(a)
    <2>1. [att[a] EXCEPT !.pc = "acquire", !.owned = TRUE].started = att[a].started
      BY <1>1 DEF Frame
    <2>2. QED
      BY ZenonT(60), <1>2, <1>5, <2>1, MoveStarts, JumpStarts DEF ClaimEffect
  <1>6. CASE AcquireCredential(a) \/ ReleaseCredential(a)
    <2>1. /\ [att[a] EXCEPT !.pc = "consume", !.cred = "held"].started = att[a].started
          /\ [att[a] EXCEPT !.pc = "receipt", !.cred = "released"].started = att[a].started
      BY <1>1 DEF Frame
    <2>2. QED
      BY ZenonT(60), <1>2, <1>6, <2>1, MoveStarts, JumpStarts DEF AcquireCredential, ReleaseCredential
  <1>7. CASE \/ ReturnPrior(a) \/ WriteReceipt(a)
             \/ WriteRefusal(a) \/ WriteRefusedReceipt(a)
    <2> DEFINE g(pc, doc) == [att[a] EXCEPT !.pc = pc, !.wrote = @ \cup {doc}]
    <2>1. \A pc, doc : g(pc, doc).started = att[a].started
      BY <1>1 DEF Frame
    <2>2. \A pc, doc : Move(a, g(pc, doc)) => SameStarts
      BY ZenonT(60), <2>1, MoveStarts
    <2>3. QED
      BY ZenonT(60), <1>2, <1>7, <2>2, JumpStarts
      DEF ReturnPrior, WriteReceipt, WriteRefusal, WriteRefusedReceipt
  <1>8. CASE Cleanup(a)
    <2> DEFINE g(pc, code, cred) == [att[a] EXCEPT !.pc = pc, !.code = code, !.cred = cred]
    <2>1. \A pc, code, cred : g(pc, code, cred).started = att[a].started
      BY <1>1 DEF Frame
    <2>2. \A pc, code, cred : Move(a, g(pc, code, cred)) => SameStarts
      BY ZenonT(60), <2>1, MoveStarts
    <2>3. QED
      BY ZenonT(60), <1>2, <1>8, <2>2 DEF Cleanup
  <1>9. QED
    BY ZenonT(60), <1>3, <1>4, <1>5, <1>6, <1>7, <1>8 DEF LocalStep

LEMMA HandlerStill ==
    ASSUME TypeOK, NEW a \in Attempts, HandlerStep(a), ~CallHandler(a)
    PROVE  SameStarts /\ SameRows
  <1>1. att[a] \in Frame
    BY Zenon DEF TypeOK
  <1>2. SameRows
    BY DEF HandlerStep, SideEffect, HandlerReturns, HandlerUnconfirmed, HandlerRaises,
           stores, SameRows
  <1>3. CASE SideEffect(a)
    <2>1. [att[a] EXCEPT !.acted = TRUE].started = att[a].started
      BY <1>1 DEF Frame
    <2>2. QED
      BY ZenonT(60), <1>2, <1>3, <2>1, MoveStarts DEF SideEffect
  <1>4. CASE HandlerReturns(a)
    <2>1. [att[a] EXCEPT !.pc = "release",
               !.evidence = IF att[a].owned THEN "COMMITTED" ELSE @].started = att[a].started
      BY <1>1 DEF Frame
    <2>2. QED
      BY ZenonT(60), <1>2, <1>4, <2>1, MoveStarts DEF HandlerReturns
  <1>5. CASE HandlerUnconfirmed(a)
    <2>1. \A code, ev : [Refuse(a, code) EXCEPT !.evidence = ev].started = att[a].started
      BY ZenonT(60), <1>1 DEF Refuse, Frame
    <2>2. QED
      BY ZenonT(60), <1>2, <1>5, <2>1, MoveStarts, JumpStarts DEF HandlerUnconfirmed
  <1>6. CASE HandlerRaises(a)
    BY ZenonT(60), <1>2, <1>6, JumpStarts DEF HandlerRaises
  <1>7. QED
    BY ZenonT(60), <1>3, <1>4, <1>5, <1>6 DEF HandlerStep

(* Of the replay steps only a successful mark_consumed changes which       *)
(* proofs are spent.                                                       *)
LEMMA ReplayStill ==
    ASSUME TypeOK, NEW a \in Attempts, ReplayStep(a)
    PROVE  /\ SameStarts
           /\ \/ SameRows
              \/ Consumable(row, Presents[a]) /\ row' = Consumed(row, Presents[a])
  <1>1. att[a] \in Frame /\ row \in [Keys -> Status] /\ Presents[a] \in Keys
    BY ZenonT(60) DEF TypeOK
  <1>2. ASSUME Reread(a) PROVE SameRows
    BY <1>1, <1>2, RowsKept DEF Reread, SameRows
  <1>3. CASE ClaimReplay(a)
    <2>1. SameRows
      BY ZenonT(60), <1>1, <1>3 DEF ClaimReplay, Claimable, Claimed, SameRows
    <2>2. SameStarts
      BY Zenon, <1>3, JumpStarts DEF ClaimReplay
    <2>3. QED
      BY ZenonT(60), <2>1, <2>2
  <1>4. CASE ClaimReread(a) \/ DuplicateReplay(a)
    <2> DEFINE g == [att[a] EXCEPT !.pc = "lookup", !.held = TRUE]
    <2>0. g.started = att[a].started
      BY Zenon, <1>1 DEF Frame
    <2>1. SameStarts
      BY ZenonT(60), <1>4, <2>0, MoveStarts, JumpStarts DEF ClaimReread, DuplicateReplay
    <2>2. QED
      BY Zenon, <1>2, <1>4, <2>1 DEF ClaimReread, DuplicateReplay
  <1>5. ASSUME NEW site \in {"spend", "consume", "burn"}, MarkConsumed(a, site)
        PROVE  /\ SameStarts
               /\ \/ SameRows
                  \/ Consumable(row, Presents[a]) /\ row' = Consumed(row, Presents[a])
    <2>1. SameStarts
      BY ZenonT(60), <1>5, JumpStarts DEF MarkConsumed
    <2>2. QED
      BY ZenonT(60), <1>5, <2>1 DEF MarkConsumed, SameRows
  <1>6. ASSUME NEW site \in {"spend", "consume", "burn"},
               MarkReread(a, site) \/ MarkInvalid(a, site)
        PROVE  SameStarts /\ SameRows
    <2>0. \A pc : [att[a] EXCEPT !.pc = pc, !.burnt = TRUE].started = att[a].started
      BY <1>1 DEF Frame
    <2>1. SameStarts
      BY ZenonT(60), <1>6, <2>0, MoveStarts, JumpStarts DEF MarkReread, MarkInvalid
    <2>2. QED
      BY Zenon, <1>2, <1>6, <2>1 DEF MarkReread, MarkInvalid
  <1>7. CASE Unclaim(a) \/ UnclaimReread(a)
    <2>1. SameStarts
      BY ZenonT(60), <1>7, JumpStarts DEF Unclaim, UnclaimReread
    <2>2. SameRows
      BY ZenonT(30), <1>1, <1>2, <1>7 DEF Unclaim, UnclaimReread, Releasable, Released, SameRows
    <2>3. QED
      BY ZenonT(60), <2>1, <2>2
  <1>8. CASE StoreFails(a)
    <2>1. SameRows
      BY Zenon, <1>8 DEF StoreFails, stores, SameRows
    <2>2. SameStarts
      BY <1>8, JumpStarts DEF StoreFails
    <2>3. QED
      BY Zenon, <2>1, <2>2
  <1>9. QED
    BY ZenonT(60), <1>3, <1>4, <1>5, <1>6, <1>7, <1>8 DEF ReplayStep

LEMMA EnvironmentStill ==
    ASSUME TypeOK, Environment
    PROVE  SameRows /\ SameStarts
  <1>1. att \in [Attempts -> Frame] /\ row \in [Keys -> Status]
    BY ZenonT(60) DEF TypeOK
  <1>2. CASE \E p \in Procs : Crash(p)
    <2>1. \A a \in Attempts : To(a, "crashed").started = att[a].started
      BY SMTT(60), <1>1 DEF To, Frame
    <2>2. QED
      BY <1>2, <2>1 DEF Crash, SameRows, SameStarts
  <1>3. CASE Tick \/ \E e \in EscrowIds : RevokeEscrow(e)
    BY ZenonT(60), <1>3 DEF Tick, RevokeEscrow, stores, SameRows, SameStarts
  <1>4. CASE PurgeExpired
    BY ZenonT(60), <1>1, <1>4 DEF PurgeExpired, Purged, SameRows, SameStarts
  <1>5. QED
    BY ZenonT(60), <1>2, <1>3, <1>4 DEF Environment

LEMMA SpendMaps ==
    ASSUME TypeOK, NEW a \in Attempts, SameStarts, Consumable(row, Presents[a]),
           row' = Consumed(row, Presents[a])
    PROVE  Authority!Next
  <1> DEFINE k == Presents[a]
  <1>1. k \in Keys /\ row \in [Keys -> Status] /\ row[k] # "consumed"
    BY ZenonT(60) DEF TypeOK, Consumable
  <1>2. {j \in Keys : row'[j] = "consumed"} = {j \in Keys : row[j] = "consumed"} \cup {k}
    <2>1. \A j \in Keys : row'[j] = "consumed" <=> row[j] = "consumed" \/ j = k
      BY ZenonT(60), <1>1 DEF Consumed
    <2>2. QED
      BY ZenonT(60), <1>1, <2>1
  <1>3. {j \in Keys : \E b \in Attempts : Presents[b] = j /\ att'[b].started}
          = {j \in Keys : \E b \in Attempts : Presents[b] = j /\ att[b].started}
    BY DEF SameStarts
  <1>4. k \notin {j \in Keys : row[j] = "consumed"}
    BY ZenonT(60), <1>1
  <1>5. Authority!Spend(k)
    BY ZenonT(60), <1>2, <1>3, <1>4 DEF Authority!Spend
  <1>6. QED
    BY ZenonT(60), <1>1, <1>5 DEF Authority!Next

LEMMA RunMaps ==
    ASSUME ExecutorInv, FailClosed, NEW a \in Attempts, CallHandler(a)
    PROVE  [Authority!Next]_<<{k \in Keys : row[k] = "consumed"},
                              {k \in Keys : \E b \in Attempts :
                                              Presents[b] = k /\ att[b].started}>>
  <1> DEFINE k == Presents[a]
             g == [att[a] EXCEPT !.pc = "running", !.started = TRUE]
             runs == {j \in Keys : \E b \in Attempts : Presents[b] = j /\ att[b].started}
  <1>1. TypeOK /\ att[a] \in Frame /\ att[a].pc = "handler" /\ row' = row /\ k \in Keys
    BY DEF ExecutorInv, TypeOK, CallHandler, At, stores
  <1>2. g \in Frame /\ g.started
    BY ZenonT(60), <1>1 DEF Frame, Pcs, MainPcs
  <1>3. att'[a].started /\ \A b \in Attempts \ {a} : att'[b] = att[b]
    BY ZenonT(60), <1>1, <1>2, MoveTyped DEF CallHandler
  <1>4. row[k] = "consumed"
    BY ZenonT(60), <1>1 DEF ExecutorInv, ReplayInv, Secured
  <1>5. runs' = runs \cup {k}
    BY ZenonT(60), <1>1, <1>3
  <1>6. CASE k \in runs
    <2>1. runs \cup {k} = runs
      BY ZenonT(60), <1>6
    <2>2. runs' = runs
      BY ZenonT(60), <1>5, <2>1
    <2>3. {j \in Keys : row'[j] = "consumed"} = {j \in Keys : row[j] = "consumed"}
      BY ZenonT(60), <1>1
    <2>4. QED
      BY ZenonT(60), <2>2, <2>3
  <1>7. CASE k \notin runs
    <2>1. Authority!Run(k)
      BY ZenonT(60), <1>1, <1>4, <1>5, <1>7 DEF Authority!Run
    <2>2. QED
      BY ZenonT(60), <1>1, <2>1 DEF Authority!Next
  <1>8. QED
    BY ZenonT(60), <1>6, <1>7

(* The executor, when its replay store fails closed, implements single-use *)
(* authority: proofs are spent once and for good, and run only once spent. *)
THEOREM RefinesAuthority ==
    ASSUME FailClosed
    PROVE  Spec => ImplementsAuthority
  <1>1. Init => Authority!Init
    <2> SUFFICES ASSUME Init PROVE Authority!Init
      OBVIOUS
    <2>1. {k \in Keys : row[k] = "consumed"} = {}
      BY ZenonT(60) DEF Init
    <2>2. \A a \in Attempts : ~att[a].started
      BY DEF Init, NewFrame
    <2>3. {k \in Keys : \E a \in Attempts : Presents[a] = k /\ att[a].started} = {}
      BY ZenonT(60), <2>2
    <2>4. QED
      BY <2>1, <2>3 DEF Authority!Init
  <1>2. ExecutorInv /\ [Next]_vars =>
          [Authority!Next]_<<{k \in Keys : row[k] = "consumed"},
                             {k \in Keys : \E a \in Attempts :
                                             Presents[a] = k /\ att[a].started}>>
    <2> SUFFICES ASSUME ExecutorInv, [Next]_vars
                 PROVE  [Authority!Next]_<<{k \in Keys : row[k] = "consumed"},
                             {k \in Keys : \E a \in Attempts :
                                             Presents[a] = k /\ att[a].started}>>
      BY ZenonT(60)
    <2>1. TypeOK
      BY ZenonT(60) DEF ExecutorInv
    <2>2. CASE UNCHANGED vars
      BY Zenon, <2>2, StutterMaps DEF vars, SameRows, SameStarts
    <2>3. ASSUME NEW a \in Attempts, Begin(a) \/ LocalStep(a)
          PROVE  SameRows /\ SameStarts
      BY Zenon, <2>1, <2>3, LocalStill
    <2>4. ASSUME NEW a \in Attempts, HandlerStep(a), ~CallHandler(a)
          PROVE  SameRows /\ SameStarts
      BY ZenonT(60), <2>1, <2>4, HandlerStill
    <2>5. ASSUME NEW a \in Attempts, ReplayStep(a)
          PROVE  (SameRows /\ SameStarts) \/ Authority!Next
      BY ZenonT(60), <2>1, <2>5, ReplayStill, SpendMaps
    <2>6. CASE Environment
      BY ZenonT(60), <2>1, <2>6, EnvironmentStill, StutterMaps
    <2>7. CASE \E a \in Attempts : Begin(a) \/ Step(a)
      BY ZenonT(60), <2>3, <2>4, <2>5, <2>7, RunMaps, StutterMaps DEF Step
    <2>8. QED
      BY ZenonT(60), <2>2, <2>6, <2>7 DEF Next
  <1>3. QED
    BY <1>1, <1>2, ExecutorInvariant, PTL DEF Spec, ImplementsAuthority, Authority!Spec

(***************************************************************************)
(* How execute() leaves things behind: the credential goes back, a refused *)
(* receipt tells the truth about effects, and no replay claim is orphaned. *)
(*                                                                         *)
(* Credential and evidence are matters of one frame (Tidy); the claims     *)
(* need an attempt that answers for each of them (ClaimInv).               *)
(***************************************************************************)
HIDE EscrowExpiryAssumption
HIDE IssuedForAssumption
HIDE ExpiryAssumption
HIDE TimeAssumption
HIDE NoneAssumption
HIDE ProofAssumption

(* What a step leaves of a frame when it only jumps: its hold on the claim *)
(* and all it has to account for.                                          *)
SameHold(f, g) == g.held = f.held /\ g.burnt = f.burnt
SameAccount(f, g) ==
    /\ g.cred = f.cred /\ g.owned = f.owned /\ g.started = f.started
    /\ g.evidence = f.evidence /\ g.acted = f.acted /\ g.wrote = f.wrote

LEMMA JumpSame ==
    ASSUME TypeOK, NEW a \in Attempts
    PROVE  /\ \A pc \in Pcs : /\ To(a, pc).pc = pc
                              /\ SameHold(att[a], To(a, pc))
                              /\ SameAccount(att[a], To(a, pc))
           /\ \A code : /\ Refuse(a, code).pc = "refuse"
                        /\ SameHold(att[a], Refuse(a, code))
                        /\ SameAccount(att[a], Refuse(a, code))
           /\ /\ Abort(a).pc = "abort"
              /\ SameHold(att[a], Abort(a))
              /\ SameAccount(att[a], Abort(a))
  <1>1. att[a] \in Frame /\ "abort" \in Pcs
    BY DEF TypeOK, Pcs, ExceptPcs
  <1>2. ASSUME NEW pc \in Pcs
        PROVE  /\ To(a, pc).pc = pc
               /\ SameHold(att[a], To(a, pc))
               /\ SameAccount(att[a], To(a, pc))
    BY Zenon, <1>1 DEF To, SameHold, SameAccount, Frame
  <1>3. ASSUME NEW code
        PROVE  /\ Refuse(a, code).pc = "refuse"
               /\ SameHold(att[a], Refuse(a, code))
               /\ SameAccount(att[a], Refuse(a, code))
    BY Zenon, <1>1 DEF Refuse, SameHold, SameAccount, Frame
  <1>4. QED
    BY Zenon, <1>1, <1>2, <1>3 DEF Abort

LEMMA TidyMove ==
    ASSUME TypeOK, TidyInv, NEW a \in Attempts, NEW g, Tidy(g), Move(a, g)
    PROVE  TidyInv'
  <1>1. att'[a] = g /\ \A b \in Attempts \ {a} : att'[b] = att[b]
    BY DEF TypeOK, Move
  <1>2. \A b \in Attempts : Tidy(att'[b])
    BY ZenonT(60), <1>1 DEF TidyInv
  <1>3. QED
    BY Zenon, <1>2 DEF TidyInv, Tidy, Honest

(* A refusal or an abort is tidy unless it follows committed evidence.     *)
LEMMA LeaveTidy ==
    ASSUME TypeOK, TidyInv, NEW a \in Attempts,
           EffectsReported => att[a].pc \notin CommittedPcs
    PROVE  (\A code : Tidy(Refuse(a, code))) /\ Tidy(Abort(a))
  <1>1. Tidy(att[a]) /\ {"refuse", "abort"} \subseteq HoldingPcs \cap EvidencePcs
    BY Zenon DEF TidyInv, HoldingPcs, EvidencePcs, ExceptPcs
  <1>2. \A g : g.pc \in {"refuse", "abort"} /\ SameAccount(att[a], g) => Tidy(g)
    BY ZenonT(30), <1>1 DEF Tidy, Honest, SameAccount, ConsumePcs, CommittedPcs
  <1>3. QED
    BY Zenon, <1>2, JumpSame

(* So is a jump between two points where nothing is held or reported.      *)
LEMMA StillTidy ==
    ASSUME TypeOK, TidyInv, NEW a \in Attempts, NEW g, SameAccount(att[a], g),
           att[a].pc \notin CommittedPcs, g.pc \notin CommittedPcs,
           att[a].pc \in HoldingPcs => g.pc \in HoldingPcs,
           att[a].pc \in EvidencePcs => g.pc \in EvidencePcs,
           g.pc \in {"acquire", "handler", "running"} \cup ConsumePcs
             => att[a].pc \in {"acquire", "handler", "running"} \cup ConsumePcs,
           g.pc # "running"
    PROVE  Tidy(g)
    BY DEF TidyInv, Tidy, Honest, SameAccount, CommittedPcs

(* So is the frame that wrote a document where the code writes it.         *)
Writing(pc, doc, next) ==
    \/ pc = "priorReceipt" /\ doc = "prior" /\ next = "done"
    \/ pc = "receipt" /\ doc = "executed" /\ next = "record"
    \/ pc \in {"refusal", "refusedReceipt"} /\ doc = "refusal" /\ next = "refusedReceipt"
    \/ pc \in {"refusal", "refusedReceipt"} /\ doc = "refused" /\ next = "done"

Wrote(f, h, doc) ==
    /\ h.owned = f.owned /\ h.started = f.started /\ h.cred = f.cred
    /\ h.evidence = f.evidence /\ h.acted = f.acted /\ h.wrote = f.wrote \cup {doc}

LEMMA WroteTidy ==
    ASSUME NEW f, NEW h, NEW doc, Tidy(f), Writing(f.pc, doc, h.pc), Wrote(f, h, doc)
    PROVE  Tidy(h)
  <1>1. f.pc \notin HoldingPcs
    BY DEF Writing, HoldingPcs, ConsumePcs
  <1>2. h.pc \in EvidencePcs /\ h.pc \notin {"acquire", "handler", "running", "release", "receipt"}
        /\ h.pc \notin ConsumePcs
    BY Zenon DEF Writing, EvidencePcs, CommittedPcs, ExceptPcs, ConsumePcs
  <1>3. f.pc \in CommittedPcs => f.pc = "receipt" /\ doc = "executed" /\ h.pc = "record"
    BY DEF Writing, CommittedPcs
  <1>4. f.pc # "done" /\ (doc = "refused" => h.pc = "done" /\ f.pc # "receipt")
        /\ (h.pc = "record" => f.pc = "receipt") /\ "record" \in CommittedPcs
    BY DEF Writing, CommittedPcs
  <1>5. "refused" \in h.wrote => "refused" \in f.wrote \/ doc = "refused"
    BY Zenon DEF Wrote
  <1>6. EffectsReported => Honest(h)
    BY ZenonT(30), <1>2, <1>3, <1>4, <1>5 DEF Tidy, Honest, Wrote
  <1>7. QED
    BY Zenon, <1>1, <1>6 DEF Tidy, Wrote

LEMMA BeginTidy ==
    ASSUME TypeOK, TidyInv, NEW a \in Attempts, Begin(a)
    PROVE  TidyInv'
  <1> DEFINE frame == [att[a] EXCEPT !.now = clock]
             claim == [frame EXCEPT !.pc = "claim"]
             refused == [frame EXCEPT !.pc = "refuse", !.code = "rejected"]
  <1>1. att[a] \in Frame /\ att[a].pc = "idle"
    BY DEF TypeOK, Begin, At
  <1>2. claim.pc = "claim" /\ SameAccount(att[a], claim)
    BY <1>1 DEF Frame, SameAccount
  <1>3. refused.pc = "refuse" /\ SameAccount(att[a], refused)
    BY <1>1 DEF Frame, SameAccount
  <1>4. Move(a, claim) \/ Move(a, refused)
    BY Zenon DEF Begin
  <1> HIDE DEF claim, refused
  <1>5. Tidy(claim) /\ Tidy(refused)
    BY Zenon, <1>1, <1>2, <1>3, StillTidy
    DEF CommittedPcs, HoldingPcs, EvidencePcs, ConsumePcs, ExceptPcs, BurnPcs, UnclaimPcs
  <1>6. QED
    BY Zenon, <1>4, <1>5, TidyMove

(* The steps of the replay store hold and report nothing new.              *)
LEMMA ReplayTidy ==
    ASSUME TypeOK, TidyInv, NEW a \in Attempts, ReplayStep(a)
    PROVE  TidyInv'
  <1> DEFINE Plain == {"claim", "claimRead", "claimLost", "lookup", "spend", "spendRead",
                       "spendLost", "priorReceipt"}
             Out == BurnPcs \cup UnclaimPcs \cup {"refusal"}
  <1>1. att[a] \in Frame /\ Tidy(att[a])
    BY Zenon DEF TypeOK, TidyInv
  <1>2. ASSUME NEW g, SameAccount(att[a], g), Move(a, g),
               \/ att[a].pc \in Plain /\ g.pc \in Plain
               \/ att[a].pc \in Out /\ g.pc \in Out
               \/ att[a].pc \in ConsumePcs /\ g.pc \in ConsumePcs \cup {"handler"}
               \/ att[a].pc \in Plain \cup Out \cup ConsumePcs /\ g.pc = "refuse"
        PROVE  TidyInv'
    <2>1. Tidy(g)
      BY <1>1, <1>2, StillTidy
      DEF CommittedPcs, HoldingPcs, EvidencePcs, ConsumePcs, ExceptPcs, BurnPcs, UnclaimPcs
    <2>2. QED
      BY Zenon, <1>2, <2>1, TidyMove
  <1>3. Plain \cup Out \cup ConsumePcs \cup {"handler", "refuse"} \subseteq Pcs
    BY DEF Pcs, ClaimPcs, SpendPcs, ConsumePcs, BurnPcs, UnclaimPcs, MainPcs, ExceptPcs
  <1>4. \A pc \in Pcs : To(a, pc).pc = pc /\ SameAccount(att[a], To(a, pc))
    BY Zenon, JumpSame
  <1>5. \A code : Refuse(a, code).pc = "refuse" /\ SameAccount(att[a], Refuse(a, code))
    BY Zenon, JumpSame
  <1> DEFINE claimed == [att[a] EXCEPT !.pc = "lookup", !.held = TRUE]
             marked(pc) == [att[a] EXCEPT !.pc = pc, !.burnt = TRUE]
  <1>6. claimed.pc = "lookup" /\ SameAccount(att[a], claimed)
    BY Zenon, <1>1 DEF Frame, SameAccount
  <1>7. \A pc : marked(pc).pc = pc /\ SameAccount(att[a], marked(pc))
    BY Zenon, <1>1 DEF Frame, SameAccount
  <1>8. CASE ClaimReplay(a)
    BY <1>2, <1>3, <1>4, <1>8 DEF ClaimReplay, At
  <1>9. CASE ClaimReread(a)
    <2> HIDE DEF claimed
    <2> QED
      BY ZenonT(30), <1>2, <1>6, <1>9 DEF ClaimReread, At, claimed
  <1>10. CASE DuplicateReplay(a)
    BY Zenon, <1>2, <1>5, <1>10 DEF DuplicateReplay, At
  <1>11. ASSUME NEW site \in {"spend", "consume", "burn"}, MarkConsumed(a, site)
         PROVE  TidyInv'
    BY <1>2, <1>3, <1>4, <1>11
    DEF MarkConsumed, At, AfterMark, ReadOf, LostOf, ConsumePcs, BurnPcs
  <1>12. ASSUME NEW site \in {"spend", "consume", "burn"}, MarkReread(a, site)
         PROVE  TidyInv'
    <2>1. att[a].pc = ReadOf[site] /\ Move(a, marked(AfterMark[site]))
      BY Zenon, <1>12 DEF MarkReread, At
    <2> HIDE DEF marked
    <2>2. \/ ReadOf[site] \in Plain /\ AfterMark[site] \in Plain
          \/ ReadOf[site] \in Out /\ AfterMark[site] \in Out
          \/ ReadOf[site] \in ConsumePcs /\ AfterMark[site] \in ConsumePcs \cup {"handler"}
      BY DEF AfterMark, ReadOf, ConsumePcs, BurnPcs
    <2> HIDE DEF Plain, Out
    <2>3. QED
      BY Zenon, <1>2, <1>7, <2>1, <2>2
  <1>13. ASSUME NEW site \in {"spend", "consume", "burn"}, MarkInvalid(a, site)
         PROVE  TidyInv'
    BY <1>2, <1>3, <1>4, <1>5, <1>13 DEF MarkInvalid, At, LostOf, ConsumePcs, BurnPcs
  <1>14. CASE Unclaim(a) \/ UnclaimReread(a)
    BY Zenon, <1>2, <1>3, <1>4, <1>14 DEF Unclaim, UnclaimReread, At, UnclaimPcs
  <1>15. CASE StoreFails(a)
    BY <1>2, <1>3, <1>4, <1>5, <1>15
    DEF StoreFails, ClaimPcs, SpendPcs, ConsumePcs, BurnPcs, UnclaimPcs
  <1>16. QED
    BY Zenon, <1>8, <1>9, <1>10, <1>11, <1>12, <1>13, <1>14, <1>15 DEF ReplayStep

(* The handler acts only once it was started with the effect it owns, and  *)
(* what it reports is what it did.                                         *)
LEMMA HandlerTidy ==
    ASSUME TypeOK, TidyInv, NEW a \in Attempts, HandlerStep(a)
    PROVE  TidyInv'
  <1>1. att[a] \in Frame /\ Tidy(att[a])
    BY Zenon DEF TypeOK, TidyInv
  <1>2. CASE CallHandler(a)
    <2> DEFINE g == [att[a] EXCEPT !.pc = "running", !.started = TRUE]
    <2>1. att[a].pc = "handler" /\ Move(a, g)
      BY Zenon, <1>2 DEF CallHandler, At
    <2>2. /\ g.pc = "running" /\ g.started /\ g.cred = att[a].cred /\ g.owned = att[a].owned
          /\ g.evidence = att[a].evidence /\ g.acted = att[a].acted /\ g.wrote = att[a].wrote
      BY Zenon, <1>1 DEF Frame
    <2> HIDE DEF g
    <2>3. Tidy(g)
      BY Zenon, <1>1, <2>1, <2>2
      DEF Tidy, Honest, HoldingPcs, EvidencePcs, CommittedPcs, ConsumePcs, ExceptPcs, BurnPcs,
          UnclaimPcs
    <2>4. QED
      BY Zenon, <2>1, <2>3, TidyMove
  <1>3. CASE SideEffect(a)
    <2> DEFINE g == [att[a] EXCEPT !.acted = TRUE]
    <2>1. att[a].pc = "running" /\ Move(a, g)
      BY Zenon, <1>3 DEF SideEffect, At
    <2>2. /\ g.pc = "running" /\ g.started = att[a].started /\ g.cred = att[a].cred
          /\ g.owned = att[a].owned /\ g.evidence = att[a].evidence /\ g.wrote = att[a].wrote
      BY Zenon, <1>1, <2>1 DEF Frame
    <2> HIDE DEF g
    <2>3. Tidy(g)
      BY Zenon, <1>1, <2>1, <2>2
      DEF Tidy, Honest, HoldingPcs, EvidencePcs, CommittedPcs, ConsumePcs, ExceptPcs, BurnPcs,
          UnclaimPcs
    <2>4. QED
      BY Zenon, <2>1, <2>3, TidyMove
  <1>4. CASE HandlerReturns(a)
    <2> DEFINE g == [att[a] EXCEPT !.pc = "release",
                         !.evidence = IF att[a].owned THEN "COMMITTED" ELSE @]
    <2>1. att[a].pc = "running" /\ Move(a, g)
      BY Zenon, <1>4 DEF HandlerReturns, At
    <2>2. /\ g.pc = "release" /\ g.started = att[a].started /\ g.cred = att[a].cred
          /\ g.owned = att[a].owned /\ g.acted = att[a].acted /\ g.wrote = att[a].wrote
          /\ g.evidence = IF att[a].owned THEN "COMMITTED" ELSE att[a].evidence
      BY Zenon, <1>1 DEF Frame
    <2> HIDE DEF g
    <2>3. Tidy(g)
      BY Zenon, <1>1, <2>1, <2>2
      DEF Tidy, Honest, HoldingPcs, EvidencePcs, CommittedPcs, ConsumePcs, ExceptPcs, BurnPcs,
          UnclaimPcs
    <2>4. QED
      BY Zenon, <2>1, <2>3, TidyMove
  <1>5. CASE HandlerUnconfirmed(a)
    <2> DEFINE g(code, ev) == [Refuse(a, code) EXCEPT !.evidence = ev]
    <2>1. /\ att[a].pc = "running"
          /\ \/ ~att[a].acted /\ Move(a, g("rejected", "NOT_EXECUTED"))
             \/ Move(a, g("unknown", "AMBIGUOUS"))
             \/ Move(a, Refuse(a, "unknown"))
      BY Zenon, <1>5 DEF HandlerUnconfirmed, At
    <2>2. \A code, ev : /\ g(code, ev).pc = "refuse" /\ g(code, ev).started = att[a].started
                        /\ g(code, ev).cred = att[a].cred /\ g(code, ev).owned = att[a].owned
                        /\ g(code, ev).acted = att[a].acted /\ g(code, ev).wrote = att[a].wrote
                        /\ g(code, ev).evidence = ev
      BY Zenon, <1>1 DEF Refuse, Frame
    <2> HIDE DEF g
    <2>3. "refuse" \in HoldingPcs \cap EvidencePcs /\ "refuse" \notin ConsumePcs
      BY DEF HoldingPcs, EvidencePcs, ExceptPcs, ConsumePcs
    <2>4. ASSUME NEW code, NEW ev \in {"AMBIGUOUS", "NOT_EXECUTED"}, ev = "NOT_EXECUTED" => ~att[a].acted
          PROVE  Tidy(g(code, ev))
      <3>1. EffectsReported => (att[a].acted => att[a].started /\ att[a].owned)
        BY Zenon, <1>1 DEF Tidy, Honest
      <3>2. EffectsReported => "refused" \notin att[a].wrote
        <4>1. att[a].pc # "done"
          BY <2>1
        <4>2. QED
          BY Zenon, <1>1, <4>1 DEF Tidy, Honest
      <3> DEFINE h == g(code, ev)
      <3>3. /\ h.pc = "refuse" /\ h.started = att[a].started /\ h.owned = att[a].owned
            /\ h.acted = att[a].acted /\ h.wrote = att[a].wrote /\ h.evidence = ev /\ h.cred = att[a].cred
        BY Zenon, <2>2
      <3> HIDE DEF h
      <3>4. EffectsReported => Honest(h)
        BY <2>3, <2>4, <3>1, <3>2, <3>3 DEF Honest
      <3>5. QED
        BY Zenon, <2>3, <3>3, <3>4 DEF Tidy, h
    <2>5. Tidy(g("unknown", "AMBIGUOUS")) /\ (~att[a].acted => Tidy(g("rejected", "NOT_EXECUTED")))
      BY Zenon, <2>4
    <2>6. Tidy(Refuse(a, "unknown"))
      BY Zenon, <2>1, LeaveTidy DEF CommittedPcs
    <2>7. QED
      BY Zenon, <2>1, <2>5, <2>6, TidyMove
  <1>6. CASE HandlerRaises(a)
    <2>1. att[a].pc = "running"
      BY <1>6 DEF HandlerRaises, At
    <2>2. Tidy(Refuse(a, "rejected")) /\ Tidy(Abort(a))
      BY Zenon, <2>1, LeaveTidy DEF CommittedPcs
    <2>3. QED
      BY Zenon, <1>6, <2>2, TidyMove DEF HandlerRaises
  <1>7. QED
    BY Zenon, <1>2, <1>3, <1>4, <1>5, <1>6 DEF HandlerStep

(* The steps before the handler: the credential is taken at the door.      *)
LEMMA ApproachTidy ==
    ASSUME TypeOK, TidyInv, NEW a \in Attempts,
           \/ CheckIdempotency(a) \/ ConsumeEscrow(a) \/ ClaimEffect(a)
           \/ AcquireCredential(a)
    PROVE  TidyInv'
  <1> DEFINE Before == {"lookup", "escrow", "effect", "acquire"}
  <1>1. att[a] \in Frame /\ Tidy(att[a]) /\ att[a].pc \in Before
    BY Zenon DEF TypeOK, TidyInv, CheckIdempotency, ConsumeEscrow, ClaimEffect, AcquireCredential, At
  <1>2. (\A code : Tidy(Refuse(a, code))) /\ Tidy(Abort(a))
    BY Zenon, <1>1, LeaveTidy DEF CommittedPcs
  <1>3. \A pc \in {"escrow", "spend", "effect"} : Tidy(To(a, pc))
    <2>1. \A pc \in {"escrow", "spend", "effect"} :
            To(a, pc).pc = pc /\ SameAccount(att[a], To(a, pc))
      BY Zenon, JumpSame DEF Pcs, SpendPcs, MainPcs
    <2>2. QED
      BY <1>1, <2>1
      DEF Tidy, Honest, SameAccount, HoldingPcs, EvidencePcs, CommittedPcs, ConsumePcs,
          ExceptPcs, BurnPcs, UnclaimPcs
  <1>4. CASE CheckIdempotency(a) \/ ConsumeEscrow(a)
    <2>1. \/ \E pc \in {"escrow", "spend", "effect"} : Move(a, To(a, pc))
          \/ Move(a, Refuse(a, "rejected"))
          \/ Move(a, Abort(a))
      BY Zenon, <1>4 DEF CheckIdempotency, ConsumeEscrow
    <2>2. QED
      BY Zenon, <1>2, <1>3, <2>1, TidyMove
  <1>5. CASE ClaimEffect(a)
    <2> DEFINE g == [att[a] EXCEPT !.pc = "acquire", !.owned = TRUE]
    <2>1. \/ Move(a, Refuse(a, "rejected"))
          \/ ~UseEffects /\ Move(a, To(a, "acquire"))
          \/ Move(a, g)
      BY Zenon, <1>5 DEF ClaimEffect
    <2>2. att[a].pc = "effect"
      BY Zenon, <1>5 DEF ClaimEffect, At
    <2>3. /\ g.pc = "acquire" /\ g.owned /\ g.started = att[a].started /\ g.cred = att[a].cred
          /\ g.evidence = att[a].evidence /\ g.acted = att[a].acted /\ g.wrote = att[a].wrote
      BY Zenon, <1>1 DEF Frame
    <2>4. To(a, "acquire").pc = "acquire" /\ SameAccount(att[a], To(a, "acquire"))
      BY Zenon, JumpSame DEF Pcs, MainPcs
    <2> HIDE DEF g
    <2>5. Tidy(g)
      BY Zenon, <1>1, <2>2, <2>3
      DEF Tidy, Honest, HoldingPcs, EvidencePcs, CommittedPcs, ConsumePcs, ExceptPcs, BurnPcs,
          UnclaimPcs
    <2>6. ~UseEffects => Tidy(To(a, "acquire"))
      BY Zenon, <1>1, <2>2, <2>4 DEF Tidy, EffectsReported, SameAccount, HoldingPcs, ConsumePcs
    <2>7. QED
      BY Zenon, <1>2, <2>1, <2>5, <2>6, TidyMove
  <1>6. CASE AcquireCredential(a)
    <2> DEFINE g == [att[a] EXCEPT !.pc = "consume", !.cred = "held"]
    <2>1. Move(a, g) \/ Move(a, Refuse(a, "rejected")) \/ Move(a, Abort(a))
      BY <1>6 DEF AcquireCredential
    <2>2. att[a].pc = "acquire"
      BY Zenon, <1>6 DEF AcquireCredential, At
    <2>3. /\ g.pc = "consume" /\ g.owned = att[a].owned /\ g.started = att[a].started
          /\ g.evidence = att[a].evidence /\ g.acted = att[a].acted /\ g.wrote = att[a].wrote
      BY Zenon, <1>1 DEF Frame
    <2> HIDE DEF g
    <2>4. Tidy(g)
      BY ZenonT(30), <1>1, <2>2, <2>3
      DEF Tidy, Honest, HoldingPcs, EvidencePcs, CommittedPcs, ConsumePcs, ExceptPcs, BurnPcs,
          UnclaimPcs
    <2>5. QED
      BY ZenonT(30), <1>2, <2>1, <2>4, TidyMove
  <1>7. QED
    BY Zenon, <1>4, <1>5, <1>6

(* The steps after the handler: committed evidence leads to the receipt    *)
(* unless the broker or the writer fails.                                  *)
LEMMA ReceiptTidy ==
    ASSUME TypeOK, TidyInv, NEW a \in Attempts,
           \/ ReturnPrior(a) \/ ReleaseCredential(a) \/ WriteReceipt(a)
           \/ RecordOperation(a)
    PROVE  TidyInv'
  <1> DEFINE g(pc, doc) == [att[a] EXCEPT !.pc = pc, !.wrote = @ \cup {doc}]
             returned == [att[a] EXCEPT !.pc = "receipt", !.cred = "released"]
  <1>1. att[a] \in Frame /\ Tidy(att[a])
    BY Zenon DEF TypeOK, TidyInv
  <1>2. \A pc, doc : g(pc, doc).pc = pc /\ Wrote(att[a], g(pc, doc), doc)
    BY <1>1 DEF Frame, Wrote
  <1>3. /\ returned.pc = "receipt" /\ returned.owned = att[a].owned
        /\ returned.started = att[a].started /\ returned.cred = "released"
        /\ returned.evidence = att[a].evidence /\ returned.acted = att[a].acted
        /\ returned.wrote = att[a].wrote
    BY Zenon, <1>1 DEF Frame
  <1> HIDE DEF g, returned
  <1>4. CASE ReturnPrior(a)
    <2>1. /\ att[a].pc = "priorReceipt"
          /\ Move(a, g("done", "prior")) \/ Move(a, Abort(a))
      BY Zenon, <1>4 DEF ReturnPrior, At, g
    <2>2. Tidy(g("done", "prior"))
      <3>1. Writing(att[a].pc, "prior", g("done", "prior").pc)
        BY Zenon, <1>2, <2>1 DEF Writing
      <3>2. QED
        BY Zenon, <1>1, <1>2, <3>1, WroteTidy
    <2>3. Tidy(Abort(a))
      BY Zenon, <2>1, LeaveTidy DEF CommittedPcs
    <2>4. QED
      BY Zenon, <2>1, <2>2, <2>3, TidyMove
  <1>5. CASE ReleaseCredential(a)
    <2>1. /\ att[a].pc = "release"
          /\ \/ Move(a, returned)
             \/ "broker" \in Faults /\ (Move(a, Refuse(a, "rejected")) \/ Move(a, Abort(a)))
      BY Zenon, <1>5 DEF ReleaseCredential, At, returned
    <2>2. Tidy(returned)
      BY Zenon, <1>1, <1>3, <2>1
      DEF Tidy, Honest, HoldingPcs, EvidencePcs, CommittedPcs, ConsumePcs
    <2>3. "broker" \in Faults => Tidy(Refuse(a, "rejected")) /\ Tidy(Abort(a))
      BY Zenon, LeaveTidy DEF EffectsReported
    <2>4. QED
      BY Zenon, <2>1, <2>2, <2>3, TidyMove
  <1>6. CASE WriteReceipt(a)
    <2>1. /\ att[a].pc = "receipt"
          /\ \/ Move(a, g("record", "executed"))
             \/ "writer" \in Faults /\ Move(a, Abort(a))
      BY Zenon, <1>6 DEF WriteReceipt, At, g
    <2>2. Tidy(g("record", "executed"))
      <3>1. Writing(att[a].pc, "executed", g("record", "executed").pc)
        BY Zenon, <1>2, <2>1 DEF Writing
      <3>2. QED
        BY Zenon, <1>1, <1>2, <3>1, WroteTidy
    <2>3. "writer" \in Faults => Tidy(Abort(a))
      BY Zenon, LeaveTidy DEF EffectsReported
    <2>4. QED
      BY Zenon, <2>1, <2>2, <2>3, TidyMove
  <1>7. CASE RecordOperation(a)
    <2>1. /\ att[a].pc = "record"
          /\ Move(a, To(a, "done")) \/ (~UseEffects /\ Move(a, Refuse(a, "rejected")))
      BY Zenon, <1>7 DEF RecordOperation, At, Idempotent
    <2>2. To(a, "done").pc = "done" /\ SameAccount(att[a], To(a, "done"))
      BY Zenon, JumpSame DEF Pcs, Ended
    <2>3. Tidy(To(a, "done"))
      BY Zenon, <1>1, <2>1, <2>2
      DEF Tidy, Honest, SameAccount, HoldingPcs, EvidencePcs, CommittedPcs, ConsumePcs
    <2>4. ~UseEffects => Tidy(Refuse(a, "rejected"))
      BY Zenon, LeaveTidy DEF EffectsReported
    <2>5. QED
      BY Zenon, <2>1, <2>3, <2>4, TidyMove
  <1>8. QED
    BY Zenon, <1>4, <1>5, <1>6, <1>7

(* The ways out: the credential goes back before anything is written.      *)
LEMMA RefusalTidy ==
    ASSUME TypeOK, TidyInv, NEW a \in Attempts,
           Cleanup(a) \/ WriteRefusal(a) \/ WriteRefusedReceipt(a)
    PROVE  TidyInv'
  <1>1. att[a] \in Frame /\ Tidy(att[a])
    BY Zenon DEF TypeOK, TidyInv
  <1>2. CASE Cleanup(a)
    <2> DEFINE g(pc, code, cred) == [att[a] EXCEPT !.pc = pc, !.code = code, !.cred = cred]
               next == CASE att[a].burnt \/ ~att[a].held -> "refusal"
                         [] At(a, "refuse")             -> "unclaim"
                         [] OTHER                       -> "burn"
    <2>1. next \in {"refusal", "unclaim", "burn"}
      OBVIOUS
    <2>2. att[a].pc \in {"refuse", "abort"}
      BY ZenonT(30), <1>2 DEF Cleanup
    <2>3. PICK code, cred : /\ Move(a, g(next, code, cred))
                            /\ "broker" \notin Faults => cred # "held"
      BY ZenonT(60), <1>2 DEF Cleanup
    <2>4. \A pc : /\ g(pc, code, cred).pc = pc /\ g(pc, code, cred).owned = att[a].owned
                  /\ g(pc, code, cred).started = att[a].started
                  /\ g(pc, code, cred).cred = cred
                  /\ g(pc, code, cred).evidence = att[a].evidence
                  /\ g(pc, code, cred).acted = att[a].acted
                  /\ g(pc, code, cred).wrote = att[a].wrote
      BY <1>1 DEF Frame
    <2> HIDE DEF g, next
    <2>5. Tidy(g(next, code, cred))
      BY <1>1, <2>1, <2>2, <2>3, <2>4
      DEF Tidy, Honest, HoldingPcs, EvidencePcs, CommittedPcs, ConsumePcs, ExceptPcs, BurnPcs,
          UnclaimPcs
    <2>6. QED
      BY Zenon, <2>3, <2>5, TidyMove
  <1>3. CASE WriteRefusal(a) \/ WriteRefusedReceipt(a)
    <2> DEFINE g(pc, doc) == [att[a] EXCEPT !.pc = pc, !.wrote = @ \cup {doc}]
    <2>1. \A pc, doc : g(pc, doc).pc = pc /\ Wrote(att[a], g(pc, doc), doc)
      BY <1>1 DEF Frame, Wrote
    <2>2. /\ att[a].pc \in {"refusal", "refusedReceipt"}
          /\ \/ Move(a, g("refusedReceipt", "refusal"))
             \/ Move(a, g("done", "refused"))
             \/ Move(a, To(a, "raised"))
      BY Zenon, <1>3 DEF WriteRefusal, WriteRefusedReceipt, At
    <2>3. To(a, "raised").pc = "raised" /\ SameAccount(att[a], To(a, "raised"))
      BY Zenon, JumpSame DEF Pcs, Ended
    <2> HIDE DEF g
    <2>4. Tidy(g("refusedReceipt", "refusal"))
      <3>1. Writing(att[a].pc, "refusal", g("refusedReceipt", "refusal").pc)
        BY Zenon, <2>1, <2>2 DEF Writing
      <3>2. QED
        BY Zenon, <1>1, <2>1, <3>1, WroteTidy
    <2>5. Tidy(g("done", "refused"))
      <3>1. Writing(att[a].pc, "refused", g("done", "refused").pc)
        BY Zenon, <2>1, <2>2 DEF Writing
      <3>2. QED
        BY Zenon, <1>1, <2>1, <3>1, WroteTidy
    <2>6. Tidy(To(a, "raised"))
      BY ZenonT(30), <1>1, <2>2, <2>3
      DEF Tidy, Honest, SameAccount, HoldingPcs, EvidencePcs, CommittedPcs, ConsumePcs
    <2>7. QED
      BY Zenon, <2>2, <2>4, <2>5, <2>6, TidyMove
  <1>4. QED
    BY Zenon, <1>2, <1>3

(* The surroundings touch no frame, and a crash only ends some.            *)
LEMMA EnvironmentTidy ==
    ASSUME TypeOK, TidyInv, Environment
    PROVE  TidyInv'
  <1>1. ASSUME UNCHANGED att PROVE TidyInv'
    BY ZenonT(30), <1>1 DEF TidyInv, Tidy, Honest
  <1>2. ASSUME NEW p \in Procs, Crash(p) PROVE TidyInv'
    <2>1. ASSUME NEW a \in Attempts PROVE Tidy(att'[a])
      <3>1. Tidy(att[a])
        BY Zenon DEF TidyInv
      <3>2. att'[a] = att[a] \/ (Live(a) /\ att'[a] = To(a, "crashed"))
        BY Zenon, <1>2 DEF Crash
      <3>3. To(a, "crashed").pc = "crashed" /\ SameAccount(att[a], To(a, "crashed"))
        BY Zenon, JumpSame DEF Pcs, Ended
      <3>4. Live(a) => Tidy(To(a, "crashed"))
        BY Zenon, <3>1, <3>3
        DEF Tidy, Honest, SameAccount, HoldingPcs, EvidencePcs, CommittedPcs, ConsumePcs, Live,
            Ended
      <3>5. QED
        BY Zenon, <3>1, <3>2, <3>4
    <2>2. QED
      BY Zenon, <2>1 DEF TidyInv, Tidy, Honest
  <1>3. QED
    BY Zenon, <1>1, <1>2 DEF Environment, RevokeEscrow, Tick, PurgeExpired

LEMMA TidyInit == Init => TidyInv
    BY DEF Init, NewFrame, TidyInv, Tidy, Honest, HoldingPcs, EvidencePcs, CommittedPcs, ConsumePcs

LEMMA TidyStep == TypeOK /\ TidyInv /\ [Next]_vars => TidyInv'
  <1> SUFFICES ASSUME TypeOK, TidyInv, [Next]_vars PROVE TidyInv'
    BY Zenon
  <1>1. CASE UNCHANGED vars
    BY ZenonT(30), <1>1 DEF vars, TidyInv, Tidy, Honest
  <1>2. ASSUME NEW a \in Attempts, Begin(a) \/ Step(a) PROVE TidyInv'
    BY Zenon, <1>2, BeginTidy, ReplayTidy, HandlerTidy, ApproachTidy, ReceiptTidy, RefusalTidy
    DEF Step, LocalStep
  <1>3. QED
    BY Zenon, <1>1, <1>2, EnvironmentTidy DEF Next

LEMMA TidyInvariant == Spec => []TidyInv
  <1>1. ExecutorInv => TypeOK
    BY Zenon DEF ExecutorInv
  <1>2. QED
    BY <1>1, ExecutorInvariant, TidyInit, TidyStep, PTL DEF Spec

(* Whatever else fails, execute() does not return or raise with a          *)
(* credential that the broker would have taken back.                       *)
THEOREM CredentialReturnedTheorem ==
    ASSUME "broker" \notin Faults
    PROVE  Spec => []CredentialReturned
  <1>1. TidyInv => CredentialReturned
    BY DEF TidyInv, Tidy, CredentialReturned, HoldingPcs, ConsumePcs
  <1>2. QED
    BY <1>1, TidyInvariant, PTL

(* With an effect ledger, and as long as the broker and the outcome writer *)
(* work, a refused receipt that reports no side effect is true, also when  *)
(* the handler raised, returned no evidence or never came back.            *)
THEOREM RefusedMeansNoSideEffectTheorem ==
    ASSUME EffectsReported
    PROVE  Spec => []RefusedMeansNoSideEffect
  <1>1. ExecutorInv /\ TidyInv => RefusedMeansNoSideEffect
    <2> SUFFICES ASSUME ExecutorInv, TidyInv, NEW a \in Attempts, "refused" \in att[a].wrote,
                        RefusedSideEffects(att[a]) = "none", att[a].acted
                 PROVE  FALSE
      BY Zenon DEF RefusedMeansNoSideEffect
    <2>1. att[a] \in Frame
      BY Zenon DEF ExecutorInv, TypeOK
    <2>2. att[a].evidence \in {"none", "COMMITTED", "AMBIGUOUS", "NOT_EXECUTED"}
      BY Zenon, <2>1 DEF Frame
    <2>3. QED
      BY Zenon, <2>2 DEF TidyInv, Tidy, Honest, RefusedSideEffects
  <1>2. QED
    BY <1>1, ExecutorInvariant, TidyInvariant, PTL

-----------------------------------------------------------------------------
(* Claims.  A step of attempt a concerns the row of its own proof: it may  *)
(* make a the keeper of a new claim, or end a's keeping together with the  *)
(* claim.                                                                  *)
KeeperFrame(f) == f.pc = "claimRead" \/ (f.held /\ f.pc \in KeeperPcs)
SpentFrame(f) == f.burnt \/ f.pc \in {"spendRead", "consumeRead", "burnRead"}

ClaimStep(a, g) ==
    LET k == Presents[a]
    IN  /\ \A j \in Keys : row[j] = "consumed" => row'[j] = "consumed"
        /\ \A j \in Keys : row'[j] = "claimed" =>
             row[j] = "claimed" \/ (j = k /\ KeeperFrame(g))
        /\ KeeperFrame(att[a]) => KeeperFrame(g) \/ row'[k] # "claimed"
        /\ SpentFrame(g) => SpentFrame(att[a]) \/ row'[k] = "consumed"

LEMMA ClaimMove ==
    ASSUME TypeOK, ClaimInv, Undisturbed, NEW a \in Attempts, NEW g, Move(a, g),
           ClaimStep(a, g)
    PROVE  ClaimInv'
  <1>1. att'[a] = g /\ \A b \in Attempts \ {a} : att'[b] = att[b]
    BY Zenon DEF TypeOK, Move
  <1>2. ASSUME NEW b \in Attempts, SpentFrame(att'[b]) PROVE row'[Presents[b]] = "consumed"
    BY Zenon, <1>1, <1>2 DEF ClaimInv, ClaimStep, SpentFrame
  <1>3. ASSUME NEW k \in Keys, row'[k] = "claimed"
        PROVE  \E b \in Attempts : Presents[b] = k /\ KeeperFrame(att'[b])
    <2>1. CASE Presents[a] = k /\ KeeperFrame(g)
      BY Zenon, <1>1, <2>1
    <2>2. CASE ~(Presents[a] = k /\ KeeperFrame(g))
      <3>1. row[k] = "claimed"
        BY Zenon, <1>3, <2>2 DEF ClaimStep
      <3>2. PICK b \in Attempts : Presents[b] = k /\ KeeperFrame(att[b])
        BY Zenon, <3>1 DEF ClaimInv, Keeper, KeeperFrame
      <3>3. b # a
        BY Zenon, <1>3, <2>2, <3>2 DEF ClaimStep
      <3>4. QED
        BY Zenon, <1>1, <3>2, <3>3
    <2>3. QED
      BY Zenon, <2>1, <2>2
  <1>4. QED
    BY Zenon, <1>2, <1>3 DEF ClaimInv, Keeper, KeeperFrame, SpentFrame, Undisturbed

(* A step that leaves the tables and stays with its claim, or had none.    *)
LEMMA HoldStep ==
    ASSUME TypeOK, ClaimInv, Undisturbed, NEW a \in Attempts, NEW g, Move(a, g),
           SameHold(att[a], g), UNCHANGED row,
           g.pc \notin {"spendRead", "consumeRead", "burnRead"},
           KeeperFrame(att[a]) => KeeperFrame(g)
    PROVE  ClaimInv'
  <1>1. ClaimStep(a, g)
    BY Zenon DEF ClaimStep, SpentFrame, SameHold
  <1>2. QED
    BY Zenon, <1>1, ClaimMove

(* The second transaction of a store call expires a claim or does nothing. *)
LEMMA RereadClaims ==
    ASSUME TypeOK, NEW a \in Attempts, Reread(a)
    PROVE  /\ \A j \in Keys : row[j] = "consumed" => row'[j] = "consumed"
           /\ \A j \in Keys : row'[j] = "claimed" => row[j] = "claimed"
  <1>1. row \in [Keys -> Status] /\ Presents[a] \in Keys
    BY Zenon DEF TypeOK
  <1>2. QED
    BY Zenon, <1>1 DEF Reread, Inspected

LEMMA ReplayClaims ==
    ASSUME TypeOK, ClaimInv, Undisturbed, NEW a \in Attempts, ReplayStep(a)
    PROVE  ClaimInv'
  <1> DEFINE k == Presents[a]
  <1>1. att[a] \in Frame /\ row \in [Keys -> Status] /\ k \in Keys
    BY Zenon DEF TypeOK
  <1>2. /\ \A pc \in Pcs : To(a, pc).pc = pc /\ SameHold(att[a], To(a, pc))
        /\ \A code : Refuse(a, code).pc = "refuse" /\ SameHold(att[a], Refuse(a, code))
    BY Zenon, JumpSame
  <1>3. ~StoreFails(a)
    BY Zenon DEF StoreFails, Undisturbed
  <1>4. CASE ClaimReplay(a)
    <2>1. att[a].pc = "claim" /\ {"lookup", "claimRead", "claimLost"} \subseteq Pcs
      BY Zenon, <1>4 DEF ClaimReplay, At, Pcs, ClaimPcs, MainPcs
    <2>2. ~KeeperFrame(att[a])
      BY Zenon, <2>1 DEF KeeperFrame, KeeperPcs
    <2>3. CASE row' = row /\ Move(a, To(a, "lookup"))
      BY Zenon, <1>2, <2>1, <2>2, <2>3, HoldStep
    <2>4. CASE row' = row /\ Move(a, To(a, "claimLost"))
      BY Zenon, <1>2, <2>1, <2>2, <2>4, HoldStep
    <2>5. CASE Claimable(row, k, att[a].now) /\ row' = Claimed(row, k) /\ Move(a, To(a, "claimRead"))
      <3>1. To(a, "claimRead").pc = "claimRead" /\ SameHold(att[a], To(a, "claimRead"))
        BY Zenon, <1>2, <2>1
      <3>2. /\ \A j \in Keys : row[j] = "consumed" => row'[j] = "consumed"
            /\ \A j \in Keys : row'[j] = "claimed" => row[j] = "claimed" \/ j = k
        BY Zenon, <1>1, <2>5 DEF Claimable, Claimed
      <3>3. ClaimStep(a, To(a, "claimRead"))
        BY ZenonT(30), <2>2, <3>1, <3>2 DEF ClaimStep, KeeperFrame, SpentFrame, SameHold
      <3>4. QED
        BY Zenon, <2>5, <3>3, ClaimMove
    <2>6. QED
      BY Zenon, <1>4, <2>3, <2>4, <2>5 DEF ClaimReplay
  <1>5. CASE ClaimReread(a)
    <2> DEFINE g == [att[a] EXCEPT !.pc = "lookup", !.held = TRUE]
    <2>1. g.pc = "lookup" /\ g.held /\ g.burnt = att[a].burnt
      BY <1>1 DEF Frame
    <2>2. Move(a, g) /\ Reread(a)
      BY Zenon, <1>5 DEF ClaimReread
    <2> HIDE DEF g
    <2>3. ClaimStep(a, g)
      BY Zenon, <2>1, <2>2, RereadClaims DEF ClaimStep, KeeperFrame, KeeperPcs, SpentFrame
    <2>4. QED
      BY Zenon, <2>2, <2>3, ClaimMove
  <1>6. ASSUME NEW g, Move(a, g), Reread(a), SameHold(att[a], g),
               g.pc \notin {"spendRead", "consumeRead", "burnRead"},
               KeeperFrame(att[a]) => KeeperFrame(g)
        PROVE  ClaimInv'
    <2>1. ClaimStep(a, g)
      BY Zenon, <1>6, RereadClaims DEF ClaimStep, SpentFrame, SameHold
    <2>2. QED
      BY Zenon, <1>6, <2>1, ClaimMove
  <1>7. CASE DuplicateReplay(a)
    <2>1. ~KeeperFrame(att[a])
      BY Zenon, <1>7 DEF DuplicateReplay, At, KeeperFrame, KeeperPcs
    <2>2. QED
      BY Zenon, <1>2, <1>6, <1>7, <2>1 DEF DuplicateReplay
  <1>8. ASSUME NEW site \in {"spend", "consume", "burn"}, MarkConsumed(a, site)
        PROVE  ClaimInv'
    <2>1. /\ att[a].pc = site
          /\ AfterMark[site] \in {"priorReceipt", "handler", "refusal"}
          /\ LostOf[site] \in {"spendLost", "consumeLost", "burnLost"}
      BY <1>8 DEF MarkConsumed, At, AfterMark, LostOf
    <2>2. /\ AfterMark[site] \in Pcs \ {"spendRead", "consumeRead", "burnRead"}
          /\ LostOf[site] \in Pcs \ {"spendRead", "consumeRead", "burnRead"}
      BY Zenon, <2>1 DEF Pcs, SpendPcs, ConsumePcs, BurnPcs, MainPcs, ExceptPcs
    <2>3. CASE ~att[a].held /\ row' = row /\ Move(a, To(a, AfterMark[site]))
      <3>1. ~KeeperFrame(att[a])
        BY Zenon, <2>1, <2>3 DEF KeeperFrame
      <3>2. QED
        BY Zenon, <1>2, <2>2, <2>3, <3>1, HoldStep
    <2>4. CASE row' = Consumed(row, k) /\ Move(a, To(a, ReadOf[site]))
      <3>1. /\ \A j \in Keys : row[j] = "consumed" => row'[j] = "consumed"
            /\ \A j \in Keys : row'[j] = "claimed" => row[j] = "claimed"
            /\ row'[k] = "consumed"
        BY Zenon, <1>1, <2>4 DEF Consumed
      <3>2. ClaimStep(a, To(a, ReadOf[site]))
        BY Zenon, <3>1 DEF ClaimStep
      <3>3. QED
        BY Zenon, <2>4, <3>2, ClaimMove
    <2>5. CASE ~Consumable(row, k) /\ row' = row /\ Move(a, To(a, LostOf[site]))
      <3>1. row'[k] # "claimed"
        BY <2>5 DEF Consumable
      <3>2. ClaimStep(a, To(a, LostOf[site]))
        BY ZenonT(30), <1>2, <2>2, <2>5, <3>1 DEF ClaimStep, SpentFrame, SameHold
      <3>3. QED
        BY Zenon, <2>5, <3>2, ClaimMove
    <2>6. QED
      BY Zenon, <1>8, <2>3, <2>4, <2>5 DEF MarkConsumed
  <1>9. ASSUME NEW site \in {"spend", "consume", "burn"}, MarkReread(a, site)
        PROVE  ClaimInv'
    <2> DEFINE g == [att[a] EXCEPT !.pc = AfterMark[site], !.burnt = TRUE]
    <2>1. att[a].pc \in {"spendRead", "consumeRead", "burnRead"} /\ Move(a, g) /\ Reread(a)
      BY <1>9 DEF MarkReread, At, ReadOf
    <2>2. ClaimStep(a, g)
      <3> HIDE DEF g
      <3>1. SpentFrame(att[a]) /\ ~KeeperFrame(att[a])
        BY Zenon, <2>1 DEF SpentFrame, KeeperFrame, KeeperPcs
      <3>2. QED
        BY Zenon, <2>1, <3>1, RereadClaims DEF ClaimStep
    <2>3. QED
      BY Zenon, <2>1, <2>2, ClaimMove
  <1>10. ASSUME NEW site \in {"spend", "consume", "burn"}, MarkInvalid(a, site)
         PROVE  ClaimInv'
    <2>1. att[a].pc = LostOf[site] /\ Reread(a) /\ "refusal" \in Pcs
      BY Zenon, <1>10 DEF MarkInvalid, At, Pcs, ExceptPcs
    <2>2. CASE site = "burn"
      <3>1. ~KeeperFrame(att[a])
        BY Zenon, <2>1, <2>2 DEF LostOf, KeeperFrame, KeeperPcs
      <3>2. Move(a, To(a, "refusal"))
        BY Zenon, <1>10, <2>2 DEF MarkInvalid
      <3>3. QED
        BY Zenon, <1>2, <1>6, <2>1, <3>1, <3>2
    <2>3. CASE site # "burn"
      <3>1. Move(a, Refuse(a, "rejected"))
        BY Zenon, <1>10, <2>3 DEF MarkInvalid
      <3>2. att[a].pc # "claimRead"
        BY <2>1, <2>3 DEF LostOf
      <3>3. KeeperFrame(att[a]) => KeeperFrame(Refuse(a, "rejected"))
        BY Zenon, <1>2, <3>2 DEF KeeperFrame, KeeperPcs, SameHold
      <3>4. QED
        BY Zenon, <1>2, <1>6, <2>1, <3>1, <3>3
    <2>4. QED
      BY Zenon, <2>2, <2>3
  <1>11. CASE Unclaim(a)
    <2>1. "unclaimRead" \in Pcs /\ "refusal" \in Pcs
      BY Zenon DEF Pcs, UnclaimPcs, ExceptPcs
    <2>2. CASE row' = Released(row, k) /\ Move(a, To(a, "unclaimRead")) /\ Releasable(row, k)
      <3>1. /\ \A j \in Keys : row[j] = "consumed" => row'[j] = "consumed"
            /\ \A j \in Keys : row'[j] = "claimed" => row[j] = "claimed"
            /\ row'[k] # "claimed"
        BY Zenon, <1>1, <2>2 DEF Releasable, Released
      <3>2. ClaimStep(a, To(a, "unclaimRead"))
        BY <1>2, <2>1, <3>1 DEF ClaimStep, SpentFrame, SameHold
      <3>3. QED
        BY Zenon, <2>2, <3>2, ClaimMove
    <2>3. CASE ~Releasable(row, k) /\ row' = row /\ Move(a, To(a, "refusal"))
      <3>1. ClaimStep(a, To(a, "refusal"))
        BY ZenonT(30), <1>2, <2>1, <2>3 DEF ClaimStep, SpentFrame, SameHold, Releasable
      <3>2. QED
        BY Zenon, <2>3, <3>1, ClaimMove
    <2>4. QED
      BY Zenon, <1>11, <2>2, <2>3 DEF Unclaim
  <1>12. CASE UnclaimReread(a)
    <2>1. ~KeeperFrame(att[a]) /\ "refusal" \in Pcs
      BY <1>12 DEF UnclaimReread, At, KeeperFrame, KeeperPcs, Pcs, ExceptPcs
    <2>2. QED
      BY ZenonT(30), <1>2, <1>6, <1>12, <2>1 DEF UnclaimReread
  <1>13. QED
    BY <1>3, <1>4, <1>5, <1>7, <1>8, <1>9, <1>10, <1>11, <1>12 DEF ReplayStep

LEMMA BeginClaims ==
    ASSUME TypeOK, ClaimInv, Undisturbed, NEW a \in Attempts, Begin(a)
    PROVE  ClaimInv'
  <1> DEFINE frame == [att[a] EXCEPT !.now = clock]
             claim == [frame EXCEPT !.pc = "claim"]
             refused == [frame EXCEPT !.pc = "refuse", !.code = "rejected"]
  <1>1. att[a] \in Frame /\ att[a].pc = "idle" /\ UNCHANGED row
    BY DEF TypeOK, Begin, At, stores
  <1>2. claim.pc = "claim" /\ SameHold(att[a], claim)
    BY Zenon, <1>1 DEF Frame, SameHold
  <1>3. refused.pc = "refuse" /\ SameHold(att[a], refused)
    BY <1>1 DEF Frame, SameHold
  <1>4. Move(a, claim) \/ Move(a, refused)
    BY Zenon DEF Begin
  <1> HIDE DEF claim, refused
  <1>5. ~KeeperFrame(att[a])
    BY Zenon, <1>1 DEF KeeperFrame, KeeperPcs
  <1>6. QED
    BY ZenonT(30), <1>1, <1>2, <1>3, <1>4, <1>5, HoldStep

(* The steps between the claim and its end keep it, and the steps after    *)
(* have none.                                                              *)
LEMMA OtherClaims ==
    ASSUME TypeOK, ClaimInv, Undisturbed, NEW a \in Attempts,
           HandlerStep(a) \/ LocalStep(a), ~Cleanup(a)
    PROVE  ClaimInv'
  <1> DEFINE Apart == Pcs \ (KeeperPcs \cup {"claimRead", "spendRead", "consumeRead", "burnRead"})
  <1>1. att[a] \in Frame /\ UNCHANGED row
    BY Zenon DEF TypeOK, HandlerStep, CallHandler, SideEffect, HandlerReturns, HandlerUnconfirmed,
           HandlerRaises, LocalStep, CheckIdempotency, ReturnPrior, ConsumeEscrow, ClaimEffect,
           AcquireCredential, ReleaseCredential, WriteReceipt, RecordOperation, WriteRefusal,
           WriteRefusedReceipt, stores
  <1>2. ASSUME NEW g, Move(a, g), SameHold(att[a], g),
               \/ att[a].pc \in Apart /\ g.pc \in Apart \cup {"refuse", "abort"}
               \/ att[a].pc \in {"lookup", "escrow", "effect", "acquire"} /\ g.pc \in KeeperPcs
        PROVE  ClaimInv'
    <2>1. KeeperFrame(att[a]) => KeeperFrame(g)
      BY Zenon, <1>2 DEF KeeperFrame, SameHold
    <2>2. g.pc \notin {"spendRead", "consumeRead", "burnRead"}
      BY Zenon, <1>2 DEF KeeperPcs
    <2>3. QED
      BY Zenon, <1>1, <1>2, <2>1, <2>2, HoldStep
  <1>3. {"running", "release", "receipt", "record", "priorReceipt", "handler", "refusal",
         "refusedReceipt", "done", "raised"} \subseteq Apart
    BY DEF Pcs, MainPcs, ExceptPcs, Ended, KeeperPcs
  <1> HIDE DEF Apart
  <1>4. /\ \A pc \in Pcs : To(a, pc).pc = pc /\ SameHold(att[a], To(a, pc))
        /\ \A code : Refuse(a, code).pc = "refuse" /\ SameHold(att[a], Refuse(a, code))
        /\ Abort(a).pc = "abort" /\ SameHold(att[a], Abort(a))
    BY Zenon, JumpSame
  <1>5. CASE HandlerStep(a)
    <2> DEFINE called == [att[a] EXCEPT !.pc = "running", !.started = TRUE]
               acted == [att[a] EXCEPT !.acted = TRUE]
               returned == [att[a] EXCEPT !.pc = "release",
                              !.evidence = IF att[a].owned THEN "COMMITTED" ELSE @]
               refused(code, ev) == [Refuse(a, code) EXCEPT !.evidence = ev]
    <2>1. called.pc = "running" /\ SameHold(att[a], called)
      BY Zenon, <1>1 DEF Frame, SameHold
    <2>2. acted.pc = att[a].pc /\ SameHold(att[a], acted)
      BY <1>1 DEF Frame, SameHold
    <2>3. returned.pc = "release" /\ SameHold(att[a], returned)
      BY <1>1 DEF Frame, SameHold
    <2>4. \A code, ev : /\ refused(code, ev).pc = "refuse"
                        /\ SameHold(att[a], refused(code, ev))
      BY Zenon, <1>1 DEF Refuse, Frame, SameHold
    <2>5. /\ att[a].pc \in {"handler", "running"}
          /\ \/ Move(a, called)
             \/ Move(a, acted)
             \/ Move(a, returned)
             \/ Move(a, refused("rejected", "NOT_EXECUTED"))
             \/ Move(a, refused("unknown", "AMBIGUOUS"))
             \/ Move(a, Refuse(a, "unknown"))
             \/ Move(a, Refuse(a, "rejected"))
             \/ Move(a, Abort(a))
      BY Zenon, <1>5 DEF HandlerStep, CallHandler, SideEffect, HandlerReturns, HandlerUnconfirmed,
                  HandlerRaises, At
    <2> HIDE DEF called, acted, returned, refused
    <2>6. ASSUME NEW g, Move(a, g), SameHold(att[a], g),
                 g.pc \in {"handler", "running", "release", "refuse", "abort"}
          PROVE  ClaimInv'
      BY ZenonT(30), <1>2, <1>3, <2>5, <2>6
    <2>7. Move(a, called) \/ Move(a, acted) \/ Move(a, returned) => ClaimInv'
      BY ZenonT(30), <2>1, <2>2, <2>3, <2>5, <2>6
    <2>8. \A code, ev : Move(a, refused(code, ev)) => ClaimInv'
      BY Zenon, <2>4, <2>6
    <2>9. (\E code : Move(a, Refuse(a, code))) \/ Move(a, Abort(a)) => ClaimInv'
      BY <1>4, <2>6
    <2>10. QED
      BY Zenon, <2>5, <2>7, <2>8, <2>9
  <1>6. CASE CheckIdempotency(a) \/ ConsumeEscrow(a) \/ ClaimEffect(a) \/ AcquireCredential(a)
    <2> DEFINE owner == [att[a] EXCEPT !.pc = "acquire", !.owned = TRUE]
               holder == [att[a] EXCEPT !.pc = "consume", !.cred = "held"]
    <2>1. owner.pc = "acquire" /\ SameHold(att[a], owner)
      BY <1>1 DEF Frame, SameHold
    <2>2. holder.pc = "consume" /\ SameHold(att[a], holder)
      BY <1>1 DEF Frame, SameHold
    <2>3. /\ att[a].pc \in {"lookup", "escrow", "effect", "acquire"}
          /\ \/ Move(a, owner)
             \/ Move(a, holder)
             \/ \E pc \in {"escrow", "spend", "effect", "acquire"} : Move(a, To(a, pc))
             \/ Move(a, Refuse(a, "rejected"))
             \/ Move(a, Abort(a))
      BY <1>6 DEF CheckIdempotency, ConsumeEscrow, ClaimEffect, AcquireCredential, At
    <2> HIDE DEF owner, holder
    <2>4. {"escrow", "spend", "effect", "acquire", "consume", "refuse", "abort"} \subseteq KeeperPcs
          /\ {"escrow", "spend", "effect", "acquire"} \subseteq Pcs
      BY DEF KeeperPcs, Pcs, MainPcs, SpendPcs
    <2>5. QED
      BY ZenonT(30), <1>2, <1>4, <2>1, <2>2, <2>3, <2>4
  <1>7. CASE \/ ReturnPrior(a) \/ ReleaseCredential(a) \/ WriteReceipt(a) \/ RecordOperation(a)
             \/ WriteRefusal(a) \/ WriteRefusedReceipt(a)
    <2> DEFINE g(pc, doc) == [att[a] EXCEPT !.pc = pc, !.wrote = @ \cup {doc}]
               returned == [att[a] EXCEPT !.pc = "receipt", !.cred = "released"]
    <2>1. \A pc, doc : g(pc, doc).pc = pc /\ SameHold(att[a], g(pc, doc))
      BY <1>1 DEF Frame, SameHold
    <2>2. returned.pc = "receipt" /\ SameHold(att[a], returned)
      BY Zenon, <1>1 DEF Frame, SameHold
    <2>3. /\ att[a].pc \in {"priorReceipt", "release", "receipt", "record", "refusal",
                            "refusedReceipt"}
          /\ \/ Move(a, g("done", "prior")) \/ Move(a, returned)
             \/ Move(a, g("record", "executed")) \/ Move(a, g("refusedReceipt", "refusal"))
             \/ Move(a, g("done", "refused")) \/ Move(a, To(a, "done"))
             \/ Move(a, To(a, "raised"))
             \/ Move(a, Abort(a)) \/ Move(a, Refuse(a, "rejected"))
      BY Zenon, <1>7 DEF ReturnPrior, ReleaseCredential, WriteReceipt, RecordOperation, WriteRefusal,
                  WriteRefusedReceipt, At
    <2>4. "done" \in Pcs /\ "raised" \in Pcs
      BY Zenon DEF Pcs, Ended
    <2> HIDE DEF g, returned
    <2>5. ASSUME NEW h, Move(a, h), SameHold(att[a], h),
                 h.pc \in {"receipt", "record", "refusedReceipt", "done", "raised", "refuse",
                          "abort"}
          PROVE  ClaimInv'
      BY ZenonT(30), <1>2, <1>3, <2>3, <2>5
    <2>6. \A doc : \A pc \in {"record", "refusedReceipt", "done"} : Move(a, g(pc, doc)) => ClaimInv'
      BY Zenon, <2>1, <2>5
    <2>7. Move(a, returned) => ClaimInv'
      BY Zenon, <2>2, <2>5
    <2>8. Move(a, To(a, "done")) \/ Move(a, To(a, "raised")) => ClaimInv'
      BY Zenon, <1>4, <2>4, <2>5
    <2>9. Move(a, Abort(a)) \/ Move(a, Refuse(a, "rejected")) => ClaimInv'
      BY Zenon, <1>4, <2>5
    <2>10. QED
      BY ZenonT(30), <2>3, <2>6, <2>7, <2>8, <2>9
  <1>8. QED
    BY Zenon, <1>5, <1>6, <1>7 DEF LocalStep

(* The exception handlers of execute() drop a claim only when it is spent. *)
LEMMA CleanupClaims ==
    ASSUME TypeOK, ClaimInv, Undisturbed, NEW a \in Attempts, Cleanup(a)
    PROVE  ClaimInv'
  <1> DEFINE g(pc, code, cred) == [att[a] EXCEPT !.pc = pc, !.code = code, !.cred = cred]
             next == CASE att[a].burnt \/ ~att[a].held -> "refusal"
                       [] At(a, "refuse")             -> "unclaim"
                       [] OTHER                       -> "burn"
  <1>1. att[a] \in Frame /\ UNCHANGED row /\ att[a].pc \in {"refuse", "abort"}
        /\ Presents[a] \in Keys
    BY DEF TypeOK, Cleanup, stores
  <1>2. /\ next \in {"refusal", "unclaim", "burn"}
        /\ next = "refusal" => att[a].burnt \/ ~att[a].held
    OBVIOUS
  <1>3. PICK code, cred : Move(a, g(next, code, cred))
    BY ZenonT(60) DEF Cleanup
  <1>4. \A pc : /\ g(pc, code, cred).pc = pc
                /\ SameHold(att[a], g(pc, code, cred))
    BY <1>1 DEF Frame, SameHold
  <1> HIDE DEF g, next
  <1>5. CASE att[a].burnt
    <2>1. row[Presents[a]] = "consumed"
      BY Zenon, <1>5 DEF ClaimInv
    <2>2. ClaimStep(a, g(next, code, cred))
      BY ZenonT(30), <1>1, <2>1 DEF ClaimStep
    <2>3. QED
      BY Zenon, <1>3, <2>2, ClaimMove
  <1>6. CASE ~att[a].burnt
    <2>1. KeeperFrame(att[a]) => KeeperFrame(g(next, code, cred))
      BY Zenon, <1>1, <1>2, <1>4, <1>6 DEF KeeperFrame, KeeperPcs, SameHold
    <2>2. QED
      BY Zenon, <1>1, <1>2, <1>3, <1>4, <2>1, HoldStep
  <1>7. QED
    BY Zenon, <1>5, <1>6

LEMMA EnvironmentClaims ==
    ASSUME TypeOK, ClaimInv, Undisturbed, Environment
    PROVE  ClaimInv'
  <1>1. row \in [Keys -> Status]
    BY Zenon DEF TypeOK
  <1>2. UNCHANGED att
    BY Zenon DEF Environment, Crash, RevokeEscrow, Tick, PurgeExpired, Undisturbed
  <1>3. /\ \A j \in Keys : row[j] = "consumed" => row'[j] = "consumed"
        /\ \A j \in Keys : row'[j] = "claimed" => row[j] = "claimed"
    <2>1. CASE PurgeExpired
      BY Zenon, <1>1, <2>1 DEF PurgeExpired, Purged
    <2>2. CASE ~PurgeExpired
      BY Zenon, <2>2 DEF Environment, Crash, RevokeEscrow, Tick, stores
    <2>3. QED
      BY Zenon, <2>1, <2>2
  <1>4. QED
    BY <1>2, <1>3 DEF ClaimInv, Keeper

LEMMA ClaimInit == Init => ClaimInv
    BY DEF Init, NewFrame, ClaimInv

LEMMA ClaimStepKeeps == TypeOK /\ ClaimInv /\ [Next]_vars => ClaimInv'
  <1> SUFFICES ASSUME TypeOK, ClaimInv, [Next]_vars PROVE ClaimInv'
    BY Zenon
  <1>1. CASE ~Undisturbed
    BY Zenon, <1>1 DEF ClaimInv, Undisturbed
  <1>2. CASE Undisturbed
    <2>1. CASE UNCHANGED vars
      BY <2>1 DEF vars, ClaimInv, Keeper, Undisturbed
    <2>2. ASSUME NEW a \in Attempts, Begin(a) \/ Step(a) PROVE ClaimInv'
      BY Zenon, <1>2, <2>2, BeginClaims, ReplayClaims, OtherClaims, CleanupClaims DEF Step
    <2>3. QED
      BY Zenon, <1>2, <2>1, <2>2, EnvironmentClaims DEF Next
  <1>3. QED
    BY Zenon, <1>1, <1>2

(* While the replay store and the processes stay up, every way out of      *)
(* execute() has released, consumed or expired the claim, in every         *)
(* configuration and whatever else fails.                                  *)
THEOREM NoOrphanClaimTheorem ==
    ASSUME Undisturbed
    PROVE  Spec => []NoOrphanClaim
  <1>1. ExecutorInv => TypeOK
    BY Zenon DEF ExecutorInv
  <1>2. ClaimInv => NoOrphanClaim
    BY DEF ClaimInv, NoOrphanClaim, Keeper, KeeperPcs, Live, Ended
  <1>3. QED
    BY <1>1, <1>2, ExecutorInvariant, ClaimInit, ClaimStepKeeps, PTL DEF Spec
=============================================================================
