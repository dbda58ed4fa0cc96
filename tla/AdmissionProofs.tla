--------------------------- MODULE AdmissionProofs ---------------------------
(***************************************************************************)
(* What an admission leaves behind when any of its calls raises or the     *)
(* process dies between two of them, for any submissions, requests, seal   *)
(* services, escrow records and outcomes: authority exists only where the  *)
(* policy said allow, an invoice payment it allows is complete, a record   *)
(* is redeemed once, and what anchors an export was recorded.              *)
(***************************************************************************)
EXTENDS AdmissionKernel, CapabilityEscrow, OutcomeRecords, WellFoundedInduction, TLAPS

Proof == [id : (Submissions \cup {"none"}) \X {"local", "sealed"}, changed : SUBSET SealFields]

Pcs == {"parse", "put_intent", "policy", "deny_receipt", "hold_receipt", "refusal", "seal", "issue",
        "put_pccb", "allow_receipt", "admitted", "executed", "raised", "refused", "held"}

Submission == [request : KernelRequests, pc : Pcs, proof : Proof]

(* A proof minted for s, in which nothing that is relied on was changed.   *)
Sound(s, p) == p.id \in {<<s, "local">>, <<s, "sealed">>} /\ p.changed \cap BoundFields = {}

(* A proof is in hand only after the policy allowed; the escrow record is  *)
(* there before the proof is stored, the proof before its receipt, and     *)
(* after the receipt nothing is issued again.                              *)
HandInv ==
    \A s \in Submissions :
        /\ sub[s].proof = NoProof \/ (Decision(s) = "allow" /\ Sound(s, sub[s].proof))
        /\ sub[s].pc \in {"seal", "issue", "put_pccb", "allow_receipt", "admitted"} =>
               sub[s].proof # NoProof
        /\ sub[s].pc \in {"put_pccb", "allow_receipt", "admitted"} =>
               s \in DOMAIN escrows /\ escrows[s] = sub[s].proof.id
        /\ sub[s].pc \in {"allow_receipt", "admitted"} => sub[s].proof \in pccbs

Backed(r) == /\ \E p \in pccbs : p.id = r.proof
             /\ r.of \in DOMAIN escrows /\ escrows[r.of] = r.proof

StoreInv ==
    /\ \A e \in DOMAIN escrows : e \in Submissions /\ Decision(e) = "allow"
    /\ \A p \in pccbs \cup handled : \E s \in Submissions : Sound(s, p)
    /\ \A r \in receipts : r.proof # NoId =>
          r.of \in Submissions /\ sub[r.of].pc \in {"admitted", "executed", "raised"} /\ Backed(r)

KernelInv == sub \in [Submissions -> Submission] /\ HandInv /\ StoreInv

LEMMA KernelStarts == KernelInit => KernelInv
  <1> SUFFICES ASSUME KernelInit PROVE KernelInv
    BY Zenon
  <1>1. NoProof \in Proof
    BY Zenon DEF NoProof, NoId, Proof
  <1>2. PICK f \in [Submissions -> KernelRequests] :
          sub = [s \in Submissions |-> [request |-> f[s], pc |-> "parse", proof |-> NoProof]]
    BY DEF KernelInit
  <1>3. sub \in [Submissions -> Submission]
    BY <1>1, <1>2 DEF Submission, Pcs
  <1>4. \A s \in Submissions : sub[s].pc = "parse" /\ sub[s].proof = NoProof
    BY Zenon, <1>2
  <1>5. HandInv
    BY <1>4 DEF HandInv
  <1>6. StoreInv
    BY DEF KernelInit, StoreInv
  <1>7. QED
    BY <1>3, <1>5, <1>6 DEF KernelInv

(* The requests, and with them the decisions, never change.                *)
LEMMA MoveFields ==
    ASSUME KernelInv, NEW s \in Submissions, NEW pc \in Pcs, Goto(s, pc)
    PROVE  /\ sub' \in [Submissions -> Submission]
           /\ sub'[s].pc = pc /\ sub'[s].proof = sub[s].proof
           /\ \A t \in Submissions : t # s => sub'[t] = sub[t]
           /\ \A t \in Submissions : sub'[t].request = sub[t].request /\ sub'[t].proof = sub[t].proof
  <1> DEFINE g == [sub[s] EXCEPT !.pc = pc]
  <1>1. sub \in [Submissions -> Submission] /\ sub' = [sub EXCEPT ![s] = g]
    BY DEF KernelInv, Goto
  <1>2. g \in Submission /\ g.pc = pc /\ g.proof = sub[s].proof /\ g.request = sub[s].request
    BY <1>1 DEF Submission
  <1> HIDE DEF g
  <1>3. QED
    BY <1>1, <1>2

LEMMA SameDecisions ==
    ASSUME \A t \in Submissions : sub'[t].request = sub[t].request
    PROVE  \A t \in Submissions : Decision(t)' = Decision(t)
  BY Zenon DEF Decision

(* The points a submission comes to before it holds a proof, and the end.  *)
Plain == {"put_intent", "policy", "refusal", "raised", "refused", "held"}

(* A step to a plain point, with no more than a receipt that names no      *)
(* proof.                                                                  *)
LEMMA PlainKeeps ==
    ASSUME KernelInv, NEW s \in Submissions, NEW pc \in Plain, Goto(s, pc),
           UNCHANGED <<escrows, pccbs, handled>>,
           pc = "raised" \/ sub[s].pc \notin {"admitted", "executed", "raised"},
           \A r \in receipts' : r \in receipts \/ r.proof = NoId
    PROVE  KernelInv'
  <1>1. /\ sub' \in [Submissions -> Submission]
        /\ sub'[s].pc = pc /\ sub'[s].proof = sub[s].proof
        /\ \A t \in Submissions : t # s => sub'[t] = sub[t]
        /\ \A t \in Submissions : sub'[t].request = sub[t].request /\ sub'[t].proof = sub[t].proof
    BY MoveFields DEF Plain, Pcs
  <1>2. \A t \in Submissions : Decision(t)' = Decision(t)
    BY Zenon, <1>1, SameDecisions
  <1>3. HandInv'
    BY <1>1, <1>2 DEF KernelInv, HandInv, Plain
  <1>4. StoreInv'
    <2>1. \A e \in DOMAIN escrows' : e \in Submissions /\ Decision(e)' = "allow"
      BY Zenon, <1>2 DEF KernelInv, StoreInv
    <2>2. \A p \in pccbs' \cup handled' : \E t \in Submissions : Sound(t, p)
      BY Zenon DEF KernelInv, StoreInv
    <2>3. ASSUME NEW r \in receipts', r.proof # NoId
          PROVE  /\ r.of \in Submissions /\ sub'[r.of].pc \in {"admitted", "executed", "raised"}
                 /\ Backed(r)'
      <3>1. r \in receipts
        BY Zenon, <2>3
      <3>2. r.of \in Submissions /\ sub[r.of].pc \in {"admitted", "executed", "raised"} /\ Backed(r)
        BY Zenon, <2>3, <3>1 DEF KernelInv, StoreInv
      <3>3. Backed(r)'
        BY Zenon, <3>2 DEF Backed
      <3>4. QED
        BY Zenon, <1>1, <3>2, <3>3
    <2>4. QED
      BY Zenon, <2>1, <2>2, <2>3 DEF StoreInv, Sound
  <1>5. QED
    BY Zenon, <1>1, <1>3, <1>4 DEF KernelInv

(* A step of s that leaves all other submissions and every table but s's   *)
(* own part alone: what is left to show is about s.                        *)
LEMMA OwnKeeps ==
    ASSUME KernelInv, NEW s \in Submissions, sub' \in [Submissions -> Submission],
           \A t \in Submissions : t # s => sub'[t] = sub[t],
           sub'[s].request = sub[s].request, pccbs \subseteq pccbs',
           \A t \in Submissions : t # s /\ t \in DOMAIN escrows =>
               t \in DOMAIN escrows' /\ escrows'[t] = escrows[t],
           DOMAIN escrows' \subseteq DOMAIN escrows \cup {s},
           s \in DOMAIN escrows' => s \in DOMAIN escrows \/ Decision(s) = "allow",
           \A p \in pccbs' \cup handled' : p \in pccbs \cup handled \/ Sound(s, p),
           sub'[s].proof = NoProof \/ (Decision(s) = "allow" /\ Sound(s, sub'[s].proof)),
           sub'[s].pc \in {"seal", "issue", "put_pccb", "allow_receipt", "admitted"} =>
               sub'[s].proof # NoProof,
           sub'[s].pc \in {"put_pccb", "allow_receipt", "admitted"} =>
               s \in DOMAIN escrows' /\ escrows'[s] = sub'[s].proof.id,
           sub'[s].pc \in {"allow_receipt", "admitted"} => sub'[s].proof \in pccbs',
           \A r \in receipts' : r.proof # NoId =>
               \/ r \in receipts /\ (r.of # s \/ (escrows' = escrows /\ sub'[s].pc = "executed"))
               \/ r.of = s /\ sub'[s].pc \in {"admitted", "executed", "raised"} /\ Backed(r)'
    PROVE  KernelInv'
  <1>1. \A t \in Submissions : Decision(t)' = Decision(t)
    BY Zenon, SameDecisions
  <1>2. HandInv'
    <2>1. ASSUME NEW t \in Submissions, t # s
          PROVE  /\ sub'[t].proof = NoProof \/ (Decision(t)' = "allow" /\ Sound(t, sub'[t].proof))
                 /\ sub'[t].pc \in {"seal", "issue", "put_pccb", "allow_receipt", "admitted"} =>
                        sub'[t].proof # NoProof
                 /\ sub'[t].pc \in {"put_pccb", "allow_receipt", "admitted"} =>
                        t \in DOMAIN escrows' /\ escrows'[t] = sub'[t].proof.id
                 /\ sub'[t].pc \in {"allow_receipt", "admitted"} => sub'[t].proof \in pccbs'
      BY <1>1, <2>1 DEF KernelInv, HandInv
    <2>2. QED
      BY <1>1, <2>1 DEF HandInv, Sound
  <1>3. StoreInv'
    <2>1. \A e \in DOMAIN escrows' : e \in Submissions /\ Decision(e)' = "allow"
      BY <1>1 DEF KernelInv, StoreInv
    <2>2. \A p \in pccbs' \cup handled' : \E t \in Submissions : Sound(t, p)
      BY Zenon DEF KernelInv, StoreInv
    <2>3. ASSUME NEW r \in receipts', r.proof # NoId
          PROVE  /\ r.of \in Submissions /\ sub'[r.of].pc \in {"admitted", "executed", "raised"}
                 /\ Backed(r)'
      <3>1. CASE r.of = s /\ sub'[s].pc \in {"admitted", "executed", "raised"} /\ Backed(r)'
        BY Zenon, <3>1
      <3>2. CASE r \in receipts /\ (r.of # s \/ (escrows' = escrows /\ sub'[s].pc = "executed"))
        <4>1. r.of \in Submissions /\ sub[r.of].pc \in {"admitted", "executed", "raised"} /\ Backed(r)
          BY Zenon, <2>3, <3>2 DEF KernelInv, StoreInv
        <4>2. Backed(r)'
          BY Zenon, <3>2, <4>1 DEF Backed
        <4>3. QED
          BY Zenon, <3>2, <4>1, <4>2
      <3>3. QED
        BY Zenon, <2>3, <3>1, <3>2
    <2>4. QED
      BY Zenon, <2>1, <2>2, <2>3 DEF StoreInv, Sound
  <1>4. QED
    BY Zenon, <1>2, <1>3 DEF KernelInv

(* Before its allow receipt a submission has none that names a proof.      *)
LEMMA NoReceiptYet ==
    ASSUME KernelInv, NEW s \in Submissions, sub[s].pc \notin {"admitted", "executed", "raised"},
           NEW r \in receipts, r.proof # NoId
    PROVE  r.of # s
  BY Zenon DEF KernelInv, StoreInv

-----------------------------------------------------------------------------
(* The steps of a submission, action by action.                            *)
LEMMA PlainStepKeeps ==
    ASSUME KernelInv, NEW s \in Submissions,
           Parse(s) \/ PutIntent(s) \/ DenyReceipt(s) \/ Refuse(s) \/ HoldReceipt(s) \/ Fail(s)
    PROVE  KernelInv'
  <1>1. UNCHANGED <<escrows, pccbs, handled>>
    BY Zenon DEF Parse, PutIntent, DenyReceipt, Refuse, HoldReceipt, Fail
  <1>2. \E pc \in Plain : /\ Goto(s, pc)
                          /\ pc = "raised" \/ sub[s].pc \notin {"admitted", "executed", "raised"}
    BY Zenon DEF Parse, PutIntent, DenyReceipt, Refuse, HoldReceipt, Fail, AtStep, Plain
  <1>3. \A r \in receipts' : r \in receipts \/ r.proof = NoId
    <2>1. CASE DenyReceipt(s) \/ HoldReceipt(s)
      BY <2>1 DEF DenyReceipt, HoldReceipt, WriteReceipt, NoProof
    <2>2. CASE Parse(s) \/ PutIntent(s) \/ Refuse(s) \/ Fail(s)
      BY Zenon, <2>2 DEF Parse, PutIntent, Refuse, Fail
    <2>3. QED
      BY Zenon, <2>1, <2>2
  <1>4. QED
    BY Zenon, <1>1, <1>2, <1>3, PlainKeeps

(* A submission that takes a proof, or goes on without one.                *)
LEMMA TakeKeeps ==
    ASSUME KernelInv, NEW s \in Submissions, sub[s].pc \notin {"admitted", "executed", "raised"},
           NEW pc \in {"raised", "deny_receipt", "hold_receipt", "seal", "issue"}, NEW p \in Proof,
           sub' = [sub EXCEPT ![s].pc = pc, ![s].proof = p],
           UNCHANGED <<escrows, pccbs, receipts, handled>>,
           p = NoProof \/ (Decision(s) = "allow" /\ Sound(s, p)),
           pc \in {"seal", "issue"} => p # NoProof
    PROVE  KernelInv'
  <1> DEFINE g == [sub[s] EXCEPT !.pc = pc, !.proof = p]
  <1>1. sub \in [Submissions -> Submission] /\ sub' = [sub EXCEPT ![s] = g]
    BY Zenon DEF KernelInv
  <1>2. g \in Submission /\ g.pc = pc /\ g.proof = p /\ g.request = sub[s].request
    BY <1>1 DEF Submission, Pcs
  <1> HIDE DEF g
  <1>3. /\ sub' \in [Submissions -> Submission] /\ sub'[s] = g
        /\ \A t \in Submissions : t # s => sub'[t] = sub[t]
    <2>1. sub' \in [Submissions -> Submission]
      BY Zenon, <1>1, <1>2
    <2>2. sub'[s] = g /\ \A t \in Submissions : t # s => sub'[t] = sub[t]
      BY Zenon, <1>1
    <2>3. QED
      BY Zenon, <2>1, <2>2
  <1>4. s \in DOMAIN escrows => Decision(s) = "allow"
    BY Zenon DEF KernelInv, StoreInv
  <1>5. \A r \in receipts : r.proof # NoId => r.of # s
    BY NoReceiptYet
  <1>6. QED
    BY <1>2, <1>3, <1>4, <1>5, OwnKeeps

LEMMA DecideKeeps ==
    ASSUME KernelInv, NEW s \in Submissions, Decide(s)
    PROVE  KernelInv'
  <1> DEFINE pc == CASE Decision(s) = "raised" -> "raised"
                     [] Decision(s) = "deny" -> "deny_receipt"
                     [] Decision(s) = "allow" -> "seal"
                     [] OTHER -> "hold_receipt"
             p == IF Decision(s) = "allow" THEN [NoProof EXCEPT !.id = <<s, "local">>] ELSE NoProof
  <1>1. /\ sub' = [sub EXCEPT ![s].pc = pc, ![s].proof = p] /\ sub[s].pc = "policy"
        /\ UNCHANGED <<escrows, pccbs, receipts, handled>>
    BY DEF Decide, AtStep
  <1>2. [NoProof EXCEPT !.id = <<s, "local">>] = [id |-> <<s, "local">>, changed |-> {}]
    BY DEF NoProof
  <1>3. /\ p \in Proof
        /\ p = NoProof \/ (Decision(s) = "allow" /\ Sound(s, p))
        /\ Decision(s) = "allow" => p # NoProof
    BY <1>2, SubmissionAssumption DEF NoProof, NoId, Proof, Sound
  <1>4. pc \in {"raised", "deny_receipt", "hold_receipt", "seal"} /\ (pc = "seal" => Decision(s) = "allow")
    OBVIOUS
  <1> HIDE DEF pc, p
  <1>5. /\ pc \in {"raised", "deny_receipt", "hold_receipt", "seal", "issue"}
        /\ pc \in {"seal", "issue"} => p # NoProof
        /\ sub[s].pc \notin {"admitted", "executed", "raised"}
    BY <1>1, <1>3, <1>4
  <1>6. PICK c \in {"raised", "deny_receipt", "hold_receipt", "seal", "issue"}, q \in Proof :
          c = pc /\ q = p
    BY Zenon, <1>3, <1>5
  <1>7. /\ sub' = [sub EXCEPT ![s].pc = c, ![s].proof = q]
        /\ q = NoProof \/ (Decision(s) = "allow" /\ Sound(s, q))
        /\ c \in {"seal", "issue"} => q # NoProof
    BY Zenon, <1>1, <1>3, <1>5, <1>6
  <1>8. QED
    BY Zenon, <1>1, <1>5, <1>7, TakeKeeps

(* A jump to "issue" with the proof that is in hand.                       *)
LEMMA IssueNextKeeps ==
    ASSUME KernelInv, NEW s \in Submissions, sub[s].pc = "seal", Goto(s, "issue"),
           UNCHANGED <<escrows, pccbs, receipts, handled>>
    PROVE  KernelInv'
  <1>1. /\ sub' \in [Submissions -> Submission]
        /\ sub'[s].pc = "issue" /\ sub'[s].proof = sub[s].proof
        /\ \A t \in Submissions : t # s => sub'[t] = sub[t]
        /\ \A t \in Submissions : sub'[t].request = sub[t].request /\ sub'[t].proof = sub[t].proof
    BY Zenon, MoveFields DEF Pcs
  <1>2. /\ sub[s].proof # NoProof /\ Decision(s) = "allow" /\ Sound(s, sub[s].proof)
    BY Zenon DEF KernelInv, HandInv
  <1>3. \A r \in receipts : r.proof # NoId => r.of # s
    BY Zenon, NoReceiptYet
  <1>4. QED
    BY <1>1, <1>2, <1>3, OwnKeeps

LEMMA SealKeeps ==
    ASSUME KernelInv, NEW s \in Submissions, Seal(s)
    PROVE  KernelInv'
  <1>1. sub[s].pc = "seal" /\ UNCHANGED <<escrows, pccbs, receipts, handled>>
    BY Zenon DEF Seal, SealRefused, AtStep
  <1>2. CASE Goto(s, "issue")
    BY Zenon, <1>1, <1>2, IssueNextKeeps
  <1>3. CASE Goto(s, "refusal")
    BY Zenon, <1>1, <1>3, PlainKeeps DEF Plain
  <1>4. ASSUME NEW changed \in SUBSET SealFields, SealAccepted(changed),
               sub' = [sub EXCEPT ![s].pc = "issue",
                                  ![s].proof = [id |-> <<s, "sealed">>, changed |-> changed]]
        PROVE  KernelInv'
    <2> DEFINE p == [id |-> <<s, "sealed">>, changed |-> changed]
    <2>1. Decision(s) = "allow"
      BY Zenon, <1>1 DEF KernelInv, HandInv
    <2>2. p \in Proof /\ Sound(s, p) /\ p # NoProof
      BY Zenon, <1>4, SubmissionAssumption DEF Proof, Sound, SealAccepted, NoProof, NoId
    <2> HIDE DEF p
    <2>3. QED
      BY Zenon, <1>1, <1>4, <2>1, <2>2, TakeKeeps DEF p
  <1>5. QED
    BY Zenon, <1>2, <1>3, <1>4 DEF Seal, SealRefused

(* The issued record is the one of the proof in hand, and it overwrites no *)
(* record a receipt speaks of.                                             *)
LEMMA IssueEscrowKeeps ==
    ASSUME KernelInv, NEW s \in Submissions, IssueEscrow(s)
    PROVE  KernelInv'
  <1>1. /\ sub' \in [Submissions -> Submission]
        /\ sub'[s].pc = "put_pccb" /\ sub'[s].proof = sub[s].proof
        /\ \A t \in Submissions : t # s => sub'[t] = sub[t]
        /\ \A t \in Submissions : sub'[t].request = sub[t].request /\ sub'[t].proof = sub[t].proof
    BY Zenon, MoveFields DEF Pcs, IssueEscrow
  <1>2. sub[s].pc = "issue" /\ UNCHANGED <<pccbs, receipts, handled>>
    BY Zenon DEF IssueEscrow, AtStep
  <1>3. /\ DOMAIN escrows' = DOMAIN escrows \cup {s} /\ escrows'[s] = sub[s].proof.id
        /\ \A t \in DOMAIN escrows : t # s => escrows'[t] = escrows[t]
    BY Zenon DEF IssueEscrow
  <1>4. sub[s].proof # NoProof /\ Decision(s) = "allow" /\ Sound(s, sub[s].proof)
    BY Zenon, <1>2 DEF KernelInv, HandInv
  <1>5. \A r \in receipts : r.proof # NoId => r.of # s
    BY Zenon, <1>2, NoReceiptYet
  <1>6. QED
    BY <1>1, <1>2, <1>3, <1>4, <1>5, OwnKeeps

LEMMA PutPccbKeeps ==
    ASSUME KernelInv, NEW s \in Submissions, PutPccb(s)
    PROVE  KernelInv'
  <1>1. /\ sub' \in [Submissions -> Submission]
        /\ sub'[s].pc = "allow_receipt" /\ sub'[s].proof = sub[s].proof
        /\ \A t \in Submissions : t # s => sub'[t] = sub[t]
        /\ \A t \in Submissions : sub'[t].request = sub[t].request /\ sub'[t].proof = sub[t].proof
    BY Zenon, MoveFields DEF Pcs, PutPccb
  <1>2. /\ sub[s].pc = "put_pccb" /\ UNCHANGED <<escrows, receipts, handled>>
        /\ pccbs' = pccbs \cup {sub[s].proof}
    BY Zenon DEF PutPccb, AtStep
  <1>3. /\ sub[s].proof # NoProof /\ Decision(s) = "allow" /\ Sound(s, sub[s].proof)
        /\ s \in DOMAIN escrows /\ escrows[s] = sub[s].proof.id
    BY Zenon, <1>2 DEF KernelInv, HandInv
  <1>4. \A r \in receipts : r.proof # NoId => r.of # s
    BY Zenon, <1>2, NoReceiptYet
  <1>5. QED
    BY ZenonT(30), <1>1, <1>2, <1>3, <1>4, OwnKeeps

LEMMA AllowReceiptKeeps ==
    ASSUME KernelInv, NEW s \in Submissions, AllowReceipt(s)
    PROVE  KernelInv'
  <1>1. /\ sub' \in [Submissions -> Submission]
        /\ sub'[s].pc = "admitted" /\ sub'[s].proof = sub[s].proof
        /\ \A t \in Submissions : t # s => sub'[t] = sub[t]
        /\ \A t \in Submissions : sub'[t].request = sub[t].request /\ sub'[t].proof = sub[t].proof
    BY Zenon, MoveFields DEF Pcs, AllowReceipt
  <1>2. sub[s].pc = "allow_receipt" /\ UNCHANGED <<escrows, pccbs, handled>>
    BY Zenon DEF AllowReceipt, AtStep
  <1>3. /\ sub[s].proof # NoProof /\ Decision(s) = "allow" /\ Sound(s, sub[s].proof)
        /\ s \in DOMAIN escrows /\ escrows[s] = sub[s].proof.id /\ sub[s].proof \in pccbs
    BY Zenon, <1>2 DEF KernelInv, HandInv
  <1>4. \A r \in receipts : r.proof # NoId => r.of # s
    BY Zenon, <1>2, NoReceiptYet
  <1>5. \A r \in receipts' : r \in receipts \/ (r.of = s /\ r.proof = sub[s].proof.id)
    BY DEF AllowReceipt, WriteReceipt
  <1>6. \A r \in receipts' : r \notin receipts => r.of = s /\ Backed(r)'
    BY Zenon, <1>2, <1>3, <1>5 DEF Backed
  <1>7. QED
    BY <1>1, <1>2, <1>3, <1>4, <1>6, OwnKeeps

LEMMA AdmitAndExecuteKeeps ==
    ASSUME KernelInv, NEW s \in Submissions, AdmitAndExecute(s)
    PROVE  KernelInv'
  <1>1. /\ sub' \in [Submissions -> Submission]
        /\ sub'[s].pc = "executed" /\ sub'[s].proof = sub[s].proof
        /\ \A t \in Submissions : t # s => sub'[t] = sub[t]
        /\ \A t \in Submissions : sub'[t].request = sub[t].request /\ sub'[t].proof = sub[t].proof
    BY Zenon, MoveFields DEF Pcs, AdmitAndExecute
  <1>2. /\ sub[s].pc = "admitted" /\ UNCHANGED <<escrows, pccbs, receipts>>
        /\ handled' = handled \cup {sub[s].proof}
    BY Zenon DEF AdmitAndExecute, AtStep
  <1>3. sub[s].proof # NoProof /\ Decision(s) = "allow" /\ Sound(s, sub[s].proof)
    BY <1>2 DEF KernelInv, HandInv
  <1>4. QED
    BY Zenon, <1>1, <1>2, <1>3, OwnKeeps

LEMMA KernelKept == ASSUME KernelInv, [KernelNext]_kernelVars PROVE KernelInv'
  <1>1. CASE KernelNext
    <2>1. PICK s \in Submissions : KernelStep(s)
      BY Zenon, <1>1 DEF KernelNext
    <2>2. QED
      BY Zenon, <2>1, PlainStepKeeps, DecideKeeps, SealKeeps, IssueEscrowKeeps, PutPccbKeeps,
         AllowReceiptKeeps, AdmitAndExecuteKeeps DEF KernelStep
  <1>2. CASE UNCHANGED kernelVars
    <2>1. UNCHANGED <<sub, escrows, pccbs, receipts, handled>>
      BY Zenon, <1>2 DEF kernelVars
    <2>2. \A t \in Submissions : Decision(t)' = Decision(t)
      BY Zenon, <2>1, SameDecisions DEF KernelInv
    <2>3. HandInv'
      BY Zenon, <2>1, <2>2 DEF KernelInv, HandInv
    <2>4. StoreInv'
      BY <2>1, <2>2 DEF KernelInv, StoreInv, Backed
    <2>5. QED
      BY Zenon, <2>1, <2>3, <2>4 DEF KernelInv
  <1>3. QED
    BY Zenon, <1>1, <1>2

LEMMA KernelInvariant == KernelSpec => []KernelInv
  <1>2. KernelInv /\ [KernelNext]_kernelVars => KernelInv'
    BY Zenon, KernelKept
  <1>3. QED
    BY KernelStarts, <1>2, PTL DEF KernelSpec

(***************************************************************************)
(* What an allowed invoice payment is.                                     *)
(***************************************************************************)

(* A set of numbers that is not empty has a least element.                 *)
LEMMA LeastOfNumbers ==
    ASSUME NEW S \in SUBSET Nat, S # {}
    PROVE  \E i \in S : \A j \in S : i <= j
  <1> DEFINE R == OpToRel(<, Nat)
  <1>1. \A x, y \in Nat : <<y, x>> \in R <=> y < x
    BY DEF OpToRel
  <1>2. IsWellFoundedOn(R, Nat)
    BY NatLessThanWellFounded
  <1> HIDE DEF R
  <1>3. PICK x \in S : \A y \in S : ~(<<y, x>> \in R)
    BY Zenon, <1>2, WFMin
  <1>4. ASSUME NEW j \in S PROVE x <= j
    <2>1. ~(j < x)
      BY Zenon, <1>1, <1>3
    <2>2. QED
      BY <2>1
  <1>5. QED
    BY <1>4

Increasing(q) == \A m, n \in DOMAIN q : m < n => q[m] < q[n]

Insertable(q, m, x) ==
    \E r \in [1 .. m + 1 -> Int] : Increasing(r) /\ InvoiceIds(r) = InvoiceIds(q) \cup {x}

(* A further id has its place in a sorted list.                            *)
LEMMA InsertKeepsOrder ==
    ASSUME NEW m \in Nat, NEW q \in [1 .. m -> Int], Increasing(q),
           NEW x \in Int, x \notin InvoiceIds(q)
    PROVE  Insertable(q, m, x)
  <1> DEFINE A == {j \in 1 .. m + 1 : j = m + 1 \/ x < q[j]}
  <1>1. m + 1 \in A /\ A \in SUBSET Nat
    OBVIOUS
  <1>2. PICK k \in A : \A j \in A : k <= j
    BY Zenon, <1>1, LeastOfNumbers
  <1>3. \A j \in 1 .. m : q[j] # x
    BY DEF InvoiceIds
  <1>4. k \in 1 .. m + 1 /\ \A j \in 1 .. m : j < k => q[j] < x
    BY <1>2, <1>3
  <1>5. \A i, j \in 1 .. m : i < j => q[i] < q[j]
    BY Zenon DEF Increasing
  <1>6. \A j \in 1 .. m : k <= j => x < q[j]
    BY <1>2, <1>5
  <1> DEFINE r == [j \in 1 .. m + 1 |-> IF j < k THEN q[j] ELSE IF j = k THEN x ELSE q[j - 1]]
  <1>7. r \in [1 .. m + 1 -> Int]
    BY <1>4
  <1> HIDE DEF A
  <1>8. ASSUME NEW i \in 1 .. m + 1, NEW j \in 1 .. m + 1, i < j PROVE r[i] < r[j]
    <2>1. CASE j < k
      BY <1>4, <1>5, <1>8, <2>1
    <2>2. CASE j = k
      BY <1>4, <1>8, <2>2
    <2>3. CASE k < j /\ i < k
      BY <1>4, <1>6, <2>3
    <2>4. CASE k < j /\ i = k
      BY <1>4, <1>6, <2>4
    <2>5. CASE k < i
      BY <1>4, <1>5, <1>8, <2>5
    <2>6. QED
      BY <1>4, <2>1, <2>2, <2>3, <2>4, <2>5
  <1>9. \A j \in 1 .. m + 1 : r[j] \in InvoiceIds(q) \cup {x}
    BY <1>4 DEF InvoiceIds
  <1>10. \A j \in 1 .. m : \E i \in 1 .. m + 1 : r[i] = q[j]
    <2> SUFFICES ASSUME NEW j \in 1 .. m PROVE \E i \in 1 .. m + 1 : r[i] = q[j]
      BY Zenon
    <2>1. CASE j < k
      BY <2>1
    <2>2. CASE k <= j
      <3>1. r[j + 1] = q[j] /\ j + 1 \in 1 .. m + 1
        BY <1>4, <2>2
      <3>2. QED
        BY <3>1
    <2>3. QED
      BY <1>4, <2>1, <2>2
  <1>11. r[k] = x /\ DOMAIN r = 1 .. m + 1 /\ DOMAIN q = 1 .. m
    BY <1>4
  <1> HIDE DEF r
  <1>12. InvoiceIds(r) = InvoiceIds(q) \cup {x}
    BY ZenonT(30), <1>4, <1>9, <1>10, <1>11 DEF InvoiceIds
  <1>13. Increasing(r)
    BY Zenon, <1>8, <1>11 DEF Increasing
  <1>14. QED
    BY <1>7, <1>12, <1>13 DEF Insertable

SortedList(f, n, q, m) == m <= n /\ Increasing(q) /\ InvoiceIds(q) = InvoiceIds(f)

(* Every list of ids has a sorted list of the same ids: a shortest list    *)
(* without one is not empty, and the list short of its last id has one.    *)
LEMMA SortedExists ==
    \A n \in Nat : \A f \in [1 .. n -> Int] :
        \E m \in Nat : \E q \in [1 .. m -> Int] : SortedList(f, n, q, m)
  <1> DEFINE Good(n) == \A f \in [1 .. n -> Int] :
                            \E m \in Nat : \E q \in [1 .. m -> Int] : SortedList(f, n, q, m)
             Bad == {n \in Nat : ~Good(n)}
  <1> SUFFICES ASSUME Bad # {} PROVE FALSE
    OBVIOUS
  <1>1. PICK n \in Bad : \A j \in Bad : n <= j
    BY Zenon, LeastOfNumbers
  <1>2. n \in Nat /\ ~Good(n) /\ \A j \in Nat : j < n => Good(j)
    BY <1>1
  <1>3. PICK f \in [1 .. n -> Int] :
            ~ \E m \in Nat : \E q \in [1 .. m -> Int] : SortedList(f, n, q, m)
    BY Zenon, <1>2
  <1> HIDE DEF Bad
  <1>4. n # 0
    <2> SUFFICES ASSUME n = 0 PROVE FALSE
      BY Zenon
    <2>1. SortedList(f, n, f, n)
      BY DEF SortedList, Increasing
    <2>2. QED
      BY <1>2, <1>3, <2>1
  <1> DEFINE g == [k \in 1 .. n - 1 |-> f[k]]
  <1>5. g \in [1 .. n - 1 -> Int] /\ n - 1 \in Nat /\ f[n] \in Int /\ n - 1 < n
    BY <1>2, <1>4
  <1>6. PICK m \in Nat : \E q \in [1 .. m -> Int] : SortedList(g, n - 1, q, m)
    BY Zenon, <1>2, <1>5
  <1>7. PICK q \in [1 .. m -> Int] : SortedList(g, n - 1, q, m)
    BY Zenon, <1>6
  <1>8. InvoiceIds(f) = InvoiceIds(g) \cup {f[n]}
    <2>1. 1 .. n = (1 .. n - 1) \cup {n}
      BY <1>2, <1>4
    <2>2. DOMAIN f = 1 .. n /\ DOMAIN g = 1 .. n - 1 /\ \A k \in 1 .. n - 1 : g[k] = f[k]
      BY Zenon
    <2> HIDE DEF g
    <2>3. \A x : x \in InvoiceIds(f) <=> \E k \in 1 .. n : x = f[k]
      BY Zenon, <2>2 DEF InvoiceIds
    <2>4. \A x : x \in InvoiceIds(g) <=> \E k \in 1 .. n - 1 : x = f[k]
      BY Zenon, <2>2 DEF InvoiceIds
    <2>5. \A x : x \in InvoiceIds(f) <=> x \in InvoiceIds(g) \/ x = f[n]
      BY Zenon, <2>1, <2>3, <2>4
    <2>6. QED
      BY Zenon, <2>5
  <1> HIDE DEF g, Good
  <1>9. CASE f[n] \in InvoiceIds(q)
    <2>1. SortedList(f, n, q, m)
      BY <1>2, <1>7, <1>8, <1>9 DEF SortedList
    <2>2. QED
      BY Zenon, <1>3, <2>1
  <1>10. CASE f[n] \notin InvoiceIds(q)
    <2>1. Increasing(q) /\ m + 1 \in Nat
      BY <1>7 DEF SortedList
    <2>2. Insertable(q, m, f[n])
      BY Zenon, <1>5, <1>6, <1>7, <1>10, <2>1, InsertKeepsOrder
    <2>3. PICK r \in [1 .. m + 1 -> Int] : Increasing(r) /\ InvoiceIds(r) = InvoiceIds(q) \cup {f[n]}
      BY Zenon, <2>2 DEF Insertable
    <2>4. SortedList(f, n, r, m + 1)
      BY <1>2, <1>7, <1>8, <2>3 DEF SortedList
    <2>5. QED
      BY Zenon, <1>3, <2>1, <2>4
  <1>11. QED
    BY <1>9, <1>10

(* Sorting a list of invoice ids keeps the ids.                            *)
LEMMA NormalizeKeepsIds ==
    ASSUME NEW ids \in Seq(Int)
    PROVE  InvoiceIds(NormalizeInvoiceIds(ids)) = InvoiceIds(ids)
  <1>1. Len(ids) \in Nat /\ ids \in [1 .. Len(ids) -> Int]
    OBVIOUS
  <1>2. PICK m \in Nat : \E q \in [1 .. m -> Int] : SortedList(ids, Len(ids), q, m)
    BY Zenon, <1>1, SortedExists
  <1>3. PICK q \in [1 .. m -> Int] : SortedList(ids, Len(ids), q, m)
    BY Zenon, <1>2
  <1>4. \A n \in 1 .. m : q[n] \in InvoiceIds(ids)
    BY Zenon, <1>3 DEF SortedList, InvoiceIds
  <1>5. m \in 0 .. Len(ids) /\ q \in [1 .. m -> InvoiceIds(ids)]
    BY <1>1, <1>3, <1>4 DEF SortedList
  <1>6. q \in UNION {[1 .. n -> InvoiceIds(ids)] : n \in 0 .. Len(ids)}
    BY Zenon, <1>5
  <1>7. InvoiceIds(q) = InvoiceIds(ids) /\ \A k, n \in DOMAIN q : k < n => q[k] < q[n]
    BY Zenon, <1>3 DEF SortedList, Increasing
  <1>8. QED
    BY Zenon, <1>6, <1>7 DEF NormalizeInvoiceIds

(* The aggregate is allow only if no rule held the intent back.            *)
LEMMA AllowIsAlone ==
    ASSUME NEW found, Aggregate(found) = "allow"
    PROVE  "deny" \notin found /\ "needs-evidence" \notin found /\ "approval-required" \notin found
  <1> DEFINE ranks == <<"deny", "needs-evidence", "approval-required", "allow">>
             First(n) == ranks[n] \in found /\ \A m \in 1 .. (n - 1) : ranks[m] \notin found
  <1>1. found # {} /\ Aggregate(found) = ranks[CHOOSE n \in 1 .. 4 : First(n)]
    BY Zenon DEF Aggregate
  <1>2. ranks[1] = "deny" /\ ranks[2] = "needs-evidence" /\ ranks[3] = "approval-required"
        /\ ranks[4] = "allow"
    OBVIOUS
  <1> HIDE DEF ranks
  <1>3. \A k \in 1 .. 4 : First(k) => (CHOOSE n \in 1 .. 4 : First(n)) = k
    <2> SUFFICES ASSUME NEW k \in 1 .. 4, First(k) PROVE (CHOOSE n \in 1 .. 4 : First(n)) = k
      BY Zenon
    <2>1. \A n \in 1 .. 4 : First(n) => n = k
      OBVIOUS
    <2> HIDE DEF First
    <2>2. QED
      BY Zenon, <2>1
  <1>4. \A k \in 1 .. 3 : ~First(k)
    BY <1>1, <1>2, <1>3
  <1>5. "deny" \notin found
    BY <1>2, <1>4
  <1>6. "needs-evidence" \notin found
    BY <1>2, <1>4, <1>5
  <1>7. "approval-required" \notin found
    BY <1>2, <1>4, <1>5, <1>6
  <1>8. QED
    BY <1>5, <1>6, <1>7

(* An intent that is allowed passed every hard rule and every workflow     *)
(* rule.                                                                   *)
LEMMA AllowedPasses ==
    ASSUME NEW i, NEW c, c.wedge = "invoice_payment", Evaluate(i, c) = "allow"
    PROVE  /\ ~HardRulesRaise(i, c) /\ InvoiceShape(i) = {} /\ ConstraintBinding(i.action) = {}
           /\ FactBinding(i.action.parameters, c.facts) = {}
           /\ InvoiceSet(i.action.parameters, c.facts) = {}
           /\ Duplicate(i.action.parameters, c.facts) = {}
           /\ BatchHashRule(i.action.parameters, c.facts) = {}
           /\ Aggregate(InvoiceWorkflow(i, c)) = "allow"
  <1>1. ~HardRulesRaise(i, c) /\ HardDenials(i, c) = {} /\ Aggregate(Workflow(i, c)) = "allow"
    BY Zenon DEF Evaluate
  <1>2. Aggregate({}) = "deny"
    BY Zenon DEF Aggregate
  <1>3. Workflow(i, c) = InvoiceWorkflow(i, c)
    BY Zenon, <1>1, <1>2 DEF Workflow
  <1>4. HardDenials(i, c) =
          Chronology(i, c) \cup Ttl(i, c) \cup CapabilityScope(i, c) \cup
          (ReceiptEvidence(i, c, "invoice_payment.execute") \cup InvoiceShape(i)
             \cup ConstraintBinding(i.action) \cup FactBinding(i.action.parameters, c.facts)
             \cup InvoiceSet(i.action.parameters, c.facts) \cup Duplicate(i.action.parameters, c.facts)
             \cup BatchHashRule(i.action.parameters, c.facts))
    BY Zenon DEF HardDenials
  <1>5. QED
    BY Zenon, <1>1, <1>3, <1>4

(* What the shape rule leaves, once no rule raised.                        *)
LEMMA ShapeFields ==
    ASSUME NEW i, NEW c, c.wedge = "invoice_payment", ~HardRulesRaise(i, c), InvoiceShape(i) = {}
    PROVE  LET a == i.action
               p == a.parameters
           IN  /\ a.name = "invoice_payment.execute" /\ a.capability = "invoice_payment.execute"
               /\ a.resourceType = "payment_batch" /\ a.resourceId = p.batch
               /\ BoundKeys \cup {"proposer"} \subseteq DOMAIN p
               /\ p.proposer = i.requester /\ p.invoices = NormalizeInvoiceIds(p.invoices)
  <1> DEFINE a == i.action
             p == a.parameters
  <1>1. a.name = "invoice_payment.execute" /\ a.capability = "invoice_payment.execute"
        /\ a.resourceType = "payment_batch"
    BY Zenon DEF InvoiceShape
  <1>2. \A k \in StringKeys : Lookup(p, k, "") # ""
    BY Zenon DEF InvoiceShape
  <1>3. Lookup(p, "invoices", <<>>) # <<>> /\ p.invoices = NormalizeInvoiceIds(p.invoices)
    BY Zenon DEF InvoiceShape
  <1>4. a.resourceId = p.batch /\ p.proposer = i.requester
    BY Zenon DEF InvoiceShape
  <1>5. "proposer" \in DOMAIN p
    BY Zenon, <1>2 DEF Lookup, StringKeys
  <1>6. (BoundKeys \ {"invoices"}) \subseteq DOMAIN p
    BY Zenon DEF HardRulesRaise
  <1>7. "invoices" \in DOMAIN p
    BY Zenon, <1>3 DEF Lookup
  <1>8. BoundKeys \cup {"proposer"} \subseteq DOMAIN p
    BY Zenon, <1>5, <1>6, <1>7
  <1>9. QED
    BY Zenon, <1>1, <1>3, <1>4, <1>8

(* An allowed invoice payment is what the intake helper builds of it.      *)
LEMMA AllowedIsBuilt ==
    ASSUME NEW i, NEW c, c.wedge = "invoice_payment", Evaluate(i, c) = "allow",
           "invoices" \in DOMAIN c.facts => c.facts.invoices \in Seq(Int)
    PROVE  AsBuilt(i, c.facts)
  <1> DEFINE a == i.action
             p == a.parameters
             facts == c.facts
             payment == [k \in BoundKeys \ {"hash"} |-> p[k]]
             normal == [payment EXCEPT !.invoices = NormalizeInvoiceIds(payment.invoices)]
             bound == [k \in BoundKeys |-> IF k = "hash" THEN BatchHash(normal) ELSE normal[k]]
             built == BuiltAction(payment, i.requester)
  <1>1. /\ ~HardRulesRaise(i, c) /\ InvoiceShape(i) = {} /\ ConstraintBinding(a) = {}
        /\ FactBinding(p, facts) = {} /\ InvoiceSet(p, facts) = {} /\ Duplicate(p, facts) = {}
        /\ BatchHashRule(p, facts) = {}
    BY Zenon, AllowedPasses
  <1>2. /\ a.name = "invoice_payment.execute" /\ a.capability = "invoice_payment.execute"
        /\ a.resourceType = "payment_batch" /\ a.resourceId = p.batch
        /\ BoundKeys \cup {"proposer"} \subseteq DOMAIN p
        /\ p.proposer = i.requester /\ p.invoices = NormalizeInvoiceIds(p.invoices)
    BY Zenon, <1>1, ShapeFields
  <1>3. /\ p.hash = BatchHash(p) /\ ~Contradicts(facts, "hash", p.hash)
    BY Zenon, <1>1 DEF BatchHashRule
  <1>4. \A k \in BoundKeys : k \in DOMAIN a.constraints /\ a.constraints[k] = p[k]
    BY Zenon, <1>1 DEF ConstraintBinding
  <1>5. InvoiceIds(p.invoices) \cap facts.duplicates = {} /\ ~facts.duplicateDetected
    BY Zenon, <1>1 DEF Duplicate
  <1>6. \A k \in {"payer", "supplier", "bank", "amount", "currency", "date"} : ~Contradicts(facts, k, p[k])
    <2>1. DOMAIN FactMismatch = {"payer", "supplier", "bank", "amount", "currency", "date"}
      BY DEF FactMismatch
    <2>2. QED
      BY Zenon, <1>1, <2>1 DEF FactBinding
  <1>7. \A k \in BoundKeys \ {"hash"} : normal[k] = p[k]
    <2>1. payment.invoices = p.invoices
      BY Zenon DEF BoundKeys
    <2>2. \A k \in BoundKeys \ {"hash"} :
             normal[k] = IF k = "invoices" THEN NormalizeInvoiceIds(payment.invoices) ELSE payment[k]
      BY Zenon DEF BoundKeys
    <2>3. QED
      BY Zenon, <1>2, <2>1, <2>2
  <1>8. BatchHash(normal) = BatchHash(p)
    <2> HIDE DEF normal
    <2>1. /\ normal.payer = p.payer /\ normal.supplier = p.supplier /\ normal.bank = p.bank
          /\ normal.invoices = p.invoices /\ normal.amount = p.amount
          /\ normal.currency = p.currency /\ normal.date = p.date /\ normal.batch = p.batch
      BY <1>7 DEF BoundKeys
    <2>2. QED
      BY Zenon, <2>1 DEF BatchHash
  <1>9. \A k \in BoundKeys : bound[k] = p[k]
    BY Zenon, <1>3, <1>7, <1>8
  <1>10. /\ built.name = "invoice_payment.execute" /\ built.capability = "invoice_payment.execute"
         /\ built.resourceType = "payment_batch" /\ built.resourceId = payment.batch
         /\ built.constraints = bound
         /\ built.parameters = [k \in BoundKeys \cup {"proposer"} |->
                                   IF k = "proposer" THEN i.requester ELSE bound[k]]
    BY DEF BuiltAction
  <1>11. payment.batch = p.batch /\ DOMAIN bound = BoundKeys
    BY DEF BoundKeys
  <1> HIDE DEF built, bound, normal, payment
  <1>12. \A k \in DOMAIN built.parameters : k \in DOMAIN p /\ p[k] = built.parameters[k]
    BY <1>2, <1>9, <1>10
  <1>13. \A k \in DOMAIN built.constraints :
            k \in DOMAIN a.constraints /\ a.constraints[k] = built.constraints[k]
    BY Zenon, <1>4, <1>9, <1>10, <1>11
  <1>14. "invoices" \in DOMAIN facts => InvoiceIds(facts.invoices) = InvoiceIds(p.invoices)
    <2> SUFFICES ASSUME "invoices" \in DOMAIN facts
                 PROVE  InvoiceIds(facts.invoices) = InvoiceIds(p.invoices)
      BY Zenon
    <2>1. p.invoices = NormalizeInvoiceIds(facts.invoices)
      BY Zenon, <1>1 DEF InvoiceSet
    <2>2. QED
      BY Zenon, <2>1, NormalizeKeepsIds
  <1>15. ASSUME NEW k \in (BoundKeys \ {"batch"}) \cap DOMAIN facts
         PROVE  IF k = "invoices" THEN InvoiceIds(facts[k]) = InvoiceIds(p[k]) ELSE facts[k] = p[k]
    <2>1. k \in {"payer", "supplier", "bank", "amount", "currency", "date"} \/ k = "hash" \/ k = "invoices"
      BY Zenon DEF BoundKeys
    <2>2. CASE k \in {"payer", "supplier", "bank", "amount", "currency", "date"}
      BY Zenon, <1>6, <2>2 DEF Contradicts
    <2>3. CASE k = "hash"
      BY <1>3, <2>3 DEF Contradicts
    <2>4. CASE k = "invoices"
      BY Zenon, <1>14, <2>4
    <2>5. QED
      BY Zenon, <2>1, <2>2, <2>3, <2>4
  <1>16. <<a.name, a.capability, a.resourceType, a.resourceId>>
           = <<built.name, built.capability, built.resourceType, built.resourceId>>
    BY Zenon, <1>2, <1>10, <1>11
  <1>17. QED
    BY Zenon, <1>5, <1>12, <1>13, <1>15, <1>16 DEF AsBuilt, built, payment

(* What InvoiceWorkflow asks for is there.                                 *)
LEMMA AllowedIsHeldForNothing ==
    ASSUME NEW i, NEW c, c.wedge = "invoice_payment", Evaluate(i, c) = "allow"
    PROVE  /\ c.facts.requiredEvidence \subseteq i.evidence
           /\ c.facts.requiredApprovals \subseteq c.facts.providedApprovals
  <1> DEFINE found == InvoiceWorkflow(i, c)
  <1>1. Aggregate(found) = "allow"
    BY Zenon, AllowedPasses
  <1>2. "needs-evidence" \notin found /\ "approval-required" \notin found
    BY Zenon, <1>1, AllowIsAlone
  <1>3. c.facts.requiredEvidence \ i.evidence = {}
    BY Zenon, <1>2 DEF InvoiceWorkflow
  <1>4. c.facts.requiredApprovals \ c.facts.providedApprovals = {}
    BY Zenon, <1>2 DEF InvoiceWorkflow
  <1>5. QED
    BY Zenon, <1>3, <1>4

-----------------------------------------------------------------------------
(* An allow receipt is the last thing submit_intent writes: at any crash   *)
(* or raising call, the proof and the escrow record it names are there.    *)
THEOREM AllowReceiptBackedTheorem == KernelSpec => []AllowReceiptBacked
  <1>1. KernelInv => AllowReceiptBacked
    BY Zenon DEF KernelInv, StoreInv, Backed, AllowReceiptBacked
  <1>2. QED
    BY <1>1, KernelInvariant, PTL

(* Records are issued, proofs stored and calls handled only for an intent  *)
(* the policy allowed, and a sealed proof differs from the local one in no *)
(* field the execution relies on, whatever the seal service returns.       *)
THEOREM OnlyAllowedAuthorityTheorem == KernelSpec => []OnlyAllowedAuthority
  <1>1. KernelInv => OnlyAllowedAuthority
    <2> SUFFICES ASSUME KernelInv PROVE OnlyAllowedAuthority
      BY Zenon
    <2>1. \A e \in DOMAIN escrows : Decision(e) = "allow"
      BY Zenon DEF KernelInv, StoreInv
    <2>2. \A p \in pccbs \cup handled : \E t \in Submissions : Sound(t, p)
      BY Zenon DEF KernelInv, StoreInv
    <2>3. \A p \in pccbs \cup handled : p.changed \cap BoundFields = {}
      BY Zenon, <2>2 DEF Sound
    <2>4. \A t \in Submissions : ~Sound(t, NoProof)
      BY Zenon, SubmissionAssumption DEF Sound, NoProof, NoId
    <2>5. \A s \in Submissions : sub[s].proof \in handled => Decision(s) = "allow"
      BY Zenon, <2>2, <2>4 DEF KernelInv, HandInv
    <2>6. QED
      BY Zenon, <2>1, <2>3, <2>5 DEF OnlyAllowedAuthority
  <1>2. QED
    BY <1>1, KernelInvariant, PTL

(* An invoice payment that has an escrow record is what the intake helper  *)
(* builds from its own parameters, pays no duplicate, agrees with every    *)
(* fact of the protected context, and has all its evidence and approvals;  *)
(* authority exists only where the policy allowed, and allow receipts are  *)
(* backed: for any submissions, requests and seal services, whatever       *)
(* raises or dies (submit_intent and PolicyEngine.evaluate).               *)
THEOREM AdmittedIsCompleteTheorem == KernelSpec => []AdmittedIsComplete
  <1>1. ASSUME KernelInv, NEW s \in Submissions, s \in DOMAIN escrows, Invoice(s)
        PROVE  /\ AsBuilt(sub[s].request.intent, sub[s].request.context.facts)
               /\ sub[s].request.context.facts.requiredEvidence \subseteq sub[s].request.intent.evidence
               /\ sub[s].request.context.facts.requiredApprovals
                     \subseteq sub[s].request.context.facts.providedApprovals
    <2> DEFINE i == sub[s].request.intent
               c == sub[s].request.context
    <2>1. Evaluate(i, c) = "allow" /\ c.wedge = "invoice_payment"
      BY Zenon, <1>1 DEF KernelInv, StoreInv, Decision, Invoice
    <2>2. sub[s].request \in KernelRequests
      BY <1>1 DEF KernelInv, Submission
    <2>3. "invoices" \in DOMAIN c.facts => c.facts.invoices \in Seq(Int)
      BY Zenon, <2>2, SubmissionAssumption
    <2> HIDE DEF i, c
    <2>4. AsBuilt(i, c.facts)
      BY Zenon, <2>1, <2>3, AllowedIsBuilt
    <2>5. /\ c.facts.requiredEvidence \subseteq i.evidence
          /\ c.facts.requiredApprovals \subseteq c.facts.providedApprovals
      BY Zenon, <2>1, AllowedIsHeldForNothing
    <2>6. QED
      BY Zenon, <2>4, <2>5 DEF i, c
  <1>2. KernelInv => AdmittedAsBuilt /\ HeldUntilComplete
    BY Zenon, <1>1 DEF AdmittedAsBuilt, HeldUntilComplete
  <1>3. QED
    BY <1>2, KernelInvariant, AllowReceiptBackedTheorem, OnlyAllowedAuthorityTheorem, PTL
       DEF AdmittedIsComplete

(***************************************************************************)
(* What reaches the execution graph.                                       *)
(***************************************************************************)

Artifact == [n : Nat, kind : {"receipt", "refusal"}, proof : Proofs \cup {"none"},
             outcome : {"executed", "allow", "refused", "needs-evidence"}]

Write == {"memory", "files"} \X Artifact

(* An execution is told by a receipt, of a proof that ran, and a refusal   *)
(* tells of nothing else.                                                  *)
Sane(artifact, ran) ==
    /\ artifact.outcome = "executed" => artifact.kind = "receipt" /\ artifact.proof \in ran
    /\ artifact.kind = "refusal" => artifact.outcome = "refused"

(* The writes that remain are of sane artifacts, what a store froze was    *)
(* minted, and anchors are recorded.                                       *)
RecordsInv ==
    /\ outcomes \in Seq(Artifact)
    /\ todo \in Seq(Write)
    /\ \A n \in 1 .. Len(todo) : Sane(todo[n][2], Ran)
    /\ frozen \in [fileBacked : BOOLEAN, read : BOOLEAN, proofs : SUBSET proofs]
    /\ AnchorsAreRecorded

LEMMA RecordsStart == RecordsInit => RecordsInv
  <1> SUFFICES ASSUME RecordsInit PROVE RecordsInv
    BY Zenon
  <1>1. outcomes = <<>> /\ todo = <<>> /\ graph \cup inflight = {}
    BY Zenon DEF RecordsInit
  <1>2. frozen \in [fileBacked : BOOLEAN, read : BOOLEAN, proofs : SUBSET proofs]
    <2>1. frozen \in {Live, Unread}
      BY Zenon DEF RecordsInit
    <2>2. Live \in [fileBacked : BOOLEAN, read : BOOLEAN, proofs : SUBSET proofs]
          /\ Unread \in [fileBacked : BOOLEAN, read : BOOLEAN, proofs : SUBSET proofs]
      BY Zenon DEF Live, Unread
    <2>3. QED
      BY Zenon, <2>1, <2>2
  <1>3. AnchorsAreRecorded
    BY Zenon, <1>1 DEF AnchorsAreRecorded
  <1>4. outcomes \in Seq(Artifact) /\ todo \in Seq(Write) /\ 1 .. Len(todo) = {}
    BY <1>1
  <1>5. QED
    BY Zenon, <1>2, <1>3, <1>4 DEF RecordsInv

(* Anchors stay recorded while what they rest on only grows.               *)
LEMMA AnchorsKept ==
    ASSUME AnchorsAreRecorded, Ran \subseteq Ran', proofs \subseteq proofs', crashed => crashed',
           memory \cup files \subseteq memory' \cup files' \/ crashed',
           graph' \cup inflight' \subseteq graph \cup inflight
    PROVE  AnchorsAreRecorded'
  BY Zenon DEF AnchorsAreRecorded

LEMMA RanGrows ==
    ASSUME outcomes \in Seq(Artifact), NEW r \in Artifact, outcomes' = Append(outcomes, r)
    PROVE  Ran \subseteq Ran' /\ (r.outcome = "executed" => r.proof \in Ran')
  <1>1. /\ DOMAIN outcomes = 1 .. Len(outcomes) /\ DOMAIN outcomes' = 1 .. Len(outcomes) + 1
        /\ outcomes'[Len(outcomes) + 1] = r /\ Len(outcomes) \in Nat
        /\ \A n \in 1 .. Len(outcomes) : outcomes'[n] = outcomes[n]
    OBVIOUS
  <1>2. DOMAIN outcomes \subseteq DOMAIN outcomes' /\ Len(outcomes) + 1 \in DOMAIN outcomes'
    BY <1>1
  <1>3. QED
    BY Zenon, <1>1, <1>2 DEF Ran

(* A decided outcome, whose writes are all to come.                        *)
LEMMA DecidedKeeps ==
    ASSUME RecordsInv, NEW r \in Artifact, NEW writes \in Seq(Write), Decided(r, writes),
           \A n \in 1 .. Len(writes) :
               /\ writes[n][2].outcome = "executed" =>
                      writes[n][2].kind = "receipt" /\ writes[n][2].proof = r.proof /\ r.outcome = "executed"
               /\ writes[n][2].kind = "refusal" => writes[n][2].outcome = "refused"
    PROVE  RecordsInv'
  <1>1. /\ outcomes \in Seq(Artifact) /\ outcomes' = Append(outcomes, r) /\ todo' = writes
        /\ UNCHANGED <<proofs, frozen, memory, files, crashed, inflight, graph>>
    BY Zenon DEF RecordsInv, Decided
  <1>2. Ran \subseteq Ran' /\ (r.outcome = "executed" => r.proof \in Ran')
    BY Zenon, <1>1, RanGrows
  <1>3. AnchorsAreRecorded'
    BY Zenon, <1>1, <1>2, AnchorsKept DEF RecordsInv
  <1>4. \A n \in 1 .. Len(todo') : Sane(todo'[n][2], Ran')
    BY Zenon, <1>1, <1>2 DEF Sane
  <1>5. outcomes' \in Seq(Artifact)
    BY <1>1
  <1>6. QED
    BY Zenon, <1>1, <1>3, <1>4, <1>5 DEF RecordsInv

(* A step that ends or shortens the writes and publishes nothing new.      *)
LEMMA QuietKeeps ==
    ASSUME RecordsInv, UNCHANGED outcomes, proofs \subseteq proofs', crashed => crashed',
           memory \cup files \subseteq memory' \cup files' \/ crashed',
           graph' \cup inflight' \subseteq graph \cup inflight,
           todo' \in {todo, <<>>},
           frozen' \in {frozen, Live, Unread}
    PROVE  RecordsInv'
  <1>1. Ran' = Ran
    BY Zenon DEF Ran
  <1>2. AnchorsAreRecorded'
    BY Zenon, <1>1, AnchorsKept DEF RecordsInv
  <1>3. frozen' \in [fileBacked : BOOLEAN, read : BOOLEAN, proofs : SUBSET proofs']
    <2>1. frozen \in [fileBacked : BOOLEAN, read : BOOLEAN, proofs : SUBSET proofs]
      BY Zenon DEF RecordsInv
    <2>2. Live \in [fileBacked : BOOLEAN, read : BOOLEAN, proofs : SUBSET proofs]
          /\ Unread \in [fileBacked : BOOLEAN, read : BOOLEAN, proofs : SUBSET proofs]
      BY DEF Live, Unread
    <2>3. frozen' \in [fileBacked : BOOLEAN, read : BOOLEAN, proofs : SUBSET proofs]
      BY Zenon, <2>1, <2>2
    <2>4. QED
      BY Zenon, <2>3
  <1>4. todo' \in Seq(Write) /\ \A n \in 1 .. Len(todo') : Sane(todo'[n][2], Ran')
    <2>1. CASE todo' = todo
      BY Zenon, <1>1, <2>1 DEF RecordsInv
    <2>2. CASE todo' = <<>>
      <3>1. todo' \in Seq(Write) /\ 1 .. Len(todo') = {}
        BY <2>2
      <3>2. QED
        BY Zenon, <3>1
    <2>3. QED
      BY Zenon, <2>1, <2>2
  <1>5. outcomes' \in Seq(Artifact)
    BY Zenon DEF RecordsInv
  <1>6. QED
    BY Zenon, <1>2, <1>3, <1>4, <1>5 DEF RecordsInv

(* A writer that wrote its artifact and then publishes it.                 *)
LEMMA WriteKeeps ==
    ASSUME RecordsInv, todo # <<>>, Publish(Head(todo)[2]), todo' = Tail(todo),
           memory' \cup files' = memory \cup files \cup {Head(todo)[2]},
           UNCHANGED <<proofs, outcomes, crashed, graph>>
    PROVE  RecordsInv'
  <1> DEFINE x == Head(todo)[2]
  <1>1. /\ todo \in Seq(Write) /\ Len(todo) > 0 /\ todo' \in Seq(Write) /\ Len(todo') = Len(todo) - 1
        /\ \A n \in 1 .. Len(todo') : todo'[n] = todo[n + 1] /\ n + 1 \in 1 .. Len(todo)
        /\ 1 \in 1 .. Len(todo) /\ Head(todo) = todo[1]
    BY DEF RecordsInv
  <1>2. Ran' = Ran
    BY Zenon DEF Ran
  <1>3. \A n \in 1 .. Len(todo') : Sane(todo'[n][2], Ran')
    <2> SUFFICES ASSUME NEW n \in 1 .. Len(todo') PROVE Sane(todo'[n][2], Ran')
      BY Zenon
    <2>1. todo'[n] = todo[n + 1] /\ n + 1 \in 1 .. Len(todo)
      BY Zenon, <1>1
    <2>2. Sane(todo[n + 1][2], Ran)
      BY Zenon, <2>1 DEF RecordsInv
    <2>3. QED
      BY Zenon, <1>2, <2>1, <2>2
  <1>4. x \in Artifact /\ Sane(x, Ran)
    BY <1>1 DEF RecordsInv, Write
  <1>5. KnownProofs \subseteq proofs
    BY Zenon DEF RecordsInv, KnownProofs
  <1>6. frozen' \in [fileBacked : BOOLEAN, read : BOOLEAN, proofs : SUBSET proofs']
    <2>1. frozen \in [fileBacked : BOOLEAN, read : BOOLEAN, proofs : SUBSET proofs] /\ proofs' = proofs
      BY DEF RecordsInv
    <2>2. frozen' = frozen \/ frozen' = [frozen EXCEPT !.read = TRUE, !.proofs = KnownProofs]
      BY Zenon DEF Publish, ReadProofs
    <2>3. QED
      BY Zenon, <1>5, <2>1, <2>2
  <1>7. inflight' = inflight \/ (Publishable(x) /\ x.proof \in proofs /\ inflight' = inflight \cup {AnchorOf(x)})
    BY Zenon, <1>5 DEF Publish
  <1> DEFINE Good(a) ==
        /\ a.proof \in proofs
        /\ a.outcome = "executed" => a.digest.kind = "receipt" /\ a.proof \in Ran
        /\ a.outcome # "executed" => a.outcome = "refused" /\ a.digest.kind = "refusal"
        /\ a.digest \in memory' \cup files' \/ crashed
  <1>8. Publishable(x) /\ x.proof \in proofs => Good(AnchorOf(x))
    <2>1. AnchorOf(x).outcome = x.outcome /\ AnchorOf(x).proof = x.proof /\ AnchorOf(x).digest = x
      BY DEF AnchorOf
    <2>2. x.kind \in {"receipt", "refusal"} /\ x \in memory' \cup files'
      BY Zenon, <1>4 DEF Artifact
    <2>3. QED
      BY Zenon, <1>4, <2>1, <2>2 DEF Sane, Publishable
  <1>9. \A a \in graph \cup inflight : Good(a)
    BY Zenon DEF RecordsInv, AnchorsAreRecorded
  <1>10. \A a \in graph' \cup inflight' : Good(a)
    <2> HIDE DEF Good, x
    <2>1. QED
      BY Zenon, <1>7, <1>8, <1>9
  <1>11. AnchorsAreRecorded'
    BY Zenon, <1>2, <1>10 DEF AnchorsAreRecorded
  <1>12. outcomes' \in Seq(Artifact)
    BY Zenon DEF RecordsInv
  <1>13. QED
    BY Zenon, <1>1, <1>3, <1>6, <1>11, <1>12 DEF RecordsInv

(* The writes that an artifact brings.                                     *)
LEMMA WritesOfArtifact ==
    ASSUME NEW r \in Artifact
    PROVE  /\ WritesOf(r) \in Seq(Write) /\ Len(WritesOf(r)) = 2
           /\ \A n \in 1 .. 2 : WritesOf(r)[n][2] = r
  <1>1. <<"memory", r>> \in Write /\ <<"files", r>> \in Write
    BY Zenon DEF Write
  <1>2. QED
    BY <1>1 DEF WritesOf

LEMMA OutcomeKeeps ==
    ASSUME RecordsInv, NEW p \in Proofs \cup {"none"},
           ExecutionReceipt(p) \/ RefusedReceipt(p) \/ DecisionReceipt(p, "allow")
           \/ DecisionReceipt(p, "needs-evidence")
    PROVE  RecordsInv'
  <1>1. Number \in Nat
    BY DEF RecordsInv, Number
  <1>2. ASSUME NEW o \in {"executed", "allow", "needs-evidence"},
               Decided(Receipt(Number, p, o), WritesOf(Receipt(Number, p, o)))
        PROVE  RecordsInv'
    <2> DEFINE r == Receipt(Number, p, o)
    <2>1. r \in Artifact /\ r.kind = "receipt" /\ r.outcome = o /\ r.proof = p
      BY Zenon, <1>1 DEF Receipt, Artifact
    <2> HIDE DEF r
    <2>2. WritesOf(r) \in Seq(Write) /\ Len(WritesOf(r)) = 2 /\ \A n \in 1 .. 2 : WritesOf(r)[n][2] = r
      BY Zenon, <2>1, WritesOfArtifact
    <2>3. Decided(r, WritesOf(r))
      BY Zenon, <1>2 DEF r
    <2>4. \A n \in 1 .. Len(WritesOf(r)) : WritesOf(r)[n][2] = r
      BY Zenon, <2>2
    <2>5. \A n \in 1 .. Len(WritesOf(r)) : WritesOf(r)[n][2].kind # "refusal"
      BY Zenon, <2>1, <2>4
    <2>6. QED
      BY Zenon, <2>1, <2>2, <2>3, <2>4, <2>5, DecidedKeeps
  <1>3. ASSUME RefusedReceipt(p) PROVE RecordsInv'
    <2> DEFINE r == Receipt(Number, p, "refused")
               f == Refusal(Number, p)
               w == <<<<"memory", f>>, <<"files", f>>, <<"memory", r>>, <<"files", r>>>>
    <2>1. r \in Artifact /\ f \in Artifact /\ r.outcome = "refused" /\ f.outcome = "refused"
      BY Zenon, <1>1 DEF Receipt, Refusal, Artifact
    <2>2. Decided(r, w)
      BY Zenon, <1>3 DEF RefusedReceipt
    <2> HIDE DEF r, f
    <2>3. w = <<<<"memory", f>>, <<"files", f>>, <<"memory", r>>, <<"files", r>>>>
      BY Zenon
    <2> HIDE DEF w
    <2>4. w \in Seq(Write) /\ \A n \in 1 .. Len(w) : w[n][2] = f \/ w[n][2] = r
      <3>1. \A d \in {"memory", "files"} : <<d, f>> \in Write /\ <<d, r>> \in Write
        BY Zenon, <2>1 DEF Write
      <3>2. w \in Seq(Write) /\ Len(w) = 4
        BY <2>3, <3>1
      <3>3. w[1][2] = f /\ w[2][2] = f /\ w[3][2] = r /\ w[4][2] = r
        BY Zenon, <2>3
      <3>4. \A n \in 1 .. 4 : n = 1 \/ n = 2 \/ n = 3 \/ n = 4
        OBVIOUS
      <3>5. QED
        BY Zenon, <3>2, <3>3, <3>4
    <2>5. \A n \in 1 .. Len(w) : w[n][2].outcome = "refused"
      BY Zenon, <2>1, <2>4
    <2>6. \A n \in 1 .. Len(w) : w[n][2].outcome # "executed"
      BY <2>5
    <2>7. QED
      BY Zenon, <2>1, <2>2, <2>4, <2>5, <2>6, DecidedKeeps
  <1>4. QED
    BY Zenon, <1>2, <1>3 DEF ExecutionReceipt, DecisionReceipt

LEMMA RecordsStep == RecordsInv /\ [RecordsNext]_recordsVars => RecordsInv'
  <1> SUFFICES ASSUME RecordsInv, [RecordsNext]_recordsVars PROVE RecordsInv'
    OBVIOUS
  <1>1. CASE UNCHANGED recordsVars
    BY Zenon, <1>1, QuietKeeps DEF recordsVars
  <1>2. ASSUME NEW p \in Proofs, PutProof(p) PROVE RecordsInv'
    BY Zenon, <1>2, QuietKeeps DEF PutProof
  <1>3. CASE MemoryWrite
    <2>1. memory' \cup files' = memory \cup files \cup {Head(todo)[2]}
      BY <1>3 DEF MemoryWrite
    <2>2. QED
      BY Zenon, <1>3, <2>1, WriteKeeps DEF MemoryWrite
  <1>4. CASE FileWrite
    <2>1. memory' \cup files' = memory \cup files \cup {Head(todo)[2]}
      BY <1>4 DEF FileWrite
    <2>2. QED
      BY Zenon, <1>4, <2>1, WriteKeeps DEF FileWrite
  <1>5. CASE WriteRaises
    BY Zenon, <1>5, QuietKeeps DEF WriteRaises
  <1>6. CASE CrashInWrite
    BY Zenon, <1>6, QuietKeeps DEF CrashInWrite
  <1>7. ASSUME NEW a \in inflight, Deliver(a) PROVE RecordsInv'
    <2>1. graph' \cup inflight' \subseteq graph \cup inflight
      BY <1>7 DEF Deliver
    <2>2. QED
      BY Zenon, <1>7, <2>1, QuietKeeps DEF Deliver
  <1>8. ASSUME NEW a \in inflight, PublicationFails(a) PROVE RecordsInv'
    BY Zenon, <1>8, QuietKeeps DEF PublicationFails
  <1>9. QED
    BY Zenon, <1>1, <1>2, <1>3, <1>4, <1>5, <1>6, <1>7, <1>8, OutcomeKeeps DEF RecordsNext

(* However many outcomes are decided, whichever writes fail or are torn    *)
(* and in whatever order the daemon threads deliver, what reaches the      *)
(* execution graph tells of a known proof and was recorded first           *)
(* (receipts/writers.py and execution_graph.py).                           *)
THEOREM AnchorsAreRecordedTheorem == RecordsSpec => []AnchorsAreRecorded
  <1>1. RecordsInv => AnchorsAreRecorded
    BY Zenon DEF RecordsInv
  <1>2. QED
    BY <1>1, RecordsStart, RecordsStep, PTL DEF RecordsSpec

(***************************************************************************)
(* The escrow.                                                             *)
(***************************************************************************)

USE IssuedForAssumption, EscrowExpiryAssumption, EscrowInstantAssumption

(* TypeOK and RedeemedOnce are inductive together: a record that was ever  *)
(* redeemed is consumed or revoked, and both are closed to consume().      *)
EscrowInv == TypeOK /\ RedeemedOnce

LEMMA EscrowInit == Init => EscrowInv
    BY DEF Init, EscrowInv, TypeOK, RedeemedOnce, EscrowState

LEMMA ConsumeKeeps ==
    ASSUME EscrowInv, NEW e \in EscrowIds, NEW proof \in EscrowProofs,
           NEW now \in EscrowInstants, Consume(e, proof, now)
    PROVE  EscrowInv'
  <1>1. TypeOK /\ RedeemedOnce
    BY Zenon DEF EscrowInv
  <1>2. CASE /\ EscrowConsumable(records, e, proof, now)
             /\ records' = EscrowConsumed(records, e)
             /\ redeemed' = [redeemed EXCEPT ![e] = @ + 1]
    <2>1. records[e] \notin {"consumed", "revoked"}
      BY Zenon, <1>2 DEF EscrowConsumable, EscrowClosed
    <2>2. redeemed[e] = 0
      BY <1>1, <2>1 DEF TypeOK, RedeemedOnce
    <2>3. QED
      BY <1>1, <1>2, <2>2 DEF EscrowInv, TypeOK, RedeemedOnce, EscrowConsumed, EscrowState
  <1>3. CASE records' = EscrowRefused(records, e, now) /\ UNCHANGED redeemed
    BY Zenon, <1>1, <1>3
    DEF EscrowInv, TypeOK, RedeemedOnce, EscrowRefused, EscrowClosed, EscrowState
  <1>4. QED
    BY <1>2, <1>3 DEF Consume

LEMMA EscrowStep == EscrowInv /\ [Next]_escrowVars => EscrowInv'
  <1> SUFFICES ASSUME EscrowInv, [Next]_escrowVars PROVE EscrowInv'
    BY Zenon
  <1>1. CASE UNCHANGED escrowVars
    BY Zenon, <1>1 DEF EscrowInv, TypeOK, RedeemedOnce, escrowVars
  <1>2. ASSUME NEW e \in EscrowIds, Issue(e) PROVE EscrowInv'
    BY Zenon, <1>2 DEF EscrowInv, TypeOK, RedeemedOnce, Issue, EscrowState
  <1>3. ASSUME NEW e \in EscrowIds, Revoke(e) PROVE EscrowInv'
    BY Zenon, <1>3 DEF EscrowInv, TypeOK, RedeemedOnce, Revoke, EscrowRevoked, EscrowState
  <1>4. QED
    BY Zenon, <1>1, <1>2, <1>3, ConsumeKeeps DEF Next

(* A record is redeemed at most once, through any sequence of issue,       *)
(* consume, revoke and expiry.                                             *)
THEOREM RedeemedOnceTheorem == Spec => []RedeemedOnce
  <1>1. EscrowInv => RedeemedOnce
    BY Zenon DEF EscrowInv
  <1>2. QED
    BY <1>1, EscrowInit, EscrowStep, PTL DEF Spec

(* In the SQLite escrow a record once found expired is never consumed,     *)
(* even by a caller whose `now` is older.                                  *)
THEOREM ExpiredStaysExpiredTheorem ==
    ASSUME Durable
    PROVE  Spec => ExpiredStaysExpired
  <1>1. EscrowInv /\ [Next]_escrowVars =>
          [\A e \in EscrowIds :
             records[e] = "expired" => records'[e] # "consumed"]_escrowVars
    BY DEF EscrowInv, TypeOK, Next, Issue, Consume, Revoke, EscrowConsumable, EscrowClosed,
           EscrowConsumed, EscrowRefused, EscrowRevoked, escrowVars
  <1>2. QED
    BY <1>1, EscrowInit, EscrowStep, PTL DEF Spec, ExpiredStaysExpired
==============================================================================
