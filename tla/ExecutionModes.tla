---------------------------- MODULE ExecutionModes ----------------------------
(***************************************************************************)
(* Mode-aware execution (execution/mode_aware.py): one attempt, brokered   *)
(* by the kernel or owned by a resource, whose caller learns the outcome   *)
(* from provider answers or from signed resource receipts that may be      *)
(* altered, come late or be signed with a rotated key.                     *)
(***************************************************************************)
EXTENDS Integers

CONSTANTS KeyIds, Secrets,
          ResourceSecrets,  \* the ones the resource has signed with over time
          MaxRotations

VARIABLES mode,       \* "brokered" or "resource_owned"
          state,      \* the attempt's reported state, "new" before the first
          done,       \* what the provider or resource really did: "pending", "done", "failed"
          answer,     \* brokered: what of it the kernel observed
          receipt,    \* the resource receipt the caller holds, or NoReceipt
          result,     \* the receipt inside the last result built
          keys,       \* ResourceReceiptVerifier.keys, by key id
          rotations

modesVars == <<mode, state, done, answer, receipt, result, keys, rotations>>

NoSecret == "none"
NoReceipt == [key |-> "none", secret |-> "none", says |-> "none", about |-> "none", intact |-> FALSE]

(***************************************************************************)
(* State machines.                                                         *)
(***************************************************************************)

BrokeredTransitions ==
    [succeeded |-> {}, failed |-> {}, refused |-> {},
     outcome_unknown |-> {"succeeded", "failed", "outcome_unknown"}]

ResourceOwnedTransitions ==
    [submitted       |-> {"accepted", "refused", "succeeded", "failed", "outcome_unknown"},
     accepted        |-> {"succeeded", "failed", "outcome_unknown"},
     refused |-> {}, succeeded |-> {}, failed |-> {},
     outcome_unknown |-> {"succeeded", "failed", "outcome_unknown"}]

(* validate_transition of the two machines; a first result has no state to *)
(* come from.                                                              *)
BrokeredCanTransition(from, to) == IF from = "new" THEN to \in DOMAIN BrokeredTransitions ELSE to \in BrokeredTransitions[from]
ResourceOwnedCanTransition(from, to) == IF from = "new" THEN to = "submitted" ELSE to \in ResourceOwnedTransitions[from]

(***************************************************************************)
(* Receipts and results.                                                   *)
(***************************************************************************)

(* ResourceReceiptVerifier.verify_or_raise: a registered key, and the HMAC *)
(* of the body as received.                                                *)
VerifyKnownKey(r) == r # NoReceipt /\ keys[r.key] # NoSecret
VerifyReceipt(r) == r # NoReceipt /\ keys[r.key] # NoSecret /\ keys[r.key] = r.secret /\ r.intact

(* The rule the Protocol's result types enforce in their constructors.     *)
BrokeredResultValid(to, observed) == to = "succeeded" => observed = "done"
ResourceResultValid(to, verified) == to = "succeeded" => verified

(* build_brokered_result and build_resource_owned_result: an unverifiable  *)
(* receipt counts as none, and `succeeded` then cannot be constructed.     *)
BuildBrokeredResult(to) == BrokeredResultValid(to, answer)
BuildResourceOwnedResult(to) == ResourceResultValid(to, VerifyReceipt(receipt))

(***************************************************************************)
(* The attempt.                                                            *)
(***************************************************************************)

ModesInit == /\ mode \in {"brokered", "resource_owned"}
             /\ state = "new" /\ done = "pending" /\ answer = "none" /\ receipt = NoReceipt /\ result = NoReceipt
             /\ keys = [k \in KeyIds |-> NoSecret] /\ rotations = 0

(* register_key: a later key under the same id replaces the earlier one.   *)
RegisterKey(k, secret) ==
    /\ rotations < MaxRotations /\ rotations' = rotations + 1
    /\ keys' = [keys EXCEPT ![k] = secret]
    /\ UNCHANGED <<mode, state, done, answer, receipt, result>>

(* The provider or the resource acts.                                      *)
Acts(what) ==
    /\ done = "pending" /\ done' = what
    /\ UNCHANGED <<mode, state, answer, receipt, result, keys, rotations>>

(* The kernel sees the provider's answer, or the connection breaks.        *)
Observe(seen) ==
    /\ mode = "brokered" /\ answer = "none" /\ seen \in {done, "lost"} /\ seen # "pending"
    /\ answer' = seen
    /\ UNCHANGED <<mode, state, done, receipt, result, keys, rotations>>

(* A receipt reaches the caller: the resource's own, for this attempt or   *)
(* another, or one made or altered on the way without a resource secret.   *)
ReceiptArrives(r) ==
    /\ mode = "resource_owned"
    /\ r.secret \in ResourceSecrets /\ r.intact /\ r.about = "this" =>
           done = (IF r.says = "succeeded" THEN "done" ELSE "failed")
    /\ receipt' = r
    /\ UNCHANGED <<mode, state, done, answer, result, keys, rotations>>

(* The caller reports a next state through the machine and the builder.    *)
(* Picking the state a receipt speaks of is left to the caller.            *)
Report(to) ==
    /\ IF mode = "brokered" THEN BrokeredCanTransition(state, to) /\ BuildBrokeredResult(to)
       ELSE /\ ResourceOwnedCanTransition(state, to) /\ BuildResourceOwnedResult(to)
            /\ to = "succeeded" => receipt.says = to
    /\ state' = to /\ result' = receipt
    /\ UNCHANGED <<mode, done, answer, receipt, keys, rotations>>

ModesNext == \/ \E k \in KeyIds, secret \in ResourceSecrets : RegisterKey(k, secret)
             \/ \E what \in {"done", "failed"} : Acts(what)
             \/ \E seen \in {"done", "failed", "lost"} : Observe(seen)
             \/ \E k \in KeyIds, secret \in Secrets, says \in {"succeeded", "failed"}, about \in {"this", "other"}, intact \in BOOLEAN :
                    ReceiptArrives([key |-> k, secret |-> secret, says |-> says, about |-> about, intact |-> intact])
             \/ \E to \in {"submitted", "accepted", "succeeded", "failed", "refused", "outcome_unknown"} :
                    Report(to)

ModesSpec == ModesInit /\ [][ModesNext]_modesVars

(***************************************************************************)
(* Properties.                                                             *)
(***************************************************************************)

(* An attempt reported `succeeded` did succeed as far as the kernel can    *)
(* know: the broker's provider did it, or the result carries a receipt the *)
(* resource itself signed, unaltered, and, if it is about this attempt,    *)
(* for something it did - whatever was lost, altered, late or rotated.     *)
SucceededIsVouched ==
    state = "succeeded" =>
        IF mode = "brokered" THEN done = "done"
        ELSE /\ result.secret \in ResourceSecrets /\ result.intact
             /\ result.about = "this" => done = "done"

=============================================================================
