-------------------------- MODULE CapabilityEscrow --------------------------
(***************************************************************************)
(* A capability escrow and its callers: the kernel issues records, edges   *)
(* consume them with the `now` of their request (captured when the request *)
(* began, so calls arrive out of time order), operators revoke them.       *)
(* Each call is atomic: one SQLite transaction under BEGIN IMMEDIATE, or   *)
(* one section under the in-memory lock.                                   *)
(***************************************************************************)
EXTENDS EscrowRecords

CONSTANTS EscrowInstants   \* the values callers pass as `now`

ASSUME EscrowInstantAssumption == EscrowInstants \subseteq Nat

VARIABLES records,     \* the state of each record
          redeemed     \* history: how often each record was consumed

escrowVars == <<records, redeemed>>

Init == /\ records = [e \in EscrowIds |-> "absent"]
        /\ redeemed = [e \in EscrowIds |-> 0]

(* issue(): refused with ESCROW_ALREADY_EXISTS unless the id is new.       *)
Issue(e) == /\ records[e] = "absent"
            /\ records' = [records EXCEPT ![e] = "issued"]
            /\ UNCHANGED redeemed

Consume(e, proof, now) ==
    \/ /\ EscrowConsumable(records, e, proof, now)
       /\ records' = EscrowConsumed(records, e)
       /\ redeemed' = [redeemed EXCEPT ![e] = @ + 1]
    \/ /\ ~EscrowConsumable(records, e, proof, now)
       /\ records' = EscrowRefused(records, e, now)
       /\ UNCHANGED redeemed

Revoke(e) == /\ records[e] # "absent"
             /\ records' = EscrowRevoked(records, e)
             /\ UNCHANGED redeemed

Next == \E e \in EscrowIds :
          \/ Issue(e)
          \/ \E proof \in EscrowProofs, now \in EscrowInstants : Consume(e, proof, now)
          \/ Revoke(e)

Spec == Init /\ [][Next]_escrowVars
-----------------------------------------------------------------------------
(* Record states are those of EscrowRecord.                                *)
TypeOK == /\ records \in [EscrowIds -> EscrowState]
          /\ redeemed \in [EscrowIds -> Nat]

(* A record is consumed at most once in its life, and never again after a  *)
(* revocation: no order of issue, consume, revoke and expiry reopens it.   *)
RedeemedOnce == \A e \in EscrowIds :
                  /\ redeemed[e] <= 1
                  /\ redeemed[e] = 1 => records[e] \in {"consumed", "revoked"}
                  /\ records[e] = "consumed" => redeemed[e] = 1

(* Escrow stores reject expired records: a record that one caller has      *)
(* found expired is not consumed by another whose `now` is older.          *)
ExpiredStaysExpired ==
    [][\A e \in EscrowIds : records[e] = "expired" => records'[e] # "consumed"]_escrowVars
=============================================================================
