--------------------------- MODULE EscrowRecords ----------------------------
(***************************************************************************)
(* The records of a capability escrow (actenon/escrow/sqlite.py and        *)
(* actenon/escrow/memory.py), reduced to their state.  The proof a record  *)
(* was issued for and its expiry are fixed when it is issued.              *)
(***************************************************************************)
EXTENDS Integers

CONSTANTS EscrowIds,      \* identifiers of escrow records
          EscrowProofs,   \* the proofs records may be issued for
          IssuedFor,      \* the proof each record is bound to
          EscrowExpiry,   \* the instant each record expires
          Durable         \* TRUE: SqliteCapabilityEscrow, FALSE: in memory

ASSUME IssuedForAssumption == IssuedFor \in [EscrowIds -> EscrowProofs]
ASSUME EscrowExpiryAssumption == EscrowExpiry \in [EscrowIds -> Nat]
ASSUME DurableAssumption == Durable \in BOOLEAN

EscrowState == {"absent", "issued", "consumed", "expired", "revoked"}

(* Mutations of EscrowClosed: consume() no longer refuses a consumed       *)
(* record, or an expired one.                                              *)
EscrowReusable(state) == state \in {"absent", "revoked", "expired"}
EscrowRevivable(state) == state \in {"absent", "revoked", "consumed"}

(* The states consume() refuses outright.  Only the SQLite store refuses a *)
(* record it has already marked expired.                                   *)
EscrowClosed(state) == state \in {"absent", "revoked", "consumed"}
                                 \cup (IF Durable THEN {"expired"} ELSE {})

(* consume() succeeds: the record is open, not past its expiry, and bound  *)
(* to the presented proof.  A proof grants one capability, so the check of *)
(* the capability goes with that of the proof.                             *)
EscrowConsumable(records, e, proof, now) ==
    /\ ~EscrowClosed(records[e])
    /\ now <= EscrowExpiry[e]
    /\ IssuedFor[e] = proof

(* Mutation of EscrowConsumed: the transaction is not committed.           *)
EscrowUncommitted(records, e) == records

EscrowConsumed(records, e) == [records EXCEPT ![e] = "consumed"]

(* Mutation of EscrowRefused: the state guard of the UPDATE is dropped.    *)
EscrowExpiredAnyState(records, e, now) ==
    IF now > EscrowExpiry[e] THEN [records EXCEPT ![e] = "expired"] ELSE records

(* What a refused consume() leaves: a record found past its expiry is      *)
(* marked expired, every other refusal changes nothing.                    *)
EscrowRefused(records, e, now) ==
    IF ~EscrowClosed(records[e]) /\ now > EscrowExpiry[e]
    THEN [records EXCEPT ![e] = "expired"]
    ELSE records

(* revoke() overwrites whatever state the record is in.                    *)
EscrowRevoked(records, e) == [records EXCEPT ![e] = "revoked"]
=============================================================================
