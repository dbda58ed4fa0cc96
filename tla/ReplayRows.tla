----------------------------- MODULE ReplayRows -----------------------------
(***************************************************************************)
(* The rows of the table `action_consumption`, as the SQL statements of    *)
(* actenon/replay/dbapi.py read and write them.  A row is reduced to its   *)
(* status; its expires_at is the expiry of the proof, so it is a constant  *)
(* of the replay key.  A row has no owner column: whoever knows the key    *)
(* can consume or release the claim.                                       *)
(*                                                                         *)
(* Instants are counted in ticks of 1/Resolution second.  The store writes *)
(* them with datetime.isoformat(), which has no fraction for a whole       *)
(* second, and two of its statements compare the strings.                  *)
(***************************************************************************)
EXTENDS Integers

CONSTANTS Keys,         \* replay keys, one per proof (build_replay_key)
          ExpiresAt,    \* the instant each key's proof expires
          Resolution    \* ticks per second

ASSUME ExpiryAssumption == ExpiresAt \in [Keys -> Nat]
ASSUME ResolutionAssumption == Resolution \in Nat \ {0}

Status == {"absent", "claimed", "consumed", "released", "expired"}

(* Strings of one second sort as ".000001Z" < ... < ".999999Z" < "Z",     *)
(* because "." precedes "Z": the whole second comes last, not first.       *)
TextOrder(t) == IF t % Resolution = 0 THEN 2 * (t + Resolution) - 1 ELSE 2 * t

(* The test `expires_at <= ?` of the UPDATEs in claim_once, purge_expired. *)
TextDue(k, now) == TextOrder(ExpiresAt[k]) <= TextOrder(now)

(* The test `state.expires_at <= now_utc`, on datetimes, in inspect.       *)
Due(k, now) == ExpiresAt[k] <= now

(* Mutations of Claimable: consumed rows are deleted too; a claim is taken *)
(* over whether or not it is due.                                          *)
ClaimableConsumed(rows, k, now) ==
    rows[k] # "claimed" \/ TextDue(k, now)
ClaimableActive(rows, k, now) == rows[k] # "consumed"

(* claim_once: a claim that is due is expired; released and expired rows   *)
(* are deleted; the insert succeeds when no row is left.                   *)
Claimable(rows, k, now) ==
    \/ rows[k] \in {"absent", "released", "expired"}
    \/ rows[k] = "claimed" /\ TextDue(k, now)

Claimed(rows, k) == [rows EXCEPT ![k] = "claimed"]

(* Mutation of Consumable: the status guard of the UPDATE is dropped.      *)
ConsumableAnyStatus(rows, k) == rows[k] # "absent"

(* mark_consumed: UPDATE ... WHERE status = 'claimed'.                     *)
Consumable(rows, k) == rows[k] = "claimed"

Consumed(rows, k) == [rows EXCEPT ![k] = "consumed"]

(* Mutation of Releasable: a consumed row is released as well.             *)
ReleasableConsumed(rows, k) == rows[k] \in {"claimed", "consumed"}

(* release_claim: a consumed row returns early; otherwise UPDATE ... WHERE *)
(* status = 'claimed', and a row missing or in another status raises.      *)
Releasable(rows, k) == rows[k] = "claimed"

Released(rows, k) == [rows EXCEPT ![k] = "released"]

(* Mutations of Inspected and Purged: whatever is due expires, consumed    *)
(* rows included.                                                          *)
InspectedAnyStatus(rows, k, now) ==
    [rows EXCEPT ![k] = IF @ # "absent" /\ Due(k, now) THEN "expired" ELSE @]
PurgedAnyStatus(rows, now) ==
    [k \in Keys |-> IF rows[k] # "absent" /\ TextDue(k, now) THEN "expired" ELSE rows[k]]

(* inspect: a read that expires the row it finds claimed and due.          *)
Inspected(rows, k, now) ==
    [rows EXCEPT ![k] = IF @ = "claimed" /\ Due(k, now) THEN "expired" ELSE @]

(* purge_expired: the sweep over all rows.                                 *)
Purged(rows, now) ==
    [k \in Keys |-> IF rows[k] = "claimed" /\ TextDue(k, now)
                    THEN "expired" ELSE rows[k]]
=============================================================================
