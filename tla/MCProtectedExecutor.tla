------------------------ MODULE MCProtectedExecutor -------------------------
(* Instances of ProtectedExecutor for TLC.                                 *)
EXTENDS ProtectedExecutor, TLC

CONSTANTS a1, a2, a3, k1, k2, p1, p2, o1, h1, h2, e1, e2, f1

(* Two or three presentations of one proof, from two processes.            *)
DuplicatePresents == [a \in Attempts |-> k1]
TwoHosts == [a \in Attempts |-> IF a = a2 THEN p2 ELSE p1]

(* Two proofs: the first is presented twice, in one process.               *)
MixedPresents == [a \in Attempts |-> IF a = a2 THEN k2 ELSE k1]
OneHost == [a \in Attempts |-> p1]

(* Both proofs name one operation, for the same or for another action.     *)
OneOperation == [k \in Keys |-> o1]
OneHash == [k \in Keys |-> h1]
TwoHashes == [k \in Keys |-> IF k = k1 THEN h1 ELSE h2]

(* Each proof has its escrow record.                                       *)
OwnEscrow == [k \in Keys |-> IF k = k1 THEN e1 ELSE e2]
OwnIssuedFor == [e \in EscrowIds |-> IF e = e1 THEN k1 ELSE k2]

(* Proofs without an effect extension, or both naming one effect.          *)
NoEffect == [k \in Keys |-> None]
OneEffect == [k \in Keys |-> f1]

(* Everything expires at instant 2, a whole second; or proofs at instant 1.*)
ProofExpiry == [k \in Keys |-> 2]
SoonExpiry == [k \in Keys |-> 1]
RecordExpiry == [e \in EscrowIds |-> 2]
=============================================================================
