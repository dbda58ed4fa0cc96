----------------------- MODULE MCEndpointMiddleware -------------------------
(* Instances of EndpointMiddleware for TLC: calls that race for the first  *)
(* proof. Proofs expire at instant 1, the escrow record one later.         *)
EXTENDS EndpointMiddleware, TLC

CONSTANTS c1, c2, k1, e1

MCPresents == [c \in Calls |-> k1]
MCEscrowOf == [k \in Keys |-> IF k = k1 THEN e1 ELSE None]
MCIssuedFor == e1 :> k1
MCExpiresAt == [k \in Keys |-> 1]
MCEscrowExpiry == e1 :> 2
=============================================================================
