------------------------ MODULE MCCapabilityEscrow --------------------------
(* Instances of CapabilityEscrow for TLC: three records, two for one proof *)
(* (reissued after a revocation), all of which expire at instant 1.        *)
EXTENDS CapabilityEscrow, TLC

CONSTANTS e1, e2, e3, q1, q2

MCIssuedFor == (e1 :> q1) @@ (e2 :> q1) @@ (e3 :> q2)
MCEscrowExpiry == (e1 :> 1) @@ (e2 :> 1) @@ (e3 :> 1)
=============================================================================
