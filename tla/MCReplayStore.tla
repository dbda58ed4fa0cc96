--------------------------- MODULE MCReplayStore ----------------------------
(* Instances of ReplayStore for TLC.                                       *)
EXTENDS ReplayStore, TLC

CONSTANTS k1, p1, p2, t1, t2

(* The one key expires at instant 3; two processes, a thread each.         *)
MCExpiresAt == k1 :> 3
MCHost == (t1 :> p1) @@ (t2 :> p2)

(* Nothing is claimed of a history with an unnoticed rollback: its states  *)
(* are not explored further.                                               *)
Noticed == ~blindSpot
=============================================================================
