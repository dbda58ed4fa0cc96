------------------------ MODULE SingleUseAuthority --------------------------
(***************************************************************************)
(* What proof-bound execution promises, without its machinery: a proof is  *)
(* spent at most once and for good, and its action runs at most once and   *)
(* only after the proof has been spent.  A spent proof need not run.       *)
(***************************************************************************)
CONSTANT Proofs
VARIABLES spent, ran

Init == spent = {} /\ ran = {}

Spend(k) == k \notin spent /\ spent' = spent \cup {k} /\ ran' = ran

Run(k) == k \in spent /\ k \notin ran /\ ran' = ran \cup {k} /\ spent' = spent

Next == \E k \in Proofs : Spend(k) \/ Run(k)

Spec == Init /\ [][Next]_<<spent, ran>>
=============================================================================
