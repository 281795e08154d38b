----------------------------- MODULE MCTokenCache ------------------------------
(* Instances of TokenCache for TLC. *)
EXTENDS TokenCache, TLC

CONSTANTS p1, p2, t1, t2, t3, u1, u2, s1, s2

\* One process has a call more than the other.
TwoProcesses == (t1 :> p1) @@ (t2 :> p1) @@ (t3 :> p2)

\* Credentials of one block and of two.
Lengths == (u1 :> 4) @@ (u2 :> 3) @@ (s1 :> 2) @@ (s2 :> 1)

===============================================================================
