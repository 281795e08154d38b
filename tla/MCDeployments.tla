----------------------------- MODULE MCDeployments ------------------------------
(* Instances of Deployments for TLC. *)
EXTENDS Deployments, TLC

CONSTANTS c1, c2, c3

\* One that deploys, one that deletes, and one that deploys or stops.
ThreeCommands == (c1 :> {"deploy"}) @@ (c2 :> {"stop", "deploy"}) @@ (c3 :> {"delete"})

===============================================================================
