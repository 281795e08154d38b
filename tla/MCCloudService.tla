---------------------------- MODULE MCCloudService -----------------------------
(* Instances of CloudService for TLC. *)
EXTENDS CloudService, TLC

CONSTANTS c1, c2, c3

\* Two commands that may create, delete or change endpoints, one of them anything.
ThreeCommands ==
  (c1 :> {"create"}) @@ (c2 :> {"delete", "endpoint"}) @@ (c3 :> Kinds)

\* All changes of names.  A port that is taken is asked for in a new endpoint
\* beside the first one, or for the first one.
SomeChanges ==
  {change \in Changes :
     /\ change.op # "rename" => change.to = "e1"
     /\ change.op = "rename" => "e1" \in {change.name, change.to}
     /\ change.portTaken => \/ change.op = "add" /\ change.name = "e2"
                            \/ change.op = "rename" /\ change.name = change.to}

===============================================================================
