----------------------------- MODULE BlockTransfer -----------------------------
(***************************************************************************)
(* What an upload promises to the command that asked for it, without       *)
(* threads, retries or MD5: blocks get into the blob in any order, and one *)
(* outcome is reported.  A success is reported only when all blocks are    *)
(* there, and nothing more is written after it; a failure is reported at   *)
(* any time, and what is still out may then be written.                    *)
(***************************************************************************)
CONSTANT Blocks

VARIABLES
  transferred,  \* blocks that are in the blob or need not be sent
  outcome       \* "running", "success" or "failure"

vars == <<transferred, outcome>>

TypeOK ==
  /\ transferred \subseteq Blocks
  /\ outcome \in {"running", "success", "failure"}

Init ==
  /\ transferred \in SUBSET Blocks
  /\ outcome = "running"

Transfer ==
  /\ outcome # "success"
  /\ \E block \in Blocks : transferred' = transferred \cup {block}
  /\ UNCHANGED outcome

Succeed ==
  /\ outcome = "running"
  /\ transferred = Blocks
  /\ outcome' = "success"
  /\ UNCHANGED transferred

\* The request whose failure ends the upload may have been applied.
Fail ==
  /\ outcome = "running"
  /\ outcome' = "failure"
  /\ \E blocks \in SUBSET Blocks : transferred' = transferred \cup blocks

Next == Transfer \/ Succeed \/ Fail

\* An outcome is reported at last.
Spec == Init /\ [][Next]_vars /\ WF_vars(Succeed \/ Fail)

===============================================================================
