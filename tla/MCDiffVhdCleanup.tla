--------------------------- MODULE MCDiffVhdCleanup ---------------------------
(* Instances of DiffVhdCleanup for TLC. *)
EXTENDS DiffVhdCleanup
===============================================================================
