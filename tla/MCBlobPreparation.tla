--------------------------- MODULE MCBlobPreparation ---------------------------
(* Instances of BlobPreparation for TLC. *)
EXTENDS BlobPreparation
===============================================================================
