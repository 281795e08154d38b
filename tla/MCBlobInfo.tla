------------------------------ MODULE MCBlobInfo ------------------------------
(* Instances of BlobInfo for TLC. *)
EXTENDS BlobInfo
===============================================================================
