--------------------------- MODULE MCPageBlobUpload ---------------------------
(* Instances of PageBlobUpload for TLC. *)
EXTENDS PageBlobUpload

AllOptions == Options

\* The process ends with its first error.
WithoutTelemetry == {o \in Options : ~o.telemetry}

===============================================================================
