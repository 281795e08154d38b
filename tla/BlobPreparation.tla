---------------------------- MODULE BlobPreparation ----------------------------
(***************************************************************************)
(* What an upload does before it uploads, from the first request to        *)
(* onBlobCreated(): the inquiry about the blob (BlobInfo) and, from within *)
(* its callback, the creation of an empty blob or, if a base is given, the *)
(* copy of the base and its clean-up (DiffVhdCleanup).                     *)
(*                                                                         *)
(* Answers to the inquiry may still arrive when the copy has begun, and a  *)
(* process that has an error to report may go on for a while.              *)
(***************************************************************************)
EXTENDS DiffVhdCleanup

VARIABLES
  parentBlob,  \* a base is given
  \* The variables of BlobInfo:
  options, container, target, asked, regions, agg, stage, calls, told, creation

inquiry == <<options, container, target, asked, regions, agg, stage, calls, told, creation>>
all == <<vars, parentBlob, inquiry>>

Inquiry == INSTANCE BlobInfo WITH blob <- target, requests <- asked, phase <- stage

PreparationInit ==
  /\ parentBlob \in BOOLEAN
  /\ Inquiry!Init
  /\ Init /\ telemetry = options.telemetry
  /\ ~parentBlob => base = {} /\ ~baseMd5 /\ bat = {}

-------------------------------------------------------------------------------
\* An error of the inquiry is given to exitWithError().
Reports ==
  IF told' = "error" /\ told # "error" THEN ReportError ELSE UNCHANGED reportVars

InquiryServed ==
  /\ \/ \E r \in Inquiry!Requests : Inquiry!BlobServed(r) \/ Inquiry!RequestFails(r)
     \/ Inquiry!ContainerServed
  /\ UNCHANGED <<vars, parentBlob>>

SomeoneDeletesBlob == Inquiry!SomeoneDeletesBlob /\ UNCHANGED <<vars, parentBlob>>

InquiryAnswered ==
  /\ alive
  /\ \/ \E r \in Inquiry!Requests : Inquiry!Answered(r)
     \/ Inquiry!Downloaded \/ Inquiry!DownloadFails
  /\ Reports
  /\ UNCHANGED <<file, phase, blob, blobMd5, uploadedRegions, deleteVars, parentBlob>>

\* createPageBlob()
PlainCreation ==
  /\ ~parentBlob
  /\ \/ Inquiry!CreationServed \/ Inquiry!CreationFails
     \/ alive /\ Inquiry!CreationAnswered
  /\ UNCHANGED <<vars, parentBlob>>

Copying == parentBlob /\ stage = "creating"

\* startCopyBlob(): there has to be a container.
BaseCopied ==
  /\ Copying /\ container /\ CopyAnswered
  /\ target' = "data"
  /\ UNCHANGED <<parentBlob, options, container, asked, regions, agg, stage, calls, told,
                 creation>>

BaseNotCopied == Copying /\ CopyFails /\ UNCHANGED <<parentBlob, inquiry>>

\* What the clean-up does is what DiffVhdCleanup says.
CleaningUp ==
  /\ Copying
  /\ InspectionFails \/ BlobIsGone \/ Inspected \/ Md5Cleared \/ Md5NotCleared
  /\ UNCHANGED <<parentBlob, inquiry>>

RegionAnswered(index) == Copying /\ Answered(index) /\ UNCHANGED <<parentBlob, inquiry>>

CreationEnds == PlainCreation \/ BaseCopied \/ BaseNotCopied \/ CleaningUp

Exits == ProcessExits /\ UNCHANGED <<parentBlob, inquiry>>

-------------------------------------------------------------------------------
\* The upload begins, or is not to begin.
Prepared ==
  \/ stage \in {"uploading", "over"} \/ failures > 0
  \/ Copying /\ phase \in {"ready", "stranded"}

\* The process has nothing to wait for, or is left to the upload.
PreparationTerminated ==
  /\ \/ ~alive \/ Prepared
     \/ Copying /\ phase = "deleting" /\ requests = {}
     \/ stage = "asking" /\ \A r \in Inquiry!Requests : asked[r] \in {"unsent", "answered"}
  /\ UNCHANGED all

PreparationNext ==
  \/ InquiryServed \/ InquiryAnswered \/ SomeoneDeletesBlob
  \/ CreationEnds \/ (\E index \in Regions : RegionAnswered(index))
  \/ Exits \/ PreparationTerminated

\* Every request is served, and every answer arrives.
Preparation ==
  /\ PreparationInit /\ [][PreparationNext]_all
  /\ WF_all(InquiryServed) /\ WF_all(InquiryAnswered) /\ WF_all(CreationEnds)
  /\ \A index \in Regions : WF_all(RegionAnswered(index))

-------------------------------------------------------------------------------
(* Properties, besides those of the two components.                         *)

\* However the answers are ordered, onGotBlobInfo() runs once: a second call
\* would create the blob anew, or copy the base again, under a clean-up that
\* has begun.  It is given regions and properties only when both were answered.
InfoIsComplete == Inquiry!InfoIsComplete

\* With -f the blob is created, or the base copied, only when the container is
\* there.
ForcedCreationFindsContainer == Inquiry!ForcedCreationFindsContainer

\* What is done before the upload ends: in the upload, in an error that is
\* reported, or with a copy that failed.
PreparationEnds == <>Prepared

===============================================================================
