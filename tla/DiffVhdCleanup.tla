---------------------------- MODULE DiffVhdCleanup ----------------------------
(***************************************************************************)
(* The base of a difference VHD, prepared for the upload of the difference:*)
(* createDiffVHDPageBlob() of lib/commands/asm/iaas/upload/pageBlob.js.    *)
(*                                                                         *)
(* The base VHD's blob is copied to the new blob.  Where the difference    *)
(* VHD has a block of its own the base's data is then cleared, by several  *)
(* requests at a time.  The regions that stay are uploadedRegions, and the *)
(* upload that follows sends nothing for them: what is forgotten here is   *)
(* missing in the blob, what is kept here by mistake stays the base's.     *)
(***************************************************************************)
EXTENDS Integers, Sequences, FiniteSets

CONSTANTS
  BlockCount,  \* ddHeader.maxTableEntries
  Threads      \* options.threads

ASSUME BlockCountAssumption == BlockCount \in Nat
ASSUME ThreadsAssumption == Threads \in Nat \ {0}

VhdBlocks == 0 .. BlockCount - 1

\* The region of the footer lies behind the last block.
FooterRegion == BlockCount

Regions == VhdBlocks \cup {FooterRegion}

VARIABLES
  base,             \* blocks the base VHD's blob has data in
  baseMd5,          \* the base VHD's blob has an MD5
  bat,              \* blocks of the difference VHD's block allocation table
  telemetry,        \* the CLI sends telemetry before it exits
  phase,
  blob,             \* regions with data in the new blob (the service)
  blobMd5,          \* the new blob has the base's MD5 (the service)
  uploadedRegions,
  deleteRegions,
  next,
  running,
  requests,         \* the indices of deleteRegions with a request out
  exiting,
  failures,         \* errors given to the callback or to exitWithError()
  alive             \* the process is running

file == <<base, baseMd5, bat, telemetry>>
deleteVars == <<deleteRegions, next, running, requests, exiting>>
reportVars == <<failures, alive>>
vars == <<file, phase, blob, blobMd5, uploadedRegions, deleteVars, reportVars>>

\* "copying":     startCopyBlob() is out
\* "stranded":    it failed
\* "inspecting":  getBlobInfo() is out
\* "deleting":    clearPageRange() requests are out
\* "clearingMd5": setBlobProperties() is out
\* "refused":     the callback was given the error of getBlobInfo()
\* "ready":       the upload was started by the callback
Phases ==
  {"copying", "stranded", "inspecting", "deleting", "clearingMd5", "refused",
   "ready"}

TypeOK ==
  /\ base \subseteq VhdBlocks
  /\ baseMd5 \in BOOLEAN
  /\ bat \subseteq VhdBlocks
  /\ telemetry \in BOOLEAN
  /\ phase \in Phases
  /\ blob \subseteq Regions
  /\ blobMd5 \in BOOLEAN
  /\ uploadedRegions \subseteq Regions
  /\ deleteRegions \in Seq(Regions)
  /\ next \in Nat
  /\ running \in 0 .. Threads
  /\ requests \subseteq 0 .. Len(deleteRegions) - 1
  /\ exiting \in BOOLEAN
  /\ failures \in Nat
  /\ alive \in BOOLEAN

Init ==
  /\ base \in SUBSET VhdBlocks
  /\ baseMd5 \in BOOLEAN
  /\ bat \in SUBSET VhdBlocks
  /\ telemetry \in BOOLEAN
  /\ phase = "copying"
  /\ blob = {}
  /\ blobMd5 = FALSE
  /\ uploadedRegions = {}
  /\ deleteRegions = <<>>
  /\ next = 0
  /\ running = 0
  /\ requests = {}
  /\ exiting = FALSE
  /\ failures = 0
  /\ alive = TRUE

-------------------------------------------------------------------------------
\* callback(error) or exitWithError(error): the command fails, and the process
\* exits, at once or when telemetry has been sent.
ReportError ==
  /\ failures' = failures + 1
  /\ alive' = telemetry

ProcessExits ==
  /\ alive
  /\ failures > 0
  /\ alive' = FALSE
  /\ UNCHANGED <<file, phase, blob, blobMd5, uploadedRegions, deleteVars,
                 failures>>

\* The copy is complete when the service answers.
CopyAnswered ==
  /\ alive /\ phase = "copying"
  /\ phase' = "inspecting"
  /\ blob' = base \cup {FooterRegion}
  /\ blobMd5' = baseMd5
  /\ UNCHANGED <<file, uploadedRegions, deleteVars, reportVars>>

\* The error is printed, and nothing is called back.
CopyFails ==
  /\ alive /\ phase = "copying"
  /\ phase' = "stranded"
  /\ UNCHANGED <<file, blob, blobMd5, uploadedRegions, deleteVars, reportVars>>

InspectionFails ==
  /\ alive /\ phase = "inspecting"
  /\ phase' = "refused"
  /\ ReportError
  /\ UNCHANGED <<file, blob, blobMd5, uploadedRegions, deleteVars>>

\* Someone else has deleted the blob.  The callback is called without an error.
BlobIsGone ==
  /\ alive /\ phase = "inspecting"
  /\ phase' = "ready"
  /\ blob' = {}
  /\ blobMd5' = FALSE
  /\ UNCHANGED <<file, uploadedRegions, deleteVars, reportVars>>

\* Mutation: the footer's region is not among them.
DeleteOrders_NotFooter(regions) ==
  {order \in [1 .. Cardinality(bat \cap regions) -> VhdBlocks] :
     /\ \A i, j \in DOMAIN order : i < j => order[i] < order[j]
     /\ {order[i] : i \in DOMAIN order} = bat \cap regions}

\* The footer's region first, then each block of the table that intersects
\* the regions of the copy, in their order.
DeleteOrders(regions) ==
  {order \in [1 .. Cardinality(bat \cap regions) + 1 -> Regions] :
     /\ order[1] = FooterRegion
     /\ \A i, j \in DOMAIN order \ {1} : i < j => order[i] < order[j]
     /\ {order[i] : i \in DOMAIN order \ {1}} = bat \cap regions}

Connections(regions) ==
  IF Threads < Len(regions) THEN Threads ELSE Len(regions)

RunningAtFirst(regions) == Connections(regions)

\* getBlobInfo() answers, and the first requests are sent.
Inspected ==
  /\ alive /\ phase = "inspecting"
  /\ phase' = "deleting"
  /\ uploadedRegions' = blob
  /\ deleteRegions' \in DeleteOrders(blob)
  /\ next' = Connections(deleteRegions')
  /\ running' = RunningAtFirst(deleteRegions')
  /\ requests' = 0 .. Connections(deleteRegions') - 1
  /\ UNCHANGED <<file, blob, blobMd5, exiting, reportVars>>

RegionOf(index) == deleteRegions[index + 1]

\* onDeleted()
OnDeleted == phase' = IF blobMd5 THEN "clearingMd5" ELSE "ready"

\* deleteRegion(next), or the end of one connection.  next counts the requests
\* that were sent first, and is increased before it is used.
NextRegion(index) ==
  /\ next' = next + 1
  /\ IF next' >= Len(deleteRegions)
     THEN /\ running' = running - 1
          /\ IF running' <= 0 THEN OnDeleted ELSE UNCHANGED phase
          /\ requests' = requests \ {index}
     ELSE /\ UNCHANGED <<running, phase>>
          /\ requests' = IF exiting THEN requests \ {index}
                         ELSE (requests \ {index}) \cup {next'}

\* Mutation: uploadedRegions keeps the region.
Forget_Nothing(index) == uploadedRegions

\* regionsSet.subtractInterval(): the set shares its array with uploadedRegions.
Forget(index) == uploadedRegions \ {RegionOf(index)}

RegionDeleted(index) ==
  /\ alive
  /\ index \in requests
  /\ blob' = blob \ {RegionOf(index)}
  /\ uploadedRegions' = Forget(index)
  /\ NextRegion(index)
  /\ UNCHANGED <<file, blobMd5, deleteRegions, exiting, reportVars>>

\* Mutation: a failed request ends its connection as a successful one does.
RunningAfterFailure_OneLess == running - 1

RunningAfterFailure == running

\* The failed request may have been applied.
RegionFails(index) ==
  /\ alive
  /\ index \in requests
  /\ \E applied \in SUBSET {RegionOf(index)} : blob' = blob \ applied
  /\ requests' = requests \ {index}
  /\ running' = RunningAfterFailure
  /\ exiting' = TRUE
  /\ ReportError
  /\ UNCHANGED <<file, phase, blobMd5, uploadedRegions, deleteRegions, next>>

Md5Cleared ==
  /\ alive /\ phase = "clearingMd5"
  /\ phase' = "ready"
  /\ blobMd5' = FALSE
  /\ UNCHANGED <<file, blob, uploadedRegions, deleteVars, reportVars>>

\* exitWithError() returns while the process is still running, and the upload
\* is started all the same.
Md5NotCleared ==
  /\ alive /\ phase = "clearingMd5"
  /\ phase' = "ready"
  /\ blobMd5' \in {FALSE, blobMd5}
  /\ ReportError
  /\ UNCHANGED <<file, blob, uploadedRegions, deleteVars>>

-------------------------------------------------------------------------------
\* The process has ended, or its event loop is empty, which ends it too.
Terminated ==
  /\ \/ ~alive
     \/ phase = "deleting" /\ requests = {}
     \/ phase \in {"stranded", "refused", "ready"}
  /\ UNCHANGED vars

Service ==
  \/ CopyAnswered \/ CopyFails
  \/ InspectionFails \/ BlobIsGone \/ Inspected
  \/ Md5Cleared \/ Md5NotCleared

Answered(index) == RegionDeleted(index) \/ RegionFails(index)

Next ==
  \/ Service
  \/ \E index \in Regions : Answered(index)
  \/ ProcessExits
  \/ Terminated

\* Every request is answered, well or badly.
Fairness ==
  /\ WF_vars(Service)
  /\ \A index \in Regions : WF_vars(Answered(index))
  /\ WF_vars(ProcessExits)

Spec == Init /\ [][Next]_vars /\ Fairness

-------------------------------------------------------------------------------
(* Properties.                                                              *)

Ready == phase = "ready" /\ failures = 0

\* What the base still has in the place of the difference's own data, in the
\* blob or in the list of regions the upload will not send.
Stale == (blob \cup uploadedRegions) \cap (bat \cup {FooterRegion})

\* "Successfully copied and cleaned up base VHD": when the upload starts
\* without an error, nothing of the base is left where the difference VHD has
\* a block of its own.
CleanedUp == Ready => Stale = {}

\* However many regions there are, one at most is left over: the one after
\* those that were requested first (next++ before deleteRegion(next)).
OneRegionLeftAtMost ==
  Ready => \A region \in Stale :
             Threads < Len(deleteRegions) /\ region = RegionOf(Threads)

\* The upload skips the regions of uploadedRegions: when it starts, the blob
\* has data in these and in no others, whatever the order of the answers was.
UploadedRegionsAreExact == Ready => uploadedRegions = blob

\* After an error of clearPageRange() the upload is not started, by no one of
\* the requests that are still out: the connection that met the error is
\* never counted off.
NotReadyAfterFailure == exiting => phase = "deleting"

===============================================================================
