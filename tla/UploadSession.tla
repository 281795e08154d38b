----------------------------- MODULE UploadSession -----------------------------
(***************************************************************************)
(* Uploads of one VHD to one blob, again and again: the whole of           *)
(* uploadPageBlobFromBlobService() in pageBlob.js, as seen from the blob.  *)
(*                                                                         *)
(* Each run decides from what it finds (onGotBlobInfo()) whether it starts *)
(* anew or continues the upload of an earlier run, which may have been     *)
(* killed at any moment or have given up.  Nothing but the blob survives a *)
(* run.  The footer of a dynamic or difference VHD, cleared before and     *)
(* sent after everything stale is gone, says whose the blob's regions are. *)
(*                                                                         *)
(* A region stands for a block of the upload.  The threads that send them, *)
(* and those that clear the base's, are the modules PageBlobUpload and     *)
(* DiffVhdCleanup; here regions are sent and cleared in any order.         *)
(***************************************************************************)
EXTENDS Naturals, FiniteSets

CONSTANTS
  DataRegions,   \* the regions of the VHD but for its footer
  Footer,        \* the last region
  None, Mine, OfBase, Other,  \* what a region of the blob has: nothing, the
                 \* VHD's own data, the base VHD's data, something else
  VhdSpace,      \* the VHDs considered
  OptionSpace,   \* the options considered, for each VHD
  InitialBlobs,  \* the blobs found by the first run
  Threads        \* options.threads, for the clean-up

Regions == DataRegions \cup {Footer}

Contents == {None, Mine, OfBase, Other}

\* own:    the regions that the file has data in
\* base:   those the VHD given by --base-vhd has data in, the base in the cloud
\*         of a difference VHD
Vhds == [kind : {"fixed", "dynamic", "difference"},
         own : SUBSET DataRegions, base : SUBSET DataRegions, baseMd5 : BOOLEAN]

\* force: -f;  skipMd5: -m;  wrongBase: --base-vhd for a VHD that is no difference
\* VHD;  telemetry: sent before the CLI exits
Options == [force : BOOLEAN, skipMd5 : BOOLEAN, wrongBase : BOOLEAN, telemetry : BOOLEAN]

Blobs == [exists : BOOLEAN, sameSize : BOOLEAN, content : [Regions -> Contents],
          md5 : Contents]

ASSUME ContentsAssumption ==
  /\ Footer \notin DataRegions
  /\ Mine \notin {None, OfBase, Other}
  /\ None \notin {OfBase, Other}
  /\ OfBase # Other
ASSUME VhdSpaceAssumption == VhdSpace \subseteq Vhds
ASSUME OptionSpaceAssumption == OptionSpace \in [VhdSpace -> SUBSET Options]
ASSUME InitialBlobsAssumption == InitialBlobs \subseteq Blobs
ASSUME ThreadsAssumption == Threads \in Nat \ {0}

VARIABLES
  vhd,
  blob,             \* the service's
  options,          \* of the run
  phase,            \* of the run
  uploadedRegions,  \* regions the run takes for uploaded
  toClear,          \* regions of the base with a request out to clear them
  exiting,          \* one of these requests has failed
  md5,              \* "pending", or "done" when the upload need not wait for it
  exitPending,      \* an error has been reported, the process is about to exit
  outcome           \* of the run: what the caller was told last

runVars == <<options, phase, uploadedRegions, toClear, exiting, md5,
             exitPending, outcome>>
vars == <<vhd, blob, runVars>>

\* "idle":        no process is running
\* "inquiring":   getBlobInfo() is out
\* "creating":    createPageBlob() is out
\* "copying":     startCopyBlob() is out
\* "inspecting":  the getBlobInfo() after it is out
\* "clearing":    clearPageRange() requests are out
\* "clearingMd5": setBlobProperties() of the clean-up is out
\* "uploading":   onBlobCreated() has been called
\* "over":        the run has given up and waits for its telemetry
Phases == {"idle", "inquiring", "creating", "copying", "inspecting", "clearing",
           "clearingMd5", "uploading", "over"}

TypeOK ==
  /\ vhd \in VhdSpace
  /\ blob \in Blobs
  /\ options \in Options
  /\ phase \in Phases
  /\ uploadedRegions \subseteq Regions
  /\ toClear \subseteq uploadedRegions
  /\ exiting \in BOOLEAN
  /\ md5 \in {"pending", "done"}
  /\ exitPending \in BOOLEAN
  /\ outcome \in {"none", "success", "failed"}

\* The data a region has to have in the end.
Wanted(region) ==
  IF region \in vhd.own \cup {Footer} THEN Mine
  ELSE IF vhd.kind = "difference" /\ region \in vhd.base THEN OfBase
  ELSE None

Present(b) == {region \in Regions : b.content[region] # None}

With(b, region, data) == [b EXCEPT !.content[region] = data]

Init ==
  /\ vhd \in VhdSpace
  /\ blob \in InitialBlobs
  /\ options \in OptionSpace[vhd]
  /\ phase = "idle"
  /\ uploadedRegions = {}
  /\ toClear = {}
  /\ exiting = FALSE
  /\ md5 = "pending"
  /\ exitPending = FALSE
  /\ outcome = "none"

-------------------------------------------------------------------------------
(* A run, from its start to the creation of the blob.                       *)

StartRun ==
  /\ phase = "idle"
  /\ options' \in OptionSpace[vhd]
  /\ phase' = "inquiring"
  /\ uploadedRegions' = {}
  /\ toClear' = {}
  /\ exiting' = FALSE
  /\ md5' = IF options'.skipMd5 THEN "done" ELSE "pending"
  /\ exitPending' = FALSE
  /\ outcome' = "none"
  /\ UNCHANGED <<vhd, blob>>

\* Mutation: the error does not end the process.
Survives_Always == TRUE

\* The process has telemetry to send before it exits.
Survives == options.telemetry

\* exitWithError() and callback(error): the process ends at once, or goes on
\* for a while in the phase given.
ReportError(goesOnIn) ==
  /\ outcome' = "failed"
  /\ phase' = IF Survives THEN goesOnIn ELSE "idle"
  /\ exitPending' = Survives

ProcessExits ==
  /\ exitPending
  /\ phase' = "idle"
  /\ exitPending' = FALSE
  /\ UNCHANGED <<vhd, blob, options, uploadedRegions, toClear, exiting, md5,
                 outcome>>

Crash ==
  /\ phase # "idle"
  /\ phase' = "idle"
  /\ exitPending' = FALSE
  /\ outcome' = "none"
  /\ UNCHANGED <<vhd, blob, options, uploadedRegions, toClear, exiting, md5>>

\* A blob of the file's size that has data in it.
CanContinue == blob.exists /\ blob.sameSize /\ Present(blob) # {}

\* Mutation: the footer is not compared.
FooterMatches_NotCompared == TRUE

\* The footer is only compared if the VHD is a dynamic or difference one.
FooterMatches == vhd.kind # "fixed" => blob.content[Footer] = Mine

WrongBase == options.wrongBase /\ vhd.kind # "difference"
CreationPhase == IF vhd.kind = "difference" \/ WrongBase THEN "copying" ELSE "creating"

\* onGotBlobInfo() continues an earlier upload.  When the footers differ
\* exitWithError() is called, and the upload is started after it.
Continue ==
  /\ phase = "inquiring"
  /\ ~options.force /\ CanContinue
  /\ uploadedRegions' = Present(blob)
  /\ md5' = IF blob.md5 # None THEN "done" ELSE md5
  /\ IF FooterMatches
     THEN phase' = "uploading" /\ UNCHANGED <<exitPending, outcome>>
     ELSE ReportError("uploading")
  /\ UNCHANGED <<vhd, blob, options, toClear, exiting>>

\* onGotBlobInfo() starts anew.  When there should be no base exitWithError() is
\* called, and the base is copied after it.
Anew ==
  /\ phase = "inquiring"
  /\ options.force \/ ~CanContinue
  /\ IF WrongBase THEN ReportError(CreationPhase)
     ELSE phase' = CreationPhase /\ UNCHANGED <<exitPending, outcome>>
  /\ UNCHANGED <<vhd, blob, options, uploadedRegions, toClear, exiting, md5>>

\* getBlobInfo() fails.  exitWithError() is called, once more if there should be
\* no base, and the blob is created after it.
InquiryFails ==
  /\ phase = "inquiring"
  /\ ReportError(CreationPhase)
  /\ UNCHANGED <<vhd, blob, options, uploadedRegions, toClear, exiting, md5>>

EmptyBlob ==
  [exists |-> TRUE, sameSize |-> TRUE,
   content |-> [region \in Regions |-> None], md5 |-> None]

BlobCreated ==
  /\ phase = "creating"
  /\ blob' = EmptyBlob
  /\ phase' = "uploading"
  /\ UNCHANGED <<vhd, options, uploadedRegions, toClear, exiting, md5,
                 exitPending, outcome>>

\* The failed request may have been applied.
CreationFails ==
  /\ phase = "creating"
  /\ blob' \in {blob, EmptyBlob}
  /\ ReportError("over")
  /\ UNCHANGED <<vhd, options, uploadedRegions, toClear, exiting, md5>>

-------------------------------------------------------------------------------
(* createDiffVHDPageBlob().                                                 *)

CopyOfBase ==
  [exists |-> TRUE, sameSize |-> TRUE,
   content |-> [region \in Regions |->
                  IF region \in vhd.base \cup {Footer} THEN OfBase ELSE None],
   md5 |-> IF vhd.baseMd5 THEN OfBase ELSE None]

BaseCopied ==
  /\ phase = "copying"
  /\ blob' = CopyOfBase
  /\ phase' = "inspecting"
  /\ UNCHANGED <<vhd, options, uploadedRegions, toClear, exiting, md5,
                 exitPending, outcome>>

\* Nothing is called back, so that the process comes to its end.
CopyFails ==
  /\ phase = "copying"
  /\ phase' = "idle"
  /\ exitPending' = FALSE
  /\ UNCHANGED <<vhd, blob, options, uploadedRegions, toClear, exiting, md5,
                 outcome>>

FirstToClear == {Footer} \cup (vhd.own \cap Present(blob))

\* With more regions than connections one is left out, not the first of them,
\* which is the footer's (see OneRegionLeftAtMost in DiffVhdCleanup).
LeftOut ==
  IF Cardinality(FirstToClear) > Threads
  THEN {{region} : region \in FirstToClear \ {Footer}}
  ELSE {{}}

\* A fixed VHD has no table of blocks (ddHeader): the callback throws (Crash).
CopyInspected ==
  /\ phase = "inspecting" /\ vhd.kind # "fixed"
  /\ uploadedRegions' = Present(blob)
  /\ \E leftOut \in LeftOut : toClear' = FirstToClear \ leftOut
  /\ phase' = "clearing"
  /\ UNCHANGED <<vhd, blob, options, exiting, md5, exitPending, outcome>>

InspectionFails ==
  /\ phase = "inspecting"
  /\ ReportError("over")
  /\ UNCHANGED <<vhd, blob, options, uploadedRegions, toClear, exiting, md5>>

\* Mutation: the MD5 of the base stays in the blob.
AfterClearing_KeepsMd5 == "uploading"

AfterClearing == IF blob.md5 # None THEN "clearingMd5" ELSE "uploading"

\* Mutation: the upload does not wait for the other requests.
ClearingEnds_AtOnce(rest) == ~exiting

\* A connection that met an error is never counted off.
ClearingEnds(rest) == rest = {} /\ ~exiting

RegionCleared(region) ==
  /\ phase = "clearing"
  /\ region \in toClear
  /\ blob' = With(blob, region, None)
  /\ uploadedRegions' = uploadedRegions \ {region}
  /\ toClear' = toClear \ {region}
  /\ phase' = IF ClearingEnds(toClear') THEN AfterClearing ELSE "clearing"
  /\ UNCHANGED <<vhd, options, exiting, md5, exitPending, outcome>>

\* The failed request may have been applied.
RegionNotCleared(region) ==
  /\ phase = "clearing"
  /\ region \in toClear
  /\ blob' \in {blob, With(blob, region, None)}
  /\ toClear' = toClear \ {region}
  /\ exiting' = TRUE
  /\ ReportError("clearing")
  /\ UNCHANGED <<vhd, options, uploadedRegions, md5>>

BaseMd5Cleared ==
  /\ phase = "clearingMd5"
  /\ blob' = [blob EXCEPT !.md5 = None]
  /\ phase' = "uploading"
  /\ UNCHANGED <<vhd, options, uploadedRegions, toClear, exiting, md5,
                 exitPending, outcome>>

BaseMd5NotCleared ==
  /\ phase = "clearingMd5"
  /\ blob' \in {blob, [blob EXCEPT !.md5 = None]}
  /\ ReportError("uploading")
  /\ UNCHANGED <<vhd, options, uploadedRegions, toClear, exiting, md5>>

-------------------------------------------------------------------------------
(* onBlobCreated().                                                         *)

\* The blocks that next() goes through and finds not uploaded.
ToSend == {region \in Regions : Wanted(region) # None} \ uploadedRegions

RegionSent(region) ==
  /\ phase = "uploading"
  /\ region \in ToSend
  /\ blob' = With(blob, region, Wanted(region))
  /\ uploadedRegions' = uploadedRegions \cup {region}
  /\ UNCHANGED <<vhd, options, phase, toClear, exiting, md5, exitPending,
                 outcome>>

\* Mutation: a block is not sent again after an error.
SentAfterError_Yes(region) == uploadedRegions \cup {region}

SentAfterError(region) == uploadedRegions

\* The failed request may have been applied; the block stays to be sent.
RegionNotSent(region) ==
  /\ phase = "uploading"
  /\ region \in ToSend
  /\ blob' \in {blob, With(blob, region, Wanted(region))}
  /\ uploadedRegions' = SentAfterError(region)
  /\ UNCHANGED <<vhd, options, phase, toClear, exiting, md5, exitPending,
                 outcome>>

GiveUp ==
  /\ phase = "uploading"
  /\ ToSend # {}
  /\ ReportError("over")
  /\ UNCHANGED <<vhd, blob, options, uploadedRegions, toClear, exiting, md5>>

Md5Stored ==
  /\ phase = "uploading" /\ md5 = "pending"
  /\ blob' = [blob EXCEPT !.md5 = Mine]
  /\ md5' = "done"
  /\ UNCHANGED <<vhd, options, phase, uploadedRegions, toClear, exiting,
                 exitPending, outcome>>

\* setBlobProperties() fails.  Before the last thread has found the upload
\* finished that ends the process; after it, the error is not looked at.
Md5NotStored ==
  /\ phase = "uploading" /\ md5 = "pending"
  /\ blob' \in {blob, [blob EXCEPT !.md5 = Mine]}
  /\ \/ /\ phase' = "idle"
        /\ exitPending' = FALSE
        /\ outcome' = "failed"
        /\ UNCHANGED md5
     \/ /\ ToSend = {}
        /\ md5' = "done"
        /\ UNCHANGED <<phase, exitPending, outcome>>
  /\ UNCHANGED <<vhd, options, uploadedRegions, toClear, exiting>>

\* The file cannot be read.  exitWithError() is called, and the MD5 is set to
\* nothing after it.
Md5StreamFails ==
  /\ phase = "uploading" /\ md5 = "pending"
  /\ ReportError("uploading")
  /\ md5' = "done"
  /\ blob' \in IF options.telemetry THEN {blob, [blob EXCEPT !.md5 = None]}
               ELSE {blob}
  /\ UNCHANGED <<vhd, options, uploadedRegions, toClear, exiting>>

Succeed ==
  /\ phase = "uploading"
  /\ ToSend = {} /\ md5 = "done"
  /\ phase' = "idle"
  /\ exitPending' = FALSE
  /\ outcome' = "success"
  /\ UNCHANGED <<vhd, blob, options, uploadedRegions, toClear, exiting, md5>>

-------------------------------------------------------------------------------
Creation ==
  \/ Continue \/ Anew \/ InquiryFails
  \/ BlobCreated \/ CreationFails

CleanUp ==
  \/ BaseCopied \/ CopyFails
  \/ CopyInspected \/ InspectionFails
  \/ \E region \in Regions : RegionCleared(region) \/ RegionNotCleared(region)
  \/ BaseMd5Cleared \/ BaseMd5NotCleared

Upload ==
  \/ \E region \in Regions : RegionSent(region) \/ RegionNotSent(region)
  \/ GiveUp
  \/ Md5Stored \/ Md5NotStored \/ Md5StreamFails
  \/ Succeed

Next == StartRun \/ Creation \/ CleanUp \/ Upload \/ ProcessExits \/ Crash

Spec == Init /\ [][Next]_vars

-------------------------------------------------------------------------------
(* Properties.                                                              *)

\* The footer in the blob vouches for all of it: under the footer of this VHD
\* no region has stale data, whenever earlier runs were killed or gave up.
FooterVouches ==
  vhd.kind # "fixed" /\ blob.content[Footer] = Mine
    => \A region \in Regions : blob.content[region] \in {None, Wanted(region)}

\* When a run reports success, every region has the data it has to have.
SuccessMeansRightContent ==
  outcome = "success" /\ phase = "idle"
    => \A region \in Regions : blob.content[region] = Wanted(region)

\* Whatever went wrong before, and whether or not the errors were heeded: when
\* a run reports success, no region that has to have data is without.
SuccessMeansNothingMissing ==
  outcome = "success" /\ phase = "idle"
    => \A region \in Regions : Wanted(region) # None => region \in Present(blob)

\* An MD5 that stays in the blob with a success is the file's own.
SuccessMeansRightMd5 ==
  outcome = "success" /\ phase = "idle" => blob.md5 \in {None, Mine}

\* Without -f nothing that was uploaded is ever uploaded again or lost.
NothingIsLost ==
  [][\A region \in Regions :
       LET isSafe == ~options.force /\ blob.sameSize /\ blob.content[Footer] = Mine
       IN (isSafe /\ blob.content[region] = Mine) => blob'.content[region] = Mine]_vars

===============================================================================
