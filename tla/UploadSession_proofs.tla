-------------------------- MODULE UploadSession_proofs --------------------------
(***************************************************************************)
(* For any VHD, any number of regions and any sequence of runs, killed and *)
(* failing ones among them: the footer vouches for the blob, and a success *)
(* means that the blob is right.  Three conditions are needed and stated:    *)
(* QuickExits, StartsClean, EnoughThreads.  Without any one of them TLC     *)
(* refutes the claim.                                                      *)
(***************************************************************************)
EXTENDS UploadSession, FiniteSetTheorems, TLAPS

\* The process ends with the first error that is reported.
QuickExits == \A v \in VhdSpace : \A o \in OptionSpace[v] : ~o.telemetry

\* A connection for every region that the clean-up may have to clear.
EnoughThreads == IsFiniteSet(DataRegions) /\ Threads > Cardinality(DataRegions)

\* What an earlier run may leave behind for a later one to build upon.
Sound(b) ==
  /\ \A region \in Regions : b.content[region] \in {None, Wanted(region)}
  /\ b.md5 \in {None, Mine}

EmptyContent(b) == b.md5 = None /\ \A region \in Regions : b.content[region] = None

\* A fixed VHD finds no blob of another file, and no other VHD finds its own
\* footer over someone else's data.
StartsClean ==
  \A b \in InitialBlobs :
    \/ EmptyContent(b)
    \/ b.content[Footer] # Mine /\ \A v \in VhdSpace : v.kind # "fixed"

Vouches == vhd.kind = "fixed" \/ blob.content[Footer] = Mine => Sound(blob)

ExitInv ==
  /\ ~options.telemetry
  /\ exitPending = FALSE
  /\ phase # "idle" => exiting = FALSE /\ outcome # "success"

BeforeInv ==
  /\ phase \in {"inquiring", "creating", "copying", "inspecting"}
       => uploadedRegions = {}
  /\ phase \in {"copying", "inspecting", "clearing", "clearingMd5"}
       => vhd.kind = "difference"
  /\ phase # "over"

\* The blob is the base's copy; what uploadedRegions lists is the base's.
CopyInv ==
  /\ phase = "inspecting" =>
       \A region \in Regions :
         blob.content[region] = IF region \in vhd.base \cup {Footer}
                                THEN OfBase ELSE None
  /\ phase \in {"clearing", "clearingMd5"} =>
       /\ \A region \in Regions :
            blob.content[region] = IF region \in uploadedRegions
                                   THEN OfBase ELSE None
       /\ uploadedRegions \subseteq vhd.base \cup {Footer}
       /\ \A region \in uploadedRegions :
            region \in vhd.own \cup {Footer} => region \in toClear
  /\ phase = "clearingMd5" => toClear = {}

\* Nothing stale is in the blob, and what uploadedRegions lists is there.
UploadInv ==
  phase = "uploading" =>
    /\ Sound(blob)
    /\ \A region \in uploadedRegions : blob.content[region] = Wanted(region)

OutcomeInv ==
  outcome = "success" /\ phase = "idle" =>
    /\ Sound(blob)
    /\ \A region \in Regions : blob.content[region] = Wanted(region)

IInv ==
  TypeOK /\ Vouches /\ ExitInv /\ BeforeInv /\ CopyInv /\ UploadInv /\ OutcomeInv

-------------------------------------------------------------------------------
LEMMA BlobFacts ==
  ASSUME NEW b \in Blobs, NEW region \in Regions, NEW data \in Contents
  PROVE  /\ With(b, region, data) \in Blobs
         /\ With(b, region, data).md5 = b.md5
         /\ With(b, region, data).content[region] = data
         /\ \A other \in Regions \ {region} :
              With(b, region, data).content[other] = b.content[other]
<1>1. b.content \in [Regions -> Contents]
  BY DEF Blobs
<1>2. With(b, region, data) = [b EXCEPT !.content = [b.content EXCEPT ![region] = data]]
  BY DEF With
<1>3. [b.content EXCEPT ![region] = data] \in [Regions -> Contents]
  BY <1>1
<1>4. With(b, region, data) \in Blobs
  BY <1>2, <1>3 DEF Blobs
<1>5. /\ With(b, region, data).md5 = b.md5
      /\ With(b, region, data).content = [b.content EXCEPT ![region] = data]
  BY <1>2 DEF Blobs
<1>. QED BY <1>1, <1>4, <1>5

LEMMA Md5Facts ==
  ASSUME NEW b \in Blobs, NEW data \in Contents
  PROVE  /\ [b EXCEPT !.md5 = data] \in Blobs
         /\ [b EXCEPT !.md5 = data].md5 = data
         /\ [b EXCEPT !.md5 = data].content = b.content
BY DEF Blobs

LEMMA NewBlobFacts ==
  ASSUME TypeOK
  PROVE  /\ EmptyBlob \in Blobs /\ EmptyContent(EmptyBlob)
         /\ CopyOfBase \in Blobs
BY DEF EmptyBlob, EmptyContent, CopyOfBase, Blobs, Contents

LEMMA WantedFacts ==
  ASSUME TypeOK
  PROVE  /\ Wanted(Footer) = Mine
         /\ \A region \in Regions : Wanted(region) \in Contents
BY DEF Wanted, Contents

\* Sending a region leaves a sound blob sound.
LEMMA SoundSend ==
  ASSUME TypeOK, Sound(blob), NEW region \in Regions,
         blob' = With(blob, region, Wanted(region)), vhd' = vhd
  PROVE  Sound(blob)' /\ blob' \in Blobs
<1>1. blob \in Blobs /\ Wanted(region) \in Contents
  BY WantedFacts DEF TypeOK
<1>2. /\ blob' \in Blobs /\ blob'.md5 = blob.md5
      /\ blob'.content[region] = Wanted(region)
      /\ \A other \in Regions \ {region} : blob'.content[other] = blob.content[other]
  BY <1>1, BlobFacts
<1>3. \A other \in Regions : Wanted(other)' = Wanted(other)
  BY DEF Wanted
<1>. QED BY <1>2, <1>3 DEF Sound

LEMMA SoundMd5 ==
  ASSUME TypeOK, Sound(blob), NEW data \in {None, Mine},
         blob' = [blob EXCEPT !.md5 = data], vhd' = vhd
  PROVE  Sound(blob)' /\ blob' \in Blobs /\ blob'.content = blob.content
<1>1. /\ blob' \in Blobs /\ blob'.md5 = data /\ blob'.content = blob.content
  BY Md5Facts DEF TypeOK, Contents
<1>2. \A other \in Regions : Wanted(other)' = Wanted(other)
  BY DEF Wanted
<1>. QED BY <1>1, <1>2 DEF Sound

-------------------------------------------------------------------------------
(* Errors, and every other way to the end of a run.                         *)

LEMMA ReportFacts ==
  ASSUME IInv, NEW goesOnIn, ReportError(goesOnIn)
  PROVE  phase' = "idle" /\ exitPending' = FALSE /\ outcome' = "failed"
BY DEF ReportError, Survives, IInv, ExitInv, TypeOK, Options

LEMMA SameBlob ==
  ASSUME IInv, vhd' = vhd, blob' = blob
  PROVE  /\ Vouches' /\ (Sound(blob)' <=> Sound(blob))
         /\ blob' \in Blobs /\ vhd' \in VhdSpace
BY DEF IInv, Vouches, Sound, Wanted, TypeOK

LEMMA RunEnds ==
  ASSUME IInv, vhd' = vhd, options' = options, Vouches', blob' \in Blobs,
         phase' = "idle", exitPending' = FALSE,
         outcome' \in {"none", "failed"},
         uploadedRegions' \subseteq Regions, toClear' \subseteq uploadedRegions',
         exiting' \in BOOLEAN, md5' \in {"pending", "done"}
  PROVE  IInv'
<1>1. TypeOK'
  BY DEF IInv, TypeOK, Phases
<1>2. ExitInv'
  BY DEF IInv, ExitInv
<1>3. BeforeInv' /\ CopyInv' /\ UploadInv' /\ OutcomeInv'
  BY DEF BeforeInv, CopyInv, UploadInv, OutcomeInv
<1>. QED BY <1>1, <1>2, <1>3 DEF IInv

LEMMA StepErrors ==
  ASSUME IInv,
         InquiryFails \/ InspectionFails \/ GiveUp \/ CopyFails \/ Crash
  PROVE  IInv'
<1>1. /\ UNCHANGED <<vhd, blob, options, uploadedRegions, toClear, exiting, md5>>
      /\ phase' = "idle" /\ exitPending' = FALSE
      /\ outcome' \in {"none", "failed"}
  <2>1. CASE CopyFails
    BY <2>1 DEF CopyFails, IInv, ExitInv, TypeOK
  <2>2. CASE Crash
    BY <2>2 DEF Crash
  <2>3. CASE InquiryFails \/ InspectionFails \/ GiveUp
    BY <2>3, ReportFacts DEF InquiryFails, InspectionFails, GiveUp
  <2>. QED BY <2>1, <2>2, <2>3
<1>2. Vouches' /\ blob' \in Blobs
  BY <1>1, SameBlob
<1>. QED BY <1>1, <1>2, RunEnds DEF IInv, TypeOK

LEMMA StepCreationFails ==
  ASSUME IInv, CreationFails
  PROVE  IInv'
<1>1. /\ UNCHANGED <<vhd, options, uploadedRegions, toClear, exiting, md5>>
      /\ blob' \in {blob, EmptyBlob}
      /\ phase' = "idle" /\ exitPending' = FALSE /\ outcome' = "failed"
  BY ReportFacts DEF CreationFails
<1>2. Vouches' /\ blob' \in Blobs
  <2>1. CASE blob' = blob
    BY <2>1, <1>1, SameBlob
  <2>2. CASE blob' = EmptyBlob
    BY <2>2, NewBlobFacts DEF IInv, EmptyContent, Vouches, Sound
  <2>. QED BY <1>1, <2>1, <2>2
<1>. QED BY <1>1, <1>2, RunEnds DEF IInv, TypeOK

\* While the base is cleaned up, the footer is not the VHD's own.
LEMMA NotVouching ==
  ASSUME IInv, vhd' = vhd, vhd.kind = "difference", blob'.content[Footer] # Mine
  PROVE  Vouches'
BY DEF Vouches

LEMMA ClearingFacts ==
  ASSUME IInv, phase \in {"clearing", "clearingMd5"}
  PROVE  /\ vhd.kind = "difference"
         /\ blob \in Blobs /\ blob.content[Footer] \in {None, OfBase}
         /\ Mine \notin {None, OfBase}
         /\ Footer \in Regions
BY ContentsAssumption DEF IInv, BeforeInv, CopyInv, TypeOK, Regions

LEMMA ClearedBlob ==
  ASSUME IInv, phase = "clearing", NEW region \in toClear
  PROVE  /\ region \in Regions
         /\ With(blob, region, None) \in Blobs
         /\ With(blob, region, None).content[Footer] \in {None, OfBase}
         /\ With(blob, region, None).content[region] = None
         /\ \A other \in Regions \ {region} :
              With(blob, region, None).content[other] = blob.content[other]
<1>1. region \in Regions /\ None \in Contents /\ blob \in Blobs
  BY DEF IInv, TypeOK, Contents
<1>2. /\ With(blob, region, None) \in Blobs
      /\ With(blob, region, None).content[region] = None
      /\ \A other \in Regions \ {region} :
              With(blob, region, None).content[other] = blob.content[other]
  BY <1>1, BlobFacts
<1>3. blob.content[Footer] \in {None, OfBase} /\ Footer \in Regions
  BY ClearingFacts
<1>. QED BY <1>1, <1>2, <1>3

LEMMA StepRegionNotCleared ==
  ASSUME IInv, NEW region \in Regions, RegionNotCleared(region)
  PROVE  IInv'
<1>1. /\ phase = "clearing" /\ region \in toClear
      /\ blob' \in {blob, With(blob, region, None)}
      /\ toClear' = toClear \ {region} /\ exiting' = TRUE
      /\ UNCHANGED <<vhd, options, uploadedRegions, md5>>
      /\ phase' = "idle" /\ exitPending' = FALSE /\ outcome' = "failed"
  BY ReportFacts DEF RegionNotCleared
<1>2. blob' \in Blobs /\ blob'.content[Footer] \in {None, OfBase}
  BY <1>1, ClearedBlob, ClearingFacts
<1>3. Vouches'
  BY <1>1, <1>2, NotVouching, ClearingFacts
<1>. QED BY <1>1, <1>2, <1>3, RunEnds DEF IInv, TypeOK

LEMMA StepBaseMd5NotCleared ==
  ASSUME IInv, BaseMd5NotCleared
  PROVE  IInv'
<1>1. /\ phase = "clearingMd5"
      /\ blob' \in {blob, [blob EXCEPT !.md5 = None]}
      /\ UNCHANGED <<vhd, options, uploadedRegions, toClear, exiting, md5>>
      /\ phase' = "idle" /\ exitPending' = FALSE /\ outcome' = "failed"
  BY ReportFacts DEF BaseMd5NotCleared
<1>2. blob' \in Blobs /\ blob'.content = blob.content
  BY <1>1, Md5Facts DEF IInv, TypeOK, Contents
<1>3. Vouches'
  BY <1>1, <1>2, NotVouching, ClearingFacts
<1>. QED BY <1>1, <1>2, <1>3, RunEnds DEF IInv, TypeOK

-------------------------------------------------------------------------------
(* The steps up to the upload.                                              *)

\* What a step that changes the phase and neither the blob nor an option
\* leaves to be shown.
LEMMA RunGoesOn ==
  ASSUME IInv, UNCHANGED <<vhd, blob, exitPending, outcome, exiting>>,
         options' \in Options, ~options'.telemetry,
         phase' \in Phases \ {"idle", "over"}, phase # "idle",
         uploadedRegions' \subseteq Regions, toClear' \subseteq uploadedRegions',
         md5' \in {"pending", "done"}
  PROVE  TypeOK' /\ Vouches' /\ ExitInv' /\ OutcomeInv'
<1>1. TypeOK'
  BY DEF IInv, TypeOK
<1>2. ExitInv'
  BY DEF IInv, ExitInv
<1>3. OutcomeInv'
  BY DEF OutcomeInv, Phases
<1>. QED BY <1>1, <1>2, <1>3, SameBlob

LEMMA StepStartRun ==
  ASSUME IInv, StartRun, QuickExits
  PROVE  IInv'
<1>1. options' \in Options /\ ~options'.telemetry
  BY OptionSpaceAssumption DEF StartRun, QuickExits, IInv, TypeOK
<1>2. TypeOK'
  BY <1>1 DEF StartRun, IInv, TypeOK, Phases
<1>3. ExitInv' /\ BeforeInv' /\ CopyInv' /\ UploadInv' /\ OutcomeInv'
  BY <1>1 DEF StartRun, ExitInv, BeforeInv, CopyInv, UploadInv, OutcomeInv
<1>4. Vouches'
  BY SameBlob DEF StartRun
<1>. QED BY <1>2, <1>3, <1>4 DEF IInv

LEMMA StepContinue ==
  ASSUME IInv, Continue
  PROVE  IInv'
<1>1. CASE FooterMatches
  <2>1. /\ phase = "inquiring" /\ phase' = "uploading"
        /\ UNCHANGED <<vhd, blob, options, toClear, exiting, exitPending, outcome>>
        /\ uploadedRegions' = Present(blob)
        /\ md5' \in {"done", md5}
    BY <1>1 DEF Continue
  <2>2. toClear = {} /\ Present(blob) \subseteq Regions
    BY <2>1 DEF IInv, BeforeInv, TypeOK, Present
  <2>3. TypeOK' /\ Vouches' /\ ExitInv' /\ OutcomeInv'
    <3>1. options' \in Options /\ ~options'.telemetry /\ md5' \in {"pending", "done"}
      BY <2>1 DEF IInv, TypeOK, ExitInv
    <3>. QED BY <2>1, <2>2, <3>1, RunGoesOn DEF Phases
  <2>4. BeforeInv' /\ CopyInv'
    BY <2>1 DEF BeforeInv, CopyInv
  <2>5. Sound(blob)
    BY <1>1 DEF FooterMatches, IInv, Vouches, TypeOK
  <2>6. UploadInv'
    <3>1. Sound(blob)'
      BY <2>1, <2>5, SameBlob
    <3>2. \A region \in Present(blob) : blob.content[region] = Wanted(region)
      BY <2>5 DEF Sound, Present
    <3>3. \A region \in Regions : Wanted(region)' = Wanted(region)
      BY <2>1 DEF Wanted
    <3>. QED BY <2>1, <2>2, <3>1, <3>2, <3>3 DEF UploadInv
  <2>. QED BY <2>3, <2>4, <2>6 DEF IInv
<1>2. CASE ~FooterMatches
  <2>1. /\ UNCHANGED <<vhd, blob, options, toClear, exiting>>
        /\ phase = "inquiring"
        /\ uploadedRegions' = Present(blob)
        /\ md5' \in {"done", md5}
        /\ phase' = "idle" /\ exitPending' = FALSE /\ outcome' = "failed"
    BY <1>2, ReportFacts DEF Continue
  <2>2. toClear = {} /\ Present(blob) \subseteq Regions
    BY <2>1 DEF IInv, BeforeInv, TypeOK, Present
  <2>3. Vouches' /\ blob' \in Blobs
    BY <2>1, SameBlob
  <2>. QED BY <2>1, <2>2, <2>3, RunEnds DEF IInv, TypeOK
<1>. QED BY <1>1, <1>2

LEMMA StepAnew ==
  ASSUME IInv, Anew
  PROVE  IInv'
<1>1. /\ phase = "inquiring"
      /\ UNCHANGED <<vhd, blob, options, uploadedRegions, toClear, exiting, md5>>
  BY DEF Anew
<1>2. CASE WrongBase
  <2>1. /\ phase' = "idle" /\ exitPending' = FALSE /\ outcome' = "failed"
    BY <1>2, ReportFacts DEF Anew
  <2>2. Vouches' /\ blob' \in Blobs
    BY <1>1, SameBlob
  <2>. QED BY <1>1, <2>1, <2>2, RunEnds DEF IInv, TypeOK
<1>3. CASE ~WrongBase
  <2>1. phase' = CreationPhase /\ UNCHANGED <<exitPending, outcome>>
    BY <1>3 DEF Anew
  <2>2. /\ phase' \in {"copying", "creating"}
        /\ phase' = "copying" => vhd.kind = "difference"
    BY <1>3, <2>1 DEF CreationPhase
  <2>3. TypeOK' /\ Vouches' /\ ExitInv' /\ OutcomeInv'
    BY <1>1, <2>1, <2>2, RunGoesOn DEF IInv, TypeOK, ExitInv, Phases
  <2>4. BeforeInv' /\ CopyInv' /\ UploadInv'
    BY <1>1, <2>1, <2>2 DEF IInv, BeforeInv, CopyInv, UploadInv
  <2>. QED BY <2>3, <2>4 DEF IInv
<1>. QED BY <1>2, <1>3

LEMMA StepBlobCreated ==
  ASSUME IInv, BlobCreated
  PROVE  IInv'
<1>1. /\ phase = "creating" /\ phase' = "uploading" /\ blob' = EmptyBlob
      /\ UNCHANGED <<vhd, options, uploadedRegions, toClear, exiting, md5,
                     exitPending, outcome>>
  BY DEF BlobCreated
<1>2. EmptyBlob \in Blobs /\ EmptyContent(EmptyBlob)
  BY NewBlobFacts DEF IInv
<1>3. Sound(blob)'
  BY <1>1, <1>2 DEF EmptyContent, Sound
<1>4. TypeOK'
  BY <1>1, <1>2 DEF IInv, TypeOK, Phases
<1>5. uploadedRegions = {}
  BY <1>1 DEF IInv, BeforeInv
<1>6. Vouches' /\ ExitInv' /\ BeforeInv' /\ CopyInv' /\ UploadInv' /\ OutcomeInv'
  BY <1>1, <1>3, <1>5
     DEF IInv, Vouches, ExitInv, BeforeInv, CopyInv, UploadInv, OutcomeInv
<1>. QED BY <1>4, <1>6 DEF IInv

LEMMA StepBaseCopied ==
  ASSUME IInv, BaseCopied
  PROVE  IInv'
<1>1. /\ phase = "copying" /\ phase' = "inspecting" /\ blob' = CopyOfBase
      /\ UNCHANGED <<vhd, options, uploadedRegions, toClear, exiting, md5,
                     exitPending, outcome>>
  BY DEF BaseCopied
<1>2. CopyOfBase \in Blobs /\ vhd.kind = "difference" /\ uploadedRegions = {}
  BY <1>1, NewBlobFacts DEF IInv, BeforeInv
<1>3. \A region \in Regions :
        blob'.content[region] = IF region \in vhd.base \cup {Footer}
                                THEN OfBase ELSE None
  BY <1>1 DEF CopyOfBase
<1>4. blob'.content[Footer] # Mine
  BY <1>3, ContentsAssumption DEF Regions
<1>5. Vouches'
  BY <1>1, <1>2, <1>4, NotVouching
<1>6. TypeOK'
  BY <1>1, <1>2 DEF IInv, TypeOK, Phases
<1>7. ExitInv' /\ BeforeInv' /\ CopyInv' /\ UploadInv' /\ OutcomeInv'
  BY <1>1, <1>2, <1>3
     DEF IInv, ExitInv, BeforeInv, CopyInv, UploadInv, OutcomeInv
<1>. QED BY <1>5, <1>6, <1>7 DEF IInv

LEMMA NothingLeftOut ==
  ASSUME IInv, EnoughThreads
  PROVE  LeftOut = {{}}
<1>1. vhd.own \cap Present(blob) \in SUBSET DataRegions
  BY VhdSpaceAssumption DEF IInv, TypeOK, Vhds
<1>2. /\ IsFiniteSet(vhd.own \cap Present(blob))
      /\ Cardinality(vhd.own \cap Present(blob)) <= Cardinality(DataRegions)
  BY <1>1, FS_Subset DEF EnoughThreads
<1>3. /\ Cardinality(FirstToClear) \in Nat
      /\ Cardinality(FirstToClear) <= Cardinality(vhd.own \cap Present(blob)) + 1
  <2>1. FirstToClear = (vhd.own \cap Present(blob)) \cup {Footer}
    BY DEF FirstToClear
  <2>. QED BY <2>1, <1>2, FS_AddElement, FS_CardinalityType
<1>4. /\ Cardinality(DataRegions) \in Nat
      /\ Cardinality(vhd.own \cap Present(blob)) \in Nat
  BY <1>2, FS_CardinalityType DEF EnoughThreads
<1>5. ~(Cardinality(FirstToClear) > Threads)
  BY <1>2, <1>3, <1>4, ThreadsAssumption DEF EnoughThreads
<1>. QED BY <1>5 DEF LeftOut

LEMMA StepCopyInspected ==
  ASSUME IInv, CopyInspected, EnoughThreads
  PROVE  IInv'
<1>1. /\ phase = "inspecting" /\ phase' = "clearing"
      /\ uploadedRegions' = Present(blob)
      /\ toClear' = {Footer} \cup (vhd.own \cap Present(blob))
      /\ UNCHANGED <<vhd, blob, options, exiting, md5, exitPending, outcome>>
  BY NothingLeftOut DEF CopyInspected, FirstToClear
<1>2. \A region \in Regions :
        blob.content[region] = IF region \in vhd.base \cup {Footer}
                               THEN OfBase ELSE None
  BY <1>1 DEF IInv, CopyInv
<1>3. /\ vhd.kind = "difference" /\ vhd.base \subseteq Regions
      /\ Footer \in Regions /\ None # OfBase
  BY <1>1, ContentsAssumption, VhdSpaceAssumption
     DEF IInv, BeforeInv, TypeOK, Vhds, Regions
<1>4. Present(blob) = vhd.base \cup {Footer}
  BY <1>2, <1>3 DEF Present
<1>5. /\ uploadedRegions' \subseteq Regions /\ toClear' \subseteq uploadedRegions'
      /\ uploadedRegions' \subseteq vhd.base \cup {Footer}
  BY <1>1, <1>3, <1>4
<1>6. TypeOK' /\ Vouches' /\ ExitInv' /\ OutcomeInv'
  BY <1>1, <1>5, RunGoesOn DEF IInv, TypeOK, ExitInv, Phases
<1>7. CopyInv'
  <2>1. \A region \in Regions :
          blob'.content[region] = IF region \in uploadedRegions'
                                  THEN OfBase ELSE None
    BY <1>1, <1>2, <1>4
  <2>2. \A region \in uploadedRegions' :
          region \in vhd'.own \cup {Footer} => region \in toClear'
    BY <1>1
  <2>. QED BY <1>1, <1>5, <2>1, <2>2 DEF CopyInv
<1>8. BeforeInv' /\ UploadInv'
  BY <1>1, <1>3 DEF BeforeInv, UploadInv
<1>. QED BY <1>6, <1>7, <1>8 DEF IInv

LEMMA StepRegionCleared ==
  ASSUME IInv, NEW region \in Regions, RegionCleared(region)
  PROVE  IInv'
<1>1. /\ phase = "clearing" /\ region \in toClear
      /\ blob' = With(blob, region, None)
      /\ uploadedRegions' = uploadedRegions \ {region}
      /\ toClear' = toClear \ {region}
      /\ UNCHANGED <<vhd, options, exiting, md5, exitPending, outcome>>
      /\ phase' \in {"clearing", "clearingMd5", "uploading"}
      /\ phase' # "clearing" => toClear' = {}
      /\ phase' = "uploading" => blob.md5 = None
  BY DEF RegionCleared, ClearingEnds, AfterClearing
<1>2. /\ blob' \in Blobs /\ blob'.content[Footer] \in {None, OfBase}
      /\ blob'.content[region] = None
      /\ \A other \in Regions \ {region} : blob'.content[other] = blob.content[other]
  BY <1>1, ClearedBlob
<1>3. vhd.kind = "difference" /\ Mine \notin {None, OfBase}
  BY <1>1, ClearingFacts
<1>4. Vouches'
  BY <1>1, <1>2, <1>3, NotVouching
<1>5. /\ \A other \in Regions :
           blob'.content[other] = IF other \in uploadedRegions'
                                  THEN OfBase ELSE None
      /\ uploadedRegions' \subseteq vhd'.base \cup {Footer}
      /\ \A other \in uploadedRegions' :
           other \in vhd'.own \cup {Footer} => other \in toClear'
  BY <1>1, <1>2 DEF IInv, CopyInv
<1>6. TypeOK'
  <2>1. phase' \in Phases /\ uploadedRegions' \subseteq Regions /\ toClear' \subseteq uploadedRegions'
    BY <1>1 DEF IInv, TypeOK, Phases
  <2>. QED BY <1>1, <1>2, <2>1 DEF IInv, TypeOK
<1>7. ExitInv' /\ BeforeInv' /\ OutcomeInv'
  BY <1>1, <1>3 DEF IInv, ExitInv, BeforeInv, OutcomeInv
<1>8. CopyInv'
  BY <1>1, <1>5 DEF CopyInv
<1>9. UploadInv'
  <2>. SUFFICES ASSUME phase' = "uploading"
                PROVE  /\ Sound(blob)'
                       /\ \A other \in uploadedRegions' :
                            blob'.content[other] = Wanted(other)'
    BY DEF UploadInv
  <2>1. toClear' = {} /\ uploadedRegions' \subseteq Regions
    BY <1>1 DEF IInv, TypeOK
  <2>2. \A other \in uploadedRegions' :
          /\ other \in vhd'.base /\ other \notin vhd'.own \cup {Footer}
          /\ blob'.content[other] = OfBase
    BY <1>5, <2>1
  <2>3. \A other \in uploadedRegions' : Wanted(other)' = OfBase
    BY <2>2, <1>1, <1>3 DEF Wanted
  <2>4. blob'.md5 = None
    <3>1. blob \in Blobs /\ None \in Contents /\ region \in Regions
      BY DEF IInv, TypeOK, Contents
    <3>. QED BY <1>1, <3>1, BlobFacts
  <2>5. Sound(blob)'
    BY <1>5, <2>3, <2>4 DEF Sound
  <2>. QED BY <2>2, <2>3, <2>5
<1>. QED BY <1>4, <1>6, <1>7, <1>8, <1>9 DEF IInv

LEMMA StepBaseMd5Cleared ==
  ASSUME IInv, BaseMd5Cleared
  PROVE  IInv'
<1>1. /\ phase = "clearingMd5" /\ phase' = "uploading"
      /\ blob' = [blob EXCEPT !.md5 = None]
      /\ UNCHANGED <<vhd, options, uploadedRegions, toClear, exiting, md5,
                     exitPending, outcome>>
  BY DEF BaseMd5Cleared
<1>2. blob' \in Blobs /\ blob'.content = blob.content /\ blob'.md5 = None
  BY <1>1, Md5Facts DEF IInv, TypeOK, Contents
<1>3. /\ \A region \in Regions :
           blob.content[region] = IF region \in uploadedRegions
                                  THEN OfBase ELSE None
      /\ uploadedRegions \subseteq vhd.base \cup {Footer}
      /\ uploadedRegions \subseteq Regions
      /\ \A region \in uploadedRegions : region \notin vhd.own \cup {Footer}
  BY <1>1 DEF IInv, CopyInv, TypeOK
<1>4. vhd.kind = "difference"
  BY <1>1, ClearingFacts
<1>5. \A region \in uploadedRegions : Wanted(region)' = OfBase
  BY <1>1, <1>3, <1>4 DEF Wanted
<1>6. Sound(blob)'
  BY <1>2, <1>3, <1>5 DEF Sound
<1>7. Vouches' /\ UploadInv'
  BY <1>1, <1>2, <1>3, <1>5, <1>6 DEF Vouches, UploadInv
<1>8. TypeOK'
  BY <1>1, <1>2 DEF IInv, TypeOK, Phases
<1>9. ExitInv' /\ BeforeInv' /\ CopyInv' /\ OutcomeInv'
  BY <1>1 DEF IInv, ExitInv, BeforeInv, CopyInv, OutcomeInv
<1>. QED BY <1>7, <1>8, <1>9 DEF IInv

-------------------------------------------------------------------------------
(* The upload.                                                              *)

\* A step of the upload that leaves a sound blob and goes on.
LEMMA UploadGoesOn ==
  ASSUME IInv, phase = "uploading", phase' = "uploading",
         UNCHANGED <<vhd, options, toClear, exiting, exitPending, outcome>>,
         Sound(blob)', blob' \in Blobs,
         uploadedRegions \subseteq uploadedRegions', uploadedRegions' \subseteq Regions,
         \A region \in uploadedRegions' : blob'.content[region] = Wanted(region)',
         md5' \in {"pending", "done"}
  PROVE  IInv'
<1>1. TypeOK'
  <2>1. toClear' \subseteq uploadedRegions'
    BY DEF IInv, TypeOK
  <2>. QED BY <2>1 DEF IInv, TypeOK, Phases
<1>2. Vouches' /\ UploadInv'
  BY DEF Vouches, UploadInv
<1>3. ExitInv' /\ BeforeInv' /\ CopyInv' /\ OutcomeInv'
  BY DEF IInv, ExitInv, BeforeInv, CopyInv, OutcomeInv
<1>. QED BY <1>1, <1>2, <1>3 DEF IInv

LEMMA StepRegionSent ==
  ASSUME IInv, NEW region \in Regions, RegionSent(region) \/ RegionNotSent(region)
  PROVE  IInv'
<1>1. /\ phase = "uploading" /\ phase' = "uploading" /\ region \in ToSend
      /\ blob' \in {blob, With(blob, region, Wanted(region))}
      /\ uploadedRegions' \in {uploadedRegions, uploadedRegions \cup {region}}
      /\ uploadedRegions' # uploadedRegions
           => blob' = With(blob, region, Wanted(region))
      /\ UNCHANGED <<vhd, options, toClear, exiting, md5, exitPending, outcome>>
  BY DEF RegionSent, RegionNotSent, SentAfterError
<1>2. /\ Sound(blob)
      /\ \A other \in uploadedRegions : blob.content[other] = Wanted(other)
      /\ TypeOK /\ uploadedRegions \subseteq Regions
  BY <1>1 DEF IInv, UploadInv, TypeOK
<1>3. \A other \in Regions : Wanted(other)' = Wanted(other)
  BY <1>1 DEF Wanted
<1>4. Sound(blob)' /\ blob' \in Blobs
  <2>1. CASE blob' = blob
    BY <2>1, <1>1, <1>2, SameBlob
  <2>2. CASE blob' = With(blob, region, Wanted(region))
    BY <2>2, <1>1, <1>2, SoundSend
  <2>. QED BY <1>1, <2>1, <2>2
<1>5. \A other \in uploadedRegions' : blob'.content[other] = Wanted(other)'
  <2>1. blob \in Blobs /\ Wanted(region) \in Contents
    BY <1>2, WantedFacts DEF TypeOK
  <2>2. CASE blob' = blob /\ uploadedRegions' = uploadedRegions
    BY <2>2, <1>2, <1>3
  <2>3. CASE blob' = With(blob, region, Wanted(region))
    <3>1. /\ blob'.content[region] = Wanted(region)
          /\ \A other \in Regions \ {region} :
               blob'.content[other] = blob.content[other]
      BY <2>1, <2>3, BlobFacts
    <3>. QED BY <3>1, <1>1, <1>2, <1>3
  <2>. QED BY <1>1, <2>2, <2>3
<1>. QED BY <1>1, <1>2, <1>4, <1>5, UploadGoesOn DEF IInv, TypeOK

LEMMA StepMd5Stored ==
  ASSUME IInv, Md5Stored
  PROVE  IInv'
<1>1. /\ phase = "uploading" /\ phase' = "uploading" /\ md5' = "done"
      /\ blob' = [blob EXCEPT !.md5 = Mine]
      /\ UNCHANGED <<vhd, options, uploadedRegions, toClear, exiting,
                     exitPending, outcome>>
  BY DEF Md5Stored
<1>2. /\ Sound(blob) /\ TypeOK /\ uploadedRegions \subseteq Regions
      /\ \A region \in uploadedRegions : blob.content[region] = Wanted(region)
  BY <1>1 DEF IInv, UploadInv, TypeOK
<1>3. Sound(blob)' /\ blob' \in Blobs /\ blob'.content = blob.content
  BY <1>1, <1>2, SoundMd5
<1>4. \A region \in Regions : Wanted(region)' = Wanted(region)
  BY <1>1 DEF Wanted
<1>. QED BY <1>1, <1>2, <1>3, <1>4, UploadGoesOn

LEMMA StepMd5NotStored ==
  ASSUME IInv, Md5NotStored \/ Md5StreamFails
  PROVE  IInv'
<1>1. /\ phase = "uploading"
      /\ blob' = blob \/ \E data \in {None, Mine} : blob' = [blob EXCEPT !.md5 = data]
      /\ UNCHANGED <<vhd, options, uploadedRegions, toClear, exiting>>
      /\ md5' \in {md5, "done"}
      /\ \/ phase' = "idle" /\ exitPending' = FALSE /\ outcome' = "failed"
         \/ phase' = "uploading" /\ UNCHANGED <<exitPending, outcome>>
  <2>1. CASE Md5NotStored
    BY <2>1 DEF Md5NotStored
  <2>2. CASE Md5StreamFails
    BY <2>2, ReportFacts DEF Md5StreamFails
  <2>. QED BY <2>1, <2>2
<1>2. /\ Sound(blob) /\ TypeOK /\ uploadedRegions \subseteq Regions
      /\ \A region \in uploadedRegions : blob.content[region] = Wanted(region)
  BY <1>1 DEF IInv, UploadInv, TypeOK
<1>3. Sound(blob)' /\ blob' \in Blobs /\ blob'.content = blob.content
  <2>1. CASE blob' = blob
    BY <2>1, <1>1, <1>2, SameBlob
  <2>2. ASSUME NEW data \in {None, Mine}, blob' = [blob EXCEPT !.md5 = data]
        PROVE  Sound(blob)' /\ blob' \in Blobs /\ blob'.content = blob.content
    BY <2>2, <1>1, <1>2, SoundMd5
  <2>. QED BY <1>1, <2>1, <2>2
<1>4. \A region \in Regions : Wanted(region)' = Wanted(region)
  BY <1>1 DEF Wanted
<1>5. md5' \in {"pending", "done"}
  BY <1>1, <1>2 DEF TypeOK
<1>6. CASE phase' = "idle"
  <2>1. Vouches'
    BY <1>3 DEF Vouches
  <2>. QED BY <1>1, <1>3, <1>5, <1>6, <2>1, RunEnds DEF IInv, TypeOK
<1>7. CASE phase' = "uploading"
  BY <1>1, <1>2, <1>3, <1>4, <1>5, <1>7, UploadGoesOn
<1>. QED BY <1>1, <1>6, <1>7

LEMMA StepSucceed ==
  ASSUME IInv, Succeed
  PROVE  IInv'
<1>1. /\ phase = "uploading" /\ ToSend = {} /\ phase' = "idle"
      /\ exitPending' = FALSE /\ outcome' = "success"
      /\ UNCHANGED <<vhd, blob, options, uploadedRegions, toClear, exiting, md5>>
  BY DEF Succeed
<1>2. /\ Sound(blob) /\ uploadedRegions \subseteq Regions
      /\ \A region \in uploadedRegions : blob.content[region] = Wanted(region)
  BY <1>1 DEF IInv, UploadInv, TypeOK
<1>3. \A region \in Regions : blob.content[region] = Wanted(region)
  <2>. SUFFICES ASSUME NEW region \in Regions
                PROVE  blob.content[region] = Wanted(region)
    OBVIOUS
  <2>1. CASE region \in uploadedRegions
    BY <2>1, <1>2
  <2>2. CASE Wanted(region) = None
    BY <2>2, <1>2 DEF Sound
  <2>. QED BY <2>1, <2>2, <1>1 DEF ToSend
<1>4. \A region \in Regions : Wanted(region)' = Wanted(region)
  BY <1>1 DEF Wanted
<1>5. Vouches' /\ Sound(blob)'
  BY <1>1, <1>2, SameBlob
<1>6. TypeOK'
  BY <1>1 DEF IInv, TypeOK, Phases
<1>7. OutcomeInv'
  BY <1>1, <1>3, <1>4, <1>5 DEF OutcomeInv
<1>8. ExitInv' /\ BeforeInv' /\ CopyInv' /\ UploadInv'
  BY <1>1 DEF IInv, ExitInv, BeforeInv, CopyInv, UploadInv
<1>. QED BY <1>5, <1>6, <1>7, <1>8 DEF IInv

-------------------------------------------------------------------------------
(* The invariant.                                                           *)

LEMMA InitIInv ==
  ASSUME Init, QuickExits, StartsClean
  PROVE  IInv
<1>1. /\ vhd \in VhdSpace /\ blob \in InitialBlobs /\ options \in OptionSpace[vhd]
      /\ phase = "idle" /\ uploadedRegions = {} /\ toClear = {}
      /\ exiting = FALSE /\ md5 = "pending" /\ exitPending = FALSE
      /\ outcome = "none"
  BY DEF Init
<1>2. TypeOK
  BY <1>1, OptionSpaceAssumption, InitialBlobsAssumption DEF TypeOK, Phases
<1>3. Vouches
  BY <1>1 DEF StartsClean, EmptyContent, Vouches, Sound
<1>4. ExitInv
  BY <1>1 DEF QuickExits, ExitInv
<1>5. BeforeInv /\ CopyInv /\ UploadInv /\ OutcomeInv
  BY <1>1 DEF BeforeInv, CopyInv, UploadInv, OutcomeInv
<1>. QED BY <1>2, <1>3, <1>4, <1>5 DEF IInv

LEMMA StepIInv ==
  ASSUME IInv, [Next]_vars, QuickExits, EnoughThreads
  PROVE  IInv'
<1>1. CASE StartRun
  BY <1>1, StepStartRun
<1>2. CASE Creation
  BY <1>2, StepContinue, StepAnew, StepErrors, StepBlobCreated,
     StepCreationFails DEF Creation
<1>3. CASE CleanUp
  BY <1>3, StepBaseCopied, StepErrors, StepCopyInspected, StepRegionCleared,
     StepRegionNotCleared, StepBaseMd5Cleared, StepBaseMd5NotCleared
     DEF CleanUp
<1>4. CASE Upload
  BY <1>4, StepRegionSent, StepErrors, StepMd5Stored, StepMd5NotStored,
     StepSucceed DEF Upload
<1>5. CASE ProcessExits
  BY <1>5 DEF ProcessExits, IInv, ExitInv
<1>6. CASE Crash
  BY <1>6, StepErrors
<1>7. CASE UNCHANGED vars
  BY <1>7 DEF vars, runVars, IInv, TypeOK, Vouches, ExitInv, BeforeInv, CopyInv,
              UploadInv, OutcomeInv, Sound, Wanted
<1>. QED BY <1>1, <1>2, <1>3, <1>4, <1>5, <1>6, <1>7 DEF Next

\* What the theorems on the runs rest on holds through every run, wherever it is killed.
THEOREM Invariance ==
  ASSUME QuickExits, StartsClean, EnoughThreads
  PROVE  Spec => []IInv
<1>1. Init => IInv
  BY InitIInv
<1>2. IInv /\ [Next]_vars => IInv'
  BY StepIInv
<1>. QED BY <1>1, <1>2, PTL DEF Spec

\* Every variable keeps its type; among others, only regions that are listed
\* as uploaded are ever cleared (createDiffVHDPageBlob()).
THEOREM TypeCorrect ==
  ASSUME QuickExits, StartsClean, EnoughThreads
  PROVE  Spec => []TypeOK
<1>1. IInv => TypeOK
  BY DEF IInv
<1>. QED BY <1>1, Invariance, PTL

\* However many runs were killed, and wherever: under the VHD's own footer no
\* region has data that does not belong there (the order of clearPageRange()
\* and the upload, and the comparison in onGotBlobInfo()).
THEOREM FooterCanBeTrusted ==
  ASSUME QuickExits, StartsClean, EnoughThreads
  PROVE  Spec => []FooterVouches
<1>1. IInv => FooterVouches
  BY DEF IInv, Vouches, FooterVouches, Sound
<1>. QED BY <1>1, Invariance, PTL

\* A run that reports success leaves every region with the data it has to
\* have, whatever the earlier runs did (onGotBlobInfo() and onBlobCreated()).
THEOREM SuccessIsRight ==
  ASSUME QuickExits, StartsClean, EnoughThreads
  PROVE  Spec => []SuccessMeansRightContent
<1>1. IInv => SuccessMeansRightContent
  BY DEF IInv, OutcomeInv, SuccessMeansRightContent
<1>. QED BY <1>1, Invariance, PTL

\* The base's MD5 never stays in a blob that is reported as uploaded
\* (onDeleted() and onMD5Calculated()).
THEOREM SuccessHasRightMd5 ==
  ASSUME QuickExits, StartsClean, EnoughThreads
  PROVE  Spec => []SuccessMeansRightMd5
<1>1. IInv => SuccessMeansRightMd5
  BY DEF IInv, OutcomeInv, Sound, SuccessMeansRightMd5
<1>. QED BY <1>1, Invariance, PTL

-------------------------------------------------------------------------------
(* What needs none of the three conditions.                                 *)

\* uploadedRegions lists no region without data when the upload looks at it.
\* A clean-up that met an error may list one, and never ends.
ListedArePresent ==
  /\ vhd \in Vhds
  /\ blob \in Blobs
  /\ phase \in {"inquiring", "creating", "copying", "inspecting"}
       => uploadedRegions = {}
  /\ phase \in {"clearing", "clearingMd5"} /\ ~exiting
       => uploadedRegions \subseteq Present(blob)
  /\ phase = "clearingMd5" => ~exiting
  /\ phase = "uploading" => uploadedRegions \subseteq Present(blob)
  /\ phase # "idle" => outcome # "success"

CompleteInv == ListedArePresent /\ SuccessMeansNothingMissing

LEMMA UnchangedContent ==
  ASSUME vhd' = vhd, blob'.content = blob.content
  PROVE  /\ Present(blob)' = Present(blob)
         /\ \A region : Wanted(region)' = Wanted(region)
BY DEF Present, Wanted

LEMMA StepListedBefore ==
  ASSUME ListedArePresent, StartRun \/ Creation
  PROVE  ListedArePresent' /\ outcome' # "success"
<1>1. CASE StartRun
  BY <1>1 DEF StartRun, ListedArePresent
<1>2. CASE Continue
  BY <1>2, UnchangedContent DEF Continue, ReportError, ListedArePresent
<1>3. CASE Anew \/ InquiryFails
  BY <1>3 DEF Anew, InquiryFails, ReportError, CreationPhase, ListedArePresent
<1>4. CASE BlobCreated
  <2>1. EmptyBlob \in Blobs
    BY DEF EmptyBlob, Blobs, Contents
  <2>. QED BY <1>4, <2>1 DEF BlobCreated, ListedArePresent
<1>5. CASE CreationFails
  <2>1. EmptyBlob \in Blobs
    BY DEF EmptyBlob, Blobs, Contents
  <2>. QED BY <1>5, <2>1 DEF CreationFails, ReportError, ListedArePresent
<1>. QED BY <1>1, <1>2, <1>3, <1>4, <1>5 DEF Creation

LEMMA StepListedCleanUp ==
  ASSUME ListedArePresent, CleanUp
  PROVE  ListedArePresent' /\ outcome' # "success"
<1>1. CASE BaseCopied
  <2>1. CopyOfBase \in Blobs
    BY DEF CopyOfBase, Blobs, Contents
  <2>. QED BY <1>1, <2>1 DEF BaseCopied, ListedArePresent
<1>2. CASE CopyFails \/ InspectionFails
  BY <1>2 DEF CopyFails, InspectionFails, ReportError, ListedArePresent
<1>3. CASE CopyInspected
  BY <1>3, UnchangedContent DEF CopyInspected, ListedArePresent
<1>4. ASSUME NEW region \in Regions, RegionCleared(region)
      PROVE  ListedArePresent' /\ outcome' # "success"
  <2>1. /\ phase = "clearing" /\ outcome # "success"
        /\ blob' = With(blob, region, None)
        /\ uploadedRegions' = uploadedRegions \ {region}
        /\ phase' \in {"clearing", "clearingMd5", "uploading"}
        /\ phase' # "clearing" => ~exiting
        /\ UNCHANGED <<vhd, exiting, outcome>>
    BY <1>4 DEF RegionCleared, ClearingEnds, AfterClearing, ListedArePresent
  <2>2. /\ blob' \in Blobs
        /\ \A other \in Regions \ {region} : blob'.content[other] = blob.content[other]
    BY <2>1, BlobFacts DEF ListedArePresent, Contents
  <2>3. ~exiting => uploadedRegions' \subseteq Present(blob)'
    BY <2>1, <2>2 DEF ListedArePresent, Present
  <2>. QED BY <2>1, <2>2, <2>3 DEF ListedArePresent
<1>5. ASSUME NEW region \in Regions, RegionNotCleared(region)
      PROVE  ListedArePresent' /\ outcome' # "success"
  <2>1. blob' \in Blobs
    <3>1. blob \in Blobs /\ None \in Contents
      BY DEF ListedArePresent, Contents
    <3>2. With(blob, region, None) \in Blobs
      BY <3>1, BlobFacts
    <3>. QED BY <1>5, <3>1, <3>2 DEF RegionNotCleared
  <2>2. /\ phase' \in {"clearing", "idle"} /\ exiting' = TRUE
        /\ outcome' = "failed" /\ vhd' = vhd
    BY <1>5 DEF RegionNotCleared, ReportError
  <2>. QED BY <2>1, <2>2 DEF ListedArePresent
<1>6. CASE BaseMd5Cleared \/ BaseMd5NotCleared
  <2>1. /\ blob' \in Blobs /\ blob'.content = blob.content
        /\ vhd' = vhd
    BY <1>6, Md5Facts
       DEF BaseMd5Cleared, BaseMd5NotCleared, ListedArePresent, Contents
  <2>2. Present(blob)' = Present(blob)
    BY <2>1, UnchangedContent
  <2>. QED BY <1>6, <2>1, <2>2
           DEF BaseMd5Cleared, BaseMd5NotCleared, ReportError, ListedArePresent
<1>. QED BY <1>1, <1>2, <1>3, <1>4, <1>5, <1>6 DEF CleanUp

LEMMA StepListedUpload ==
  ASSUME ListedArePresent, Upload
  PROVE  ListedArePresent' /\ SuccessMeansNothingMissing'
<1>1. \A region \in Regions : Wanted(region) \in Contents
  BY DEF Wanted, Contents
<1>2. ASSUME NEW region \in Regions, RegionSent(region)
      PROVE  ListedArePresent' /\ outcome' # "success"
  <2>1. /\ phase = "uploading" /\ phase' = phase
        /\ Wanted(region) # None
        /\ blob' = With(blob, region, Wanted(region))
        /\ uploadedRegions' = uploadedRegions \cup {region}
        /\ UNCHANGED <<vhd, exiting, outcome>>
    BY <1>2 DEF RegionSent, ToSend
  <2>2. /\ blob' \in Blobs
        /\ blob'.content[region] = Wanted(region)
        /\ \A other \in Regions \ {region} : blob'.content[other] = blob.content[other]
    BY <2>1, <1>1, BlobFacts DEF ListedArePresent
  <2>3. uploadedRegions' \subseteq Present(blob)'
    BY <2>1, <2>2 DEF ListedArePresent, Present
  <2>. QED BY <2>1, <2>2, <2>3 DEF ListedArePresent
<1>3. ASSUME NEW region \in Regions, RegionNotSent(region)
      PROVE  ListedArePresent' /\ outcome' # "success"
  <2>1. /\ phase = "uploading" /\ phase' = phase
        /\ Wanted(region) # None
        /\ blob' = blob \/ blob' = With(blob, region, Wanted(region))
        /\ uploadedRegions' = uploadedRegions
        /\ UNCHANGED <<vhd, exiting, outcome>>
    BY <1>3 DEF RegionNotSent, ToSend, SentAfterError
  <2>2. /\ blob' \in Blobs
        /\ blob'.content[region] \in {blob.content[region], Wanted(region)}
        /\ \A other \in Regions \ {region} : blob'.content[other] = blob.content[other]
    BY <2>1, <1>1, BlobFacts DEF ListedArePresent
  <2>3. uploadedRegions' \subseteq Present(blob)'
    BY <2>1, <2>2 DEF ListedArePresent, Present
  <2>. QED BY <2>1, <2>2, <2>3 DEF ListedArePresent
<1>4. CASE GiveUp
  BY <1>4 DEF GiveUp, ReportError, ListedArePresent, SuccessMeansNothingMissing
<1>5. CASE Md5Stored \/ Md5NotStored \/ Md5StreamFails
  <2>1. /\ phase = "uploading" /\ phase' \in {"uploading", "idle"}
        /\ outcome' \in {outcome, "failed"}
        /\ UNCHANGED <<vhd, uploadedRegions, exiting>>
    BY <1>5 DEF Md5Stored, Md5NotStored, Md5StreamFails, ReportError
  <2>2. \E data \in {None, Mine} :
          blob' = blob \/ blob' = [blob EXCEPT !.md5 = data]
    BY <1>5 DEF Md5Stored, Md5NotStored, Md5StreamFails
  <2>3. blob' \in Blobs /\ blob'.content = blob.content
    <3>1. PICK data \in {None, Mine} :
            blob' = blob \/ blob' = [blob EXCEPT !.md5 = data]
      BY <2>2
    <3>2. blob \in Blobs /\ data \in Contents
      BY DEF ListedArePresent, Contents
    <3>3. /\ [blob EXCEPT !.md5 = data] \in Blobs
          /\ [blob EXCEPT !.md5 = data].content = blob.content
      BY <3>2, Md5Facts
    <3>. QED BY <3>1, <3>2, <3>3
  <2>4. Present(blob)' = Present(blob)
    BY <2>1, <2>3, UnchangedContent
  <2>. QED BY <2>1, <2>3, <2>4 DEF ListedArePresent, SuccessMeansNothingMissing
<1>6. CASE Succeed
  <2>1. /\ phase = "uploading" /\ phase' = "idle" /\ ToSend = {}
        /\ UNCHANGED <<vhd, blob>>
    BY <1>6 DEF Succeed
  <2>2. \A region \in Regions :
          Wanted(region) # None => region \in Present(blob)
    BY <2>1 DEF ListedArePresent, ToSend
  <2>3. SuccessMeansNothingMissing'
    BY <2>1, <2>2, UnchangedContent DEF SuccessMeansNothingMissing
  <2>. QED BY <2>1, <2>3 DEF ListedArePresent
<1>. QED BY <1>2, <1>3, <1>4, <1>5, <1>6 DEF Upload, SuccessMeansNothingMissing

\* A success is never reported of a blob that lacks data the upload should have
\* put there, whatever errors went unheeded (isAlreadyUploaded() and
\* uploadedRegions in onBlobCreated() and createDiffVHDPageBlob()).
THEOREM NothingIsMissing == Spec => []SuccessMeansNothingMissing
<1>1. Init => CompleteInv
  BY VhdSpaceAssumption, InitialBlobsAssumption
     DEF Init, CompleteInv, ListedArePresent, SuccessMeansNothingMissing
<1>2. CompleteInv /\ [Next]_vars => CompleteInv'
  <2>. SUFFICES ASSUME CompleteInv, [Next]_vars
                PROVE  CompleteInv'
    OBVIOUS
  <2>1. CASE StartRun \/ Creation \/ CleanUp
    BY <2>1, StepListedBefore, StepListedCleanUp
       DEF CompleteInv, SuccessMeansNothingMissing
  <2>2. CASE Upload
    BY <2>2, StepListedUpload DEF CompleteInv
  <2>3. CASE Crash
    BY <2>3 DEF Crash, CompleteInv, ListedArePresent, SuccessMeansNothingMissing
  <2>4. CASE ProcessExits \/ UNCHANGED vars
    <3>1. UNCHANGED <<vhd, blob, uploadedRegions, exiting, outcome>>
      BY <2>4 DEF ProcessExits, vars, runVars
    <3>2. phase' \in {phase, "idle"}
      BY <2>4 DEF ProcessExits, vars, runVars
    <3>3. Present(blob)' = Present(blob) /\ \A region : Wanted(region)' = Wanted(region)
      BY <3>1, UnchangedContent
    <3>. QED BY <3>1, <3>2, <3>3
             DEF CompleteInv, ListedArePresent, SuccessMeansNothingMissing
  <2>. QED BY <2>1, <2>2, <2>3, <2>4 DEF Next
<1>3. CompleteInv => SuccessMeansNothingMissing
  BY DEF CompleteInv
<1>. QED BY <1>1, <1>2, <1>3, PTL DEF Spec

-------------------------------------------------------------------------------
(* Nothing is lost.                                                         *)

IsSafe == ~options.force /\ blob.sameSize /\ blob.content[Footer] = Mine

Keeps ==
  IsSafe => \A region \in Regions : blob.content[region] = Mine => blob'.content[region] = Mine

\* A blob is created anew only where there is none to continue with.
SafeInv ==
  /\ \/ blob.content[Footer] = Mine
     \/ phase \in {"inspecting", "clearing", "clearingMd5", "uploading"}
     => blob.exists
  /\ phase \in {"creating", "copying"} => ~IsSafe

LEMMA WithFacts ==
  ASSUME NEW b \in Blobs, NEW region \in Regions, NEW data \in Contents
  PROVE  /\ With(b, region, data).exists = b.exists
         /\ With(b, region, data).sameSize = b.sameSize
<1>1. With(b, region, data) = [b EXCEPT !.content = [b.content EXCEPT ![region] = data]]
  BY DEF With
<1>. QED BY <1>1 DEF Blobs

\* The blob is only looked at.
LEMMA SafeReading ==
  ASSUME IInv, SafeInv, UNCHANGED blob,
         \/ StartRun \/ Continue \/ Anew \/ InquiryFails \/ CopyFails \/ CopyInspected
         \/ InspectionFails \/ GiveUp \/ Succeed \/ Crash \/ UNCHANGED vars
  PROVE  SafeInv'
<1>1. CASE StartRun
  BY <1>1 DEF StartRun, SafeInv, IsSafe
<1>2. CASE Continue
  <2>1. /\ blob.exists /\ options' = options
        /\ phase' \in {"uploading", "idle"}
    BY <1>2, ReportFacts DEF Continue, CanContinue
  <2>. QED BY <2>1 DEF SafeInv
<1>3. CASE Anew
  <2>1. /\ options.force \/ ~CanContinue
        /\ phase' \in {"creating", "copying", "idle"} /\ options' = options
    BY <1>3, ReportFacts DEF Anew, CreationPhase
  <2>2. blob.content[Footer] = Mine => blob.exists /\ Present(blob) # {}
    BY ContentsAssumption DEF SafeInv, Present, Regions
  <2>3. ~IsSafe
    BY <2>1, <2>2 DEF IsSafe, CanContinue
  <2>. QED BY <2>1, <2>2, <2>3 DEF SafeInv, IsSafe
<1>4. CASE CopyInspected
  BY <1>4 DEF CopyInspected, SafeInv
<1>5. CASE InquiryFails \/ CopyFails \/ InspectionFails \/ GiveUp \/ Succeed \/ Crash
  <2>1. phase' = "idle"
    BY <1>5, ReportFacts
       DEF InquiryFails, CopyFails, InspectionFails, GiveUp, Succeed, Crash
  <2>. QED BY <2>1 DEF SafeInv
<1>6. CASE UNCHANGED vars
  BY <1>6 DEF vars, runVars, SafeInv, IsSafe
<1>. QED BY <1>1, <1>2, <1>3, <1>4, <1>5, <1>6

LEMMA SafeCreation ==
  ASSUME IInv, SafeInv, BlobCreated \/ CreationFails \/ BaseCopied
  PROVE  SafeInv' /\ Keeps
<1>1. Keeps
  BY DEF BlobCreated, CreationFails, BaseCopied, SafeInv, Keeps
<1>2. CASE BlobCreated \/ BaseCopied
  <2>1. /\ blob'.exists /\ blob'.content[Footer] # Mine
        /\ phase' \notin {"creating", "copying"}
    BY <1>2, ContentsAssumption
       DEF BlobCreated, BaseCopied, EmptyBlob, CopyOfBase, Regions
  <2>. QED BY <1>1, <2>1 DEF SafeInv
<1>3. CASE CreationFails
  <2>1. phase' = "idle" /\ blob' \in {blob, EmptyBlob}
    BY <1>3, ReportFacts DEF CreationFails
  <2>2. EmptyBlob.exists
    BY DEF EmptyBlob
  <2>. QED BY <1>1, <2>1, <2>2 DEF SafeInv
<1>. QED BY <1>1, <1>2, <1>3

\* While the base is cleared its footer, or none, is in the blob.
LEMMA SafeClearing ==
  ASSUME IInv, SafeInv, NEW region \in Regions,
         RegionCleared(region) \/ RegionNotCleared(region)
  PROVE  SafeInv' /\ Keeps
<1>1. /\ phase = "clearing" /\ blob.exists /\ blob \in Blobs
      /\ blob' \in {blob, With(blob, region, None)}
  BY DEF RegionCleared, RegionNotCleared, SafeInv, IInv, TypeOK
<1>2. phase' \in {"clearing", "clearingMd5", "uploading", "idle"}
  BY ReportFacts DEF RegionCleared, RegionNotCleared, AfterClearing
<1>3. blob'.exists
  BY <1>1, WithFacts DEF Contents
<1>4. ~IsSafe
  BY <1>1, ContentsAssumption DEF IInv, CopyInv, IsSafe, Regions
<1>. QED BY <1>2, <1>3, <1>4 DEF SafeInv, Keeps

\* What is sent is the region's own data: the blob is sound.
LEMMA SafeSending ==
  ASSUME IInv, SafeInv, NEW region \in Regions,
         RegionSent(region) \/ RegionNotSent(region)
  PROVE  SafeInv' /\ Keeps
<1>1. /\ phase = "uploading" /\ phase' = "uploading" /\ Sound(blob) /\ TypeOK
      /\ blob' \in {blob, With(blob, region, Wanted(region))}
  BY DEF RegionSent, RegionNotSent, IInv, UploadInv
<1>2. blob \in Blobs /\ blob.exists /\ Wanted(region) \in Contents
  BY <1>1, WantedFacts DEF TypeOK, SafeInv
<1>3. blob'.exists
  BY <1>1, <1>2, WithFacts
<1>4. ASSUME NEW other \in Regions, blob.content[other] = Mine
      PROVE  blob'.content[other] = Mine
  <2>1. Wanted(other) = Mine
    BY <1>1, <1>4, ContentsAssumption DEF Sound
  <2>. QED BY <1>1, <1>2, <1>4, <2>1, BlobFacts
<1>. QED BY <1>1, <1>3, <1>4 DEF SafeInv, Keeps

LEMMA SafeMd5 ==
  ASSUME IInv, SafeInv,
         BaseMd5Cleared \/ BaseMd5NotCleared \/ Md5Stored \/ Md5NotStored \/ Md5StreamFails
  PROVE  SafeInv' /\ Keeps
<1>1. /\ phase \in {"clearingMd5", "uploading"} /\ blob \in Blobs /\ blob.exists
      /\ \E data \in {None, Mine} : blob' \in {blob, [blob EXCEPT !.md5 = data]}
  BY DEF BaseMd5Cleared, BaseMd5NotCleared, Md5Stored, Md5NotStored, Md5StreamFails,
         SafeInv, IInv, TypeOK
<1>2. blob'.exists /\ blob'.content = blob.content
  BY <1>1 DEF Blobs
<1>3. phase' \in {"uploading", "idle"}
  BY <1>1, ReportFacts
     DEF BaseMd5Cleared, BaseMd5NotCleared, Md5Stored, Md5NotStored, Md5StreamFails
<1>. QED BY <1>2, <1>3 DEF SafeInv, Keeps

LEMMA StepSafe ==
  ASSUME IInv, SafeInv, [Next]_vars
  PROVE  SafeInv' /\ Keeps
<1>1. CASE \/ StartRun \/ Continue \/ Anew \/ InquiryFails \/ CopyFails \/ CopyInspected
           \/ InspectionFails \/ GiveUp \/ Succeed \/ Crash \/ UNCHANGED vars
  <2>1. UNCHANGED blob
    BY <1>1 DEF StartRun, Continue, Anew, InquiryFails, CopyFails, CopyInspected,
                InspectionFails, GiveUp, Succeed, Crash, vars
  <2>. QED BY <1>1, <2>1, SafeReading DEF Keeps
<1>2. CASE BlobCreated \/ CreationFails \/ BaseCopied
  BY <1>2, SafeCreation
<1>3. CASE \/ BaseMd5Cleared \/ BaseMd5NotCleared \/ Md5Stored \/ Md5NotStored
           \/ Md5StreamFails
  BY <1>3, SafeMd5
<1>4. CASE \E region \in Regions :
             \/ RegionCleared(region) \/ RegionNotCleared(region)
             \/ RegionSent(region) \/ RegionNotSent(region)
  BY <1>4, SafeClearing, SafeSending
<1>5. CASE ProcessExits
  BY <1>5 DEF ProcessExits, IInv, ExitInv
<1>. QED BY <1>1, <1>2, <1>3, <1>4, <1>5 DEF Next, Creation, CleanUp, Upload

\* Without -f a run takes up what earlier ones have uploaded: once the VHD's
\* footer is in the blob, none of its regions is ever lost, whether runs are
\* killed, fail or meet errors whose requests were applied (onGotBlobInfo()).
THEOREM NothingIsEverLost ==
  ASSUME QuickExits, StartsClean, EnoughThreads
  PROVE  Spec => NothingIsLost
<1>1. Init => SafeInv
  BY ContentsAssumption DEF Init, StartsClean, EmptyContent, SafeInv, Regions
<1>2. IInv /\ SafeInv /\ [Next]_vars => SafeInv'
  BY StepSafe
<1>3. IInv /\ SafeInv /\ [Next]_vars =>
        [\A region \in Regions :
           LET isSafe == ~options.force /\ blob.sameSize /\ blob.content[Footer] = Mine
           IN (isSafe /\ blob.content[region] = Mine) => blob'.content[region] = Mine]_vars
  BY StepSafe DEF Keeps, IsSafe
<1>. QED BY <1>1, <1>2, <1>3, Invariance, PTL DEF Spec, NothingIsLost

===============================================================================
