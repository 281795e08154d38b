------------------------- MODULE BlobPreparation_proofs -------------------------
(***************************************************************************)
(* For any number of blocks and connections: what the clean-up of the base *)
(* leaves over is at most the one region that its counter passes over, and *)
(* nothing when there are more connections than blocks.  The clean-up is   *)
(* considered by itself (Spec), then as the preparation of an upload runs  *)
(* it (Preparation), after an inquiry whose answers may still arrive: this *)
(* calls onGotBlobInfo() once.                                             *)
(***************************************************************************)
EXTENDS BlobPreparation, FiniteSetTheorems, SequenceTheorems, TLAPS

DeleteIndices == 0 .. Len(deleteRegions) - 1

\* The indices that are still to be answered, or to be requested, or that
\* never are.
Remaining == requests \cup {i \in DeleteIndices : i > next \/ i = Threads}

RequestInv ==
  /\ phase # "deleting" => requests = {} /\ ~exiting
  /\ \A i \in requests : i <= next

CountInv ==
  /\ running >= Cardinality(requests)
  /\ exiting => running > Cardinality(requests)

ExactInv ==
  /\ phase \in {"copying", "inspecting"} => uploadedRegions = {}
  /\ phase \in {"deleting", "clearingMd5", "ready"} /\ ~exiting
       => uploadedRegions = blob

StaleInv ==
  /\ phase = "deleting" /\ ~exiting
       => \A region \in Stale : \E i \in Remaining : region = RegionOf(i)
  /\ phase \in {"clearingMd5", "ready"}
       => \A region \in Stale :
            Threads < Len(deleteRegions) /\ region = RegionOf(Threads)

\* Without more regions than connections none is passed over.
LenInv == Len(deleteRegions) <= BlockCount + 1

IInv == TypeOK /\ RequestInv /\ CountInv /\ ExactInv /\ StaleInv /\ LenInv

-------------------------------------------------------------------------------
LEMMA IndicesBelow ==
  ASSUME NEW m \in Nat
  PROVE  Cardinality(0 .. m - 1) = m
<1>1. m - 1 \in Int /\ 0 \in Int
  OBVIOUS
<1>2. Cardinality(0 .. m - 1) = IF 0 > m - 1 THEN 0 ELSE (m - 1) - 0 + 1
  BY <1>1, FS_Interval
<1>. QED BY <1>2

LEMMA RequestsFinite ==
  ASSUME TypeOK
  PROVE  /\ Len(deleteRegions) \in Nat
         /\ IsFiniteSet(requests)
         /\ Cardinality(requests) \in Nat
         /\ requests \subseteq Nat
<1>1. Len(deleteRegions) \in Nat
  BY DEF TypeOK
<1>2. IsFiniteSet(0 .. Len(deleteRegions) - 1)
  BY <1>1, FS_Interval
<1>3. IsFiniteSet(requests)
  BY <1>2, FS_Subset DEF TypeOK
<1>. QED BY <1>1, <1>3, FS_CardinalityType DEF TypeOK

\* A region of the sequence for each index, the footer's and the blocks' of
\* the table that are in the blob among them.
LEMMA DeleteOrderFacts ==
  ASSUME TypeOK, NEW order \in DeleteOrders(blob)
  PROVE  /\ order \in Seq(Regions)
         /\ Len(order) \in 1 .. BlockCount + 1
         /\ \A region \in blob \cap (bat \cup {FooterRegion}) :
              \E i \in 0 .. Len(order) - 1 : region = order[i + 1]
<1>. DEFINE k == Cardinality(bat \cap blob)
<1>1. k \in Nat /\ k <= BlockCount
  <2>1. IsFiniteSet(VhdBlocks) /\ Cardinality(VhdBlocks) = BlockCount
    BY BlockCountAssumption, FS_Interval DEF VhdBlocks
  <2>2. bat \cap blob \in SUBSET VhdBlocks
    BY DEF TypeOK
  <2>. QED BY <2>1, <2>2, FS_Subset, FS_CardinalityType
<1>2. order \in [1 .. k + 1 -> Regions]
  BY DEF DeleteOrders
<1>3. order \in Seq(Regions) /\ Len(order) = k + 1
  <2>1. k + 1 \in Nat
    BY <1>1
  <2>2. order \in Seq(Regions)
    <3>1. order \in UNION {[1 .. n -> Regions] : n \in Nat}
      BY <1>2, <2>1
    <3>2. Seq(Regions) = UNION {[1 .. n -> Regions] : n \in Nat}
      BY SeqDef
    <3>. QED BY <3>1, <3>2
  <2>. QED BY <1>2, <2>1, <2>2
<1>4. ASSUME NEW region \in blob \cap (bat \cup {FooterRegion})
      PROVE  \E i \in 0 .. Len(order) - 1 : region = order[i + 1]
  <2>1. CASE region = FooterRegion
    <3>1. order[0 + 1] = region
      BY <2>1 DEF DeleteOrders
    <3>. QED BY <3>1, <1>1, <1>3
  <2>2. CASE region \in bat \cap blob
    <3>1. PICK j \in DOMAIN order \ {1} : order[j] = region
      BY <2>2 DEF DeleteOrders
    <3>2. j \in 2 .. k + 1
      BY <3>1, <1>2, <1>1
    <3>3. j - 1 \in 0 .. Len(order) - 1 /\ (j - 1) + 1 = j
      BY <3>2, <1>1, <1>3
    <3>. QED BY <3>1, <3>3
  <2>. QED BY <2>1, <2>2
<1>5. k + 1 \in 1 .. BlockCount + 1
  BY <1>1, BlockCountAssumption
<1>. QED BY <1>3, <1>4, <1>5

LEMMA InitIInv == Init => IInv
<1>. SUFFICES ASSUME Init PROVE IInv
  OBVIOUS
<1>0. deleteRegions = <<>> /\ requests = {} /\ phase = "copying" /\ running = 0
  BY DEF Init
<1>1. TypeOK
  <2>1. deleteRegions \in Seq(Regions) /\ Len(deleteRegions) = 0
    BY <1>0
  <2>2. running \in 0 .. Threads
    BY <1>0, ThreadsAssumption
  <2>. QED BY <2>1, <2>2 DEF Init, TypeOK, Phases
<1>2. Cardinality(requests) = 0
  BY <1>0, FS_EmptySet
<1>3. CountInv
  BY <1>2 DEF CountInv, Init
<1>4. RequestInv /\ ExactInv /\ StaleInv
  BY <1>0 DEF Init, RequestInv, ExactInv, StaleInv
<1>5. LenInv
  BY <1>0, BlockCountAssumption DEF LenInv
<1>. QED BY <1>1, <1>3, <1>4, <1>5 DEF IInv

-------------------------------------------------------------------------------
(* The steps that leave the requests alone.                                 *)

LEMMA Untouched ==
  ASSUME IInv, UNCHANGED <<bat, deleteVars>>,
         phase' # "deleting", phase # "deleting"
  PROVE  RequestInv' /\ CountInv' /\ LenInv'
BY DEF IInv, RequestInv, CountInv, LenInv, deleteVars

\* A step to a phase before the regions are known, or one out of these.
LEMMA StepBefore ==
  ASSUME IInv, CopyAnswered \/ CopyFails \/ InspectionFails \/ BlobIsGone
  PROVE  IInv'
<1>1. RequestInv' /\ CountInv' /\ LenInv'
  BY Untouched DEF CopyAnswered, CopyFails, InspectionFails, BlobIsGone, file
<1>2. TypeOK'
  <2>1. UNCHANGED <<file, deleteVars>> /\ failures' \in Nat /\ alive' \in BOOLEAN
    BY DEF CopyAnswered, CopyFails, InspectionFails, BlobIsGone, ReportError,
           reportVars, IInv, TypeOK, file
  <2>2. phase' \in Phases
    BY DEF CopyAnswered, CopyFails, InspectionFails, BlobIsGone, Phases
  <2>3. /\ blob' \subseteq Regions /\ blobMd5' \in BOOLEAN
        /\ uploadedRegions' \subseteq Regions
    BY DEF CopyAnswered, CopyFails, InspectionFails, BlobIsGone, IInv, TypeOK,
           Regions
  <2>. QED BY <2>1, <2>2, <2>3 DEF IInv, TypeOK, file, deleteVars
<1>3. ExactInv' /\ StaleInv'
  <2>1. CASE BlobIsGone
    <3>1. uploadedRegions' = {} /\ blob' = {} /\ phase' = "ready"
      BY <2>1 DEF BlobIsGone, IInv, ExactInv
    <3>. QED BY <3>1 DEF ExactInv, StaleInv, Stale
  <2>2. CASE CopyAnswered \/ CopyFails \/ InspectionFails
    <3>1. /\ phase' \in {"inspecting", "stranded", "refused"}
          /\ phase \in {"copying", "inspecting"}
          /\ uploadedRegions' = uploadedRegions
      BY <2>2 DEF CopyAnswered, CopyFails, InspectionFails
    <3>. QED BY <3>1 DEF IInv, ExactInv, StaleInv
  <2>. QED BY <2>1, <2>2
<1>. QED BY <1>1, <1>2, <1>3 DEF IInv

LEMMA StepInspected ==
  ASSUME IInv, Inspected
  PROVE  IInv'
<1>. DEFINE n == Len(deleteRegions')
            first == IF Threads < n THEN Threads ELSE n
<1>1. /\ deleteRegions' \in DeleteOrders(blob)
      /\ blob' = blob /\ uploadedRegions' = blob /\ phase' = "deleting"
      /\ exiting' = FALSE
      /\ UNCHANGED <<file, blobMd5, reportVars>>
  BY DEF Inspected, IInv, RequestInv
<1>2. /\ deleteRegions' \in Seq(Regions)
      /\ n \in 1 .. BlockCount + 1
      /\ \A region \in blob \cap (bat \cup {FooterRegion}) :
           \E i \in 0 .. n - 1 : region = deleteRegions'[i + 1]
  BY <1>1, DeleteOrderFacts DEF IInv
<1>3. first \in Nat /\ first <= n /\ first <= Threads
  BY <1>2, ThreadsAssumption, BlockCountAssumption
<1>4. next' = first /\ running' = first /\ requests' = 0 .. first - 1
  BY DEF Inspected, Connections, RunningAtFirst
<1>5. TypeOK'
  <2>1. requests' \subseteq 0 .. n - 1 /\ running' \in 0 .. Threads
    BY <1>2, <1>3, <1>4, ThreadsAssumption, BlockCountAssumption
  <2>. QED BY <1>1, <1>2, <1>3, <1>4, <2>1
          DEF IInv, TypeOK, file, reportVars, Phases
<1>6. RequestInv'
  BY <1>1, <1>3, <1>4 DEF RequestInv
<1>7. CountInv'
  <2>1. Cardinality(0 .. first - 1) = first
    BY <1>3, IndicesBelow
  <2>. QED BY <2>1, <1>1, <1>3, <1>4 DEF CountInv
<1>8. ExactInv'
  BY <1>1 DEF ExactInv
<1>9. StaleInv'
  <2>1. ASSUME NEW region \in Stale'
        PROVE  \E i \in Remaining' : region = RegionOf(i)'
    <3>1. region \in blob \cap (bat \cup {FooterRegion})
      BY <1>1 DEF Stale, file
    <3>2. PICK i \in 0 .. n - 1 : region = deleteRegions'[i + 1]
      BY <3>1, <1>2
    <3>3. i \in requests' \/ i > next' \/ i = Threads
      BY <3>2, <1>2, <1>3, <1>4, ThreadsAssumption, BlockCountAssumption
    <3>4. i \in Remaining'
      BY <3>2, <3>3 DEF Remaining, DeleteIndices
    <3>. QED BY <3>2, <3>4 DEF RegionOf
  <2>. QED BY <2>1, <1>1 DEF StaleInv
<1>10. LenInv'
  BY <1>2, BlockCountAssumption DEF LenInv
<1>. QED BY <1>5, <1>6, <1>7, <1>8, <1>9, <1>10 DEF IInv

-------------------------------------------------------------------------------
(* The answers.                                                             *)

LEMMA StepRegionDeleted ==
  ASSUME IInv, NEW index \in Regions, RegionDeleted(index)
  PROVE  IInv'
<1>. DEFINE n == Len(deleteRegions)
            rest == requests \ {index}
            last == next + 1 >= n
<1>1. /\ index \in requests /\ phase = "deleting"
      /\ n \in Nat /\ next \in Nat /\ running \in Int
      /\ IsFiniteSet(requests) /\ Cardinality(requests) \in Nat
      /\ requests \subseteq Nat
      /\ requests \subseteq 0 .. n - 1
  BY RequestsFinite DEF RegionDeleted, IInv, RequestInv, TypeOK
<1>2. /\ blob' = blob \ {RegionOf(index)}
      /\ uploadedRegions' = uploadedRegions \ {RegionOf(index)}
      /\ next' = next + 1
      /\ UNCHANGED <<file, blobMd5, deleteRegions, exiting, reportVars>>
  BY DEF RegionDeleted, Forget, NextRegion
<1>3. /\ last => running' = running - 1 /\ requests' = rest
      /\ last /\ running' <= 0 => phase' \in {"clearingMd5", "ready"}
      /\ ~(last /\ running' <= 0) => phase' = "deleting"
      /\ ~last => running' = running
      /\ ~last /\ exiting => requests' = rest
      /\ ~last /\ ~exiting => requests' = rest \cup {next + 1}
  BY <1>1, <1>2 DEF RegionDeleted, NextRegion, OnDeleted
<1>4. /\ IsFiniteSet(rest) /\ Cardinality(rest) = Cardinality(requests) - 1
      /\ Cardinality(rest) \in Nat
  BY <1>1, FS_RemoveElement, FS_CardinalityType
<1>5. /\ running >= Cardinality(requests)
      /\ exiting => running > Cardinality(requests)
      /\ \A i \in requests : i <= next
  BY DEF IInv, CountInv, RequestInv
<1>6. CountInv' /\ running' \in 0 .. Threads
  <2>1. CASE ~last /\ ~exiting
    <3>1. next + 1 \notin rest
      BY <1>1, <1>5
    <3>2. Cardinality(requests') = Cardinality(requests)
      <4>1. Cardinality(rest \cup {next + 1}) = Cardinality(rest) + 1
        BY <1>4, <3>1, FS_AddElement
      <4>2. requests' = rest \cup {next + 1}
        BY <2>1, <1>3
      <4>. QED BY <4>1, <4>2, <1>4, <1>1
    <3>. QED BY <2>1, <3>2, <1>2, <1>3, <1>5 DEF CountInv, IInv, TypeOK
  <2>2. CASE last \/ exiting
    <3>1. Cardinality(requests') = Cardinality(requests) - 1
      BY <2>2, <1>3, <1>4
    <3>2. running' \in {running, running - 1}
      BY <1>3
    <3>3. CountInv'
      BY <3>1, <3>2, <1>1, <1>2, <1>5 DEF CountInv
    <3>4. running \in 0 .. Threads /\ running >= 1
      BY <1>1, <1>4, <1>5 DEF IInv, TypeOK
    <3>. QED BY <3>2, <3>3, <3>4, ThreadsAssumption
  <2>. QED BY <2>1, <2>2
<1>7. requests' \subseteq 0 .. n - 1
  <2>1. ~last => next + 1 \in 0 .. n - 1
    BY <1>1
  <2>. QED BY <1>1, <1>3, <2>1
<1>8. phase' # "deleting" => requests' = {} /\ ~exiting
  <2>. SUFFICES ASSUME phase' # "deleting" PROVE requests' = {} /\ ~exiting
    OBVIOUS
  <2>1. last /\ running - 1 <= 0 /\ requests' = rest
    BY <1>3
  <2>2. Cardinality(requests) <= 1 /\ ~exiting
    BY <2>1, <1>1, <1>4, <1>5
  <2>3. Cardinality(rest) = 0
    BY <2>2, <1>1, <1>4
  <2>. QED BY <2>1, <2>2, <2>3, <1>4, FS_EmptySet
<1>9. RequestInv'
  <2>1. requests' \subseteq requests \cup {next + 1}
    BY <1>3
  <2>2. \A i \in requests \cup {next + 1} : i <= next + 1
    BY <1>1, <1>5
  <2>. QED BY <1>2, <1>8, <2>1, <2>2 DEF RequestInv
<1>10. TypeOK'
  <2>1. phase' \in Phases
    BY <1>3 DEF Phases
  <2>2. next' \in Nat
    BY <1>1, <1>2
  <2>3. requests' \subseteq 0 .. Len(deleteRegions') - 1
    BY <1>2, <1>7
  <2>. QED BY <1>2, <1>6, <2>1, <2>2, <2>3 DEF IInv, TypeOK, file, reportVars
<1>11. ExactInv'
  <2>1. phase' \notin {"copying", "inspecting"}
    BY <1>3
  <2>2. ~exiting => uploadedRegions = blob
    BY <1>1 DEF IInv, ExactInv
  <2>. QED BY <1>2, <2>1, <2>2 DEF ExactInv
<1>12. StaleInv'
  <2>. SUFFICES ASSUME ~exiting, NEW region \in Stale'
                PROVE  /\ phase' = "deleting"
                            => \E i \in Remaining' : region = RegionOf(i)'
                       /\ phase' # "deleting"
                            => /\ Threads < Len(deleteRegions)'
                               /\ region = RegionOf(Threads)'
    BY <1>2, <1>8 DEF StaleInv
  <2>1. region \in Stale /\ region # RegionOf(index)
    BY <1>2 DEF Stale, file
  <2>2. PICK i \in Remaining : region = RegionOf(i)
    BY <2>1, <1>1 DEF IInv, StaleInv
  <2>3. /\ i # index
        /\ i \in 0 .. n - 1
        /\ i \in requests \/ i > next \/ i = Threads
    BY <2>1, <2>2, <1>1 DEF Remaining, DeleteIndices
  <2>4. i \in rest \/ i = next + 1 \/ i > next + 1 \/ i = Threads
    BY <2>3, <1>1
  <2>5. i \in Remaining'
    <3>1. i = next + 1 => i \in requests' \/ i = Threads \/ last
      BY <1>3
    <3>2. i \in 0 .. n - 1
      BY <2>3, <1>1
    <3>3. i = next + 1 => ~last
      BY <3>2, <1>1
    <3>. QED BY <2>4, <3>1, <3>2, <3>3, <1>2, <1>3 DEF Remaining, DeleteIndices
  <2>6. RegionOf(i)' = RegionOf(i)
    BY <1>2 DEF RegionOf
  <2>7. phase' # "deleting" => i = Threads /\ Threads < n
    <3>. SUFFICES ASSUME phase' # "deleting" PROVE i = Threads /\ Threads < n
      OBVIOUS
    <3>1. last /\ requests' = {}
      BY <1>3, <1>8
    <3>2. i \in 0 .. n - 1 /\ (i > next + 1 \/ i = Threads)
      BY <2>5, <3>1, <1>2 DEF Remaining, DeleteIndices
    <3>. QED BY <3>1, <3>2, <1>1
  <2>. QED BY <2>2, <2>5, <2>6, <2>7, <1>2
<1>13. LenInv'
  BY <1>2 DEF LenInv, IInv
<1>. QED BY <1>6, <1>9, <1>10, <1>11, <1>12, <1>13 DEF IInv

LEMMA StepRegionFails ==
  ASSUME IInv, NEW index \in Regions, RegionFails(index)
  PROVE  IInv'
<1>. DEFINE rest == requests \ {index}
<1>1. /\ index \in requests /\ phase = "deleting" /\ phase' = "deleting"
      /\ requests' = rest /\ running' = running /\ exiting' = TRUE
      /\ blob' \subseteq blob
      /\ UNCHANGED <<file, blobMd5, uploadedRegions, deleteRegions, next>>
      /\ failures' = failures + 1 /\ alive' = telemetry
  BY DEF RegionFails, RunningAfterFailure, ReportError, IInv, RequestInv
<1>2. /\ IsFiniteSet(requests) /\ Cardinality(requests) \in Nat
      /\ requests \subseteq Nat
  BY RequestsFinite DEF IInv
<1>3. Cardinality(rest) = Cardinality(requests) - 1
  BY <1>1, <1>2, FS_RemoveElement
<1>4. TypeOK'
  <2>1. failures' \in Nat /\ alive' \in BOOLEAN /\ blob' \subseteq Regions
    BY <1>1 DEF IInv, TypeOK
  <2>2. requests' \subseteq 0 .. Len(deleteRegions') - 1
    BY <1>1 DEF IInv, TypeOK
  <2>. QED BY <1>1, <2>1, <2>2 DEF IInv, TypeOK, file, Phases
<1>5. CountInv'
  BY <1>1, <1>2, <1>3 DEF IInv, CountInv, TypeOK
<1>6. RequestInv' /\ ExactInv' /\ StaleInv' /\ LenInv'
  BY <1>1 DEF IInv, RequestInv, ExactInv, StaleInv, LenInv
<1>. QED BY <1>4, <1>5, <1>6 DEF IInv

LEMMA StepMd5 ==
  ASSUME IInv, Md5Cleared \/ Md5NotCleared
  PROVE  IInv'
<1>1. /\ phase = "clearingMd5" /\ phase' = "ready"
      /\ UNCHANGED <<file, blob, uploadedRegions, deleteVars>>
      /\ blobMd5' \in BOOLEAN
      /\ failures' \in Nat /\ alive' \in BOOLEAN
  <2>1. blobMd5 \in BOOLEAN /\ failures \in Nat /\ {alive, telemetry} \subseteq BOOLEAN
    BY DEF IInv, TypeOK
  <2>2. CASE Md5Cleared
    <3>1. failures' = failures /\ alive' = alive /\ blobMd5' = FALSE
      BY <2>2 DEF Md5Cleared, reportVars
    <3>. QED BY <3>1, <2>1, <2>2 DEF Md5Cleared
  <2>3. CASE Md5NotCleared
    <3>1. failures' = failures + 1 /\ alive' = telemetry /\ blobMd5' \in {FALSE, blobMd5}
      BY <2>3 DEF Md5NotCleared, ReportError
    <3>2. failures' \in Nat
      BY <3>1, <2>1, SMT
    <3>3. alive' \in BOOLEAN
      BY <3>1, <2>1, Zenon
    <3>4. blobMd5' \in BOOLEAN
      BY <3>1, <2>1, Zenon
    <3>. QED BY <3>2, <3>3, <3>4, <2>3 DEF Md5NotCleared
  <2>. QED BY <2>2, <2>3
<1>2. TypeOK'
  BY <1>1 DEF IInv, TypeOK, Phases, file, deleteVars
<1>3. RequestInv' /\ CountInv' /\ LenInv'
  BY <1>1, Untouched DEF file
<1>4. Stale' = Stale /\ RegionOf(Threads)' = RegionOf(Threads)
  BY <1>1 DEF Stale, RegionOf, file, deleteVars
<1>5. ExactInv' /\ StaleInv'
  BY <1>1, <1>4 DEF IInv, ExactInv, StaleInv, deleteVars
<1>. QED BY <1>2, <1>3, <1>5 DEF IInv

LEMMA StepProcessExits ==
  ASSUME IInv, ProcessExits
  PROVE  IInv'
<1>1. /\ UNCHANGED <<file, phase, blob, blobMd5, uploadedRegions, deleteVars,
                     failures>>
      /\ alive' \in BOOLEAN
  BY DEF ProcessExits
<1>2. TypeOK'
  BY <1>1 DEF IInv, TypeOK, file, deleteVars
<1>3. RequestInv' /\ CountInv' /\ LenInv' /\ ExactInv'
  BY <1>1 DEF IInv, RequestInv, CountInv, LenInv, ExactInv, deleteVars
<1>4. StaleInv'
  BY <1>1 DEF IInv, StaleInv, Stale, Remaining, DeleteIndices, RegionOf,
              deleteVars, file
<1>. QED BY <1>2, <1>3, <1>4 DEF IInv

LEMMA StepStutters ==
  ASSUME IInv, UNCHANGED vars
  PROVE  IInv'
BY DEF IInv, TypeOK, RequestInv, CountInv, LenInv, ExactInv, StaleInv, Stale,
       Remaining, DeleteIndices, RegionOf, vars, file, deleteVars, reportVars

LEMMA StepIInv == IInv /\ [Next]_vars => IInv'
<1>. SUFFICES ASSUME IInv, [Next]_vars PROVE IInv'
  OBVIOUS
<1>1. CASE Service
  BY <1>1, StepBefore, StepInspected, StepMd5 DEF Service
<1>2. ASSUME NEW index \in Regions, Answered(index) PROVE IInv'
  BY <1>2, StepRegionDeleted, StepRegionFails DEF Answered
<1>3. CASE ProcessExits
  BY <1>3, StepProcessExits
<1>4. CASE UNCHANGED vars
  BY <1>4, StepStutters
<1>. QED BY <1>1, <1>2, <1>3, <1>4 DEF Next, Terminated

\* What a reader wants to know of the clean-up is part of the invariant.
LEMMA InvariantImplies ==
  ASSUME IInv
  PROVE  OneRegionLeftAtMost /\ UploadedRegionsAreExact /\ NotReadyAfterFailure
<1>1. OneRegionLeftAtMost
  BY DEF IInv, StaleInv, OneRegionLeftAtMost, Ready
<1>2. UploadedRegionsAreExact
  BY DEF IInv, ExactInv, RequestInv, UploadedRegionsAreExact, Ready
<1>3. NotReadyAfterFailure
  BY DEF IInv, RequestInv, NotReadyAfterFailure
<1>. QED BY <1>1, <1>2, <1>3

\* What the theorems on createDiffVHDPageBlob() rest on is true at every moment.
THEOREM Invariance == Spec => []IInv
BY InitIInv, StepIInv, PTL DEF Spec

\* Every variable of the clean-up keeps its type: no request is ever sent for
\* an index that is not in deleteRegions (deleteRegion(next)).
THEOREM TypeCorrect == Spec => []TypeOK
<1>1. IInv => TypeOK
  BY DEF IInv
<1>. QED BY <1>1, Invariance, PTL

\* For any number of blocks, any number of connections, and any order of the
\* answers: the base's data is left over in the region that next++ passes over
\* and in no other one.
THEOREM LeftoversAreBounded == Spec => []OneRegionLeftAtMost
<1>1. IInv => OneRegionLeftAtMost
  BY InvariantImplies
<1>. QED BY <1>1, Invariance, PTL

\* With more connections than the VHD has blocks nothing of the base is left
\* when the upload starts.
THEOREM CleanUpIsComplete ==
  ASSUME Threads > BlockCount
  PROVE  Spec => []CleanedUp
<1>1. IInv => CleanedUp
  <2>. SUFFICES ASSUME IInv, Ready, NEW region \in Stale PROVE FALSE
    BY DEF CleanedUp
  <2>1. Threads < Len(deleteRegions)
    BY DEF IInv, StaleInv, Ready
  <2>2. Len(deleteRegions) \in Nat
    BY RequestsFinite DEF IInv
  <2>. QED BY <2>1, <2>2, ThreadsAssumption, BlockCountAssumption
          DEF IInv, LenInv
<1>. QED BY <1>1, Invariance, PTL

\* An error of clearPageRange() keeps the upload from being started, whichever
\* requests are still out.
THEOREM FailureStopsTheUpload == Spec => []NotReadyAfterFailure
<1>1. IInv => NotReadyAfterFailure
  BY InvariantImplies
<1>. QED BY <1>1, Invariance, PTL

\* The list of regions the upload will skip is exact when the upload starts
\* (subtractInterval() on the array that uploadedRegions shares).
THEOREM SkippedRegionsAreThere == Spec => []UploadedRegionsAreExact
<1>1. IInv => UploadedRegionsAreExact
  BY InvariantImplies
<1>. QED BY <1>1, Invariance, PTL

-------------------------------------------------------------------------------
(* The inquiry.                                                             *)

InquiryRequests == Inquiry!Requests
InquiryAsked == Inquiry!Asked

AnsweredSet == {r \in InquiryRequests : asked[r] = "answered"}

InquiryTypeOK ==
  /\ options \in Inquiry!Options
  /\ container \in BOOLEAN
  /\ target \in {"absent", "empty", "data"}
  /\ asked \in [InquiryRequests -> Inquiry!States]
  /\ regions \in BOOLEAN
  /\ agg \in Inquiry!Aggregators(InquiryRequests)
  /\ stage \in Inquiry!Phases
  /\ calls \in Nat
  /\ told \in {"nothing yet", "no blob", "info", "info and footer", "error"}

\* The aggregator knows the requests that were sent and the answers that came.
AggregatorInv ==
  /\ \A r \in InquiryRequests : r \notin InquiryAsked => asked[r] = "unsent"
  /\ agg.registered = InquiryAsked
  /\ agg.finished = AnsweredSet

\* The inquiry lasts until the first error, or the last answer.
EndInv ==
  /\ stage = "asking" => ~agg.isErrorState
  /\ stage # "asking" /\ ~agg.isErrorState => AnsweredSet = InquiryAsked
  /\ stage = "downloading" => ~agg.isErrorState
  /\ stage \in {"asking", "downloading"} => calls = 0 /\ told = "nothing yet"
  /\ calls <= 1
  /\ told \in {"info", "info and footer"} => ~agg.isErrorState /\ stage # "asking"

\* The answer to the request for a container is that there is one.
ForcedInv ==
  /\ asked["createContainerIfNotExists"] # "notFound"
  /\ asked["createContainerIfNotExists"] = "ok" => container
  /\ options.force => stage # "downloading"
  /\ options.force /\ stage = "creating" => container \/ told = "error"

InquiryInv == InquiryTypeOK /\ AggregatorInv /\ EndInv /\ ForcedInv

-------------------------------------------------------------------------------
LEMMA ZeroOrOne == 0 <= 1 /\ 0 + 1 = 1 /\ 1 <= 1 /\ 1 \in Nat
OBVIOUS

LEMMA AskedFacts ==
  /\ InquiryAsked \in SUBSET InquiryRequests
  /\ IsFiniteSet(InquiryAsked)
  /\ "createContainerIfNotExists" \in InquiryAsked
  /\ options.force => InquiryAsked = {"createContainerIfNotExists"}
<1>1. IsFiniteSet(InquiryRequests)
  <2>1. InquiryRequests = {"listBlobRegion"} \cup {"getBlobProperties"}
                            \cup {"createContainerIfNotExists"}
    BY DEF InquiryRequests, Inquiry!Requests
  <2>. QED BY <2>1, FS_Singleton, FS_Union
<1>2. InquiryAsked \in SUBSET InquiryRequests
  BY DEF InquiryAsked, InquiryRequests, Inquiry!Asked, Inquiry!Requests
<1>. QED BY <1>1, <1>2, FS_Subset
        DEF InquiryAsked, InquiryRequests, Inquiry!Asked, Inquiry!Requests

\* isFinished() compares numbers, and tells whether all have answered.
LEMMA IsFinishedIsExact ==
  ASSUME InquiryInv, NEW r \in InquiryAsked
  PROVE  Inquiry!IsFinished(Inquiry!Finish(agg, r))
           <=> AnsweredSet \cup {r} = InquiryAsked
<1>. DEFINE after == Inquiry!Finish(agg, r)
            S == AnsweredSet \cup {r}
<1>1. agg \in Inquiry!Aggregators(InquiryRequests)
  BY DEF InquiryInv, InquiryTypeOK
<1>2. after.registered = InquiryAsked /\ after.finished = S
  BY <1>1 DEF InquiryInv, AggregatorInv, Inquiry!Finish, Inquiry!Aggregators
<1>3. S \in SUBSET InquiryAsked
  BY DEF InquiryInv, AggregatorInv, AnsweredSet
<1>4. Cardinality(S) = Cardinality(InquiryAsked) <=> S = InquiryAsked
  BY <1>3, AskedFacts, FS_Subset
<1>5. Inquiry!Cardinality(after.registered) = Cardinality(after.registered)
      /\ Inquiry!Cardinality(after.finished) = Cardinality(after.finished)
  BY Zenon DEF Inquiry!Cardinality, Cardinality
<1>. QED BY <1>2, <1>4, <1>5 DEF Inquiry!IsFinished

LEMMA InquiryInitially == Inquiry!Init => InquiryInv
<1>. SUFFICES ASSUME Inquiry!Init PROVE InquiryInv
  OBVIOUS
<1>1. /\ options \in Inquiry!Options /\ container \in BOOLEAN
      /\ asked = [r \in InquiryRequests |->
                    IF r \in InquiryAsked THEN "out" ELSE "unsent"]
      /\ regions = FALSE /\ stage = "asking" /\ calls = 0 /\ told = "nothing yet"
      /\ agg = [registered |-> InquiryAsked, finished |-> {},
                isErrorState |-> FALSE, done |-> FALSE]
  BY DEF Inquiry!Init, Inquiry!NewAggregator, InquiryRequests, InquiryAsked
<1>2. target \in {"absent", "empty", "data"}
  BY DEF Inquiry!Init
<1>3. asked \in [InquiryRequests -> Inquiry!States]
  BY <1>1 DEF Inquiry!States
<1>4. agg \in Inquiry!Aggregators(InquiryRequests)
  BY <1>1, AskedFacts DEF Inquiry!Aggregators
<1>5. InquiryTypeOK
  BY <1>1, <1>2, <1>3, <1>4 DEF InquiryTypeOK, Inquiry!Phases
<1>6. AggregatorInv
  BY <1>1 DEF AggregatorInv, AnsweredSet
<1>7. EndInv
  <2>1. ~agg.isErrorState
    BY <1>1, Zenon
  <2>2. stage = "asking" /\ calls = 0 /\ told = "nothing yet"
    BY <1>1, Zenon
  <2>3. calls <= 1
    BY <2>2, ZeroOrOne
  <2>. QED BY <2>1, <2>2, <2>3, Zenon DEF EndInv
<1>8. ForcedInv
  BY <1>1 DEF ForcedInv, InquiryRequests, Inquiry!Requests
<1>. QED BY <1>5, <1>6, <1>7, <1>8 DEF InquiryInv

LEMMA InquiryStutters ==
  ASSUME InquiryInv, UNCHANGED inquiry
  PROVE  InquiryInv'
<1>1. UNCHANGED <<options, container, target, asked, regions, agg, stage, calls,
                  told, creation>>
  BY DEF inquiry
<1>. QED BY <1>1 DEF InquiryInv, InquiryTypeOK, AggregatorInv, EndInv, ForcedInv,
                     AnsweredSet, InquiryAsked, Inquiry!Asked

-------------------------------------------------------------------------------
(* The steps of the inquiry.                                                *)

\* A request is served, or fails on its way.
LEMMA ServedFacts ==
  ASSUME InquiryInv, NEW r \in InquiryRequests, asked[r] = "out",
         NEW answer \in {"ok", "notFound", "failed"},
         asked' = [asked EXCEPT ![r] = answer],
         UNCHANGED <<options, agg, stage, calls, told>>
  PROVE  AggregatorInv' /\ EndInv' /\ asked' \in [InquiryRequests -> Inquiry!States]
<1>1. asked' \in [InquiryRequests -> Inquiry!States]
  BY DEF InquiryInv, InquiryTypeOK, Inquiry!States
<1>2. AnsweredSet' = AnsweredSet /\ InquiryAsked' = InquiryAsked
  BY DEF InquiryInv, InquiryTypeOK, AnsweredSet, InquiryAsked, Inquiry!Asked
<1>3. AggregatorInv'
  <2>1. r \in InquiryAsked
    BY DEF InquiryInv, AggregatorInv
  <2>2. \A s \in InquiryRequests \ {r} : asked'[s] = asked[s]
    BY DEF InquiryInv, InquiryTypeOK
  <2>. QED BY <1>2, <2>1, <2>2 DEF InquiryInv, AggregatorInv
<1>4. EndInv'
  BY <1>2 DEF InquiryInv, EndInv
<1>. QED BY <1>1, <1>3, <1>4

LEMMA StepBlobServed ==
  ASSUME InquiryInv, NEW r \in InquiryRequests,
         Inquiry!BlobServed(r) \/ Inquiry!RequestFails(r)
  PROVE  InquiryInv'
<1>1. PICK answer \in {"ok", "notFound", "failed"} :
        /\ asked[r] = "out"
        /\ asked' = [asked EXCEPT ![r] = answer]
        /\ UNCHANGED <<options, container, target, agg, stage, calls, told>>
        /\ r = "createContainerIfNotExists" => answer = "failed"
  BY DEF Inquiry!BlobServed, Inquiry!RequestFails, Inquiry!service
<1>2. AggregatorInv' /\ EndInv' /\ asked' \in [InquiryRequests -> Inquiry!States]
  BY <1>1, ServedFacts
<1>3. regions' \in BOOLEAN
  BY DEF Inquiry!BlobServed, Inquiry!RequestFails, InquiryInv, InquiryTypeOK
<1>4. InquiryTypeOK'
  BY <1>1, <1>2, <1>3 DEF InquiryInv, InquiryTypeOK
<1>5. ForcedInv'
  <2>1. asked'["createContainerIfNotExists"]
          \in {asked["createContainerIfNotExists"], "failed"}
    BY <1>1 DEF InquiryInv, InquiryTypeOK, InquiryRequests, Inquiry!Requests
  <2>. QED BY <1>1, <2>1 DEF InquiryInv, ForcedInv
<1>. QED BY <1>2, <1>4, <1>5 DEF InquiryInv

LEMMA StepContainerServed ==
  ASSUME InquiryInv, Inquiry!ContainerServed
  PROVE  InquiryInv'
<1>. DEFINE c == "createContainerIfNotExists"
<1>1. /\ asked[c] = "out" /\ asked' = [asked EXCEPT ![c] = "ok"]
      /\ container' = TRUE
      /\ UNCHANGED <<options, target, regions, agg, stage, calls, told>>
  BY DEF Inquiry!ContainerServed
<1>2. c \in InquiryRequests
  BY DEF InquiryRequests, Inquiry!Requests
<1>3. AggregatorInv' /\ EndInv' /\ asked' \in [InquiryRequests -> Inquiry!States]
  BY <1>1, <1>2, ServedFacts
<1>4. InquiryTypeOK'
  BY <1>1, <1>3 DEF InquiryInv, InquiryTypeOK
<1>5. ForcedInv'
  <2>1. asked'[c] = "ok"
    BY <1>1, <1>2 DEF InquiryInv, InquiryTypeOK
  <2>. QED BY <1>1, <2>1 DEF InquiryInv, ForcedInv
<1>. QED BY <1>3, <1>4, <1>5 DEF InquiryInv

\* Neither the aggregator nor the requests notice that the blob is deleted,
\* that it was created, or that the base has been copied to it.
LEMMA StepTarget ==
  ASSUME InquiryInv, target' \in {"absent", "empty", "data"},
         UNCHANGED <<options, container, asked, regions, agg, stage, calls, told>>
  PROVE  InquiryInv'
BY DEF InquiryInv, InquiryTypeOK, AggregatorInv, EndInv, ForcedInv, AnsweredSet,
       InquiryAsked, Inquiry!Asked

\* onGotBlobInfo() is called, and never was before.
LEMMA GotFacts ==
  ASSUME InquiryInv, stage \in {"asking", "downloading"},
         NEW what \in {"no blob", "info", "info and footer", "error"},
         Inquiry!OnGotBlobInfo(what)
  PROVE  /\ stage' \in {"creating", "uploading", "over"}
         /\ calls' \in Nat /\ calls' <= 1
         /\ told' = what
<1>1. calls = 0 /\ calls' = calls + 1 /\ told' = what
  BY DEF InquiryInv, EndInv, Inquiry!OnGotBlobInfo
<1>2. stage' \in {"creating", "uploading", "over"}
  BY DEF Inquiry!OnGotBlobInfo, Inquiry!Create
<1>3. calls' = 1
  BY <1>1, ZeroOrOne
<1>. QED BY <1>1, <1>2, <1>3, ZeroOrOne

\* The last answer, or the first error, ends the inquiry; all others are counted.
LEMMA CallFacts ==
  ASSUME InquiryInv, NEW r \in InquiryRequests, NEW error \in BOOLEAN
  PROVE  LET after == Inquiry!Call(agg, r, error) IN
         /\ after \in Inquiry!Aggregators(InquiryRequests)
         /\ after.registered = agg.registered
         /\ after.finished = agg.finished \cup {r}
         /\ after.isErrorState <=> agg.isErrorState \/ error
<1>. DEFINE fin == [agg EXCEPT !.finished = agg.finished \cup {r}]
            calling == Inquiry!CallsFinal(agg, r, error)
            after == [fin EXCEPT !.isErrorState = fin.isErrorState \/ error,
                                 !.done = fin.done \/ calling]
<1>1. Inquiry!Call(agg, r, error) = after
  BY Zenon DEF Inquiry!Call, Inquiry!Finish
<1>2. calling \in BOOLEAN
  BY DEF Inquiry!CallsFinal
<1>. HIDE DEF calling
<1>3. agg \in [registered : SUBSET InquiryRequests, finished : SUBSET InquiryRequests,
               isErrorState : BOOLEAN, done : BOOLEAN]
  BY DEF InquiryInv, InquiryTypeOK, Inquiry!Aggregators
<1>4. fin.isErrorState \in BOOLEAN /\ fin.done \in BOOLEAN
  BY <1>3
<1>5. fin.isErrorState = agg.isErrorState /\ fin.done = agg.done
  BY <1>3
<1>6. (fin.isErrorState \/ error) \in BOOLEAN /\ (fin.done \/ calling) \in BOOLEAN
  BY <1>4, <1>2, Zenon
<1>7. /\ after.registered = agg.registered
      /\ after.finished = agg.finished \cup {r}
      /\ after.isErrorState = (fin.isErrorState \/ error)
  BY <1>3
<1>8. after \in [registered : SUBSET InquiryRequests, finished : SUBSET InquiryRequests,
                 isErrorState : BOOLEAN, done : BOOLEAN]
  BY <1>3, <1>6
<1>9. after.isErrorState <=> agg.isErrorState \/ error
  BY <1>5, <1>7, Zenon
<1>. QED BY <1>1, <1>7, <1>8, <1>9, Zenon DEF Inquiry!Aggregators

LEMMA StepAnswered ==
  ASSUME InquiryInv, NEW r \in InquiryRequests, Inquiry!Answered(r)
  PROVE  InquiryInv'
<1>. DEFINE error == asked[r] # "ok"
            calling == Inquiry!CallsFinal(agg, r, error)
<1>1. /\ stage # "over"
      /\ asked[r] \in {"ok", "notFound", "failed"}
      /\ asked' = [asked EXCEPT ![r] = "answered"]
      /\ agg' = Inquiry!Call(agg, r, error)
      /\ calling => Inquiry!Final(r)
      /\ ~calling => UNCHANGED <<stage, calls, told, creation>>
      /\ UNCHANGED <<options, container, target, regions>>
  BY DEF Inquiry!Answered, Inquiry!Served, Inquiry!service
<1>2. /\ asked' \in [InquiryRequests -> Inquiry!States]
      /\ asked'[r] = "answered"
      /\ \A s \in InquiryRequests \ {r} : asked'[s] = asked[s]
  BY <1>1 DEF InquiryInv, InquiryTypeOK, Inquiry!States
<1>3. r \in InquiryAsked /\ r \notin AnsweredSet
  BY <1>1 DEF InquiryInv, AggregatorInv, AnsweredSet
<1>4. AnsweredSet' = AnsweredSet \cup {r} /\ InquiryAsked' = InquiryAsked
  BY <1>1, <1>2 DEF AnsweredSet, InquiryAsked, Inquiry!Asked
<1>5. error \in BOOLEAN
  OBVIOUS
<1>6. /\ agg' \in Inquiry!Aggregators(InquiryRequests)
      /\ agg'.registered = agg.registered
      /\ agg'.finished = agg.finished \cup {r}
      /\ agg'.isErrorState <=> agg.isErrorState \/ error
  <2>. HIDE DEF error
  <2>. QED BY <1>1, <1>5, CallFacts
<1>7. AggregatorInv'
  BY <1>2, <1>3, <1>4, <1>6 DEF InquiryInv, AggregatorInv
<1>8. calling <=> ~agg.isErrorState /\ (error \/ AnsweredSet \cup {r} = InquiryAsked)
  BY <1>3, IsFinishedIsExact, Zenon DEF Inquiry!CallsFinal
\* Only an answer after an error may come when the inquiry is over.
<1>9. stage = "asking" \/ agg.isErrorState
  BY <1>3, Zenon DEF InquiryInv, EndInv
<1>10. asked'["createContainerIfNotExists"]
         \in {asked["createContainerIfNotExists"], "answered"}
  BY <1>2 DEF InquiryRequests, Inquiry!Requests
<1>11. CASE ~calling
  <2>1. UNCHANGED <<options, container, target, regions, stage, calls, told>>
    BY <1>1, <1>11
  <2>2. stage = "asking" => ~agg'.isErrorState
    BY <1>6, <1>8, <1>11, Zenon DEF InquiryInv, EndInv
  <2>3. stage # "asking" => agg.isErrorState /\ agg'.isErrorState
    BY <1>6, <1>9, Zenon
  <2>4. EndInv'
    BY <2>1, <2>2, <2>3, Zenon DEF InquiryInv, EndInv
  <2>5. InquiryTypeOK'
    BY <1>2, <1>6, <2>1 DEF InquiryInv, InquiryTypeOK
  <2>6. ForcedInv'
    BY <1>10, <2>1 DEF InquiryInv, ForcedInv
  <2>. QED BY <1>7, <2>4, <2>5, <2>6 DEF InquiryInv
<1>12. CASE calling
  <2>1. /\ ~agg.isErrorState /\ stage = "asking"
        /\ calls = 0 /\ told = "nothing yet"
        /\ error \/ AnsweredSet' = InquiryAsked'
    BY <1>4, <1>8, <1>9, <1>12, Zenon DEF InquiryInv, EndInv
  <2>2. agg'.isErrorState <=> error
    BY <1>6, <2>1, Zenon
  <2>3. Inquiry!Final(r)
    BY <1>1, <1>12
  \* With -f the request is the one for the container.
  <2>4. options.force => IF error THEN asked[r] = "failed" ELSE container
    BY <1>1, <1>3, AskedFacts DEF InquiryInv, ForcedInv
  <2>5. CASE \E what \in {"no blob", "info", "error"} :
               /\ Inquiry!OnGotBlobInfo(what)
               /\ error => what # "info"
               /\ options.force => container \/ what = "error"
    <3>1. PICK what \in {"no blob", "info", "error"} :
               /\ Inquiry!OnGotBlobInfo(what)
               /\ error => what # "info"
               /\ options.force => container \/ what = "error"
      BY <2>5
    <3>2. /\ stage' \in {"creating", "uploading", "over"}
          /\ calls' \in Nat /\ calls' <= 1
          /\ told' = what
      BY <2>1, <3>1, GotFacts
    <3>3. InquiryTypeOK'
      BY <1>1, <1>2, <1>6, <3>2 DEF InquiryInv, InquiryTypeOK, Inquiry!Phases
    <3>4. told' \in {"info", "info and footer"} => ~agg'.isErrorState
      BY <2>2, <3>1, <3>2
    <3>5. stage' \notin {"asking", "downloading"}
      BY <3>2
    <3>6. EndInv'
      BY <2>1, <2>2, <3>2, <3>4, <3>5, Zenon DEF EndInv
    <3>7. ForcedInv'
      BY <1>1, <1>10, <3>1, <3>2 DEF InquiryInv, ForcedInv
    <3>. QED BY <1>7, <3>3, <3>6, <3>7 DEF InquiryInv
  <2>6. CASE /\ ~error /\ ~options.force
             /\ stage' = "downloading" /\ UNCHANGED <<calls, told>>
    <3>1. ~agg'.isErrorState /\ AnsweredSet' = InquiryAsked'
      BY <2>1, <2>2, <2>6
    <3>2. /\ stage' = "downloading" /\ calls' = 0 /\ calls' <= 1
          /\ told' = "nothing yet"
      BY <2>1, <2>6, ZeroOrOne
    <3>3. EndInv'
      BY <3>1, <3>2, Zenon DEF EndInv
    <3>4. InquiryTypeOK'
      BY <1>1, <1>2, <1>6, <2>6 DEF InquiryInv, InquiryTypeOK, Inquiry!Phases
    <3>5. ForcedInv'
      BY <1>1, <1>10, <2>6 DEF InquiryInv, ForcedInv
    <3>. QED BY <1>7, <3>3, <3>4, <3>5 DEF InquiryInv
  <2>. QED
    <3>1. CASE error
      <4>1. Inquiry!OnGotBlobInfo(IF asked[r] = "notFound" THEN "no blob" ELSE "error")
        BY <2>3, <3>1 DEF Inquiry!Final, Inquiry!SaysNoBlob
      <4>. QED BY <2>4, <2>5, <3>1, <4>1
    <3>2. CASE ~error
      <4>1. IF options.force THEN Inquiry!OnGotBlobInfo("no blob")
            ELSE IF regions
                 THEN stage' = "downloading" /\ UNCHANGED <<calls, told, creation>>
                 ELSE Inquiry!OnGotBlobInfo("info")
        BY <2>3, <3>2 DEF Inquiry!Final, Inquiry!HasFooter
      <4>. QED BY <2>4, <2>5, <2>6, <3>2, <4>1
    <3>. QED BY <3>1, <3>2
<1>. QED BY <1>11, <1>12

\* The footer is there, or is not.
LEMMA StepDownload ==
  ASSUME InquiryInv, Inquiry!Downloaded \/ Inquiry!DownloadFails
  PROVE  InquiryInv'
<1>1. /\ stage = "downloading"
      /\ UNCHANGED <<options, container, target, asked, regions, agg>>
      /\ \E what \in {"info and footer", "error"} : Inquiry!OnGotBlobInfo(what)
  BY DEF Inquiry!Downloaded, Inquiry!DownloadFails, Inquiry!service
<1>2. PICK what \in {"info and footer", "error"} : Inquiry!OnGotBlobInfo(what)
  BY <1>1
<1>3. /\ stage' \in {"creating", "uploading", "over"}
      /\ calls' \in Nat /\ calls' <= 1
      /\ told' = what
  BY <1>1, <1>2, GotFacts
<1>4. ~agg.isErrorState /\ AnsweredSet = InquiryAsked /\ ~options.force
  BY <1>1 DEF InquiryInv, EndInv, ForcedInv
<1>5. AnsweredSet' = AnsweredSet /\ InquiryAsked' = InquiryAsked
  BY <1>1 DEF AnsweredSet, InquiryAsked, Inquiry!Asked
<1>6. stage' \notin {"asking", "downloading"} /\ agg' = agg
  BY <1>1, <1>3
<1>7. EndInv'
  BY <1>3, <1>4, <1>5, <1>6, Zenon DEF EndInv
<1>8. InquiryTypeOK' /\ AggregatorInv' /\ ForcedInv'
  BY <1>1, <1>3, <1>4, <1>5
     DEF InquiryInv, InquiryTypeOK, AggregatorInv, ForcedInv, Inquiry!Phases
<1>. QED BY <1>7, <1>8 DEF InquiryInv

\* createPageBlob()
LEMMA StepCreation ==
  ASSUME InquiryInv,
         Inquiry!CreationServed \/ Inquiry!CreationFails \/ Inquiry!CreationAnswered
  PROVE  InquiryInv'
<1>1. CASE Inquiry!CreationServed \/ Inquiry!CreationFails
  <2>1. target' \in {"absent", "empty", "data"}
    BY <1>1 DEF Inquiry!CreationServed, Inquiry!CreationFails, Inquiry!service,
                InquiryInv, InquiryTypeOK
  <2>2. UNCHANGED <<options, container, asked, regions, agg, stage, calls, told>>
    BY <1>1 DEF Inquiry!CreationServed, Inquiry!CreationFails, Inquiry!service
  <2>. QED BY <2>1, <2>2, StepTarget
<1>2. CASE Inquiry!CreationAnswered
  <2>1. /\ stage = "creating" /\ stage' \in {"uploading", "over"}
        /\ UNCHANGED <<options, container, target, asked, regions, agg, calls, told>>
    BY <1>2 DEF Inquiry!CreationAnswered, Inquiry!service
  <2>2. AnsweredSet' = AnsweredSet /\ InquiryAsked' = InquiryAsked
    BY <2>1 DEF AnsweredSet, InquiryAsked, Inquiry!Asked
  <2>. QED BY <2>1, <2>2
           DEF InquiryInv, InquiryTypeOK, AggregatorInv, EndInv, ForcedInv,
               Inquiry!Phases
<1>. QED BY <1>1, <1>2

-------------------------------------------------------------------------------
(* The preparation: its steps are the clean-up's, the inquiry's, or both.   *)

PreparationInv == IInv /\ InquiryInv

\* An error of the inquiry is reported while the clean-up may be under way.
LEMMA StepReports ==
  ASSUME IInv, Reports,
         UNCHANGED <<file, phase, blob, blobMd5, uploadedRegions, deleteVars>>
  PROVE  IInv'
<1>1. failures' \in Nat /\ alive' \in BOOLEAN
  <2>1. failures \in Nat /\ alive \in BOOLEAN /\ telemetry \in BOOLEAN
    BY DEF IInv, TypeOK
  <2>2. failures' \in {failures, failures + 1} /\ alive' \in {alive, telemetry}
    BY DEF Reports, ReportError, reportVars
  <2>3. failures' \in Nat
    BY <2>1, <2>2, SMT
  <2>. QED BY <2>1, <2>2, <2>3, Zenon
<1>2. TypeOK'
  BY <1>1 DEF IInv, TypeOK, file, deleteVars
<1>3. RequestInv' /\ CountInv' /\ LenInv' /\ ExactInv'
  BY DEF IInv, RequestInv, CountInv, LenInv, ExactInv, deleteVars
<1>4. StaleInv'
  BY DEF IInv, StaleInv, Stale, Remaining, DeleteIndices, RegionOf, deleteVars, file
<1>. QED BY <1>2, <1>3, <1>4 DEF IInv

LEMMA PreparationInitially == PreparationInit => PreparationInv
BY InitIInv, InquiryInitially DEF PreparationInit, PreparationInv

LEMMA StepInquiry ==
  ASSUME PreparationInv,
         InquiryServed \/ InquiryAnswered \/ SomeoneDeletesBlob \/ PlainCreation
  PROVE  PreparationInv'
<1>1. CASE InquiryServed
  BY <1>1, StepBlobServed, StepContainerServed, StepStutters
     DEF InquiryServed, PreparationInv, InquiryRequests
<1>2. CASE InquiryAnswered
  BY <1>2, StepAnswered, StepDownload, StepReports
     DEF InquiryAnswered, PreparationInv, InquiryRequests
<1>3. CASE SomeoneDeletesBlob
  <2>1. InquiryInv'
    BY <1>3, StepTarget DEF SomeoneDeletesBlob, Inquiry!SomeoneDeletesBlob,
                            PreparationInv
  <2>. QED BY <1>3, <2>1, StepStutters DEF SomeoneDeletesBlob, PreparationInv
<1>4. CASE PlainCreation
  BY <1>4, StepCreation, StepStutters DEF PlainCreation, PreparationInv
<1>. QED BY <1>1, <1>2, <1>3, <1>4

LEMMA StepCopy ==
  ASSUME PreparationInv,
         \/ BaseCopied \/ BaseNotCopied \/ CleaningUp \/ Exits
         \/ \E index \in Regions : RegionAnswered(index)
  PROVE  PreparationInv'
<1>1. IInv'
  BY StepBefore, StepInspected, StepMd5, StepRegionDeleted, StepRegionFails,
     StepProcessExits
     DEF BaseCopied, BaseNotCopied, CleaningUp, Exits, RegionAnswered, Answered,
         PreparationInv
<1>2. CASE BaseCopied
  <2>1. target' \in {"absent", "empty", "data"}
    BY <1>2 DEF BaseCopied
  <2>2. InquiryInv'
    BY <1>2, <2>1, StepTarget DEF BaseCopied, PreparationInv
  <2>. QED BY <1>1, <2>2 DEF PreparationInv
<1>3. CASE ~BaseCopied
  BY <1>1, <1>3, InquiryStutters
     DEF BaseNotCopied, CleaningUp, Exits, RegionAnswered, PreparationInv
<1>. QED BY <1>2, <1>3

LEMMA StepPreparation == PreparationInv /\ [PreparationNext]_all => PreparationInv'
<1>. SUFFICES ASSUME PreparationInv, [PreparationNext]_all PROVE PreparationInv'
  OBVIOUS
<1>1. CASE UNCHANGED all
  BY <1>1, StepStutters, InquiryStutters DEF all, PreparationInv
<1>. QED BY <1>1, StepInquiry, StepCopy
        DEF PreparationNext, CreationEnds, PreparationTerminated

\* The inquiry and the clean-up keep their invariants beside each other, while answers
\* of getBlobInfo() still arrive.
THEOREM PreparationInvariance == Preparation => []PreparationInv
BY PreparationInitially, StepPreparation, PTL DEF Preparation

\* In whatever order the answers come, and whichever of them are errors: the
\* final callback of the aggregator, which creates the blob or copies the base,
\* runs once, and is given regions and properties only when all have answered.
THEOREM InquiryCallsBackOnce == Preparation => []InfoIsComplete
<1>1. PreparationInv => InfoIsComplete
  <2>. SUFFICES ASSUME InquiryInv PROVE InfoIsComplete
    BY DEF PreparationInv
  <2>1. calls <= 1
    BY DEF InquiryInv, EndInv
  <2>2. told \in {"info", "info and footer"}
          => \A r \in Inquiry!Asked : asked[r] = "answered"
    BY DEF InquiryInv, EndInv, AnsweredSet, InquiryAsked
  <2>. QED BY <2>1, <2>2 DEF InfoIsComplete, Inquiry!InfoIsComplete
<1>. QED BY <1>1, PreparationInvariance, PTL

\* With -f nothing is created, and no base is copied, before the container is
\* known to be there, unless an error has been reported.
THEOREM CreationFindsContainer == Preparation => []ForcedCreationFindsContainer
<1>1. PreparationInv => ForcedCreationFindsContainer
  BY DEF PreparationInv, InquiryInv, ForcedInv, ForcedCreationFindsContainer,
         Inquiry!ForcedCreationFindsContainer
<1>. QED BY <1>1, PreparationInvariance, PTL

\* What holds of the clean-up by itself holds when an inquiry runs before it,
\* answers of which arrive, and fail, while regions are being cleared.
THEOREM PreparedBaseIsCleanedUp ==
  Preparation => [](OneRegionLeftAtMost /\ UploadedRegionsAreExact
                      /\ NotReadyAfterFailure)
<1>1. PreparationInv
        => OneRegionLeftAtMost /\ UploadedRegionsAreExact /\ NotReadyAfterFailure
  BY InvariantImplies DEF PreparationInv
<1>. QED BY <1>1, PreparationInvariance, PTL

===============================================================================
