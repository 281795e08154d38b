----------------------------- MODULE SkippedBlocks ------------------------------
(***************************************************************************)
(* Which blocks an upload does not send: uploadAtIndex() of                *)
(* lib/commands/asm/iaas/upload/pageBlob.js.  A block is skipped if the    *)
(* file has no data in it (NonZeroBlocks, for a fixed VHD), or if the blob *)
(* has it already, which is computed with a set of integers (IntSet) from  *)
(* the list of the blob's regions.                                         *)
(*                                                                         *)
(* For a difference VHD the regions that were cleared in the blob are      *)
(* taken from that list before, in any order.                              *)
(*                                                                         *)
(* The decisions for the indices do not depend on each other: each         *)
(* behaviour makes one.                                                    *)
(***************************************************************************)
EXTENDS Integers, Sequences

CONSTANTS
  Bound,               \* positions in the blob are 0 .. Bound
  Ranges,              \* the lists of regions considered
  MaxFileSize,         \* of a fixed VHD, a bound on what is explored
  NonZeroBlockSize,
  UploadBlockSizes     \* blockSize, the sizes considered

VARIABLES
  dynVHD,              \* whether the VHD is dynamic, or fixed
  blockSize,
  data, buf, nonZeroBlocks, blockIndex, fileOffset, len, answer,
                       \* of findNonZeroBlocks(), see NonZeroBlocks
  v, start, end, i,    \* the set in use, see IntSet
  uploadedRegions,     \* once it is complete
  first, last,         \* the region to send, from posOut to realEndPosOut
  todo,                \* the regions that are still to be subtracted from it
  phase                \* "listing", "choosing", "subtracting", "sent", "skipped"

detection == <<data, buf, nonZeroBlocks, blockIndex, fileOffset, len, answer>>
set == <<v, start, end, i>>
decision == <<uploadedRegions, first, last, todo, phase>>
vars == <<dynVHD, blockSize, detection, set, decision>>

Set == INSTANCE IntSet
Blocks == INSTANCE NonZeroBlocks
            WITH BlockSize <- NonZeroBlockSize, MaxSize <- MaxFileSize

ASSUME SetAssumption == Set!BoundAssumption /\ Set!RangesAssumption
ASSUME BlocksAssumption ==
  Blocks!BlockSizeAssumption /\ Blocks!MaxSizeAssumption /\ MaxFileSize <= Bound + 1
\* nonZeroBlockSize is a multiple of blockSize, asserted in onBlobCreated().
ASSUME UploadBlockSizesAssumption ==
  \A size \in UploadBlockSizes : size \in Nat \ {0} /\ NonZeroBlockSize % size = 0

Size == IF dynVHD THEN Bound + 1 ELSE Blocks!FileSize

\* Nothing is detected in a dynamic VHD.
NoDetection ==
  /\ data = <<0>> /\ buf = [k \in 0 .. NonZeroBlockSize - 1 |-> 0]

\* The blob has the size of the VHD.
Init ==
  /\ dynVHD \in BOOLEAN
  /\ blockSize \in UploadBlockSizes
  /\ Set!Init
  /\ Blocks!Init
  /\ dynVHD => NoDetection
  /\ \A k \in DOMAIN v : v[k].end < Size
  /\ uploadedRegions = <<>>
  /\ first = 0 /\ last = 0
  /\ todo = <<>>
  /\ phase = "listing"

-------------------------------------------------------------------------------
\* createDiffVHDPageBlob() takes a region that it has cleared from the list, by
\* a set that has the same array.
RegionCleared(from, to) ==
  /\ phase = "listing" /\ dynVHD
  /\ from <= to
  /\ Set!Subtract(from, to)
  /\ UNCHANGED <<dynVHD, blockSize, detection, decision>>

Turn ==
  /\ Set!Turn
  /\ UNCHANGED <<dynVHD, blockSize, detection, decision>>

Detect ==
  /\ phase = "listing" /\ ~dynVHD
  /\ Blocks!Read
  /\ UNCHANGED <<dynVHD, blockSize, set, decision>>

StartThreads ==
  /\ phase = "listing"
  /\ IF dynVHD THEN i = 0 ELSE answer = "blocks"
  /\ phase' = "choosing"
  /\ uploadedRegions' = v
  /\ v' = <<>>
  /\ start' = 0 /\ end' = 0
  /\ UNCHANGED <<dynVHD, blockSize, detection, i, first, last, todo>>

IsEmptyBlock(index) ==
  ~dynVHD /\ ~nonZeroBlocks[(index * blockSize) \div NonZeroBlockSize]

UploadAtIndex(index) ==
  /\ phase = "choosing"
  /\ index * blockSize < Size
  /\ first' = index * blockSize
  /\ last' = Blocks!Smaller(first' + blockSize, Size) - 1
  /\ IF IsEmptyBlock(index)
     THEN phase' = "skipped" /\ UNCHANGED <<v, todo>>
     ELSE /\ phase' = "subtracting"
          /\ v' = <<[start |-> first', end |-> last']>>
          /\ todo' = uploadedRegions
  /\ UNCHANGED <<dynVHD, blockSize, detection, start, end, i, uploadedRegions>>

\* subtractRanges()
NextRange ==
  /\ phase = "subtracting"
  /\ todo # <<>>
  /\ Set!Subtract(Head(todo).start, Head(todo).end)
  /\ todo' = Tail(todo)
  /\ UNCHANGED <<dynVHD, blockSize, detection, uploadedRegions, first, last, phase>>

IsAlreadyUploaded == v = <<>>

Decide ==
  /\ phase = "subtracting"
  /\ todo = <<>> /\ i = 0
  /\ phase' = IF IsAlreadyUploaded THEN "skipped" ELSE "sent"
  /\ UNCHANGED <<dynVHD, blockSize, detection, set, uploadedRegions, first, last, todo>>

Terminated ==
  /\ phase \in {"sent", "skipped"} \/ answer = "error"
  /\ UNCHANGED vars

Next ==
  \/ \E from, to \in 0 .. Bound : RegionCleared(from, to)
  \/ Turn \/ Detect \/ StartThreads
  \/ \E index \in 0 .. Bound : UploadAtIndex(index)
  \/ NextRange \/ Decide
  \/ Terminated

Spec == Init /\ [][Next]_vars

-------------------------------------------------------------------------------
(* Properties.                                                              *)

\* Whatever is taken from a set, and after every turn of the loop, its array is
\* one that createIntSet() accepts: the list of uploaded regions shares it.
WellFormed == Set!WellFormed

Abstract == INSTANCE IntegerSet WITH members <- Set!Denoted

\* The array denotes a set of integers, and each call of subtractInterval()
\* takes its interval from it, and nothing else, whichever intervals of the
\* array it covers, cuts or splits: for the list of regions as for the set that
\* is made for a block.
ImplementsIntegerSet ==
  Abstract!Init /\ [][phase' = phase => Abstract!Next]_<<Abstract!vars, phase>>

Uploaded == UNION {uploadedRegions[k].start .. uploadedRegions[k].end :
                     k \in DOMAIN uploadedRegions}

\* What is skipped is in the blob or has no data in the file; what is sent is
\* not all in the blob and lies, for a fixed VHD, in a block with data: whatever
\* pieces the file was read in, whatever an earlier block left in the buffer,
\* and however the block lies over the regions.
SkippedRightly ==
  LET inBlob == first .. last \subseteq Uploaded
      isZero == ~dynVHD /\ \A p \in first .. last : data[p + 1] = 0
  IN /\ phase = "skipped" => inBlob \/ isZero
     /\ phase = "sent" =>
          ~inBlob /\ (dynVHD \/ Blocks!HasData(first \div NonZeroBlockSize))

===============================================================================
