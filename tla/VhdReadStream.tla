---------------------------- MODULE VhdReadStream -----------------------------
(***************************************************************************)
(* The reads of an upload of a dynamic or difference VHD: getReadStream()  *)
(* of lib/commands/asm/iaas/upload/vhdTools.js, as pageBlob.js uses it to  *)
(* send one block of the upload and to compute the MD5 of the whole.       *)
(*                                                                         *)
(* The stream goes from block to block of the virtual disk, opens the file *)
(* for those that have data, fills the rest with zeroes and ends with the  *)
(* footer of the fixed VHD that the blob becomes.                          *)
(***************************************************************************)
EXTENDS VhdChain, Sequences

CONSTANTS
  ChainSpace,       \* the chains considered
  CurrentSizes,     \* footer.currentSize, the sizes considered
  UploadsPerBlock,  \* uploadBlocksPerBATBlocks
  HeaderSectors     \* of the file, before its first block

\* A fixed VHD is not read so (pageBlob.js asks for ddHeader).
ASSUME ChainSpaceAssumption ==
  ChainSpace \subseteq {c \in Chains : ~IsFixed(c, 1)}
ASSUME UploadsPerBlockAssumption ==
  /\ UploadsPerBlock \in Nat \ {0}
  /\ SectorsPerBlock % UploadsPerBlock = 0
ASSUME HeaderSectorsAssumption == HeaderSectors \in Nat
ASSUME CurrentSizesAssumption ==
  CurrentSizes \subseteq DiskSize - SectorsPerBlock + 1 .. DiskSize

FooterData == -1
UploadBlockSize == SectorsPerBlock \div UploadsPerBlock

\* The file has a sector of bitmap before each block, and a footer.
FileSize(chain) ==
  HeaderSectors + Cardinality(Indices(chain, 1)) * (1 + SectorsPerBlock) + 1

UploadSize(chain) ==
  IF HasFullIndices(chain)
  THEN Cardinality(FullIndices(chain, 1)) * SectorsPerBlock
  ELSE FileSize(chain) - 1

Ceiling(a, b) == (a + b - 1) \div b
MaxIndex(chain) == Ceiling(UploadSize(chain), UploadBlockSize) - 1

\* fullIndices[n]
NthIndex(chain, n) ==
  LET full == FullIndices(chain, 1)
  IN CHOOSE block \in full : Cardinality({b \in full : b < block}) = n

\* Where the data of an index of the upload goes to, and is read from.
PosOut(chain, index) ==
  IF HasFullIndices(chain)
  THEN NthIndex(chain, index \div UploadsPerBlock) * SectorsPerBlock
         + (index % UploadsPerBlock) * UploadBlockSize
  ELSE index * UploadBlockSize

Sent(chain, index) ==
  PosOut(chain, index) .. PosOut(chain, index) + UploadBlockSize - 1

VARIABLES
  chain,
  currentSize,
  start, end,    \* streamOptions
  block,         \* the block the next file stream is looked for from
  within,        \* startPosWithinBlock
  file,          \* the sectors that the open file stream has still to deliver
  pos,           \* stream._pos
  emitted,       \* the data emitted
  phase          \* "next", "reading", "ended" or "failed"

request == <<chain, currentSize, start, end>>
readVars == <<request, block, within, file, pos, emitted, phase>>

\* The whole of the VHD for the MD5, or one block of the upload.  The indices
\* that reach behind the disk are left to AllDataIsSent: createNextStream() throws.
ReadInit ==
  /\ chain \in ChainSpace
  /\ currentSize \in CurrentSizes
  /\ \/ start = 0 /\ end = currentSize
     \/ \E index \in 0 .. MaxIndex(chain) :
          /\ Sent(chain, index) \subseteq 0 .. DiskSize - 1
          /\ start = PosOut(chain, index)
          /\ end = start + UploadBlockSize - 1
  /\ block = start \div SectorsPerBlock
  /\ within = start % SectorsPerBlock
  /\ file = {}
  /\ pos = start
  /\ emitted = <<>>
  /\ phase = "next"

-------------------------------------------------------------------------------
Zeroes(count) == [k \in 1 .. count |-> Zero]

\* What fillToPos() emits.  The footer is sliced from the position on.
Fill(newPos) ==
  IF newPos > currentSize /\ newPos > pos
  THEN Zeroes(currentSize - pos) \o (IF pos <= currentSize THEN <<FooterData>> ELSE <<>>)
  ELSE Zeroes(newPos - pos)

HasData(b) ==
  b \in Indices(chain, 1) \/ IsInParent(chain, 1, b)

\* The sectors of a block to read: from startPosWithinBlock to the end asked
\* for.
Slice(b) ==
  {p \in b * SectorsPerBlock + within .. (b + 1) * SectorsPerBlock - 1 : p <= end}

\* The blocks that createNextStream() may stop at.
Readable == {b \in block .. BlockCount - 1 : HasData(b) /\ Slice(b) # {}}

\* createNextStream() opens the file for the next block that has data.
NextStream ==
  /\ phase = "next"
  /\ \E b \in Readable :
       /\ \A other \in Readable : b <= other
       /\ file' = Slice(b)
       /\ block' = b + 1
  /\ within' = 0
  /\ phase' = "reading"
  /\ UNCHANGED <<request, pos, emitted>>

\* It finds none, and the stream ends.
LastFill ==
  /\ phase = "next"
  /\ Readable = {}
  /\ emitted' = emitted \o Fill(end + 1)
  /\ pos' = IF end + 1 > currentSize THEN currentSize ELSE end + 1
  /\ phase' = "ended"
  /\ UNCHANGED <<request, block, within, file>>

First(sectors) == CHOOSE p \in sectors : \A q \in sectors : p <= q

\* A chunk of the file stream: the next count sectors.
Chunk(count) ==
  /\ phase = "reading"
  /\ count \in 1 .. Cardinality(file)
  /\ LET first == First(file)
     IN /\ emitted' = emitted \o Fill(first)
                         \o [k \in 1 .. count |->
                               Emits(chain, first \div SectorsPerBlock,
                                     (first + k - 1) % SectorsPerBlock)]
        /\ pos' = first + count
        /\ file' = file \ (first .. first + count - 1)
  /\ phase' = IF file' = {} THEN "next" ELSE "reading"
  /\ UNCHANGED <<request, block, within>>

ReadFails ==
  /\ phase = "reading"
  /\ phase' = "failed"
  /\ file' = {}
  /\ UNCHANGED <<request, block, within, pos, emitted>>

ReadOver == phase \in {"ended", "failed"} /\ UNCHANGED readVars

ReadNext ==
  \/ NextStream \/ LastFill
  \/ \E count \in 1 .. SectorsPerBlock : Chunk(count)
  \/ ReadFails
  \/ ReadOver

ReadSpec == ReadInit /\ [][ReadNext]_readVars

-------------------------------------------------------------------------------
(* Properties.                                                              *)

\* What the blob has to have at a position: the data of the virtual disk, and
\* the footer behind it.
Wanted(p) ==
  IF p < DiskSize THEN Content(chain, p \div SectorsPerBlock, p % SectorsPerBlock)
  ELSE FooterData

\* What the stream emits is the virtual disk's data, whatever the chunks are,
\* whichever VHDs of the chain have the block and mark the sector; when it ends
\* all that was asked for has been emitted.
OutputIsContent ==
  /\ \A k \in 1 .. Len(emitted) : emitted[k] = Wanted(start + k - 1)
  /\ phase = "ended" => Len(emitted) = end - start + 1

\* All data of the virtual disk is sent by one of the indices of the upload, and
\* by one only, none of which reaches behind the disk; what is not sent stays
\* zero in the blob.  With a fixed root the indices are counted from the size of
\* the file, which nothing can be said of.
AllDataIsSent ==
  HasFullIndices(chain) =>
    /\ \A p \in 0 .. DiskSize - 1 :
         Wanted(p) # Zero => \E index \in 0 .. MaxIndex(chain) : p \in Sent(chain, index)
    /\ \A i, j \in 0 .. MaxIndex(chain) :
         /\ Sent(chain, i) \subseteq 0 .. DiskSize - 1
         /\ i # j => Sent(chain, i) \cap Sent(chain, j) = {}

===============================================================================
