------------------------------- MODULE VhdChain -------------------------------
(***************************************************************************)
(* A dynamic VHD, or a difference VHD and its parents, as vhdTools.js sees *)
(* them.  Level 1 is the file to upload, level l + 1 the parent of level l *)
(* and level Depth the root, which is a dynamic or a fixed VHD.            *)
(*                                                                         *)
(* A sector's data is the level that it was written at, or Zero.  The      *)
(* sectors of a block of the file that its bitmap does not mark hold       *)
(* zeroes, as in the files that Hyper-V writes.                            *)
(***************************************************************************)
EXTENDS Integers, FiniteSets

CONSTANTS
  Depth,            \* the number of VHDs
  BlockCount,       \* ddHeader.maxTableEntries, the same for all
  SectorsPerBlock   \* ddHeader.blockSize

ASSUME DepthAssumption == Depth \in Nat \ {0}
ASSUME BlockCountAssumption == BlockCount \in Nat \ {0}
ASSUME SectorsPerBlockAssumption == SectorsPerBlock \in Nat \ {0}

Levels == 1 .. Depth
VhdBlocks == 0 .. BlockCount - 1
SectorsInBlock == 0 .. SectorsPerBlock - 1
DiskSize == BlockCount * SectorsPerBlock
Zero == 0

\* bitmap: of each block of the block allocation table, its marked sectors.
\* A fixed root has none, it is all data.
Chains ==
  [fixedRoot : BOOLEAN,
   bitmap : [Levels -> UNION {[bat -> SUBSET SectorsInBlock] :
                                bat \in SUBSET VhdBlocks}]]

IsFixed(chain, level) == chain.fixedRoot /\ level = Depth

\* vhdInfo.indices
Indices(chain, level) == DOMAIN chain.bitmap[level]

\* vhdInfo.fullIndices is left undefined
HasFullIndices(chain) == ~chain.fixedRoot

\* Mutation: the parents' blocks are not merged in.
FullIndices_OwnOnly(chain, level) == Indices(chain, level)

\* buildFullIndices() and mergeIndices(): the blocks of a VHD and its parents.
FullIndices(chain, level) ==
  UNION {Indices(chain, ancestor) : ancestor \in level .. Depth}

\* Mutation: a block is looked for in the parent's own table.
IsInParent_Table(chain, level, block) ==
  /\ level < Depth
  /\ IsFixed(chain, level + 1) \/ block \in Indices(chain, level + 1)

\* isInParent in getReadStream(): the parent is to be read for the block.
IsInParent(chain, level, block) ==
  /\ level < Depth
  /\ ~HasFullIndices(chain) \/ block \in FullIndices(chain, level + 1)

\* What the VHD's file has for a sector of one of its blocks.
InFile(chain, level, block, sector) ==
  IF sector \in chain.bitmap[level][block] THEN level ELSE Zero

\* The data that a level's stream emits for a sector.  Where the parent has the
\* block as well the bitmap decides between the two (StreamMerger).
Emits(chain, block, sector) ==
  LET emits[level \in Levels] ==
        IF IsFixed(chain, level) THEN level
        ELSE IF block \in Indices(chain, level)
             THEN IF IsInParent(chain, level, block)
                     /\ sector \notin chain.bitmap[level][block]
                  THEN emits[level + 1]
                  ELSE InFile(chain, level, block, sector)
             ELSE IF IsInParent(chain, level, block) THEN emits[level + 1]
                  ELSE Zero
  IN emits[1]

\* The format's own rule: a sector is that of the first VHD of the chain that
\* has it marked.
Holders(chain, block, sector) ==
  {level \in Levels :
     \/ IsFixed(chain, level)
     \/ block \in Indices(chain, level) /\ sector \in chain.bitmap[level][block]}

Content(chain, block, sector) ==
  LET holders == Holders(chain, block, sector)
  IN IF holders = {} THEN Zero
     ELSE CHOOSE level \in holders : \A other \in holders : level <= other

===============================================================================
