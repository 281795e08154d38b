----------------------------- MODULE NonZeroBlocks -----------------------------
(***************************************************************************)
(* Which blocks of a fixed VHD have data: findNonZeroBlocks() of           *)
(* lib/commands/asm/iaas/upload/pageBlob.js, run before the upload of one. *)
(*                                                                         *)
(* The blocks are read one after the other into the same buffer, which is  *)
(* not cleared.  A read may deliver less than what was asked for; the rest *)
(* is asked for again.  The file does not shrink while it is read.         *)
(* SkippedBlocks has what the upload makes of the answer.                  *)
(***************************************************************************)
EXTENDS Integers, Sequences

CONSTANTS
  BlockSize,   \* nonZeroBlockSize
  MaxSize      \* of the file, a bound on what is explored

BlockSizeAssumption == BlockSize \in Nat \ {0}
MaxSizeAssumption == MaxSize \in Nat

VARIABLES
  data,        \* of the file, from position 0 on: 0 or 1 for anything else
  buf,
  nonZeroBlocks,
  blockIndex,
  fileOffset,
  len,         \* of the read that is out
  answer       \* what the callback was given: "none", "blocks" or "error"

vars == <<data, buf, nonZeroBlocks, blockIndex, fileOffset, len, answer>>

Byte == {0, 1}
FileSize == Len(data)

NumBlocks == (FileSize + BlockSize - 1) \div BlockSize
BlockIndices == 0 .. NumBlocks - 1
Smaller(a, b) == IF a < b THEN a ELSE b

\* The part of a block that lies in the file, if any.
BlockLength(offset) == Smaller(BlockSize, FileSize - offset)

\* new Buffer() leaves what was in the memory.
Init ==
  /\ data \in UNION {[1 .. size -> Byte] : size \in 1 .. MaxSize}
  /\ buf \in [0 .. BlockSize - 1 -> Byte]
  /\ nonZeroBlocks = [b \in BlockIndices |-> FALSE]
  /\ blockIndex = 0
  /\ fileOffset = 0
  /\ len = BlockLength(0)
  /\ answer = "none"

-------------------------------------------------------------------------------
\* readFileBlock(): the read of a whole block is sent, or all have been read.
ReadFileBlock(index) ==
  /\ blockIndex' = index
  /\ fileOffset' = index * BlockSize
  /\ len' = BlockLength(fileOffset')
  /\ answer' = IF len' <= 0 THEN "blocks" ELSE answer

\* Mutation: the whole buffer is looked at.
LookedAt_Buffer(bytesRead) == 0 .. BlockSize - 1

LookedAt(bytesRead) == 0 .. bytesRead - 1

EndsBlock(isNonZero, bytesRead) == isNonZero \/ bytesRead = len

\* readCallback() without an error
BytesRead(bytesRead) ==
  /\ answer = "none"
  /\ bytesRead \in 1 .. len
  /\ buf' = [k \in 0 .. BlockSize - 1 |->
               IF k < bytesRead THEN data[fileOffset + k + 1] ELSE buf[k]]
  /\ LET isNonZero == \E k \in LookedAt(bytesRead) : buf'[k] # 0
     IN IF EndsBlock(isNonZero, bytesRead)
        THEN /\ nonZeroBlocks' = [nonZeroBlocks EXCEPT ![blockIndex] = isNonZero]
             /\ ReadFileBlock(blockIndex + 1)
        ELSE /\ len' = len - bytesRead
             /\ fileOffset' = fileOffset + bytesRead
             /\ UNCHANGED <<nonZeroBlocks, blockIndex, answer>>
  /\ UNCHANGED data

ReadFails ==
  /\ answer = "none"
  /\ answer' = "error"
  /\ UNCHANGED <<data, buf, nonZeroBlocks, blockIndex, fileOffset, len>>

Read == (\E bytesRead \in 1 .. BlockSize : BytesRead(bytesRead)) \/ ReadFails

-------------------------------------------------------------------------------
(* For the properties.                                                      *)

HasData(b) ==
  \E k \in 1 .. FileSize : (k - 1) \div BlockSize = b /\ data[k] # 0

===============================================================================
