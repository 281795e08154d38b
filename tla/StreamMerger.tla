----------------------------- MODULE StreamMerger -----------------------------
(***************************************************************************)
(* lib/commands/asm/iaas/upload/streamMerger.js: the data of one block of  *)
(* a difference VHD, merged from its parent's stream (0) and its own (1).  *)
(* A bit of the block's bitmap says for each sector which of the two it is *)
(* taken from.  Either stream delivers chunks of any size at any time.     *)
(*                                                                         *)
(* Positions stand for the data: a sector that was emitted is the stream   *)
(* it came from and its position there.                                    *)
(***************************************************************************)
EXTENDS Integers, Sequences

CONSTANTS
  SectorSize,    \* in units of the streams' length
  Bits,          \* of the bitmap of a block, one for each sector
  MaskSpace,     \* the bitmaps considered
  StartBit,      \* of the block's part that is read
  MaxLength      \* of a stream, a bound on what is explored

Streams == {0, 1}

ASSUME SectorSizeAssumption == SectorSize \in Nat \ {0}
ASSUME StartBitAssumption == StartBit \in Nat
ASSUME BitsAssumption == Bits \in Nat
ASSUME MaskSpaceAssumption == MaskSpace \subseteq [0 .. Bits - 1 -> Streams]
\* What is read lies in the block.
ASSUME MaxLengthAssumption ==
  MaxLength \in Nat /\ MaxLength <= (Bits - StartBit) * SectorSize

VARIABLES
  mask,       \* readBit(maskBuf, bit) of each bit
  length,     \* of each stream
  received,   \* charCount
  buffs,      \* of each stream: position and length of what waits
  bit,
  out,        \* the sectors emitted
  source,     \* state of each stream: "open", "ended", "failed"
  event       \* the event that was emitted last: "none", "end" or "error"

vars == <<mask, length, received, buffs, bit, out, source, event>>

TypeOK ==
  /\ mask \in MaskSpace
  /\ length \in [Streams -> 0 .. MaxLength]
  /\ received \in [Streams -> Nat]
  /\ buffs \in [Streams -> [from : Nat, len : Nat]]
  /\ bit \in Nat
  /\ out \in Seq(Streams \X Nat)
  /\ source \in [Streams -> {"open", "ended", "failed"}]
  /\ event \in {"none", "end", "error"}

Init ==
  /\ mask \in MaskSpace
  /\ length \in [Streams -> 0 .. MaxLength]
  /\ received = [i \in Streams |-> 0]
  /\ buffs = [i \in Streams |-> [from |-> 0, len |-> 0]]
  /\ bit = StartBit
  /\ out = <<>>
  /\ source = [i \in Streams |-> "open"]
  /\ event = "none"

-------------------------------------------------------------------------------

\* The whole sectors that the two buffers have in common.
WholeSectors(b) ==
  (IF b[0].len < b[1].len THEN b[0].len ELSE b[1].len) \div SectorSize

\* A sector of one of the buffers, as the bitmap says.
SectorFrom(b, offset) ==
  <<mask[bit + offset], b[mask[bit + offset]].from + offset * SectorSize>>

\* Mutation: the buffer that no sector was taken from is not cut.
Rest_OnlyIfUsed(b, sectors) ==
  [i \in Streams |->
     IF \E offset \in 0 .. sectors - 1 : mask[bit + offset] = i
     THEN [from |-> b[i].from + sectors * SectorSize,
           len |-> b[i].len - sectors * SectorSize]
     ELSE b[i]]

\* What stays in the buffers, whichever of the two a sector was taken from.
Rest(b, sectors) ==
  [i \in Streams |-> [from |-> b[i].from + sectors * SectorSize,
                      len |-> b[i].len - sectors * SectorSize]]

\* processBuffers()
ProcessBuffers(b) ==
  LET sectors == WholeSectors(b)
  IN /\ out' = out \o [k \in 1 .. sectors |-> SectorFrom(b, k - 1)]
     /\ bit' = bit + sectors
     /\ buffs' = Rest(b, sectors)

\* Mutation: the new chunk takes the place of what was left of the last one.
Queued_Replaces(i, count) ==
  [buffs EXCEPT ![i] = [from |-> received[i], len |-> count]]

\* The chunk is put behind what was left of the last one.
Queued(i, count) == [buffs EXCEPT ![i].len = @ + count]

\* Mutation: data is emitted after an error too.
IgnoresData_Never == FALSE

IgnoresData == event = "error"

\* onData()
Data(i, count) ==
  /\ source[i] = "open"
  /\ count \in 1 .. length[i] - received[i]
  /\ received' = [received EXCEPT ![i] = @ + count]
  /\ IF IgnoresData THEN UNCHANGED <<buffs, bit, out>>
     ELSE ProcessBuffers(Queued(i, count))
  /\ UNCHANGED <<mask, length, source, event>>

\* Mutation: only the stream that has ended is looked at.
SomethingLeft_OfOne(i) == buffs[i].len > 0

SomethingLeft(i) == buffs[0].len > 0 \/ buffs[1].len > 0

\* Mutation: only the parent's stream ends the merged one.
EndsMerge_IfParent(i) == i = 0 /\ source[1] = "ended"

EndsMerge(i) == source[1 - i] = "ended"

\* onEnd().  The second stream that ends, ends the merged one, unless something
\* is left of either.
SourceEnds(i) ==
  /\ source[i] = "open"
  /\ received[i] = length[i]
  /\ source' = [source EXCEPT ![i] = "ended"]
  /\ event' = IF ~EndsMerge(i) THEN event
              ELSE IF ~SomethingLeft(i) THEN "end"
              ELSE "error"
  /\ UNCHANGED <<mask, length, received, buffs, bit, out>>

\* onError().  A stream that failed emits nothing more.
SourceFails(i) ==
  /\ source[i] = "open"
  /\ source' = [source EXCEPT ![i] = "failed"]
  /\ event' = "error"
  /\ UNCHANGED <<mask, length, received, buffs, bit, out>>

Terminated ==
  /\ \A i \in Streams : source[i] # "open"
  /\ UNCHANGED vars

Source(i) ==
  (\E count \in 1 .. MaxLength : Data(i, count)) \/ SourceEnds(i) \/ SourceFails(i)

Next == (\E i \in Streams : Source(i)) \/ Terminated

\* The file streams go on until they end or fail.
Spec == Init /\ [][Next]_vars /\ \A i \in Streams : WF_vars(Source(i))

-------------------------------------------------------------------------------
(* Properties.                                                              *)

\* However the two streams are cut into chunks: the sectors come out in order,
\* each from the stream that its bit of the bitmap names and from the same
\* position there.
OutputIsMerge ==
  \A k \in 1 .. Len(out) :
    out[k] = <<mask[StartBit + k - 1], (k - 1) * SectorSize>>

\* No sector that both streams have delivered is held back.
NothingHeldBack ==
  event # "error"
    => \E i \in Streams : received[i] < (Len(out) + 1) * SectorSize

\* The merged stream ends only if the two streams were of the same length and
\* all of it was emitted; anything else is an error.
EndMeansComplete ==
  event = "end" => \A i \in Streams : length[i] = Len(out) * SectorSize

\* Once the stream has ended or failed no data follows.
NothingAfterTheEnd == [][event # "none" => out' = out]_vars

\* The merged stream ends or fails: the upload of the block waits for it.
MergeEnds == <>(event # "none")

===============================================================================
