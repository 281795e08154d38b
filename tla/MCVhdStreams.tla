----------------------------- MODULE MCVhdStreams -----------------------------
(***************************************************************************)
(* An instance of StreamMerger and VhdReadStream for TLC.  The two share   *)
(* no state: their steps interleave, and what is checked of either is what *)
(* it does alone.  So that the states of the two need not be multiplied,   *)
(* either the reader has nothing to read or the merger has ended already,  *)
(* after two streams without data.                                         *)
(***************************************************************************)
EXTENDS StreamMerger, VhdReadStream

AllMasks == [0 .. Bits - 1 -> Streams]

\* Nothing but its data counts of a fixed root.
AllRoots == {c \in Chains : c.fixedRoot => DOMAIN c.bitmap[Depth] = {}}

WholeBlocks == {DiskSize}

EmptyChain == [fixedRoot |-> FALSE, bitmap |-> [level \in Levels |-> [b \in {} |-> {}]]]

NothingToRead == chain = EmptyChain

\* A state that StreamMerger reaches: both streams ended at once.
NothingMerged ==
  /\ mask = [b \in 0 .. Bits - 1 |-> 0]
  /\ length = [i \in Streams |-> 0]
  /\ received = [i \in Streams |-> 0]
  /\ buffs = [i \in Streams |-> [from |-> 0, len |-> 0]]
  /\ bit = StartBit
  /\ out = <<>>
  /\ source = [i \in Streams |-> "ended"]
  /\ event = "end"

StreamsInit ==
  \/ Init /\ NothingToRead /\ ReadInit
  \/ NothingMerged /\ ReadInit

StreamsNext ==
  \/ Next /\ UNCHANGED readVars
  \/ ReadNext /\ UNCHANGED vars

\* The fairness is the merger's.
StreamsSpec ==
  /\ StreamsInit /\ [][StreamsNext]_<<vars, readVars>>
  /\ \A i \in Streams : WF_vars(Source(i) /\ UNCHANGED readVars)

===============================================================================
