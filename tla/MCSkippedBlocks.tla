---------------------------- MODULE MCSkippedBlocks -----------------------------
(* Instances of SkippedBlocks for TLC. *)
EXTENDS SkippedBlocks, FiniteSets, SequencesExt

CONSTANT Largest    \* Bound

Precedes(a, b) == a.end < b.start

\* All ways to write a set as intervals, adjacent ones among them.
AllRanges ==
  {SetToSortSeq(s, Precedes) :
     s \in {x \in SUBSET {r \in [start : 0 .. Largest, end : 0 .. Largest] :
                            r.start <= r.end} :
              \A a, b \in x : a = b \/ Precedes(a, b) \/ Precedes(b, a)}}

===============================================================================
