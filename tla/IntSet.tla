-------------------------------- MODULE IntSet --------------------------------
(***************************************************************************)
(* lib/commands/asm/iaas/upload/intSet.js: a set of integers, kept as an   *)
(* array of intervals in ascending order.  An upload keeps the regions of  *)
(* its blob in one, and asks another whether a block is all uploaded.      *)
(*                                                                         *)
(* subtractInterval() goes through the array from its end and changes it   *)
(* on the way: a step of the model is one turn of its loop.  SkippedBlocks *)
(* makes the calls.                                                        *)
(***************************************************************************)
EXTENDS Integers, Sequences

CONSTANTS
  Bound,       \* the integers are 0 .. Bound
  Ranges       \* the arrays of intervals that createIntSet() is given

Intervals == [start : 0 .. Bound, end : 0 .. Bound]

BoundAssumption == Bound \in Nat
\* What createIntSet() accepts, it throws at any other.
RangesAssumption ==
  \A ranges \in Ranges :
    /\ ranges \in Seq(Intervals)
    /\ \A k \in DOMAIN ranges :
         /\ ranges[k].start <= ranges[k].end
         /\ k > 1 => ranges[k].start > ranges[k - 1].end

VARIABLES
  v,
  start, end,   \* the arguments of subtractInterval()
  i             \* the turn of its loop that is due, 0 when it has returned

vars == <<v, start, end, i>>

Init ==
  /\ v \in Ranges
  /\ start = 0 /\ end = 0
  /\ i = 0

-------------------------------------------------------------------------------
\* subtractInterval() is called.
Subtract(from, to) ==
  /\ i = 0
  /\ start' = from /\ end' = to
  /\ i' = Len(v)
  /\ UNCHANGED v

Outside == v[i].start > end \/ v[i].end < start

Before(from) == IF v[i].start < from THEN <<[v[i] EXCEPT !.end = from - 1]>> ELSE <<>>
Behind(to) == IF v[i].end > to THEN <<[v[i] EXCEPT !.start = to + 1]>> ELSE <<>>

\* Mutations: the two parts of a split are swapped; one of them is lost.
Rest_Swapped == Behind(end) \o Before(start)
Rest_FirstPart == IF v[i].start < start THEN Before(start) ELSE Behind(end)

\* What takes the place of v[i]: nothing, its part before or behind the
\* interval, or both of them (a split).
Rest == Before(start) \o Behind(end)

\* v.splice(i, 1, ...)
Spliced(items) == SubSeq(v, 1, i - 1) \o items \o SubSeq(v, i + 1, Len(v))

Turn ==
  /\ i > 0
  /\ v' = IF Outside THEN v ELSE Spliced(Rest)
  /\ i' = i - 1
  /\ UNCHANGED <<start, end>>

-------------------------------------------------------------------------------
(* Properties.                                                              *)

Members == UNION {v[k].start .. v[k].end : k \in DOMAIN v}

\* After every turn the intervals are in order and no two of them meet, as
\* createIntSet() demands of an array: the set shares its array with the
\* list of uploaded regions.
WellFormed ==
  \A k \in DOMAIN v :
    /\ v[k].start <= v[k].end
    /\ k > 1 => v[k].start > v[k - 1].end

\* The set that subtractInterval() leaves, once it has begun.
Denoted == IF i = 0 THEN Members ELSE Members \ (start .. end)

===============================================================================
