------------------------------ MODULE JobTracker ------------------------------
(***************************************************************************)
(* lib/commands/asm/iaas/upload/jobTracker.js: which block a connection    *)
(* uploads next.  Fresh indices are handed out in order; an index whose    *)
(* upload failed is appended to errorList and handed out again once the    *)
(* fresh ones are used up.  The tracker has no state of its own here: it   *)
(* is a record, and every method is an operator on that record.            *)
(***************************************************************************)
EXTENDS Integers, Sequences

CONSTANT IndexCount     \* the argument of getJobTracker()

ASSUME IndexCountAssumption == IndexCount \in Nat \ {0}

Indices == 0 .. IndexCount - 1

\* What JavaScript reads past the end of an array.
Undefined == -1

Tracker == [fullIndex : Int, errorList : Seq(Indices), completed : Nat]

NewTracker == [fullIndex |-> -1, errorList |-> <<>>, completed |-> 0]

\* Position in errorList (counted from 1) that fullIndex stands for.
ErrorPosition(tracker) == tracker.fullIndex - IndexCount + 1

GetIndex(tracker) ==
  IF tracker.fullIndex >= IndexCount
  THEN IF ErrorPosition(tracker) \in DOMAIN tracker.errorList
       THEN tracker.errorList[ErrorPosition(tracker)]
       ELSE Undefined
  ELSE tracker.fullIndex

Advance(tracker) == [tracker EXCEPT !.fullIndex = @ + 1]

\* nextIndex() returns NextIndex(tracker) and leaves AfterNextIndex(tracker).
NextIndex(tracker) == GetIndex(Advance(tracker))

\* Mutation: --fullIndex is forgotten.
AfterNextIndex_NotRolledBack(tracker) == Advance(tracker)

AfterNextIndex(tracker) ==
  IF NextIndex(tracker) = Undefined THEN tracker ELSE Advance(tracker)

IsDone(tracker) == tracker.completed >= IndexCount

MarkDone(tracker) ==
  IF tracker.completed < IndexCount
  THEN [tracker EXCEPT !.completed = @ + 1]
  ELSE tracker

\* Mutations: the index is not kept for a retry; it is retried by stepping back.
MarkError_NotKept(tracker, index) == tracker
MarkError_StepsBack(tracker, index) == [tracker EXCEPT !.fullIndex = @ - 1]

MarkError(tracker, index) ==
  [tracker EXCEPT !.errorList = Append(@, index)]

\* The value error() returns.
ErrorCount(tracker) == Len(tracker.errorList)

\* getErrorRate() > percent / 100, without the division.
ErrorRateAbove(tracker, percent) ==
  100 * ErrorCount(tracker) > percent * (tracker.completed + ErrorCount(tracker))

-------------------------------------------------------------------------------
(* For properties: what the tracker will still hand out.                    *)

Fresh(tracker) == {i \in Indices : i > tracker.fullIndex}

\* Positions in errorList that have not been handed out again.
Pending(tracker) ==
  {k \in DOMAIN tracker.errorList : k > ErrorPosition(tracker)}

Outstanding(tracker) ==
  Fresh(tracker) \cup {tracker.errorList[k] : k \in Pending(tracker)}

===============================================================================
