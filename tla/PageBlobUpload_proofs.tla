------------------------- MODULE PageBlobUpload_proofs -------------------------
(***************************************************************************)
(* For any number of blocks and threads and any options: PageBlobUpload is *)
(* type correct, and it reports a success only when every block is in the  *)
(* blob.  The inductive invariant IInv follows every block from the tracker*)
(* to a request to the blob, and counts the threads that have stopped.     *)
(* The jobTracker enters only through the lemmas on its methods.           *)
(***************************************************************************)
EXTENDS PageBlobUpload, FiniteSetTheorems, TLAPS

-------------------------------------------------------------------------------
(* What the methods of a jobTracker return and preserve.                    *)

\* fullIndex never passes the last index that is still to be handed out.
InRange(jobs) ==
  /\ jobs.fullIndex >= -1
  /\ jobs.fullIndex <= IndexCount - 1 + Len(jobs.errorList)

LEMMA NewTrackerFacts ==
  /\ NewTracker \in Tracker
  /\ InRange(NewTracker)
  /\ Outstanding(NewTracker) = Indices
BY IndexCountAssumption
   DEF NewTracker, Tracker, InRange, Outstanding, Fresh, Pending, Indices

\* nextIndex() returns nothing exactly when nothing is outstanding.
LEMMA NextIndexUndefined ==
  ASSUME NEW jobs \in Tracker, InRange(jobs),
         NextIndex(jobs) = Undefined
  PROVE  /\ AfterNextIndex(jobs) = jobs
         /\ Outstanding(jobs) = {}
         /\ jobs.fullIndex >= IndexCount - 1
<1> DEFINE position == jobs.fullIndex + 1 - IndexCount + 1
<1>1. /\ jobs.fullIndex \in Int /\ jobs.errorList \in Seq(Indices)
      /\ IndexCount \in Nat \ {0}
  BY IndexCountAssumption DEF Tracker
<1>2. /\ Advance(jobs).fullIndex = jobs.fullIndex + 1
      /\ Advance(jobs).errorList = jobs.errorList
  BY DEF Advance, Tracker
<1>3. jobs.fullIndex + 1 >= IndexCount
  BY <1>1, <1>2 DEF NextIndex, GetIndex, Undefined, InRange
<1>4. position \notin DOMAIN jobs.errorList
  <2>1. SUFFICES ASSUME position \in DOMAIN jobs.errorList PROVE FALSE
    OBVIOUS
  <2>2. jobs.errorList[position] \in Indices
    BY <1>1, <2>1
  <2>3. NextIndex(jobs) = jobs.errorList[position]
    BY <1>1, <1>2, <1>3, <2>1 DEF NextIndex, GetIndex, ErrorPosition
  <2>. QED BY <2>2, <2>3 DEF Indices, Undefined
<1>5. position > Len(jobs.errorList)
  BY <1>1, <1>3, <1>4
<1>6. Pending(jobs) = {}
  BY <1>1, <1>5 DEF Pending, ErrorPosition
<1>7. Fresh(jobs) = {}
  BY <1>1, <1>3 DEF Fresh, Indices
<1>8. AfterNextIndex(jobs) = jobs
  BY DEF AfterNextIndex
<1>. QED BY <1>1, <1>3, <1>6, <1>7, <1>8 DEF Outstanding

\* Otherwise it returns an outstanding index, the only one it takes away.
LEMMA NextIndexDefined ==
  ASSUME NEW jobs \in Tracker, InRange(jobs),
         NextIndex(jobs) # Undefined
  PROVE  /\ NextIndex(jobs) \in Indices
         /\ AfterNextIndex(jobs) = Advance(jobs)
         /\ AfterNextIndex(jobs) \in Tracker
         /\ InRange(AfterNextIndex(jobs))
         /\ Outstanding(jobs)
              \subseteq Outstanding(AfterNextIndex(jobs)) \cup {NextIndex(jobs)}
<1> DEFINE position == jobs.fullIndex + 1 - IndexCount + 1
           after == Advance(jobs)
<1>1. /\ jobs.fullIndex \in Int /\ jobs.errorList \in Seq(Indices)
      /\ IndexCount \in Nat \ {0}
  BY IndexCountAssumption DEF Tracker
<1>2. /\ after.fullIndex = jobs.fullIndex + 1
      /\ after.errorList = jobs.errorList
      /\ after \in Tracker
  BY DEF Advance, Tracker
<1>3. AfterNextIndex(jobs) = after
  BY DEF AfterNextIndex
<1>4. CASE jobs.fullIndex + 1 < IndexCount
  <2>1. NextIndex(jobs) = jobs.fullIndex + 1
    BY <1>1, <1>2, <1>4 DEF NextIndex, GetIndex
  <2>2. NextIndex(jobs) \in Indices
    BY <2>1, <1>1, <1>4 DEF Indices, InRange
  <2>3. InRange(after)
    BY <1>1, <1>2, <1>4 DEF InRange
  <2>4. Fresh(jobs) \subseteq Fresh(after) \cup {NextIndex(jobs)}
    BY <2>1, <1>1, <1>2 DEF Fresh, Indices
  <2>5. Pending(jobs) = Pending(after)
    BY <1>1, <1>2, <1>4 DEF Pending, ErrorPosition
  <2>. QED BY <1>2, <1>3, <2>2, <2>3, <2>4, <2>5 DEF Outstanding
<1>5. CASE jobs.fullIndex + 1 >= IndexCount
  <2>1. position \in DOMAIN jobs.errorList
    BY <1>1, <1>2, <1>5 DEF NextIndex, GetIndex, ErrorPosition, Undefined
  <2>2. NextIndex(jobs) = jobs.errorList[position]
    BY <1>1, <1>2, <1>5, <2>1 DEF NextIndex, GetIndex, ErrorPosition
  <2>3. NextIndex(jobs) \in Indices
    BY <1>1, <2>1, <2>2
  <2>4. InRange(after)
    BY <1>1, <1>2, <2>1 DEF InRange
  <2>5. Fresh(jobs) = {}
    BY <1>1, <1>5 DEF Fresh, Indices
  <2>6. Pending(jobs) \subseteq Pending(after) \cup {position}
    BY <1>1, <1>2, <1>5 DEF Pending, ErrorPosition
  <2>. QED BY <1>2, <1>3, <2>2, <2>3, <2>4, <2>5, <2>6 DEF Outstanding
<1>. QED BY <1>1, <1>4, <1>5

\* done() hands nothing out and takes nothing away.
LEMMA MarkDoneFacts ==
  ASSUME NEW jobs \in Tracker
  PROVE  /\ MarkDone(jobs) \in Tracker
         /\ MarkDone(jobs).fullIndex = jobs.fullIndex
         /\ MarkDone(jobs).errorList = jobs.errorList
         /\ Outstanding(MarkDone(jobs)) = Outstanding(jobs)
         /\ InRange(jobs) => InRange(MarkDone(jobs))
         /\ MarkDone(jobs).completed <= jobs.completed + 1
BY IndexCountAssumption
   DEF MarkDone, Tracker, Outstanding, Fresh, Pending, ErrorPosition, InRange

\* error() makes the index outstanding again, and every other one stays so.
LEMMA MarkErrorFacts ==
  ASSUME NEW jobs \in Tracker, InRange(jobs), NEW index \in Indices
  PROVE  /\ MarkError(jobs, index) \in Tracker
         /\ InRange(MarkError(jobs, index))
         /\ MarkError(jobs, index).fullIndex = jobs.fullIndex
         /\ Outstanding(jobs) \cup {index}
              \subseteq Outstanding(MarkError(jobs, index))
<1> DEFINE after == MarkError(jobs, index)
           last == Len(jobs.errorList) + 1
<1>1. /\ jobs.fullIndex \in Int /\ jobs.errorList \in Seq(Indices)
      /\ IndexCount \in Nat \ {0}
  BY IndexCountAssumption DEF Tracker
<1>2. /\ after.fullIndex = jobs.fullIndex
      /\ after.errorList = Append(jobs.errorList, index)
      /\ after \in Tracker
  <2>1. Append(jobs.errorList, index) \in Seq(Indices)
    BY <1>1
  <2>2. after = [jobs EXCEPT !.errorList = Append(jobs.errorList, index)]
    BY Zenon DEF MarkError
  <2>. QED BY <2>1, <2>2 DEF Tracker
<1>3. /\ Len(after.errorList) = last
      /\ after.errorList[last] = index
      /\ \A k \in DOMAIN jobs.errorList :
           k \in DOMAIN after.errorList /\ after.errorList[k] = jobs.errorList[k]
  BY <1>1, <1>2
<1>4. InRange(after)
  BY <1>1, <1>2, <1>3 DEF InRange
<1>5. Fresh(after) = Fresh(jobs)
  BY <1>2 DEF Fresh
<1>6. last \in Pending(after)
  BY <1>1, <1>2, <1>3 DEF Pending, ErrorPosition, InRange
<1>7. Pending(jobs) \subseteq Pending(after)
  BY <1>1, <1>2, <1>3 DEF Pending, ErrorPosition
<1>8. \A k \in Pending(jobs) : after.errorList[k] = jobs.errorList[k]
  BY <1>3 DEF Pending
<1>. QED BY <1>2, <1>3, <1>4, <1>5, <1>6, <1>7, <1>8 DEF Outstanding

-------------------------------------------------------------------------------
(* How many indices are still to be handed out.                             *)

Left(jobs) == Cardinality(Fresh(jobs)) + Cardinality(Pending(jobs))

\* No index is to be retried twice, or retried and handed out for the first time.
NoRepeats(jobs) ==
  \A j \in Pending(jobs) :
    /\ jobs.errorList[j] \notin Fresh(jobs)
    /\ \A k \in Pending(jobs) :
         jobs.errorList[j] = jobs.errorList[k] => j = k

LEMMA OutstandingFinite ==
  ASSUME NEW jobs \in Tracker
  PROVE  /\ IsFiniteSet(Fresh(jobs)) /\ IsFiniteSet(Pending(jobs))
         /\ Cardinality(Fresh(jobs)) \in Nat
         /\ Cardinality(Pending(jobs)) \in Nat
<1>1. IsFiniteSet(Indices)
  BY FS_Interval, IndexCountAssumption DEF Indices
<1>2. Fresh(jobs) \in SUBSET Indices
  BY DEF Fresh
<1>3. IsFiniteSet(1 .. Len(jobs.errorList))
  <2>1. Len(jobs.errorList) \in Int
    BY DEF Tracker
  <2>. QED BY <2>1, FS_Interval
<1>4. Pending(jobs) \in SUBSET (1 .. Len(jobs.errorList))
  <2>1. DOMAIN jobs.errorList = 1 .. Len(jobs.errorList)
    BY DEF Tracker
  <2>. QED BY <2>1 DEF Pending
<1>. QED BY <1>1, <1>2, <1>3, <1>4, FS_Subset, FS_CardinalityType

LEMMA NewTrackerLeft == NoRepeats(NewTracker) /\ Left(NewTracker) = IndexCount
<1>1. Pending(NewTracker) = {}
  BY DEF Pending, NewTracker
<1>2. Fresh(NewTracker) = 0 .. IndexCount - 1
  BY IndexCountAssumption DEF Fresh, NewTracker, Indices
<1>3. Cardinality(0 .. IndexCount - 1) = IndexCount
  BY FS_Interval, IndexCountAssumption
<1>. QED BY <1>1, <1>2, <1>3, FS_EmptySet, IndexCountAssumption DEF NoRepeats, Left

\* nextIndex() takes exactly the index that it returns.
LEMMA NextIndexTakesOne ==
  ASSUME NEW jobs \in Tracker, InRange(jobs), NoRepeats(jobs),
         NextIndex(jobs) # Undefined
  PROVE  /\ NextIndex(jobs) \in Outstanding(jobs)
         /\ Outstanding(Advance(jobs)) = Outstanding(jobs) \ {NextIndex(jobs)}
         /\ NoRepeats(Advance(jobs))
         /\ Left(Advance(jobs)) = Left(jobs) - 1
<1> DEFINE position == jobs.fullIndex + 1 - IndexCount + 1
           after == Advance(jobs)
           index == NextIndex(jobs)
<1>1. /\ jobs.fullIndex \in Int /\ jobs.errorList \in Seq(Indices)
      /\ IndexCount \in Nat \ {0}
  BY IndexCountAssumption DEF Tracker
<1>2. /\ after.fullIndex = jobs.fullIndex + 1
      /\ after.errorList = jobs.errorList
  BY DEF Advance, Tracker
<1>3. CASE jobs.fullIndex + 1 < IndexCount
  <2>1. index = jobs.fullIndex + 1
    BY <1>1, <1>2, <1>3 DEF NextIndex, GetIndex
  <2>2. index \in Fresh(jobs) /\ Fresh(after) = Fresh(jobs) \ {index}
    BY <2>1, <1>1, <1>2, <1>3 DEF Fresh, Indices, InRange
  <2>3. Pending(after) = Pending(jobs)
    BY <1>1, <1>2, <1>3 DEF Pending, ErrorPosition
  <2>4. Left(after) = Left(jobs) - 1
    <3>1. Cardinality(Fresh(after)) = Cardinality(Fresh(jobs)) - 1
      BY <2>2, OutstandingFinite, FS_RemoveElement
    <3>. QED BY <2>3, <3>1, OutstandingFinite DEF Left
  <2>5. NoRepeats(after)
    BY <2>2, <2>3, <1>2 DEF NoRepeats
  <2>6. \A k \in Pending(jobs) : jobs.errorList[k] # index
    BY <2>2 DEF NoRepeats
  <2>. QED BY <1>2, <2>2, <2>3, <2>4, <2>5, <2>6 DEF Outstanding
<1>4. CASE jobs.fullIndex + 1 >= IndexCount
  <2>1. position \in DOMAIN jobs.errorList
    BY <1>1, <1>2, <1>4 DEF NextIndex, GetIndex, ErrorPosition, Undefined
  <2>2. index = jobs.errorList[position]
    BY <1>1, <1>2, <1>4, <2>1 DEF NextIndex, GetIndex, ErrorPosition
  <2>3. Fresh(jobs) = {} /\ Fresh(after) = {}
    BY <1>1, <1>2, <1>4 DEF Fresh, Indices
  <2>4. /\ position \in Pending(jobs)
        /\ Pending(after) = Pending(jobs) \ {position}
    BY <1>1, <1>2, <2>1 DEF Pending, ErrorPosition
  <2>5. Left(after) = Left(jobs) - 1
    <3>0. PICK k \in Pending(jobs) : Pending(after) = Pending(jobs) \ {k}
      BY <2>4
    <3>1. Cardinality(Pending(after)) = Cardinality(Pending(jobs)) - 1
      BY <3>0, OutstandingFinite, FS_RemoveElement
    <3>2. Cardinality(Fresh(after)) = Cardinality(Fresh(jobs))
      BY <2>3
    <3>. QED BY <3>1, <3>2, OutstandingFinite DEF Left
  <2>6. NoRepeats(after)
    BY <2>3, <2>4, <1>2 DEF NoRepeats
  <2>7. \A k \in Pending(after) : jobs.errorList[k] # index
    BY <2>2, <2>4 DEF NoRepeats
  <2>. QED BY <1>2, <2>2, <2>3, <2>4, <2>5, <2>6, <2>7 DEF Outstanding
<1>. QED BY <1>1, <1>3, <1>4

\* error() adds one index, if that one was not to be handed out anyway.
LEMMA MarkErrorAddsOne ==
  ASSUME NEW jobs \in Tracker, InRange(jobs), NoRepeats(jobs),
         NEW index \in Indices, index \notin Outstanding(jobs)
  PROVE  /\ Outstanding(MarkError(jobs, index)) = Outstanding(jobs) \cup {index}
         /\ NoRepeats(MarkError(jobs, index))
         /\ Left(MarkError(jobs, index)) = Left(jobs) + 1
         /\ MarkError(jobs, index).completed = jobs.completed
<1> DEFINE after == MarkError(jobs, index)
           last == Len(jobs.errorList) + 1
<1>1. /\ jobs.fullIndex \in Int /\ jobs.errorList \in Seq(Indices)
      /\ IndexCount \in Nat \ {0}
  BY IndexCountAssumption DEF Tracker
<1>2. /\ after.fullIndex = jobs.fullIndex
      /\ after.completed = jobs.completed
      /\ after.errorList = Append(jobs.errorList, index)
  <2>1. after = [jobs EXCEPT !.errorList = Append(jobs.errorList, index)]
    BY Zenon DEF MarkError
  <2>. QED BY <2>1 DEF Tracker
<1>3. /\ DOMAIN after.errorList = DOMAIN jobs.errorList \cup {last}
      /\ last \notin DOMAIN jobs.errorList /\ last \in Int
      /\ after.errorList[last] = index
      /\ \A k \in DOMAIN jobs.errorList : after.errorList[k] = jobs.errorList[k]
  BY <1>1, <1>2
<1>4. Fresh(after) = Fresh(jobs)
  BY <1>2 DEF Fresh
<1>5. /\ Pending(after) = Pending(jobs) \cup {last}
      /\ last \notin Pending(jobs)
  BY <1>1, <1>2, <1>3 DEF Pending, ErrorPosition, InRange
<1>6. \A k \in Pending(jobs) : after.errorList[k] = jobs.errorList[k]
  BY <1>3 DEF Pending
<1>7. Left(after) = Left(jobs) + 1
  <2>1. Cardinality(Pending(after)) = Cardinality(Pending(jobs)) + 1
    BY <1>5, OutstandingFinite, FS_AddElement
  <2>. QED BY <1>4, <2>1, OutstandingFinite DEF Left
<1>8. NoRepeats(after)
  <2>1. index \notin Fresh(jobs)
    BY DEF Outstanding
  <2>2. \A k \in Pending(jobs) : jobs.errorList[k] # index
    BY DEF Outstanding
  <2>. QED BY <1>3, <1>4, <1>5, <1>6, <2>1, <2>2 DEF NoRepeats
<1>9. Outstanding(after) = Outstanding(jobs) \cup {index}
  BY <1>3, <1>4, <1>5, <1>6 DEF Outstanding
<1>. QED BY <1>2, <1>7, <1>8, <1>9

-------------------------------------------------------------------------------
(* What the operations of an aggregator preserve.                           *)

LEMMA NewAggregatorFacts ==
  ASSUME NEW Keys
  PROVE  NewAggregator \in Aggregators(Keys) /\ NewAggregator.finished = {}
BY DEF NewAggregator, Aggregators

\* Registering a key finishes none.
LEMMA GetCallbackFacts ==
  ASSUME NEW Keys, NEW agg \in Aggregators(Keys), NEW key \in Keys
  PROVE  /\ GetCallback(agg, key) \in Aggregators(Keys)
         /\ GetCallback(agg, key).finished = agg.finished
<1>1. CASE agg.done \/ key \in agg.finished
  <2>1. GetCallback(agg, key) = agg
    BY <1>1 DEF GetCallback
  <2>. QED BY <2>1
<1>2. CASE ~(agg.done \/ key \in agg.finished)
  <2>1. GetCallback(agg, key) = [agg EXCEPT !.registered = @ \cup {key}]
    BY <1>2 DEF GetCallback
  <2>. QED BY <2>1 DEF Aggregators
<1>. QED BY <1>1, <1>2

\* A callback finishes its own key and no other one.
LEMMA CallFacts ==
  ASSUME NEW Keys, NEW agg \in Aggregators(Keys), NEW key \in Keys,
         NEW error \in BOOLEAN
  PROVE  /\ Call(agg, key, error) \in Aggregators(Keys)
         /\ Call(agg, key, error).finished = agg.finished \cup {key}
<1>1. CallsFinal(agg, key, error) \in BOOLEAN
  BY DEF CallsFinal
<1>2. /\ Finish(agg, key) \in Aggregators(Keys)
      /\ Finish(agg, key).finished = agg.finished \cup {key}
  BY DEF Finish, Aggregators
<1>3. Call(agg, key, error) =
        [Finish(agg, key) EXCEPT
           !.isErrorState = Finish(agg, key).isErrorState \/ error,
           !.done = Finish(agg, key).done \/ CallsFinal(agg, key, error)]
  BY DEF Call
<1>4. /\ Finish(agg, key).isErrorState \/ error \in BOOLEAN
      /\ Finish(agg, key).done \/ CallsFinal(agg, key, error) \in BOOLEAN
  BY <1>1, <1>2 DEF Aggregators
<1>. QED BY <1>2, <1>3, <1>4 DEF Aggregators

-------------------------------------------------------------------------------
(* The invariants.                                                          *)

StoppedThreads == {t \in ThreadIds : state[t] \in Stopped}

AllUploaded == Blocks \subseteq pages \cup nothingToDo

ThreadInv ==
  \A t \in ThreadIds :
    /\ state[t] = "new" <=> t >= runningThreads
    /\ state[t] # "left"
    /\ state[t] = "request" => inFlight[t] \in Indices

CountInv == doneThreads = Cardinality(StoppedThreads)

PhaseInv ==
  /\ phase = "running" => runningThreads = NumThreads
  /\ phase \in {"detecting", "failed"} => runningThreads = 0
  /\ phase # "running" => /\ tracker.fullIndex = runningThreads - 1
                          /\ tracker.completed <= runningThreads
                          /\ StoppedThreads = {}

ExitInv == exiting => StoppedThreads = ThreadIds

\* Every block is still to be handed out, or requested, or in the blob.
Coverage ==
  \A i \in Indices :
    \/ i \in Outstanding(tracker)
    \/ i \in Requested
    \/ BlockOf(i) \in pages \cup nothingToDo

ReportInv ==
  /\ "upload" \in md5Agg.finished => AllUploaded
  /\ Succeeded => AllUploaded

IInv ==
  /\ TypeOK
  /\ InRange(tracker)
  /\ ThreadInv
  /\ CountInv
  /\ PhaseInv
  /\ ExitInv
  /\ Coverage
  /\ ReportInv

-------------------------------------------------------------------------------
(* The constants.                                                           *)

LEMMA NumThreadsFacts ==
  /\ NumThreads \in Nat \ {0}
  /\ NumThreads <= IndexCount
  /\ IsFiniteSet(ThreadIds)
  /\ Cardinality(ThreadIds) = NumThreads
<1>1. NumThreads \in Nat \ {0} /\ NumThreads <= IndexCount
  BY IndexCountAssumption, ThreadsAssumption DEF NumThreads
<1>. QED BY <1>1, FS_Interval DEF ThreadIds

\* Every block has one index, whichever order the blocks are sent in.
LEMMA BlockOfOnto ==
  /\ \A i \in Indices : BlockOf(i) \in Blocks
  /\ \A b \in Blocks : \E i \in Indices : BlockOf(i) = b
<1>1. \A i \in Indices : BlockOf(i) \in Blocks
  BY IndexCountAssumption DEF BlockOf, Blocks, Indices, Footer
<1>2. ASSUME NEW b \in Blocks PROVE \E i \in Indices : BlockOf(i) = b
  <2>1. CASE b = Footer
    <3>1. 0 \in Indices /\ BlockOf(0) = b
      BY <2>1, IndexCountAssumption DEF BlockOf, Indices
    <3>. QED BY <3>1
  <2>2. CASE b # Footer
    <3>1. b + 1 \in Indices /\ BlockOf(b + 1) = b
      BY <2>2, IndexCountAssumption DEF BlockOf, Blocks, Indices, Footer
    <3>. QED BY <3>1
  <2>. QED BY <2>1, <2>2
<1>. QED BY <1>1, <1>2

-------------------------------------------------------------------------------
(* Counting the threads that have stopped.                                  *)

LEMMA StoppedThreadsFinite ==
  /\ IsFiniteSet(StoppedThreads)
  /\ Cardinality(StoppedThreads) \in Nat
  /\ Cardinality(StoppedThreads) <= NumThreads
  /\ Cardinality(StoppedThreads) = NumThreads => StoppedThreads = ThreadIds
<1>1. StoppedThreads \in SUBSET ThreadIds
  BY DEF StoppedThreads
<1>. QED BY <1>1, NumThreadsFacts, FS_Subset, FS_CardinalityType

\* A thread stops: doneThreads keeps its meaning, and reaches NumThreads
\* exactly when no thread is left.
LEMMA ThreadStops ==
  ASSUME TypeOK, CountInv, NEW t \in ThreadIds, NEW s \in Stopped,
         state[t] \notin Stopped,
         state' = [state EXCEPT ![t] = s],
         doneThreads' = doneThreads + 1
  PROVE  /\ StoppedThreads' = StoppedThreads \cup {t}
         /\ CountInv'
         /\ doneThreads' \in 0 .. NumThreads
         /\ doneThreads' = NumThreads => StoppedThreads' = ThreadIds
<1>1. StoppedThreads' = StoppedThreads \cup {t}
  BY DEF TypeOK, StoppedThreads
<1>2. t \notin StoppedThreads
  BY DEF StoppedThreads
<1>3. Cardinality(StoppedThreads') = Cardinality(StoppedThreads) + 1
  BY <1>1, <1>2, StoppedThreadsFinite, FS_AddElement
<1>4. CountInv'
  BY <1>3 DEF CountInv
<1>5. StoppedThreads' \in SUBSET ThreadIds
  BY <1>1 DEF StoppedThreads
<1>6. /\ Cardinality(StoppedThreads') \in Nat
      /\ Cardinality(StoppedThreads') <= NumThreads
      /\ Cardinality(StoppedThreads') = NumThreads => StoppedThreads' = ThreadIds
  BY <1>5, NumThreadsFacts, FS_Subset, FS_CardinalityType
<1>. QED BY <1>1, <1>4, <1>6, NumThreadsFacts DEF CountInv

LEMMA ThreadGoesOn ==
  ASSUME TypeOK, NEW t \in ThreadIds, NEW s \in ThreadStates \ Stopped,
         state[t] \notin Stopped,
         state' = [state EXCEPT ![t] = s]
  PROVE  StoppedThreads' = StoppedThreads
BY DEF TypeOK, StoppedThreads

\* Nothing to hand out and no thread at work: the blob is complete.
LEMMA NothingLeft ==
  ASSUME Coverage, Outstanding(tracker) = {}, StoppedThreads' = ThreadIds,
         NEW t \in ThreadIds, state[t] # "request",
         \A u \in ThreadIds \ {t} : state'[u] = state[u]
  PROVE  AllUploaded
<1>1. Requested = {}
  BY DEF Requested, StoppedThreads, Stopped
<1>2. \A i \in Indices : BlockOf(i) \in pages \cup nothingToDo
  BY <1>1 DEF Coverage
<1>. QED BY <1>2, BlockOfOnto DEF AllUploaded

-------------------------------------------------------------------------------
(* The invariant holds initially, and each action preserves it.             *)

LEMMA InitIInv == Init => IInv
<1> SUFFICES ASSUME Init PROVE IInv
  OBVIOUS
<1>1. /\ StoppedThreads = {}
      /\ Cardinality(StoppedThreads) = 0
  BY FS_EmptySet DEF Init, StoppedThreads, Stopped
<1>2. md5Agg \in Aggregators({"upload", "md5"}) /\ md5Agg.finished = {}
  <2> DEFINE upload == GetCallback(NewAggregator, "upload")
  <2>1. upload \in Aggregators({"upload", "md5"}) /\ upload.finished = {}
    BY NewAggregatorFacts, GetCallbackFacts
  <2>2. /\ GetCallback(upload, "md5") \in Aggregators({"upload", "md5"})
        /\ GetCallback(upload, "md5").finished = {}
    BY <2>1, GetCallbackFacts
  <2>. QED BY <2>1, <2>2 DEF Init
<1>3. TypeOK
  <2>1. calls \in Seq(Outcomes)
    BY DEF Init
  <2>2. state \in [ThreadIds -> ThreadStates]
    BY DEF Init, ThreadStates
  <2>3. inFlight \in [ThreadIds -> Indices \cup {Undefined}]
    BY DEF Init
  <2>4. /\ runningThreads \in 0 .. NumThreads /\ doneThreads \in 0 .. NumThreads
        /\ alreadyDone \in Nat
    BY NumThreadsFacts DEF Init
  <2>5. /\ phase \in {"detecting", "starting", "running", "failed"}
        /\ md5 \in Md5States
    BY DEF Init, Md5States
  <2>6. /\ options \in OptionSpace /\ nothingToDo \subseteq Blocks
        /\ pages \subseteq Blocks /\ tracker \in Tracker
        /\ wasIdle \in BOOLEAN /\ exiting \in BOOLEAN
        /\ alreadyExisted \in BOOLEAN /\ exitPending \in BOOLEAN
        /\ alive \in BOOLEAN
    BY NewTrackerFacts DEF Init
  <2>. QED BY <1>2, <2>1, <2>2, <2>3, <2>4, <2>5, <2>6 DEF TypeOK
<1>4. ThreadInv
  BY NumThreadsFacts DEF Init, ThreadInv, ThreadIds
<1>5. CountInv
  BY <1>1 DEF Init, CountInv
<1>6. PhaseInv
  BY <1>1 DEF Init, PhaseInv, NewTracker
<1>7. Coverage
  BY NewTrackerFacts DEF Init, Coverage
<1>8. ReportInv
  BY <1>2 DEF Init, ReportInv, Succeeded
<1>. QED BY <1>3, <1>4, <1>5, <1>6, <1>7, <1>8, NewTrackerFacts
        DEF Init, IInv, ExitInv

\* Actions that leave the threads and the tracker alone.
LEMMA ThreadsUntouched ==
  ASSUME IInv, UNCHANGED <<options, nothingToDo, pages, uploadVars, exiting>>
  PROVE  /\ InRange(tracker)' /\ ThreadInv' /\ CountInv' /\ ExitInv' /\ Coverage'
         /\ AllUploaded' = AllUploaded /\ StoppedThreads' = StoppedThreads
BY DEF IInv, uploadVars, InRange, ThreadInv, CountInv, ExitInv, Coverage,
       AllUploaded, StoppedThreads, Outstanding, Fresh, Pending,
       ErrorPosition, Requested

LEMMA StepNonZeroBlocksFound == IInv /\ NonZeroBlocksFound => IInv'
<1> SUFFICES ASSUME IInv, NonZeroBlocksFound PROVE IInv'
  OBVIOUS
<1>1. UNCHANGED <<options, nothingToDo, pages, uploadVars, exiting>>
  BY DEF NonZeroBlocksFound
<1>2. TypeOK'
  BY DEF IInv, NonZeroBlocksFound, TypeOK, uploadVars, md5Vars, reportVars
<1>3. PhaseInv'
  BY <1>1, ThreadsUntouched DEF IInv, PhaseInv, NonZeroBlocksFound, uploadVars
<1>4. ReportInv'
  BY <1>1, ThreadsUntouched
     DEF IInv, ReportInv, NonZeroBlocksFound, md5Vars, reportVars, Succeeded
<1>. QED BY <1>1, <1>2, <1>3, <1>4, ThreadsUntouched DEF IInv

LEMMA StepThreadsStarted == IInv /\ ThreadsStarted => IInv'
<1> SUFFICES ASSUME IInv, ThreadsStarted PROVE IInv'
  OBVIOUS
<1>1. UNCHANGED <<options, nothingToDo, pages, uploadVars, exiting>>
  BY DEF ThreadsStarted
<1>2. TypeOK'
  BY DEF IInv, ThreadsStarted, TypeOK, uploadVars, md5Vars, reportVars
<1>3. runningThreads = NumThreads
  BY NumThreadsFacts, IndexCountAssumption
     DEF IInv, PhaseInv, ThreadsStarted, IsDone, TypeOK, Tracker
<1>4. PhaseInv'
  BY <1>1, <1>3 DEF PhaseInv, ThreadsStarted, uploadVars
<1>5. ReportInv'
  BY <1>1, ThreadsUntouched
     DEF IInv, ReportInv, ThreadsStarted, md5Vars, reportVars, Succeeded
<1>. QED BY <1>1, <1>2, <1>4, <1>5, ThreadsUntouched DEF IInv

\* A failure that is reported is not a success.
LEMMA ReportErrorFacts ==
  ASSUME TypeOK, ReportError
  PROVE  /\ calls' \in Seq(Outcomes) /\ exitPending' \in BOOLEAN
         /\ options' = options => alive' \in BOOLEAN
         /\ Succeeded' => Succeeded
<1>1. calls \in Seq(Outcomes) /\ calls' = Append(calls, "failed")
  BY DEF TypeOK, ReportError
<1>2. "failed" \in Outcomes
  BY DEF Outcomes
<1>3. calls' \in Seq(Outcomes)
  BY <1>1, <1>2
<1>4. ASSUME NEW i \in DOMAIN calls', calls'[i] \in {"uploaded", "existed"}
      PROVE  i \in DOMAIN calls /\ calls'[i] = calls[i]
  BY <1>1, <1>2, <1>4
<1>5. Succeeded' => Succeeded
  BY <1>4 DEF Succeeded
<1>. QED BY <1>3, <1>5, OptionSpaceAssumption DEF TypeOK, ReportError, Options

LEMMA CallBackSuccessFacts ==
  ASSUME TypeOK, NEW existed \in BOOLEAN, CallBackSuccess(existed)
  PROVE  calls' \in Seq(Outcomes) /\ exitPending' \in BOOLEAN /\ alive' \in BOOLEAN
<1>1. (IF existed THEN "existed" ELSE "uploaded") \in Outcomes
  BY DEF Outcomes
<1>2. calls' \in Seq(Outcomes)
  BY <1>1 DEF TypeOK, CallBackSuccess
<1>. QED BY <1>2 DEF TypeOK, CallBackSuccess

LEMMA StepFindNonZeroBlocksFails == IInv /\ FindNonZeroBlocksFails => IInv'
<1> SUFFICES ASSUME IInv, FindNonZeroBlocksFails PROVE IInv'
  OBVIOUS
<1>1. UNCHANGED <<options, nothingToDo, pages, uploadVars, exiting>>
  BY DEF FindNonZeroBlocksFails
<1>2. TypeOK'
  BY ReportErrorFacts
     DEF IInv, FindNonZeroBlocksFails, TypeOK, uploadVars, md5Vars
<1>3. PhaseInv'
  BY <1>1, ThreadsUntouched DEF IInv, PhaseInv, FindNonZeroBlocksFails, uploadVars
<1>4. ReportInv'
  BY <1>1, ThreadsUntouched, ReportErrorFacts
     DEF IInv, ReportInv, FindNonZeroBlocksFails, md5Vars
<1>. QED BY <1>1, <1>2, <1>3, <1>4, ThreadsUntouched DEF IInv

LEMMA StepProcessExits == IInv /\ ProcessExits => IInv'
<1> SUFFICES ASSUME IInv, ProcessExits PROVE IInv'
  OBVIOUS
<1>1. UNCHANGED <<options, nothingToDo, pages, uploadVars, exiting>>
  BY DEF ProcessExits
<1>2. TypeOK'
  BY DEF IInv, ProcessExits, TypeOK, uploadVars, md5Vars
<1>3. PhaseInv'
  BY <1>1, ThreadsUntouched DEF IInv, PhaseInv, ProcessExits, uploadVars
<1>4. ReportInv'
  BY <1>1, ThreadsUntouched
     DEF IInv, ReportInv, ProcessExits, md5Vars, Succeeded
<1>. QED BY <1>1, <1>2, <1>3, <1>4, ThreadsUntouched DEF IInv

-------------------------------------------------------------------------------
(* next(), called by startThreads() or by setImmediate().                   *)

NextCalled(t) == StartThread(t) \/ RunNext(t)

\* The thread is at work, so the upload has not been given up; and while the
\* threads are being started each of them gets a fresh index.
LEMMA NextCalledFacts ==
  ASSUME IInv, NEW t \in ThreadIds, NextCalled(t)
  PROVE  /\ NextBlock(t)
         /\ UNCHANGED <<options, nothingToDo, phase, exiting, md5>>
         /\ state[t] \in {"new", "next"} /\ state[t] \notin Stopped
         /\ exiting = FALSE
         /\ runningThreads' \in 0 .. NumThreads
         /\ phase # "starting" => /\ phase = "running"
                                  /\ runningThreads' = NumThreads
         /\ phase = "starting" => /\ t = runningThreads
                                  /\ runningThreads' = runningThreads + 1
                                  /\ NextIndex(tracker) = tracker.fullIndex + 1
                                  /\ NextIndex(tracker) # Undefined
         /\ \A u \in ThreadIds \ {t} : u >= runningThreads <=> u >= runningThreads'
         /\ t < runningThreads'
<1>1. CASE StartThread(t)
  <2>1. /\ phase = "starting" /\ t = runningThreads
        /\ runningThreads' = runningThreads + 1
        /\ runningThreads \in 0 .. NumThreads
        /\ NumThreads \in Nat \ {0} /\ NumThreads <= IndexCount
        /\ runningThreads < NumThreads
    BY <1>1, NumThreadsFacts DEF StartThread, IInv, TypeOK, ThreadIds
  <2>2. state[t] = "new"
    BY <2>1 DEF IInv, ThreadInv
  <2>3. exiting = FALSE
    BY <2>2 DEF IInv, ExitInv, TypeOK, StoppedThreads, Stopped
  <2>4. tracker.fullIndex = runningThreads - 1
    BY <2>1 DEF IInv, PhaseInv
  <2>5. Advance(tracker).fullIndex = tracker.fullIndex + 1
    BY DEF Advance, IInv, TypeOK, Tracker
  <2>6. NextIndex(tracker) = tracker.fullIndex + 1
    BY <2>1, <2>4, <2>5, IndexCountAssumption DEF NextIndex, GetIndex
  <2>7. NextIndex(tracker) # Undefined
    BY <2>1, <2>4, <2>6 DEF Undefined
  <2>. QED BY <1>1, <2>1, <2>2, <2>3, <2>6, <2>7
          DEF StartThread, Stopped, ThreadIds
<1>2. CASE RunNext(t)
  <2>1. state[t] = "next" /\ phase # "starting" /\ runningThreads' = runningThreads
    BY <1>2 DEF RunNext, EventLoop
  <2>2. exiting = FALSE
    BY <2>1 DEF IInv, ExitInv, TypeOK, StoppedThreads, Stopped
  <2>3. t < runningThreads
    BY <2>1 DEF IInv, ThreadInv, TypeOK, ThreadIds
  <2>4. phase = "running" /\ runningThreads = NumThreads
    BY <2>1, <2>3 DEF IInv, PhaseInv, TypeOK, ThreadIds
  <2>. QED BY <1>2, <2>1, <2>2, <2>3, <2>4
          DEF RunNext, Stopped, IInv, TypeOK
<1>. QED BY <1>1, <1>2 DEF NextCalled

\* Whatever state the thread is left in, the other threads keep theirs.
LEMMA NextCalledThreads ==
  ASSUME IInv, NEW t \in ThreadIds, NextCalled(t),
         NEW s \in ThreadStates \ {"new", "left"},
         state' = [state EXCEPT ![t] = s],
         \/ inFlight' = inFlight /\ s # "request"
         \/ \E i \in Indices : inFlight' = [inFlight EXCEPT ![t] = i]
  PROVE  ThreadInv'
<1> SUFFICES ASSUME NEW u \in ThreadIds
             PROVE  /\ state'[u] = "new" <=> u >= runningThreads'
                    /\ state'[u] # "left"
                    /\ state'[u] = "request" => inFlight'[u] \in Indices
  BY DEF ThreadInv
<1>1. CASE u = t
  <2>1. state'[u] = s
    BY <1>1 DEF IInv, TypeOK
  <2>2. ~(u >= runningThreads')
    <3>1. t < runningThreads' /\ runningThreads' \in 0 .. NumThreads
      BY NextCalledFacts
    <3>2. t \in Int /\ runningThreads' \in Int
      BY <3>1, NumThreadsFacts DEF ThreadIds
    <3>. QED BY <1>1, <3>1, <3>2
  <2>3. s = "request" => inFlight'[u] \in Indices
    <3>1. inFlight \in [ThreadIds -> Indices \cup {Undefined}]
      BY DEF IInv, TypeOK
    <3>. QED BY <1>1, <3>1
  <2>. QED BY <2>1, <2>2, <2>3
<1>2. CASE u # t
  <2>1. /\ state \in [ThreadIds -> ThreadStates]
        /\ inFlight \in [ThreadIds -> Indices \cup {Undefined}]
    BY DEF IInv, TypeOK
  <2>2. state'[u] = state[u] /\ inFlight'[u] = inFlight[u]
    BY <1>2, <2>1
  <2>3. u >= runningThreads <=> u >= runningThreads'
    BY <1>2, NextCalledFacts
  <2>. QED BY <2>2, <2>3 DEF IInv, ThreadInv
<1>. QED BY <1>1, <1>2

LEMMA StepGoIdle ==
  ASSUME IInv, NEW t \in ThreadIds, NextCalled(t), GoIdle(t)
  PROVE  IInv'
<1>1. /\ state' = [state EXCEPT ![t] = "idle"] /\ doneThreads' = doneThreads + 1
      /\ NextIndex(tracker) = Undefined /\ tracker' = tracker
      /\ UNCHANGED <<pages, inFlight, alreadyDone>> /\ wasIdle' = TRUE
  BY NextIndexUndefined DEF GoIdle, IInv, TypeOK
<1>2. phase = "running" /\ runningThreads' = NumThreads
  BY <1>1, NextCalledFacts
<1>3. /\ StoppedThreads' = StoppedThreads \cup {t}
      /\ CountInv'
      /\ doneThreads' \in 0 .. NumThreads
      /\ doneThreads' = NumThreads => StoppedThreads' = ThreadIds
  BY <1>1, NextCalledFacts, ThreadStops DEF IInv, Stopped
<1>4. ASSUME doneThreads' = runningThreads' PROVE AllUploaded
  <2>1. Outstanding(tracker) = {}
    BY <1>1, NextIndexUndefined DEF IInv, TypeOK
  <2>2. \A u \in ThreadIds \ {t} : state'[u] = state[u]
    BY <1>1 DEF IInv, TypeOK
  <2>3. StoppedThreads' = ThreadIds
    BY <1>2, <1>3, <1>4
  <2>4. state[t] # "request"
    BY NextCalledFacts
  <2>. QED BY <2>1, <2>2, <2>3, <2>4, NothingLeft DEF IInv
<1>5. /\ alreadyExisted' \in BOOLEAN
      /\ md5Agg' \in Aggregators({"upload", "md5"})
      /\ calls' \in Seq(Outcomes) /\ exitPending' \in BOOLEAN /\ alive' \in BOOLEAN
      /\ ReportInv'
  <2>0. AllUploaded' = AllUploaded
    BY <1>1, NextCalledFacts DEF AllUploaded
  <2>1. CASE doneThreads' = runningThreads'
    <3>1. AllUploaded' /\ UploadFinished
      BY <1>4, <2>0, <2>1 DEF GoIdle
    <3>2. /\ alreadyExisted' \in BOOLEAN
          /\ md5Agg' \in Aggregators({"upload", "md5"})
      BY <3>1, CallFacts DEF UploadFinished, NothingSent, IInv, TypeOK
    <3>3. /\ calls' \in Seq(Outcomes) /\ exitPending' \in BOOLEAN
          /\ alive' \in BOOLEAN
      BY <3>1, <3>2, CallBackSuccessFacts
         DEF UploadFinished, reportVars, IInv, TypeOK
    <3>. QED BY <3>1, <3>2, <3>3 DEF ReportInv
  <2>2. CASE doneThreads' # runningThreads'
    <3>1. UNCHANGED <<alreadyExisted, md5Agg, calls, exitPending, alive>>
      BY <2>2 DEF GoIdle, reportVars
    <3>. QED BY <3>1, <2>0 DEF IInv, TypeOK, ReportInv, Succeeded
  <2>. QED BY <2>1, <2>2
<1>6. TypeOK'
  <2>1. state' \in [ThreadIds -> ThreadStates]
    BY <1>1 DEF IInv, TypeOK, ThreadStates
  <2>. QED BY <2>1, <1>1, <1>3, <1>5, NextCalledFacts DEF IInv, TypeOK
<1>7. ThreadInv'
  BY <1>1, NextCalledThreads DEF ThreadStates
<1>8. PhaseInv'
  BY <1>2, NextCalledFacts DEF PhaseInv
<1>9. ExitInv' /\ InRange(tracker)'
  BY <1>1, NextCalledFacts DEF IInv, ExitInv, InRange
<1>10. Coverage'
  <2>1. Requested \subseteq Requested'
    BY <1>1, NextCalledFacts DEF Requested, IInv, TypeOK
  <2>2. /\ Outstanding(tracker)' = Outstanding(tracker)
        /\ pages' = pages /\ nothingToDo' = nothingToDo
    BY <1>1, NextCalledFacts DEF Outstanding, Fresh, Pending, ErrorPosition
  <2>. QED BY <2>1, <2>2 DEF IInv, Coverage
<1>. QED BY <1>3, <1>5, <1>6, <1>7, <1>8, <1>9, <1>10 DEF IInv

LEMMA StepSkipBlock ==
  ASSUME IInv, NEW t \in ThreadIds, NextCalled(t), SkipBlock(t)
  PROVE  IInv'
<1> DEFINE index == NextIndex(tracker)
           after == AfterNextIndex(tracker)
<1>0. /\ UNCHANGED <<options, nothingToDo, phase, exiting, md5>>
      /\ runningThreads' \in 0 .. NumThreads
      /\ phase # "starting" => phase = "running" /\ runningThreads' = NumThreads
      /\ phase = "starting" => runningThreads' = runningThreads + 1
      /\ state[t] \in {"new", "next"}
  BY NextCalledFacts
<1>1. /\ index # Undefined /\ BlockOf(index) \in nothingToDo
      /\ alreadyDone' = alreadyDone + 1 /\ tracker' = MarkDone(after)
      /\ state' = [state EXCEPT ![t] = "next"]
      /\ UNCHANGED <<pages, inFlight, doneThreads, wasIdle, alreadyExisted,
                     md5Agg, calls, exitPending, alive>>
  BY DEF SkipBlock, reportVars
<1>2. /\ index \in Indices /\ after = Advance(tracker) /\ after \in Tracker
      /\ InRange(after) /\ Outstanding(tracker) \subseteq Outstanding(after) \cup {index}
  BY <1>1, NextIndexDefined DEF IInv, TypeOK
<1>3. /\ tracker' \in Tracker /\ InRange(tracker)'
      /\ Outstanding(tracker) \subseteq Outstanding(tracker)' \cup {index}
      /\ tracker'.fullIndex = tracker.fullIndex + 1
      /\ tracker'.completed <= tracker.completed + 1
  <2>1. after.fullIndex = tracker.fullIndex + 1 /\ after.completed = tracker.completed
    BY <1>2 DEF Advance, IInv, TypeOK, Tracker
  <2>2. /\ MarkDone(after) \in Tracker /\ InRange(MarkDone(after))
        /\ MarkDone(after).fullIndex = after.fullIndex
        /\ Outstanding(MarkDone(after)) = Outstanding(after)
        /\ MarkDone(after).completed <= after.completed + 1
    BY <1>2, MarkDoneFacts
  <2>3. Outstanding(tracker)' = Outstanding(MarkDone(after))
    BY <1>1 DEF Outstanding, Fresh, Pending, ErrorPosition
  <2>. QED BY <1>1, <1>2, <2>1, <2>2, <2>3 DEF InRange
<1>4. StoppedThreads' = StoppedThreads
  BY <1>1, NextCalledFacts, ThreadGoesOn DEF IInv, ThreadStates, Stopped
<1>5. TypeOK'
  <2>1. state' \in [ThreadIds -> ThreadStates]
    BY <1>1 DEF IInv, TypeOK, ThreadStates
  <2>2. alreadyDone' \in Nat
    BY <1>1 DEF IInv, TypeOK
  <2>. QED BY <2>1, <2>2, <1>0, <1>1, <1>3 DEF IInv, TypeOK
<1>6. ThreadInv'
  BY <1>1, NextCalledThreads DEF ThreadStates
<1>7. CountInv' /\ ExitInv'
  BY <1>1, <1>4, NextCalledFacts DEF IInv, CountInv, ExitInv
<1>8. PhaseInv'
  <2>1. tracker.completed \in Nat /\ tracker'.completed \in Nat
        /\ tracker.fullIndex \in Int /\ runningThreads \in Nat
    BY <1>3, NumThreadsFacts DEF IInv, TypeOK, Tracker
  <2>. QED BY <2>1, <1>0, <1>3, <1>4 DEF IInv, PhaseInv
<1>9. Coverage'
  <2>1. Requested \subseteq Requested'
    BY <1>0, <1>1 DEF Requested, IInv, TypeOK
  <2>. QED BY <2>1, <1>0, <1>1, <1>3 DEF IInv, Coverage
<1>10. ReportInv'
  BY <1>1, NextCalledFacts DEF IInv, ReportInv, AllUploaded, Succeeded
<1>. QED BY <1>3, <1>5, <1>6, <1>7, <1>8, <1>9, <1>10 DEF IInv

LEMMA StepSendBlock ==
  ASSUME IInv, NEW t \in ThreadIds, NextCalled(t), SendBlock(t)
  PROVE  IInv'
<1> DEFINE index == NextIndex(tracker)
           after == AfterNextIndex(tracker)
<1>0. /\ UNCHANGED <<options, nothingToDo, phase, exiting, md5>>
      /\ runningThreads' \in 0 .. NumThreads
      /\ phase # "starting" => phase = "running" /\ runningThreads' = NumThreads
      /\ phase = "starting" => runningThreads' = runningThreads + 1
      /\ state[t] \in {"new", "next"}
  BY NextCalledFacts
<1>1. /\ index # Undefined /\ tracker' = after
      /\ state' = [state EXCEPT ![t] = "request"]
      /\ inFlight' = [inFlight EXCEPT ![t] = index]
      /\ UNCHANGED <<pages, doneThreads, wasIdle, alreadyDone, alreadyExisted,
                     md5Agg, calls, exitPending, alive>>
  BY NextCalledFacts DEF SendBlock, reportVars
<1>2. /\ index \in Indices /\ after = Advance(tracker) /\ after \in Tracker
      /\ InRange(after) /\ Outstanding(tracker) \subseteq Outstanding(after) \cup {index}
  BY <1>1, NextIndexDefined DEF IInv, TypeOK
<1>3. /\ tracker' \in Tracker /\ InRange(tracker)'
      /\ Outstanding(tracker) \subseteq Outstanding(tracker)' \cup {index}
      /\ tracker'.fullIndex = tracker.fullIndex + 1
      /\ tracker'.completed = tracker.completed
  <2>1. after.fullIndex = tracker.fullIndex + 1 /\ after.completed = tracker.completed
    BY <1>2 DEF Advance, IInv, TypeOK, Tracker
  <2>2. Outstanding(tracker)' = Outstanding(after)
    BY <1>1 DEF Outstanding, Fresh, Pending, ErrorPosition
  <2>. QED BY <1>1, <1>2, <2>1, <2>2 DEF InRange
<1>4. StoppedThreads' = StoppedThreads
  BY <1>1, NextCalledFacts, ThreadGoesOn DEF IInv, ThreadStates, Stopped
<1>5. TypeOK'
  <2>1. state' \in [ThreadIds -> ThreadStates]
    BY <1>1 DEF IInv, TypeOK, ThreadStates
  <2>2. inFlight' \in [ThreadIds -> Indices \cup {Undefined}]
    BY <1>1, <1>2 DEF IInv, TypeOK
  <2>. QED BY <2>1, <2>2, <1>0, <1>1, <1>3 DEF IInv, TypeOK
<1>6. ThreadInv'
  BY <1>1, <1>2, NextCalledThreads DEF ThreadStates
<1>7. CountInv' /\ ExitInv'
  BY <1>1, <1>4, NextCalledFacts DEF IInv, CountInv, ExitInv
<1>8. PhaseInv'
  <2>1. tracker.completed \in Nat /\ tracker.fullIndex \in Int
        /\ runningThreads \in Nat
    BY NumThreadsFacts DEF IInv, TypeOK, Tracker
  <2>. QED BY <2>1, <1>0, <1>3, <1>4 DEF IInv, PhaseInv
<1>9. Coverage'
  <2>1. state'[t] = "request" /\ inFlight'[t] = index
    BY <1>1 DEF IInv, TypeOK
  <2>2. Requested \cup {index} \subseteq Requested'
    BY <1>0, <1>1, <1>2, <2>1 DEF Requested, IInv, TypeOK
  <2>. QED BY <2>2, <1>0, <1>1, <1>3 DEF IInv, Coverage
<1>10. ReportInv'
  BY <1>1, NextCalledFacts DEF IInv, ReportInv, AllUploaded, Succeeded
<1>. QED BY <1>3, <1>5, <1>6, <1>7, <1>8, <1>9, <1>10 DEF IInv

-------------------------------------------------------------------------------
(* toNext(), the answer to a request.                                       *)

\* A thread with a request out is at work, so the upload has not been given
\* up, and all threads have been started.
LEMMA AnswerFacts ==
  ASSUME IInv, NEW t \in ThreadIds, state[t] = "request", EventLoop
  PROVE  /\ exiting = FALSE
         /\ inFlight[t] \in Indices
         /\ t < runningThreads
         /\ phase = "running"
<1>1. exiting = FALSE
  BY DEF IInv, ExitInv, TypeOK, StoppedThreads, Stopped
<1>2. inFlight[t] \in Indices /\ ~(t >= runningThreads)
  BY DEF IInv, ThreadInv
<1>3. t \in Nat /\ runningThreads \in Nat
  BY NumThreadsFacts DEF IInv, TypeOK, ThreadIds
<1>4. runningThreads # 0
  BY <1>2, <1>3
<1>5. phase = "running"
  BY <1>4 DEF IInv, PhaseInv, EventLoop, TypeOK
<1>. QED BY <1>1, <1>2, <1>3, <1>5

\* Only the answered thread changes.
LEMMA AnswerThreads ==
  ASSUME IInv, NEW t \in ThreadIds, state[t] = "request", EventLoop,
         NEW s \in ThreadStates \ {"new", "left", "request"},
         state' = [state EXCEPT ![t] = s],
         inFlight' = [inFlight EXCEPT ![t] = Undefined],
         runningThreads' = runningThreads
  PROVE  /\ ThreadInv'
         /\ state' \in [ThreadIds -> ThreadStates]
         /\ inFlight' \in [ThreadIds -> Indices \cup {Undefined}]
         /\ Requested \subseteq Requested' \cup {inFlight[t]}
<1>1. /\ state \in [ThreadIds -> ThreadStates]
      /\ inFlight \in [ThreadIds -> Indices \cup {Undefined}]
  BY DEF IInv, TypeOK
<1>2. /\ state' \in [ThreadIds -> ThreadStates]
      /\ inFlight' \in [ThreadIds -> Indices \cup {Undefined}]
  BY <1>1
<1>3. /\ state'[t] = s
      /\ \A u \in ThreadIds \ {t} :
           state'[u] = state[u] /\ inFlight'[u] = inFlight[u]
  BY <1>1
<1>4. ThreadInv'
  BY <1>3 DEF IInv, ThreadInv
<1>5. Requested \subseteq Requested' \cup {inFlight[t]}
  BY <1>3 DEF Requested
<1>. QED BY <1>2, <1>4, <1>5

LEMMA StepBlockWritten ==
  ASSUME IInv, NEW t \in ThreadIds, BlockWritten(t)
  PROVE  IInv'
<1>0. /\ state[t] = "request" /\ EventLoop
      /\ pages' = pages \cup {BlockOf(inFlight[t])}
      /\ inFlight' = [inFlight EXCEPT ![t] = Undefined]
      /\ UNCHANGED <<options, nothingToDo, phase, runningThreads, doneThreads,
                     wasIdle, alreadyDone, exiting, md5, md5Agg,
                     alreadyExisted, calls, exitPending, alive>>
  BY DEF BlockWritten, md5Vars, reportVars
<1>1. exiting = FALSE /\ inFlight[t] \in Indices /\ phase = "running"
  BY <1>0, AnswerFacts
<1>2. state' = [state EXCEPT ![t] = "next"] /\ tracker' = MarkDone(tracker)
  BY <1>1 DEF BlockWritten
<1>3. "next" \in ThreadStates \ {"new", "left", "request"} /\ "next" \notin Stopped
  BY DEF ThreadStates, Stopped
<1>4. /\ ThreadInv'
      /\ state' \in [ThreadIds -> ThreadStates]
      /\ inFlight' \in [ThreadIds -> Indices \cup {Undefined}]
      /\ Requested \subseteq Requested' \cup {inFlight[t]}
  BY <1>0, <1>2, <1>3, AnswerThreads
<1>5. /\ tracker' \in Tracker /\ InRange(tracker)'
      /\ Outstanding(tracker)' = Outstanding(tracker)
  <2>1. /\ MarkDone(tracker) \in Tracker /\ InRange(MarkDone(tracker))
        /\ Outstanding(MarkDone(tracker)) = Outstanding(tracker)
    BY MarkDoneFacts DEF IInv, TypeOK
  <2>2. Outstanding(tracker)' = Outstanding(MarkDone(tracker))
    BY <1>2 DEF Outstanding, Fresh, Pending, ErrorPosition
  <2>. QED BY <1>2, <2>1, <2>2 DEF InRange
<1>6. StoppedThreads' = StoppedThreads
  <2>1. state[t] \notin Stopped
    BY <1>0 DEF Stopped
  <2>. QED BY <1>2, <1>3, <2>1, ThreadGoesOn DEF IInv
<1>7. pages' \subseteq Blocks
  BY <1>0, <1>1, BlockOfOnto DEF IInv, TypeOK
<1>8. TypeOK'
  BY <1>0, <1>4, <1>5, <1>7 DEF IInv, TypeOK
<1>9. CountInv' /\ ExitInv' /\ PhaseInv'
  BY <1>0, <1>1, <1>6 DEF IInv, CountInv, ExitInv, PhaseInv
<1>10. Coverage'
  BY <1>0, <1>1, <1>4, <1>5 DEF IInv, Coverage
<1>11. ReportInv'
  BY <1>0 DEF IInv, ReportInv, AllUploaded, Succeeded
<1>. QED BY <1>4, <1>5, <1>8, <1>9, <1>10, <1>11 DEF IInv

LEMMA StepBlockFailed ==
  ASSUME IInv, NEW t \in ThreadIds, BlockFailed(t)
  PROVE  IInv'
<1> DEFINE after == MarkError(tracker, inFlight[t])
<1>0. /\ state[t] = "request" /\ EventLoop
      /\ \E applied \in SUBSET {BlockOf(inFlight[t])} : pages' = pages \cup applied
      /\ inFlight' = [inFlight EXCEPT ![t] = Undefined]
      /\ UNCHANGED <<options, nothingToDo, phase, runningThreads, wasIdle,
                     alreadyDone, md5, md5Agg, alreadyExisted>>
  BY DEF BlockFailed, md5Vars
<1>1. exiting = FALSE /\ inFlight[t] \in Indices /\ phase = "running"
  BY <1>0, AnswerFacts
<1>2. /\ tracker' = after
      /\ \/ /\ state' = [state EXCEPT ![t] = "dropped"]
            /\ doneThreads' = doneThreads + 1
            /\ \/ doneThreads' = NumThreads /\ exiting' = TRUE /\ ReportError
               \/ UNCHANGED <<exiting, calls, exitPending, alive>>
         \/ /\ state' = [state EXCEPT ![t] = "next"]
            /\ UNCHANGED <<doneThreads, exiting, calls, exitPending, alive>>
  BY <1>1 DEF BlockFailed, NoThreadLeft, reportVars
<1>3. \E s \in ThreadStates \ {"new", "left", "request"} :
        state' = [state EXCEPT ![t] = s]
  BY <1>2 DEF ThreadStates
<1>4. /\ ThreadInv'
      /\ state' \in [ThreadIds -> ThreadStates]
      /\ inFlight' \in [ThreadIds -> Indices \cup {Undefined}]
      /\ Requested \subseteq Requested' \cup {inFlight[t]}
  BY <1>0, <1>3, AnswerThreads
<1>5. /\ tracker' \in Tracker /\ InRange(tracker)'
      /\ Outstanding(tracker) \cup {inFlight[t]} \subseteq Outstanding(tracker)'
  <2>1. /\ after \in Tracker /\ InRange(after)
        /\ Outstanding(tracker) \cup {inFlight[t]} \subseteq Outstanding(after)
    BY <1>1, MarkErrorFacts DEF IInv, TypeOK
  <2>2. Outstanding(tracker)' = Outstanding(after)
    BY <1>2 DEF Outstanding, Fresh, Pending, ErrorPosition
  <2>. QED BY <1>2, <2>1, <2>2 DEF InRange
<1>6. /\ pages' \subseteq Blocks /\ pages \subseteq pages'
  BY <1>0, <1>1, BlockOfOnto DEF IInv, TypeOK
<1>7. state[t] \notin Stopped
  BY <1>0 DEF Stopped
<1>8. /\ doneThreads' \in 0 .. NumThreads /\ CountInv' /\ ExitInv'
      /\ exiting' \in BOOLEAN
  <2>1. CASE state' = [state EXCEPT ![t] = "dropped"] /\ doneThreads' = doneThreads + 1
    <3>1. /\ CountInv' /\ doneThreads' \in 0 .. NumThreads
          /\ doneThreads' = NumThreads => StoppedThreads' = ThreadIds
      BY <1>7, <2>1, ThreadStops DEF IInv, Stopped
    <3>2. exiting' = exiting \/ (exiting' = TRUE /\ doneThreads' = NumThreads)
      BY <1>2
    <3>. QED BY <1>1, <3>1, <3>2 DEF ExitInv
  <2>2. CASE state' = [state EXCEPT ![t] = "next"] /\ UNCHANGED <<doneThreads, exiting>>
    <3>1. StoppedThreads' = StoppedThreads
      BY <1>7, <2>2, ThreadGoesOn DEF IInv, ThreadStates, Stopped
    <3>. QED BY <1>1, <2>2, <3>1 DEF IInv, TypeOK, CountInv, ExitInv
  <2>. QED BY <1>2, <2>1, <2>2
<1>9. /\ calls' \in Seq(Outcomes) /\ exitPending' \in BOOLEAN /\ alive' \in BOOLEAN
      /\ Succeeded' => Succeeded
  <2>1. CASE ReportError
    BY <1>0, <2>1, ReportErrorFacts DEF IInv
  <2>2. CASE UNCHANGED <<calls, exitPending, alive>>
    BY <2>2 DEF IInv, TypeOK, Succeeded
  <2>. QED BY <1>2, <2>1, <2>2
<1>10. TypeOK'
  BY <1>0, <1>4, <1>5, <1>6, <1>8, <1>9 DEF IInv, TypeOK
<1>11. PhaseInv'
  BY <1>0, <1>1 DEF IInv, PhaseInv
<1>12. Coverage'
  BY <1>0, <1>4, <1>5, <1>6 DEF IInv, Coverage
<1>13. ReportInv'
  BY <1>0, <1>6, <1>9 DEF IInv, ReportInv, AllUploaded
<1>. QED BY <1>4, <1>5, <1>8, <1>10, <1>11, <1>12, <1>13 DEF IInv

-------------------------------------------------------------------------------
(* MD5.                                                                     *)

LEMMA StepMd5Calculated == IInv /\ Md5Calculated => IInv'
<1> SUFFICES ASSUME IInv, Md5Calculated PROVE IInv'
  OBVIOUS
<1>1. UNCHANGED <<options, nothingToDo, pages, uploadVars, exiting>>
  BY DEF Md5Calculated
<1>2. TypeOK'
  BY DEF IInv, Md5Calculated, TypeOK, Md5States, uploadVars, reportVars
<1>3. PhaseInv'
  BY <1>1, ThreadsUntouched DEF IInv, PhaseInv, Md5Calculated, uploadVars
<1>4. ReportInv'
  BY <1>1, ThreadsUntouched
     DEF IInv, ReportInv, Md5Calculated, reportVars, Succeeded
<1>. QED BY <1>1, <1>2, <1>3, <1>4, ThreadsUntouched DEF IInv

LEMMA StepMd5StreamFails == IInv /\ Md5StreamFails => IInv'
<1> SUFFICES ASSUME IInv, Md5StreamFails PROVE IInv'
  OBVIOUS
<1>1. UNCHANGED <<options, nothingToDo, pages, uploadVars, exiting>>
  BY DEF Md5StreamFails
<1>2. TypeOK'
  BY ReportErrorFacts DEF IInv, Md5StreamFails, TypeOK, Md5States, uploadVars
<1>3. PhaseInv'
  BY <1>1, ThreadsUntouched DEF IInv, PhaseInv, Md5StreamFails, uploadVars
<1>4. ReportInv'
  BY <1>1, ThreadsUntouched, ReportErrorFacts
     DEF IInv, ReportInv, Md5StreamFails
<1>. QED BY <1>1, <1>2, <1>3, <1>4, ThreadsUntouched DEF IInv

\* A success can be reported here too, but only after the upload's own report.
LEMMA StepPropertiesSet ==
  ASSUME IInv, NEW error \in BOOLEAN, PropertiesSet(error)
  PROVE  IInv'
<1>1. /\ UNCHANGED <<options, nothingToDo, pages, uploadVars, exiting>>
      /\ UNCHANGED <<phase, alreadyExisted>>
      /\ md5Agg' = Call(md5Agg, "md5", error)
      /\ md5' \in Md5States
  BY DEF PropertiesSet, Md5States
<1>2. /\ md5Agg' \in Aggregators({"upload", "md5"})
      /\ md5Agg'.finished = md5Agg.finished \cup {"md5"}
  <2>1. md5Agg \in Aggregators({"upload", "md5"}) /\ "md5" \in {"upload", "md5"}
    BY DEF IInv, TypeOK
  <2>2. /\ Call(md5Agg, "md5", error) \in Aggregators({"upload", "md5"})
        /\ Call(md5Agg, "md5", error).finished = md5Agg.finished \cup {"md5"}
    BY <2>1, CallFacts
  <2>. QED BY <1>1, <2>2
<1>3. /\ calls' \in Seq(Outcomes) /\ exitPending' \in BOOLEAN /\ alive' \in BOOLEAN
      /\ Succeeded' => AllUploaded
  <2>1. CASE UNCHANGED reportVars
    BY <2>1 DEF IInv, TypeOK, ReportInv, reportVars, Succeeded
  <2>2. CASE "upload" \in md5Agg.finished /\ CallBackSuccess(alreadyExisted)
    BY <2>2, CallBackSuccessFacts DEF IInv, TypeOK, ReportInv
  <2>3. CASE alive' = FALSE /\ UNCHANGED <<calls, exitPending>>
    BY <2>3 DEF IInv, TypeOK, ReportInv, Succeeded
  <2>. QED BY <2>1, <2>2, <2>3 DEF PropertiesSet
<1>4. TypeOK'
  BY <1>1, <1>2, <1>3 DEF IInv, TypeOK, uploadVars
<1>5. PhaseInv'
  BY <1>1, ThreadsUntouched DEF IInv, PhaseInv, uploadVars
<1>6. ReportInv'
  BY <1>1, <1>2, <1>3, ThreadsUntouched DEF IInv, ReportInv
<1>. QED BY <1>1, <1>4, <1>5, <1>6, ThreadsUntouched DEF IInv

-------------------------------------------------------------------------------
(* The theorems.                                                            *)

LEMMA StepIInv == IInv /\ [Next]_vars => IInv'
<1> SUFFICES ASSUME IInv, [Next]_vars PROVE IInv'
  OBVIOUS
<1>1. CASE NonZeroBlocksFound
  BY <1>1, StepNonZeroBlocksFound
<1>2. CASE FindNonZeroBlocksFails
  BY <1>2, StepFindNonZeroBlocksFails
<1>3. CASE ThreadsStarted
  BY <1>3, StepThreadsStarted
<1>4. ASSUME NEW t \in ThreadIds, ThreadStep(t) PROVE IInv'
  <2>1. CASE NextCalled(t)
    <3>1. NextBlock(t)
      BY <2>1, NextCalledFacts
    <3>. QED BY <2>1, <3>1, StepGoIdle, StepSkipBlock, StepSendBlock
            DEF NextBlock
  <2>2. CASE BlockWritten(t)
    BY <2>2, StepBlockWritten
  <2>3. CASE BlockFailed(t)
    BY <2>3, StepBlockFailed
  <2>. QED BY <1>4, <2>1, <2>2, <2>3 DEF ThreadStep, NextCalled
<1>5. CASE Md5Step
  BY <1>5, StepMd5Calculated, StepMd5StreamFails, StepPropertiesSet DEF Md5Step
<1>6. CASE ProcessExits
  BY <1>6, StepProcessExits
<1>7. CASE UNCHANGED vars
  <2>1. UNCHANGED <<options, nothingToDo, pages, uploadVars, exiting>>
    BY <1>7 DEF vars
  <2>2. TypeOK'
    BY <1>7 DEF IInv, TypeOK, vars, uploadVars, md5Vars, reportVars
  <2>3. PhaseInv'
    BY <1>7, <2>1, ThreadsUntouched DEF IInv, PhaseInv, vars, uploadVars
  <2>4. ReportInv'
    BY <1>7, <2>1, ThreadsUntouched
       DEF IInv, ReportInv, vars, md5Vars, reportVars, Succeeded
  <2>. QED BY <2>1, <2>2, <2>3, <2>4, ThreadsUntouched DEF IInv
<1>. QED BY <1>1, <1>2, <1>3, <1>4, <1>5, <1>6, <1>7 DEF Next, Terminated

\* What the theorems on the upload rest on holds through every request, retry and
\* callback.
THEOREM Invariance == Spec => []IInv
BY InitIInv, StepIInv, PTL DEF Spec

\* Every variable of the upload keeps its type: among others the count of
\* stopped threads never passes the number of threads (next(), toNext()).
THEOREM TypeCorrect == Spec => []TypeOK
<1>1. IInv => TypeOK
  BY DEF IInv
<1>. QED BY <1>1, Invariance, PTL

\* Whatever the number of blocks and threads, and however the service answers:
\* the caller is told of a success only when no block is missing (next(),
\* toNext(), the retry list of jobTracker and the aggregator together).
THEOREM SuccessIsComplete == Spec => []SuccessMeansUploaded
<1>1. IInv => SuccessMeansUploaded
  BY DEF IInv, ReportInv, AllUploaded, SuccessMeansUploaded
<1>. QED BY <1>1, Invariance, PTL

\* Once the upload has been given up, no thread is due and no request is out
\* (toNext(), and the count of the threads that stopped in next()).
THEOREM GivingUpIsQuiet == Spec => []GivenUpIsQuiet
<1>1. IInv => GivenUpIsQuiet
  BY DEF IInv, ExitInv, ThreadInv, StoppedThreads, Stopped, GivenUpIsQuiet
<1>. QED BY <1>1, Invariance, PTL

-------------------------------------------------------------------------------
(* Where the indices are.  To count them, each has to be in one place only. *)

\* The indices that trk has completed or will hand out, and those requested.
Counted(trk, requested) == trk.completed + Cardinality(requested) + Left(trk)

OneRequestEach ==
  \A t, u \in ThreadIds :
    t # u /\ state[t] = "request" /\ state[u] = "request"
      => inFlight[t] # inFlight[u]

AccountInv ==
  /\ OneRequestEach
  /\ Requested \cap Outstanding(tracker) = {}
  /\ NoRepeats(tracker)
  /\ Counted(tracker, Requested) = IndexCount

\* What an action makes of the requests and of the tracker is all that matters.
LEMMA AccountInvNext ==
  ASSUME OneRequestEach', Requested' \cap Outstanding(tracker') = {},
         NoRepeats(tracker'), Counted(tracker', Requested') = IndexCount
  PROVE  AccountInv'
<1>1. /\ Outstanding(tracker)' = Outstanding(tracker')
      /\ NoRepeats(tracker)' = NoRepeats(tracker')
      /\ Counted(tracker, Requested)' = Counted(tracker', Requested')
  BY DEF Outstanding, NoRepeats, Counted, Left, Fresh, Pending, ErrorPosition
<1>. QED BY <1>1 DEF AccountInv

LEMMA RequestedFinite ==
  IsFiniteSet(Requested) /\ Cardinality(Requested) \in Nat
<1>1. IsFiniteSet(Indices)
  BY FS_Interval, IndexCountAssumption DEF Indices
<1>2. Requested \in SUBSET Indices
  BY DEF Requested
<1>. QED BY <1>1, <1>2, FS_Subset, FS_CardinalityType

\* next() leaves the thread without a request.
LEMMA RequestsStay ==
  ASSUME IInv, OneRequestEach, NEW t \in ThreadIds, state[t] # "request",
         NEW s \in ThreadStates \ {"request"},
         state' = [state EXCEPT ![t] = s], inFlight' = inFlight
  PROVE  Requested' = Requested /\ OneRequestEach'
BY DEF IInv, TypeOK, Requested, OneRequestEach

\* next() sends a request for an index that no thread has a request for.
LEMMA RequestMade ==
  ASSUME IInv, OneRequestEach, NEW t \in ThreadIds, state[t] # "request",
         NEW i \in Indices \ Requested,
         state' = [state EXCEPT ![t] = "request"],
         inFlight' = [inFlight EXCEPT ![t] = i]
  PROVE  Requested' = Requested \cup {i} /\ OneRequestEach'
<1>1. /\ state'[t] = "request" /\ inFlight'[t] = i
      /\ \A u \in ThreadIds \ {t} :
           state'[u] = state[u] /\ inFlight'[u] = inFlight[u]
  BY DEF IInv, TypeOK
<1>2. \A u \in ThreadIds : state[u] = "request" => inFlight[u] \in Requested
  BY DEF Requested, IInv, ThreadInv
<1>3. Requested' = Requested \cup {i}
  BY <1>1 DEF Requested
<1>4. OneRequestEach'
  BY <1>1, <1>2 DEF OneRequestEach
<1>. QED BY <1>3, <1>4

\* toNext() takes the request of its thread away, and no other one.
LEMMA RequestAnswered ==
  ASSUME IInv, OneRequestEach, NEW t \in ThreadIds, state[t] = "request",
         NEW s \in ThreadStates \ {"request"},
         state' = [state EXCEPT ![t] = s],
         inFlight' = [inFlight EXCEPT ![t] = Undefined]
  PROVE  /\ inFlight[t] \in Requested
         /\ Requested' = Requested \ {inFlight[t]}
         /\ Cardinality(Requested') = Cardinality(Requested) - 1
         /\ OneRequestEach'
<1>1. /\ state'[t] # "request"
      /\ \A u \in ThreadIds \ {t} :
           state'[u] = state[u] /\ inFlight'[u] = inFlight[u]
  BY DEF IInv, TypeOK
<1>2. inFlight[t] \in Requested
  BY DEF Requested, IInv, ThreadInv
<1>3. Requested' = Requested \ {inFlight[t]}
  BY <1>1 DEF Requested, OneRequestEach
<1>4. OneRequestEach'
  BY <1>1 DEF OneRequestEach
<1>5. Cardinality(Requested') = Cardinality(Requested) - 1
  <2>1. PICK i \in Requested : Requested' = Requested \ {i}
    BY <1>2, <1>3
  <2>. QED BY <2>1, RequestedFinite, FS_RemoveElement
<1>. QED BY <1>2, <1>3, <1>4, <1>5

\* done() counts, because it is called for an index that was not yet counted.
LEMMA MarkDoneLeft ==
  ASSUME NEW trk \in Tracker
  PROVE  /\ Left(MarkDone(trk)) = Left(trk)
         /\ NoRepeats(trk) => NoRepeats(MarkDone(trk))
         /\ trk.completed < IndexCount
              => MarkDone(trk).completed = trk.completed + 1
<1>1. /\ MarkDone(trk).fullIndex = trk.fullIndex
      /\ MarkDone(trk).errorList = trk.errorList
  BY MarkDoneFacts
<1>2. /\ Fresh(MarkDone(trk)) = Fresh(trk)
      /\ Pending(MarkDone(trk)) = Pending(trk)
  BY <1>1 DEF Fresh, Pending, ErrorPosition
<1>. QED BY <1>1, <1>2 DEF Left, NoRepeats, MarkDone, Tracker

LEMMA InitAccount == Init => AccountInv
<1> SUFFICES ASSUME Init PROVE AccountInv
  OBVIOUS
<1>1. Requested = {} /\ OneRequestEach
  BY DEF Init, Requested, OneRequestEach
<1>2. NoRepeats(tracker) /\ Left(tracker) = IndexCount /\ tracker.completed = 0
  BY NewTrackerLeft DEF Init, NewTracker
<1>3. Counted(tracker, Requested) = IndexCount
  BY <1>1, <1>2, FS_EmptySet, IndexCountAssumption DEF Counted
<1>. QED BY <1>1, <1>2, <1>3 DEF AccountInv

\* next() with an index: it was still to be handed out, so that nobody has it.
LEMMA NextTakesIndex ==
  ASSUME IInv, AccountInv, NextIndex(tracker) # Undefined
  PROVE  /\ AfterNextIndex(tracker) \in Tracker
         /\ NextIndex(tracker) \in Indices \ Requested
         /\ Outstanding(AfterNextIndex(tracker))
              = Outstanding(tracker) \ {NextIndex(tracker)}
         /\ NoRepeats(AfterNextIndex(tracker))
         /\ Left(AfterNextIndex(tracker)) = Left(tracker) - 1
         /\ AfterNextIndex(tracker).completed = tracker.completed
<1>1. /\ tracker \in Tracker /\ InRange(tracker) /\ NoRepeats(tracker)
  BY DEF IInv, TypeOK, AccountInv
<1>2. /\ NextIndex(tracker) \in Indices
      /\ AfterNextIndex(tracker) = Advance(tracker)
      /\ AfterNextIndex(tracker) \in Tracker
  BY <1>1, NextIndexDefined
<1>3. Advance(tracker).completed = tracker.completed
  BY <1>1 DEF Advance, Tracker
<1>. QED BY <1>1, <1>2, <1>3, NextIndexTakesOne DEF AccountInv

\* The numbers that are added up.
LEMMA CountsAreNumbers ==
  ASSUME IInv, AccountInv
  PROVE  /\ tracker.completed \in Nat /\ Left(tracker) \in Nat
         /\ Cardinality(Requested) \in Nat /\ IsFiniteSet(Requested)
         /\ tracker.completed + Cardinality(Requested) + Left(tracker) = IndexCount
<1>1. tracker \in Tracker /\ tracker.completed \in Nat
  BY DEF IInv, TypeOK, Tracker
<1>. QED BY <1>1, RequestedFinite, OutstandingFinite DEF AccountInv, Counted, Left

LEMMA AccountNextBlock ==
  ASSUME IInv, AccountInv, NEW t \in ThreadIds, NextCalled(t)
  PROVE  AccountInv'
<1> DEFINE index == NextIndex(tracker)
           after == AfterNextIndex(tracker)
<1>1. NextBlock(t) /\ state[t] # "request" /\ exiting = FALSE
  BY NextCalledFacts
<1>2. OneRequestEach /\ Requested \cap Outstanding(tracker) = {}
  BY DEF AccountInv
<1>3. CASE GoIdle(t)
  <2>1. /\ state' = [state EXCEPT ![t] = "idle"] /\ inFlight' = inFlight
        /\ tracker' = tracker
    BY <1>3, NextIndexUndefined DEF GoIdle, IInv, TypeOK
  <2>2. Requested' = Requested /\ OneRequestEach'
    BY <1>1, <1>2, <2>1, RequestsStay DEF ThreadStates
  <2>. QED BY <2>1, <2>2, AccountInvNext DEF AccountInv
<1>4. CASE SkipBlock(t)
  <2>1. /\ state' = [state EXCEPT ![t] = "next"] /\ inFlight' = inFlight
        /\ tracker' = MarkDone(after) /\ index # Undefined
    BY <1>4 DEF SkipBlock
  <2>2. Requested' = Requested /\ OneRequestEach'
    BY <1>1, <1>2, <2>1, RequestsStay DEF ThreadStates
  <2>3. /\ after \in Tracker /\ Outstanding(after) = Outstanding(tracker) \ {index}
        /\ NoRepeats(after) /\ Left(after) = Left(tracker) - 1
        /\ after.completed = tracker.completed
    BY <2>1, NextTakesIndex
  <2>4. after.completed < IndexCount
    <3>1. Left(after) \in Nat
      BY <2>3, OutstandingFinite DEF Left
    <3>. QED BY <2>3, <3>1, CountsAreNumbers, IndexCountAssumption
  <2>5. /\ Outstanding(MarkDone(after)) = Outstanding(after)
        /\ Left(MarkDone(after)) = Left(after) /\ NoRepeats(MarkDone(after))
        /\ MarkDone(after).completed = after.completed + 1
    BY <2>3, <2>4, MarkDoneFacts, MarkDoneLeft
  <2>6. Counted(MarkDone(after), Requested) = IndexCount
    BY <2>3, <2>5, CountsAreNumbers DEF Counted
  <2>. QED BY <1>2, <2>1, <2>2, <2>3, <2>5, <2>6, AccountInvNext
<1>5. CASE SendBlock(t)
  <2>1. /\ state' = [state EXCEPT ![t] = "request"]
        /\ inFlight' = [inFlight EXCEPT ![t] = index]
        /\ tracker' = after /\ index # Undefined
    BY <1>1, <1>5 DEF SendBlock
  <2>2. /\ index \in Indices \ Requested
        /\ Outstanding(after) = Outstanding(tracker) \ {index}
        /\ NoRepeats(after) /\ Left(after) = Left(tracker) - 1
        /\ after.completed = tracker.completed
    BY <2>1, NextTakesIndex
  <2>3. Requested' = Requested \cup {index} /\ OneRequestEach'
    BY <1>1, <1>2, <2>1, <2>2, RequestMade
  <2>4. Cardinality(Requested') = Cardinality(Requested) + 1
    BY <2>2, <2>3, RequestedFinite, FS_AddElement
  <2>5. Counted(after, Requested') = IndexCount
    BY <2>2, <2>4, CountsAreNumbers DEF Counted
  <2>. QED BY <1>2, <2>1, <2>2, <2>3, <2>5, AccountInvNext
<1>. QED BY <1>1, <1>3, <1>4, <1>5 DEF NextBlock

LEMMA AccountAnswer ==
  ASSUME IInv, AccountInv, NEW t \in ThreadIds, BlockWritten(t) \/ BlockFailed(t)
  PROVE  AccountInv'
<1> DEFINE index == inFlight[t]
           marked == MarkError(tracker, index)
<1>1. /\ state[t] = "request" /\ EventLoop
      /\ inFlight' = [inFlight EXCEPT ![t] = Undefined]
  BY DEF BlockWritten, BlockFailed
<1>2. exiting = FALSE /\ index \in Indices
  BY <1>1, AnswerFacts
<1>3. /\ OneRequestEach /\ Requested \cap Outstanding(tracker) = {}
      /\ NoRepeats(tracker) /\ tracker \in Tracker /\ InRange(tracker)
  BY DEF AccountInv, IInv, TypeOK
<1>4. \E s \in ThreadStates \ {"request"} : state' = [state EXCEPT ![t] = s]
  BY <1>2 DEF BlockWritten, BlockFailed, ThreadStates
<1>5. /\ index \in Requested /\ Requested' = Requested \ {index}
      /\ Cardinality(Requested') = Cardinality(Requested) - 1
      /\ OneRequestEach'
  BY <1>1, <1>3, <1>4, RequestAnswered
<1>6. CASE BlockWritten(t)
  <2>1. tracker' = MarkDone(tracker)
    BY <1>2, <1>6 DEF BlockWritten
  <2>2. tracker.completed < IndexCount
    <3>1. Cardinality(Requested') \in Nat
      <4>1. Requested' \subseteq Requested
        BY <1>5
      <4>. QED BY <4>1, RequestedFinite, FS_Subset, FS_CardinalityType
    <3>. QED BY <1>5, <3>1, CountsAreNumbers, IndexCountAssumption
  <2>3. /\ Outstanding(MarkDone(tracker)) = Outstanding(tracker)
        /\ Left(MarkDone(tracker)) = Left(tracker) /\ NoRepeats(MarkDone(tracker))
        /\ MarkDone(tracker).completed = tracker.completed + 1
    BY <1>3, <2>2, MarkDoneFacts, MarkDoneLeft
  <2>4. Counted(MarkDone(tracker), Requested') = IndexCount
    BY <1>5, <2>3, CountsAreNumbers DEF Counted
  <2>. QED BY <1>3, <1>5, <2>1, <2>3, <2>4, AccountInvNext
<1>7. CASE BlockFailed(t)
  <2>1. tracker' = marked
    BY <1>2, <1>7 DEF BlockFailed
  <2>2. index \notin Outstanding(tracker)
    BY <1>3, <1>5
  <2>3. /\ Outstanding(marked) = Outstanding(tracker) \cup {index}
        /\ NoRepeats(marked) /\ Left(marked) = Left(tracker) + 1
        /\ marked.completed = tracker.completed
    BY <1>2, <1>3, <2>2, MarkErrorAddsOne
  <2>4. Counted(marked, Requested') = IndexCount
    BY <1>5, <2>3, CountsAreNumbers DEF Counted
  <2>. QED BY <1>3, <1>5, <2>1, <2>3, <2>4, AccountInvNext
<1>. QED BY <1>6, <1>7

LEMMA StepAccount == IInv /\ AccountInv /\ [Next]_vars => AccountInv'
<1> SUFFICES ASSUME IInv, AccountInv, [Next]_vars PROVE AccountInv'
  OBVIOUS
<1>1. ASSUME NEW t \in ThreadIds, ThreadStep(t) PROVE AccountInv'
  BY <1>1, AccountNextBlock, AccountAnswer DEF ThreadStep, NextCalled
<1>2. ASSUME UNCHANGED uploadVars PROVE AccountInv'
  <2>1. tracker' = tracker /\ state' = state /\ inFlight' = inFlight
    BY <1>2 DEF uploadVars
  <2>2. Requested' = Requested /\ OneRequestEach' = OneRequestEach
    BY <2>1 DEF Requested, OneRequestEach
  <2>. QED BY <2>1, <2>2, AccountInvNext DEF AccountInv
<1>3. CASE \/ NonZeroBlocksFound \/ FindNonZeroBlocksFails \/ ThreadsStarted
           \/ Md5Step \/ ProcessExits \/ UNCHANGED vars
  <2>1. UNCHANGED uploadVars
    BY <1>3 DEF NonZeroBlocksFound, FindNonZeroBlocksFails, ThreadsStarted,
                Md5Step, Md5Calculated, Md5StreamFails, PropertiesSet,
                ProcessExits, vars
  <2>. QED BY <1>2, <2>1
<1>. QED BY <1>1, <1>3 DEF Next, Terminated

\* For any number of blocks and threads, through every retry: each index is
\* counted as completed, or in one request, or handed out later, and only once
\* (nextIndex(), error() and done() of the tracker; next() and toNext()).
THEOREM NoIndexLostOrDoubled == Spec => []EveryIndexAccountedFor
<1>1. IInv /\ AccountInv => EveryIndexAccountedFor
  <2> SUFFICES ASSUME IInv, AccountInv PROVE EveryIndexAccountedFor
    OBVIOUS
  <2>1. /\ Cardinality(Fresh(tracker)) \in Nat /\ Cardinality(Pending(tracker)) \in Nat
    BY OutstandingFinite DEF IInv, TypeOK
  <2>2. tracker.completed + Cardinality(Requested)
          + Cardinality(Fresh(tracker)) + Cardinality(Pending(tracker)) = IndexCount
    BY <2>1, CountsAreNumbers DEF Left
  <2>. QED BY <2>2 DEF AccountInv, OneRequestEach, EveryIndexAccountedFor
<1>. QED BY <1>1, InitIInv, StepIInv, InitAccount, StepAccount, PTL DEF Spec

-------------------------------------------------------------------------------
(* How many errors it takes to give up.                                     *)

Dropped == {t \in ThreadIds : state[t] = "dropped"}

ManyErrors ==
  \/ ErrorCount(tracker) >= 2 * NumThreads - 1
  \/ tracker.completed >= 1 /\ ErrorCount(tracker) >= 20

\* A thread goes idle only after a block was completed, and it takes two errors
\* to drop a thread, except that the first error drops one.
ErrorInv ==
  /\ wasIdle => tracker.completed >= 1
  /\ \A t \in ThreadIds : state[t] = "idle" => wasIdle
  /\ 2 * Cardinality(Dropped) <= ErrorCount(tracker) + 1
  /\ exiting => ManyErrors

LEMMA DroppedFinite ==
  IsFiniteSet(Dropped) /\ Cardinality(Dropped) \in Nat
<1>1. Dropped \in SUBSET ThreadIds
  BY DEF Dropped
<1>. QED BY <1>1, NumThreadsFacts, FS_Subset, FS_CardinalityType

\* No thread has two requests out, so with one thread at rest there are fewer
\* requests than threads.
LEMMA FewerRequestsThanThreads ==
  ASSUME NEW t \in ThreadIds, state[t] # "request"
  PROVE  Cardinality(Requested) < NumThreads
<1> DEFINE others == ThreadIds \ {t}
           thread == [i \in Requested |->
                        CHOOSE u \in others : state[u] = "request" /\ inFlight[u] = i]
<1>1. /\ IsFiniteSet(others) /\ Cardinality(others) = NumThreads - 1
      /\ Cardinality(others) \in Nat
  BY NumThreadsFacts, FS_RemoveElement, FS_CardinalityType
<1>2. \A i \in Requested : /\ thread[i] \in others
                           /\ inFlight[thread[i]] = i
  BY DEF Requested
<1>3. thread \in [Requested -> others]
  BY <1>2
<1>4. ~(Cardinality(others) < Cardinality(Requested))
  <2> SUFFICES ASSUME Cardinality(others) < Cardinality(Requested) PROVE FALSE
    OBVIOUS
  <2> HIDE DEF thread, others
  <2>1. PICK i, j \in Requested : i # j /\ thread[i] = thread[j]
    BY <1>1, <1>3, RequestedFinite, FS_PigeonHole
  <2>. QED BY <1>2, <2>1
<1>. QED BY <1>1, <1>4, RequestedFinite, NumThreadsFacts

\* All indices are completed or requested then.
LEMMA IdleAfterOne ==
  ASSUME IInv, AccountInv, NEW t \in ThreadIds, NextCalled(t), GoIdle(t)
  PROVE  tracker.completed >= 1
<1>1. Outstanding(tracker) = {}
  BY NextIndexUndefined DEF GoIdle, IInv, TypeOK
<1>2. Fresh(tracker) = {} /\ Pending(tracker) = {}
  BY <1>1 DEF Outstanding
<1>3. Left(tracker) = 0
  BY <1>2, FS_EmptySet DEF Left
<1>4. Cardinality(Requested) < NumThreads
  BY NextCalledFacts, FewerRequestsThanThreads
<1>. QED BY <1>3, <1>4, CountsAreNumbers, NumThreadsFacts, IndexCountAssumption

LEMMA InitError == Init => ErrorInv
<1> SUFFICES ASSUME Init PROVE ErrorInv
  OBVIOUS
<1>1. Dropped = {}
  BY DEF Init, Dropped
<1>2. ErrorCount(tracker) = 0
  BY DEF Init, NewTracker, ErrorCount
<1>. QED BY <1>1, <1>2, FS_EmptySet DEF Init, ErrorInv

\* next() adds no error and drops no thread.
LEMMA ErrorNextBlock ==
  ASSUME IInv, AccountInv, ErrorInv, NEW t \in ThreadIds, NextCalled(t)
  PROVE  ErrorInv'
<1>1. /\ NextBlock(t) /\ state[t] \in {"new", "next"} /\ exiting = FALSE
      /\ exiting' = exiting /\ state \in [ThreadIds -> ThreadStates]
      /\ tracker \in Tracker /\ tracker.completed \in Nat
  BY NextCalledFacts DEF IInv, TypeOK, Tracker
<1>2. \E s \in {"idle", "next", "request"} : state' = [state EXCEPT ![t] = s]
  BY <1>1 DEF NextBlock, GoIdle, SkipBlock, SendBlock
<1>3. Dropped' = Dropped
  BY <1>1, <1>2 DEF Dropped
<1>4. /\ tracker'.errorList = tracker.errorList
      /\ tracker'.completed \in Nat /\ tracker'.completed >= tracker.completed
  <2> DEFINE after == AfterNextIndex(tracker)
  <2>1. /\ after \in Tracker /\ after.errorList = tracker.errorList
        /\ after.completed = tracker.completed
    BY <1>1 DEF AfterNextIndex, Advance, Tracker
  <2> HIDE DEF after
  <2>2. tracker' = after \/ tracker' = MarkDone(after)
    BY <1>1 DEF NextBlock, GoIdle, SkipBlock, SendBlock, after
  <2>. QED BY <1>1, <2>1, <2>2 DEF MarkDone, Tracker
<1>5. /\ wasIdle' => tracker'.completed >= 1
      /\ \A u \in ThreadIds : state'[u] = "idle" => wasIdle'
  <2>1. CASE GoIdle(t)
    <3>1. tracker.completed >= 1
      BY <2>1, IdleAfterOne
    <3>2. wasIdle'
      BY <2>1 DEF GoIdle
    <3>. QED BY <1>1, <1>4, <3>1, <3>2
  <2>2. CASE SkipBlock(t) \/ SendBlock(t)
    <3>1. wasIdle' = wasIdle /\ \A u \in ThreadIds : state'[u] = "idle" => state[u] = "idle"
      BY <1>1, <2>2 DEF SkipBlock, SendBlock
    <3>. QED BY <1>1, <1>4, <3>1 DEF ErrorInv
  <2>. QED BY <1>1, <2>1, <2>2 DEF NextBlock
<1>6. ErrorCount(tracker)' = ErrorCount(tracker)
  BY <1>4 DEF ErrorCount
<1>. QED BY <1>1, <1>3, <1>5, <1>6 DEF ErrorInv

LEMMA ErrorBlockWritten ==
  ASSUME IInv, ErrorInv, NEW t \in ThreadIds, BlockWritten(t)
  PROVE  ErrorInv'
<1>1. state[t] = "request" /\ EventLoop /\ UNCHANGED <<wasIdle, exiting>>
  BY DEF BlockWritten
<1>2. exiting = FALSE
  BY <1>1, AnswerFacts
<1>3. state' = [state EXCEPT ![t] = "next"] /\ tracker' = MarkDone(tracker)
  BY <1>2 DEF BlockWritten
<1>4. state \in [ThreadIds -> ThreadStates]
  BY DEF IInv, TypeOK
<1>5. Dropped' = Dropped /\ \A u \in ThreadIds : state'[u] = "idle" => state[u] = "idle"
  BY <1>1, <1>3, <1>4 DEF Dropped
<1>6. /\ tracker'.errorList = tracker.errorList
      /\ tracker.completed \in Nat /\ tracker'.completed \in Nat
      /\ tracker'.completed >= tracker.completed
  BY <1>3 DEF MarkDone, IInv, TypeOK, Tracker
<1>7. ErrorCount(tracker)' = ErrorCount(tracker)
  BY <1>6 DEF ErrorCount
<1>. QED BY <1>1, <1>2, <1>5, <1>6, <1>7 DEF ErrorInv

\* The error that gives the upload up was counted like every other one.
LEMMA ErrorBlockFailed ==
  ASSUME IInv, ErrorInv, NEW t \in ThreadIds, BlockFailed(t)
  PROVE  ErrorInv'
<1> DEFINE after == MarkError(tracker, inFlight[t])
<1>1. state[t] = "request" /\ EventLoop /\ UNCHANGED wasIdle
  BY DEF BlockFailed
<1>2. exiting = FALSE /\ inFlight[t] \in Indices
  BY <1>1, AnswerFacts
<1>3. /\ tracker' = after
      /\ \/ /\ DropsThread(after)
            /\ state' = [state EXCEPT ![t] = "dropped"]
            /\ doneThreads' = doneThreads + 1
            /\ \/ doneThreads' = NumThreads
               \/ exiting' = exiting
         \/ /\ state' = [state EXCEPT ![t] = "next"]
            /\ exiting' = exiting
  BY <1>2 DEF BlockFailed, NoThreadLeft
<1>4. state \in [ThreadIds -> ThreadStates] /\ tracker.completed \in Nat
  BY DEF IInv, TypeOK, Tracker
<1>5. /\ ErrorCount(tracker) \in Nat
      /\ ErrorCount(after) = ErrorCount(tracker) + 1
      /\ after.completed = tracker.completed
  <2>1. tracker.errorList \in Seq(Indices)
    BY DEF IInv, TypeOK, Tracker
  <2>2. /\ after.errorList = Append(tracker.errorList, inFlight[t])
        /\ after.completed = tracker.completed
    <3>1. after = [tracker EXCEPT !.errorList = Append(tracker.errorList, inFlight[t])]
      BY Zenon DEF MarkError
    <3>. QED BY <3>1 DEF IInv, TypeOK, Tracker
  <2>. QED BY <1>2, <2>1, <2>2 DEF ErrorCount
<1>6. /\ ErrorCount(tracker)' = ErrorCount(after)
      /\ ErrorCount(tracker)' = ErrorCount(tracker) + 1
      /\ tracker'.completed = tracker.completed
  BY <1>3, <1>5 DEF ErrorCount
<1> HIDE DEF after
<1>7. /\ wasIdle' => tracker'.completed >= 1
      /\ \A u \in ThreadIds : state'[u] = "idle" => wasIdle'
  BY <1>1, <1>3, <1>4, <1>6 DEF ErrorInv
<1>8. CASE state' = [state EXCEPT ![t] = "next"] /\ exiting' = exiting
  <2>1. Dropped' = Dropped
    BY <1>1, <1>4, <1>8 DEF Dropped
  <2>. QED BY <1>2, <1>5, <1>6, <1>7, <1>8, <2>1, DroppedFinite DEF ErrorInv
<1>9. CASE /\ DropsThread(after)
           /\ state' = [state EXCEPT ![t] = "dropped"]
           /\ doneThreads' = doneThreads + 1
           /\ doneThreads' = NumThreads \/ exiting' = exiting
  <2>1. Dropped' = Dropped \cup {t} /\ t \notin Dropped
    BY <1>1, <1>4, <1>9 DEF Dropped
  <2>2. Cardinality(Dropped') = Cardinality(Dropped) + 1
    BY <2>1, DroppedFinite, FS_AddElement
  <2>3. 2 * Cardinality(Dropped') <= ErrorCount(tracker)' + 1
    <3>1. ErrorCount(after) % 2 = 1
      BY <1>9 DEF DropsThread
    <3>. QED BY <1>5, <1>6, <2>2, <3>1, DroppedFinite DEF ErrorInv
  <2>4. ASSUME exiting' PROVE ManyErrors'
    <3>1. doneThreads' = NumThreads
      BY <1>2, <1>9, <2>4
    <3>2. StoppedThreads' = ThreadIds
      BY <1>1, <1>9, <3>1, ThreadStops DEF IInv, Stopped
    <3>3. CASE ErrorRateAbove(after, 95) /\ wasIdle
      <4>1. tracker.completed >= 1
        BY <3>3 DEF ErrorInv
      <4>2. 100 * ErrorCount(after) > 95 * (tracker.completed + ErrorCount(after))
        BY <1>5, <3>3 DEF ErrorRateAbove
      <4>3. ErrorCount(after) >= 20
        BY <1>4, <1>5, <4>1, <4>2
      <4>. QED BY <1>6, <4>1, <4>3 DEF ManyErrors
    <3>4. CASE ~wasIdle
      <4>1. \A u \in ThreadIds : state'[u] = "dropped"
        <5>1. \A u \in ThreadIds : state'[u] # "idle"
          BY <1>1, <1>7, <3>4
        <5>2. \A u \in ThreadIds : state'[u] # "left"
          BY <1>4, <1>9 DEF IInv, ThreadInv
        <5>. QED BY <3>2, <5>1, <5>2 DEF StoppedThreads, Stopped
      <4>2. Dropped' = ThreadIds
        BY <4>1 DEF Dropped
      <4>. QED BY <1>5, <1>6, <2>3, <4>2, NumThreadsFacts DEF ManyErrors
    <3>5. wasIdle \in BOOLEAN
      BY DEF IInv, TypeOK
    <3>. QED BY <1>9, <3>3, <3>4, <3>5 DEF DropsThread
  <2>. QED BY <1>7, <2>3, <2>4 DEF ErrorInv
<1>. QED BY <1>3, <1>8, <1>9

LEMMA StepError == IInv /\ AccountInv /\ ErrorInv /\ [Next]_vars => ErrorInv'
<1> SUFFICES ASSUME IInv, AccountInv, ErrorInv, [Next]_vars PROVE ErrorInv'
  OBVIOUS
<1>1. ASSUME NEW t \in ThreadIds, ThreadStep(t) PROVE ErrorInv'
  BY <1>1, ErrorNextBlock, ErrorBlockWritten, ErrorBlockFailed
     DEF ThreadStep, NextCalled
<1>2. CASE \/ NonZeroBlocksFound \/ FindNonZeroBlocksFails \/ ThreadsStarted
           \/ Md5Step \/ ProcessExits \/ UNCHANGED vars
  <2>1. UNCHANGED <<uploadVars, exiting>>
    BY <1>2 DEF NonZeroBlocksFound, FindNonZeroBlocksFails, ThreadsStarted,
                Md5Step, Md5Calculated, Md5StreamFails, PropertiesSet,
                ProcessExits, vars
  <2>2. Dropped' = Dropped /\ UNCHANGED <<tracker, state, wasIdle, exiting>>
    BY <2>1 DEF uploadVars, Dropped
  <2>. QED BY <2>2 DEF ErrorInv, ManyErrors, ErrorCount
<1>. QED BY <1>1, <1>2 DEF Next, Terminated

\* For any number of blocks and threads: next() and toNext() give the upload up
\* only after two errors for each thread but one, or at an error rate above 95%
\* with a block completed.  A thread is idle only when all indices are completed
\* or requested, so that one at least is completed by then.
THEOREM GivingUpTakesManyErrors == Spec => []GivenUpAfterManyErrors
<1>1. ErrorInv => GivenUpAfterManyErrors
  BY DEF ErrorInv, ManyErrors, GivenUpAfterManyErrors
<1>. QED BY <1>1, InitIInv, StepIInv, InitAccount, StepAccount, InitError, StepError,
         PTL DEF Spec

-------------------------------------------------------------------------------
(* What is said of the blob: that it was there, or that it was uploaded.     *)

\* It was there if this upload wrote nothing since there was nothing to do.
SaidRightly(existed) ==
  IF existed THEN pages = {} /\ nothingToDo = Blocks ELSE pages # {}

CallsRight ==
  \A i \in DOMAIN calls :
    /\ calls[i] = "existed" => SaidRightly(TRUE)
    /\ calls[i] = "uploaded" => SaidRightly(FALSE)

\* As long as no request succeeded, what is neither requested nor handed out
\* later was skipped; and what is written was not skipped.
ExistedInv ==
  /\ \A i \in Requested : BlockOf(i) \notin nothingToDo
  /\ pages \cap nothingToDo = {}
  /\ alreadyDone <= tracker.completed
  /\ alreadyDone < tracker.completed => pages # {}
  /\ alreadyDone = tracker.completed =>
       \A i \in Indices : \/ i \in Outstanding(tracker) \cup Requested
                          \/ BlockOf(i) \in nothingToDo
  /\ "upload" \in md5Agg.finished => SaidRightly(alreadyExisted)
  /\ CallsRight

LEMMA InitExisted == Init => ExistedInv
<1> SUFFICES ASSUME Init PROVE ExistedInv
  OBVIOUS
<1>1. Requested = {} /\ DOMAIN calls = {} /\ tracker.completed = 0
  BY DEF Init, Requested, NewTracker
<1>2. Outstanding(tracker) = Indices
  BY NewTrackerFacts DEF Init
<1>3. md5Agg.finished = {}
  <2> DEFINE upload == GetCallback(NewAggregator, "upload")
  <2>1. upload \in Aggregators({"upload", "md5"}) /\ upload.finished = {}
    BY NewAggregatorFacts, GetCallbackFacts
  <2>2. GetCallback(upload, "md5").finished = {}
    BY <2>1, GetCallbackFacts
  <2>. QED BY <2>1, <2>2 DEF Init
<1>. QED BY <1>1, <1>2, <1>3 DEF Init, ExistedInv, CallsRight

\* A report adds its own call and keeps the others.
LEMMA ReportsRight ==
  ASSUME IInv, CallsRight, nothingToDo' = nothingToDo, pages' = pages,
         NEW existed \in BOOLEAN, SaidRightly(existed),
         \/ UNCHANGED calls
         \/ ReportError
         \/ CallBackSuccess(existed)
  PROVE  CallsRight'
<1>1. calls \in Seq(Outcomes) /\ \A e \in BOOLEAN : SaidRightly(e)' = SaidRightly(e)
  BY DEF IInv, TypeOK, SaidRightly
<1>2. CASE UNCHANGED calls
  BY <1>1, <1>2 DEF CallsRight
<1>3. ASSUME NEW call \in Outcomes, calls' = Append(calls, call),
             call = "existed" => SaidRightly(TRUE),
             call = "uploaded" => SaidRightly(FALSE)
      PROVE  CallsRight'
  <2> SUFFICES ASSUME NEW i \in DOMAIN calls'
               PROVE  /\ calls'[i] = "existed" => SaidRightly(TRUE)
                      /\ calls'[i] = "uploaded" => SaidRightly(FALSE)
    BY <1>1 DEF CallsRight
  <2>1. \/ i \in DOMAIN calls /\ calls'[i] = calls[i]
        \/ calls'[i] = call
    BY <1>1, <1>3
  <2>. QED BY <1>3, <2>1 DEF CallsRight
<1>4. CASE ReportError
  BY <1>3, <1>4 DEF ReportError, Outcomes
<1>5. CASE CallBackSuccess(existed)
  BY <1>3, <1>5 DEF CallBackSuccess, Outcomes
<1>. QED BY <1>2, <1>4, <1>5

\* An error is reported without a word about the blob.
LEMMA ErrorsSayNothing ==
  ASSUME IInv, CallsRight, nothingToDo' = nothingToDo, pages \subseteq pages',
         pages' \cap nothingToDo = {}, pages' \subseteq Blocks,
         UNCHANGED calls \/ ReportError
  PROVE  CallsRight'
<1>1. \A e \in BOOLEAN : SaidRightly(e) => SaidRightly(e)'
  BY DEF SaidRightly
<1>2. \A i \in DOMAIN calls' :
        \/ i \in DOMAIN calls /\ calls'[i] = calls[i]
        \/ calls'[i] = "failed"
  <2>1. calls \in Seq(Outcomes) /\ "failed" \in Outcomes
    BY DEF IInv, TypeOK, Outcomes
  <2>. QED BY <2>1 DEF ReportError
<1>. QED BY <1>1, <1>2 DEF CallsRight

LEMMA ExistedNextBlock ==
  ASSUME IInv, AccountInv, ExistedInv, NEW t \in ThreadIds, NextCalled(t)
  PROVE  ExistedInv'
<1> DEFINE index == NextIndex(tracker)
           after == AfterNextIndex(tracker)
<1>1. /\ NextBlock(t) /\ state[t] # "request" /\ exiting = FALSE
      /\ nothingToDo' = nothingToDo
      /\ tracker \in Tracker /\ tracker.completed \in Nat /\ alreadyDone \in Nat
      /\ calls \in Seq(Outcomes) /\ alreadyExisted \in BOOLEAN
  BY NextCalledFacts DEF IInv, TypeOK, Tracker
<1>2. OneRequestEach /\ Requested \cap Outstanding(tracker) = {}
  BY DEF AccountInv
<1>3. pages' = pages /\ \A e \in BOOLEAN : SaidRightly(e)' = SaidRightly(e)
  BY <1>1 DEF NextBlock, GoIdle, SkipBlock, SendBlock, SaidRightly
<1>4. CASE GoIdle(t)
  <2>1. /\ state' = [state EXCEPT ![t] = "idle"] /\ inFlight' = inFlight
        /\ tracker' = tracker /\ alreadyDone' = alreadyDone
        /\ doneThreads' = doneThreads + 1
        /\ Outstanding(tracker) = {} /\ NextIndex(tracker) = Undefined
    BY <1>4, NextIndexUndefined DEF GoIdle, IInv, TypeOK
  <2>2. Requested' = Requested /\ Outstanding(tracker)' = Outstanding(tracker)
    BY <1>1, <1>2, <2>1, RequestsStay
       DEF ThreadStates, Outstanding, Fresh, Pending, ErrorPosition
  <2>3. ASSUME doneThreads' = runningThreads' PROVE SaidRightly(NothingSent)
    <3>1. runningThreads' = NumThreads
      BY <2>1, NextCalledFacts
    <3>2. StoppedThreads' = ThreadIds
      BY <2>1, <2>3, <3>1, NextCalledFacts, ThreadStops DEF IInv, Stopped
    <3>3. Requested = {}
      BY <2>2, <3>2 DEF Requested, StoppedThreads, Stopped
    <3>4. CASE NothingSent
      <4>1. \A i \in Indices : BlockOf(i) \in nothingToDo
        BY <2>1, <3>3, <3>4 DEF NothingSent, ExistedInv
      <4>2. Blocks \subseteq nothingToDo
        BY <4>1, BlockOfOnto
      <4>3. nothingToDo = Blocks /\ pages = {}
        BY <4>2 DEF ExistedInv, IInv, TypeOK
      <4>. QED BY <3>4, <4>3 DEF SaidRightly
    <3>5. CASE ~NothingSent
      BY <1>1, <3>5 DEF NothingSent, ExistedInv, SaidRightly
    <3>. QED BY <3>4, <3>5
  <2>4. /\ CallsRight'
        /\ "upload" \in md5Agg'.finished => SaidRightly(alreadyExisted')
    <3>1. CASE doneThreads' = runningThreads'
      <4>1. UploadFinished /\ SaidRightly(NothingSent) /\ NothingSent \in BOOLEAN
        BY <1>4, <2>3, <3>1 DEF GoIdle, NothingSent
      <4>2. alreadyExisted' = NothingSent
        BY <4>1 DEF UploadFinished
      <4>3. CallBackSuccess(NothingSent) \/ UNCHANGED calls
        BY <4>1, <4>2 DEF UploadFinished, reportVars
      <4>4. CallsRight
        BY DEF ExistedInv, CallsRight
      <4>5. CallsRight'
        BY <1>1, <1>3, <4>1, <4>3, <4>4, ReportsRight
      <4>. QED BY <4>1, <4>2, <4>5
    <3>2. CASE doneThreads' # runningThreads'
      <4>1. UNCHANGED <<alreadyExisted, md5Agg, calls>>
        BY <1>4, <3>2 DEF GoIdle, reportVars
      <4>. QED BY <1>1, <1>3, <4>1 DEF ExistedInv, CallsRight
    <3>. QED BY <3>1, <3>2
  <2>5. "upload" \in md5Agg'.finished => SaidRightly(alreadyExisted)'
    BY <1>1, <1>3, <2>4 DEF SaidRightly
  <2>. QED BY <1>1, <1>3, <2>1, <2>2, <2>4, <2>5 DEF ExistedInv, CallsRight
<1>5. CASE SkipBlock(t)
  <2>1. /\ state' = [state EXCEPT ![t] = "next"] /\ inFlight' = inFlight
        /\ tracker' = MarkDone(after) /\ index # Undefined
        /\ BlockOf(index) \in nothingToDo /\ alreadyDone' = alreadyDone + 1
        /\ UNCHANGED <<alreadyExisted, md5Agg, calls>>
    BY <1>5 DEF SkipBlock, reportVars
  <2>2. Requested' = Requested
    BY <1>1, <1>2, <2>1, RequestsStay DEF ThreadStates
  <2>3. /\ after \in Tracker /\ Outstanding(after) = Outstanding(tracker) \ {index}
        /\ Left(after) = Left(tracker) - 1 /\ after.completed = tracker.completed
    BY <2>1, NextTakesIndex
  <2>4. after.completed < IndexCount
    <3>1. Left(after) \in Nat
      BY <2>3, OutstandingFinite DEF Left
    <3>. QED BY <2>3, <3>1, CountsAreNumbers, IndexCountAssumption
  <2>5. /\ Outstanding(MarkDone(after)) = Outstanding(after)
        /\ MarkDone(after).completed = tracker.completed + 1
    BY <2>3, <2>4, MarkDoneFacts, MarkDoneLeft
  <2>6. /\ Outstanding(tracker)' = Outstanding(tracker) \ {index}
        /\ tracker'.completed = tracker.completed + 1
    BY <2>1, <2>3, <2>5 DEF Outstanding, Fresh, Pending, ErrorPosition
  <2>. QED BY <1>1, <1>3, <2>1, <2>2, <2>6 DEF ExistedInv, CallsRight, SaidRightly
<1>6. CASE SendBlock(t)
  <2>1. /\ state' = [state EXCEPT ![t] = "request"]
        /\ inFlight' = [inFlight EXCEPT ![t] = index]
        /\ tracker' = after /\ index # Undefined
        /\ BlockOf(index) \notin nothingToDo
        /\ UNCHANGED <<alreadyDone, alreadyExisted, md5Agg, calls>>
    BY <1>1, <1>6 DEF SendBlock, reportVars
  <2>2. /\ index \in Indices \ Requested
        /\ Outstanding(after) = Outstanding(tracker) \ {index}
        /\ after.completed = tracker.completed
    BY <2>1, NextTakesIndex
  <2>3. Requested' = Requested \cup {index}
    BY <1>1, <1>2, <2>1, <2>2, RequestMade
  <2>4. /\ Outstanding(tracker)' = Outstanding(tracker) \ {index}
        /\ tracker'.completed = tracker.completed
    BY <2>1, <2>2 DEF Outstanding, Fresh, Pending, ErrorPosition
  <2>. QED BY <1>1, <1>3, <2>1, <2>3, <2>4 DEF ExistedInv, CallsRight, SaidRightly
<1>. QED BY <1>1, <1>4, <1>5, <1>6 DEF NextBlock

LEMMA ExistedAnswer ==
  ASSUME IInv, AccountInv, ExistedInv,
         NEW t \in ThreadIds, BlockWritten(t) \/ BlockFailed(t)
  PROVE  ExistedInv'
<1> DEFINE index == inFlight[t]
           marked == MarkError(tracker, index)
<1>1. /\ state[t] = "request" /\ EventLoop
      /\ inFlight' = [inFlight EXCEPT ![t] = Undefined]
      /\ UNCHANGED <<nothingToDo, alreadyDone, md5Agg, alreadyExisted>>
  BY DEF BlockWritten, BlockFailed, md5Vars
<1>2. exiting = FALSE /\ index \in Indices
  BY <1>1, AnswerFacts
<1>3. /\ OneRequestEach /\ Requested \cap Outstanding(tracker) = {}
      /\ NoRepeats(tracker) /\ tracker \in Tracker /\ InRange(tracker)
      /\ tracker.completed \in Nat /\ alreadyDone \in Nat
      /\ alreadyExisted \in BOOLEAN /\ pages \subseteq Blocks
  BY DEF AccountInv, IInv, TypeOK, Tracker
<1>4. \E s \in ThreadStates \ {"request"} : state' = [state EXCEPT ![t] = s]
  BY <1>2 DEF BlockWritten, BlockFailed, ThreadStates
<1>5. /\ index \in Requested /\ Requested' = Requested \ {index}
      /\ Cardinality(Requested') = Cardinality(Requested) - 1
  BY <1>1, <1>3, <1>4, RequestAnswered
<1>6. BlockOf(index) \in Blocks \ nothingToDo
  BY <1>2, <1>5, BlockOfOnto DEF ExistedInv
<1>7. /\ pages \subseteq pages' /\ pages' \subseteq pages \cup {BlockOf(index)}
      /\ pages' \cap nothingToDo = {} /\ pages' \subseteq Blocks
  <2>1. pages \subseteq pages' /\ pages' \subseteq pages \cup {BlockOf(index)}
    BY DEF BlockWritten, BlockFailed
  <2>. QED BY <1>3, <1>6, <2>1 DEF ExistedInv
<1>8. nothingToDo # Blocks
  BY <1>6
<1>9. CallsRight'
  <2>1. UNCHANGED calls \/ ReportError
    BY DEF BlockWritten, BlockFailed, reportVars
  <2>2. CallsRight
    BY DEF ExistedInv, CallsRight
  <2>. QED BY <1>1, <1>7, <2>1, <2>2, ErrorsSayNothing
<1>10. "upload" \in md5Agg'.finished => SaidRightly(alreadyExisted)'
  BY <1>1, <1>7, <1>8 DEF ExistedInv, SaidRightly
<1>11. CASE BlockWritten(t)
  <2>1. tracker' = MarkDone(tracker) /\ pages' # {}
    BY <1>2, <1>11 DEF BlockWritten
  <2>2. tracker.completed < IndexCount
    <3>1. Cardinality(Requested') \in Nat
      <4>1. Requested' \subseteq Requested
        BY <1>5
      <4>. QED BY <4>1, RequestedFinite, FS_Subset, FS_CardinalityType
    <3>. QED BY <1>5, <3>1, CountsAreNumbers, IndexCountAssumption
  <2>3. tracker'.completed = tracker.completed + 1
    BY <1>3, <2>1, <2>2, MarkDoneLeft
  <2>4. alreadyDone' < tracker'.completed
    BY <1>1, <1>3, <2>3 DEF ExistedInv
  <2>5. ~(alreadyDone' = tracker'.completed) /\ alreadyDone' <= tracker'.completed
    BY <1>1, <1>3, <2>3, <2>4
  <2>. QED BY <1>1, <1>5, <1>7, <1>9, <1>10, <2>1, <2>5 DEF ExistedInv, CallsRight
<1>12. CASE BlockFailed(t)
  <2>1. tracker' = marked
    BY <1>2, <1>12 DEF BlockFailed
  <2>2. /\ Outstanding(marked) = Outstanding(tracker) \cup {index}
        /\ marked.completed = tracker.completed
    BY <1>2, <1>3, <1>5, MarkErrorAddsOne
  <2>3. /\ Outstanding(tracker)' = Outstanding(tracker) \cup {index}
        /\ tracker'.completed = tracker.completed
    BY <2>1, <2>2 DEF Outstanding, Fresh, Pending, ErrorPosition
  <2>. QED BY <1>1, <1>5, <1>7, <1>9, <1>10, <2>3 DEF ExistedInv, CallsRight
<1>. QED BY <1>11, <1>12

LEMMA StepExisted == IInv /\ AccountInv /\ ExistedInv /\ [Next]_vars => ExistedInv'
<1> SUFFICES ASSUME IInv, AccountInv, ExistedInv, [Next]_vars PROVE ExistedInv'
  OBVIOUS
<1>1. ASSUME NEW t \in ThreadIds, ThreadStep(t) PROVE ExistedInv'
  BY <1>1, ExistedNextBlock, ExistedAnswer DEF ThreadStep, NextCalled
<1>2. ASSUME UNCHANGED <<nothingToDo, pages, uploadVars>>, CallsRight',
             "upload" \in md5Agg'.finished =>
               alreadyExisted' = alreadyExisted /\ "upload" \in md5Agg.finished
      PROVE  ExistedInv'
  <2>1. /\ Requested' = Requested /\ Outstanding(tracker)' = Outstanding(tracker)
        /\ UNCHANGED <<nothingToDo, pages, tracker, alreadyDone>>
    BY <1>2 DEF uploadVars, Requested, Outstanding, Fresh, Pending, ErrorPosition
  <2>2. "upload" \in md5Agg'.finished => SaidRightly(alreadyExisted)'
    BY <1>2, <2>1 DEF ExistedInv, SaidRightly
  <2>. QED BY <1>2, <2>1, <2>2 DEF ExistedInv, CallsRight
<1>3. CallsRight /\ pages \cap nothingToDo = {} /\ pages \subseteq Blocks
  BY DEF ExistedInv, CallsRight, IInv, TypeOK
<1>4. CASE \/ NonZeroBlocksFound \/ FindNonZeroBlocksFails \/ ThreadsStarted
           \/ Md5Calculated \/ Md5StreamFails \/ ProcessExits \/ UNCHANGED vars
  <2>1. /\ UNCHANGED <<nothingToDo, pages, uploadVars, md5Agg, alreadyExisted>>
        /\ UNCHANGED calls \/ ReportError
    BY <1>4 DEF NonZeroBlocksFound, FindNonZeroBlocksFails, ThreadsStarted,
                Md5Calculated, Md5StreamFails, ProcessExits, vars, md5Vars,
                reportVars
  <2>2. CallsRight'
    BY <1>3, <2>1, ErrorsSayNothing
  <2>. QED BY <1>2, <2>1, <2>2
<1>5. ASSUME NEW error \in BOOLEAN, PropertiesSet(error) PROVE ExistedInv'
  <2>1. /\ UNCHANGED <<nothingToDo, pages, uploadVars, alreadyExisted>>
        /\ md5Agg' = Call(md5Agg, "md5", error)
        /\ \/ UNCHANGED calls
           \/ "upload" \in md5Agg.finished /\ CallBackSuccess(alreadyExisted)
    BY <1>5 DEF PropertiesSet, reportVars
  <2>2. md5Agg'.finished = md5Agg.finished \cup {"md5"}
    <3>1. md5Agg \in Aggregators({"upload", "md5"}) /\ "md5" \in {"upload", "md5"}
      BY DEF IInv, TypeOK
    <3>2. Call(md5Agg, "md5", error).finished = md5Agg.finished \cup {"md5"}
      BY <3>1, CallFacts
    <3>. QED BY <2>1, <3>2
  <2>3. CallsRight'
    <3>1. CASE UNCHANGED calls
      BY <1>3, <2>1, <3>1, ErrorsSayNothing
    <3>2. CASE "upload" \in md5Agg.finished /\ CallBackSuccess(alreadyExisted)
      <4>1. SaidRightly(alreadyExisted) /\ alreadyExisted \in BOOLEAN
        BY <3>2 DEF ExistedInv, IInv, TypeOK
      <4>. QED BY <1>3, <2>1, <3>2, <4>1, ReportsRight
    <3>. QED BY <2>1, <3>1, <3>2
  <2>. QED BY <1>2, <2>1, <2>2, <2>3
<1>. QED BY <1>1, <1>4, <1>5 DEF Next, Terminated, Md5Step

\* For any number of blocks and threads: "was already uploaded" is reported
\* exactly when nothing was written since nothing was left to do, although
\* next() counts what it skips and toNext() what was sent apart, and although
\* the report may wait for the MD5 (md5AggUpload() and callbackAndAggregator()).
THEOREM ExistedIsSaidRightly == Spec => []AlreadyExistedIsAccurate
<1>1. ExistedInv => AlreadyExistedIsAccurate
  BY DEF ExistedInv, CallsRight, SaidRightly, AlreadyExistedIsAccurate
<1>. QED BY <1>1, InitIInv, StepIInv, InitAccount, StepAccount, InitExisted,
         StepExisted, PTL DEF Spec

-------------------------------------------------------------------------------
(* How often the caller is called back.                                      *)

\* With these options exitWithError() does not return while the MD5 is under way.
OneReport == options.skipMd5 \/ ~options.telemetry

ThreadsOver == phase = "failed" \/ StoppedThreads = ThreadIds
Md5Over == md5 \notin {"hashing", "setting", "settingNull"}

\* The aggregator knows what has come to its end.
AggregatorInv ==
  /\ md5 = "skipped" <=> options.skipMd5
  /\ md5Agg.registered = IF options.skipMd5 THEN {"upload"} ELSE {"upload", "md5"}
  /\ "md5" \in md5Agg.finished => md5 \in {"stored", "storedNull", "failed"}
  /\ "upload" \in md5Agg.finished => StoppedThreads = ThreadIds

\* After a report the process is over, or nothing is left that could report.
ReportedInv ==
  OneReport => /\ Len(calls) <= 1
               /\ calls # <<>> => ~alive \/ (ThreadsOver /\ Md5Over)

LEMMA CallKeepsRegistered ==
  ASSUME NEW Keys, NEW agg \in Aggregators(Keys), NEW key \in Keys,
         NEW error \in BOOLEAN
  PROVE  Call(agg, key, error).registered = agg.registered
<1>1. /\ Finish(agg, key) \in Aggregators(Keys)
      /\ Finish(agg, key).registered = agg.registered
  BY DEF Finish, Aggregators
<1>. QED BY <1>1 DEF Call, Aggregators

\* The final callback without an error waits for the MD5.
LEMMA FinalWaitsForMd5 ==
  ASSUME IInv, AggregatorInv, CallsFinal(md5Agg, "upload", FALSE)
  PROVE  options.skipMd5 \/ "md5" \in md5Agg.finished
<1>1. md5Agg \in Aggregators({"upload", "md5"})
  BY DEF IInv, TypeOK
<1> DEFINE finished == md5Agg.finished \cup {"upload"}
<1>2. Cardinality(md5Agg.registered) = Cardinality(finished)
  <2>1. /\ Finish(md5Agg, "upload").finished = finished
        /\ Finish(md5Agg, "upload").registered = md5Agg.registered
    BY <1>1 DEF Finish, Aggregators
  <2>. QED BY <2>1 DEF CallsFinal, IsFinished
<1>3. SUFFICES ASSUME ~options.skipMd5, "md5" \notin md5Agg.finished PROVE FALSE
  OBVIOUS
<1>4. finished = {"upload"}
  BY <1>1, <1>3 DEF Aggregators
<1>5. PICK one : /\ one = {"upload"} /\ IsFiniteSet(one)
                 /\ Cardinality(one) = 1 /\ "md5" \notin one
  BY FS_Singleton
<1>6. Cardinality(one \cup {"md5"}) = 2
  BY <1>5, FS_AddElement
<1>7. md5Agg.registered = one \cup {"md5"}
  BY <1>3, <1>5 DEF AggregatorInv
<1>8. Cardinality(md5Agg.registered) = 2
  BY <1>6, <1>7
<1>9. Cardinality(finished) = 1
  BY <1>4, <1>5
<1>. QED BY <1>2, <1>8, <1>9

LEMMA InitReported == Init => AggregatorInv /\ ReportedInv
<1> SUFFICES ASSUME Init PROVE AggregatorInv /\ ReportedInv
  OBVIOUS
<1>1. ReportedInv
  BY DEF Init, ReportedInv
<1>2. /\ md5Agg.finished = {}
      /\ md5Agg.registered = IF options.skipMd5 THEN {"upload"} ELSE {"upload", "md5"}
  BY DEF Init, GetCallback, NewAggregator
<1>3. md5 = "skipped" <=> options.skipMd5
  BY DEF Init
<1>. QED BY <1>1, <1>2, <1>3 DEF AggregatorInv

\* A thread that is not at rest, or the MD5, is why nothing was reported yet.
LEMMA NothingReportedYet ==
  ASSUME IInv, ReportedInv, OneReport, alive,
         \/ \E t \in ThreadIds : phase # "failed" /\ state[t] \notin Stopped
         \/ ~Md5Over
  PROVE  calls = <<>>
BY DEF ReportedInv, ThreadsOver, StoppedThreads

\* One report is one call.
LEMMA FirstReport ==
  ASSUME calls = <<>>, NEW outcome, calls' = Append(calls, outcome)
  PROVE  Len(calls') <= 1
OBVIOUS

LEMMA ReportedStarts ==
  ASSUME IInv, AggregatorInv, ReportedInv,
         \/ NonZeroBlocksFound
         \/ FindNonZeroBlocksFails
         \/ ThreadsStarted
  PROVE  AggregatorInv' /\ ReportedInv'
<1>1. /\ UNCHANGED <<options, uploadVars, md5, md5Agg>> /\ alive
      /\ phase \in {"detecting", "starting"}
  BY DEF NonZeroBlocksFound, FindNonZeroBlocksFails, ThreadsStarted, md5Vars
<1>2. StoppedThreads = {} /\ StoppedThreads' = StoppedThreads
  BY <1>1 DEF IInv, PhaseInv, StoppedThreads, uploadVars
<1>3. \E t \in ThreadIds : state[t] \notin Stopped
  <2>1. 0 \in ThreadIds
    BY NumThreadsFacts DEF ThreadIds
  <2>. QED BY <1>2, <2>1 DEF StoppedThreads
<1>4. AggregatorInv'
  BY <1>1, <1>2 DEF AggregatorInv
<1>5. ASSUME OneReport' PROVE /\ Len(calls') <= 1
                              /\ calls' # <<>> => ~alive' \/ (ThreadsOver' /\ Md5Over')
  <2>1. OneReport /\ calls = <<>>
    BY <1>1, <1>3, <1>5, NothingReportedYet DEF OneReport
  <2>2. CASE UNCHANGED calls
    BY <2>1, <2>2
  <2>3. CASE FindNonZeroBlocksFails
    <3>1. /\ calls' = Append(calls, "failed") /\ alive' = options.telemetry
          /\ phase' = "failed"
      BY <2>3 DEF FindNonZeroBlocksFails, ReportError
    <3>2. options.telemetry => Md5Over'
      BY <1>1, <2>1 DEF OneReport, AggregatorInv, Md5Over
    <3>. QED BY <2>1, <3>1, <3>2, FirstReport DEF ThreadsOver
  <2>. QED BY <2>2, <2>3 DEF NonZeroBlocksFound, ThreadsStarted, reportVars
<1>. QED BY <1>4, <1>5 DEF ReportedInv

LEMMA ReportedNextBlock ==
  ASSUME IInv, AggregatorInv, ReportedInv, NEW t \in ThreadIds, NextCalled(t)
  PROVE  AggregatorInv' /\ ReportedInv'
<1>1. /\ NextBlock(t) /\ UNCHANGED <<options, md5, phase>>
      /\ state[t] \notin Stopped /\ phase # "failed"
  BY NextCalledFacts
<1>2. alive
  BY DEF NextCalled, StartThread, RunNext, EventLoop
<1>3. OneReport' = OneReport /\ Md5Over' = Md5Over
  BY <1>1 DEF OneReport, Md5Over
<1>4. OneReport => calls = <<>>
  BY <1>1, <1>2, NothingReportedYet
<1>5. StoppedThreads # ThreadIds
  BY <1>1 DEF StoppedThreads
<1>6. "upload" \notin md5Agg.finished
  BY <1>5 DEF AggregatorInv
<1>7. CASE UNCHANGED <<md5Agg, reportVars>>
  BY <1>1, <1>3, <1>4, <1>6, <1>7 DEF AggregatorInv, ReportedInv, reportVars
<1>8. CASE ~UNCHANGED <<md5Agg, reportVars>>
  <2>1. GoIdle(t) /\ UploadFinished /\ doneThreads' = runningThreads'
    BY <1>1, <1>8 DEF NextBlock, GoIdle, SkipBlock, SendBlock, reportVars
  <2>2. StoppedThreads' = ThreadIds
    <3>1. /\ state' = [state EXCEPT ![t] = "idle"]
          /\ doneThreads' = doneThreads + 1 /\ NextIndex(tracker) = Undefined
      BY <2>1 DEF GoIdle
    <3>2. runningThreads' = NumThreads
      BY <3>1, NextCalledFacts
    <3>. QED BY <1>1, <2>1, <3>1, <3>2, ThreadStops DEF IInv, Stopped
  <2>3. md5Agg \in Aggregators({"upload", "md5"}) /\ "upload" \in {"upload", "md5"}
    BY DEF IInv, TypeOK
  <2>4. /\ md5Agg' = Call(md5Agg, "upload", FALSE)
        /\ IF CallsFinal(md5Agg, "upload", FALSE)
           THEN CallBackSuccess(alreadyExisted')
           ELSE UNCHANGED reportVars
    BY <2>1 DEF UploadFinished
  <2>5. /\ md5Agg'.finished = md5Agg.finished \cup {"upload"}
        /\ md5Agg'.registered = md5Agg.registered
    BY <2>3, <2>4, CallFacts, CallKeepsRegistered
  <2>6. AggregatorInv'
    BY <1>1, <2>2, <2>5 DEF AggregatorInv
  <2>7. CASE UNCHANGED reportVars
    BY <1>3, <1>4, <2>6, <2>7 DEF ReportedInv, reportVars
  <2>8. CASE CallsFinal(md5Agg, "upload", FALSE) /\ CallBackSuccess(alreadyExisted')
    <3>1. Md5Over'
      BY <1>1, <2>8, FinalWaitsForMd5 DEF AggregatorInv, Md5Over
    <3>2. OneReport => Len(calls') <= 1
      BY <1>4, <2>8, FirstReport DEF CallBackSuccess
    <3>. QED BY <1>3, <2>2, <2>6, <3>1, <3>2 DEF ReportedInv, ThreadsOver
  <2>. QED BY <2>4, <2>7, <2>8
<1>. QED BY <1>7, <1>8

LEMMA ReportedAnswer ==
  ASSUME IInv, AggregatorInv, ReportedInv,
         NEW t \in ThreadIds, BlockWritten(t) \/ BlockFailed(t)
  PROVE  AggregatorInv' /\ ReportedInv'
<1>1. /\ state[t] = "request" /\ EventLoop /\ alive
      /\ UNCHANGED <<options, md5, md5Agg, phase>>
  BY DEF BlockWritten, BlockFailed, md5Vars, EventLoop
<1>2. exiting = FALSE /\ phase = "running" /\ state[t] \notin Stopped
  BY <1>1, AnswerFacts DEF Stopped
<1>3. OneReport' = OneReport /\ Md5Over' = Md5Over
  BY <1>1 DEF OneReport, Md5Over
<1>4. OneReport => calls = <<>>
  BY <1>1, <1>2, NothingReportedYet
<1>5. AggregatorInv'
  <2>1. "upload" \notin md5Agg.finished
    BY <1>2 DEF AggregatorInv, StoppedThreads
  <2>. QED BY <1>1, <2>1 DEF AggregatorInv
<1>6. CASE UNCHANGED calls
  BY <1>3, <1>4, <1>5, <1>6 DEF ReportedInv
<1>7. CASE ~UNCHANGED calls
  <2>1. /\ BlockFailed(t) /\ ReportError /\ doneThreads' = NumThreads
        /\ state' = [state EXCEPT ![t] = "dropped"]
        /\ doneThreads' = doneThreads + 1
    BY <1>2, <1>7 DEF BlockWritten, BlockFailed, NoThreadLeft, reportVars
  <2>2. StoppedThreads' = ThreadIds
    BY <1>2, <2>1, ThreadStops DEF IInv, Stopped
  <2>3. calls' = Append(calls, "failed") /\ alive' = options.telemetry
    BY <2>1 DEF ReportError
  <2>4. OneReport /\ options.telemetry => Md5Over'
    BY <1>1 DEF OneReport, AggregatorInv, Md5Over
  <2>. QED BY <1>3, <1>4, <1>5, <2>2, <2>3, <2>4, FirstReport
          DEF ReportedInv, ThreadsOver
<1>. QED BY <1>6, <1>7

LEMMA ReportedMd5 ==
  ASSUME IInv, AggregatorInv, ReportedInv, Md5Step
  PROVE  AggregatorInv' /\ ReportedInv'
<1>1. /\ UNCHANGED <<options, uploadVars, phase>> /\ alive
      /\ md5 \in {"hashing", "setting", "settingNull"}
      /\ md5' \in Md5States \ {"skipped"}
  BY DEF Md5Step, Md5Calculated, Md5StreamFails, PropertiesSet, EventLoop, Md5States
<1>2. /\ OneReport' = OneReport /\ StoppedThreads' = StoppedThreads
      /\ ThreadsOver' = ThreadsOver
  BY <1>1 DEF OneReport, ThreadsOver, StoppedThreads, uploadVars
<1>3. ~options.skipMd5 /\ "md5" \notin md5Agg.finished
  BY <1>1 DEF AggregatorInv
<1>4. OneReport => calls = <<>> /\ ~options.telemetry
  BY <1>1, <1>3, NothingReportedYet DEF Md5Over, OneReport
<1>5. CASE Md5Calculated
  <2>1. UNCHANGED <<md5Agg, calls>>
    BY <1>5 DEF Md5Calculated, reportVars
  <2>. QED BY <1>1, <1>2, <1>3, <1>4, <2>1 DEF AggregatorInv, ReportedInv
<1>6. CASE Md5StreamFails
  <2>1. md5Agg' = md5Agg /\ calls' = Append(calls, "failed") /\ alive' = options.telemetry
    BY <1>6 DEF Md5StreamFails, ReportError
  <2>2. AggregatorInv'
    BY <1>1, <1>2, <1>3, <2>1 DEF AggregatorInv
  <2>3. OneReport => Len(calls') <= 1 /\ ~alive'
    BY <1>4, <2>1, FirstReport
  <2>. QED BY <1>2, <2>2, <2>3 DEF ReportedInv
<1>7. ASSUME NEW error \in BOOLEAN, PropertiesSet(error)
      PROVE  AggregatorInv' /\ ReportedInv'
  <2>1. md5Agg \in Aggregators({"upload", "md5"}) /\ "md5" \in {"upload", "md5"}
    BY DEF IInv, TypeOK
  <2>2. /\ md5Agg' = Call(md5Agg, "md5", error)
        /\ md5' \in {"stored", "storedNull", "failed"}
        /\ \/ UNCHANGED calls
           \/ "upload" \in md5Agg.finished /\ CallBackSuccess(alreadyExisted)
    BY <1>7 DEF PropertiesSet, reportVars
  <2>3. /\ md5Agg'.finished = md5Agg.finished \cup {"md5"}
        /\ md5Agg'.registered = md5Agg.registered
    BY <2>1, <2>2, CallFacts, CallKeepsRegistered
  <2>4. AggregatorInv'
    BY <1>1, <1>2, <1>3, <2>2, <2>3 DEF AggregatorInv
  <2>5. CASE UNCHANGED calls
    BY <1>2, <1>4, <2>4, <2>5 DEF ReportedInv
  <2>6. CASE "upload" \in md5Agg.finished /\ CallBackSuccess(alreadyExisted)
    <3>1. ThreadsOver' /\ Md5Over'
      BY <1>2, <2>2, <2>6 DEF AggregatorInv, ThreadsOver, Md5Over
    <3>2. OneReport => Len(calls') <= 1
      BY <1>4, <2>6, FirstReport DEF CallBackSuccess
    <3>. QED BY <1>2, <2>4, <3>1, <3>2 DEF ReportedInv
  <2>. QED BY <2>2, <2>5, <2>6
<1>. QED BY <1>5, <1>6, <1>7 DEF Md5Step

LEMMA StepReported ==
  IInv /\ AggregatorInv /\ ReportedInv /\ [Next]_vars => (AggregatorInv /\ ReportedInv)'
<1> SUFFICES ASSUME IInv, AggregatorInv, ReportedInv, [Next]_vars
             PROVE  AggregatorInv' /\ ReportedInv'
  OBVIOUS
<1>1. ASSUME NEW t \in ThreadIds, ThreadStep(t) PROVE AggregatorInv' /\ ReportedInv'
  BY <1>1, ReportedNextBlock, ReportedAnswer DEF ThreadStep, NextCalled
<1>2. CASE ProcessExits \/ UNCHANGED vars
  <2>1. /\ UNCHANGED <<options, phase, md5, md5Agg, state, calls>>
        /\ alive' = FALSE \/ alive' = alive
    BY <1>2 DEF ProcessExits, vars, uploadVars, md5Vars, reportVars
  <2>2. StoppedThreads' = StoppedThreads
    BY <2>1 DEF StoppedThreads
  <2>. QED BY <2>1, <2>2
          DEF AggregatorInv, ReportedInv, OneReport, ThreadsOver, Md5Over
<1>. QED BY <1>1, <1>2, ReportedStarts, ReportedMd5 DEF Next, Terminated

\* The caller is called back once at most, whichever of the threads, the search
\* for empty blocks and the MD5 comes to its end first (callbackAndAggregator(),
\* exitWithError() and callback() in onBlobCreated()), unless exitWithError()
\* returns while the MD5 is under way.
THEOREM CallerIsCalledOnce == Spec => []CalledBackOnce
<1>1. ReportedInv => CalledBackOnce
  BY DEF ReportedInv, OneReport, CalledBackOnce
<1>. QED BY <1>1, InitIInv, StepIInv, InitReported, StepReported, PTL DEF Spec

-------------------------------------------------------------------------------
(* The upload implements BlockTransfer, as far as safety goes.               *)

\* Nothing can be written after a success.
OutcomeInv == Outcome = "success" => StoppedThreads = ThreadIds

\* Only the first call and the end of the process make an outcome.
LEMMA OutcomeNext ==
  ASSUME IInv, alive
  PROVE  /\ UNCHANGED <<calls, alive>> => Outcome' = Outcome
         /\ (UNCHANGED calls /\ alive' = FALSE) \/ ReportError
              => \/ Outcome' = Outcome
                 \/ Outcome = "running" /\ Outcome' = "failure"
         /\ \A existed \in BOOLEAN : CallBackSuccess(existed)
              => \/ Outcome' = Outcome
                 \/ Outcome = "running" /\ Outcome' = "success"
<1>1. calls \in Seq(Outcomes)
  BY DEF IInv, TypeOK
<1>2. UNCHANGED <<calls, alive>> => Outcome' = Outcome
  BY DEF Outcome
<1>3. ASSUME UNCHANGED calls, alive' = FALSE
      PROVE  Outcome' = Outcome \/ (Outcome = "running" /\ Outcome' = "failure")
  BY <1>3 DEF Outcome
<1>4. ASSUME NEW call \in Outcomes, calls' = Append(calls, call)
      PROVE  \/ Outcome' = Outcome
             \/ /\ Outcome = "running"
                /\ Outcome' = IF call = "failed" THEN "failure" ELSE "success"
  <2>1. calls' # <<>> /\ calls'[1] = IF calls = <<>> THEN call ELSE calls[1]
    BY <1>1, <1>4
  <2>. QED BY <2>1 DEF Outcome
<1>5. ReportError => Outcome' = Outcome \/ (Outcome = "running" /\ Outcome' = "failure")
  BY <1>4 DEF ReportError, Outcomes
<1>6. ASSUME NEW existed \in BOOLEAN, CallBackSuccess(existed)
      PROVE  Outcome' = Outcome \/ (Outcome = "running" /\ Outcome' = "success")
  BY <1>4, <1>6 DEF CallBackSuccess, Outcomes
<1>. QED BY <1>2, <1>3, <1>5, <1>6

\* The ways in which a step can be seen from outside.
Unseen == pages' = pages /\ Outcome' = Outcome
SeenToFail == pages' = pages /\ Outcome = "running" /\ Outcome' = "failure"
SeenToSucceed ==
  /\ pages' = pages /\ Outcome = "running" /\ Outcome' = "success"
  /\ AllUploaded /\ StoppedThreads' = ThreadIds
SeenToWrite ==
  /\ StoppedThreads # ThreadIds
  /\ \E b \in Blocks : \E applied \in SUBSET {b} : pages' = pages \cup applied
  /\ \/ Outcome' = Outcome
     \/ Outcome = "running" /\ Outcome' = "failure"

Seen == Unseen \/ SeenToFail \/ SeenToSucceed \/ SeenToWrite

LEMMA SeenNextBlock ==
  ASSUME IInv, NEW t \in ThreadIds, NextCalled(t)
  PROVE  Seen
<1>1. /\ NextBlock(t) /\ state[t] \notin Stopped /\ alive
      /\ UNCHANGED <<options, nothingToDo>>
  BY NextCalledFacts DEF NextCalled, StartThread, RunNext, EventLoop
<1>2. pages' = pages
  BY <1>1 DEF NextBlock, GoIdle, SkipBlock, SendBlock
<1>3. CASE UNCHANGED <<calls, alive>>
  BY <1>1, <1>2, <1>3, OutcomeNext DEF Seen, Unseen
<1>4. CASE ~UNCHANGED <<calls, alive>>
  <2>1. /\ GoIdle(t) /\ doneThreads' = runningThreads'
        /\ CallBackSuccess(alreadyExisted') /\ UploadFinished
    BY <1>1, <1>4 DEF NextBlock, GoIdle, SkipBlock, SendBlock, UploadFinished, reportVars
  <2>2. alreadyExisted' \in BOOLEAN
    BY <2>1 DEF UploadFinished, NothingSent
  <2>3. \/ Outcome' = Outcome
        \/ Outcome = "running" /\ Outcome' = "success"
    BY <1>1, <2>1, <2>2, OutcomeNext
  <2>4. StoppedThreads' = ThreadIds
    <3>1. /\ state' = [state EXCEPT ![t] = "idle"]
          /\ doneThreads' = doneThreads + 1 /\ NextIndex(tracker) = Undefined
      BY <2>1 DEF GoIdle
    <3>2. runningThreads' = NumThreads
      BY <3>1, NextCalledFacts
    <3>. QED BY <1>1, <2>1, <3>1, <3>2, ThreadStops DEF IInv, Stopped
  <2>5. AllUploaded
    <3>1. Outstanding(tracker) = {} /\ state' = [state EXCEPT ![t] = "idle"]
      BY <2>1, NextIndexUndefined DEF GoIdle, IInv, TypeOK
    <3>2. \A u \in ThreadIds \ {t} : state'[u] = state[u]
      BY <3>1 DEF IInv, TypeOK
    <3>3. state[t] # "request"
      BY NextCalledFacts
    <3>. QED BY <2>4, <3>1, <3>2, <3>3, NothingLeft DEF IInv
  <2>. QED BY <1>2, <2>3, <2>4, <2>5 DEF Seen, Unseen, SeenToSucceed
<1>. QED BY <1>3, <1>4

LEMMA SeenAnswer ==
  ASSUME IInv, NEW t \in ThreadIds, BlockWritten(t) \/ BlockFailed(t)
  PROVE  Seen
<1>1. state[t] = "request" /\ EventLoop /\ alive
  BY DEF BlockWritten, BlockFailed, EventLoop
<1>2. inFlight[t] \in Indices /\ StoppedThreads # ThreadIds
  BY <1>1, AnswerFacts DEF StoppedThreads, Stopped
<1>3. BlockOf(inFlight[t]) \in Blocks
  BY <1>2, BlockOfOnto
<1>4. \E applied \in SUBSET {BlockOf(inFlight[t])} : pages' = pages \cup applied
  BY DEF BlockWritten, BlockFailed
<1>5. UNCHANGED <<calls, alive>> \/ ReportError
  BY DEF BlockWritten, BlockFailed, reportVars
<1>6. \/ Outcome' = Outcome
      \/ Outcome = "running" /\ Outcome' = "failure"
  BY <1>1, <1>5, OutcomeNext
<1>. QED BY <1>2, <1>3, <1>4, <1>6 DEF Seen, SeenToWrite

LEMMA SeenOther ==
  ASSUME IInv, AggregatorInv,
         \/ NonZeroBlocksFound \/ FindNonZeroBlocksFails \/ ThreadsStarted
         \/ Md5Step \/ ProcessExits
  PROVE  Seen
<1>1. alive /\ UNCHANGED <<pages, state>> /\ StoppedThreads' = StoppedThreads
  BY DEF NonZeroBlocksFound, FindNonZeroBlocksFails, ThreadsStarted, Md5Step,
         Md5Calculated, Md5StreamFails, PropertiesSet, ProcessExits, EventLoop,
         uploadVars, StoppedThreads
<1>2. \/ UNCHANGED <<calls, alive>>
      \/ UNCHANGED calls /\ alive' = FALSE
      \/ ReportError
      \/ "upload" \in md5Agg.finished /\ CallBackSuccess(alreadyExisted)
  BY DEF NonZeroBlocksFound, FindNonZeroBlocksFails, ThreadsStarted, Md5Step,
         Md5Calculated, Md5StreamFails, PropertiesSet, ProcessExits, reportVars
<1>3. CASE UNCHANGED <<calls, alive>>
  BY <1>1, <1>3, OutcomeNext DEF Seen, Unseen
<1>4. CASE (UNCHANGED calls /\ alive' = FALSE) \/ ReportError
  BY <1>1, <1>4, OutcomeNext DEF Seen, Unseen, SeenToFail
<1>5. CASE "upload" \in md5Agg.finished /\ CallBackSuccess(alreadyExisted)
  <2>1. alreadyExisted \in BOOLEAN /\ AllUploaded
    BY <1>5 DEF IInv, TypeOK, ReportInv
  <2>2. StoppedThreads' = ThreadIds
    BY <1>1, <1>5 DEF AggregatorInv
  <2>3. \/ Outcome' = Outcome
        \/ Outcome = "running" /\ Outcome' = "success"
    BY <1>1, <1>5, <2>1, OutcomeNext
  <2>. QED BY <1>1, <2>1, <2>2, <2>3 DEF Seen, Unseen, SeenToSucceed
<1>. QED BY <1>2, <1>3, <1>4, <1>5

\* A thread that has stopped stays so.
LEMMA StoppedStay ==
  ASSUME IInv, [Next]_vars, StoppedThreads = ThreadIds
  PROVE  StoppedThreads' = ThreadIds
<1>1. \A t \in ThreadIds : state[t] \in Stopped
  BY DEF StoppedThreads
<1>2. \A t \in ThreadIds : ~NextCalled(t) /\ ~BlockWritten(t) /\ ~BlockFailed(t)
  <2>1. \A t \in ThreadIds : ~NextCalled(t)
    BY <1>1, NextCalledFacts
  <2>. QED BY <1>1, <2>1 DEF BlockWritten, BlockFailed, Stopped
<1>3. state' = state
  BY <1>2 DEF Next, ThreadStep, NextCalled, NonZeroBlocksFound,
              FindNonZeroBlocksFails, ThreadsStarted, Md5Step, Md5Calculated,
              Md5StreamFails, PropertiesSet, ProcessExits, Terminated, vars, uploadVars
<1>. QED BY <1>3 DEF StoppedThreads

LEMMA StepTransfer ==
  ASSUME IInv, AggregatorInv, OutcomeInv, [Next]_vars
  PROVE  OutcomeInv' /\ [Transfer!Next]_(Transfer!vars)
<1>1. nothingToDo' = nothingToDo
  BY DEF Next, ThreadStep, StartThread, RunNext, BlockWritten, BlockFailed,
         NonZeroBlocksFound, FindNonZeroBlocksFails, ThreadsStarted, Md5Step,
         Md5Calculated, Md5StreamFails, PropertiesSet, ProcessExits, Terminated, vars
<1>2. Seen
  <2>1. CASE UNCHANGED vars
    BY <2>1 DEF vars, reportVars, Outcome, Seen, Unseen
  <2>2. CASE Next
    BY <2>1, <2>2, SeenNextBlock, SeenAnswer, SeenOther
       DEF Next, ThreadStep, NextCalled, Terminated
  <2>. QED BY <2>1, <2>2
<1>3. OutcomeInv'
  BY <1>2, StoppedStay DEF OutcomeInv, Seen, Unseen, SeenToFail, SeenToSucceed, SeenToWrite
<1>4. pages \subseteq Blocks /\ nothingToDo \subseteq Blocks
  BY DEF IInv, TypeOK
<1>5. [Transfer!Next]_(Transfer!vars)
  <2>1. CASE Unseen
    BY <1>1, <2>1 DEF Unseen, Transfer!vars
  <2>2. CASE SeenToFail
    <3>1. pages' \cup nothingToDo' = (pages \cup nothingToDo) \cup {}
      BY <1>1, <2>2 DEF SeenToFail
    <3>. QED BY <2>2, <3>1 DEF SeenToFail, Transfer!Next, Transfer!Fail
  <2>3. CASE SeenToSucceed
    <3>1. pages \cup nothingToDo = Blocks
      BY <1>4, <2>3 DEF SeenToSucceed, AllUploaded
    <3>. QED BY <1>1, <2>3, <3>1 DEF SeenToSucceed, Transfer!Next, Transfer!Succeed
  <2>4. CASE SeenToWrite
    <3>1. Outcome # "success"
      BY <2>4 DEF OutcomeInv, SeenToWrite
    <3>2. PICK b \in Blocks : \E applied \in SUBSET {b} : pages' = pages \cup applied
      BY <2>4 DEF SeenToWrite
    <3>3. \/ pages' \cup nothingToDo' = pages \cup nothingToDo
          \/ pages' \cup nothingToDo' = (pages \cup nothingToDo) \cup {b}
      BY <1>1, <3>2
    <3>4. CASE Outcome' = Outcome
      BY <3>1, <3>2, <3>3, <3>4 DEF Transfer!Next, Transfer!Transfer, Transfer!vars
    <3>5. CASE Outcome = "running" /\ Outcome' = "failure"
      <4>1. \E blocks \in SUBSET Blocks :
              pages' \cup nothingToDo' = (pages \cup nothingToDo) \cup blocks
        BY <3>2, <3>3
      <4>. QED BY <3>5, <4>1 DEF Transfer!Next, Transfer!Fail
    <3>. QED BY <2>4, <3>4, <3>5 DEF SeenToWrite
  <2>. QED BY <1>2, <2>1, <2>2, <2>3, <2>4 DEF Seen
<1>. QED BY <1>3, <1>5

\* Threads, retries, dropped threads, the aggregator and the MD5 cannot be seen:
\* for any number of blocks and threads an upload writes blocks in any order,
\* and then succeeds, with all of them, or fails (the safety of BlockTransfer).
THEOREM TransferIsSafe == Spec => Transfer!Init /\ [][Transfer!Next]_(Transfer!vars)
<1>1. Init => Transfer!Init /\ OutcomeInv
  BY DEF Init, Transfer!Init, Outcome, OutcomeInv
<1>2. IInv /\ AggregatorInv /\ ReportedInv /\ OutcomeInv /\ [Next]_vars =>
        OutcomeInv' /\ [Transfer!Next]_(Transfer!vars)
  BY StepTransfer
<1>. QED BY <1>1, <1>2, InitIInv, StepIInv, InitReported, StepReported, PTL DEF Spec

===============================================================================
