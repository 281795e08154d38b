---------------------------- MODULE PageBlobUpload ----------------------------
(***************************************************************************)
(* The upload of a VHD into a page blob that exists already:               *)
(* lib/commands/asm/iaas/upload/pageBlob.js, from onBlobCreated() on.      *)
(*                                                                         *)
(* numThreads parallel connections ("threads", chains of callbacks in one  *)
(* event loop) take block indices from a jobTracker, send each block with  *)
(* createPagesFromStream() and continue with the next one.  Next to them   *)
(* the MD5 of the file is computed and stored with setBlobProperties().    *)
(* An aggregator waits for the two and then calls the caller back.         *)
(*                                                                         *)
(* The blob service is the environment: it answers every request, with an  *)
(* error whenever it likes, and a request that fails may have been applied.*)
(***************************************************************************)
EXTENDS JobTracker, CallbackAggregator

CONSTANTS
  Threads,      \* options.threads
  OptionSpace   \* the combinations of options and circumstances considered

\* dynVHD:    the file is a dynamic or a difference VHD
\* skipMd5:   -m was given, or the blob carries an MD5 already
\* telemetry: the CLI sends telemetry before it exits, so that the process
\*            outlives a failed command's callback for a while
Options == [dynVHD : BOOLEAN, skipMd5 : BOOLEAN, telemetry : BOOLEAN]

ASSUME ThreadsAssumption == Threads \in Nat \ {0}
ASSUME OptionSpaceAssumption == OptionSpace \subseteq Options

NumThreads == IF Threads < IndexCount THEN Threads ELSE IndexCount
ThreadIds == 0 .. NumThreads - 1

\* Blocks are numbered by their place in the file, the footer is the last.
Blocks == 0 .. IndexCount - 1

Footer == IndexCount - 1

\* The footer is requested first, then the file from its beginning.
BlockOf(index) == IF index = 0 THEN Footer ELSE index - 1

VARIABLES
  options,         \* the member of OptionSpace this upload runs with
  nothingToDo,     \* blocks that are all zeroes or in the blob already
  pages,           \* blocks this upload has written to the blob (the service)
  phase,           \* "detecting" zero blocks, "starting", "running", "failed"
  tracker,
  state,           \* what each thread waits for
  inFlight,        \* the index each thread has a request out for
  runningThreads,
  doneThreads,
  wasIdle,
  alreadyDone,
  exiting,
  md5,             \* progress of the MD5 computation
  md5Agg,
  alreadyExisted,  \* finished.upload[1]
  calls,           \* the calls of the caller's callback so far
  exitPending,     \* the caller has been given an error: the process will exit
  alive            \* the process is running

uploadVars == <<tracker, state, inFlight, runningThreads, doneThreads,
                wasIdle, alreadyDone>>
reportVars == <<calls, exitPending, alive>>
md5Vars == <<md5, md5Agg, alreadyExisted>>
vars == <<options, nothingToDo, pages, phase, uploadVars, exiting, md5Vars,
          reportVars>>

\* "new":     startThreads() has not come to the thread
\* "next":    next() is due for it
\* "request": createPagesFromStream() is out
\* "idle":    next() found no index
\* "dropped": stopped after an error
\* "left":    it returned because of exiting
ThreadStates == {"new", "next", "request", "idle", "dropped", "left"}
Stopped == {"idle", "dropped", "left"}

Md5States == {"skipped", "hashing", "stopped", "setting", "settingNull",
              "stored", "storedNull", "failed"}

Outcomes == {"uploaded", "existed", "failed"}

TypeOK ==
  /\ options \in OptionSpace
  /\ nothingToDo \subseteq Blocks
  /\ pages \subseteq Blocks
  /\ phase \in {"detecting", "starting", "running", "failed"}
  /\ tracker \in Tracker
  /\ state \in [ThreadIds -> ThreadStates]
  /\ inFlight \in [ThreadIds -> Indices \cup {Undefined}]
  /\ runningThreads \in 0 .. NumThreads
  /\ doneThreads \in 0 .. NumThreads
  /\ wasIdle \in BOOLEAN
  /\ alreadyDone \in Nat
  /\ exiting \in BOOLEAN
  /\ md5 \in Md5States
  /\ md5Agg \in Aggregators({"upload", "md5"})
  /\ alreadyExisted \in BOOLEAN
  /\ calls \in Seq(Outcomes)
  /\ exitPending \in BOOLEAN
  /\ alive \in BOOLEAN

-------------------------------------------------------------------------------
(* onBlobCreated() up to its first callback: the MD5 stream is open, and    *)
(* findNonZeroBlocks() is running if the VHD is a fixed one.                *)
Init ==
  /\ options \in OptionSpace
  /\ nothingToDo \in SUBSET Blocks
  /\ pages = {}
  /\ phase = IF options.dynVHD THEN "starting" ELSE "detecting"
  /\ tracker = NewTracker
  /\ state = [t \in ThreadIds |-> "new"]
  /\ inFlight = [t \in ThreadIds |-> Undefined]
  /\ runningThreads = 0
  /\ doneThreads = 0
  /\ wasIdle = FALSE
  /\ alreadyDone = 0
  /\ exiting = FALSE
  /\ md5 = IF options.skipMd5 THEN "skipped" ELSE "hashing"
  /\ md5Agg = LET upload == GetCallback(NewAggregator, "upload")
              IN IF options.skipMd5 THEN upload ELSE GetCallback(upload, "md5")
  /\ alreadyExisted = FALSE
  /\ calls = <<>>
  /\ exitPending = FALSE
  /\ alive = TRUE

-------------------------------------------------------------------------------
(* The event loop, and the end of the command.                              *)

\* While startThreads() runs, no other callback does.
EventLoop == alive /\ phase # "starting"

\* callback(error), and exitWithError(error), which the commands set to the
\* same function.  The CLI exits, at once or after telemetry has been sent.
ReportError ==
  /\ calls' = Append(calls, "failed")
  /\ exitPending' = TRUE
  /\ alive' = options.telemetry

ProcessExits ==
  /\ EventLoop
  /\ exitPending
  /\ alive' = FALSE
  /\ UNCHANGED <<options, nothingToDo, pages, phase, uploadVars, exiting,
                 md5Vars, calls, exitPending>>

\* The function given to callbackAndAggregator().
CallBackSuccess(existed) ==
  /\ calls' = Append(calls, IF existed THEN "existed" ELSE "uploaded")
  /\ UNCHANGED <<exitPending, alive>>

-------------------------------------------------------------------------------
(* Threads.                                                                 *)

NonZeroBlocksFound ==
  /\ alive /\ phase = "detecting"
  /\ phase' = "starting"
  /\ UNCHANGED <<options, nothingToDo, pages, uploadVars, exiting, md5Vars,
                 reportVars>>

FindNonZeroBlocksFails ==
  /\ alive /\ phase = "detecting"
  /\ phase' = "failed"
  /\ ReportError
  /\ UNCHANGED <<options, nothingToDo, pages, uploadVars, exiting, md5Vars>>

\* Mutation: one block that was there is taken for all of them.
NothingSent_AnySkipped == alreadyDone > 0

NothingSent == alreadyDone = tracker.completed

\* md5AggUpload(null, alreadyDone === tracker.getCompleted())
UploadFinished ==
  /\ alreadyExisted' = NothingSent
  /\ md5Agg' = Call(md5Agg, "upload", FALSE)
  /\ IF CallsFinal(md5Agg, "upload", FALSE)
     THEN CallBackSuccess(alreadyExisted')
     ELSE UNCHANGED reportVars

\* next(): there is no index left for the thread.
GoIdle(t) ==
  /\ NextIndex(tracker) = Undefined
  /\ tracker' = AfterNextIndex(tracker)
  /\ state' = [state EXCEPT ![t] = "idle"]
  /\ wasIdle' = TRUE
  /\ doneThreads' = doneThreads + 1
  /\ IF doneThreads' = runningThreads'
     THEN UploadFinished
     ELSE UNCHANGED <<alreadyExisted, md5Agg, reportVars>>
  /\ UNCHANGED <<pages, inFlight, alreadyDone>>

\* next(): the block needs no request; toNext() is called at once and
\* schedules the thread again.
SkipBlock(t) ==
  LET index == NextIndex(tracker) IN
  /\ index # Undefined
  /\ ~exiting
  /\ BlockOf(index) \in nothingToDo
  /\ alreadyDone' = alreadyDone + 1
  /\ tracker' = MarkDone(AfterNextIndex(tracker))
  /\ state' = [state EXCEPT ![t] = "next"]
  /\ UNCHANGED <<pages, inFlight, doneThreads, wasIdle, alreadyExisted, md5Agg,
                 reportVars>>

\* next(): a request goes out, unless the upload has been given up.
SendBlock(t) ==
  LET index == NextIndex(tracker) IN
  /\ index # Undefined
  /\ BlockOf(index) \notin nothingToDo \/ exiting
  /\ tracker' = AfterNextIndex(tracker)
  /\ IF exiting
     THEN /\ state' = [state EXCEPT ![t] = "left"]
          /\ UNCHANGED inFlight
     ELSE /\ state' = [state EXCEPT ![t] = "request"]
          /\ inFlight' = [inFlight EXCEPT ![t] = index]
  /\ UNCHANGED <<pages, doneThreads, wasIdle, alreadyDone, alreadyExisted,
                 md5Agg, reportVars>>

NextBlock(t) == GoIdle(t) \/ SkipBlock(t) \/ SendBlock(t)

\* One turn of the loop in startThreads().
StartThread(t) ==
  /\ alive /\ phase = "starting"
  /\ t = runningThreads
  /\ ~IsDone(tracker)
  /\ runningThreads' = runningThreads + 1
  /\ NextBlock(t)
  /\ UNCHANGED <<options, nothingToDo, phase, exiting, md5>>

ThreadsStarted ==
  /\ alive /\ phase = "starting"
  /\ runningThreads = NumThreads \/ IsDone(tracker)
  /\ phase' = "running"
  /\ UNCHANGED <<options, nothingToDo, pages, uploadVars, exiting, md5Vars,
                 reportVars>>

\* The callback given to setImmediate().
RunNext(t) ==
  /\ EventLoop
  /\ state[t] = "next"
  /\ UNCHANGED runningThreads
  /\ NextBlock(t)
  /\ UNCHANGED <<options, nothingToDo, phase, exiting, md5>>

\* toNext() without an error.
BlockWritten(t) ==
  /\ EventLoop
  /\ state[t] = "request"
  /\ pages' = pages \cup {BlockOf(inFlight[t])}
  /\ inFlight' = [inFlight EXCEPT ![t] = Undefined]
  /\ IF exiting
     THEN /\ state' = [state EXCEPT ![t] = "left"]
          /\ UNCHANGED tracker
     ELSE /\ state' = [state EXCEPT ![t] = "next"]
          /\ tracker' = MarkDone(tracker)
  /\ UNCHANGED <<options, nothingToDo, phase, runningThreads, doneThreads,
                 wasIdle, alreadyDone, exiting, md5Vars, reportVars>>

\* Mutation: every error costs a thread.
DropsThread_EveryError(after) == ~wasIdle \/ ErrorRateAbove(after, 95)

\* Whether an error costs the thread that met it.
DropsThread(after) ==
  ErrorCount(after) % 2 = 1 /\ (~wasIdle \/ ErrorRateAbove(after, 95))

\* Mutation: off by one.
NoThreadLeft_OneTooEarly(done) == done >= NumThreads - 1

NoThreadLeft(done) == done = NumThreads

\* toNext() with an error: every other one costs a thread, and the last
\* thread gives the upload up.
BlockFailed(t) ==
  LET after == MarkError(tracker, inFlight[t]) IN
  /\ EventLoop
  /\ state[t] = "request"
  /\ \E applied \in SUBSET {BlockOf(inFlight[t])} : pages' = pages \cup applied
  /\ inFlight' = [inFlight EXCEPT ![t] = Undefined]
  /\ IF exiting
     THEN /\ state' = [state EXCEPT ![t] = "left"]
          /\ UNCHANGED <<tracker, doneThreads, exiting, reportVars>>
     ELSE /\ tracker' = after
          /\ IF DropsThread(after)
             THEN /\ state' = [state EXCEPT ![t] = "dropped"]
                  /\ doneThreads' = doneThreads + 1
                  /\ IF NoThreadLeft(doneThreads')
                     THEN exiting' = TRUE /\ ReportError
                     ELSE UNCHANGED <<exiting, reportVars>>
             ELSE /\ state' = [state EXCEPT ![t] = "next"]
                  /\ UNCHANGED <<doneThreads, exiting, reportVars>>
  /\ UNCHANGED <<options, nothingToDo, phase, runningThreads, wasIdle,
                 alreadyDone, md5Vars>>

-------------------------------------------------------------------------------
(* MD5.                                                                     *)

\* The end of the stream, or its next chunk when the upload has been given up.
Md5Calculated ==
  /\ EventLoop
  /\ md5 = "hashing"
  /\ md5' = IF exiting THEN "stopped" ELSE "setting"
  /\ UNCHANGED <<options, nothingToDo, pages, phase, uploadVars, exiting,
                 md5Agg, alreadyExisted, reportVars>>

\* The stream fails.  onMD5Calculated() goes on after exitWithError() and
\* stores an empty hash.
Md5StreamFails ==
  /\ EventLoop
  /\ md5 = "hashing"
  /\ md5' = "settingNull"
  /\ ReportError
  /\ UNCHANGED <<options, nothingToDo, pages, phase, uploadVars, exiting,
                 md5Agg, alreadyExisted>>

\* setBlobProperties() answers and md5AggMd5() is called.  The function given
\* to callbackAndAggregator() reads finished.upload[1]: before the upload has
\* finished that throws, and the uncaught exception ends the process.
PropertiesSet(error) ==
  /\ EventLoop
  /\ md5 \in {"setting", "settingNull"}
  /\ md5' = IF error THEN "failed"
            ELSE IF md5 = "setting" THEN "stored" ELSE "storedNull"
  /\ md5Agg' = Call(md5Agg, "md5", error)
  /\ IF ~CallsFinal(md5Agg, "md5", error)
     THEN UNCHANGED reportVars
     ELSE IF "upload" \in md5Agg.finished
          THEN CallBackSuccess(alreadyExisted)
          ELSE alive' = FALSE /\ UNCHANGED <<calls, exitPending>>
  /\ UNCHANGED <<options, nothingToDo, pages, phase, uploadVars, exiting,
                 alreadyExisted>>

-------------------------------------------------------------------------------
Terminated == (~alive \/ calls # <<>>) /\ UNCHANGED vars

ThreadStep(t) ==
  StartThread(t) \/ RunNext(t) \/ BlockWritten(t) \/ BlockFailed(t)

Md5Step ==
  Md5Calculated \/ Md5StreamFails \/ \E error \in BOOLEAN : PropertiesSet(error)

Next ==
  \/ NonZeroBlocksFound
  \/ FindNonZeroBlocksFails
  \/ ThreadsStarted
  \/ \E t \in ThreadIds : ThreadStep(t)
  \/ Md5Step
  \/ ProcessExits
  \/ Terminated

\* Timers, reads and requests are answered sooner or later, well or badly:
\* no fairness is asked of the successful answers.
Fairness ==
  /\ WF_vars(NonZeroBlocksFound \/ FindNonZeroBlocksFails)
  /\ WF_vars(ThreadsStarted)
  /\ \A t \in ThreadIds : WF_vars(ThreadStep(t))
  /\ WF_vars(Md5Step)
  /\ WF_vars(ProcessExits)

Spec == Init /\ [][Next]_vars /\ Fairness

-------------------------------------------------------------------------------
(* Properties.                                                              *)

Succeeded == \E i \in DOMAIN calls : calls[i] \in {"uploaded", "existed"}
Failed == \E i \in DOMAIN calls : calls[i] = "failed"

Requested == {i \in Indices : \E t \in ThreadIds :
                                state[t] = "request" /\ inFlight[t] = i}

\* The caller is told of a success only when every block is in the blob,
\* however errors, retries and stopping threads were interleaved
\* (next(), toNext() and the retry list of jobTracker).
SuccessMeansUploaded == Succeeded => Blocks \subseteq pages \cup nothingToDo

\* An index is fresh, or in one thread's request, or once in the retry list,
\* or counted as completed: none is lost and none is uploaded twice at a time,
\* so "completed" counts blocks, as the progress and the error rate assume.
EveryIndexAccountedFor ==
  /\ \A t, u \in ThreadIds :
       t # u /\ state[t] = "request" /\ state[u] = "request"
         => inFlight[t] # inFlight[u]
  /\ tracker.completed + Cardinality(Requested)
       + Cardinality(Fresh(tracker)) + Cardinality(Pending(tracker)) = IndexCount

\* When the upload is given up nothing of it goes on: no request is out and
\* no thread is due, so the error that is reported is the last event.
GivenUpIsQuiet == exiting => \A t \in ThreadIds : state[t] \in {"idle", "dropped"}

\* The upload is given up only after two errors for each thread but one, or,
\* with a block completed, at an error rate above 95% - that is 20 errors.
GivenUpAfterManyErrors ==
  exiting => \/ ErrorCount(tracker) >= 2 * NumThreads - 1
             \/ tracker.completed >= 1 /\ ErrorCount(tracker) >= 20

\* "was already uploaded" is reported exactly when this upload wrote nothing:
\* alreadyDone keeps up with completed over retries and skipped blocks.
AlreadyExistedIsAccurate ==
  \A i \in DOMAIN calls :
    /\ calls[i] = "existed" => pages = {} /\ nothingToDo = Blocks
    /\ calls[i] = "uploaded" => pages # {}

\* The caller is called back at most once, except that with telemetry to send
\* exitWithError() returns and a failure of the MD5 stream is followed by more.
CalledBackOnce == options.skipMd5 \/ ~options.telemetry => Len(calls) <= 1

\* Unless it is skipped, a success means that the MD5 of the file is stored.
SuccessMeansMd5 == Succeeded => md5 \in {"skipped", "stored"}

\* What the caller and an observer of the blob see of the upload.  The end of
\* the process is an outcome as well.
Outcome ==
  IF calls # <<>>
  THEN IF calls[1] = "failed" THEN "failure" ELSE "success"
  ELSE IF alive THEN "running" ELSE "failure"

Transfer == INSTANCE BlockTransfer
              WITH transferred <- pages \cup nothingToDo, outcome <- Outcome

\* Up to its first report an upload is a BlockTransfer: threads, retries,
\* dropped threads and the aggregator cannot be seen, and one is made even if
\* the service fails every request (errors cost threads, and while threads are
\* idle the error rate ends the upload).
ImplementsTransfer == Transfer!Spec

===============================================================================
