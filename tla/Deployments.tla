------------------------------ MODULE Deployments -------------------------------
(***************************************************************************)
(* lib/commands/arm/group/group.deployment._js and groupUtils._js: the     *)
(* commands that create, stop and delete the deployments of a resource     *)
(* group, several at a time, while the service carries the deployments     *)
(* out.                                                                    *)
(*                                                                         *)
(* A deployment is known by its name only.  A command that waits for one   *)
(* asks for its state again and again; a command that stops one without    *)
(* being told its name looks for it in two lists, of the deployments that  *)
(* are accepted and of those that run, each of which comes in pages.       *)
(***************************************************************************)
EXTENDS FiniteSets, Integers

CONSTANTS
  Commands,
  KindsOf,      \* the kinds that each command may be of
  Names         \* of deployments, in the order in which they are listed

Kinds == {"deploy", "stop", "delete"}

ASSUME KindsOfAssumption == KindsOf \in [Commands -> SUBSET Kinds]
ASSUME NamesAssumption == Names \subseteq Nat \ {0} /\ IsFiniteSet(Names)

Earlier == "earlier"
NoName == 0

ASSUME CommandsAssumption == Earlier \notin Commands

States == {"none", "accepted", "running", "succeeded", "failed", "canceled"}
ActiveStates == {"accepted", "running"}

\* Mutation: the list of those that run comes first.
FirstFilter_Running == "running"

\* stop reads two lists, that of the accepted deployments first.
FirstFilter == "accepted"
SecondFilter == CHOOSE s \in ActiveStates : s # FirstFilter

VARIABLES
  deployments,  \* by name: the state, and the command that has begun it
  job,          \* what each command is at
  steady,       \* by command that stops: what has been active ever since it started
  crowded,      \* those that looked while two deployments were active at a time
  shifted       \* those that looked while a deployment started to run

vars == <<deployments, job, steady, crowded, shifted>>

Stages ==
  {"due", "validating", "beginning", "waiting", "listingOperations", "explaining",
   "finding", "confirming", "cancelling", "checking", "deleting", "over"}

\* filter, after, found: the list that is read, the last name that was on it, and
\* what has been found on each;  seen: the state that was answered last
Jobs ==
  [kind : Kinds, at : Stages, name : Names \cup {NoName}, waits : BOOLEAN,
   searches : BOOLEAN, filter : ActiveStates, after : Names \cup {NoName},
   found : [ActiveStates -> SUBSET Names], seen : States,
   outcome : {"none", "ok", "failed", "idle", "several"}]

NoJob ==
  [kind |-> "deploy", at |-> "due", name |-> NoName, waits |-> FALSE,
   searches |-> FALSE, filter |-> FirstFilter, after |-> NoName,
   found |-> [s \in ActiveStates |-> {}], seen |-> "none", outcome |-> "none"]

TypeOK ==
  /\ deployments \in [Names -> [state : States, by : Commands \cup {Earlier}]]
  /\ job \in [Commands -> Jobs]
  /\ steady \in [Commands -> SUBSET Names]
  /\ crowded \subseteq Commands
  /\ shifted \subseteq Commands
  /\ \A c \in Commands :
       /\ job[c].name = NoName => job[c].at \in {"due", "finding", "over"} /\ ~job[c].waits
       /\ job[c].at \in {"finding", "confirming", "cancelling", "checking", "deleting"} =>
            ~job[c].waits

Init ==
  /\ deployments \in [Names -> [state : {"none", "accepted"}, by : {Earlier}]]
  /\ job = [c \in Commands |-> NoJob]
  /\ steady = [c \in Commands |-> {}]
  /\ crowded = {}
  /\ shifted = {}

Exists(n) == deployments[n].state # "none"
IsActive(n) == deployments[n].state \in ActiveStates
ActiveNames == {n \in Names : IsActive(n)}

InProgress(c) == job[c].at \notin {"due", "over"}

-------------------------------------------------------------------------------
(* What all commands have in common.                                        *)

\* A request is "served", or refused if it is not possible; or it "failed", or
\* was applied but its answer "lost".
Answers == {"served", "failed", "lost"}
Applies(possible, answer) == possible /\ answer # "failed"
Succeeds(possible, answer) == possible /\ answer = "served"

\* The service may or may not take a request for a deployment that is active.
MayTake(n) == IF IsActive(n) THEN BOOLEAN ELSE {TRUE}

Goto(c, stage) == job' = [job EXCEPT ![c].at = stage]
Report(c, outcome) ==
  LET known == job[c].waits /\ outcome = "ok"
  IN job' = [job EXCEPT ![c] = [NoJob EXCEPT !.at = "over", !.outcome = outcome,
                                             !.searches = job[c].searches, !.waits = known,
                                             !.name = IF known THEN job[c].name ELSE NoName]]
Outcome(succeeds) == IF succeeds THEN "ok" ELSE "failed"

StartOf(c, kind, stage) ==
  /\ job[c].at = "due" /\ kind \in KindsOf[c]
  /\ UNCHANGED deployments
  /\ \E name \in Names, waits, searches \in BOOLEAN :
       /\ waits => kind = "deploy"
       /\ searches => kind = "stop"
       /\ job' = [job EXCEPT ![c] =
                    [NoJob EXCEPT !.kind = kind, !.waits = waits, !.searches = searches,
                                  !.at = IF searches THEN "finding" ELSE stage,
                                  !.name = IF searches THEN NoName ELSE name]]

-------------------------------------------------------------------------------
(* group deployment create, and group create with a template, which does   *)
(* not wait.                                                                *)

StartDeploy(c) == StartOf(c, "deploy", "validating")

\* createDeployment(): the template may be found to be invalid.
Validate(c, answer) ==
  /\ job[c].at = "validating"
  /\ (answer = "served" /\ Goto(c, "beginning")) \/ Report(c, "failed")
  /\ UNCHANGED deployments

\* beginCreateOrUpdate(): the deployment takes the place of an earlier one.
Begin(c, answer) ==
  LET n == job[c].name
  IN /\ job[c].at = "beginning"
     /\ \E possible \in MayTake(n) :
          /\ deployments' = IF Applies(possible, answer)
                            THEN [deployments EXCEPT ![n] = [state |-> "accepted", by |-> c]]
                            ELSE deployments
          /\ IF Succeeds(possible, answer) /\ job[c].waits THEN Goto(c, "waiting")
             ELSE Report(c, Outcome(Succeeds(possible, answer)))

\* deployments.get(), after a pause.
GetDeployment(c, answer) ==
  LET n == job[c].name
  IN /\ job[c].at = "waiting"
     /\ IF Succeeds(Exists(n), answer)
        THEN job' = [job EXCEPT ![c].at = "listingOperations", ![c].seen = deployments[n].state]
        ELSE Report(c, "failed")
     /\ UNCHANGED deployments

\* Mutation: a deployment that is only accepted has ended.
GoesOn_Running(state) == state = "running"

\* Mutation: only two ends are known.
GoesOn_ToTheEnd(state) == state \notin {"succeeded", "failed"}

\* The condition of the loop.
GoesOn(state) == state \in ActiveStates

\* The operations are listed and shown, whatever the state that was got before.
ListOperations(c, answer) ==
  LET seen == job[c].seen
  IN /\ job[c].at = "listingOperations"
     /\ IF ~Succeeds(Exists(job[c].name), answer) THEN Report(c, "failed")
        ELSE IF GoesOn(seen) THEN Goto(c, "waiting")
        ELSE IF seen = "succeeded" THEN Report(c, "ok")
        ELSE Goto(c, "explaining")
     /\ UNCHANGED deployments

\* getFailedDeploymentOperations().  A deployment that was canceled is no error.
Explain(c, answer) ==
  /\ job[c].at = "explaining"
  /\ Report(c, Outcome(Succeeds(Exists(job[c].name), answer) /\ job[c].seen # "failed"))
  /\ UNCHANGED deployments

-------------------------------------------------------------------------------
(* group deployment stop                                                    *)

StartStop(c) == StartOf(c, "stop", "confirming")

\* What is left of a list behind a name.
Rest(filter, after) == {n \in Names : n > after /\ deployments[n].state = filter}

\* The only one that was found.
Target(all) == CHOOSE n \in all : TRUE

\* What is made of the two lists together.
Decide(c, found) ==
  LET all == found["accepted"] \cup found["running"]
      number == Cardinality(found["accepted"]) + Cardinality(found["running"])
  IN CASE number = 0 -> Report(c, "idle")
       [] number = 1 -> job' = [job EXCEPT ![c].at = "confirming", ![c].found = NoJob.found,
                                           ![c].name = Target(all)]
       [] OTHER -> Report(c, "several")

\* retrieveDeployments() for one state and then for the other, page by page; the
\* service says where a page ends.
Find(c, answer) ==
  LET filter == job[c].filter
      rest == Rest(filter, job[c].after)
  IN /\ job[c].at = "finding"
     /\ \E last \in IF rest = {} THEN {NoName} ELSE rest :
          LET page == {n \in rest : n <= last}
              found == [job[c].found EXCEPT ![filter] = @ \cup page]
              more == [job[c] EXCEPT !.found = found]
          IN CASE answer # "served" -> Report(c, "failed")
               [] answer = "served" /\ rest # page ->
                    job' = [job EXCEPT ![c] = [more EXCEPT !.after = last]]
               [] answer = "served" /\ rest = page /\ filter = FirstFilter ->
                    job' = [job EXCEPT ![c] = [more EXCEPT !.filter = SecondFilter,
                                                           !.after = NoName]]
               [] OTHER -> Decide(c, found)
     /\ UNCHANGED deployments

\* The user is asked, unless -q was given, or has second thoughts.
Confirm(c, answer) ==
  /\ job[c].at = "confirming"
  /\ \/ Goto(c, IF job[c].kind = "stop" THEN "cancelling" ELSE "checking")
     \/ Report(c, "ok")
  /\ UNCHANGED deployments

Cancel(c, answer) ==
  LET n == job[c].name
      possible == IsActive(n)
  IN /\ job[c].at = "cancelling"
     /\ deployments' = IF Applies(possible, answer)
                       THEN [deployments EXCEPT ![n].state = "canceled"] ELSE deployments
     /\ Report(c, Outcome(Succeeds(possible, answer)))

-------------------------------------------------------------------------------
(* group deployment delete                                                  *)

StartDelete(c) == StartOf(c, "delete", "confirming")

\* checkExistence(): only an error counts, the answer itself is not looked at.
Check(c, answer) ==
  /\ job[c].at = "checking"
  /\ IF answer = "served" THEN Goto(c, "deleting") ELSE Report(c, "failed")
  /\ UNCHANGED deployments

Delete(c, answer) ==
  LET n == job[c].name
  IN /\ job[c].at = "deleting"
     /\ \E possible \in MayTake(n) :
          /\ deployments' = IF Applies(possible, answer)
                            THEN [deployments EXCEPT ![n] = [state |-> "none", by |-> Earlier]]
                            ELSE deployments
          /\ Report(c, Outcome(Succeeds(possible, answer)))

-------------------------------------------------------------------------------
(* The service, and all together.                                           *)

Progress(n) ==
  /\ \E state \in States :
       /\ \/ deployments[n].state = "accepted" /\ state = "running"
          \/ deployments[n].state = "running" /\ state \in {"succeeded", "failed"}
       /\ deployments' = [deployments EXCEPT ![n].state = state]
  /\ UNCHANGED job

Step(c) ==
  InProgress(c) /\ \E answer \in Answers :
    \/ Validate(c, answer) \/ Begin(c, answer) \/ GetDeployment(c, answer)
    \/ ListOperations(c, answer) \/ Explain(c, answer) \/ Find(c, answer)
    \/ Confirm(c, answer) \/ Cancel(c, answer) \/ Check(c, answer) \/ Delete(c, answer)

StartsToRun(n) == deployments[n].state = "accepted" /\ deployments'[n].state = "running"

\* What a stop without a name could find is watched until it has decided.
Watch ==
  LET looks(c) == job'[c].searches /\ job[c].at \in {"due", "finding"}
      still(c) == IF job[c].at = "due" THEN ActiveNames
                  ELSE {n \in steady[c] : IsActive(n)' /\ deployments'[n].by = deployments[n].by}
      kept(before, met) ==
        {c \in Commands : job'[c].searches /\ (c \in before \/ (looks(c) /\ met))}
  IN /\ steady' = [c \in Commands |-> IF looks(c) THEN still(c) ELSE {}]
     /\ crowded' = kept(crowded, Cardinality(ActiveNames') > 1)
     /\ shifted' = kept(shifted, \E n \in Names : StartsToRun(n))

Start(c) == StartDeploy(c) \/ StartStop(c) \/ StartDelete(c)
Ended == \A c \in Commands : job[c].at = "over"
Terminated == Ended /\ ActiveNames = {} /\ UNCHANGED vars

Next ==
  \/ (\E c \in Commands : Start(c) \/ Step(c)) /\ Watch
  \/ (\E n \in Names : Progress(n)) /\ Watch
  \/ Terminated

\* Every request is answered in the end, the user answers too, and the service
\* carries out every deployment.
Spec ==
  /\ Init /\ [][Next]_vars
  /\ \A c \in Commands : WF_vars(Step(c) /\ Watch)
  /\ \A n \in Names : WF_vars(Progress(n) /\ Watch)

-------------------------------------------------------------------------------
(* Properties.                                                              *)

\* A stop that was given no name finds every deployment that is active all the
\* while, although none of its requests sees them all: one that is accepted may
\* run by the time the second list is read, and a list may have several pages.
\* So it never says that there is nothing to stop, or asks for one deployment to
\* be stopped, while it leaves out another.
StopMissesNothing ==
  \A c \in Commands :
    job[c].searches /\ (job[c].at = "confirming" \/ job[c].outcome = "idle") =>
      steady[c] \subseteq {job[c].name}

\* A command that waited for its deployment, and was right about the name, ends
\* well only after it has succeeded or was canceled, never while it goes on.
WaitsToTheEnd ==
  \A c \in Commands :
    job[c].waits /\ job[c].outcome = "ok" /\ deployments[job[c].name].by = c =>
      deployments[job[c].name].state \in {"succeeded", "canceled"}

\* A stop without a name is told that there are more than one deployment that are
\* accepted or running only if two were active at a time while it looked.
RefusedOnlyIfSeveral == \A c \in Commands : job[c].outcome = "several" => c \in crowded

\* Every command ends, whatever others do to the deployment that it waits for.
EveryCommandEnds == \A c \in Commands : InProgress(c) ~> job[c].at = "over"

===============================================================================
