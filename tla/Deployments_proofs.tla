--------------------------- MODULE Deployments_proofs ---------------------------
(***************************************************************************)
(* For any commands and names: Deployments is type correct, a stop that    *)
(* has no name misses no deployment that is active all the while, and a    *)
(* command that waits does so to the end of its deployment.                *)
(***************************************************************************)
EXTENDS Deployments, FiniteSetTheorems, TLAPS

LEMMA Filters == FirstFilter = "accepted" /\ SecondFilter = "running"
BY DEF FirstFilter, SecondFilter, ActiveStates

LEMMA NoJobType == NoJob \in Jobs
BY Filters DEF NoJob, Jobs, Kinds, Stages, States, ActiveStates

\* What a step of a command or of the service may make of a deployment.
Change(n) ==
  \/ deployments'[n] = deployments[n]
  \/ /\ deployments'[n].by = deployments[n].by
     /\ \/ /\ IsActive(n)
           /\ deployments'[n].state \in {"succeeded", "failed", "canceled"}
        \/ deployments[n].state = "accepted" /\ deployments'[n].state = "running"
  \/ \E c \in Commands :
       /\ job[c].at = "beginning" /\ job'[c].at \in {"waiting", "over"}
       /\ deployments'[n] = [state |-> "accepted", by |-> c]
  \/ deployments'[n] = [state |-> "none", by |-> Earlier]

\* A command changes nothing but its own job.
Moves(c) == job' = [job EXCEPT ![c] = job'[c]]

LEMMA Overwritten ==
  ASSUME NEW old \in Jobs, NEW outcome \in {"ok", "failed", "idle", "several"},
         NEW searches \in BOOLEAN, NEW waits \in BOOLEAN, NEW name \in Names \cup {NoName}
  PROVE  [old EXCEPT !.at = "over", !.outcome = outcome, !.searches = searches,
                     !.waits = waits, !.name = name] \in Jobs
<1>1. "over" \in Stages
  BY DEF Stages
<1>. QED BY <1>1 DEF Jobs

LEMMA ReportFacts ==
  ASSUME TypeOK, NEW c \in Commands, NEW outcome \in {"ok", "failed", "idle", "several"},
         Report(c, outcome)
  PROVE  /\ Moves(c) /\ job'[c] \in Jobs /\ job'[c].at = "over"
         /\ job'[c].outcome = outcome /\ job'[c].searches = job[c].searches
         /\ job'[c].waits = (job[c].waits /\ outcome = "ok")
         /\ job'[c].waits => job'[c].name = job[c].name
<1>1. job[c] \in Jobs
  BY DEF TypeOK
<1> DEFINE known == job[c].waits /\ outcome = "ok"
           new == [NoJob EXCEPT !.at = "over", !.outcome = outcome,
                                !.searches = job[c].searches, !.waits = known,
                                !.name = IF known THEN job[c].name ELSE NoName]
<1>2. job' = [job EXCEPT ![c] = new] /\ job'[c] = new
  BY DEF TypeOK, Report
<1>3. known \in BOOLEAN
  BY <1>1 DEF Jobs
<1>4. new \in Jobs
  <2>1. /\ job[c].searches \in BOOLEAN
        /\ (IF known THEN job[c].name ELSE NoName) \in Names \cup {NoName}
    BY <1>1 DEF Jobs
  <2>. QED BY <1>3, <2>1, NoJobType, Overwritten
<1>5. /\ new.at = "over" /\ new.outcome = outcome /\ new.searches = job[c].searches
      /\ new.waits = known /\ (known => new.name = job[c].name)
  BY DEF NoJob
<1>. QED BY <1>2, <1>4, <1>5 DEF Moves

LEMMA GotoFacts ==
  ASSUME TypeOK, NEW c \in Commands, NEW stage \in Stages, Goto(c, stage)
  PROVE  /\ Moves(c) /\ job'[c] \in Jobs /\ job'[c] = [job[c] EXCEPT !.at = stage]
         /\ job'[c].at = stage
<1>1. job[c] \in Jobs
  BY DEF TypeOK
<1>2. job'[c] = [job[c] EXCEPT !.at = stage]
  BY DEF TypeOK, Goto
<1>3. job' = [job EXCEPT ![c] = [job[c] EXCEPT !.at = stage]]
  BY DEF Goto
<1>4. [job[c] EXCEPT !.at = stage] \in Jobs
  BY <1>1 DEF Jobs
<1>5. job'[c].at = stage
  BY <1>1, <1>2 DEF Jobs
<1>. QED BY <1>2, <1>3, <1>4, <1>5 DEF Moves

-------------------------------------------------------------------------------
(* The invariant, and what each action does to it.                          *)

Begun(c) == job[c].at \notin {"due", "validating", "beginning"}

\* No deployment is of a command that has not sent its request yet.
BegunInv == \A c \in Commands, n \in Names : deployments[n].by = c => Begun(c)

\* What is known of the command's own deployment: an end that was seen is final.
WaitFact(c) ==
  LET n == job[c].name
      its == deployments[n].by = c
  IN /\ job[c].outcome # "none" => job[c].at = "over"
     /\ job[c].at \in {"listingOperations", "explaining"} =>
          /\ job[c].seen # "none"
          /\ its /\ job[c].seen \notin ActiveStates => deployments[n].state = job[c].seen
     /\ job[c].at = "explaining" => job[c].seen \notin ActiveStates \cup {"succeeded"}
     /\ job[c].waits /\ job[c].outcome = "ok" /\ its =>
          deployments[n].state \in {"succeeded", "canceled"}

\* A deployment that is active has been found, or is still ahead of the search.
Reachable(c, n) ==
  LET found == job[c].found
      ahead == n > job[c].after
  IN IF job[c].filter = "accepted"
     THEN \/ n \in found["accepted"]
          \/ deployments[n].state = "accepted" /\ ahead
          \/ deployments[n].state = "running"
     ELSE \/ n \in found["accepted"] \cup found["running"]
          \/ deployments[n].state = "running" /\ ahead

FindFact(c) ==
  /\ job[c].at = "finding" =>
       /\ job[c].searches
       /\ \A n \in steady[c] : IsActive(n) /\ Reachable(c, n)
  /\ job[c].searches /\ (job[c].at = "confirming" \/ job[c].outcome = "idle") =>
       steady[c] \subseteq {job[c].name}

IInv ==
  /\ TypeOK
  /\ BegunInv
  /\ \A c \in Commands : WaitFact(c) /\ FindFact(c)

DeploymentsType == deployments \in [Names -> [state : States, by : Commands \cup {Earlier}]]
Named(c) ==
  /\ job[c].name = NoName => job[c].at \in {"due", "finding", "over"} /\ ~job[c].waits
  /\ job[c].at \in {"finding", "confirming", "cancelling", "checking", "deleting"} =>
       ~job[c].waits

\* What an action does as to the search of its command.
FindEffect(c) ==
  \/ /\ job[c].at \notin {"due", "finding"} /\ job'[c].at # "finding"
     /\ job'[c].outcome # "several"
  \/ /\ job[c].at = "due" /\ deployments' = deployments
     /\ job'[c].outcome = "none" /\ job'[c].at # "due" /\ job'[c].found = NoJob.found
     /\ (job'[c].at = "finding") = job'[c].searches
     /\ job'[c].at = "finding" => /\ job'[c].filter = "accepted"
                                  /\ job'[c].after = NoName
  \/ /\ job[c].at = "finding" /\ deployments' = deployments
     /\ job'[c].searches = job[c].searches
     /\ \/ /\ job'[c].at = "finding" /\ job'[c].outcome # "idle"
           /\ \A n \in Names : IsActive(n) /\ Reachable(c, n) => Reachable(c, n)'
        \/ /\ job'[c].at # "finding"
           /\ \A n \in Names : IsActive(n) /\ Reachable(c, n) => n = job'[c].name
        \/ job'[c].at = "over" /\ job'[c].outcome # "idle"

Effect(c) ==
  /\ DeploymentsType'
  /\ \A n \in Names : Change(n)
  /\ Moves(c) /\ job'[c] \in Jobs /\ Named(c)'
  /\ \A n \in Names : deployments'[n].by = c => Begun(c)'
  /\ WaitFact(c)'
  /\ FindEffect(c)

\* An action that leaves the deployments alone.
LEMMA QuietFacts ==
  ASSUME IInv, NEW c \in Commands, UNCHANGED deployments, job[c].at # "due"
  PROVE  /\ DeploymentsType' /\ \A n \in Names : Change(n)
         /\ Begun(c)' => \A n \in Names : deployments'[n].by = c => Begun(c)'
BY DEF IInv, TypeOK, DeploymentsType, Change

\* A command that ends without success, or does not wait.
LEMMA ReportEffect ==
  ASSUME IInv, NEW c \in Commands, NEW outcome \in {"ok", "failed"},
         Report(c, outcome), job[c].at \notin {"due", "finding"},
         ~(job[c].waits /\ outcome = "ok"),
         DeploymentsType', \A n \in Names : Change(n)
  PROVE  Effect(c)
<1>1. /\ Moves(c) /\ job'[c] \in Jobs /\ job'[c].at = "over"
      /\ job'[c].outcome = outcome /\ job'[c].waits = (job[c].waits /\ outcome = "ok")
  BY ReportFacts DEF IInv
<1>2. WaitFact(c)'
  BY <1>1 DEF WaitFact
<1>3. Begun(c)' /\ Named(c)'
  BY <1>1 DEF Begun, Named
<1>. QED BY <1>1, <1>2, <1>3 DEF Effect, FindEffect

\* A command that goes on to a stage where it knows nothing of the state.
LEMMA GotoEffect ==
  ASSUME IInv, NEW c \in Commands,
         NEW stage \in Stages \ {"due", "finding", "listingOperations", "explaining", "over"},
         Goto(c, stage), job[c].at \notin {"due", "finding", "over"},
         DeploymentsType', \A n \in Names : Change(n),
         \A n \in Names : deployments'[n].by = c => stage \notin {"validating", "beginning"},
         stage \in {"confirming", "cancelling", "checking", "deleting"} => ~job[c].waits
  PROVE  Effect(c)
<1>1. /\ Moves(c) /\ job'[c] \in Jobs
      /\ job'[c] = [job[c] EXCEPT !.at = stage]
  BY GotoFacts DEF IInv
<1>2. job[c] \in Jobs /\ WaitFact(c) /\ job[c].name # NoName
  BY DEF IInv, TypeOK
<1>3. /\ job'[c].at = stage /\ job'[c].outcome = job[c].outcome
      /\ job'[c].name = job[c].name /\ job'[c].waits = job[c].waits
  BY <1>1, <1>2 DEF Jobs
<1>4. job[c].outcome = "none"
  BY <1>2 DEF WaitFact
<1>5. WaitFact(c)'
  BY <1>3, <1>4 DEF WaitFact
<1>6. Named(c)'
  BY <1>2, <1>3 DEF Named
<1>7. \A n \in Names : deployments'[n].by = c => Begun(c)'
  BY <1>3 DEF Begun
<1>8. FindEffect(c)
  BY <1>3, <1>4 DEF FindEffect
<1>. QED BY <1>1, <1>5, <1>6, <1>7, <1>8 DEF Effect

LEMMA ValidateEffect ==
  ASSUME IInv, NEW c \in Commands, NEW answer \in Answers, Validate(c, answer)
  PROVE  Effect(c)
<1>1. /\ DeploymentsType' /\ \A n \in Names : Change(n)
  BY DEF IInv, TypeOK, DeploymentsType, Change, Validate
<1>2. CASE Report(c, "failed")
  BY <1>1, <1>2, ReportEffect DEF Validate
<1>3. CASE Goto(c, "beginning")
  <2>1. \A n \in Names : deployments'[n].by # c
    BY DEF IInv, BegunInv, Begun, Validate
  <2>. QED BY <1>1, <1>3, <2>1, GotoEffect DEF Validate, Stages
<1>. QED BY <1>2, <1>3 DEF Validate

\* One deployment is put in the place of another one, or of none.
LEMMA ReplacementType ==
  ASSUME TypeOK, NEW n \in Names, NEW state \in States, NEW by \in Commands \cup {Earlier},
         deployments' = [deployments EXCEPT ![n] = [state |-> state, by |-> by]]
  PROVE  /\ DeploymentsType' /\ deployments'[n] = [state |-> state, by |-> by]
         /\ \A m \in Names \ {n} : deployments'[m] = deployments[m]
BY DEF TypeOK, DeploymentsType

LEMMA NewStateType ==
  ASSUME TypeOK, NEW n \in Names, NEW state \in States,
         deployments' = [deployments EXCEPT ![n].state = state]
  PROVE  /\ DeploymentsType' /\ deployments'[n].state = state
         /\ deployments'[n].by = deployments[n].by
         /\ \A m \in Names \ {n} : deployments'[m] = deployments[m]
BY DEF TypeOK, DeploymentsType

LEMMA BeginEffect ==
  ASSUME IInv, NEW c \in Commands, NEW answer \in Answers, Begin(c, answer)
  PROVE  Effect(c)
<1> DEFINE n == job[c].name
           new == [state |-> "accepted", by |-> c]
<1>1. /\ job[c] \in Jobs /\ job[c].at = "beginning" /\ n \in Names /\ TypeOK
  BY DEF IInv, TypeOK, Begin, Jobs
<1>2. PICK possible \in MayTake(n) :
        /\ deployments' = IF Applies(possible, answer)
                          THEN [deployments EXCEPT ![n] = new] ELSE deployments
        /\ IF Succeeds(possible, answer) /\ job[c].waits THEN Goto(c, "waiting")
           ELSE Report(c, Outcome(Succeeds(possible, answer)))
  BY DEF Begin
<1>3. \/ Goto(c, "waiting")
      \/ \E outcome \in {"ok", "failed"} :
           Report(c, outcome) /\ ~(job[c].waits /\ outcome = "ok")
  BY <1>2 DEF Outcome
<1>4. job'[c].at \in {"waiting", "over"}
  <2>1. ASSUME Goto(c, "waiting") PROVE job'[c].at = "waiting"
    BY <1>1, <2>1, GotoFacts DEF Stages
  <2>2. ASSUME NEW outcome \in {"ok", "failed"}, Report(c, outcome)
        PROVE  job'[c].at = "over"
    BY <1>1, <2>2, ReportFacts
  <2>. QED BY <1>3, <2>1, <2>2
<1>5. DeploymentsType' /\ \A m \in Names : Change(m)
  <2>1. CASE deployments' = deployments
    BY <2>1 DEF IInv, TypeOK, DeploymentsType, Change
  <2>2. CASE deployments' = [deployments EXCEPT ![n] = new]
    <3>1. /\ DeploymentsType' /\ deployments'[n] = new
          /\ \A m \in Names \ {n} : deployments'[m] = deployments[m]
      BY <1>1, <2>2, ReplacementType DEF States
    <3>. QED BY <1>1, <1>4, <3>1 DEF Change
  <2>. QED BY <1>2, <2>1, <2>2
<1>6. CASE Goto(c, "waiting")
  BY <1>1, <1>5, <1>6, GotoEffect DEF Stages
<1>7. ASSUME NEW outcome \in {"ok", "failed"}, Report(c, outcome),
             ~(job[c].waits /\ outcome = "ok")
      PROVE  Effect(c)
  BY <1>1, <1>5, <1>7, ReportEffect
<1>. QED BY <1>3, <1>6, <1>7

LEMMA GetDeploymentEffect ==
  ASSUME IInv, NEW c \in Commands, NEW answer \in Answers, GetDeployment(c, answer)
  PROVE  Effect(c)
<1> DEFINE n == job[c].name
           new == [job[c] EXCEPT !.at = "listingOperations", !.seen = deployments[n].state]
<1>1. /\ job[c] \in Jobs /\ job[c].at = "waiting" /\ n \in Names /\ WaitFact(c)
  BY DEF IInv, TypeOK, GetDeployment, Jobs
<1>2. DeploymentsType' /\ \A m \in Names : Change(m)
  BY DEF IInv, TypeOK, DeploymentsType, Change, GetDeployment
<1>3. CASE Report(c, "failed")
  BY <1>1, <1>2, <1>3, ReportEffect
<1>4. CASE Exists(n) /\ job' = [job EXCEPT ![c] = new]
  <2>1. job'[c] = new /\ Moves(c)
    BY <1>4 DEF IInv, TypeOK, Moves
  <2>2. deployments[n].state \in States \ {"none"}
    BY <1>1, <1>4 DEF IInv, TypeOK, Exists
  <2>3. /\ job'[c] \in Jobs /\ job'[c].at = "listingOperations" /\ job'[c].name = n
        /\ job'[c].seen = deployments[n].state /\ job'[c].outcome = job[c].outcome
    BY <1>1, <2>1, <2>2 DEF Jobs, Stages
  <2>4. job'[c].outcome = "none"
    BY <1>1, <2>3 DEF WaitFact
  <2>5. WaitFact(c)'
    BY <2>2, <2>3, <2>4 DEF WaitFact, GetDeployment
  <2>6. Named(c)' /\ Begun(c)' /\ FindEffect(c)
    BY <1>1, <2>3, <2>4, NamesAssumption DEF Named, Begun, FindEffect, NoName
  <2>. QED BY <1>2, <2>1, <2>3, <2>5, <2>6 DEF Effect
<1>. QED BY <1>3, <1>4 DEF GetDeployment, Succeeds

\* A wait that ends well: the end that was seen is that of the command's own.
LEMMA WaitEffect ==
  ASSUME IInv, NEW c \in Commands, UNCHANGED deployments, Report(c, "ok"),
         job[c].at \in {"listingOperations", "explaining"},
         job[c].seen \notin ActiveStates, job[c].seen \in {"succeeded", "canceled"}
  PROVE  Effect(c)
<1>1. /\ TypeOK /\ WaitFact(c) /\ job[c].at \notin {"due", "finding"}
      /\ job[c].name # NoName
  BY DEF IInv, TypeOK
<1>2. /\ Moves(c) /\ job'[c] \in Jobs /\ job'[c].at = "over" /\ job'[c].outcome = "ok"
      /\ job'[c].waits => job'[c].name = job[c].name
  BY <1>1, ReportFacts
<1>3. deployments[job[c].name].by = c =>
        deployments[job[c].name].state \in {"succeeded", "canceled"}
  BY <1>1 DEF WaitFact
<1>4. WaitFact(c)'
  BY <1>2, <1>3 DEF WaitFact
<1>5. Begun(c)' /\ Named(c)' /\ FindEffect(c)
  BY <1>1, <1>2 DEF Begun, Named, FindEffect
<1>6. /\ DeploymentsType' /\ \A n \in Names : Change(n)
      /\ \A n \in Names : deployments'[n].by = c => Begun(c)'
  BY <1>1, <1>5, QuietFacts
<1>. QED BY <1>2, <1>4, <1>5, <1>6 DEF Effect

LEMMA ListOperationsEffect ==
  ASSUME IInv, NEW c \in Commands, NEW answer \in Answers, ListOperations(c, answer)
  PROVE  Effect(c)
<1>1. /\ job[c] \in Jobs /\ job[c].at = "listingOperations" /\ WaitFact(c)
      /\ UNCHANGED deployments /\ job[c].name # NoName
  BY DEF IInv, TypeOK, ListOperations
<1>2. DeploymentsType' /\ \A m \in Names : Change(m)
  BY <1>1, QuietFacts
<1>3. CASE Report(c, "failed")
  BY <1>1, <1>2, <1>3, ReportEffect
<1>4. CASE Goto(c, "waiting")
  BY <1>1, <1>2, <1>4, GotoEffect DEF Stages
<1>5. CASE job[c].seen = "succeeded" /\ Report(c, "ok")
  BY <1>1, <1>5, WaitEffect DEF ActiveStates
<1>6. CASE ~GoesOn(job[c].seen) /\ job[c].seen # "succeeded" /\ Goto(c, "explaining")
  <2>1. /\ Moves(c) /\ job'[c] \in Jobs
        /\ job'[c] = [job[c] EXCEPT !.at = "explaining"]
    BY <1>6, GotoFacts DEF IInv, Stages
  <2>2. /\ job'[c].at = "explaining" /\ job'[c].outcome = job[c].outcome
        /\ job'[c].name = job[c].name /\ job'[c].seen = job[c].seen
    BY <1>1, <2>1 DEF Jobs
  <2>3. job[c].outcome = "none"
    BY <1>1 DEF WaitFact
  <2>4. WaitFact(c)'
    BY <1>1, <1>6, <2>2, <2>3 DEF WaitFact, GoesOn
  <2>5. Named(c)' /\ Begun(c)' /\ FindEffect(c)
    BY <1>1, <2>2, <2>3 DEF Named, Begun, FindEffect
  <2>. QED BY <1>2, <2>1, <2>4, <2>5 DEF Effect
<1>. QED BY <1>3, <1>4, <1>5, <1>6 DEF ListOperations

LEMMA ExplainEffect ==
  ASSUME IInv, NEW c \in Commands, NEW answer \in Answers, Explain(c, answer)
  PROVE  Effect(c)
<1> DEFINE ok == Succeeds(Exists(job[c].name), answer) /\ job[c].seen # "failed"
<1>1. /\ job[c] \in Jobs /\ job[c].at = "explaining" /\ WaitFact(c)
      /\ UNCHANGED deployments
  BY DEF IInv, TypeOK, Explain
<1>2. DeploymentsType' /\ \A m \in Names : Change(m)
  BY <1>1, QuietFacts
<1>3. CASE Report(c, "failed")
  BY <1>1, <1>2, <1>3, ReportEffect
<1>4. CASE ok /\ Report(c, "ok")
  <2>1. job[c].seen = "canceled"
    BY <1>1, <1>4 DEF WaitFact, Jobs, States, ActiveStates
  <2>. QED BY <1>1, <1>4, <2>1, WaitEffect DEF ActiveStates
<1>. QED BY <1>3, <1>4 DEF Explain, Outcome

LEMMA ConfirmEffect ==
  ASSUME IInv, NEW c \in Commands, NEW answer \in Answers, Confirm(c, answer)
  PROVE  Effect(c)
<1>1. job[c].at = "confirming" /\ UNCHANGED deployments
  BY DEF Confirm
<1>2. DeploymentsType' /\ \A m \in Names : Change(m)
  BY <1>1, QuietFacts
<1>3. ~job[c].waits
  BY <1>1 DEF IInv, TypeOK
<1>4. CASE Report(c, "ok")
  BY <1>1, <1>2, <1>3, <1>4, ReportEffect
<1>5. ASSUME NEW stage \in {"cancelling", "checking"}, Goto(c, stage) PROVE Effect(c)
  BY <1>1, <1>2, <1>3, <1>5, GotoEffect DEF Stages
<1>. QED BY <1>4, <1>5 DEF Confirm

LEMMA CancelEffect ==
  ASSUME IInv, NEW c \in Commands, NEW answer \in Answers, Cancel(c, answer)
  PROVE  Effect(c)
<1> DEFINE n == job[c].name
<1>1. /\ job[c].at = "cancelling" /\ n \in Names /\ TypeOK /\ ~job[c].waits
  BY DEF IInv, TypeOK, Cancel, Jobs
<1>2. DeploymentsType' /\ \A m \in Names : Change(m)
  <2>1. CASE deployments' = deployments
    BY <2>1 DEF IInv, TypeOK, DeploymentsType, Change
  <2>2. CASE IsActive(n) /\ deployments' = [deployments EXCEPT ![n].state = "canceled"]
    <3>1. /\ DeploymentsType' /\ deployments'[n].state = "canceled"
          /\ deployments'[n].by = deployments[n].by
          /\ \A m \in Names \ {n} : deployments'[m] = deployments[m]
      BY <1>1, <2>2, NewStateType DEF States
    <3>. QED BY <1>1, <2>2, <3>1 DEF Change
  <2>. QED BY <2>1, <2>2 DEF Cancel, Applies
<1>3. ASSUME NEW outcome \in {"ok", "failed"}, Report(c, outcome) PROVE Effect(c)
  BY <1>1, <1>2, <1>3, ReportEffect
<1>. QED BY <1>3 DEF Cancel, Outcome

LEMMA CheckEffect ==
  ASSUME IInv, NEW c \in Commands, NEW answer \in Answers, Check(c, answer)
  PROVE  Effect(c)
<1>1. job[c].at = "checking" /\ UNCHANGED deployments /\ ~job[c].waits
  BY DEF Check, IInv, TypeOK
<1>2. DeploymentsType' /\ \A m \in Names : Change(m)
  BY <1>1, QuietFacts
<1>3. CASE Goto(c, "deleting")
  BY <1>1, <1>2, <1>3, GotoEffect DEF Stages
<1>4. CASE Report(c, "failed")
  BY <1>1, <1>2, <1>4, ReportEffect
<1>. QED BY <1>3, <1>4 DEF Check

LEMMA DeleteEffect ==
  ASSUME IInv, NEW c \in Commands, NEW answer \in Answers, Delete(c, answer)
  PROVE  Effect(c)
<1> DEFINE n == job[c].name
           none == [state |-> "none", by |-> Earlier]
<1>1. /\ job[c].at = "deleting" /\ n \in Names /\ TypeOK /\ ~job[c].waits
  BY DEF IInv, TypeOK, Delete, Jobs
<1>2. DeploymentsType' /\ \A m \in Names : Change(m)
  <2>1. CASE deployments' = deployments
    BY <2>1 DEF IInv, TypeOK, DeploymentsType, Change
  <2>2. CASE deployments' = [deployments EXCEPT ![n] = none]
    <3>1. /\ DeploymentsType' /\ deployments'[n] = none
          /\ \A m \in Names \ {n} : deployments'[m] = deployments[m]
      BY <1>1, <2>2, ReplacementType DEF States
    <3>. QED BY <1>1, <3>1 DEF Change
  <2>. QED BY <2>1, <2>2 DEF Delete
<1>3. ASSUME NEW outcome \in {"ok", "failed"}, Report(c, outcome) PROVE Effect(c)
  BY <1>1, <1>2, <1>3, ReportEffect
<1>. QED BY <1>3 DEF Delete, Outcome

-------------------------------------------------------------------------------
(* The search.                                                              *)

\* What the number of all that was found says of it.
LEMMA NumberFound ==
  ASSUME NEW A \in SUBSET Names, NEW R \in SUBSET Names
  PROVE  LET number == Cardinality(A) + Cardinality(R)
         IN /\ number = 0 => A \cup R = {}
            /\ number = 1 => Target(A \cup R) \in Names /\ A \cup R = {Target(A \cup R)}
<1> DEFINE number == Cardinality(A) + Cardinality(R)
<1>1. IsFiniteSet(A) /\ IsFiniteSet(R)
  BY NamesAssumption, FS_Subset
<1>2. Cardinality(A) \in Nat /\ Cardinality(R) \in Nat
  BY <1>1, FS_CardinalityType
<1>3. (Cardinality(A) = 0 <=> A = {}) /\ (Cardinality(R) = 0 <=> R = {})
  BY <1>1, FS_EmptySet
<1>4. ASSUME number = 1 PROVE \E n \in Names : A \cup R = {n}
  <2>1. \/ Cardinality(A) = 1 /\ Cardinality(R) = 0
        \/ Cardinality(A) = 0 /\ Cardinality(R) = 1
    BY <1>2, <1>4
  <2>2. CASE Cardinality(A) = 1 /\ Cardinality(R) = 0
    <3>1. PICK n : A = {n}
      BY <1>1, <2>2, FS_Singleton
    <3>. QED BY <1>3, <2>2, <3>1
  <2>3. CASE Cardinality(A) = 0 /\ Cardinality(R) = 1
    <3>1. PICK n : R = {n}
      BY <1>1, <2>3, FS_Singleton
    <3>. QED BY <1>3, <2>3, <3>1
  <2>. QED BY <2>1, <2>2, <2>3
<1>5. ASSUME NEW n \in Names, A \cup R = {n} PROVE Target(A \cup R) = n
  BY <1>5 DEF Target
<1>6. number = 0 => A \cup R = {}
  BY <1>2, <1>3
<1>. QED BY <1>4, <1>5, <1>6

\* A page, or the last one, adds to what has been found what is no longer ahead.
LEMMA PageFacts ==
  ASSUME IInv, NEW c \in Commands, job[c].at = "finding", NEW last \in Names \cup {NoName}
  PROVE  LET filter == job[c].filter
             rest == Rest(filter, job[c].after)
             page == {n \in rest : n <= last}
             found == [job[c].found EXCEPT ![filter] = @ \cup page]
         IN /\ found \in [ActiveStates -> SUBSET Names]
            /\ found[filter] = job[c].found[filter] \cup page
            /\ \A s \in ActiveStates \ {filter} : found[s] = job[c].found[s]
BY DEF IInv, TypeOK, Jobs, Rest

LEMMA FindStepEffect ==
  ASSUME IInv, NEW c \in Commands, NEW answer \in Answers, Find(c, answer)
  PROVE  Effect(c)
<1> DEFINE filter == job[c].filter
           rest == Rest(filter, job[c].after)
<1>1. /\ job[c] \in Jobs /\ job[c].at = "finding" /\ UNCHANGED deployments
      /\ WaitFact(c) /\ job[c].searches /\ ~job[c].waits
  BY DEF IInv, TypeOK, Find, FindFact
<1>2. PICK last \in IF rest = {} THEN {NoName} ELSE rest :
        LET page == {n \in rest : n <= last}
            found == [job[c].found EXCEPT ![filter] = @ \cup page]
            more == [job[c] EXCEPT !.found = found]
        IN CASE answer # "served" -> Report(c, "failed")
             [] answer = "served" /\ rest # page ->
                  job' = [job EXCEPT ![c] = [more EXCEPT !.after = last]]
             [] answer = "served" /\ rest = page /\ filter = FirstFilter ->
                  job' = [job EXCEPT ![c] = [more EXCEPT !.filter = SecondFilter,
                                                         !.after = NoName]]
             [] OTHER -> Decide(c, found)
  BY DEF Find
<1> DEFINE page == {n \in rest : n <= last}
           found == [job[c].found EXCEPT ![filter] = @ \cup page]
           more == [job[c] EXCEPT !.found = found]
           paged == [more EXCEPT !.after = last]
           switched == [more EXCEPT !.filter = SecondFilter, !.after = NoName]
<1>3. last \in Names \cup {NoName}
  BY DEF Rest
<1>4. /\ found \in [ActiveStates -> SUBSET Names]
      /\ found[filter] = job[c].found[filter] \cup page
      /\ \A s \in ActiveStates \ {filter} : found[s] = job[c].found[s]
  BY <1>1, <1>3, PageFacts
<1>5. filter \in ActiveStates
  BY <1>1 DEF Jobs
<1>6. \/ Report(c, "failed")
      \/ rest # page /\ job' = [job EXCEPT ![c] = paged]
      \/ rest = page /\ filter = "accepted" /\ job' = [job EXCEPT ![c] = switched]
      \/ rest = page /\ filter = "running" /\ Decide(c, found)
  BY <1>2, <1>5, Filters DEF Answers, ActiveStates
<1> HIDE DEF found
<1>7. job[c].outcome = "none"
  BY <1>1 DEF WaitFact
<1>8. /\ DeploymentsType' /\ \A n \in Names : Change(n)
      /\ Begun(c)' => \A n \in Names : deployments'[n].by = c => Begun(c)'
  BY <1>1, QuietFacts
\* The end of the command, without and with an error.
<1>9. ASSUME NEW outcome \in {"failed", "idle", "several"}, Report(c, outcome),
             outcome = "idle" => \A n \in Names : ~(IsActive(n) /\ Reachable(c, n))
      PROVE  Effect(c)
  <2>1. /\ Moves(c) /\ job'[c] \in Jobs /\ job'[c].at = "over"
        /\ job'[c].outcome = outcome /\ job'[c].searches = job[c].searches
        /\ ~job'[c].waits
    BY <1>1, <1>9, ReportFacts DEF IInv
  <2>2. job'[c].outcome # "ok"
    BY <2>1
  <2>3. WaitFact(c)' /\ Named(c)' /\ Begun(c)'
    BY <2>1, <2>2 DEF WaitFact, Named, Begun
  <2>4. FindEffect(c)
    BY <1>1, <1>9, <2>1 DEF FindEffect
  <2>. QED BY <1>8, <2>1, <2>3, <2>4 DEF Effect
\* Another request.
<1>10. ASSUME NEW new \in Jobs, job' = [job EXCEPT ![c] = new], new.at = "finding",
              new.searches = job[c].searches, new.outcome = job[c].outcome,
              new.waits = job[c].waits,
              \A n \in Names : IsActive(n) /\ Reachable(c, n) => Reachable(c, n)'
       PROVE  Effect(c)
  <2>1. job'[c] = new /\ Moves(c)
    BY <1>10 DEF IInv, TypeOK, Moves
  <2>2. WaitFact(c)'
    BY <1>7, <1>10, <2>1 DEF WaitFact
  <2>3. Named(c)' /\ Begun(c)' /\ FindEffect(c)
    BY <1>1, <1>7, <1>10, <2>1 DEF Named, Begun, FindEffect
  <2>. QED BY <1>8, <1>10, <2>1, <2>2, <2>3 DEF Effect
<1>11. CASE rest # page /\ job' = [job EXCEPT ![c] = paged]
  <2>1. /\ paged \in Jobs /\ paged.at = "finding" /\ paged.searches = job[c].searches
        /\ paged.outcome = job[c].outcome /\ paged.found = found /\ paged.after = last
        /\ paged.filter = filter /\ paged.waits = job[c].waits
    BY <1>1, <1>3, <1>4 DEF Jobs
  <2>2. job'[c] = paged
    BY <1>11 DEF IInv, TypeOK
  <2> HIDE DEF paged
  <2>3. ASSUME NEW n \in Names, IsActive(n), Reachable(c, n) PROVE Reachable(c, n)'
    <3>1. deployments[n].state = filter /\ n > job[c].after => n \in page \/ n > last
      BY <1>3, NamesAssumption DEF Rest, NoName
    <3>. QED BY <1>1, <1>4, <1>5, <2>1, <2>2, <2>3, <3>1 DEF Reachable, ActiveStates
  <2>. QED BY <1>10, <1>11, <2>1, <2>3
<1>12. CASE rest = page /\ filter = "accepted" /\ job' = [job EXCEPT ![c] = switched]
  <2>1. /\ switched \in Jobs /\ switched.at = "finding"
        /\ switched.searches = job[c].searches /\ switched.outcome = job[c].outcome
        /\ switched.found = found /\ switched.after = NoName
        /\ switched.filter = "running" /\ switched.waits = job[c].waits
    BY <1>1, <1>4, Filters DEF Jobs, ActiveStates
  <2>2. job'[c] = switched
    BY <1>12 DEF IInv, TypeOK
  <2> HIDE DEF switched
  <2>3. ASSUME NEW n \in Names, IsActive(n), Reachable(c, n) PROVE Reachable(c, n)'
    <3>1. deployments[n].state = "accepted" /\ n > job[c].after => n \in page
      BY <1>12 DEF Rest
    <3>2. n > NoName
      BY NamesAssumption DEF NoName
    <3>. QED BY <1>1, <1>4, <1>12, <2>1, <2>2, <2>3, <3>1, <3>2 DEF Reachable, ActiveStates
  <2>. QED BY <1>10, <1>12, <2>1, <2>3
<1>13. CASE rest = page /\ filter = "running" /\ Decide(c, found)
  <2> DEFINE A == found["accepted"]
             R == found["running"]
             number == Cardinality(A) + Cardinality(R)
  <2>1. A \in SUBSET Names /\ R \in SUBSET Names
    BY <1>4 DEF ActiveStates
  <2>2. /\ number = 0 => A \cup R = {}
        /\ number = 1 => Target(A \cup R) \in Names /\ A \cup R = {Target(A \cup R)}
    BY <2>1, NumberFound
  <2>3. ASSUME NEW n \in Names, IsActive(n), Reachable(c, n) PROVE n \in A \cup R
    <3>1. deployments[n].state = "running" /\ n > job[c].after => n \in page
      BY <1>13 DEF Rest
    <3>. QED BY <1>4, <1>13, <2>3, <3>1 DEF Reachable, ActiveStates
  <2>4. \/ number = 0 /\ Report(c, "idle")
        \/ /\ number = 1
           /\ job' = [job EXCEPT ![c].at = "confirming", ![c].found = NoJob.found,
                                 ![c].name = Target(A \cup R)]
        \/ Report(c, "several")
    BY <1>13 DEF Decide
  <2> HIDE DEF A, R, number
  <2>5. CASE number = 0 /\ Report(c, "idle")
    BY <1>9, <2>2, <2>3, <2>5
  <2>6. CASE Report(c, "several")
    BY <1>9, <2>6
  <2>7. CASE /\ number = 1
             /\ job' = [job EXCEPT ![c].at = "confirming", ![c].found = NoJob.found,
                                   ![c].name = Target(A \cup R)]
    <3> DEFINE target == Target(A \cup R)
               new == [job[c] EXCEPT !.at = "confirming", !.found = NoJob.found, !.name = target]
    <3>1. target \in Names /\ A \cup R = {target}
      BY <2>2, <2>7
    <3> HIDE DEF target
    <3>2. NoJob.found \in [ActiveStates -> SUBSET Names]
      BY DEF NoJob
    <3>3. /\ new \in Jobs /\ new.at = "confirming" /\ new.name = target
          /\ new.searches = job[c].searches /\ new.outcome = job[c].outcome
          /\ new.waits = job[c].waits
      BY <1>1, <3>1, <3>2 DEF Jobs, Stages
    <3>4. job'[c] = new /\ Moves(c)
      <4>1. job' = [job EXCEPT ![c] = new]
        BY <2>7 DEF target
      <4>. QED BY <4>1 DEF IInv, TypeOK, Moves
    <3> HIDE DEF new
    <3>5. WaitFact(c)'
      BY <1>7, <3>3, <3>4 DEF WaitFact
    <3>6. Named(c)' /\ Begun(c)'
      BY <1>1, <3>1, <3>3, <3>4, NamesAssumption DEF Named, Begun, NoName
    <3>7. FindEffect(c)
      BY <1>1, <2>3, <3>1, <3>3, <3>4 DEF FindEffect
    <3>. QED BY <1>8, <3>3, <3>4, <3>5, <3>6, <3>7 DEF Effect
  <2>. QED BY <2>4, <2>5, <2>6, <2>7
<1>14. CASE Report(c, "failed")
  BY <1>9, <1>14
<1>. QED BY <1>6, <1>11, <1>12, <1>13, <1>14

-------------------------------------------------------------------------------
(* The start of a command, and the service.                                 *)

LEMMA StartEffect ==
  ASSUME IInv, NEW c \in Commands, Start(c)
  PROVE  Effect(c)
<1>1. TypeOK /\ job[c].at = "due" /\ UNCHANGED deployments
  BY DEF IInv, Start, StartDeploy, StartStop, StartDelete, StartOf
<1>2. PICK kind \in Kinds, stage \in {"validating", "confirming"},
           name \in Names, waits \in BOOLEAN, searches \in BOOLEAN :
        /\ stage = "validating" <=> kind = "deploy"
        /\ waits => kind = "deploy"
        /\ searches => kind = "stop"
        /\ job' = [job EXCEPT ![c] =
                     [NoJob EXCEPT !.kind = kind, !.waits = waits, !.searches = searches,
                                   !.at = IF searches THEN "finding" ELSE stage,
                                   !.name = IF searches THEN NoName ELSE name]]
  BY DEF Start, StartDeploy, StartStop, StartDelete, StartOf, Kinds
<1> DEFINE new == [NoJob EXCEPT !.kind = kind, !.waits = waits, !.searches = searches,
                                !.at = IF searches THEN "finding" ELSE stage,
                                !.name = IF searches THEN NoName ELSE name]
<1>3. job'[c] = new /\ Moves(c)
  BY <1>1, <1>2 DEF TypeOK, Moves
<1>4. /\ new \in Jobs /\ new.at = (IF searches THEN "finding" ELSE stage)
      /\ new.name = (IF searches THEN NoName ELSE name) /\ new.waits = waits
      /\ new.searches = searches /\ new.outcome = "none"
      /\ new.filter = "accepted" /\ new.after = NoName /\ new.found = NoJob.found
  BY NoJobType, Filters DEF Jobs, NoJob, Stages
<1> HIDE DEF new
<1>5. WaitFact(c)'
  BY <1>3, <1>4 DEF WaitFact
<1>6. Named(c)'
  BY <1>2, <1>3, <1>4, NamesAssumption DEF Named, NoName
<1>7. \A n \in Names : deployments'[n].by = c => Begun(c)'
  BY <1>1 DEF IInv, BegunInv, Begun
<1>8. FindEffect(c)
  BY <1>1, <1>3, <1>4 DEF FindEffect
<1>9. DeploymentsType' /\ \A n \in Names : Change(n)
  BY <1>1 DEF TypeOK, DeploymentsType, Change
<1>. QED BY <1>3, <1>4, <1>5, <1>6, <1>7, <1>8, <1>9 DEF Effect

LEMMA StepEffect ==
  ASSUME IInv, NEW c \in Commands, Step(c)
  PROVE  Effect(c)
BY ValidateEffect, BeginEffect, GetDeploymentEffect, ListOperationsEffect, ExplainEffect,
   FindStepEffect, ConfirmEffect, CancelEffect, CheckEffect, DeleteEffect DEF Step

LEMMA ProgressEffect ==
  ASSUME IInv, NEW m \in Names, Progress(m)
  PROVE  DeploymentsType' /\ (\A n \in Names : Change(n)) /\ job' = job
<1>1. TypeOK
  BY DEF IInv
<1>2. PICK state \in States :
        /\ \/ deployments[m].state = "accepted" /\ state = "running"
           \/ deployments[m].state = "running" /\ state \in {"succeeded", "failed"}
        /\ deployments' = [deployments EXCEPT ![m].state = state]
  BY DEF Progress
<1>3. /\ DeploymentsType' /\ deployments'[m].state = state
      /\ deployments'[m].by = deployments[m].by
      /\ \A n \in Names \ {m} : deployments'[n] = deployments[n]
  BY <1>1, <1>2, NewStateType
<1>4. Change(m)
  BY <1>2, <1>3 DEF Change, IsActive, ActiveStates
<1>5. \A n \in Names \ {m} : Change(n)
  BY <1>3 DEF Change
<1>. QED BY <1>3, <1>4, <1>5 DEF Progress

-------------------------------------------------------------------------------
(* Every step keeps the invariant.                                          *)

\* A command that does not move keeps what it knows, whatever is done to the
\* deployments.
LEMMA BystanderFacts ==
  ASSUME IInv, NEW d \in Commands, job'[d] = job[d], \A n \in Names : Change(n), Watch
  PROVE  /\ \A n \in Names : deployments'[n].by = d => Begun(d)'
         /\ WaitFact(d)' /\ FindFact(d)'
<1>1. /\ TypeOK /\ WaitFact(d) /\ FindFact(d) /\ d # Earlier
      /\ job[d] \in Jobs
  BY CommandsAssumption DEF IInv, TypeOK
<1>2. ASSUME NEW n \in Names, deployments'[n].by = d
      PROVE  /\ deployments[n].by = d
             /\ ~IsActive(n) => deployments'[n].state = deployments[n].state
  <2>1. ~\E e \in Commands : /\ job[e].at = "beginning" /\ job'[e].at \in {"waiting", "over"}
                            /\ deployments'[n] = [state |-> "accepted", by |-> e]
    <3> SUFFICES ASSUME NEW e \in Commands,
                        job[e].at = "beginning", job'[e].at \in {"waiting", "over"},
                        deployments'[n] = [state |-> "accepted", by |-> e]
                 PROVE  FALSE
      OBVIOUS
    <3>1. deployments'[n].by = e
      OBVIOUS
    <3>. QED BY <1>2, <3>1
  <2>2. deployments'[n] # [state |-> "none", by |-> Earlier]
    BY <1>1, <1>2
  <2>3. \/ deployments'[n] = deployments[n]
        \/ /\ deployments'[n].by = deployments[n].by
           /\ IsActive(n) \/ deployments[n].state = "accepted"
    BY <2>1, <2>2 DEF Change
  <2>. QED BY <1>2, <2>3 DEF IsActive, ActiveStates
<1>3. \A n \in Names : deployments'[n].by = d => Begun(d)'
  BY <1>2 DEF IInv, BegunInv, Begun
<1>4. WaitFact(d)'
  <2> DEFINE n == job[d].name
  <2>1. CASE n = NoName
    BY <1>1, <2>1 DEF WaitFact, TypeOK
  <2>2. CASE n \in Names
    <3>1. /\ deployments'[n].by = d => deployments[n].by = d
          /\ deployments'[n].by = d /\ ~IsActive(n) =>
               deployments'[n].state = deployments[n].state
      BY <1>2, <2>2
    <3>. QED BY <1>1, <3>1 DEF WaitFact, IsActive, ActiveStates
  <2>. QED BY <1>1, <2>1, <2>2 DEF Jobs
<1>5. steady'[d] = IF job[d].searches /\ job[d].at \in {"due", "finding"}
                   THEN IF job[d].at = "due" THEN ActiveNames
                        ELSE {n \in steady[d] :
                                IsActive(n)' /\ deployments'[n].by = deployments[n].by}
                   ELSE {}
  BY DEF Watch
<1>6. FindFact(d)'
  <2>1. CASE job[d].at = "finding"
    <3>1. ASSUME NEW n \in steady'[d] PROVE IsActive(n)' /\ Reachable(d, n)'
      <4>1. /\ n \in Names /\ IsActive(n) /\ Reachable(d, n) /\ IsActive(n)'
            /\ deployments'[n].by = deployments[n].by
        BY <1>1, <1>5, <2>1 DEF FindFact, TypeOK
      <4>2. ~\E e \in Commands : /\ job[e].at = "beginning"
                                /\ deployments'[n] = [state |-> "accepted", by |-> e]
        <5> SUFFICES ASSUME NEW e \in Commands, job[e].at = "beginning",
                            deployments'[n] = [state |-> "accepted", by |-> e]
                     PROVE  FALSE
          OBVIOUS
        <5>1. deployments'[n].by = e
          OBVIOUS
        <5>. QED BY <4>1, <5>1 DEF IInv, BegunInv, Begun
      <4>3. /\ deployments'[n] # [state |-> "none", by |-> Earlier]
            /\ deployments'[n].state \notin {"succeeded", "failed", "canceled"}
        BY <4>1 DEF IsActive, ActiveStates
      <4>4. \/ deployments'[n] = deployments[n]
            \/ deployments[n].state = "accepted" /\ deployments'[n].state = "running"
        BY <4>1, <4>2, <4>3 DEF Change
      <4>. QED BY <4>1, <4>4 DEF Reachable
    <3>. QED BY <1>1, <2>1, <3>1 DEF FindFact, WaitFact
  <2>2. CASE job[d].at # "finding"
    BY <1>1, <1>5, <2>2 DEF FindFact, WaitFact
  <2>. QED BY <2>1, <2>2
<1>. QED BY <1>3, <1>4, <1>6

LEMMA WatchType ==
  ASSUME TypeOK, Watch
  PROVE  steady' \in [Commands -> SUBSET Names] /\ crowded' \subseteq Commands
         /\ shifted' \subseteq Commands
BY DEF TypeOK, Watch, ActiveNames

\* The command that moves.
LEMMA MoverFindFact ==
  ASSUME IInv, NEW c \in Commands, Effect(c), Watch
  PROVE  FindFact(c)'
<1>1. steady'[c] = IF job'[c].searches /\ job[c].at \in {"due", "finding"}
                   THEN IF job[c].at = "due" THEN ActiveNames
                        ELSE {n \in steady[c] :
                                IsActive(n)' /\ deployments'[n].by = deployments[n].by}
                   ELSE {}
  BY DEF Watch
<1>2. TypeOK /\ FindFact(c) /\ FindEffect(c) /\ WaitFact(c)' /\ NoName = 0
  BY DEF IInv, Effect, NoName
<1>3. CASE job[c].at \notin {"due", "finding"} /\ job'[c].at # "finding"
  BY <1>1, <1>3 DEF FindFact
<1>4. CASE job[c].at = "due"
  <2>1. /\ deployments' = deployments /\ job'[c].outcome = "none"
        /\ (job'[c].at = "finding") = job'[c].searches
        /\ job'[c].at = "finding" => job'[c].filter = "accepted" /\ job'[c].after = 0
    BY <1>2, <1>4 DEF FindEffect
  <2>2. ASSUME job'[c].at = "finding", NEW n \in steady'[c]
        PROVE  IsActive(n)' /\ Reachable(c, n)'
    <3>1. n \in Names /\ IsActive(n)
      BY <1>1, <1>4, <2>2 DEF ActiveNames
    <3>2. n > 0
      BY <3>1, NamesAssumption
    <3>. QED BY <2>1, <2>2, <3>1, <3>2 DEF IsActive, ActiveStates, Reachable
  <2>3. job'[c].searches \in BOOLEAN
    BY DEF Effect, Jobs
  <2>. QED BY <2>1, <2>2, <2>3 DEF FindFact
<1>5. CASE job[c].at = "finding"
  <2>1. \A n \in steady'[c] : n \in steady[c] /\ IsActive(n)' /\ n \in Names
    BY <1>1, <1>2, <1>5 DEF TypeOK
  <2>2. \A n \in steady[c] : IsActive(n) /\ Reachable(c, n)
    BY <1>2, <1>5 DEF FindFact
  <2>3. job'[c].searches = job[c].searches /\ job[c].searches
    BY <1>2, <1>5 DEF FindEffect, FindFact
  <2>4. \/ /\ job'[c].at = "finding" /\ job'[c].outcome # "idle"
           /\ \A n \in Names : IsActive(n) /\ Reachable(c, n) => Reachable(c, n)'
        \/ /\ job'[c].at # "finding"
           /\ \A n \in Names : IsActive(n) /\ Reachable(c, n) => n = job'[c].name
        \/ job'[c].at = "over" /\ job'[c].outcome # "idle"
    BY <1>2, <1>5 DEF FindEffect
  <2>. QED BY <2>1, <2>2, <2>3, <2>4 DEF FindFact
<1>. QED BY <1>2, <1>3, <1>4, <1>5 DEF FindEffect

LEMMA MoveKeepsIInv ==
  ASSUME IInv, NEW c \in Commands, Effect(c), Watch
  PROVE  IInv'
<1>1. job' = [job EXCEPT ![c] = job'[c]] /\ job'[c] \in Jobs /\ TypeOK
  BY DEF Effect, Moves, IInv
<1>2. \A d \in Commands \ {c} : job'[d] = job[d]
  BY <1>1 DEF TypeOK
<1>3. job' \in [Commands -> Jobs]
  BY <1>1 DEF TypeOK
<1>4. \A d \in Commands : Named(d)'
  <2>1. \A d \in Commands \ {c} : Named(d)'
    BY <1>1, <1>2 DEF Named, TypeOK
  <2>. QED BY <2>1 DEF Effect
<1>5. TypeOK'
  BY <1>1, <1>3, <1>4, WatchType DEF TypeOK, Effect, DeploymentsType, Named
<1>6. \A n \in Names : Change(n)
  BY DEF Effect
<1>7. \A d \in Commands \ {c} :
        (\A n \in Names : deployments'[n].by = d => Begun(d)') /\ WaitFact(d)' /\ FindFact(d)'
  BY <1>2, <1>6, BystanderFacts
<1>8. (\A n \in Names : deployments'[n].by = c => Begun(c)') /\ WaitFact(c)' /\ FindFact(c)'
  BY MoverFindFact DEF Effect
<1>9. BegunInv'
  BY <1>7, <1>8 DEF BegunInv
<1>. QED BY <1>5, <1>7, <1>8, <1>9 DEF IInv

LEMMA ProgressKeepsIInv ==
  ASSUME IInv, NEW m \in Names, Progress(m), Watch
  PROVE  IInv'
<1>1. DeploymentsType' /\ (\A n \in Names : Change(n)) /\ job' = job /\ TypeOK
  BY ProgressEffect DEF IInv
<1>2. TypeOK'
  BY <1>1, WatchType DEF TypeOK, DeploymentsType
<1>3. \A d \in Commands :
        (\A n \in Names : deployments'[n].by = d => Begun(d)') /\ WaitFact(d)' /\ FindFact(d)'
  BY <1>1, BystanderFacts
<1>. QED BY <1>2, <1>3 DEF IInv, BegunInv

LEMMA InitIInv == Init => IInv
<1> SUFFICES ASSUME Init PROVE IInv
  OBVIOUS
<1>1. TypeOK
  BY NoJobType DEF Init, TypeOK, States, NoJob
<1>2. BegunInv
  BY CommandsAssumption DEF Init, BegunInv
<1>3. \A c \in Commands : WaitFact(c) /\ FindFact(c)
  BY DEF Init, WaitFact, FindFact, NoJob
<1>. QED BY <1>1, <1>2, <1>3 DEF IInv

LEMMA NextIInv == IInv /\ [Next]_vars => IInv'
<1> SUFFICES ASSUME IInv, [Next]_vars PROVE IInv'
  OBVIOUS
<1>1. ASSUME NEW c \in Commands, Start(c) \/ Step(c), Watch PROVE IInv'
  BY <1>1, StartEffect, StepEffect, MoveKeepsIInv
<1>2. ASSUME NEW n \in Names, Progress(n), Watch PROVE IInv'
  BY <1>2, ProgressKeepsIInv
<1>3. CASE UNCHANGED vars
  BY <1>3 DEF vars, IInv, TypeOK, BegunInv, Begun, WaitFact, FindFact, IsActive, Reachable
<1>. QED BY <1>1, <1>2, <1>3 DEF Next, Terminated

-------------------------------------------------------------------------------
(* Why a stop is told that there are several.                               *)

Alone(S) == \A x, y \in S : x = y

LEMMA AloneCounts ==
  ASSUME NEW S \in SUBSET Names
  PROVE  Cardinality(S) \in Nat /\ (Alone(S) <=> ~(Cardinality(S) > 1))
<1>1. IsFiniteSet(S) /\ Cardinality(S) \in Nat
  BY NamesAssumption, FS_Subset, FS_CardinalityType
<1>2. CASE S = {}
  BY <1>2, FS_EmptySet DEF Alone
<1>3. ASSUME S # {}, Alone(S) PROVE Cardinality(S) = 1
  <2>1. PICK x \in S : S = {x}
    BY <1>3 DEF Alone
  <2>. QED BY <2>1, <1>1, FS_Singleton
<1>4. ASSUME Cardinality(S) = 1 PROVE Alone(S)
  <2>1. PICK x : S = {x}
    BY <1>1, <1>4, FS_Singleton
  <2>. QED BY <2>1 DEF Alone
<1>5. S # {} => Cardinality(S) # 0
  BY <1>1, FS_EmptySet
<1>. QED BY <1>1, <1>2, <1>3, <1>4, <1>5

\* Two were active at a time while it looked, or one has started to run.
Unsettled == crowded \cup shifted

\* As long as there is neither a choice nor a deployment that starts to run, what
\* was found on the first list excludes that there is anything on the second.
SettledFact(c) ==
  /\ job[c].outcome = "several" => job[c].searches /\ c \in Unsettled
  /\ job[c].at = "finding" /\ c \notin Unsettled =>
       LET found == job[c].found
       IN /\ Alone(ActiveNames)
          /\ job[c].after = NoName /\ found["running"] = {}
          /\ job[c].filter = "accepted" => found["accepted"] = {}
          /\ Alone(found["accepted"])
          /\ found["accepted"] # {} => \A n \in Names : deployments[n].state # "running"

SettledInv == \A c \in Commands : SettledFact(c)

\* What it means that a command is not unsettled yet.
LEMMA WatchFacts ==
  ASSUME Watch, NEW c \in Commands, job'[c].searches
  PROVE  /\ c \in Unsettled => c \in Unsettled'
         /\ job[c].at \in {"due", "finding"} /\ c \notin Unsettled' =>
              /\ c \notin Unsettled /\ Alone(ActiveNames')
              /\ \A n \in Names : ~StartsToRun(n)
<1>1. ActiveNames' \in SUBSET Names
  BY DEF ActiveNames
<1>2. Alone(ActiveNames') <=> ~(Cardinality(ActiveNames') > 1)
  BY <1>1, AloneCounts
<1>. QED BY <1>2 DEF Watch, Unsettled

\* A command that looks, while another one or the service moves.
LEMMA BystanderSettled ==
  ASSUME IInv, SettledInv, NEW d \in Commands, job'[d] = job[d],
         \A n \in Names : Change(n), Watch
  PROVE  SettledFact(d)'
<1>1. SettledFact(d) /\ FindFact(d)
  BY DEF IInv, SettledInv
<1>2. job[d].outcome = "several" => job'[d].searches /\ d \in Unsettled'
  BY <1>1, WatchFacts DEF SettledFact
<1>3. ASSUME job[d].at = "finding", d \notin Unsettled'
      PROVE  /\ Alone(ActiveNames') /\ d \notin Unsettled
             /\ \A n \in Names : deployments'[n].state = "running" =>
                                   deployments[n].state = "running"
  <2>1. job'[d].searches
    BY <1>1, <1>3 DEF FindFact
  <2>2. Alone(ActiveNames') /\ d \notin Unsettled /\ \A n \in Names : ~StartsToRun(n)
    BY <1>3, <2>1, WatchFacts
  <2>3. ASSUME NEW n \in Names, deployments'[n].state = "running"
        PROVE  deployments[n].state = "running"
    <3>1. deployments'[n] # [state |-> "none", by |-> Earlier]
      BY <2>3
    <3>2. ~\E e \in Commands : deployments'[n] = [state |-> "accepted", by |-> e]
      <4> SUFFICES ASSUME NEW e \in Commands,
                          deployments'[n] = [state |-> "accepted", by |-> e]
                   PROVE  FALSE
        OBVIOUS
      <4>1. deployments'[n].state = "accepted"
        OBVIOUS
      <4>. QED BY <2>3, <4>1
    <3>. QED BY <2>2, <2>3, <3>1, <3>2 DEF Change, StartsToRun
  <2>. QED BY <2>2, <2>3
<1>4. ASSUME job'[d].at = "finding", d \notin Unsettled'
      PROVE  /\ Alone(ActiveNames')
             /\ job'[d].after = NoName /\ job'[d].found["running"] = {}
             /\ job'[d].filter = "accepted" => job'[d].found["accepted"] = {}
             /\ Alone(job'[d].found["accepted"])
             /\ job'[d].found["accepted"] # {} =>
                  \A n \in Names : deployments'[n].state # "running"
  BY <1>1, <1>3, <1>4 DEF SettledFact
<1>. QED BY <1>2, <1>4 DEF SettledFact

\* One request of the search.
LEMMA FindSettled ==
  ASSUME IInv, SettledInv, NEW c \in Commands, NEW answer \in Answers, Find(c, answer), Watch
  PROVE  SettledFact(c)'
<1> DEFINE filter == job[c].filter
           rest == Rest(filter, job[c].after)
<1>1. /\ job[c] \in Jobs /\ job[c].at = "finding" /\ UNCHANGED deployments /\ TypeOK
      /\ job[c].searches /\ job[c].outcome = "none" /\ SettledFact(c)
  BY DEF IInv, TypeOK, Find, FindFact, WaitFact, SettledInv
<1>2. PICK last \in IF rest = {} THEN {NoName} ELSE rest :
        LET page == {n \in rest : n <= last}
            found == [job[c].found EXCEPT ![filter] = @ \cup page]
            more == [job[c] EXCEPT !.found = found]
        IN CASE answer # "served" -> Report(c, "failed")
             [] answer = "served" /\ rest # page ->
                  job' = [job EXCEPT ![c] = [more EXCEPT !.after = last]]
             [] answer = "served" /\ rest = page /\ filter = FirstFilter ->
                  job' = [job EXCEPT ![c] = [more EXCEPT !.filter = SecondFilter,
                                                         !.after = NoName]]
             [] OTHER -> Decide(c, found)
  BY DEF Find
<1> DEFINE page == {n \in rest : n <= last}
           found == [job[c].found EXCEPT ![filter] = @ \cup page]
           more == [job[c] EXCEPT !.found = found]
           paged == [more EXCEPT !.after = last]
           switched == [more EXCEPT !.filter = SecondFilter, !.after = NoName]
<1>3. filter \in ActiveStates
  BY <1>1 DEF Jobs
<1>4. \/ Report(c, "failed")
      \/ rest # page /\ job' = [job EXCEPT ![c] = paged]
      \/ rest = page /\ filter = "accepted" /\ job' = [job EXCEPT ![c] = switched]
      \/ rest = page /\ filter = "running" /\ Decide(c, found)
  BY <1>2, <1>3, Filters DEF Answers, ActiveStates
<1>5. /\ found \in [ActiveStates -> SUBSET Names]
      /\ found[filter] = job[c].found[filter] \cup page
      /\ \A s \in ActiveStates \ {filter} : found[s] = job[c].found[s]
  <2>1. last \in Names \cup {NoName}
    BY DEF Rest
  <2>. QED BY <1>1, <2>1, PageFacts
<1>6. /\ rest \subseteq ActiveNames /\ \A n \in rest : deployments[n].state = filter
      /\ ActiveNames' = ActiveNames /\ ActiveNames \subseteq Names
  BY <1>1, <1>3 DEF Rest, ActiveNames, IsActive
<1> HIDE DEF found
\* Nothing is known of the command afterwards, or it has been unsettled.
<1>7. ASSUME job'[c].searches, c \notin Unsettled'
      PROVE  /\ c \notin Unsettled /\ Alone(ActiveNames)
             /\ job[c].after = NoName /\ job[c].found["running"] = {}
             /\ filter = "accepted" => job[c].found["accepted"] = {}
             /\ Alone(job[c].found["accepted"])
             /\ job[c].found["accepted"] # {} =>
                  \A n \in Names : deployments[n].state # "running"
  <2>1. c \notin Unsettled
    BY <1>1, <1>7, WatchFacts
  <2>. QED BY <1>1, <2>1 DEF SettledFact
<1>8. CASE Report(c, "failed")
  <2>1. job'[c].at = "over" /\ job'[c].outcome = "failed"
    BY <1>1, <1>8, ReportFacts
  <2>. QED BY <2>1 DEF SettledFact
<1>9. CASE rest # page /\ job' = [job EXCEPT ![c] = paged]
  <2>1. /\ job'[c] = paged /\ paged.searches = job[c].searches
        /\ paged.outcome = job[c].outcome
    BY <1>1, <1>9 DEF TypeOK, Jobs
  <2>2. PICK n \in rest : n \notin page
    BY <1>9
  <2>3. last \in rest /\ last # n
    <3>1. last \in Int /\ last \in rest
      BY <1>2, <2>2, NamesAssumption DEF Rest
    <3>. QED BY <2>2, <3>1
  <2>4. ~Alone(ActiveNames)
    BY <1>6, <2>2, <2>3 DEF Alone
  <2>5. c \in Unsettled'
    BY <1>1, <1>7, <2>1, <2>4
  <2>. QED BY <1>1, <2>1, <2>5 DEF SettledFact
<1>10. CASE rest = page /\ filter = "accepted" /\ job' = [job EXCEPT ![c] = switched]
  <2>1. /\ job'[c] = switched /\ switched.searches = job[c].searches
        /\ switched.outcome = job[c].outcome /\ switched.found = found
        /\ switched.after = NoName /\ switched.filter = "running"
    BY <1>1, <1>10, Filters DEF TypeOK, Jobs
  <2> HIDE DEF switched
  <2>2. ASSUME c \notin Unsettled'
        PROVE  /\ Alone(ActiveNames) /\ found["running"] = {} /\ Alone(found["accepted"])
               /\ found["accepted"] # {} => \A n \in Names : deployments[n].state # "running"
    <3>1. /\ Alone(ActiveNames) /\ job[c].found["running"] = {}
          /\ job[c].found["accepted"] = {}
      BY <1>1, <1>7, <1>10, <2>1, <2>2
    <3>2. found["running"] = {} /\ found["accepted"] = rest
      BY <1>5, <1>10, <3>1 DEF ActiveStates
    <3>3. Alone(rest)
      BY <1>6, <3>1 DEF Alone
    <3>4. ASSUME rest # {}, NEW n \in Names PROVE deployments[n].state # "running"
      <4>1. PICK m \in rest : TRUE
        BY <3>4
      <4>2. m \in ActiveNames /\ deployments[m].state = "accepted"
        BY <1>6, <1>10, <4>1
      <4>3. deployments[n].state = "running" => n \in ActiveNames
        BY DEF ActiveNames, IsActive, ActiveStates
      <4>. QED BY <3>1, <4>2, <4>3 DEF Alone
    <3>. QED BY <3>1, <3>2, <3>3, <3>4
  <2>. QED BY <1>1, <1>6, <2>1, <2>2 DEF SettledFact
<1>11. CASE rest = page /\ filter = "running" /\ Decide(c, found)
  <2> DEFINE A == found["accepted"]
             R == found["running"]
             number == Cardinality(A) + Cardinality(R)
  <2>1. /\ A \in SUBSET Names /\ R \in SUBSET Names
        /\ Cardinality(A) \in Nat /\ Cardinality(R) \in Nat
    <3>1. A \in SUBSET Names /\ R \in SUBSET Names
      BY <1>5 DEF ActiveStates
    <3>. QED BY <3>1, AloneCounts
  <2>2. A = job[c].found["accepted"] /\ R = job[c].found["running"] \cup rest
    BY <1>5, <1>11 DEF ActiveStates
  <2>3. \/ Report(c, "idle")
        \/ job' = [job EXCEPT ![c].at = "confirming", ![c].found = NoJob.found,
                              ![c].name = Target(A \cup R)]
        \/ number # 0 /\ number # 1 /\ Report(c, "several")
    BY <1>11 DEF Decide
  <2> HIDE DEF A, R
  <2>4. CASE Report(c, "idle")
    <3>1. job'[c].at = "over" /\ job'[c].outcome = "idle"
      BY <1>1, <2>4, ReportFacts
    <3>. QED BY <3>1 DEF SettledFact
  <2>5. CASE job' = [job EXCEPT ![c].at = "confirming", ![c].found = NoJob.found,
                                ![c].name = Target(A \cup R)]
    <3>1. job'[c].at = "confirming" /\ job'[c].outcome = "none"
      BY <1>1, <2>5 DEF TypeOK, Jobs
    <3>. QED BY <3>1 DEF SettledFact
  <2>6. CASE number # 0 /\ number # 1 /\ Report(c, "several")
    <3>1. /\ job'[c].at = "over" /\ job'[c].outcome = "several"
          /\ job'[c].searches = job[c].searches
      BY <1>1, <2>6, ReportFacts
    <3>2. ASSUME c \notin Unsettled' PROVE FALSE
      <4>1. /\ Alone(ActiveNames) /\ job[c].found["running"] = {} /\ Alone(A)
            /\ A # {} => \A n \in Names : deployments[n].state # "running"
        BY <1>1, <1>7, <2>2, <3>1, <3>2
      <4>2. R = rest
        BY <2>2, <4>1
      <4>3. A # {} => R = {}
        BY <1>6, <1>11, <4>1, <4>2 DEF ActiveNames
      <4>4. Alone(R)
        BY <1>6, <4>1, <4>2 DEF Alone
      <4>5. ~(Cardinality(A) > 1) /\ ~(Cardinality(R) > 1)
        BY <2>1, <4>1, <4>4, AloneCounts
      <4>6. Cardinality(A) = 0 \/ Cardinality(R) = 0
        BY <4>3, FS_EmptySet
      <4>. QED BY <2>1, <2>6, <4>5, <4>6
    <3>. QED BY <1>1, <3>1, <3>2 DEF SettledFact
  <2>. QED BY <2>3, <2>4, <2>5, <2>6
<1>. QED BY <1>4, <1>8, <1>9, <1>10, <1>11

\* Any other step of a command.
LEMMA MoverSettled ==
  ASSUME IInv, SettledInv, NEW c \in Commands, Effect(c), Watch, job[c].at # "finding"
  PROVE  SettledFact(c)'
<1>1. \/ job'[c].at # "finding" /\ job'[c].outcome # "several"
      \/ /\ job[c].at = "due" /\ job'[c].outcome = "none" /\ job'[c].searches
         /\ job'[c].found = NoJob.found /\ job'[c].filter = "accepted"
         /\ job'[c].after = NoName
  BY DEF Effect, FindEffect
<1>2. NoJob.found = [s \in ActiveStates |-> {}]
  BY DEF NoJob
<1>3. CASE job'[c].at # "finding" /\ job'[c].outcome # "several"
  BY <1>3 DEF SettledFact
<1>4. CASE /\ job[c].at = "due" /\ job'[c].outcome = "none" /\ job'[c].searches
           /\ job'[c].found = NoJob.found /\ job'[c].filter = "accepted"
           /\ job'[c].after = NoName
  <2>1. c \notin Unsettled' => Alone(ActiveNames')
    BY <1>4, WatchFacts
  <2>2. job'[c].found["accepted"] = {} /\ job'[c].found["running"] = {}
    BY <1>2, <1>4 DEF ActiveStates
  <2>. QED BY <1>4, <2>1, <2>2 DEF SettledFact, Alone
<1>. QED BY <1>1, <1>3, <1>4

LEMMA NextSettledInv == IInv /\ SettledInv /\ [Next]_vars => SettledInv'
<1> SUFFICES ASSUME IInv, SettledInv, [Next]_vars PROVE SettledInv'
  OBVIOUS
<1>1. ASSUME NEW c \in Commands, Start(c) \/ Step(c), Watch PROVE SettledInv'
  <2>1. Effect(c)
    BY <1>1, StartEffect, StepEffect
  <2>2. \A d \in Commands \ {c} : job'[d] = job[d]
    BY <2>1 DEF Effect, Moves, IInv, TypeOK
  <2>3. \A d \in Commands \ {c} : SettledFact(d)'
    BY <1>1, <2>1, <2>2, BystanderSettled DEF Effect
  <2>4. CASE job[c].at # "finding"
    BY <1>1, <2>1, <2>3, <2>4, MoverSettled DEF SettledInv
  <2>5. CASE job[c].at = "finding"
    <3>1. \E answer \in Answers : Find(c, answer)
      BY <1>1, <2>5 DEF Start, StartDeploy, StartStop, StartDelete, StartOf, Step, Validate,
         Begin, GetDeployment, ListOperations, Explain, Confirm, Cancel, Check, Delete
    <3>2. SettledFact(c)'
      BY <1>1, <3>1, FindSettled
    <3>. QED BY <2>3, <3>2 DEF SettledInv
  <2>. QED BY <2>4, <2>5
<1>2. ASSUME NEW m \in Names, Progress(m), Watch PROVE SettledInv'
  <2>1. (\A n \in Names : Change(n)) /\ job' = job
    BY <1>2, ProgressEffect
  <2>. QED BY <1>2, <2>1, BystanderSettled DEF SettledInv
<1>3. CASE UNCHANGED vars
  BY <1>3 DEF vars, SettledInv, SettledFact, Unsettled, ActiveNames, IsActive
<1>. QED BY <1>1, <1>2, <1>3 DEF Next, Terminated

-------------------------------------------------------------------------------
(* The theorems.                                                            *)

\* The deployments and the commands' variables stay what they are meant to be,
\* and no command asks for a deployment by an empty name.
THEOREM TypeCorrect == Spec => []TypeOK
<1>1. IInv => TypeOK
  BY DEF IInv
<1>. QED BY <1>1, InitIInv, NextIInv, PTL DEF Spec

\* However many deployments there are, however the lists are cut into pages, and
\* whatever the deployments do between two requests: a stop without a name has
\* found every deployment that was active all the while.
THEOREM SearchMissesNothing == Spec => []StopMissesNothing
<1>1. IInv => StopMissesNothing
  BY DEF IInv, FindFact, StopMissesNothing
<1>. QED BY <1>1, InitIInv, NextIInv, PTL DEF Spec

\* A create that waits ends well only when its own deployment has ended.
THEOREM WaitsAreComplete == Spec => []WaitsToTheEnd
<1>1. IInv => WaitsToTheEnd
  BY DEF IInv, WaitFact, WaitsToTheEnd
<1>. QED BY <1>1, InitIInv, NextIInv, PTL DEF Spec

\* Why a stop without a name may be told that there are more than one: two
\* deployments were active at a time while it looked, or one has started to run
\* meanwhile, and may be on both lists.  The second is not a reason to refuse:
\* RefusedOnlyIfSeveral does not hold, and this is the only way to violate it.
RefusalsExplained ==
  \A c \in Commands : job[c].outcome = "several" /\ c \notin crowded => c \in shifted

\* The two lists are taken together by their lengths.  Whatever else happens to
\* the deployments between the pages of the two, none is counted twice.
THEOREM RefusalsHaveACause == Spec => []RefusalsExplained
<1>1. Init => SettledInv
  BY DEF Init, SettledInv, SettledFact, NoJob
<1>2. SettledInv => RefusalsExplained
  BY DEF SettledInv, SettledFact, Unsettled, RefusalsExplained
<1>. QED BY <1>1, <1>2, InitIInv, NextIInv, NextSettledInv, PTL DEF Spec

===============================================================================
