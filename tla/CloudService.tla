------------------------------ MODULE CloudService ------------------------------
(***************************************************************************)
(* lib/commands/asm/vm/vmclient.js: commands that create, change and       *)
(* delete the virtual machines of a cloud service, several at a time and   *)
(* by several users.                                                       *)
(*                                                                         *)
(* Each command is a chain of requests.  What it asks for depends on what  *)
(* it was answered before, while other commands go on: the roles of the    *)
(* deployment, the role of the VM, whether the cloud service exists.  A    *)
(* step of the model is a request that is served, with what the callback   *)
(* makes of its answer.                                                    *)
(*                                                                         *)
(* createVM() makes a cloud service, and a copy of a community image, that *)
(* it deletes again when it fails.                                         *)
(***************************************************************************)
EXTENDS FiniteSets, Integers

CONSTANTS
  Commands,
  KindsOf,         \* the kinds that each command may be of
  EndpointNames,
  ChangeSpace,     \* the changes of endpoints considered
  Luns,            \* the unit numbers that users ask to detach
  InitialNames     \* the VMs that may be there at first

Kinds == {"create", "delete", "endpoint", "set", "attach", "detach"}

ASSUME KindsOfAssumption == KindsOf \in [Commands -> SUBSET Kinds]
ASSUME EndpointNamesAssumption == EndpointNames # {}
ASSUME LunsAssumption == Luns # {} /\ Luns \subseteq Nat
ASSUME InitialNamesAssumption == InitialNames \subseteq Nat \ {0} /\ IsFiniteSet(InitialNames)

\* The names of VMs: 1 is the DNS prefix itself, n the prefix and "-n".
Names == Nat \ {0}
Earlier == "earlier"
NoService == "none"

ASSUME CommandsAssumption == {Earlier, NoService} \cap Commands = {}

Finite(numbers) == {s \in SUBSET numbers : IsFiniteSet(s)}

\* by: the command that has added it.  disks: their logical unit numbers
Endpoints == [name : EndpointNames, by : Commands \cup {Earlier}]
Roles == [endpoints : SUBSET Endpoints, disks : Finite(Nat),
          setBy : Commands \cup {Earlier}]
NewRole == [endpoints |-> {}, disks |-> {}, setBy |-> Earlier]

\* createEP, deleteEP, setEP (which may give the endpoint a new name).  portTaken:
\* if there is another endpoint, it has the port and protocol that are asked for
Changes == [op : {"add", "remove", "rename"}, name : EndpointNames, to : EndpointNames,
            portTaken : BOOLEAN]
ASSUME ChangeSpaceAssumption == ChangeSpace # {} /\ ChangeSpace \subseteq Changes

SomeChange == CHOOSE change \in ChangeSpace : TRUE
SomeLun == CHOOSE lun \in Luns : TRUE

VARIABLES
  service,    \* who has created the cloud service, if there is one
  vms,        \* the roles of its deployment, by name; without any there is none
  images,     \* the copies of community images
  job,        \* what each command is at
  unclean,    \* the commands that could not clean up after themselves
  calm,       \* no two commands have overlapped, and no request has failed
  expected    \* what the commands make of the service, as long as it is calm

vars == <<service, vms, images, job, unclean, calm, expected>>

Stages ==
  {"due", "listing", "creatingService", "gettingService", "lookingUp", "copyingImage",
   "lookingUpImage", "makingRole", "deploying", "adding", "deletingImage",
   "confirming", "deletingVm", "deletingDeployment", "inspecting", "deletingService",
   "reading", "updating", "over"}

\* seen, role: what the command was answered;  failed: the error it will report
\* connect: --connect was given, and no other virtual network than the deployment's
Jobs ==
  [kind : Kinds, at : Stages, vm : Nat, seen : Finite(Names), role : Roles,
   change : Changes, lun : Nat, connect : BOOLEAN, community : BOOLEAN,
   madeService : BOOLEAN, madeImage : BOOLEAN, failed : BOOLEAN]

NoJob(at, failed) ==
  [kind |-> "create", at |-> at, vm |-> 0, seen |-> {}, role |-> NewRole,
   change |-> SomeChange, lun |-> SomeLun, connect |-> FALSE, community |-> FALSE,
   madeService |-> FALSE, madeImage |-> FALSE, failed |-> failed]

TypeOK ==
  /\ service \in Commands \cup {Earlier, NoService}
  /\ DOMAIN vms \in Finite(Names)
  /\ vms \in [DOMAIN vms -> Roles]
  /\ images \subseteq Commands
  /\ job \in [Commands -> Jobs]
  /\ unclean \subseteq Commands
  /\ calm \in BOOLEAN
  /\ DOMAIN vms # {} => service # NoService

InitialRole ==
  [endpoints |-> {[name |-> CHOOSE n \in EndpointNames : TRUE, by |-> Earlier]},
   disks |-> {}, setBy |-> Earlier]

Init ==
  /\ service \in {Earlier, NoService}
  /\ \E names \in SUBSET InitialNames :
       /\ service = NoService => names = {}
       /\ vms = [n \in names |-> InitialRole]
  /\ images = {}
  /\ job = [c \in Commands |-> NoJob("due", FALSE)]
  /\ unclean = {}
  /\ calm = TRUE
  /\ expected = [service |-> service # NoService, vms |-> vms]

Active(c) == job[c].at \notin {"due", "over"}

-------------------------------------------------------------------------------
(* What the commands promise, one at a time.                                *)

Extended(machines, name, role) ==
  [n \in DOMAIN machines \cup {name} |-> IF n = name THEN role ELSE machines[n]]

Without(machines, name) == [n \in DOMAIN machines \ {name} |-> machines[n]]

Largest(numbers, least) ==
  CHOOSE n \in numbers \cup {least} : \A m \in numbers \cup {least} : m <= n

\* The name of an endpoint is unique, and so are port and protocol together.
Applicable(change, role) ==
  LET its == {e \in role.endpoints : e.name = change.name}
      others == role.endpoints \ its
  IN CASE change.op = "add" -> its = {} /\ (others # {} => ~change.portTaken)
       [] change.op = "remove" -> its # {}
       [] OTHER -> its # {} /\ \A e \in others : e.name # change.to /\ ~change.portTaken

\* setVM() and updateDebugSettings()
WithSettings(c, role) == [role EXCEPT !.setBy = c]

Changed(c, role) ==
  LET change == job[c].change
      its == {e \in role.endpoints : e.name = change.name}
  IN IF job[c].kind = "set" THEN WithSettings(c, role)
     ELSE [role EXCEPT !.endpoints =
             CASE change.op = "add" -> @ \cup {[name |-> change.name, by |-> c]}
               [] change.op = "remove" -> @ \ its
               [] OTHER -> (@ \ its) \cup {[e EXCEPT !.name = change.to] : e \in its}]

Promised(c) ==
  LET j == job[c]
      names == DOMAIN expected.vms
      with(role) == [expected EXCEPT !.vms = Extended(@, j.vm, role)]
      its == expected.vms[j.vm]
  IN IF j.kind = "create"
     THEN CASE names = {} -> [service |-> TRUE, vms |-> [n \in {1} |-> NewRole]]
            [] names # {} /\ j.connect ->
                 [expected EXCEPT !.vms = Extended(@, Largest(names, 1) + 1, NewRole)]
            [] OTHER -> expected
     ELSE IF j.vm \notin names THEN expected
     ELSE CASE j.kind = "delete" ->
                 [service |-> names # {j.vm}, vms |-> Without(expected.vms, j.vm)]
            [] j.kind = "attach" -> with([its EXCEPT !.disks = @ \cup {Largest(@, -1) + 1}])
            [] j.kind = "detach" -> with([its EXCEPT !.disks = @ \ {j.lun}])
            [] j.kind = "set" \/ (j.kind = "endpoint" /\ Applicable(j.change, its)) ->
                 with(Changed(c, its))
            [] OTHER -> expected

-------------------------------------------------------------------------------
(* What all commands have in common.                                        *)

NoExpectation == [service |-> FALSE, vms |-> [n \in {} |-> NewRole]]

Goto(c, stage) == job' = [job EXCEPT ![c].at = stage]

\* The callback of the command, and with it the end of the process.
Report(c, failed) == job' = [job EXCEPT ![c] = NoJob("over", failed)]

\* A request is "served", or refused if it is not possible; or it "failed", or
\* was applied but its answer "lost".
Answers == {"served", "failed", "lost"}
Applies(possible, answer) == possible /\ answer # "failed"
Succeeds(possible, answer) == possible /\ answer = "served"

\* What is to be expected, once a command has taken a step.
Settle(c, answer) ==
  /\ calm' = (calm /\ answer = "served")
  /\ expected' = IF ~calm' THEN NoExpectation
                 ELSE IF job'[c].at = "over" /\ job[c].at # "confirming" THEN Promised(c)
                 ELSE expected

StartOf(c, kind, stage) ==
  /\ job[c].at = "due" /\ kind \in KindsOf[c]
  /\ calm' = (calm /\ ~\E d \in Commands : Active(d))
  /\ expected' = IF calm' THEN expected ELSE NoExpectation
  /\ UNCHANGED <<service, vms, images, unclean>>

StartCreate(c) ==
  /\ StartOf(c, "create", "listing")
  /\ \E connect, community \in BOOLEAN :
       job' = [job EXCEPT ![c] = [NoJob("listing", FALSE) EXCEPT
                                    !.connect = connect, !.community = community]]

StartOther(c) ==
  \E kind \in Kinds \ {"create"}, vm \in InitialNames \cup DOMAIN vms,
     change \in ChangeSpace, lun \in Luns :
    /\ StartOf(c, kind, "lookingUp")
    /\ kind # "endpoint" => change = SomeChange
    /\ kind # "detach" => lun = SomeLun
    /\ job' = [job EXCEPT ![c] = [NoJob("lookingUp", FALSE) EXCEPT
                                    !.kind = kind, !.vm = vm, !.change = change,
                                    !.lun = lun]]

-------------------------------------------------------------------------------
(* createVM()                                                               *)

\* The image that the VM is made of is copied first, if it is a community image.
AfterService(c) == IF job[c].community THEN "copyingImage" ELSE "makingRole"

\* Mutation: the service is left if there is an image to delete.
AfterImage_Ends(c, failed) == "over"

\* What is left to clean up when the copy of the image is gone.
AfterImage(c, failed) ==
  IF failed /\ job[c].madeService THEN "deletingService" ELSE "over"

\* cmdCallbackHook()
Hook(c, failed) ==
  LET next == IF job[c].madeImage THEN "deletingImage" ELSE AfterImage(c, failed)
  IN IF next = "over" THEN Report(c, failed)
     ELSE job' = [job EXCEPT ![c].at = next, ![c].failed = failed]

\* createHostedService(), and what is verified before it
ListServices(c, answer) ==
  /\ job[c].at = "listing"
  /\ IF answer # "served" THEN Report(c, TRUE)
     ELSE Goto(c, IF service = NoService THEN "creatingService" ELSE "gettingService")
  /\ UNCHANGED <<service, vms, images, unclean>>

CreateService(c, answer) ==
  LET possible == service = NoService
  IN /\ job[c].at = "creatingService"
     /\ service' = IF Applies(possible, answer) THEN c ELSE service
     /\ IF Succeeds(possible, answer)
        THEN job' = [job EXCEPT ![c].at = AfterService(c), ![c].madeService = TRUE]
        ELSE Report(c, TRUE)
     /\ unclean' = IF service' # service /\ answer = "lost" THEN unclean \cup {c} ELSE unclean
     /\ UNCHANGED <<vms, images>>

\* createDeploymentInExistingHostedService()
GetService(c, answer) ==
  /\ job[c].at = "gettingService"
  /\ IF Succeeds(service # NoService, answer) THEN Goto(c, "lookingUp") ELSE Report(c, TRUE)
  /\ UNCHANGED <<service, vms, images, unclean>>

\* A VM can only be added to the deployment that is there, and only in its network.
LookUpDeployment(c, answer) ==
  /\ job[c].at = "lookingUp" /\ job[c].kind = "create"
  /\ IF answer # "served" \/ (DOMAIN vms # {} /\ ~job[c].connect) THEN Report(c, TRUE)
     ELSE job' = [job EXCEPT ![c].at = AfterService(c), ![c].seen = DOMAIN vms]
  /\ UNCHANGED <<service, vms, images, unclean>>

\* copyAndRegCommunityImgIfRequired()
CopyImage(c, answer) ==
  /\ job[c].at = "copyingImage"
  /\ images' = IF Applies(TRUE, answer) THEN images \cup {c} ELSE images
  /\ IF answer = "served"
     THEN job' = [job EXCEPT ![c].at = "lookingUpImage", ![c].madeImage = TRUE]
     ELSE Hook(c, TRUE)
  /\ unclean' = IF answer = "lost" THEN unclean \cup {c} ELSE unclean
  /\ UNCHANGED <<service, vms>>

LookUpImage(c, answer) ==
  /\ job[c].at = "lookingUpImage"
  /\ IF answer = "served" THEN Goto(c, "makingRole") ELSE Hook(c, TRUE)
  /\ UNCHANGED <<service, vms, images, unclean>>

\* createRole(), or configureCert() for a role from a file.  An error is
\* reported without cmdCallbackHook(), and the process ends; if it does not at
\* once, it goes on to ask for a VM without a role, which fails.
MakeRole(c, answer) ==
  /\ job[c].at = "makingRole"
  /\ \/ /\ answer = "served"
        /\ Goto(c, IF job[c].seen = {} THEN "deploying" ELSE "adding")
        /\ UNCHANGED unclean
     \/ answer = "failed" /\ Hook(c, TRUE) /\ UNCHANGED unclean
     \/ answer = "failed" /\ Report(c, TRUE) /\ unclean' = unclean \cup {c}
  /\ UNCHANGED <<service, vms, images>>

\* A deployment of one VM.
Deploy(c, answer) ==
  LET possible == service # NoService /\ DOMAIN vms = {}
  IN /\ job[c].at = "deploying"
     /\ vms' = IF Applies(possible, answer) THEN Extended(vms, 1, NewRole) ELSE vms
     /\ Hook(c, ~Succeeds(possible, answer))
     /\ UNCHANGED <<service, images, unclean>>

\* Mutation: the VMs are counted.
NextName_Counted(names) == Cardinality(names) + 1

NextName(names) == Largest(names, 1) + 1

AddRole(c, answer) ==
  LET name == NextName(job[c].seen)
      possible == DOMAIN vms # {} /\ name \notin DOMAIN vms
  IN /\ job[c].at = "adding"
     /\ vms' = IF Applies(possible, answer) THEN Extended(vms, name, NewRole) ELSE vms
     /\ Hook(c, ~Succeeds(possible, answer))
     /\ UNCHANGED <<service, images, unclean>>

DeleteImage(c, answer) ==
  LET next == AfterImage(c, job[c].failed)
  IN /\ job[c].at = "deletingImage"
     /\ images' = IF Applies(TRUE, answer) THEN images \ {c} ELSE images
     /\ unclean' = IF answer = "served" THEN unclean ELSE unclean \cup {c}
     /\ IF next = "over" THEN Report(c, job[c].failed) ELSE Goto(c, next)
     /\ UNCHANGED <<service, vms>>

\* The service refuses to delete a cloud service that has a deployment.
CanDeleteService == service # NoService /\ DOMAIN vms = {}

\* cleanupHostedServiceAndExit()
CleanUpService(c, answer) ==
  /\ job[c].at = "deletingService" /\ job[c].kind = "create"
  /\ service' = IF Applies(CanDeleteService, answer) THEN NoService ELSE service
  /\ unclean' = IF Succeeds(CanDeleteService, answer) THEN unclean ELSE unclean \cup {c}
  /\ Report(c, TRUE)
  /\ UNCHANGED <<vms, images>>

-------------------------------------------------------------------------------
(* deleteVM()                                                               *)

LookUpVmToDelete(c, answer) ==
  /\ job[c].at = "lookingUp" /\ job[c].kind = "delete"
  /\ IF answer # "served" \/ job[c].vm \notin DOMAIN vms THEN Report(c, answer # "served")
     ELSE job' = [job EXCEPT ![c].at = "confirming", ![c].seen = DOMAIN vms]
  /\ UNCHANGED <<service, vms, images, unclean>>

\* Mutation: the VM that is deleted counts twice.
IsLastRole_OfTwo(names) == Cardinality(names) <= 2

\* deleteRoleOrDeployment() asks for the role, or for the whole deployment.
IsLastRole(names) == ~(Cardinality(names) > 1)

\* The user is asked, unless -q was given, or has second thoughts.
Confirm(c, answer) ==
  /\ job[c].at = "confirming" /\ answer = "served"
  /\ \/ Goto(c, IF IsLastRole(job[c].seen) THEN "deletingDeployment" ELSE "deletingVm")
     \/ Report(c, FALSE)
  /\ UNCHANGED <<service, vms, images, unclean>>

\* The service refuses to delete the last role of a deployment.
DeleteRole(c, answer) ==
  LET possible == job[c].vm \in DOMAIN vms /\ Cardinality(DOMAIN vms) > 1
  IN /\ job[c].at = "deletingVm"
     /\ vms' = IF Applies(possible, answer) THEN Without(vms, job[c].vm) ELSE vms
     /\ Report(c, ~Succeeds(possible, answer))
     /\ UNCHANGED <<service, images, unclean>>

DeleteDeployment(c, answer) ==
  LET possible == DOMAIN vms # {}
  IN /\ job[c].at = "deletingDeployment"
     /\ vms' = IF Applies(possible, answer) THEN [n \in {} |-> NewRole] ELSE vms
     /\ IF Succeeds(possible, answer) THEN Goto(c, "inspecting") ELSE Report(c, TRUE)
     /\ UNCHANGED <<service, images, unclean>>

\* Mutation: no one is called back if there is another deployment.
LeavesService_Waits(c) == Goto(c, "waiting")

LeavesService(c) == Report(c, FALSE)

\* deleteHostedServiceIfEmpty()
Inspect(c, answer) ==
  /\ job[c].at = "inspecting"
  /\ IF ~Succeeds(service # NoService, answer) THEN Report(c, TRUE)
     ELSE IF DOMAIN vms = {} THEN Goto(c, "deletingService")
     ELSE LeavesService(c)
  /\ UNCHANGED <<service, vms, images, unclean>>

DeleteService(c, answer) ==
  /\ job[c].at = "deletingService" /\ job[c].kind = "delete"
  /\ service' = IF Applies(CanDeleteService, answer) THEN NoService ELSE service
  /\ Report(c, ~Succeeds(CanDeleteService, answer))
  /\ UNCHANGED <<vms, images, unclean>>

-------------------------------------------------------------------------------
(* Changes of a VM.                                                         *)

\* setVM() and diskAttachDetach() do not read the role again: what they write, or
\* take the unit number from, is what they find in the list.
AfterLookUp(c) == IF job[c].kind = "endpoint" THEN "reading" ELSE "updating"

\* getDeployments() and getVMDeployment()
LookUpVm(c, answer) ==
  /\ job[c].at = "lookingUp" /\ job[c].kind \in {"endpoint", "set", "attach", "detach"}
  /\ IF ~Succeeds(job[c].vm \in DOMAIN vms, answer)
     THEN Report(c, job[c].kind \in {"endpoint", "set"} \/ answer # "served")
     ELSE LET role == vms[job[c].vm]
          IN job' = [job EXCEPT ![c].at = AfterLookUp(c), ![c].role = role]
  /\ UNCHANGED <<service, vms, images, unclean>>

\* Mutation: an endpoint's new name is not compared with the others' names.
Accepts_AnyName(change, role) ==
  change.op = "add" \/ \E e \in role.endpoints : e.name = change.name

Accepts(change, role) == Applicable(change, role)

\* virtualMachines.get() and the checks of createEP(), deleteEP() and setEP().
ReadRole(c, answer) ==
  /\ job[c].at = "reading"
  /\ IF Succeeds(job[c].vm \in DOMAIN vms, answer) /\ Accepts(job[c].change, vms[job[c].vm])
     THEN job' = [job EXCEPT ![c].at = "updating", ![c].role = vms[job[c].vm]]
     ELSE Report(c, TRUE)
  /\ UNCHANGED <<service, vms, images, unclean>>

\* virtualMachines.update(): the whole role is written.
UpdateRole(c, answer) ==
  LET possible == job[c].vm \in DOMAIN vms
  IN /\ job[c].at = "updating" /\ job[c].kind \in {"endpoint", "set"}
     /\ vms' = IF Applies(possible, answer)
               THEN [vms EXCEPT ![job[c].vm] = Changed(c, job[c].role)] ELSE vms
     /\ Report(c, ~Succeeds(possible, answer))
     /\ UNCHANGED <<service, images, unclean>>

\* diskAttachDetach(): the unit number comes from the list, the service refuses
\* one that is taken, or to detach one that is not there.
ChangeDisks(c, answer) ==
  LET attach == job[c].kind = "attach"
      lun == IF attach THEN Largest(job[c].role.disks, -1) + 1 ELSE job[c].lun
      possible == job[c].vm \in DOMAIN vms /\ (attach <=> lun \notin vms[job[c].vm].disks)
  IN /\ job[c].at = "updating" /\ job[c].kind \in {"attach", "detach"}
     /\ vms' = IF Applies(possible, answer)
               THEN [vms EXCEPT ![job[c].vm].disks =
                       IF attach THEN @ \cup {lun} ELSE @ \ {lun}] ELSE vms
     /\ Report(c, ~Succeeds(possible, answer))
     /\ UNCHANGED <<service, images, unclean>>

-------------------------------------------------------------------------------
Step(c) ==
  Active(c) /\ \E answer \in Answers :
    /\ \/ ListServices(c, answer) \/ CreateService(c, answer) \/ GetService(c, answer)
       \/ LookUpDeployment(c, answer) \/ CopyImage(c, answer) \/ LookUpImage(c, answer)
       \/ MakeRole(c, answer) \/ Deploy(c, answer) \/ AddRole(c, answer)
       \/ DeleteImage(c, answer) \/ CleanUpService(c, answer)
       \/ LookUpVmToDelete(c, answer) \/ Confirm(c, answer) \/ DeleteRole(c, answer)
       \/ DeleteDeployment(c, answer) \/ Inspect(c, answer) \/ DeleteService(c, answer)
       \/ LookUpVm(c, answer) \/ ReadRole(c, answer) \/ UpdateRole(c, answer)
       \/ ChangeDisks(c, answer)
    /\ Settle(c, answer)

Terminated == (\A c \in Commands : job[c].at = "over") /\ UNCHANGED vars

Next ==
  \/ \E c \in Commands : StartCreate(c) \/ StartOther(c) \/ Step(c)
  \/ Terminated

\* Every request is answered in the end, and the user answers too.
Spec == Init /\ [][Next]_vars /\ \A c \in Commands : WF_vars(Step(c))

-------------------------------------------------------------------------------
(* Properties.                                                              *)

\* As long as no two commands overlapped and no request failed, the service is
\* what the commands have promised, one after the other: a new VM gets a name
\* of its own, a cloud service goes with its last VM, a change leaves the other
\* endpoints and disks alone, and no copied image is left.
AloneIsExact ==
  calm /\ (\A c \in Commands : ~Active(c)) =>
    /\ vms = expected.vms
    /\ service # NoService <=> expected.service
    /\ images = {}

\* However commands overlap and whatever fails, a VM goes only when it is
\* deleted by its name, or was added to the deployment after a command that
\* deletes its only other VM had looked: no clean-up takes it away.
VmsGoByDeletion ==
  [][\A vm \in DOMAIN vms \ DOMAIN vms' :
       \E c \in Commands :
         /\ job[c].kind = "delete" /\ job'[c] # job[c]
         /\ vm = job[c].vm \/ vm \notin job[c].seen]_vars

\* A command that has ended leaves no copy of an image, and none that failed
\* leaves the cloud service that it made, unless a request to clean up was
\* refused or failed, its answer was lost, or no role could be made for the VM.
NothingTemporaryLeft ==
  \A c \in Commands :
    job[c].at = "over" /\ c \notin unclean =>
      c \notin images /\ (job[c].failed => service # c)

\* A VM never has two endpoints of one name, however changes overlap that were
\* computed from what was read before.
UniqueEndpoints ==
  \A vm \in DOMAIN vms : \A e, f \in vms[vm].endpoints : e.name = f.name => e = f

\* Every command calls back in the end, on every path of callbacks.
EveryCommandEnds == \A c \in Commands : Active(c) ~> job[c].at = "over"

===============================================================================
