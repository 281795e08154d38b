-------------------------- MODULE CloudService_proofs --------------------------
(* Proofs about CloudService. *)
EXTENDS CloudService, FiniteSetTheorems, TLAPS

\* A finite set of integers has a largest member: the one with the smallest set
\* of members behind it.
LEMMA LargestExists ==
  ASSUME NEW S \in SUBSET Int, IsFiniteSet(S), S # {}
  PROVE  \E n \in S : \A m \in S : m <= n
<1> DEFINE from(n) == {m \in S : n <= m}
           T == {from(n) : n \in S}
           R == StrictSubsetOrdering(S)
<1>1. T \subseteq FiniteSubsetsOf(S)
  <2> SUFFICES ASSUME NEW n \in S PROVE from(n) \in FiniteSubsetsOf(S)
    OBVIOUS
  <2>1. from(n) \in SUBSET S
    OBVIOUS
  <2>2. IsFiniteSet(from(n))
    BY <2>1, FS_Subset
  <2>. QED BY <2>1, <2>2 DEF FiniteSubsetsOf
<1>2. T # {}
  OBVIOUS
<1>3. IsWellFoundedOn(R, FiniteSubsetsOf(S))
  BY FS_StrictSubsetOrderingWellFounded
<1>4. \E U \in T : \A V \in T : ~(<<V, U>> \in R)
  <2> HIDE DEF T, R
  <2>. QED BY <1>1, <1>2, <1>3, WFMin
<1>5. PICK n \in S : \A m \in S : ~(<<from(m), from(n)>> \in R)
  BY <1>4
<1>6. ASSUME NEW m \in S, ~(m <= n) PROVE FALSE
  <2>1. n \in Int /\ m \in Int /\ n < m
    BY <1>6
  <2>2. from(m) \subseteq from(n) /\ from(m) \in SUBSET S /\ from(n) \in SUBSET S
    <3>1. \A k \in S : m <= k => n <= k
      <4> SUFFICES ASSUME NEW k \in S, m <= k PROVE n <= k
        OBVIOUS
      <4>1. k \in Int
        OBVIOUS
      <4>. QED BY <2>1, <4>1
    <3>. QED BY <3>1
  <2>3. n \in from(n) /\ n \notin from(m)
    BY <2>1
  <2>4. <<from(m), from(n)>> \in R
    BY <2>2, <2>3 DEF StrictSubsetOrdering
  <2>. QED BY <1>5, <2>4
<1>. QED BY <1>6

LEMMA LargestIsLargest ==
  ASSUME NEW numbers \in Finite(Nat), NEW least \in Int
  PROVE  /\ Largest(numbers, least) \in numbers \cup {least}
         /\ \A n \in numbers \cup {least} : n <= Largest(numbers, least)
<1> DEFINE S == numbers \cup {least}
<1>1. S \in SUBSET Int /\ S # {}
  BY DEF Finite
<1>2. IsFiniteSet(S)
  BY FS_AddElement DEF Finite
<1>3. \E n \in S : \A m \in S : m <= n
  BY <1>1, <1>2, LargestExists
<1>. QED BY <1>3 DEF Largest

\* A new VM gets a name that no VM of the deployment has.
THEOREM NewNameIsNew ==
  ASSUME NEW names \in Finite(Names)
  PROVE  NextName(names) \in Names /\ NextName(names) \notin names
<1>1. names \in Finite(Nat)
  BY DEF Finite, Names
<1>2. /\ Largest(names, 1) \in names \cup {1}
      /\ \A n \in names \cup {1} : n <= Largest(names, 1)
  BY <1>1, LargestIsLargest
<1> DEFINE largest == Largest(names, 1)
<1>3. NextName(names) = largest + 1
  BY DEF NextName
<1>4. names \subseteq Nat \ {0}
  BY DEF Finite, Names
<1> HIDE DEF largest
<1>5. largest \in Nat \ {0} /\ \A n \in names : n # largest + 1
  <2>1. largest \in names \cup {1} /\ \A n \in names : n <= largest
    BY <1>2 DEF largest
  <2>2. largest \in Nat \ {0}
    BY <2>1, <1>4
  <2>. QED BY <2>1, <2>2, <1>4
<1>. QED BY <1>3, <1>5 DEF Names

\* So does a new disk.
LEMMA NewLunType ==
  ASSUME NEW luns \in Finite(Nat)
  PROVE  Largest(luns, -1) + 1 \in Nat
<1>1. -1 \in Int
  OBVIOUS
<1>2. Largest(luns, -1) \in luns \cup {-1}
  BY <1>1, LargestIsLargest
<1>3. luns \subseteq Nat
  BY DEF Finite
<1> DEFINE largest == Largest(luns, -1)
<1>4. largest \in luns \/ largest = -1
  BY <1>2
<1> HIDE DEF largest
<1>5. largest + 1 \in Nat
  <2>1. CASE largest \in luns
    <3>1. largest \in Nat
      BY <2>1, <1>3
    <3>. QED BY <3>1
  <2>2. CASE largest = -1
    <3>1. -1 + 1 = 0
      OBVIOUS
    <3>. QED BY <2>2, <3>1
  <2>. QED BY <2>1, <2>2, <1>4
<1>6. largest = Largest(luns, -1)
  BY DEF largest
<1>. QED BY <1>5, <1>6

\* And a unit number that is not taken.
LEMMA NewLunIsNew ==
  ASSUME NEW luns \in Finite(Nat)
  PROVE  Largest(luns, -1) + 1 \notin luns
<1> DEFINE largest == Largest(luns, -1)
<1>1. -1 \in Int
  OBVIOUS
<1>2. largest \in luns \cup {-1} /\ \A n \in luns \cup {-1} : n <= largest
  BY <1>1, LargestIsLargest
<1>3. luns \subseteq Nat
  BY DEF Finite
<1> HIDE DEF largest
<1>4. largest \in Int
  BY <1>1, <1>2, <1>3
<1>5. largest + 1 \notin luns
  BY <1>2, <1>3, <1>4
<1>. QED BY <1>5 DEF largest

LEMMA FiniteWithAndWithout ==
  ASSUME NEW S, NEW T \in Finite(S), NEW x \in S
  PROVE  T \cup {x} \in Finite(S) /\ T \ {x} \in Finite(S)
BY FS_AddElement, FS_RemoveElement DEF Finite

LEMMA EmptyIsFinite == ASSUME NEW S PROVE {} \in Finite(S)
BY FS_EmptySet DEF Finite

LEMMA NewRoleType == NewRole \in Roles
BY EmptyIsFinite DEF NewRole, Roles

LEMMA NoJobType ==
  ASSUME NEW at \in Stages, NEW failed \in BOOLEAN
  PROVE  NoJob(at, failed) \in Jobs
<1>1. SomeChange \in Changes
  BY ChangeSpaceAssumption DEF SomeChange
<1>2. SomeLun \in Luns
  BY LunsAssumption DEF SomeLun
<1>3. SomeLun \in Nat
  BY <1>2, LunsAssumption
<1>4. {} \in Finite(Names)
  BY EmptyIsFinite
<1>. QED BY <1>1, <1>3, <1>4, NewRoleType DEF NoJob, Jobs, Kinds

\* The next job of a command that reports, or goes on.
LEMMA ReportType ==
  ASSUME TypeOK, NEW c \in Commands, NEW failed \in BOOLEAN, Report(c, failed)
  PROVE  job' \in [Commands -> Jobs]
<1>1. NoJob("over", failed) \in Jobs
  BY NoJobType DEF Stages
<1>. QED BY <1>1 DEF Report, TypeOK

LEMMA GotoType ==
  ASSUME TypeOK, NEW c \in Commands, NEW stage \in Stages, Goto(c, stage)
  PROVE  job' \in [Commands -> Jobs]
<1>1. [job[c] EXCEPT !.at = stage] \in Jobs
  BY DEF TypeOK, Jobs
<1>. QED BY <1>1 DEF Goto, TypeOK

LEMMA HookType ==
  ASSUME TypeOK, NEW c \in Commands, NEW failed \in BOOLEAN, Hook(c, failed)
  PROVE  job' \in [Commands -> Jobs]
<1>1. ASSUME NEW next \in {"deletingImage", "deletingService"}
      PROVE  [job EXCEPT ![c].at = next, ![c].failed = failed] \in [Commands -> Jobs]
  <2>1. [job[c] EXCEPT !.at = next, !.failed = failed] \in Jobs
    BY DEF TypeOK, Jobs, Stages
  <2>. QED BY <2>1 DEF TypeOK
<1>. QED BY <1>1, ReportType DEF Hook, AfterImage

\* The VMs with one more, or one less.
LEMMA ExtendedType ==
  ASSUME TypeOK, NEW name \in Names, NEW role \in Roles
  PROVE  LET more == Extended(vms, name, role)
         IN DOMAIN more \in Finite(Names) /\ more \in [DOMAIN more -> Roles]
<1>1. DOMAIN vms \cup {name} \in Finite(Names)
  BY FiniteWithAndWithout DEF TypeOK
<1>. QED BY <1>1 DEF Extended, TypeOK

LEMMA WithoutType ==
  ASSUME TypeOK, NEW name
  PROVE  LET less == Without(vms, name)
         IN DOMAIN less \in Finite(Names) /\ less \in [DOMAIN less -> Roles]
<1>1. DOMAIN vms \ {name} \in Finite(Names)
  BY FS_RemoveElement DEF Finite, TypeOK
<1>. QED BY <1>1 DEF Without, TypeOK

LEMMA ChangedType ==
  ASSUME TypeOK, NEW c \in Commands, NEW role \in Roles
  PROVE  Changed(c, role) \in Roles
<1> DEFINE change == job[c].change
           its == {e \in role.endpoints : e.name = change.name}
<1>1. change \in Changes
  BY DEF TypeOK, Jobs
<1>2. change.name \in EndpointNames /\ change.to \in EndpointNames
  BY <1>1 DEF Changes
<1>3. role.endpoints \subseteq Endpoints
  BY DEF Roles
<1>4. [name |-> change.name, by |-> c] \in Endpoints
  BY <1>2 DEF Endpoints
<1>5. \A e \in its : [e EXCEPT !.name = change.to] \in Endpoints
  BY <1>2, <1>3 DEF Endpoints
<1>6. [role EXCEPT !.setBy = c] \in Roles
  BY DEF Roles
<1>7. \A endpoints \in SUBSET Endpoints : [role EXCEPT !.endpoints = endpoints] \in Roles
  BY DEF Roles
<1>8. /\ role.endpoints \cup {[name |-> change.name, by |-> c]} \in SUBSET Endpoints
      /\ role.endpoints \ its \in SUBSET Endpoints
      /\ (role.endpoints \ its) \cup {[e EXCEPT !.name = change.to] : e \in its}
           \in SUBSET Endpoints
  BY <1>3, <1>4, <1>5
<1>. QED BY <1>6, <1>7, <1>8 DEF Changed, WithSettings

LEMMA InitTypeOK == Init => TypeOK
<1> SUFFICES ASSUME Init PROVE TypeOK
  OBVIOUS
<1>1. PICK names \in SUBSET InitialNames :
        (service = NoService => names = {}) /\ vms = [n \in names |-> InitialRole]
  BY DEF Init
<1>2. DOMAIN vms = names /\ names \in Finite(Names)
  BY <1>1, InitialNamesAssumption, FS_Subset DEF Finite, Names
<1>3. InitialRole \in Roles
  <2>1. (CHOOSE n \in EndpointNames : TRUE) \in EndpointNames
    BY EndpointNamesAssumption
  <2>2. {[name |-> CHOOSE n \in EndpointNames : TRUE, by |-> Earlier]} \subseteq Endpoints
    BY <2>1 DEF Endpoints
  <2>. QED BY <2>2, EmptyIsFinite DEF InitialRole, Roles
<1>4. job \in [Commands -> Jobs]
  BY NoJobType DEF Init, Stages
<1>. QED BY <1>1, <1>2, <1>3, <1>4 DEF Init, TypeOK

\* What is left to show of a step that changes only its job, and of one that
\* changes the VMs too.
LEMMA JobStepTypeOK ==
  ASSUME TypeOK, job' \in [Commands -> Jobs], calm' \in BOOLEAN,
         UNCHANGED <<service, vms, images, unclean>>
  PROVE  TypeOK'
BY DEF TypeOK

LEMMA VmsStepTypeOK ==
  ASSUME TypeOK, job' \in [Commands -> Jobs], calm' \in BOOLEAN,
         UNCHANGED <<service, images, unclean>>,
         DOMAIN vms' \in Finite(Names), vms' \in [DOMAIN vms' -> Roles],
         DOMAIN vms' # {} => service # NoService
  PROVE  TypeOK'
BY DEF TypeOK

LEMMA CreateTypeOK ==
  ASSUME TypeOK, calm' \in BOOLEAN, NEW c \in Commands, NEW answer \in Answers,
         \/ ListServices(c, answer) \/ CreateService(c, answer) \/ GetService(c, answer)
         \/ LookUpDeployment(c, answer) \/ CopyImage(c, answer) \/ LookUpImage(c, answer)
         \/ MakeRole(c, answer) \/ Deploy(c, answer) \/ AddRole(c, answer)
         \/ DeleteImage(c, answer) \/ CleanUpService(c, answer)
  PROVE  TypeOK'
<1>1. AfterService(c) \in Stages
  BY DEF AfterService, Stages
<1>2. DOMAIN vms \in Finite(Names)
  BY DEF TypeOK
<1>3. CASE ListServices(c, answer)
  <2>1. job' \in [Commands -> Jobs]
    BY <1>3, GotoType, ReportType DEF ListServices, Stages
  <2>. QED BY <1>3, <2>1, JobStepTypeOK DEF ListServices
<1>4. CASE CreateService(c, answer)
  <2>1. [job[c] EXCEPT !.at = AfterService(c), !.madeService = TRUE] \in Jobs
    BY <1>1 DEF TypeOK, Jobs
  <2>2. job' \in [Commands -> Jobs]
    BY <1>4, <2>1, ReportType DEF CreateService, TypeOK
  <2>3. /\ service' \in Commands \cup {Earlier, NoService}
        /\ service # NoService => service' # NoService
        /\ unclean' \subseteq Commands
    BY <1>4, CommandsAssumption DEF CreateService, TypeOK
  <2>. QED BY <1>4, <2>2, <2>3 DEF CreateService, TypeOK
<1>5. CASE GetService(c, answer)
  <2>1. job' \in [Commands -> Jobs]
    BY <1>5, GotoType, ReportType DEF GetService, Stages
  <2>. QED BY <1>5, <2>1, JobStepTypeOK DEF GetService
<1>6. CASE LookUpDeployment(c, answer)
  <2>1. [job[c] EXCEPT !.at = AfterService(c), !.seen = DOMAIN vms] \in Jobs
    BY <1>1, <1>2 DEF TypeOK, Jobs
  <2>2. job' \in [Commands -> Jobs]
    BY <1>6, <2>1, ReportType DEF LookUpDeployment, TypeOK
  <2>. QED BY <1>6, <2>2, JobStepTypeOK DEF LookUpDeployment
<1>7. CASE CopyImage(c, answer)
  <2>1. [job[c] EXCEPT !.at = "lookingUpImage", !.madeImage = TRUE] \in Jobs
    BY DEF TypeOK, Jobs, Stages
  <2>2. job' \in [Commands -> Jobs]
    BY <1>7, <2>1, HookType DEF CopyImage, TypeOK
  <2>. QED BY <1>7, <2>2 DEF CopyImage, TypeOK
<1>8. CASE LookUpImage(c, answer)
  <2>1. job' \in [Commands -> Jobs]
    BY <1>8, GotoType, HookType DEF LookUpImage, Stages
  <2>. QED BY <1>8, <2>1, JobStepTypeOK DEF LookUpImage
<1>9. CASE MakeRole(c, answer)
  <2>1. job' \in [Commands -> Jobs]
    BY <1>9, GotoType, HookType, ReportType DEF MakeRole, Stages
  <2>. QED BY <1>9, <2>1 DEF MakeRole, TypeOK
<1>10. CASE Deploy(c, answer)
  <2>1. job' \in [Commands -> Jobs]
    BY <1>10, HookType DEF Deploy, Succeeds
  <2>2. 1 \in Names
    BY DEF Names
  <2>3. \/ vms' = vms
        \/ service # NoService /\ vms' = Extended(vms, 1, NewRole)
    BY <1>10 DEF Deploy, Applies
  <2>4. /\ DOMAIN vms' \in Finite(Names) /\ vms' \in [DOMAIN vms' -> Roles]
        /\ DOMAIN vms' # {} => service # NoService
    BY <2>2, <2>3, ExtendedType, NewRoleType DEF TypeOK
  <2>. QED BY <1>10, <2>1, <2>4, VmsStepTypeOK DEF Deploy
<1>11. CASE AddRole(c, answer)
  <2> DEFINE name == NextName(job[c].seen)
  <2>1. job' \in [Commands -> Jobs]
    BY <1>11, HookType DEF AddRole, Succeeds
  <2>2. name \in Names
    <3>1. job[c].seen \in Finite(Names)
      BY DEF TypeOK, Jobs
    <3>. QED BY <3>1, NewNameIsNew
  <2>3. \/ vms' = vms
        \/ DOMAIN vms # {} /\ vms' = Extended(vms, name, NewRole)
    BY <1>11 DEF AddRole, Applies
  <2>4. /\ DOMAIN vms' \in Finite(Names) /\ vms' \in [DOMAIN vms' -> Roles]
        /\ DOMAIN vms' # {} => service # NoService
    BY <2>2, <2>3, ExtendedType, NewRoleType DEF TypeOK
  <2>. QED BY <1>11, <2>1, <2>4, VmsStepTypeOK DEF AddRole
<1>12. CASE DeleteImage(c, answer)
  <2>1. AfterImage(c, job[c].failed) \in Stages /\ job[c].failed \in BOOLEAN
    BY DEF AfterImage, Stages, TypeOK, Jobs
  <2>2. job' \in [Commands -> Jobs]
    BY <1>12, <2>1, GotoType, ReportType DEF DeleteImage
  <2>. QED BY <1>12, <2>2 DEF DeleteImage, TypeOK
<1>13. CASE CleanUpService(c, answer)
  <2>1. job' \in [Commands -> Jobs]
    BY <1>13, ReportType DEF CleanUpService
  <2>2. /\ service' \in Commands \cup {Earlier, NoService}
        /\ unclean' \subseteq Commands
        /\ DOMAIN vms # {} => service' # NoService
    BY <1>13 DEF CleanUpService, CanDeleteService, Applies, TypeOK
  <2>. QED BY <1>13, <2>1, <2>2 DEF CleanUpService, TypeOK
<1>. QED BY <1>3, <1>4, <1>5, <1>6, <1>7, <1>8, <1>9, <1>10, <1>11, <1>12, <1>13

LEMMA DeleteTypeOK ==
  ASSUME TypeOK, calm' \in BOOLEAN, NEW c \in Commands, NEW answer \in Answers,
         \/ LookUpVmToDelete(c, answer) \/ Confirm(c, answer) \/ DeleteRole(c, answer)
         \/ DeleteDeployment(c, answer) \/ Inspect(c, answer) \/ DeleteService(c, answer)
  PROVE  TypeOK'
<1>1. CASE LookUpVmToDelete(c, answer)
  <2>1. [job[c] EXCEPT !.at = "confirming", !.seen = DOMAIN vms] \in Jobs
    BY DEF TypeOK, Jobs, Stages
  <2>2. job' \in [Commands -> Jobs]
    BY <1>1, <2>1, ReportType DEF LookUpVmToDelete, TypeOK
  <2>. QED BY <1>1, <2>2, JobStepTypeOK DEF LookUpVmToDelete
<1>2. CASE Confirm(c, answer)
  <2>1. job' \in [Commands -> Jobs]
    BY <1>2, GotoType, ReportType DEF Confirm, Stages
  <2>. QED BY <1>2, <2>1, JobStepTypeOK DEF Confirm
<1>3. CASE DeleteRole(c, answer)
  <2>1. job' \in [Commands -> Jobs]
    BY <1>3, ReportType DEF DeleteRole, Succeeds
  <2>2. \/ vms' = vms
        \/ job[c].vm \in DOMAIN vms /\ vms' = Without(vms, job[c].vm)
    BY <1>3 DEF DeleteRole, Applies
  <2>3. /\ DOMAIN vms' \in Finite(Names) /\ vms' \in [DOMAIN vms' -> Roles]
        /\ DOMAIN vms' # {} => service # NoService
    BY <2>2, WithoutType DEF TypeOK
  <2>. QED BY <1>3, <2>1, <2>3, VmsStepTypeOK DEF DeleteRole
<1>4. CASE DeleteDeployment(c, answer)
  <2>1. job' \in [Commands -> Jobs]
    BY <1>4, GotoType, ReportType DEF DeleteDeployment, Stages
  <2>2. vms' = vms \/ vms' = [n \in {} |-> NewRole]
    BY <1>4 DEF DeleteDeployment
  <2>3. /\ DOMAIN vms' \in Finite(Names) /\ vms' \in [DOMAIN vms' -> Roles]
        /\ DOMAIN vms' # {} => service # NoService
    <3>1. CASE vms' = [n \in {} |-> NewRole]
      <4>1. DOMAIN vms' = {}
        BY <3>1
      <4>. QED BY <3>1, <4>1, EmptyIsFinite
    <3>. QED BY <2>2, <3>1 DEF TypeOK
  <2>. QED BY <1>4, <2>1, <2>3, VmsStepTypeOK DEF DeleteDeployment
<1>5. CASE Inspect(c, answer)
  <2>1. job' \in [Commands -> Jobs]
    BY <1>5, GotoType, ReportType DEF Inspect, LeavesService, Stages
  <2>. QED BY <1>5, <2>1, JobStepTypeOK DEF Inspect
<1>6. CASE DeleteService(c, answer)
  <2>1. job' \in [Commands -> Jobs]
    BY <1>6, ReportType DEF DeleteService, Succeeds, CanDeleteService
  <2>2. /\ service' \in Commands \cup {Earlier, NoService}
        /\ DOMAIN vms # {} => service' # NoService
    BY <1>6 DEF DeleteService, CanDeleteService, Applies, TypeOK
  <2>. QED BY <1>6, <2>1, <2>2 DEF DeleteService, TypeOK
<1>. QED BY <1>1, <1>2, <1>3, <1>4, <1>5, <1>6

LEMMA ChangeTypeOK ==
  ASSUME TypeOK, calm' \in BOOLEAN, NEW c \in Commands, NEW answer \in Answers,
         \/ LookUpVm(c, answer) \/ ReadRole(c, answer) \/ UpdateRole(c, answer)
         \/ ChangeDisks(c, answer)
  PROVE  TypeOK'
<1> DEFINE vm == job[c].vm
<1>1. /\ job[c].kind \in Kinds /\ job[c].role \in Roles /\ job[c].lun \in Nat
  BY DEF TypeOK, Jobs
<1>2. ASSUME vm \in DOMAIN vms, NEW stage \in {"reading", "updating"}
      PROVE  [job[c] EXCEPT !.at = stage, !.role = vms[vm]] \in Jobs
  <2>1. vms[vm] \in Roles
    BY <1>2 DEF TypeOK
  <2>. QED BY <2>1 DEF TypeOK, Jobs, Stages
<1>3. ASSUME UNCHANGED <<service, images, unclean>>, job' \in [Commands -> Jobs],
             \/ vms' = vms
             \/ vm \in DOMAIN vms /\ \E role \in Roles : vms' = [vms EXCEPT ![vm] = role]
      PROVE  TypeOK'
  <2>1. /\ DOMAIN vms' \in Finite(Names) /\ vms' \in [DOMAIN vms' -> Roles]
        /\ DOMAIN vms' # {} => service # NoService
    BY <1>3 DEF TypeOK
  <2>. QED BY <1>3, <2>1, VmsStepTypeOK
<1>4. CASE LookUpVm(c, answer)
  <2>1. CASE Succeeds(vm \in DOMAIN vms, answer)
    <3>1. \E stage \in {"reading", "updating"} :
            job' = [job EXCEPT ![c].at = stage, ![c].role = vms[vm]]
      BY <1>4, <2>1 DEF LookUpVm, AfterLookUp
    <3>2. job' \in [Commands -> Jobs]
      BY <1>2, <2>1, <3>1 DEF Succeeds, TypeOK
    <3>. QED BY <1>4, <3>2, JobStepTypeOK DEF LookUpVm
  <2>2. CASE ~Succeeds(vm \in DOMAIN vms, answer)
    <3>1. \E failed \in BOOLEAN : Report(c, failed)
      BY <1>4, <2>2 DEF LookUpVm, AfterLookUp
    <3>. QED BY <1>4, <3>1, ReportType, JobStepTypeOK DEF LookUpVm
  <2>. QED BY <2>1, <2>2
<1>5. CASE ReadRole(c, answer)
  <2>1. \/ Report(c, TRUE)
        \/ /\ vm \in DOMAIN vms
           /\ job' = [job EXCEPT ![c].at = "updating", ![c].role = vms[vm]]
    BY <1>5 DEF ReadRole, Succeeds
  <2>2. job' \in [Commands -> Jobs]
    BY <1>2, <2>1, ReportType DEF TypeOK
  <2>. QED BY <1>5, <2>2, JobStepTypeOK DEF ReadRole
<1>6. CASE UpdateRole(c, answer)
  <2>1. job' \in [Commands -> Jobs]
    BY <1>6, ReportType DEF UpdateRole, Succeeds
  <2>2. Changed(c, job[c].role) \in Roles
    BY <1>1, ChangedType
  <2>3. \/ vms' = vms
        \/ vm \in DOMAIN vms /\ \E role \in Roles : vms' = [vms EXCEPT ![vm] = role]
    BY <1>6, <2>2 DEF UpdateRole, Applies
  <2>. QED BY <1>3, <1>6, <2>1, <2>3 DEF UpdateRole
<1>7. CASE ChangeDisks(c, answer)
  <2> DEFINE attach == job[c].kind = "attach"
             lun == IF attach THEN Largest(job[c].role.disks, -1) + 1 ELSE job[c].lun
             disks == IF attach THEN vms[vm].disks \cup {lun} ELSE vms[vm].disks \ {lun}
  <2>1. \E failed \in BOOLEAN : Report(c, failed)
    BY <1>7 DEF ChangeDisks, Succeeds
  <2>2. job' \in [Commands -> Jobs]
    BY <2>1, ReportType
  <2>3. lun \in Nat
    <3>1. job[c].role.disks \in Finite(Nat)
      BY <1>1 DEF Roles
    <3>. QED BY <1>1, <3>1, NewLunType
  <2>4. \/ vms' = vms
        \/ vm \in DOMAIN vms /\ vms' = [vms EXCEPT ![vm].disks = disks]
    BY <1>7 DEF ChangeDisks, Applies
  <2>5. ASSUME vm \in DOMAIN vms
        PROVE  [vms[vm] EXCEPT !.disks = disks] \in Roles
    <3>1. vms[vm] \in Roles
      BY <2>5 DEF TypeOK
    <3>2. vms[vm].disks \in Finite(Nat)
      BY <3>1 DEF Roles
    <3>3. disks \in Finite(Nat)
      BY <2>3, <3>2, FiniteWithAndWithout
    <3> HIDE DEF disks
    <3>. QED BY <3>1, <3>3 DEF Roles
  <2>6. \/ vms' = vms
        \/ vm \in DOMAIN vms /\ \E role \in Roles : vms' = [vms EXCEPT ![vm] = role]
    BY <2>4, <2>5
  <2>. QED BY <1>3, <1>7, <2>2, <2>6 DEF ChangeDisks
<1>. QED BY <1>4, <1>5, <1>6, <1>7

LEMMA StartTypeOK ==
  ASSUME TypeOK, NEW c \in Commands, StartCreate(c) \/ StartOther(c)
  PROVE  TypeOK'
<1>1. CASE StartCreate(c)
  <2>1. PICK connect, community \in BOOLEAN :
          job' = [job EXCEPT ![c] = [NoJob("listing", FALSE) EXCEPT
                                       !.connect = connect, !.community = community]]
    BY <1>1 DEF StartCreate
  <2>2. [NoJob("listing", FALSE) EXCEPT !.connect = connect, !.community = community] \in Jobs
    <3>1. NoJob("listing", FALSE) \in Jobs
      BY NoJobType DEF Stages
    <3>. QED BY <3>1 DEF Jobs
  <2>3. job' \in [Commands -> Jobs]
    BY <2>1, <2>2 DEF TypeOK
  <2>. QED BY <1>1, <2>3, JobStepTypeOK DEF StartCreate, StartOf, TypeOK
<1>2. CASE StartOther(c)
  <2>1. PICK kind \in Kinds \ {"create"}, vm \in InitialNames \cup DOMAIN vms,
             change \in ChangeSpace, lun \in Luns :
          /\ StartOf(c, kind, "lookingUp")
          /\ job' = [job EXCEPT ![c] = [NoJob("lookingUp", FALSE) EXCEPT
                                          !.kind = kind, !.vm = vm, !.change = change,
                                          !.lun = lun]]
    BY <1>2 DEF StartOther
  <2>2. vm \in Nat /\ lun \in Nat
    BY <2>1, InitialNamesAssumption, LunsAssumption DEF TypeOK, Finite, Names
  <2>3. [NoJob("lookingUp", FALSE) EXCEPT
           !.kind = kind, !.vm = vm, !.change = change, !.lun = lun] \in Jobs
    <3>1. NoJob("lookingUp", FALSE) \in Jobs
      BY NoJobType DEF Stages
    <3>2. change \in Changes
      BY <2>1, ChangeSpaceAssumption
    <3>. QED BY <2>2, <3>1, <3>2 DEF Jobs
  <2>4. job' \in [Commands -> Jobs]
    BY <2>1, <2>3 DEF TypeOK
  <2>. QED BY <2>1, <2>4, JobStepTypeOK DEF StartOf, TypeOK
<1>. QED BY <1>1, <1>2

LEMMA NextTypeOK == TypeOK /\ [Next]_vars => TypeOK'
<1> SUFFICES ASSUME TypeOK, [Next]_vars PROVE TypeOK'
  OBVIOUS
<1>1. ASSUME NEW c \in Commands, Step(c) PROVE TypeOK'
  <2>1. calm' \in BOOLEAN
    BY <1>1 DEF Step, Settle, TypeOK
  <2>. QED BY <1>1, <2>1, CreateTypeOK, DeleteTypeOK, ChangeTypeOK DEF Step
<1>2. CASE UNCHANGED vars
  BY <1>2 DEF vars, TypeOK
<1>. QED BY <1>1, <1>2, StartTypeOK DEF Next, Terminated

\* However many commands there are and however they overlap, the variables keep
\* their types: a deployment is in a cloud service, names and unit numbers are
\* natural numbers, and there are finitely many.
THEOREM TypeCorrect == Spec => []TypeOK
<1>. QED BY InitTypeOK, NextTypeOK, PTL DEF Spec

-------------------------------------------------------------------------------
(* What a step makes of its command's job, the others keep theirs.          *)

OnlyJobOf(c) == \A d \in Commands \ {c} : job'[d] = job[d]

LEMMA JobAfterReport ==
  ASSUME TypeOK, NEW c \in Commands, NEW failed, Report(c, failed)
  PROVE  OnlyJobOf(c) /\ job'[c] = NoJob("over", failed)
BY DEF Report, TypeOK, OnlyJobOf

LEMMA JobAfterGoto ==
  ASSUME TypeOK, NEW c \in Commands, NEW stage, Goto(c, stage)
  PROVE  OnlyJobOf(c) /\ job'[c] = [job[c] EXCEPT !.at = stage]
BY DEF Goto, TypeOK, OnlyJobOf

LEMMA JobAfterHook ==
  ASSUME TypeOK, NEW c \in Commands, NEW failed, Hook(c, failed)
  PROVE  /\ OnlyJobOf(c)
         /\ \/ /\ job[c].madeImage
               /\ job'[c] = [job[c] EXCEPT !.at = "deletingImage", !.failed = failed]
            \/ /\ ~job[c].madeImage /\ failed /\ job[c].madeService
               /\ job'[c] = [job[c] EXCEPT !.at = "deletingService", !.failed = failed]
            \/ /\ ~job[c].madeImage /\ ~(failed /\ job[c].madeService)
               /\ job'[c] = NoJob("over", failed)
<1>1. CASE job[c].madeImage
  BY <1>1 DEF Hook, TypeOK, OnlyJobOf
<1>2. CASE ~job[c].madeImage /\ failed /\ job[c].madeService
  BY <1>2 DEF Hook, AfterImage, TypeOK, OnlyJobOf
<1>3. CASE ~job[c].madeImage /\ ~(failed /\ job[c].madeService)
  BY <1>3, JobAfterReport DEF Hook, AfterImage
<1>. QED BY <1>1, <1>2, <1>3

-------------------------------------------------------------------------------
(* No VM has two endpoints of one name.  A role is written whole, so that the  *)
(* roles that commands have read must have the property as well; and what was  *)
(* accepted of the role that was read is what is applied to it.                *)

Unique(role) == \A e, f \in role.endpoints : e.name = f.name => e = f

EndpointInv ==
  /\ \A vm \in DOMAIN vms : Unique(vms[vm])
  /\ \A c \in Commands :
       /\ Unique(job[c].role)
       /\ job[c].at = "updating" /\ job[c].kind = "endpoint"
            => Applicable(job[c].change, job[c].role)

LEMMA NewRoleIsUnique == Unique(NewRole)
BY DEF Unique, NewRole

LEMMA ChangedIsUnique ==
  ASSUME TypeOK, NEW c \in Commands, NEW role \in Roles, Unique(role),
         job[c].kind # "set" => Applicable(job[c].change, role)
  PROVE  Unique(Changed(c, role))
<1> DEFINE change == job[c].change
           its == {e \in role.endpoints : e.name = change.name}
<1>1. change.op \in {"add", "remove", "rename"}
  BY DEF TypeOK, Jobs, Changes
<1>2. \A e \in role.endpoints : e \in Endpoints
  BY DEF Roles
<1>3. CASE job[c].kind = "set"
  <2>1. Changed(c, role) = [role EXCEPT !.setBy = c]
    BY <1>3 DEF Changed, WithSettings
  <2>2. Changed(c, role).endpoints = role.endpoints
    BY <2>1 DEF Roles
  <2>. QED BY <2>2 DEF Unique
<1>4. CASE job[c].kind # "set" /\ change.op = "add"
  <2>1. \A e \in role.endpoints : e.name # change.name
    BY <1>4 DEF Applicable
  <2>2. Changed(c, role).endpoints = role.endpoints \cup {[name |-> change.name, by |-> c]}
    BY <1>4 DEF Changed, Roles
  <2>. QED BY <2>1, <2>2 DEF Unique
<1>5. CASE job[c].kind # "set" /\ change.op = "remove"
  <2>1. Changed(c, role).endpoints = role.endpoints \ its
    BY <1>5 DEF Changed, Roles
  <2>. QED BY <2>1 DEF Unique
<1>6. CASE job[c].kind # "set" /\ change.op = "rename"
  <2> DEFINE renamed == {[e EXCEPT !.name = change.to] : e \in its}
  <2>1. Changed(c, role).endpoints = (role.endpoints \ its) \cup renamed
    BY <1>6 DEF Changed, Roles
  <2>2. change.to = change.name \/ \A e \in role.endpoints : e.name # change.to
    BY <1>6 DEF Applicable
  <2>3. \A e \in renamed : e.name = change.to
    BY <1>2 DEF Endpoints
  <2>4. \A e, f \in its : e = f
    BY DEF Unique
  <2>5. \A e \in role.endpoints \ its : e.name # change.to
    BY <2>2
  <2>6. \A e, f \in renamed : e = f
    BY <2>4
  <2> HIDE DEF renamed, its
  <2>. QED BY <2>1, <2>3, <2>5, <2>6 DEF Unique
<1>. QED BY <1>1, <1>3, <1>4, <1>5, <1>6

\* A command that reports, or goes on without a role that it has just read.
LEMMA JobKeepsEndpointInv ==
  ASSUME TypeOK, EndpointInv, NEW c \in Commands, vms' = vms,
         OnlyJobOf(c),
         job'[c].role = job[c].role \/ job'[c].role = NewRole
           \/ \E vm \in DOMAIN vms : job'[c].role = vms[vm],
         job'[c].at = "updating" /\ job'[c].kind = "endpoint"
           => Applicable(job'[c].change, job'[c].role)
  PROVE  EndpointInv'
<1>1. Unique(job'[c].role)
  BY NewRoleIsUnique DEF EndpointInv
<1>. QED BY <1>1 DEF EndpointInv, OnlyJobOf

LEMMA InitEndpointInv == Init => EndpointInv
<1> SUFFICES ASSUME Init PROVE EndpointInv
  OBVIOUS
<1>1. Unique(InitialRole)
  BY DEF Unique, InitialRole
<1>2. \A c \in Commands : job[c].role = NewRole /\ job[c].at = "due"
  BY DEF Init, NoJob
<1>. QED BY <1>1, <1>2, NewRoleIsUnique DEF Init, EndpointInv

\* The roles that a command keeps while it creates or deletes do not matter.
LEMMA QuietStepKeepsEndpointInv ==
  ASSUME TypeOK, EndpointInv, NEW c \in Commands,
         OnlyJobOf(c), job'[c].role \in {job[c].role, NewRole}, job'[c].at # "updating",
         \A vm \in DOMAIN vms' : vms'[vm] = NewRole \/ (vm \in DOMAIN vms /\ vms'[vm] = vms[vm])
  PROVE  EndpointInv'
BY NewRoleIsUnique DEF EndpointInv, OnlyJobOf

LEMMA ReportKeepsRole ==
  ASSUME TypeOK, NEW c \in Commands, NEW failed, Report(c, failed)
  PROVE  OnlyJobOf(c) /\ job'[c].role \in {job[c].role, NewRole} /\ job'[c].at # "updating"
<1>1. OnlyJobOf(c) /\ job'[c] = NoJob("over", failed)
  BY JobAfterReport
<1>2. NoJob("over", failed).role = NewRole /\ NoJob("over", failed).at = "over"
  BY DEF NoJob
<1>. QED BY <1>1, <1>2

LEMMA GotoKeepsRole ==
  ASSUME TypeOK, NEW c \in Commands, NEW stage, stage # "updating", Goto(c, stage)
  PROVE  OnlyJobOf(c) /\ job'[c].role \in {job[c].role, NewRole} /\ job'[c].at # "updating"
<1>1. [job[c] EXCEPT !.at = stage].role = job[c].role
  BY DEF TypeOK, Jobs
<1>2. [job[c] EXCEPT !.at = stage].at = stage
  BY DEF TypeOK, Jobs
<1>. QED BY <1>1, <1>2, JobAfterGoto

LEMMA HookKeepsRole ==
  ASSUME TypeOK, NEW c \in Commands, NEW failed, Hook(c, failed)
  PROVE  OnlyJobOf(c) /\ job'[c].role \in {job[c].role, NewRole} /\ job'[c].at # "updating"
<1>1. \A next \in {"deletingImage", "deletingService"} :
        LET new == [job[c] EXCEPT !.at = next, !.failed = failed]
        IN new.role = job[c].role /\ new.at = next
  BY DEF TypeOK, Jobs
<1>2. NoJob("over", failed).role = NewRole /\ NoJob("over", failed).at = "over"
  BY DEF NoJob
<1>3. /\ OnlyJobOf(c)
      /\ \/ \E next \in {"deletingImage", "deletingService"} :
              job'[c] = [job[c] EXCEPT !.at = next, !.failed = failed]
         \/ job'[c] = NoJob("over", failed)
  BY JobAfterHook
<1>. QED BY <1>1, <1>2, <1>3

LEMMA CreateKeepsEndpointInv ==
  ASSUME TypeOK, EndpointInv, NEW c \in Commands, NEW answer \in Answers,
         \/ ListServices(c, answer) \/ CreateService(c, answer) \/ GetService(c, answer)
         \/ LookUpDeployment(c, answer) \/ CopyImage(c, answer) \/ LookUpImage(c, answer)
         \/ MakeRole(c, answer) \/ Deploy(c, answer) \/ AddRole(c, answer)
         \/ DeleteImage(c, answer) \/ CleanUpService(c, answer)
  PROVE  EndpointInv'
<1> DEFINE Quiet == /\ OnlyJobOf(c) /\ job'[c].role \in {job[c].role, NewRole}
                    /\ job'[c].at # "updating"
<1>1. AfterService(c) # "updating" /\ \A failed \in BOOLEAN : AfterImage(c, failed) # "updating"
  BY DEF AfterService, AfterImage
<1>2. /\ \A failed \in BOOLEAN : Report(c, failed) => Quiet
      /\ \A stage \in Stages \ {"updating"} : Goto(c, stage) => Quiet
      /\ \A failed \in BOOLEAN : Hook(c, failed) => Quiet
  BY ReportKeepsRole, GotoKeepsRole, HookKeepsRole
<1>3. Quiet
  <2>1. CASE ListServices(c, answer)
    BY <2>1, <1>2 DEF ListServices, Stages
  <2>2. CASE CreateService(c, answer)
    <3>1. LET new == [job[c] EXCEPT !.at = AfterService(c), !.madeService = TRUE]
          IN new.role = job[c].role /\ new.at = AfterService(c)
      BY DEF TypeOK, Jobs
    <3>2. CASE Report(c, TRUE)
      BY <3>2, <1>2
    <3>3. CASE job' = [job EXCEPT ![c].at = AfterService(c), ![c].madeService = TRUE]
      BY <3>1, <3>3, <1>1 DEF TypeOK, OnlyJobOf
    <3>. QED BY <2>2, <3>2, <3>3 DEF CreateService
  <2>3. CASE GetService(c, answer)
    BY <2>3, <1>2 DEF GetService, Stages
  <2>4. CASE LookUpDeployment(c, answer)
    <3>1. LET new == [job[c] EXCEPT !.at = AfterService(c), !.seen = DOMAIN vms]
          IN new.role = job[c].role /\ new.at = AfterService(c)
      BY DEF TypeOK, Jobs
    <3>2. CASE Report(c, TRUE)
      BY <3>2, <1>2
    <3>3. CASE job' = [job EXCEPT ![c].at = AfterService(c), ![c].seen = DOMAIN vms]
      BY <3>1, <3>3, <1>1 DEF TypeOK, OnlyJobOf
    <3>. QED BY <2>4, <3>2, <3>3 DEF LookUpDeployment
  <2>5. CASE CopyImage(c, answer)
    <3>1. LET new == [job[c] EXCEPT !.at = "lookingUpImage", !.madeImage = TRUE]
          IN new.role = job[c].role /\ new.at = "lookingUpImage"
      BY DEF TypeOK, Jobs
    <3>2. CASE Hook(c, TRUE)
      BY <3>2, <1>2
    <3>3. CASE job' = [job EXCEPT ![c].at = "lookingUpImage", ![c].madeImage = TRUE]
      BY <3>1, <3>3 DEF TypeOK, OnlyJobOf
    <3>. QED BY <2>5, <3>2, <3>3 DEF CopyImage
  <2>6. CASE LookUpImage(c, answer)
    BY <2>6, <1>2 DEF LookUpImage, Stages
  <2>7. CASE MakeRole(c, answer)
    BY <2>7, <1>2 DEF MakeRole, Stages
  <2>8. CASE Deploy(c, answer)
    BY <2>8, <1>2 DEF Deploy, Succeeds
  <2>9. CASE AddRole(c, answer)
    BY <2>9, <1>2 DEF AddRole, Succeeds
  <2>10. CASE DeleteImage(c, answer)
    <3>1. job[c].failed \in BOOLEAN /\ AfterImage(c, job[c].failed) \in Stages
      BY DEF TypeOK, Jobs, AfterImage, Stages
    <3>. QED BY <2>10, <3>1, <1>1, <1>2 DEF DeleteImage
  <2>11. CASE CleanUpService(c, answer)
    BY <2>11, <1>2 DEF CleanUpService
  <2>. QED BY <2>1, <2>2, <2>3, <2>4, <2>5, <2>6, <2>7, <2>8, <2>9, <2>10, <2>11
<1>4. \A vm \in DOMAIN vms' : vms'[vm] = NewRole \/ (vm \in DOMAIN vms /\ vms'[vm] = vms[vm])
  <2>1. vms' = vms \/ \E name : vms' = Extended(vms, name, NewRole)
    BY DEF ListServices, CreateService, GetService, LookUpDeployment, CopyImage, LookUpImage,
           MakeRole, Deploy, AddRole, DeleteImage, CleanUpService
  <2>. QED BY <2>1 DEF Extended
<1>. QED BY <1>3, <1>4, QuietStepKeepsEndpointInv

LEMMA DeleteKeepsEndpointInv ==
  ASSUME TypeOK, EndpointInv, NEW c \in Commands, NEW answer \in Answers,
         \/ LookUpVmToDelete(c, answer) \/ Confirm(c, answer) \/ DeleteRole(c, answer)
         \/ DeleteDeployment(c, answer) \/ Inspect(c, answer) \/ DeleteService(c, answer)
  PROVE  EndpointInv'
<1> DEFINE Quiet == /\ OnlyJobOf(c) /\ job'[c].role \in {job[c].role, NewRole}
                    /\ job'[c].at # "updating"
<1>2. /\ \A failed \in BOOLEAN : Report(c, failed) => Quiet
      /\ \A stage \in Stages \ {"updating"} : Goto(c, stage) => Quiet
  BY ReportKeepsRole, GotoKeepsRole
<1>3. Quiet
  <2>1. CASE LookUpVmToDelete(c, answer)
    <3>1. LET new == [job[c] EXCEPT !.at = "confirming", !.seen = DOMAIN vms]
          IN new.role = job[c].role /\ new.at = "confirming"
      BY DEF TypeOK, Jobs
    <3>2. CASE \E failed \in BOOLEAN : Report(c, failed)
      BY <3>2, <1>2
    <3>3. CASE job' = [job EXCEPT ![c].at = "confirming", ![c].seen = DOMAIN vms]
      BY <3>1, <3>3 DEF TypeOK, OnlyJobOf
    <3>. QED BY <2>1, <3>2, <3>3 DEF LookUpVmToDelete
  <2>2. CASE Confirm(c, answer)
    BY <2>2, <1>2 DEF Confirm, Stages
  <2>3. CASE DeleteRole(c, answer)
    BY <2>3, <1>2 DEF DeleteRole, Succeeds
  <2>4. CASE DeleteDeployment(c, answer)
    BY <2>4, <1>2 DEF DeleteDeployment, Stages
  <2>5. CASE Inspect(c, answer)
    BY <2>5, <1>2 DEF Inspect, LeavesService, Stages
  <2>6. CASE DeleteService(c, answer)
    BY <2>6, <1>2 DEF DeleteService, Succeeds, CanDeleteService
  <2>. QED BY <2>1, <2>2, <2>3, <2>4, <2>5, <2>6
<1>4. \A vm \in DOMAIN vms' : vms'[vm] = NewRole \/ (vm \in DOMAIN vms /\ vms'[vm] = vms[vm])
  <2>1. vms' = vms \/ (\E name : vms' = Without(vms, name)) \/ vms' = [n \in {} |-> NewRole]
    BY DEF LookUpVmToDelete, Confirm, DeleteRole, DeleteDeployment, Inspect, DeleteService
  <2>. QED BY <2>1 DEF Without
<1>. QED BY <1>3, <1>4, QuietStepKeepsEndpointInv

LEMMA ChangeKeepsEndpointInv ==
  ASSUME TypeOK, EndpointInv, NEW c \in Commands, NEW answer \in Answers,
         \/ LookUpVm(c, answer) \/ ReadRole(c, answer) \/ UpdateRole(c, answer)
         \/ ChangeDisks(c, answer)
  PROVE  EndpointInv'
<1> DEFINE vm == job[c].vm
<1>1. \A failed \in BOOLEAN : Report(c, failed) =>
        OnlyJobOf(c) /\ job'[c].role \in {job[c].role, NewRole} /\ job'[c].at # "updating"
  BY ReportKeepsRole
<1>2. ASSUME NEW failed \in BOOLEAN, Report(c, failed), vms' = vms PROVE EndpointInv'
  BY <1>1, <1>2, JobKeepsEndpointInv
<1>3. \A stage \in {"reading", "updating"} :
        LET new == [job[c] EXCEPT !.at = stage, !.role = vms[vm]]
        IN /\ new.role = vms[vm] /\ new.at = stage
           /\ new.kind = job[c].kind /\ new.change = job[c].change
  BY DEF TypeOK, Jobs
<1>4. CASE LookUpVm(c, answer)
  <2>1. vms' = vms
    BY <1>4 DEF LookUpVm
  <2>2. CASE Succeeds(vm \in DOMAIN vms, answer)
    <3>1. PICK stage \in {"reading", "updating"} :
            /\ stage = "updating" => job[c].kind # "endpoint"
            /\ job' = [job EXCEPT ![c].at = stage, ![c].role = vms[vm]]
      BY <1>4, <2>2 DEF LookUpVm, AfterLookUp
    <3>2. /\ OnlyJobOf(c) /\ job'[c].role = vms[vm]
          /\ ~(job'[c].at = "updating" /\ job'[c].kind = "endpoint")
      BY <1>3, <3>1 DEF TypeOK, OnlyJobOf
    <3>3. vm \in DOMAIN vms
      BY <2>2 DEF Succeeds
    <3>. QED BY <2>1, <3>2, <3>3, JobKeepsEndpointInv
  <2>3. CASE ~Succeeds(vm \in DOMAIN vms, answer)
    <3>1. \E failed \in BOOLEAN : Report(c, failed)
      BY <1>4, <2>3 DEF LookUpVm
    <3>. QED BY <1>2, <2>1, <3>1
  <2>. QED BY <2>2, <2>3
<1>5. CASE ReadRole(c, answer)
  <2>1. vms' = vms
    BY <1>5 DEF ReadRole
  <2>2. CASE Report(c, TRUE)
    BY <1>2, <2>1, <2>2
  <2>3. CASE /\ vm \in DOMAIN vms /\ Accepts(job[c].change, vms[vm])
             /\ job' = [job EXCEPT ![c].at = "updating", ![c].role = vms[vm]]
    <3>1. OnlyJobOf(c) /\ job'[c].role = vms[vm] /\ job'[c].change = job[c].change
      BY <1>3, <2>3 DEF TypeOK, OnlyJobOf
    <3>2. Applicable(job'[c].change, job'[c].role)
      BY <2>3, <3>1 DEF Accepts
    <3>. QED BY <2>1, <2>3, <3>1, <3>2, JobKeepsEndpointInv
  <2>. QED BY <1>5, <2>2, <2>3 DEF ReadRole, Succeeds
<1>6. CASE UpdateRole(c, answer)
  <2>1. /\ OnlyJobOf(c) /\ job'[c].role \in {job[c].role, NewRole}
        /\ job'[c].at # "updating"
    BY <1>1, <1>6 DEF UpdateRole, Succeeds
  <2>2. Unique(Changed(c, job[c].role))
    <3>1. job[c].role \in Roles
      BY DEF TypeOK, Jobs
    <3>2. /\ Unique(job[c].role)
          /\ job[c].kind # "set" => Applicable(job[c].change, job[c].role)
      BY <1>6 DEF EndpointInv, UpdateRole
    <3>. QED BY <3>1, <3>2, ChangedIsUnique
  <2>3. /\ DOMAIN vms' = DOMAIN vms
        /\ \A n \in DOMAIN vms : vms'[n] \in {vms[n], Changed(c, job[c].role)}
    BY <1>6 DEF UpdateRole, TypeOK
  <2>. QED BY <2>1, <2>2, <2>3, NewRoleIsUnique DEF EndpointInv, OnlyJobOf
<1>7. CASE ChangeDisks(c, answer)
  <2>1. /\ OnlyJobOf(c) /\ job'[c].role \in {job[c].role, NewRole}
        /\ job'[c].at # "updating"
    BY <1>1, <1>7 DEF ChangeDisks, Succeeds
  <2>2. vms' = vms \/ \E disks : vms' = [vms EXCEPT ![vm].disks = disks]
    BY <1>7 DEF ChangeDisks
  <2>3. /\ DOMAIN vms' = DOMAIN vms
        /\ \A n \in DOMAIN vms : vms'[n].endpoints = vms[n].endpoints
    BY <2>2 DEF TypeOK, Roles
  <2>4. \A n \in DOMAIN vms' : Unique(vms'[n])
    BY <2>3 DEF EndpointInv, Unique
  <2>. QED BY <2>1, <2>4, NewRoleIsUnique DEF EndpointInv, OnlyJobOf
<1>. QED BY <1>4, <1>5, <1>6, <1>7

LEMMA StartKeepsEndpointInv ==
  ASSUME TypeOK, EndpointInv, NEW c \in Commands, StartCreate(c) \/ StartOther(c)
  PROVE  EndpointInv'
<1>1. vms' = vms
  BY DEF StartCreate, StartOther, StartOf
<1>2. /\ NoJob("listing", FALSE) \in Jobs /\ NoJob("listing", FALSE).role = NewRole
      /\ NoJob("lookingUp", FALSE) \in Jobs /\ NoJob("lookingUp", FALSE).role = NewRole
  BY NoJobType DEF NoJob, Stages
<1>3. CASE StartCreate(c)
  <2>1. PICK connect, community \in BOOLEAN :
          job' = [job EXCEPT ![c] = [NoJob("listing", FALSE) EXCEPT
                                       !.connect = connect, !.community = community]]
    BY <1>3 DEF StartCreate
  <2>2. job'[c] = [NoJob("listing", FALSE) EXCEPT !.connect = connect, !.community = community]
    BY <2>1 DEF TypeOK
  <2>3. job'[c].role = NewRole /\ job'[c].at = NoJob("listing", FALSE).at
    BY <1>2, <2>2 DEF Jobs
  <2>4. NoJob("listing", FALSE).at = "listing"
    BY DEF NoJob
  <2>5. OnlyJobOf(c)
    BY <2>1 DEF TypeOK, OnlyJobOf
  <2>. QED BY <1>1, <2>3, <2>4, <2>5, JobKeepsEndpointInv
<1>4. CASE StartOther(c)
  <2>1. PICK kind \in Kinds \ {"create"}, vm \in InitialNames \cup DOMAIN vms,
             change \in ChangeSpace, lun \in Luns :
          job' = [job EXCEPT ![c] = [NoJob("lookingUp", FALSE) EXCEPT
                                       !.kind = kind, !.vm = vm, !.change = change,
                                       !.lun = lun]]
    BY <1>4 DEF StartOther
  <2>2. job'[c] = [NoJob("lookingUp", FALSE) EXCEPT
                     !.kind = kind, !.vm = vm, !.change = change, !.lun = lun]
    BY <2>1 DEF TypeOK
  <2>3. job'[c].role = NewRole /\ job'[c].at = NoJob("lookingUp", FALSE).at
    BY <1>2, <2>2 DEF Jobs
  <2>4. NoJob("lookingUp", FALSE).at = "lookingUp"
    BY DEF NoJob
  <2>5. OnlyJobOf(c)
    BY <2>1 DEF TypeOK, OnlyJobOf
  <2>. QED BY <1>1, <2>3, <2>4, <2>5, JobKeepsEndpointInv
<1>. QED BY <1>3, <1>4

LEMMA NextEndpointInv == TypeOK /\ EndpointInv /\ [Next]_vars => EndpointInv'
<1> SUFFICES ASSUME TypeOK, EndpointInv, [Next]_vars PROVE EndpointInv'
  OBVIOUS
<1>1. ASSUME NEW c \in Commands, Step(c) PROVE EndpointInv'
  BY <1>1, CreateKeepsEndpointInv, DeleteKeepsEndpointInv, ChangeKeepsEndpointInv DEF Step
<1>2. CASE UNCHANGED vars
  BY <1>2 DEF vars, EndpointInv
<1>. QED BY <1>1, <1>2, StartKeepsEndpointInv DEF Next, Terminated

\* Whatever changes overlap, whoever writes a role that he read long ago: no VM
\* ever has two endpoints of one name.
THEOREM EndpointsAreUnique == Spec => []UniqueEndpoints
<1>1. EndpointInv => UniqueEndpoints
  BY DEF EndpointInv, UniqueEndpoints, Unique
<1>. QED BY <1>1, InitTypeOK, NextTypeOK, InitEndpointInv, NextEndpointInv, PTL DEF Spec

-------------------------------------------------------------------------------
(* What is known of a command from the stage it is at.                      *)

Creating == {"listing", "creatingService", "gettingService", "copyingImage",
             "lookingUpImage", "makingRole", "deploying", "adding", "deletingImage"}
Deleting == {"confirming", "deletingVm", "deletingDeployment"}
\* The stages at which a command may have made something temporary.
Making == {"copyingImage", "lookingUpImage", "makingRole", "deploying", "adding",
           "deletingImage", "deletingService"}

StageInv(j) ==
  /\ j.at \in Creating => j.kind = "create"
  /\ j.madeImage \/ j.madeService => j.kind = "create" /\ j.at \in Making
  /\ j.at \in Deleting => j.kind = "delete"
  /\ j.at = "confirming" => j.vm \in j.seen
  /\ j.at = "deletingDeployment" => j.seen = {j.vm}

StagesInv == \A c \in Commands : StageInv(job[c])

LEMMA NoJobStage ==
  ASSUME NEW at \in {"due", "over", "lookingUp", "listing"}, NEW failed
  PROVE  StageInv(NoJob(at, failed))
BY DEF StageInv, NoJob, Creating, Deleting, Making

LEMMA OneStageChanges ==
  ASSUME TypeOK, StagesInv, NEW c \in Commands, OnlyJobOf(c), StageInv(job'[c])
  PROVE  StagesInv'
BY DEF StagesInv, OnlyJobOf

LEMMA ReportStage ==
  ASSUME TypeOK, StagesInv, NEW c \in Commands, NEW failed, Report(c, failed)
  PROVE  StagesInv'
<1>1. OnlyJobOf(c) /\ job'[c] = NoJob("over", failed)
  BY JobAfterReport
<1>2. StageInv(NoJob("over", failed))
  BY NoJobStage
<1>. QED BY <1>1, <1>2, OneStageChanges

LEMMA GotoStage ==
  ASSUME TypeOK, StagesInv, NEW c \in Commands, NEW stage, Goto(c, stage),
         StageInv([job[c] EXCEPT !.at = stage])
  PROVE  StagesInv'
BY JobAfterGoto, OneStageChanges

LEMMA HookStage ==
  ASSUME TypeOK, StagesInv, NEW c \in Commands, NEW failed, Hook(c, failed)
  PROVE  StagesInv'
<1> DEFINE new(next) == [job[c] EXCEPT !.at = next, !.failed = failed]
<1>1. OnlyJobOf(c)
  BY JobAfterHook
<1>2. CASE job[c].madeImage /\ job'[c] = new("deletingImage")
  <2>1. job[c].kind = "create"
    BY <1>2 DEF StagesInv, StageInv
  <2>2. StageInv(new("deletingImage"))
    BY <2>1 DEF StageInv, TypeOK, Jobs, Creating, Deleting, Making
  <2>. QED BY <1>1, <1>2, <2>2, OneStageChanges
<1>3. CASE job[c].madeService /\ job'[c] = new("deletingService")
  <2>1. job[c].kind = "create"
    BY <1>3 DEF StagesInv, StageInv
  <2>2. StageInv(new("deletingService"))
    BY <2>1 DEF StageInv, TypeOK, Jobs, Creating, Deleting, Making
  <2>. QED BY <1>1, <1>3, <2>2, OneStageChanges
<1>4. CASE job'[c] = NoJob("over", failed)
  <2>1. StageInv(NoJob("over", failed))
    BY NoJobStage
  <2>. QED BY <1>1, <1>4, <2>1, OneStageChanges
<1>. QED BY <1>2, <1>3, <1>4, JobAfterHook

LEMMA InitStagesInv == Init => StagesInv
<1>1. StageInv(NoJob("due", FALSE))
  BY NoJobStage
<1>. QED BY <1>1 DEF Init, StagesInv

\* A job that goes on creating.
LEMMA CreatingStage ==
  ASSUME TypeOK, StagesInv, NEW c \in Commands, job[c].kind = "create",
         NEW stage \in Creating, (job[c].madeImage \/ job[c].madeService) => stage \in Making
  PROVE  StageInv([job[c] EXCEPT !.at = stage])
BY DEF StageInv, TypeOK, Jobs, Creating, Deleting, Making

LEMMA CreateKeepsStages ==
  ASSUME TypeOK, StagesInv, NEW c \in Commands, NEW answer \in Answers,
         \/ ListServices(c, answer) \/ CreateService(c, answer) \/ GetService(c, answer)
         \/ LookUpDeployment(c, answer) \/ CopyImage(c, answer) \/ LookUpImage(c, answer)
         \/ MakeRole(c, answer) \/ Deploy(c, answer) \/ AddRole(c, answer)
         \/ DeleteImage(c, answer) \/ CleanUpService(c, answer)
  PROVE  StagesInv'
<1> DEFINE j == job[c]
<1>1. AfterService(c) \in {"copyingImage", "makingRole"}
  BY DEF AfterService
<1>2. StageInv(j)
  BY DEF StagesInv
<1>3. CASE ListServices(c, answer)
  <2>1. j.kind = "create" /\ ~j.madeImage /\ ~j.madeService
    BY <1>2, <1>3 DEF ListServices, StageInv, Creating, Making
  <2>2. \/ Report(c, TRUE)
        \/ \E stage \in {"creatingService", "gettingService"} : Goto(c, stage)
    BY <1>3 DEF ListServices
  <2>3. \A stage \in {"creatingService", "gettingService"} : stage \in Creating
    BY DEF Creating
  <2>. QED BY <2>1, <2>2, <2>3, CreatingStage, ReportStage, GotoStage
<1>4. CASE CreateService(c, answer)
  <2> DEFINE new == [j EXCEPT !.at = AfterService(c), !.madeService = TRUE]
  <2>1. j.kind = "create"
    BY <1>2, <1>4 DEF CreateService, StageInv, Creating
  <2>2. StageInv(new)
    BY <1>1, <2>1 DEF StageInv, TypeOK, Jobs, Creating, Deleting, Making
  <2>3. CASE job' = [job EXCEPT ![c].at = AfterService(c), ![c].madeService = TRUE]
    <3>1. OnlyJobOf(c) /\ job'[c] = new
      BY <2>3 DEF TypeOK, OnlyJobOf
    <3>. QED BY <2>2, <3>1, OneStageChanges
  <2>. QED BY <1>4, <2>3, ReportStage DEF CreateService
<1>5. CASE GetService(c, answer)
  <2>1. j.kind = "create" /\ ~j.madeImage /\ ~j.madeService
    BY <1>2, <1>5 DEF GetService, StageInv, Creating, Making
  <2>2. StageInv([j EXCEPT !.at = "lookingUp"])
    BY <2>1 DEF StageInv, TypeOK, Jobs, Creating, Deleting, Making
  <2>. QED BY <1>5, <2>2, ReportStage, GotoStage DEF GetService
<1>6. CASE LookUpDeployment(c, answer)
  <2> DEFINE new == [j EXCEPT !.at = AfterService(c), !.seen = DOMAIN vms]
  <2>1. j.kind = "create"
    BY <1>6 DEF LookUpDeployment
  <2>2. StageInv(new)
    BY <1>1, <2>1 DEF StageInv, TypeOK, Jobs, Creating, Deleting, Making
  <2>3. CASE job' = [job EXCEPT ![c].at = AfterService(c), ![c].seen = DOMAIN vms]
    <3>1. OnlyJobOf(c) /\ job'[c] = new
      BY <2>3 DEF TypeOK, OnlyJobOf
    <3>. QED BY <2>2, <3>1, OneStageChanges
  <2>. QED BY <1>6, <2>3, ReportStage DEF LookUpDeployment
<1>7. CASE CopyImage(c, answer)
  <2> DEFINE new == [j EXCEPT !.at = "lookingUpImage", !.madeImage = TRUE]
  <2>1. j.kind = "create"
    BY <1>2, <1>7 DEF CopyImage, StageInv, Creating
  <2>2. StageInv(new)
    BY <2>1 DEF StageInv, TypeOK, Jobs, Creating, Deleting, Making
  <2>3. CASE job' = [job EXCEPT ![c].at = "lookingUpImage", ![c].madeImage = TRUE]
    <3>1. OnlyJobOf(c) /\ job'[c] = new
      BY <2>3 DEF TypeOK, OnlyJobOf
    <3>. QED BY <2>2, <3>1, OneStageChanges
  <2>. QED BY <1>7, <2>3, HookStage DEF CopyImage
<1>8. CASE LookUpImage(c, answer)
  <2>1. j.kind = "create" /\ "makingRole" \in Creating \cap Making
    BY <1>2, <1>8 DEF LookUpImage, StageInv, Creating, Making
  <2>2. StageInv([j EXCEPT !.at = "makingRole"])
    BY <2>1, CreatingStage
  <2>. QED BY <1>8, <2>2, GotoStage, HookStage DEF LookUpImage
<1>9. CASE MakeRole(c, answer)
  <2>1. /\ j.kind = "create"
        /\ "deploying" \in Creating \cap Making /\ "adding" \in Creating \cap Making
    BY <1>2, <1>9 DEF MakeRole, StageInv, Creating, Making
  <2>2. /\ StageInv([j EXCEPT !.at = "deploying"])
        /\ StageInv([j EXCEPT !.at = "adding"])
    BY <2>1, CreatingStage
  <2>. QED BY <1>9, <2>2, GotoStage, HookStage, ReportStage DEF MakeRole
<1>10. CASE Deploy(c, answer)
  BY <1>10, HookStage DEF Deploy
<1>11. CASE AddRole(c, answer)
  BY <1>11, HookStage DEF AddRole
<1>12. CASE DeleteImage(c, answer)
  <2>1. j.kind = "create"
    BY <1>2, <1>12 DEF DeleteImage, StageInv, Creating
  <2>2. StageInv([j EXCEPT !.at = "deletingService"])
    BY <2>1 DEF StageInv, TypeOK, Jobs, Creating, Deleting, Making
  <2>. QED BY <1>12, <2>2, GotoStage, ReportStage DEF DeleteImage, AfterImage
<1>13. CASE CleanUpService(c, answer)
  BY <1>13, ReportStage DEF CleanUpService
<1>. QED BY <1>3, <1>4, <1>5, <1>6, <1>7, <1>8, <1>9, <1>10, <1>11, <1>12, <1>13

\* The deployment is deleted only by a command that saw no VM but its own.
LEMMA LastRoleIsOnlyRole ==
  ASSUME NEW names, IsFiniteSet(names), NEW vm \in names, IsLastRole(names)
  PROVE  names = {vm}
<1>1. /\ Cardinality(names) \in Nat
      /\ Cardinality(names) = 0 <=> names = {}
      /\ Cardinality(names) = 1 <=> \E x : names = {x}
  BY FS_CardinalityType, FS_EmptySet, FS_Singleton
<1>2. Cardinality(names) = 1
  BY <1>1 DEF IsLastRole
<1>. QED BY <1>1, <1>2

LEMMA DeleteKeepsStages ==
  ASSUME TypeOK, StagesInv, NEW c \in Commands, NEW answer \in Answers,
         \/ LookUpVmToDelete(c, answer) \/ Confirm(c, answer) \/ DeleteRole(c, answer)
         \/ DeleteDeployment(c, answer) \/ Inspect(c, answer) \/ DeleteService(c, answer)
  PROVE  StagesInv'
<1> DEFINE j == job[c]
<1>1. StageInv(j)
  BY DEF StagesInv
<1>2. CASE LookUpVmToDelete(c, answer)
  <2> DEFINE new == [j EXCEPT !.at = "confirming", !.seen = DOMAIN vms]
  <2>1. CASE j.vm \in DOMAIN vms /\ job' = [job EXCEPT ![c].at = "confirming", ![c].seen = DOMAIN vms]
    <3>1. OnlyJobOf(c) /\ job'[c] = new
      BY <2>1 DEF TypeOK, OnlyJobOf
    <3>2. j.kind = "delete" /\ j.at = "lookingUp"
      BY <1>2 DEF LookUpVmToDelete
    <3>3. StageInv(new)
      BY <1>1, <2>1, <3>2 DEF StageInv, TypeOK, Jobs, Creating, Deleting, Making
    <3>. QED BY <3>1, <3>3, OneStageChanges
  <2>. QED BY <1>2, <2>1, ReportStage DEF LookUpVmToDelete
<1>3. CASE Confirm(c, answer)
  <2>1. j.kind = "delete" /\ j.vm \in j.seen /\ ~j.madeImage /\ ~j.madeService
    BY <1>1, <1>3 DEF Confirm, StageInv, Deleting, Making
  <2>2. StageInv([j EXCEPT !.at = "deletingVm"])
    BY <2>1 DEF StageInv, TypeOK, Jobs, Creating, Deleting, Making
  <2>3. ASSUME IsLastRole(j.seen)
        PROVE  StageInv([j EXCEPT !.at = "deletingDeployment"])
    <3>1. IsFiniteSet(j.seen)
      BY DEF TypeOK, Jobs, Finite
    <3>2. j.seen = {j.vm}
      BY <2>1, <2>3, <3>1, LastRoleIsOnlyRole
    <3>. QED BY <2>1, <3>2 DEF StageInv, TypeOK, Jobs, Creating, Deleting, Making
  <2>4. \/ Report(c, FALSE)
        \/ IsLastRole(j.seen) /\ Goto(c, "deletingDeployment")
        \/ Goto(c, "deletingVm")
    BY <1>3 DEF Confirm
  <2>. QED BY <2>2, <2>3, <2>4, ReportStage, GotoStage
<1>4. CASE DeleteRole(c, answer)
  BY <1>4, ReportStage DEF DeleteRole
<1>5. CASE DeleteDeployment(c, answer)
  <2>1. ~j.madeImage /\ ~j.madeService
    BY <1>1, <1>5 DEF DeleteDeployment, StageInv, Making
  <2>2. StageInv([j EXCEPT !.at = "inspecting"])
    BY <2>1 DEF StageInv, TypeOK, Jobs, Creating, Deleting, Making
  <2>. QED BY <1>5, <2>2, ReportStage, GotoStage DEF DeleteDeployment
<1>6. CASE Inspect(c, answer)
  <2>1. ~j.madeImage /\ ~j.madeService
    BY <1>1, <1>6 DEF Inspect, StageInv, Making
  <2>2. StageInv([j EXCEPT !.at = "deletingService"])
    BY <2>1 DEF StageInv, TypeOK, Jobs, Creating, Deleting, Making
  <2>. QED BY <1>6, <2>2, ReportStage, GotoStage DEF Inspect, LeavesService
<1>7. CASE DeleteService(c, answer)
  BY <1>7, ReportStage DEF DeleteService
<1>. QED BY <1>2, <1>3, <1>4, <1>5, <1>6, <1>7

LEMMA ChangeKeepsStages ==
  ASSUME TypeOK, StagesInv, NEW c \in Commands, NEW answer \in Answers,
         \/ LookUpVm(c, answer) \/ ReadRole(c, answer) \/ UpdateRole(c, answer)
         \/ ChangeDisks(c, answer)
  PROVE  StagesInv'
<1> DEFINE j == job[c]
           new(stage) == [j EXCEPT !.at = stage, !.role = vms[j.vm]]
<1>1. StageInv(j)
  BY DEF StagesInv
<1>2. ASSUME NEW stage \in {"reading", "updating"}, j.at \in {"lookingUp", "reading"},
             job' = [job EXCEPT ![c].at = stage, ![c].role = vms[j.vm]]
      PROVE  StagesInv'
  <2>1. OnlyJobOf(c) /\ job'[c] = new(stage)
    BY <1>2 DEF TypeOK, OnlyJobOf
  <2>2. ~j.madeImage /\ ~j.madeService
    BY <1>1, <1>2 DEF StageInv, Making
  <2>3. StageInv(new(stage))
    BY <1>2, <2>2 DEF StageInv, TypeOK, Jobs, Creating, Deleting, Making
  <2>. QED BY <2>1, <2>3, OneStageChanges
<1>3. CASE LookUpVm(c, answer)
  <2>1. \/ \E failed \in BOOLEAN : Report(c, failed)
        \/ \E stage \in {"reading", "updating"} :
             job' = [job EXCEPT ![c].at = stage, ![c].role = vms[j.vm]]
    BY <1>3 DEF LookUpVm, AfterLookUp
  <2>. QED BY <1>2, <1>3, <2>1, ReportStage DEF LookUpVm
<1>4. CASE ReadRole(c, answer)
  <2>1. \/ Report(c, TRUE)
        \/ job' = [job EXCEPT ![c].at = "updating", ![c].role = vms[j.vm]]
    BY <1>4 DEF ReadRole
  <2>. QED BY <1>2, <1>4, <2>1, ReportStage DEF ReadRole
<1>5. CASE UpdateRole(c, answer)
  BY <1>5, ReportStage DEF UpdateRole
<1>6. CASE ChangeDisks(c, answer)
  BY <1>6, ReportStage DEF ChangeDisks
<1>. QED BY <1>3, <1>4, <1>5, <1>6

LEMMA StartKeepsStages ==
  ASSUME TypeOK, StagesInv, NEW c \in Commands, StartCreate(c) \/ StartOther(c)
  PROVE  StagesInv'
<1>1. CASE StartCreate(c)
  <2> DEFINE new(connect, community) ==
               [NoJob("listing", FALSE) EXCEPT !.connect = connect, !.community = community]
  <2>1. PICK connect, community \in BOOLEAN : job' = [job EXCEPT ![c] = new(connect, community)]
    BY <1>1 DEF StartCreate
  <2>2. OnlyJobOf(c) /\ job'[c] = new(connect, community)
    BY <2>1 DEF TypeOK, OnlyJobOf
  <2>3. StageInv(new(connect, community))
    BY DEF StageInv, NoJob, Creating, Deleting, Making
  <2>. QED BY <2>2, <2>3, OneStageChanges
<1>2. CASE StartOther(c)
  <2> DEFINE new(kind, vm, change, lun) ==
               [NoJob("lookingUp", FALSE) EXCEPT
                  !.kind = kind, !.vm = vm, !.change = change, !.lun = lun]
  <2>1. PICK kind \in Kinds \ {"create"}, vm \in InitialNames \cup DOMAIN vms,
             change \in ChangeSpace, lun \in Luns :
          job' = [job EXCEPT ![c] = new(kind, vm, change, lun)]
    BY <1>2 DEF StartOther
  <2>2. OnlyJobOf(c) /\ job'[c] = new(kind, vm, change, lun)
    BY <2>1 DEF TypeOK, OnlyJobOf
  <2>3. StageInv(new(kind, vm, change, lun))
    BY DEF StageInv, NoJob, Creating, Deleting, Making
  <2>. QED BY <2>2, <2>3, OneStageChanges
<1>. QED BY <1>1, <1>2

LEMMA NextStagesInv == TypeOK /\ StagesInv /\ [Next]_vars => StagesInv'
<1> SUFFICES ASSUME TypeOK, StagesInv, [Next]_vars PROVE StagesInv'
  OBVIOUS
<1>1. ASSUME NEW c \in Commands, Step(c) PROVE StagesInv'
  BY <1>1, CreateKeepsStages, DeleteKeepsStages, ChangeKeepsStages DEF Step
<1>2. CASE UNCHANGED vars
  BY <1>2 DEF vars, StagesInv
<1>. QED BY <1>1, <1>2, StartKeepsStages DEF Next, Terminated

-------------------------------------------------------------------------------
(* The action property: which steps take a VM away.                         *)

LEMMA RemovalIsAskedFor ==
  ASSUME TypeOK, StagesInv, NEW c \in Commands, Step(c), NEW vm \in DOMAIN vms \ DOMAIN vms'
  PROVE  /\ job[c].kind = "delete" /\ job'[c] # job[c]
         /\ vm = job[c].vm \/ vm \notin job[c].seen
<1>1. PICK answer \in Answers :
        \/ ListServices(c, answer) \/ CreateService(c, answer) \/ GetService(c, answer)
        \/ LookUpDeployment(c, answer) \/ CopyImage(c, answer) \/ LookUpImage(c, answer)
        \/ MakeRole(c, answer) \/ Deploy(c, answer) \/ AddRole(c, answer)
        \/ DeleteImage(c, answer) \/ CleanUpService(c, answer)
        \/ LookUpVmToDelete(c, answer) \/ Confirm(c, answer) \/ DeleteRole(c, answer)
        \/ DeleteDeployment(c, answer) \/ Inspect(c, answer) \/ DeleteService(c, answer)
        \/ LookUpVm(c, answer) \/ ReadRole(c, answer) \/ UpdateRole(c, answer)
        \/ ChangeDisks(c, answer)
  BY DEF Step
<1>2. StageInv(job[c])
  BY DEF StagesInv
<1>3. vms' # vms
  OBVIOUS
<1>4. CASE DeleteRole(c, answer)
  <2>1. vms' = Without(vms, job[c].vm)
    BY <1>3, <1>4 DEF DeleteRole
  <2>2. vm = job[c].vm
    BY <2>1 DEF Without
  <2>3. job[c].kind = "delete" /\ job[c].at = "deletingVm"
    BY <1>2, <1>4 DEF DeleteRole, StageInv, Deleting
  <2>4. job'[c].at = "over"
    <3>1. \E failed \in BOOLEAN : Report(c, failed)
      BY <1>4 DEF DeleteRole, Succeeds
    <3>2. \A failed : NoJob("over", failed).at = "over"
      BY DEF NoJob
    <3>. QED BY <3>1, <3>2, JobAfterReport
  <2>. QED BY <2>2, <2>3, <2>4
<1>5. CASE DeleteDeployment(c, answer)
  <2>1. job[c].kind = "delete" /\ job[c].at = "deletingDeployment" /\ job[c].seen = {job[c].vm}
    BY <1>2, <1>5 DEF DeleteDeployment, StageInv, Deleting
  <2>2. job'[c].at \in {"inspecting", "over"}
    <3>1. Goto(c, "inspecting") \/ Report(c, TRUE)
      BY <1>5 DEF DeleteDeployment
    <3>2. [job[c] EXCEPT !.at = "inspecting"].at = "inspecting"
      BY DEF TypeOK, Jobs
    <3>3. NoJob("over", TRUE).at = "over"
      BY DEF NoJob
    <3>. QED BY <3>1, <3>2, <3>3, JobAfterGoto, JobAfterReport
  <2>. QED BY <2>1, <2>2
<1>6. CASE Deploy(c, answer) \/ AddRole(c, answer)
  <2>1. \E name : vms' = Extended(vms, name, NewRole)
    BY <1>3, <1>6 DEF Deploy, AddRole
  <2>. QED BY <2>1 DEF Extended
<1>7. CASE UpdateRole(c, answer) \/ ChangeDisks(c, answer)
  <2>1. DOMAIN vms' = DOMAIN vms
    BY <1>7 DEF UpdateRole, ChangeDisks
  <2>. QED BY <2>1
<1>. QED BY <1>1, <1>3, <1>4, <1>5, <1>6, <1>7 DEF ListServices, CreateService, GetService,
       LookUpDeployment, CopyImage, LookUpImage, MakeRole, DeleteImage, CleanUpService,
       LookUpVmToDelete, Confirm, Inspect, DeleteService, LookUpVm, ReadRole

\* However commands overlap: no step takes a VM away but that of a command that
\* deletes it by name, or that saw no other VM in the deployment it deletes.
THEOREM VmsGoOnlyByDeletion == Spec => VmsGoByDeletion
<1> DEFINE Gone == \A vm \in DOMAIN vms \ DOMAIN vms' :
                     \E c \in Commands :
                       /\ job[c].kind = "delete" /\ job'[c] # job[c]
                       /\ vm = job[c].vm \/ vm \notin job[c].seen
<1>1. TypeOK /\ StagesInv /\ [Next]_vars => [Gone]_vars
  <2> SUFFICES ASSUME TypeOK, StagesInv, [Next]_vars, NEW vm \in DOMAIN vms \ DOMAIN vms'
               PROVE  \E c \in Commands :
                        /\ job[c].kind = "delete" /\ job'[c] # job[c]
                        /\ vm = job[c].vm \/ vm \notin job[c].seen
    OBVIOUS
  <2>1. vms' # vms
    OBVIOUS
  <2>2. PICK c \in Commands : Step(c)
    BY <2>1 DEF Next, StartCreate, StartOther, StartOf, Terminated, vars
  <2>. QED BY <2>2, RemovalIsAskedFor
<1>. QED BY <1>1, InitTypeOK, NextTypeOK, InitStagesInv, NextStagesInv, PTL
       DEF Spec, VmsGoByDeletion

-------------------------------------------------------------------------------
(* Clean-up: who is responsible for a copied image, or a service, that is there. *)

ImageInv(c) ==
  c \in images => c \in unclean \/ (job[c].madeImage /\ job[c].at # "deletingService")

ServiceInv(c) ==
  service = c => \/ c \in unclean \/ job[c].madeService
                 \/ job[c].at = "over" /\ ~job[c].failed

CleanInv == \A c \in Commands : ImageInv(c) /\ ServiceInv(c)

LEMMA InitCleanInv == Init => CleanInv
<1>1. \A c \in Commands : c # Earlier /\ c # NoService
  BY CommandsAssumption
<1>. QED BY <1>1 DEF Init, CleanInv, ImageInv, ServiceInv

\* What is to be shown of a step that leaves the others' images alone, and the
\* service to the others or to no one.
LEMMA OneIsCleaned ==
  ASSUME TypeOK, CleanInv, NEW c \in Commands, OnlyJobOf(c),
         images' \subseteq images \cup {c}, unclean \subseteq unclean',
         service' \in {service, c, NoService},
         ImageInv(c)', ServiceInv(c)'
  PROVE  CleanInv'
<1> SUFFICES ASSUME NEW d \in Commands \ {c} PROVE ImageInv(d)' /\ ServiceInv(d)'
  BY DEF CleanInv
<1>1. d # NoService /\ job'[d] = job[d] /\ ImageInv(d) /\ ServiceInv(d)
  BY CommandsAssumption DEF CleanInv, OnlyJobOf
<1>. QED BY <1>1 DEF ImageInv, ServiceInv

\* The end of a command that has no image any more, and no service of its own
\* if it has failed.
LEMMA CleanReport ==
  ASSUME TypeOK, CleanInv, NEW c \in Commands, NEW failed \in BOOLEAN, Report(c, failed),
         images' \subseteq images, unclean \subseteq unclean',
         service' \in {service, c, NoService},
         c \in images' => c \in unclean',
         failed /\ service' = c => c \in unclean'
  PROVE  CleanInv'
<1>1. OnlyJobOf(c) /\ job'[c] = NoJob("over", failed)
  BY JobAfterReport
<1>2. NoJob("over", failed).at = "over" /\ NoJob("over", failed).failed = failed
  BY DEF NoJob
<1>3. ImageInv(c)' /\ ServiceInv(c)'
  BY <1>1, <1>2 DEF ImageInv, ServiceInv
<1>. QED BY <1>1, <1>3, OneIsCleaned

\* A command that has made nothing may end at any time, and go on as well.
LEMMA NothingMade ==
  ASSUME TypeOK, CleanInv, NEW c \in Commands, ~job[c].madeImage, ~job[c].madeService,
         job[c].at # "over"
  PROVE  (c \in images => c \in unclean) /\ (service = c => c \in unclean)
BY DEF CleanInv, ImageInv, ServiceInv

LEMMA CleanGoto ==
  ASSUME TypeOK, CleanInv, NEW c \in Commands, NEW stage \in Stages \ {"over"}, Goto(c, stage),
         job[c].at # "over", images' \subseteq images, unclean \subseteq unclean',
         service' = service,
         stage = "deletingService" /\ c \in images' => c \in unclean'
  PROVE  CleanInv'
<1>1. OnlyJobOf(c) /\ job'[c] = [job[c] EXCEPT !.at = stage]
  BY JobAfterGoto
<1>2. /\ job'[c].at = stage /\ job'[c].madeImage = job[c].madeImage
      /\ job'[c].madeService = job[c].madeService
  BY <1>1 DEF TypeOK, Jobs
<1>3. ImageInv(c)' /\ ServiceInv(c)'
  BY <1>2 DEF CleanInv, ImageInv, ServiceInv
<1>. QED BY <1>1, <1>3, OneIsCleaned

LEMMA CleanHook ==
  ASSUME TypeOK, CleanInv, NEW c \in Commands, NEW failed \in BOOLEAN, Hook(c, failed),
         job[c].at \notin {"over", "deletingService"},
         images' = images \/ (images' = images \cup {c} /\ c \in unclean'),
         unclean \subseteq unclean', service' = service
  PROVE  CleanInv'
<1> DEFINE new(next) == [job[c] EXCEPT !.at = next, !.failed = failed]
<1>1. OnlyJobOf(c)
  BY JobAfterHook
<1>2. \A next \in {"deletingImage", "deletingService"} :
        /\ new(next).at = next /\ new(next).madeImage = job[c].madeImage
        /\ new(next).madeService = job[c].madeService
  BY DEF TypeOK, Jobs
<1>3. CASE job[c].madeImage /\ job'[c] = new("deletingImage")
  <2>1. ImageInv(c)' /\ ServiceInv(c)'
    BY <1>2, <1>3 DEF CleanInv, ImageInv, ServiceInv
  <2>. QED BY <1>1, <2>1, OneIsCleaned
<1>4. CASE ~job[c].madeImage /\ job[c].madeService /\ job'[c] = new("deletingService")
  <2>1. ImageInv(c)' /\ ServiceInv(c)'
    BY <1>2, <1>4 DEF CleanInv, ImageInv, ServiceInv
  <2>. QED BY <1>1, <2>1, OneIsCleaned
<1>5. CASE /\ ~job[c].madeImage /\ ~(failed /\ job[c].madeService)
           /\ job'[c] = NoJob("over", failed)
  <2>1. NoJob("over", failed).at = "over" /\ NoJob("over", failed).failed = failed
    BY DEF NoJob
  <2>2. ImageInv(c)' /\ ServiceInv(c)'
    BY <1>5, <2>1 DEF CleanInv, ImageInv, ServiceInv
  <2>. QED BY <1>1, <2>2, OneIsCleaned
<1>. QED BY <1>3, <1>4, <1>5, JobAfterHook

LEMMA CreateKeepsClean ==
  ASSUME TypeOK, StagesInv, CleanInv, NEW c \in Commands, NEW answer \in Answers,
         \/ ListServices(c, answer) \/ CreateService(c, answer) \/ GetService(c, answer)
         \/ LookUpDeployment(c, answer) \/ CopyImage(c, answer) \/ LookUpImage(c, answer)
         \/ MakeRole(c, answer) \/ Deploy(c, answer) \/ AddRole(c, answer)
         \/ DeleteImage(c, answer) \/ CleanUpService(c, answer)
  PROVE  CleanInv'
<1> DEFINE j == job[c]
<1>1. AfterService(c) \in {"copyingImage", "makingRole"}
  BY DEF AfterService
<1>2. StageInv(j) /\ ImageInv(c) /\ ServiceInv(c) /\ c # NoService
  BY CommandsAssumption DEF StagesInv, CleanInv
<1>3. CASE ListServices(c, answer)
  <2>1. ~j.madeImage /\ ~j.madeService /\ j.at # "over"
    BY <1>2, <1>3 DEF ListServices, StageInv, Making
  <2>2. \/ Report(c, TRUE)
        \/ \E stage \in {"creatingService", "gettingService"} : Goto(c, stage)
    BY <1>3 DEF ListServices
  <2>3. \A stage \in {"creatingService", "gettingService"} :
          stage \in Stages \ {"over"} /\ stage # "deletingService"
    BY DEF Stages
  <2>4. service' = service /\ images' = images /\ unclean' = unclean
    BY <1>3 DEF ListServices
  <2>5. CASE Report(c, TRUE)
    BY <2>1, <2>4, <2>5, NothingMade, CleanReport
  <2>. QED BY <2>1, <2>2, <2>3, <2>4, <2>5, CleanGoto
<1>4. CASE CreateService(c, answer)
  <2> DEFINE new == [j EXCEPT !.at = AfterService(c), !.madeService = TRUE]
  <2>1. ~j.madeImage /\ ~j.madeService /\ j.at # "over"
    BY <1>2, <1>4 DEF CreateService, StageInv, Making
  <2>2. /\ c \in images => c \in unclean
        /\ service = c => c \in unclean
    BY <2>1, NothingMade
  <2>3. /\ images' = images /\ unclean \subseteq unclean'
        /\ service' \in {service, c}
    BY <1>4 DEF CreateService
  <2>4. CASE job' = [job EXCEPT ![c].at = AfterService(c), ![c].madeService = TRUE]
    <3>1. OnlyJobOf(c) /\ job'[c] = new
      BY <2>4 DEF TypeOK, OnlyJobOf
    <3>2. new.madeService
      BY DEF TypeOK, Jobs
    <3>3. ImageInv(c)' /\ ServiceInv(c)'
      BY <2>2, <2>3, <3>1, <3>2 DEF ImageInv, ServiceInv
    <3>. QED BY <2>3, <3>1, <3>3, OneIsCleaned
  <2>5. CASE Report(c, TRUE) /\ ~Succeeds(service = NoService, answer)
    <3>1. service' = c => c \in unclean'
      <4>1. CASE service' = service
        BY <2>2, <2>3, <4>1
      <4>2. CASE service' # service
        BY <1>4, <2>5, <4>2 DEF CreateService, Applies, Succeeds, Answers
      <4>. QED BY <4>1, <4>2
    <3>. QED BY <2>2, <2>3, <2>5, <3>1, CleanReport
  <2>. QED BY <1>4, <2>4, <2>5 DEF CreateService
<1>5. CASE GetService(c, answer)
  <2>1. ~j.madeImage /\ ~j.madeService /\ j.at # "over"
    BY <1>2, <1>5 DEF GetService, StageInv, Making
  <2>2. service' = service /\ images' = images /\ unclean' = unclean
    BY <1>5 DEF GetService
  <2>3. CASE Report(c, TRUE)
    BY <2>1, <2>2, <2>3, NothingMade, CleanReport
  <2>4. "lookingUp" \in Stages \ {"over"}
    BY DEF Stages
  <2>. QED BY <1>5, <2>1, <2>2, <2>3, <2>4, CleanGoto DEF GetService
<1>6. CASE LookUpDeployment(c, answer)
  <2> DEFINE new == [j EXCEPT !.at = AfterService(c), !.seen = DOMAIN vms]
  <2>1. ~j.madeImage /\ ~j.madeService /\ j.at # "over"
    BY <1>2, <1>6 DEF LookUpDeployment, StageInv, Making
  <2>2. service' = service /\ images' = images /\ unclean' = unclean
    BY <1>6 DEF LookUpDeployment
  <2>3. /\ c \in images => c \in unclean
        /\ service = c => c \in unclean
    BY <2>1, NothingMade
  <2>4. CASE Report(c, TRUE)
    BY <2>2, <2>3, <2>4, CleanReport
  <2>5. CASE job' = [job EXCEPT ![c].at = AfterService(c), ![c].seen = DOMAIN vms]
    <3>1. OnlyJobOf(c)
      BY <2>5 DEF TypeOK, OnlyJobOf
    <3>2. ImageInv(c)' /\ ServiceInv(c)'
      BY <2>2, <2>3 DEF ImageInv, ServiceInv
    <3>. QED BY <2>2, <3>1, <3>2, OneIsCleaned
  <2>. QED BY <1>6, <2>4, <2>5 DEF LookUpDeployment
<1>7. CASE CopyImage(c, answer)
  <2> DEFINE new == [j EXCEPT !.at = "lookingUpImage", !.madeImage = TRUE]
  <2>1. j.at = "copyingImage" /\ service' = service /\ unclean \subseteq unclean'
    BY <1>7 DEF CopyImage
  <2>2. CASE job' = [job EXCEPT ![c].at = "lookingUpImage", ![c].madeImage = TRUE]
    <3>1. OnlyJobOf(c) /\ job'[c] = new
      BY <2>2 DEF TypeOK, OnlyJobOf
    <3>2. new.madeImage /\ new.at = "lookingUpImage" /\ new.madeService = j.madeService
      BY DEF TypeOK, Jobs
    <3>3. images' \subseteq images \cup {c}
      BY <1>7 DEF CopyImage
    <3>4. ImageInv(c)' /\ ServiceInv(c)'
      BY <1>2, <2>1, <3>1, <3>2 DEF ImageInv, ServiceInv
    <3>. QED BY <2>1, <3>1, <3>3, <3>4, OneIsCleaned
  <2>3. CASE answer # "served" /\ Hook(c, TRUE)
    <3>1. images' = images \/ (images' = images \cup {c} /\ c \in unclean')
      BY <1>7, <2>3 DEF CopyImage, Applies, Answers
    <3>2. j.at \notin {"over", "deletingService"}
      BY <2>1
    <3>. QED BY <2>1, <2>3, <3>1, <3>2, CleanHook
  <2>. QED BY <1>7, <2>2, <2>3 DEF CopyImage
<1>8. CASE LookUpImage(c, answer)
  <2>1. /\ j.at = "lookingUpImage" /\ service' = service /\ unclean' = unclean
        /\ images' = images
    BY <1>8 DEF LookUpImage
  <2>2. "makingRole" \in Stages \ {"over"}
    BY DEF Stages
  <2>3. CASE Goto(c, "makingRole")
    BY <2>1, <2>2, <2>3, CleanGoto
  <2>4. CASE Hook(c, TRUE)
    BY <2>1, <2>4, CleanHook
  <2>. QED BY <1>8, <2>3, <2>4 DEF LookUpImage
<1>9. CASE MakeRole(c, answer)
  <2>1. j.at = "makingRole" /\ service' = service /\ images' = images
    BY <1>9 DEF MakeRole
  <2>2. CASE unclean' = unclean /\ \E stage \in {"deploying", "adding"} : Goto(c, stage)
    <3>1. \A stage \in {"deploying", "adding"} :
            stage \in Stages \ {"over"} /\ stage # "deletingService"
      BY DEF Stages
    <3>. QED BY <2>1, <2>2, <3>1, CleanGoto
  <2>3. CASE unclean' = unclean /\ Hook(c, TRUE)
    BY <2>1, <2>3, CleanHook
  <2>4. CASE unclean' = unclean \cup {c} /\ Report(c, TRUE)
    BY <2>1, <2>4, CleanReport
  <2>. QED BY <1>9, <2>2, <2>3, <2>4 DEF MakeRole
<1>10. CASE Deploy(c, answer) \/ AddRole(c, answer)
  <2>1. /\ j.at \in {"deploying", "adding"} /\ service' = service /\ unclean' = unclean
        /\ images' = images
    BY <1>10 DEF Deploy, AddRole
  <2>2. \E failed \in BOOLEAN : Hook(c, failed)
    BY <1>10 DEF Deploy, AddRole, Succeeds
  <2>. QED BY <2>1, <2>2, CleanHook
<1>11. CASE DeleteImage(c, answer)
  <2>1. /\ j.at = "deletingImage" /\ service' = service
        /\ images' \subseteq images /\ unclean \subseteq unclean'
        /\ c \in images' => c \in unclean'
    BY <1>11 DEF DeleteImage, Applies, Answers
  <2>2. j.failed \in BOOLEAN
    BY DEF TypeOK, Jobs
  <2>3. CASE j.failed /\ j.madeService /\ Goto(c, "deletingService")
    <3>1. "deletingService" \in Stages \ {"over"}
      BY DEF Stages
    <3>. QED BY <2>1, <2>3, <3>1, CleanGoto
  <2>4. CASE ~(j.failed /\ j.madeService) /\ Report(c, j.failed)
    <3>1. j.failed /\ service' = c => c \in unclean'
      BY <1>2, <2>1, <2>4 DEF ServiceInv
    <3>. QED BY <2>1, <2>2, <2>4, <3>1, CleanReport
  <2>. QED BY <1>11, <2>3, <2>4 DEF DeleteImage, AfterImage
<1>12. CASE CleanUpService(c, answer)
  <2>1. /\ j.at = "deletingService" /\ images' = images /\ unclean \subseteq unclean'
        /\ service' \in {service, NoService} /\ Report(c, TRUE)
    BY <1>12 DEF CleanUpService
  <2>2. c \in images' => c \in unclean'
    BY <1>2, <2>1 DEF ImageInv
  <2>3. service' = c => c \in unclean'
    BY <1>2, <1>12 DEF CleanUpService, Applies, Succeeds
  <2>. QED BY <2>1, <2>2, <2>3, CleanReport
<1>. QED BY <1>3, <1>4, <1>5, <1>6, <1>7, <1>8, <1>9, <1>10, <1>11, <1>12

\* No other command has made anything, so that it need not clean up.
LEMMA OtherKeepsClean ==
  ASSUME TypeOK, StagesInv, CleanInv, NEW c \in Commands, NEW answer \in Answers,
         \/ LookUpVmToDelete(c, answer) \/ Confirm(c, answer) \/ DeleteRole(c, answer)
         \/ DeleteDeployment(c, answer) \/ Inspect(c, answer) \/ DeleteService(c, answer)
         \/ LookUpVm(c, answer) \/ ReadRole(c, answer) \/ UpdateRole(c, answer)
         \/ ChangeDisks(c, answer)
  PROVE  CleanInv'
<1> DEFINE j == job[c]
<1>1. /\ images' = images /\ unclean' = unclean
      /\ service' \in {service, NoService}
  BY DEF LookUpVmToDelete, Confirm, DeleteRole, DeleteDeployment, Inspect, DeleteService,
         LookUpVm, ReadRole, UpdateRole, ChangeDisks
<1>2. j.at # "over" /\ ~j.madeImage /\ ~j.madeService
  <2>1. \/ j.at \in {"lookingUp", "confirming", "deletingVm", "deletingDeployment",
                    "inspecting", "reading", "updating"}
        \/ j.at = "deletingService" /\ j.kind = "delete"
    BY DEF LookUpVmToDelete, Confirm, DeleteRole, DeleteDeployment, Inspect, DeleteService,
           LookUpVm, ReadRole, UpdateRole, ChangeDisks
  <2>. QED BY <2>1 DEF StagesInv, StageInv, Making
<1>3. (c \in images => c \in unclean) /\ (service = c => c \in unclean)
  BY <1>2, NothingMade
<1>4. OnlyJobOf(c)
  <2>1. \/ \E failed : Report(c, failed)
        \/ \E stage : Goto(c, stage)
        \/ job' = [job EXCEPT ![c].at = "confirming", ![c].seen = DOMAIN vms]
        \/ \E stage : job' = [job EXCEPT ![c].at = stage, ![c].role = vms[j.vm]]
    BY DEF LookUpVmToDelete, Confirm, DeleteRole, DeleteDeployment, Inspect, LeavesService,
           DeleteService, LookUpVm, ReadRole, UpdateRole, ChangeDisks
  <2>2. CASE job' = [job EXCEPT ![c].at = "confirming", ![c].seen = DOMAIN vms]
    BY <2>2 DEF TypeOK, OnlyJobOf
  <2>3. CASE \E stage : job' = [job EXCEPT ![c].at = stage, ![c].role = vms[j.vm]]
    BY <2>3 DEF TypeOK, OnlyJobOf
  <2>. QED BY <2>1, <2>2, <2>3, JobAfterReport, JobAfterGoto
<1>5. ImageInv(c)' /\ ServiceInv(c)'
  <2>1. c # NoService
    BY CommandsAssumption
  <2>. QED BY <1>1, <1>3, <2>1 DEF ImageInv, ServiceInv
<1>. QED BY <1>1, <1>4, <1>5, OneIsCleaned

LEMMA StartKeepsClean ==
  ASSUME TypeOK, StagesInv, CleanInv, NEW c \in Commands, StartCreate(c) \/ StartOther(c)
  PROVE  CleanInv'
<1>1. /\ images' = images /\ unclean' = unclean /\ service' = service
      /\ job[c].at = "due"
  BY DEF StartCreate, StartOther, StartOf
<1>2. ~job[c].madeImage /\ ~job[c].madeService
  BY <1>1 DEF StagesInv, StageInv, Making
<1>3. (c \in images => c \in unclean) /\ (service = c => c \in unclean)
  BY <1>1, <1>2, NothingMade
<1>4. OnlyJobOf(c)
  <2>1. \E new : job' = [job EXCEPT ![c] = new]
    BY DEF StartCreate, StartOther
  <2>. QED BY <2>1 DEF TypeOK, OnlyJobOf
<1>5. ImageInv(c)' /\ ServiceInv(c)'
  BY <1>1, <1>3 DEF ImageInv, ServiceInv
<1>. QED BY <1>1, <1>4, <1>5, OneIsCleaned

LEMMA NextCleanInv == TypeOK /\ StagesInv /\ CleanInv /\ [Next]_vars => CleanInv'
<1> SUFFICES ASSUME TypeOK, StagesInv, CleanInv, [Next]_vars PROVE CleanInv'
  OBVIOUS
<1>1. ASSUME NEW c \in Commands, Step(c) PROVE CleanInv'
  BY <1>1, CreateKeepsClean, OtherKeepsClean DEF Step
<1>2. CASE UNCHANGED vars
  BY <1>2 DEF vars, CleanInv, ImageInv, ServiceInv
<1>. QED BY <1>1, <1>2, StartKeepsClean DEF Next, Terminated

\* Whatever fails, at whatever stage: a command that has ended leaves neither the
\* image that it copied nor, if it failed, the cloud service that it made, unless
\* it is one of the commands that could not clean up.
THEOREM CleanUpIsComplete == Spec => []NothingTemporaryLeft
<1>1. StagesInv /\ CleanInv => NothingTemporaryLeft
  <2> SUFFICES ASSUME StagesInv, CleanInv, NEW c \in Commands,
                      job[c].at = "over", c \notin unclean
               PROVE  c \notin images /\ (job[c].failed => service # c)
    BY DEF NothingTemporaryLeft
  <2>1. ~job[c].madeImage /\ ~job[c].madeService
    BY DEF StagesInv, StageInv, Making
  <2>2. ImageInv(c) /\ ServiceInv(c)
    BY DEF CleanInv
  <2>. QED BY <2>1, <2>2 DEF ImageInv, ServiceInv
<1>. QED BY <1>1, InitTypeOK, NextTypeOK, InitStagesInv, NextStagesInv,
            InitCleanInv, NextCleanInv, PTL DEF Spec

-------------------------------------------------------------------------------
(* Commands that run one at a time, without a failed request: at every stage,  *)
(* what the command that runs has changed so far, and what it still owes to    *)
(* its promise.  The promise is kept when it ends, and expected is what it was *)
(* before it began until then.                                                 *)

Now == [service |-> service # NoService, vms |-> vms]

\* The stages before a command has changed anything but the images.
Asking == {"listing", "creatingService", "gettingService", "lookingUp", "confirming",
           "deletingVm", "deletingDeployment", "reading", "updating"}
\* Those at which it prepares a VM.
Preparing == {"copyingImage", "lookingUpImage", "makingRole", "deploying", "adding"}

\* What a command that prepares a VM goes by is still true.
PreparedInv(c) ==
  /\ service # NoService /\ job[c].seen = DOMAIN vms /\ vms = expected.vms
  /\ DOMAIN vms # {} => expected = Now /\ job[c].connect
  /\ job[c].at = "deploying" => DOMAIN vms = {}
  /\ job[c].at = "adding" => DOMAIN vms # {}

\* And so is what a command read of the VM that it deletes or changes.
ReadInv(c) ==
  /\ job[c].at \in Deleting => job[c].seen = DOMAIN vms
  /\ job[c].at = "deletingVm" => ~IsLastRole(job[c].seen) /\ job[c].vm \in DOMAIN vms
  /\ job[c].at \in {"reading", "updating"} => job[c].vm \in DOMAIN vms
  /\ job[c].at = "reading" => job[c].kind = "endpoint"
  /\ job[c].at = "updating" =>
       /\ job[c].role = vms[job[c].vm]
       /\ job[c].kind = "endpoint" => Applicable(job[c].change, job[c].role)

AloneInv(c) ==
  /\ images = IF job[c].madeImage THEN {c} ELSE {}
  /\ job[c].at \in Asking => expected = Now
  /\ job[c].at \in {"listing", "creatingService"} => job[c].seen = {}
  /\ job[c].at = "creatingService" => service = NoService
  /\ job[c].at = "gettingService" => service # NoService
  /\ job[c].at = "lookingUp" /\ job[c].kind = "create" => service # NoService
  /\ job[c].at \in Preparing => PreparedInv(c)
  /\ job[c].at = "deletingImage" => ~job[c].failed /\ Now = Promised(c)
  /\ ReadInv(c)
  /\ job[c].at \in {"inspecting", "deletingService"} =>
       /\ job[c].kind = "delete" /\ service # NoService
       /\ DOMAIN vms = {} /\ DOMAIN expected.vms = {job[c].vm}

Settled == expected = Now /\ images = {}

CalmInv ==
  calm =>
    /\ \A c, d \in Commands : Active(c) /\ Active(d) => c = d
    /\ (\A c \in Commands : ~Active(c)) => Settled
    /\ \A c \in Commands : Active(c) => AloneInv(c)

\* What is left to show of the one command's step.
LEMMA AloneStep ==
  ASSUME TypeOK, CalmInv, calm, NEW c \in Commands, Active(c), OnlyJobOf(c),
         job'[c].at \notin {"due", "over"} => AloneInv(c)',
         job'[c].at \in {"due", "over"} => Settled'
  PROVE  CalmInv'
<1>1. \A d \in Commands \ {c} : ~Active(d)
  BY DEF CalmInv
<1>2. \A d \in Commands \ {c} : ~Active(d)'
  BY <1>1 DEF Active, OnlyJobOf
<1>3. Active(c)' <=> job'[c].at \notin {"due", "over"}
  BY DEF Active
<1>. QED BY <1>2, <1>3 DEF CalmInv

LEMMA NoJobStageIs == ASSUME NEW at, NEW failed PROVE NoJob(at, failed).at = at
BY DEF NoJob

\* The end of a command that has done what it promised.
LEMMA EndsAsPromised ==
  ASSUME TypeOK, CalmInv, calm, calm', NEW c \in Commands, Active(c), NEW failed,
         Report(c, failed), Settle(c, "served"), job[c].at # "confirming",
         images' = {}, Now' = Promised(c)
  PROVE  CalmInv'
<1>1. OnlyJobOf(c) /\ job'[c].at = "over"
  BY JobAfterReport, NoJobStageIs
<1>2. expected' = Promised(c)
  BY <1>1 DEF Settle
<1>. QED BY <1>1, <1>2, AloneStep DEF Settled

\* The end of one that has promised nothing, or that the user has stopped.
LEMMA EndsWithNothing ==
  ASSUME TypeOK, CalmInv, calm, calm', NEW c \in Commands, Active(c), NEW failed,
         Report(c, failed), Settle(c, "served"),
         images = {}, expected = Now, UNCHANGED <<service, vms, images>>,
         Promised(c) = expected \/ job[c].at = "confirming"
  PROVE  CalmInv'
<1>1. OnlyJobOf(c) /\ job'[c].at = "over"
  BY JobAfterReport, NoJobStageIs
<1>2. expected' = expected
  BY <1>1 DEF Settle
<1>3. Now' = Now
  BY DEF Now
<1>. QED BY <1>1, <1>2, <1>3, AloneStep DEF Settled

\* What a command remembers when it only goes on.
SameJob(c) ==
  /\ job'[c].kind = job[c].kind /\ job'[c].vm = job[c].vm /\ job'[c].seen = job[c].seen
  /\ job'[c].role = job[c].role /\ job'[c].change = job[c].change
  /\ job'[c].lun = job[c].lun /\ job'[c].connect = job[c].connect
  /\ job'[c].madeImage = job[c].madeImage

LEMMA GoesOn ==
  ASSUME TypeOK, calm', NEW c \in Commands, NEW stage \in Stages \ {"over"},
         Goto(c, stage), Settle(c, "served")
  PROVE  /\ OnlyJobOf(c) /\ SameJob(c) /\ job'[c].at = stage
         /\ job'[c].failed = job[c].failed /\ expected' = expected
<1>1. OnlyJobOf(c) /\ job'[c] = [job[c] EXCEPT !.at = stage]
  BY JobAfterGoto
<1>2. job[c] \in Jobs
  BY DEF TypeOK
<1>3. SameJob(c) /\ job'[c].at = stage /\ job'[c].failed = job[c].failed
  BY <1>1, <1>2 DEF SameJob, Jobs
<1>. QED BY <1>1, <1>3 DEF Settle

\* What a command promises when it creates a VM depends on these only.
LEMMA SamePromise ==
  ASSUME NEW c \in Commands, job[c].kind = "create", job'[c].kind = "create",
         job'[c].connect = job[c].connect, expected' = expected
  PROVE  Promised(c)' = Promised(c)
BY DEF Promised

\* The end of what creates a VM: the copy of the image is still to be deleted.
LEMMA HookKeepsPromise ==
  ASSUME TypeOK, StagesInv, CalmInv, calm, calm', NEW c \in Commands, Active(c),
         Hook(c, FALSE), Settle(c, "served"), job[c].kind = "create",
         job[c].at \in Preparing, AloneInv(c), images' = images, Now' = Promised(c)
  PROVE  CalmInv'
<1> DEFINE new == [job[c] EXCEPT !.at = "deletingImage", !.failed = FALSE]
<1>1. CASE job[c].madeImage /\ OnlyJobOf(c) /\ job'[c] = new
  <2>1. job[c] \in Jobs
    BY DEF TypeOK
  <2>2. SameJob(c) /\ job'[c].at = "deletingImage" /\ ~job'[c].failed
    BY <1>1, <2>1 DEF SameJob, Jobs
  <2>3. expected' = expected
    BY <2>2 DEF Settle
  <2>4. Promised(c)' = Promised(c)
    BY <2>2, <2>3, SamePromise DEF SameJob
  <2>5. AloneInv(c)'
    BY <1>1, <2>2, <2>4 DEF AloneInv, SameJob, Asking, Preparing, ReadInv, Deleting
  <2>. QED BY <1>1, <2>2, <2>5, AloneStep
<1>2. CASE ~job[c].madeImage /\ OnlyJobOf(c) /\ job'[c] = NoJob("over", FALSE)
  <2>1. job'[c].at = "over"
    BY <1>2 DEF NoJob
  <2>2. expected' = Promised(c)
    BY <2>1 DEF Settle, Preparing
  <2>3. images' = {}
    BY <1>2 DEF AloneInv
  <2>. QED BY <1>2, <2>1, <2>2, <2>3, AloneStep DEF Settled
<1>. QED BY <1>1, <1>2, JobAfterHook

\* While a VM is prepared.
LEMMA CreateStaysCalm ==
  ASSUME TypeOK, StagesInv, CalmInv, calm, calm', NEW c \in Commands, Active(c),
         AloneInv(c), Settle(c, "served"),
         \/ ListServices(c, "served") \/ CreateService(c, "served") \/ GetService(c, "served")
         \/ LookUpDeployment(c, "served") \/ CopyImage(c, "served") \/ LookUpImage(c, "served")
         \/ MakeRole(c, "served") \/ Deploy(c, "served") \/ AddRole(c, "served")
         \/ DeleteImage(c, "served") \/ CleanUpService(c, "served")
  PROVE  CalmInv'
<1> DEFINE j == job[c]
<1>1. StageInv(j) /\ j \in Jobs /\ c # NoService
  BY CommandsAssumption DEF StagesInv, TypeOK
<1>2. AfterService(c) \in {"copyingImage", "makingRole"} /\ "confirming" \notin Preparing
  BY DEF AfterService, Preparing
<1>3. CASE ListServices(c, "served")
  <2> DEFINE stage == IF service = NoService THEN "creatingService" ELSE "gettingService"
  <2>1. j.at = "listing" /\ Goto(c, stage) /\ UNCHANGED <<service, vms, images>>
    BY <1>3 DEF ListServices
  <2>2. stage \in Stages \ {"over"}
    BY DEF Stages
  <2>3. OnlyJobOf(c) /\ SameJob(c) /\ job'[c].at = stage /\ expected' = expected
    BY <2>1, <2>2, GoesOn
  <2>4. AloneInv(c)'
    BY <2>1, <2>3 DEF AloneInv, SameJob, Asking, Preparing, ReadInv, Deleting, Now
  <2>. QED BY <2>3, <2>4, AloneStep
<1>4. CASE CreateService(c, "served")
  <2> DEFINE new == [j EXCEPT !.at = AfterService(c), !.madeService = TRUE]
  <2>1. /\ service = NoService /\ expected = Now /\ j.seen = {} /\ j.at = "creatingService"
        /\ DOMAIN vms = {}
    BY <1>4 DEF CreateService, AloneInv, Asking, TypeOK
  <2>2. service' = c /\ UNCHANGED <<vms, images>>
    BY <1>4, <2>1 DEF CreateService, Applies
  <2>3. OnlyJobOf(c) /\ job'[c] = new
    BY <1>4, <2>1 DEF CreateService, Succeeds, TypeOK, OnlyJobOf
  <2>4. job'[c].at = AfterService(c) /\ SameJob(c)
    BY <1>1, <2>3 DEF SameJob, Jobs
  <2>5. expected' = expected
    BY <1>2, <2>4 DEF Settle
  <2>6. PreparedInv(c)'
    BY <1>1, <1>2, <2>1, <2>2, <2>4, <2>5 DEF PreparedInv, SameJob, Now
  <2>7. AloneInv(c)'
    BY <1>2, <2>2, <2>4, <2>6 DEF AloneInv, SameJob, Asking, ReadInv, Deleting
  <2>. QED BY <2>3, <2>7, <1>2, <2>4, AloneStep
<1>5. CASE GetService(c, "served")
  <2>1. /\ j.at = "gettingService" /\ service # NoService
        /\ UNCHANGED <<service, vms, images>>
    BY <1>5 DEF GetService, AloneInv
  <2>2. Goto(c, "lookingUp") /\ "lookingUp" \in Stages \ {"over"}
    BY <1>5, <2>1 DEF GetService, Succeeds, Stages
  <2>3. OnlyJobOf(c) /\ SameJob(c) /\ job'[c].at = "lookingUp" /\ expected' = expected
    BY <2>2, GoesOn
  <2>4. AloneInv(c)'
    BY <2>1, <2>3 DEF AloneInv, SameJob, Asking, Preparing, ReadInv, Deleting, Now
  <2>. QED BY <2>3, <2>4, AloneStep
<1>6. CASE LookUpDeployment(c, "served")
  <2> DEFINE new == [j EXCEPT !.at = AfterService(c), !.seen = DOMAIN vms]
  <2>1. /\ j.at = "lookingUp" /\ j.kind = "create" /\ service # NoService /\ expected = Now
        /\ UNCHANGED <<service, vms, images>>
    BY <1>6 DEF LookUpDeployment, AloneInv, Asking
  <2>2. CASE DOMAIN vms # {} /\ ~j.connect
    <3>1. images = {}
      BY <1>1, <2>1 DEF StageInv, Making, AloneInv
    <3>2. Promised(c) = expected
      BY <2>1, <2>2 DEF Promised, Now
    <3>. QED BY <1>6, <2>1, <2>2, <3>1, <3>2, EndsWithNothing DEF LookUpDeployment
  <2>3. CASE ~(DOMAIN vms # {} /\ ~j.connect)
    <3>1. OnlyJobOf(c) /\ job'[c] = new
      BY <1>6, <2>3 DEF LookUpDeployment, TypeOK, OnlyJobOf
    <3>2. /\ job'[c].at = AfterService(c) /\ job'[c].seen = DOMAIN vms
          /\ job'[c].connect = j.connect /\ job'[c].madeImage = j.madeImage
      BY <1>1, <3>1 DEF Jobs
    <3>3. expected' = expected
      BY <1>2, <3>2 DEF Settle
    <3>4. PreparedInv(c)'
      BY <1>2, <2>1, <2>3, <3>2, <3>3 DEF PreparedInv, Now
    <3>5. AloneInv(c)'
      BY <1>2, <2>1, <3>2, <3>4 DEF AloneInv, Asking, ReadInv, Deleting
    <3>. QED BY <1>2, <3>1, <3>2, <3>5, AloneStep
  <2>. QED BY <2>2, <2>3
<1>7. CASE CopyImage(c, "served")
  <2> DEFINE new == [j EXCEPT !.at = "lookingUpImage", !.madeImage = TRUE]
  <2>1. /\ j.at = "copyingImage" /\ images' = images \cup {c} /\ UNCHANGED <<service, vms>>
        /\ job' = [job EXCEPT ![c].at = "lookingUpImage", ![c].madeImage = TRUE]
    BY <1>7 DEF CopyImage, Applies
  <2>2. OnlyJobOf(c) /\ job'[c] = new
    BY <2>1 DEF TypeOK, OnlyJobOf
  <2>3. /\ job'[c].at = "lookingUpImage" /\ job'[c].madeImage
        /\ job'[c].seen = j.seen /\ job'[c].connect = j.connect
    BY <1>1, <2>2 DEF Jobs
  <2>4. expected' = expected
    BY <2>3 DEF Settle
  <2>5. PreparedInv(c)'
    BY <2>1, <2>3, <2>4 DEF PreparedInv, AloneInv, Preparing, Now
  <2>6. images' = {c}
    BY <2>1 DEF AloneInv
  <2>7. AloneInv(c)'
    BY <2>3, <2>5, <2>6 DEF AloneInv, Asking, ReadInv, Deleting
  <2>. QED BY <2>2, <2>3, <2>7, AloneStep
<1>8. CASE LookUpImage(c, "served") \/ MakeRole(c, "served")
  <2>1. /\ j.at \in {"lookingUpImage", "makingRole"} /\ UNCHANGED <<service, vms, images>>
        /\ PreparedInv(c)
    BY <1>8 DEF LookUpImage, MakeRole, AloneInv, Preparing
  <2>2. PICK stage \in {"makingRole", "deploying", "adding"} :
          /\ Goto(c, stage)
          /\ stage = "deploying" => j.seen = {}
          /\ stage = "adding" => j.seen # {}
    BY <1>8 DEF LookUpImage, MakeRole
  <2>3. stage \in Stages \ {"over"}
    BY DEF Stages
  <2>4. OnlyJobOf(c) /\ SameJob(c) /\ job'[c].at = stage /\ expected' = expected
    BY <2>2, <2>3, GoesOn
  <2>5. PreparedInv(c)'
    BY <2>1, <2>2, <2>4 DEF PreparedInv, SameJob, Now
  <2>6. AloneInv(c)'
    BY <2>1, <2>4, <2>5 DEF AloneInv, SameJob, Asking, ReadInv, Deleting
  <2>. QED BY <2>4, <2>6, AloneStep
<1>9. CASE Deploy(c, "served")
  <2>1. /\ j.at = "deploying" /\ j.kind = "create" /\ service # NoService
        /\ DOMAIN vms = {} /\ vms = expected.vms
    BY <1>1, <1>9 DEF Deploy, StageInv, Creating, AloneInv, PreparedInv, Preparing
  <2>2. /\ vms' = Extended(vms, 1, NewRole) /\ service' = service /\ images' = images
        /\ Hook(c, FALSE)
    BY <1>9, <2>1 DEF Deploy, Applies, Succeeds
  <2>3. Promised(c) = [service |-> TRUE, vms |-> [n \in {1} |-> NewRole]]
    BY <2>1 DEF Promised
  <2>4. vms' = [n \in {1} |-> NewRole]
    BY <2>1, <2>2 DEF Extended
  <2>5. Now' = Promised(c)
    BY <2>1, <2>2, <2>3, <2>4 DEF Now
  <2>. QED BY <2>1, <2>2, <2>5, HookKeepsPromise DEF Preparing
<1>10. CASE AddRole(c, "served")
  <2> DEFINE name == NextName(j.seen)
  <2>1. /\ j.at = "adding" /\ j.kind = "create" /\ service # NoService /\ j.connect
        /\ DOMAIN vms # {} /\ j.seen = DOMAIN vms /\ expected = Now
    BY <1>1, <1>10 DEF AddRole, StageInv, Creating, AloneInv, PreparedInv, Preparing
  <2>2. name \notin DOMAIN vms
    BY <2>1, NewNameIsNew DEF TypeOK
  <2>3. /\ vms' = Extended(vms, name, NewRole) /\ service' = service /\ images' = images
        /\ Hook(c, FALSE)
    BY <1>10, <2>1, <2>2 DEF AddRole, Applies, Succeeds
  <2>4. Promised(c) = [expected EXCEPT !.vms = Extended(vms, name, NewRole)]
    BY <2>1 DEF Promised, Now, NextName
  <2>5. Now' = Promised(c)
    BY <2>1, <2>3, <2>4 DEF Now
  <2>. QED BY <2>1, <2>3, <2>5, HookKeepsPromise DEF Preparing
<1>11. CASE DeleteImage(c, "served")
  <2>1. j.at = "deletingImage" /\ ~j.failed /\ Now = Promised(c)
    BY <1>11 DEF DeleteImage, AloneInv
  <2>2. images' = {} /\ UNCHANGED <<service, vms>> /\ Report(c, j.failed)
    BY <1>11, <2>1 DEF DeleteImage, AfterImage, Applies, AloneInv
  <2>3. Now' = Now
    BY <2>2 DEF Now
  <2>. QED BY <2>1, <2>2, <2>3, EndsAsPromised
<1>12. CASE CleanUpService(c, "served")
  BY <1>12 DEF CleanUpService, AloneInv
<1>. QED BY <1>3, <1>4, <1>5, <1>6, <1>7, <1>8, <1>9, <1>10, <1>11, <1>12

\* While a VM is deleted.
LEMMA DeleteStaysCalm ==
  ASSUME TypeOK, StagesInv, CalmInv, calm, calm', NEW c \in Commands, Active(c),
         AloneInv(c), Settle(c, "served"),
         \/ LookUpVmToDelete(c, "served") \/ Confirm(c, "served") \/ DeleteRole(c, "served")
         \/ DeleteDeployment(c, "served") \/ Inspect(c, "served") \/ DeleteService(c, "served")
  PROVE  CalmInv'
<1> DEFINE j == job[c]
<1>1. StageInv(j) /\ j \in Jobs
  BY DEF StagesInv, TypeOK
<1>2. CASE LookUpVmToDelete(c, "served")
  <2> DEFINE new == [j EXCEPT !.at = "confirming", !.seen = DOMAIN vms]
  <2>1. /\ j.at = "lookingUp" /\ j.kind = "delete" /\ expected = Now /\ images = {}
        /\ ~j.madeImage /\ UNCHANGED <<service, vms, images>>
    BY <1>1, <1>2 DEF LookUpVmToDelete, AloneInv, Asking, StageInv, Making
  <2>2. CASE j.vm \notin DOMAIN vms
    <3>1. Promised(c) = expected
      BY <2>1, <2>2 DEF Promised, Now
    <3>. QED BY <1>2, <2>1, <2>2, <3>1, EndsWithNothing DEF LookUpVmToDelete
  <2>3. CASE j.vm \in DOMAIN vms
    <3>1. OnlyJobOf(c) /\ job'[c] = new
      BY <1>2, <2>3 DEF LookUpVmToDelete, TypeOK, OnlyJobOf
    <3>2. /\ job'[c].at = "confirming" /\ job'[c].seen = DOMAIN vms
          /\ job'[c].madeImage = j.madeImage
      BY <1>1, <3>1 DEF Jobs
    <3>3. expected' = expected
      BY <3>2 DEF Settle
    <3>4. AloneInv(c)'
      BY <2>1, <3>2, <3>3 DEF AloneInv, Asking, Preparing, ReadInv, Now
    <3>. QED BY <3>1, <3>2, <3>4, AloneStep
  <2>. QED BY <2>2, <2>3
<1>3. CASE Confirm(c, "served")
  <2>1. /\ j.at = "confirming" /\ expected = Now /\ images = {} /\ ~j.madeImage
        /\ j.seen = DOMAIN vms /\ j.vm \in DOMAIN vms /\ UNCHANGED <<service, vms, images>>
    BY <1>1, <1>3 DEF Confirm, AloneInv, ReadInv, Asking, StageInv, Making, Deleting
  <2>2. CASE Report(c, FALSE)
    BY <2>1, <2>2, EndsWithNothing
  <2>3. CASE \E stage \in {"deletingDeployment", "deletingVm"} :
               Goto(c, stage) /\ (stage = "deletingVm" => ~IsLastRole(j.seen))
    <3>1. PICK stage \in {"deletingDeployment", "deletingVm"} :
            Goto(c, stage) /\ (stage = "deletingVm" => ~IsLastRole(j.seen))
      BY <2>3
    <3>2. stage \in Stages \ {"over"}
      BY DEF Stages
    <3>3. OnlyJobOf(c) /\ SameJob(c) /\ job'[c].at = stage /\ expected' = expected
      BY <3>1, <3>2, GoesOn
    <3>4. AloneInv(c)'
      BY <2>1, <3>1, <3>3 DEF AloneInv, SameJob, Asking, Preparing, ReadInv, Now
    <3>. QED BY <3>3, <3>4, AloneStep
  <2>. QED BY <1>3, <2>2, <2>3 DEF Confirm
<1>4. CASE DeleteRole(c, "served")
  <2>1. /\ j.at = "deletingVm" /\ j.kind = "delete" /\ expected = Now /\ images = {}
        /\ j.vm \in DOMAIN vms /\ ~IsLastRole(DOMAIN vms) /\ service # NoService
    BY <1>1, <1>4 DEF DeleteRole, AloneInv, ReadInv, Asking, StageInv, Making, Deleting, TypeOK
  <2>2. /\ vms' = Without(vms, j.vm) /\ UNCHANGED <<service, images>>
        /\ \E failed \in BOOLEAN : Report(c, failed)
    BY <1>4, <2>1 DEF DeleteRole, Applies, IsLastRole, Succeeds
  <2>3. DOMAIN vms # {j.vm}
    <3>1. Cardinality({j.vm}) = 1
      BY FS_Singleton
    <3>2. ~(1 > 1)
      OBVIOUS
    <3>. QED BY <2>1, <3>1, <3>2, Zenon DEF IsLastRole
  <2>4. Promised(c) = [service |-> TRUE, vms |-> Without(vms, j.vm)]
    BY <2>1, <2>3 DEF Promised, Now
  <2>5. Now' = Promised(c)
    BY <2>1, <2>2, <2>4 DEF Now
  <2>. QED BY <2>1, <2>2, <2>5, EndsAsPromised
<1>5. CASE DeleteDeployment(c, "served")
  <2>1. /\ j.at = "deletingDeployment" /\ j.kind = "delete" /\ expected = Now
        /\ ~j.madeImage /\ DOMAIN vms = {j.vm} /\ service # NoService
    BY <1>1, <1>5 DEF DeleteDeployment, AloneInv, ReadInv, Asking, StageInv, Making,
                      Deleting, TypeOK
  <2>2. /\ vms' = [n \in {} |-> NewRole] /\ UNCHANGED <<service, images>>
        /\ Goto(c, "inspecting") /\ "inspecting" \in Stages \ {"over"}
    BY <1>5, <2>1 DEF DeleteDeployment, Applies, Succeeds, Stages
  <2>3. OnlyJobOf(c) /\ SameJob(c) /\ job'[c].at = "inspecting" /\ expected' = expected
    BY <2>2, GoesOn
  <2>4. DOMAIN vms' = {} /\ DOMAIN expected.vms = {j.vm}
    BY <2>1, <2>2 DEF Now
  <2>5. AloneInv(c)'
    BY <2>1, <2>2, <2>3, <2>4 DEF AloneInv, SameJob, Asking, Preparing, ReadInv, Deleting
  <2>. QED BY <2>3, <2>5, AloneStep
<1>6. CASE Inspect(c, "served")
  <2>1. /\ j.at = "inspecting" /\ service # NoService /\ DOMAIN vms = {}
        /\ UNCHANGED <<service, vms, images>>
    BY <1>6 DEF Inspect, AloneInv
  <2>2. Goto(c, "deletingService") /\ "deletingService" \in Stages \ {"over"}
    BY <1>6, <2>1 DEF Inspect, Succeeds, Stages
  <2>3. OnlyJobOf(c) /\ SameJob(c) /\ job'[c].at = "deletingService" /\ expected' = expected
    BY <2>2, GoesOn
  <2>4. AloneInv(c)'
    BY <2>1, <2>3 DEF AloneInv, SameJob, Asking, Preparing, ReadInv, Deleting
  <2>. QED BY <2>3, <2>4, AloneStep
<1>7. CASE DeleteService(c, "served")
  <2>1. /\ j.at = "deletingService" /\ j.kind = "delete" /\ service # NoService
        /\ DOMAIN vms = {} /\ DOMAIN expected.vms = {j.vm} /\ images = {}
    BY <1>1, <1>7 DEF DeleteService, AloneInv, StageInv
  <2>2. service' = NoService /\ UNCHANGED <<vms, images>> /\ \E failed : Report(c, failed)
    BY <1>7, <2>1 DEF DeleteService, Applies, CanDeleteService
  <2>3. Promised(c) = [service |-> FALSE, vms |-> Without(expected.vms, j.vm)]
    BY <2>1 DEF Promised
  <2>4. Without(expected.vms, j.vm) = vms
    <3>1. DOMAIN expected.vms \ {j.vm} = {}
      BY <2>1
    <3>2. Without(expected.vms, j.vm) = [n \in {} |-> expected.vms[n]]
      BY <3>1 DEF Without
    <3>3. vms = [n \in DOMAIN vms |-> vms[n]]
      BY DEF TypeOK
    <3>. QED BY <2>1, <3>2, <3>3
  <2>5. Now' = Promised(c)
    BY <2>2, <2>3, <2>4 DEF Now
  <2>. QED BY <2>1, <2>2, <2>5, EndsAsPromised
<1>. QED BY <1>2, <1>3, <1>4, <1>5, <1>6, <1>7

\* While a VM is changed.
LEMMA ChangeStaysCalm ==
  ASSUME TypeOK, StagesInv, CalmInv, calm, calm', NEW c \in Commands, Active(c),
         AloneInv(c), Settle(c, "served"),
         \/ LookUpVm(c, "served") \/ ReadRole(c, "served") \/ UpdateRole(c, "served")
         \/ ChangeDisks(c, "served")
  PROVE  CalmInv'
<1> DEFINE j == job[c]
           new(stage) == [j EXCEPT !.at = stage, !.role = vms[j.vm]]
<1>1. StageInv(j) /\ j \in Jobs
  BY DEF StagesInv, TypeOK
<1>2. /\ j.at \in {"lookingUp", "reading", "updating"} /\ expected = Now
      /\ ~j.madeImage /\ images = {} /\ j.kind # "create" /\ j.kind # "delete"
      /\ UNCHANGED <<service, images>>
  <2>1. j.at \in {"lookingUp", "reading", "updating"} /\ UNCHANGED <<service, images>>
    BY DEF LookUpVm, ReadRole, UpdateRole, ChangeDisks
  <2>2. j.kind # "create" /\ j.kind # "delete"
    BY DEF LookUpVm, ReadRole, UpdateRole, ChangeDisks, AloneInv, ReadInv
  <2>. QED BY <1>1, <2>1, <2>2 DEF StageInv, Making, AloneInv, Asking
<1>3. ASSUME NEW stage \in {"reading", "updating"}, vms' = vms, j.vm \in DOMAIN vms,
             job' = [job EXCEPT ![c].at = stage, ![c].role = vms[j.vm]],
             stage = "reading" => j.kind = "endpoint",
             stage = "updating" /\ j.kind = "endpoint" => Applicable(j.change, vms[j.vm])
      PROVE  CalmInv'
  <2>1. OnlyJobOf(c) /\ job'[c] = new(stage)
    BY <1>3 DEF TypeOK, OnlyJobOf
  <2>2. /\ job'[c].at = stage /\ job'[c].role = vms[j.vm] /\ job'[c].vm = j.vm
        /\ job'[c].kind = j.kind /\ job'[c].change = j.change
        /\ job'[c].madeImage = j.madeImage
    BY <1>1, <2>1 DEF Jobs
  <2>3. expected' = expected
    BY <2>2 DEF Settle
  <2>4. ReadInv(c)'
    BY <1>3, <2>2 DEF ReadInv, Deleting
  <2>5. AloneInv(c)'
    BY <1>2, <1>3, <2>2, <2>3, <2>4 DEF AloneInv, Asking, Preparing, Now
  <2>. QED BY <2>1, <2>2, <2>5, AloneStep
<1>4. CASE LookUpVm(c, "served")
  <2>1. /\ j.at = "lookingUp" /\ j.kind \in {"endpoint", "set", "attach", "detach"}
        /\ vms' = vms
    BY <1>4 DEF LookUpVm
  <2>2. CASE j.vm \notin DOMAIN vms
    <3>1. Promised(c) = expected
      BY <1>2, <2>2 DEF Promised, Now
    <3>2. \E failed : Report(c, failed)
      BY <1>4, <2>2 DEF LookUpVm, Succeeds
    <3>. QED BY <1>2, <2>1, <3>1, <3>2, EndsWithNothing
  <2>3. CASE j.vm \in DOMAIN vms
    <3>1. PICK stage \in {"reading", "updating"} :
            /\ job' = [job EXCEPT ![c].at = stage, ![c].role = vms[j.vm]]
            /\ stage = "reading" <=> j.kind = "endpoint"
      BY <1>4, <2>3 DEF LookUpVm, Succeeds, AfterLookUp
    <3>. QED BY <1>3, <2>1, <2>3, <3>1
  <2>. QED BY <2>2, <2>3
<1>5. CASE ReadRole(c, "served")
  <2>1. /\ j.at = "reading" /\ j.kind = "endpoint" /\ vms' = vms /\ j.vm \in DOMAIN vms
    BY <1>5 DEF ReadRole, AloneInv, ReadInv
  <2>2. CASE Applicable(j.change, vms[j.vm])
    <3>1. job' = [job EXCEPT ![c].at = "updating", ![c].role = vms[j.vm]]
      BY <1>5, <2>1, <2>2 DEF ReadRole, Succeeds, Accepts
    <3>. QED BY <1>3, <2>1, <2>2, <3>1
  <2>3. CASE ~Applicable(j.change, vms[j.vm])
    <3>1. Report(c, TRUE)
      BY <1>5, <2>1, <2>3 DEF ReadRole, Succeeds, Accepts
    <3>2. Promised(c) = expected
      BY <1>2, <2>1, <2>3 DEF Promised, Now
    <3>. QED BY <1>2, <2>1, <3>1, <3>2, EndsWithNothing
  <2>. QED BY <2>2, <2>3
<1>6. ASSUME NEW role, j.at = "updating", \E failed : Report(c, failed),
             vms' = [vms EXCEPT ![j.vm] = role], j.vm \in DOMAIN vms,
             Promised(c) = [expected EXCEPT !.vms = Extended(@, j.vm, role)]
      PROVE  CalmInv'
  <2>1. vms' = Extended(vms, j.vm, role)
    BY <1>6 DEF Extended, TypeOK
  <2>2. Now' = Promised(c)
    BY <1>2, <1>6, <2>1 DEF Now
  <2>. QED BY <1>2, <1>6, <2>2, EndsAsPromised
<1>7. CASE UpdateRole(c, "served")
  <2>1. /\ j.at = "updating" /\ j.kind \in {"endpoint", "set"} /\ j.vm \in DOMAIN vms
        /\ j.role = vms[j.vm]
        /\ j.kind = "endpoint" => Applicable(j.change, vms[j.vm])
        /\ \E failed : Report(c, failed)
    BY <1>7 DEF UpdateRole, AloneInv, ReadInv
  <2>2. vms' = [vms EXCEPT ![j.vm] = Changed(c, vms[j.vm])]
    BY <1>7, <2>1 DEF UpdateRole, Applies
  <2>3. Promised(c) = [expected EXCEPT !.vms = Extended(@, j.vm, Changed(c, vms[j.vm]))]
    BY <1>2, <2>1 DEF Promised, Now
  <2>. QED BY <1>6, <2>1, <2>2, <2>3
<1>8. CASE ChangeDisks(c, "served")
  <2> DEFINE its == vms[j.vm]
             next == Largest(its.disks, -1) + 1
  <2>1. /\ j.at = "updating" /\ j.kind \in {"attach", "detach"} /\ j.vm \in DOMAIN vms
        /\ j.role = its /\ \E failed : Report(c, failed)
    BY <1>8 DEF ChangeDisks, AloneInv, ReadInv
  <2>2. its \in Roles
    BY <2>1 DEF TypeOK
  <2>3. CASE j.kind = "attach"
    <3>1. next \notin its.disks
      BY <2>2, NewLunIsNew DEF Roles
    <3>2. PICK lun : lun = next
      OBVIOUS
    <3>3. vms' = IF lun \notin its.disks
                 THEN [vms EXCEPT ![j.vm].disks = @ \cup {lun}] ELSE vms
      BY <1>8, <2>1, <2>3, <3>2, Zenon DEF ChangeDisks, Applies
    <3> HIDE DEF next
    <3>4. vms' = [vms EXCEPT ![j.vm] = [its EXCEPT !.disks = @ \cup {lun}]]
      BY <3>1, <3>2, <3>3
    <3>5. Promised(c) =
            [expected EXCEPT !.vms = Extended(@, j.vm, [its EXCEPT !.disks = @ \cup {lun}])]
      BY <1>2, <2>1, <2>3, <3>2 DEF Promised, Now, next
    <3>. QED BY <1>6, <2>1, <3>4, <3>5
  <2>4. CASE j.kind = "detach"
    <3>1. Promised(c) =
            [expected EXCEPT !.vms = Extended(@, j.vm, [its EXCEPT !.disks = @ \ {j.lun}])]
      BY <1>2, <2>1, <2>4 DEF Promised, Now
    <3>2. vms' = [vms EXCEPT ![j.vm] = [its EXCEPT !.disks = @ \ {j.lun}]]
      <4>1. CASE j.lun \in its.disks
        BY <1>8, <2>1, <2>4, <4>1 DEF ChangeDisks, Applies
      <4>2. CASE j.lun \notin its.disks
        <5>1. vms' = vms
          BY <1>8, <2>1, <2>4, <4>2 DEF ChangeDisks, Applies
        <5>2. [its EXCEPT !.disks = @ \ {j.lun}] = its
          BY <2>2, <4>2 DEF Roles
        <5>. QED BY <2>1, <5>1, <5>2 DEF TypeOK
      <4>. QED BY <4>1, <4>2
    <3>. QED BY <1>6, <2>1, <3>1, <3>2
  <2>. QED BY <2>1, <2>3, <2>4
<1>. QED BY <1>4, <1>5, <1>7, <1>8

LEMMA StartStaysCalm ==
  ASSUME TypeOK, StagesInv, CalmInv, calm', NEW c \in Commands, StartCreate(c) \/ StartOther(c)
  PROVE  CalmInv'
<1>1. PICK command, stage : StartOf(c, command, stage)
  BY DEF StartCreate, StartOther
<1>2. calm /\ \A d \in Commands : ~Active(d)
  BY <1>1 DEF StartOf
<1>3. Settled /\ UNCHANGED <<service, vms, images>> /\ expected' = expected
  BY <1>1, <1>2 DEF StartOf, CalmInv
<1>4. /\ OnlyJobOf(c) /\ job'[c].at \in {"listing", "lookingUp"} /\ job'[c].seen = {}
      /\ ~job'[c].madeImage
      /\ job'[c].at = "lookingUp" => job'[c].kind # "create"
  <2>1. PICK new :
          /\ job' = [job EXCEPT ![c] = new]
          /\ new.at \in {"listing", "lookingUp"} /\ new.seen = {} /\ ~new.madeImage
          /\ new.at = "lookingUp" => new.kind # "create"
    <3>1. CASE StartCreate(c)
      <4> DEFINE new(connect, community) ==
                   [NoJob("listing", FALSE) EXCEPT !.connect = connect, !.community = community]
      <4>1. PICK connect, community \in BOOLEAN :
              job' = [job EXCEPT ![c] = new(connect, community)]
        BY <3>1 DEF StartCreate
      <4>2. /\ new(connect, community).at = "listing" /\ new(connect, community).seen = {}
            /\ ~new(connect, community).madeImage
        BY DEF NoJob
      <4> HIDE DEF new
      <4>. QED BY <4>1, <4>2
    <3>2. CASE StartOther(c)
      <4> DEFINE new(kind, vm, change, lun) ==
                   [NoJob("lookingUp", FALSE) EXCEPT
                      !.kind = kind, !.vm = vm, !.change = change, !.lun = lun]
      <4>1. PICK kind \in Kinds \ {"create"}, vm \in InitialNames \cup DOMAIN vms,
                 change \in ChangeSpace, lun \in Luns :
              job' = [job EXCEPT ![c] = new(kind, vm, change, lun)]
        BY <3>2 DEF StartOther
      <4> DEFINE its == new(kind, vm, change, lun)
      <4>2. its.at = "lookingUp" /\ its.seen = {} /\ ~its.madeImage /\ its.kind = kind
        BY DEF NoJob
      <4> HIDE DEF new
      <4>. QED BY <4>1, <4>2
    <3>. QED BY <3>1, <3>2
  <2>. QED BY <2>1 DEF TypeOK, OnlyJobOf
<1>5. Settled'
  BY <1>3 DEF Settled, Now
<1>6. AloneInv(c)'
  BY <1>4, <1>5 DEF AloneInv, Asking, Preparing, ReadInv, Deleting, Settled
<1>7. \A d \in Commands \ {c} : ~Active(d)'
  BY <1>2, <1>4 DEF Active, OnlyJobOf
<1>8. Active(c)'
  BY <1>4 DEF Active
<1>. QED BY <1>6, <1>7, <1>8 DEF CalmInv

LEMMA InitCalmInv == Init => CalmInv
<1> SUFFICES ASSUME Init PROVE CalmInv
  OBVIOUS
<1>1. \A c \in Commands : ~Active(c)
  BY DEF Init, NoJob, Active
<1>2. Settled
  BY DEF Init, Settled, Now
<1>. QED BY <1>1, <1>2 DEF CalmInv

LEMMA NextCalmInv == TypeOK /\ StagesInv /\ CalmInv /\ [Next]_vars => CalmInv'
<1> SUFFICES ASSUME TypeOK, StagesInv, CalmInv, [Next]_vars, calm' PROVE CalmInv'
  BY DEF CalmInv
<1>1. ASSUME NEW c \in Commands, Step(c) PROVE CalmInv'
  <2>1. PICK answer \in Answers :
          /\ \/ ListServices(c, answer) \/ CreateService(c, answer) \/ GetService(c, answer)
             \/ LookUpDeployment(c, answer) \/ CopyImage(c, answer) \/ LookUpImage(c, answer)
             \/ MakeRole(c, answer) \/ Deploy(c, answer) \/ AddRole(c, answer)
             \/ DeleteImage(c, answer) \/ CleanUpService(c, answer)
             \/ LookUpVmToDelete(c, answer) \/ Confirm(c, answer) \/ DeleteRole(c, answer)
             \/ DeleteDeployment(c, answer) \/ Inspect(c, answer) \/ DeleteService(c, answer)
             \/ LookUpVm(c, answer) \/ ReadRole(c, answer) \/ UpdateRole(c, answer)
             \/ ChangeDisks(c, answer)
          /\ Settle(c, answer)
    BY <1>1 DEF Step
  <2>2. calm /\ answer = "served" /\ Active(c)
    BY <1>1, <2>1 DEF Settle, Step
  <2>3. AloneInv(c)
    BY <2>2 DEF CalmInv
  <2>4. Settle(c, "served")
    BY <2>1, <2>2
  <2>. QED BY <2>1, <2>2, <2>3, <2>4, CreateStaysCalm, DeleteStaysCalm, ChangeStaysCalm
<1>2. CASE UNCHANGED vars
  <2>1. \A c \in Commands : Promised(c)' = Promised(c)
    BY <1>2 DEF vars, Promised, Changed
  <2>2. Now' = Now
    BY <1>2 DEF vars, Now
  <2>3. \A c \in Commands : (AloneInv(c)' <=> AloneInv(c)) /\ (Active(c)' <=> Active(c))
    BY <1>2, <2>1, <2>2 DEF vars, AloneInv, PreparedInv, ReadInv, Active
  <2>4. Settled' <=> Settled
    BY <1>2, <2>2 DEF vars, Settled
  <2>. QED BY <1>2, <2>3, <2>4 DEF vars, CalmInv
<1>. QED BY <1>1, <1>2, StartStaysCalm DEF Next, Terminated

\* As long as no two commands overlapped and no request failed: whatever commands
\* were run, one after the other and however many, the cloud service, its VMs,
\* their endpoints and disks are what the commands promised, and no copy of an
\* image is left.
THEOREM CommandsAloneAreExact == Spec => []AloneIsExact
<1>1. CalmInv => AloneIsExact
  <2> SUFFICES ASSUME CalmInv, calm, \A c \in Commands : ~Active(c)
               PROVE  /\ vms = expected.vms
                      /\ service # NoService <=> expected.service
                      /\ images = {}
    BY DEF AloneIsExact
  <2>1. Settled
    BY DEF CalmInv
  <2>. QED BY <2>1 DEF Settled, Now
<1>. QED BY <1>1, InitTypeOK, NextTypeOK, InitStagesInv, NextStagesInv,
            InitCalmInv, NextCalmInv, PTL DEF Spec

===============================================================================
