------------------------------ MODULE TokenCache -------------------------------
(***************************************************************************)
(* lib/util/authentication/token-cache.js and the storage under it: the    *)
(* tokens and service principal keys of a user, which all processes of the *)
(* command line share without a lock.                                      *)
(*                                                                         *)
(* A process reads the storage when it first needs it, and from then on    *)
(* works on its copy.  file-token-storage.js writes the copy back as a     *)
(* whole: it opens the file, which empties it, and writes it.              *)
(* win-token-storage.js has a credential (or several, of a bounded size)   *)
(* for each entry, and changes one after the other.                        *)
(***************************************************************************)
EXTENDS FiniteSets, Integers, Sequences

CONSTANTS
  Users,              \* a user of one tenant, with one client id
  ServicePrincipals,
  Processes,
  Tasks,              \* the calls of add(), remove() and clear()
  ProcessOf,          \* the process of each
  Storages,           \* the kinds of storage that are explored
  Parallel,           \* whether one process may have several calls out
  MaxBytes,           \* MAX_CREDENTIAL_BYTES
  LengthOf            \* the length of the credential of each owner

Owners == Users \cup ServicePrincipals

ASSUME OwnersAssumption == Owners # {} /\ Users \cap ServicePrincipals = {}
ASSUME ProcessOfAssumption == ProcessOf \in [Tasks -> Processes]
ASSUME StoragesAssumption == Storages \subseteq {"file", "vault"}
ASSUME ParallelAssumption == Parallel \in BOOLEAN
ASSUME MaxBytesAssumption == MaxBytes \in Nat \ {0, 1}
ASSUME LengthOfAssumption == LengthOf \in [Owners -> Nat \ {0}]

\* What add() looks entries up by: _clientId, userId and _authority.  The entry
\* of a service principal has none of the three.
NoIdentity == "undefined"
Identity(owner) == IF owner \in Users THEN owner ELSE NoIdentity

\* A user has a name.
ASSUME IdentityAssumption == NoIdentity \notin Users

\* A token is named after the task that added it, the first ones are "earlier".
Earlier == "earlier"
Entries == [owner : Owners, token : Tasks \cup {Earlier}]

\* splitEntry(): the test is on the number of blocks, not of bytes, so that it
\* adds a block unless that number is a multiple of MaxBytes.
NumBlocks(owner) ==
  LET blocks == LengthOf[owner] \div MaxBytes
  IN IF LengthOf[owner] <= MaxBytes THEN 1
     ELSE IF blocks % MaxBytes # 0 THEN blocks + 1 ELSE blocks

IsEmpty(owner, block) == block * MaxBytes >= LengthOf[owner]

CredentialsOf(entries) == UNION {{e} \X (0 .. NumBlocks(e.owner) - 1) : e \in entries}

\* JoinerStream: an entry is put together when it has as many blocks with
\* something in them as its names say.
Complete(e, credentials) ==
  Cardinality({k \in 0 .. NumBlocks(e.owner) - 1 :
                 <<e, k>> \in credentials /\ ~IsEmpty(e.owner, k)})
    = NumBlocks(e.owner)

VARIABLES
  storage,    \* which one it is
  file,       \* [state, entries]
  vault,      \* the credentials of the other one
  loaded,     \* the processes that have read the storage
  memory,     \* _entries of each process, none before that
  job,        \* what each task is at
  ended,      \* the processes that have ended
  calm,       \* nothing has happened at the same time, and nothing has failed
  expected    \* what the tasks make of the storage, as long as it is calm

vars == <<storage, file, vault, loaded, memory, job, ended, calm, expected>>

\* A task calls the storage to remove entries, then perhaps to append its own;
\* todo is what the storage has still to do for the call.
Operations ==
  {o \in [op : {"open", "write", "remove", "set"}, entries : SUBSET Entries, block : Nat] :
     o.op = "set" => o.entries \X {o.block} \subseteq CredentialsOf(Entries)}
Jobs ==
  [stage : {"due", "saving", "over"}, kind : {"add", "remove", "clear"},
   owner : Owners, appends : BOOLEAN, kept : SUBSET Entries, todo : Seq(Operations)]

NoCall(stage) ==
  [stage |-> stage, kind |-> "clear", owner |-> CHOOSE o \in Owners : TRUE,
   appends |-> FALSE, kept |-> {}, todo |-> <<>>]

TypeOK ==
  /\ storage \in Storages
  /\ file \in [state : {"absent", "empty", "whole", "torn"}, entries : SUBSET Entries]
  /\ file.state \in {"absent", "empty", "torn"} => file.entries = {}
  /\ vault \subseteq CredentialsOf(Entries)
  /\ loaded \subseteq Processes \ ended
  /\ memory \in [Processes -> SUBSET Entries]
  /\ job \in [Tasks -> Jobs]
  /\ ended \subseteq Processes
  /\ expected \subseteq Entries
  /\ calm \in BOOLEAN

\* add() leaves one service principal at most.
Init ==
  /\ storage \in Storages
  /\ \E owners \in SUBSET Owners :
       /\ Cardinality(owners \cap ServicePrincipals) <= 1
       /\ expected = [owner : owners, token : {Earlier}]
  /\ IF storage = "file"
     THEN /\ file = [state |-> IF expected = {} THEN "absent" ELSE "whole",
                     entries |-> expected]
          /\ vault = {}
     ELSE /\ file = [state |-> "absent", entries |-> {}]
          /\ vault = CredentialsOf(expected)
  /\ loaded = {}
  /\ memory = [p \in Processes |-> {}]
  /\ job = [t \in Tasks |-> NoCall("due")]
  /\ ended = {}
  /\ calm = TRUE

-------------------------------------------------------------------------------
(* The storage.                                                             *)

\* An empty file is taken for one without entries, a torn one throws.
Readable == storage = "vault" \/ file.state # "torn"

Stored ==
  IF storage = "file" THEN file.entries
  ELSE {e \in {c[1] : c \in vault} : Complete(e, vault)}

Op(op, entries, block) == [op |-> op, entries |-> entries, block |-> block]

\* _save()
Save(entries) == <<Op("open", {}, 0), Op("write", entries, 0)>>

\* Mutation: all that the vault has is removed, as the file is.
Removal_All(removed, kept) ==
  IF storage = "file" THEN Save(kept)
  ELSE IF Stored = {} THEN <<>> ELSE <<Op("remove", Stored, 0)>>

\* removeEntries()
Removal(removed, kept) ==
  IF storage = "file" THEN Save(kept)
  ELSE IF removed = {} THEN <<>> ELSE <<Op("remove", removed, 0)>>

\* addEntries()
Addition(new, existing) ==
  IF storage = "file" THEN Save(existing \cup {new})
  ELSE [k \in 1 .. NumBlocks(new.owner) |-> Op("set", {new}, k - 1)]

-------------------------------------------------------------------------------
(* The calls.                                                               *)

Active(t) == job[t].stage = "saving"
Alive(p) == p \in loaded \/ \E t \in Tasks : ProcessOf[t] = p /\ Active(t)

\* _loadEntries(): the storage is read once only.
Loaded(p) == IF p \in loaded THEN memory[p] ELSE Stored

MayStart(t) ==
  /\ job[t].stage = "due"
  /\ ProcessOf[t] \notin ended
  /\ Parallel \/ \A u \in Tasks : ProcessOf[u] = ProcessOf[t] => ~Active(u)

\* A task has the storage to itself if nobody else has read or is changing it.
Undisturbed(t) ==
  /\ \A p \in Processes \ {ProcessOf[t]} : ~Alive(p)
  /\ \A u \in Tasks : ~Active(u)

CalmIf(condition) ==
  /\ calm' = (calm /\ condition)
  /\ expected' = IF calm' THEN expected ELSE {}

Start(t, kind, owner, appends, kept, todo) ==
  /\ job' = [job EXCEPT ![t] =
               [stage |-> "saving", kind |-> kind, owner |-> owner,
                appends |-> appends, kept |-> kept, todo |-> todo]]
  /\ CalmIf(Undisturbed(t))
  /\ UNCHANGED <<storage, vault, ended>>

\* Mutation: the former entries are kept.
SameIdentity_None(entries, owner) == {}

\* What find() gives add().
SameIdentity(entries, owner) ==
  {e \in entries : Identity(e.owner) = Identity(owner)}

New(t, owner) == [owner |-> owner, token |-> t]

\* add(): if there are entries to replace they are removed first, by a call of
\* the storage of its own.
Add(t, owner) ==
  LET entries == Loaded(ProcessOf[t])
      same == SameIdentity(entries, owner)
      rest == entries \ same
  IN /\ MayStart(t)
     /\ ProcessOf[t] \in loaded \/ Readable
     /\ loaded' = loaded \cup {ProcessOf[t]}
     /\ memory' = [memory EXCEPT ![ProcessOf[t]] = entries]
     /\ IF same # {}
        THEN Start(t, "add", owner, FALSE, rest, Removal(same, rest))
        ELSE Start(t, "add", owner, TRUE, entries, Addition(New(t, owner), entries))
     /\ UNCHANGED file

\* find() and remove() of what was found: removeCachedToken(), and the end of
\* the key of a service principal.
Remove(t, owner) ==
  LET entries == Loaded(ProcessOf[t])
      rest == {e \in entries : e.owner # owner}
  IN /\ MayStart(t)
     /\ ProcessOf[t] \in loaded \/ Readable
     /\ loaded' = loaded \cup {ProcessOf[t]}
     /\ memory' = [memory EXCEPT ![ProcessOf[t]] = entries]
     /\ Start(t, "remove", owner, FALSE, rest, Removal(entries \ rest, rest))
     /\ UNCHANGED file

\* The file cannot be parsed: nothing is changed.
LoadFails(t) ==
  /\ MayStart(t)
  /\ ProcessOf[t] \notin loaded /\ ~Readable
  /\ job' = [job EXCEPT ![t] = NoCall("over")]
  /\ CalmIf(FALSE)
  /\ UNCHANGED <<storage, file, vault, loaded, memory, ended>>

\* What another process has still to write goes to the file that is deleted.
WithFileDeleted(call) ==
  IF call.todo # <<>> /\ Head(call.todo).op = "write" THEN [call EXCEPT !.todo = <<>>]
  ELSE call

\* "account clear" deletes the file and calls clear(), without having asked for
\* anything before.
Clear(t) ==
  /\ MayStart(t)
  /\ ProcessOf[t] \notin loaded
  /\ file' = [state |-> "absent", entries |-> {}]
  /\ job' = [u \in Tasks |->
               IF u # t THEN WithFileDeleted(job[u])
               ELSE [NoCall("saving") EXCEPT !.todo = Removal(Stored, {})]]
  /\ CalmIf(Undisturbed(t))
  /\ UNCHANGED <<storage, vault, loaded, memory, ended>>

-------------------------------------------------------------------------------
(* What the storage does for a call.                                        *)

\* What the file is after content was written over it from its start: what was
\* there before sticks out if it was longer.  It has been opened before.
Overwritten(content) ==
  LET whole == [state |-> "whole", entries |-> content]
      torn == [state |-> "torn", entries |-> {}]
  IN CASE file.state = "empty" -> {whole}
       [] file.state = "whole" /\ Cardinality(content) > Cardinality(file.entries) -> {whole}
       [] file.state = "whole" /\ Cardinality(content) < Cardinality(file.entries) -> {torn}
       [] OTHER -> {whole, torn}

\* fs.writeFile()
OperateOnFile(t) ==
  LET o == Head(job[t].todo)
  IN /\ Active(t) /\ job[t].todo # <<>>
     /\ \/ o.op = "open" /\ file' = [state |-> "empty", entries |-> {}]
        \/ o.op = "write" /\ file' \in Overwritten(o.entries)
     /\ job' = [job EXCEPT ![t].todo = Tail(@)]
     /\ UNCHANGED <<storage, vault, loaded, memory, ended, expected, calm>>

SetBlock(t) ==
  LET o == Head(job[t].todo)
  IN /\ Active(t) /\ job[t].todo # <<>> /\ o.op = "set"
     /\ vault' = vault \cup (o.entries \X {o.block})
     /\ job' = [job EXCEPT ![t].todo = Tail(@)]
     /\ UNCHANGED <<storage, file, loaded, memory, ended, expected, calm>>

\* One entry after the other; one that somebody else has removed cannot be
\* removed again.
RemoveEntry(t) ==
  LET o == Head(job[t].todo)
  IN /\ Active(t) /\ job[t].todo # <<>> /\ o.op = "remove"
     /\ \E e \in o.entries :
          LET its == {c \in vault : c[1] = e}
              rest == o.entries \ {e}
          IN /\ vault' = vault \ its
             /\ job' = IF its = {} THEN [job EXCEPT ![t] = NoCall("over")]
                       ELSE IF rest = {} THEN [job EXCEPT ![t].todo = Tail(@)]
                       ELSE [job EXCEPT ![t].todo = <<Op("remove", rest, 0)>> \o Tail(@)]
             /\ CalmIf(its # {})
     /\ UNCHANGED <<storage, file, loaded, memory, ended>>

\* The disk is full, the file cannot be opened, or creds.exe fails.
OperationFails(t) ==
  /\ Active(t) /\ job[t].todo # <<>>
  /\ job' = [job EXCEPT ![t] = NoCall("over")]
  /\ file' \in {file} \cup (IF Head(job[t].todo).op = "write"
                           THEN {[state |-> "torn", entries |-> {}]} ELSE {})
  /\ CalmIf(FALSE)
  /\ UNCHANGED <<storage, vault, loaded, memory, ended>>

\* What a call that has succeeded makes of the entries.  There is one service
\* principal at most: adding one replaces any other.
Rivals(owner) == IF owner \in Users THEN {owner} ELSE ServicePrincipals

Result(t) ==
  LET owner == job[t].owner
  IN CASE job[t].kind = "clear" -> {}
       [] job[t].kind = "remove" -> {e \in expected : e.owner # owner}
       [] OTHER -> {e \in expected : e.owner \notin Rivals(owner)} \cup {New(t, owner)}

\* Mutation: the copy keeps what was removed from the storage.
Kept_Removed(t) == memory[ProcessOf[t]]

\* The copy after a removal: what was computed before it.
Kept(t) == job[t].kept

\* The call of the storage has succeeded; add() goes on with its second one.
Saved(t) ==
  LET p == ProcessOf[t]
      new == New(t, job[t].owner)
  IN /\ Active(t) /\ job[t].todo = <<>>
     /\ memory' = [memory EXCEPT ![p] =
                     CASE job[t].kind = "clear" -> @
                       [] job[t].kind # "clear" /\ job[t].appends -> @ \cup {new}
                       [] OTHER -> Kept(t)]
     /\ IF job[t].kind = "add" /\ ~job[t].appends
        THEN /\ job' = [job EXCEPT ![t].appends = TRUE,
                                   ![t].todo = Addition(new, Kept(t))]
             /\ UNCHANGED expected
        ELSE /\ job' = [job EXCEPT ![t] = NoCall("over")]
             /\ expected' = IF calm THEN Result(t) ELSE {}
     /\ UNCHANGED <<storage, file, vault, loaded, ended, calm>>

\* A process ends, in the middle of a call if it is killed.
End(p) ==
  LET killed == {t \in Tasks : ProcessOf[t] = p /\ Active(t)}
  IN /\ p \notin ended
     /\ ended' = ended \cup {p}
     /\ loaded' = loaded \ {p}
     /\ memory' = [memory EXCEPT ![p] = {}]
     /\ job' = [t \in Tasks |-> IF t \in killed THEN NoCall("over")
                                ELSE job[t]]
     /\ CalmIf(killed = {})
     /\ UNCHANGED <<storage, file, vault>>

Terminated == ended = Processes /\ UNCHANGED vars

Next ==
  \/ \E t \in Tasks :
       \/ \E owner \in Owners : Add(t, owner) \/ Remove(t, owner)
       \/ LoadFails(t) \/ Clear(t)
       \/ OperateOnFile(t) \/ SetBlock(t) \/ RemoveEntry(t) \/ OperationFails(t) \/ Saved(t)
  \/ \E p \in Processes : End(p)
  \/ Terminated

Spec == Init /\ [][Next]_vars

-------------------------------------------------------------------------------
(* Properties.                                                              *)

Unique(entries) == \A e, f \in entries : e.owner = f.owner => e = f

\* However the calls of several processes overlap and whichever of them are
\* killed, the file has one entry at most for a user, and so has the copy of
\* every process: adal-node refuses to choose between two.  A process has one
\* call out at a time.
NoDuplicates ==
  storage = "file" =>
    /\ Unique(file.entries)
    /\ \A p \in Processes : Unique(memory[p])

\* As long as no call overlapped with another process and none failed, the
\* storage has what the calls have made of it: a login is found by the next
\* command, a logout leaves nothing, and no other user's entry is touched,
\* through the copies, the two calls of an addition and the joined blocks.
AloneIsExact ==
  calm /\ (\A t \in Tasks : ~Active(t)) => Readable /\ Stored = expected

\* In the vault an entry disappears only by a call that is about its owner, or
\* about everything: other processes' additions survive a stale copy, which in
\* the file they do not.
VaultKeepsOthers ==
  [][storage = "vault" =>
       \A e \in Stored \ Stored' :
         \E t \in Tasks :
           /\ Active(t)
           /\ job[t].kind = "clear" \/ e.owner \in Rivals(job[t].owner)]_vars

===============================================================================
