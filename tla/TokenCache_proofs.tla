--------------------------- MODULE TokenCache_proofs ---------------------------
(* Proofs about TokenCache. *)
EXTENDS TokenCache, FiniteSetTheorems, TLAPS

LEMMA NumBlocksIsNatural ==
  ASSUME NEW owner \in Owners
  PROVE  NumBlocks(owner) \in Nat
<1> DEFINE blocks == LengthOf[owner] \div MaxBytes
<1>1. LengthOf[owner] \in Nat /\ MaxBytes \in Nat \ {0, 1}
  BY LengthOfAssumption, MaxBytesAssumption
<1>2. blocks \in Nat
  BY <1>1
<1>. QED BY <1>2 DEF NumBlocks

\* What the storage is asked to remove is well-formed.
LEMMA RemovalType ==
  ASSUME NEW removed \in SUBSET Entries, NEW kept \in SUBSET Entries
  PROVE  Removal(removed, kept) \in Seq(Operations)
<1>1. \A op \in {"open", "write", "remove"} : \A entries \in SUBSET Entries :
        Op(op, entries, 0) \in Operations
  BY DEF Op, Operations
<1>2. Op("open", {}, 0) \in Operations /\ Op("write", kept, 0) \in Operations
  BY <1>1
<1>3. Op("remove", removed, 0) \in Operations
  BY <1>1
<1>. QED BY <1>2, <1>3 DEF Removal, Save

\* So is what it is asked to add.
LEMMA AdditionType ==
  ASSUME NEW new \in Entries, NEW existing \in SUBSET Entries
  PROVE  Addition(new, existing) \in Seq(Operations)
<1>1. CASE storage = "file"
  <2>1. /\ Op("open", {}, 0) \in Operations
        /\ Op("write", existing \cup {new}, 0) \in Operations
    BY DEF Op, Operations
  <2>. QED BY <1>1, <2>1 DEF Addition, Save
<1>2. CASE storage # "file"
  <2>1. NumBlocks(new.owner) \in Nat
    BY NumBlocksIsNatural DEF Entries
  <2>2. ASSUME NEW k \in 1 .. NumBlocks(new.owner)
        PROVE  Op("set", {new}, k - 1) \in Operations
    <3>1. k - 1 \in 0 .. NumBlocks(new.owner) - 1 /\ k - 1 \in Nat
      BY <2>1
    <3>2. {new} \X {k - 1} \subseteq {new} \X (0 .. NumBlocks(new.owner) - 1)
      BY <3>1
    <3>3. {new} \X {k - 1} \subseteq CredentialsOf(Entries)
      BY <3>2 DEF CredentialsOf
    <3>. QED BY <3>1, <3>3 DEF Op, Operations
  <2> DEFINE n == NumBlocks(new.owner)
             block(k) == Op("set", {new}, k - 1)
  <2>3. Addition(new, existing) = [k \in 1 .. n |-> block(k)]
    BY <1>2 DEF Addition
  <2>4. n \in Nat /\ \A k \in 1 .. n : block(k) \in Operations
    BY <2>1, <2>2
  <2> HIDE DEF n, block
  <2>. QED BY <2>3, <2>4
<1>. QED BY <1>1, <1>2

\* What is read from the storage are entries.
LEMMA StoredType ==
  ASSUME TypeOK
  PROVE  Stored \subseteq Entries
<1>1. \A c \in CredentialsOf(Entries) : c[1] \in Entries
  BY DEF CredentialsOf
<1>. QED BY <1>1 DEF Stored, TypeOK


LEMMA NoCallType ==
  ASSUME NEW stage \in {"due", "saving", "over"}
  PROVE  NoCall(stage) \in Jobs
BY OwnersAssumption DEF NoCall, Jobs

LEMMA LoadedType ==
  ASSUME TypeOK, NEW p \in Processes
  PROVE  Loaded(p) \subseteq Entries
BY StoredType DEF Loaded, TypeOK

\* The first call of the storage is well-typed.
LEMMA StartType ==
  ASSUME TypeOK, NEW t \in Tasks, NEW kind \in {"add", "remove"}, NEW owner \in Owners,
         NEW appends \in BOOLEAN, NEW kept \in SUBSET Entries,
         NEW todo \in Seq(Operations),
         Start(t, kind, owner, appends, kept, todo)
  PROVE  /\ job' \in [Tasks -> Jobs]
         /\ storage' \in Storages /\ vault' = vault /\ ended' = ended
         /\ calm' \in BOOLEAN /\ expected' \subseteq Entries
<1>1. [stage |-> "saving", kind |-> kind, owner |-> owner,
       appends |-> appends, kept |-> kept, todo |-> todo] \in Jobs
  BY DEF Jobs
<1>. QED BY <1>1 DEF Start, CalmIf, TypeOK

LEMMA InitTypeOK == Init => TypeOK
<1> SUFFICES ASSUME Init PROVE TypeOK
  OBVIOUS
<1>1. expected \subseteq Entries
  <2>1. PICK owners \in SUBSET Owners : expected = [owner : owners, token : {Earlier}]
    BY DEF Init
  <2>. QED BY <2>1 DEF Entries
<1>2. CredentialsOf(expected) \subseteq CredentialsOf(Entries)
  BY <1>1 DEF CredentialsOf
<1>3. NoCall("due") \in Jobs
  BY NoCallType
<1>4. vault \subseteq CredentialsOf(Entries)
  BY <1>2 DEF Init
<1>5. /\ file \in [state : {"absent", "empty", "whole", "torn"}, entries : SUBSET Entries]
      /\ file.state \in {"absent", "empty", "torn"} => file.entries = {}
  <2>1. \/ file = [state |-> "absent", entries |-> {}]
        \/ file = [state |-> "whole", entries |-> expected]
    BY DEF Init
  <2>. QED BY <1>1, <2>1
<1>. QED BY <1>1, <1>3, <1>4, <1>5 DEF Init, TypeOK

LEMMA NextTypeOK == TypeOK /\ [Next]_vars => TypeOK'
<1> SUFFICES ASSUME TypeOK, [Next]_vars PROVE TypeOK'
  OBVIOUS
<1> USE ProcessOfAssumption
<1>1. ASSUME NEW t \in Tasks, NEW owner \in Owners, Add(t, owner)
      PROVE  TypeOK'
  <2> DEFINE p == ProcessOf[t]
             entries == Loaded(p)
             same == SameIdentity(entries, owner)
             rest == entries \ same
  <2>1. p \in Processes /\ entries \subseteq Entries
    BY LoadedType
  <2>2. same \subseteq Entries /\ rest \subseteq Entries
    BY <2>1 DEF SameIdentity
  <2>3. New(t, owner) \in Entries
    BY DEF New, Entries
  <2>4. /\ Removal(same, rest) \in Seq(Operations)
        /\ Addition(New(t, owner), entries) \in Seq(Operations)
    BY <2>1, <2>2, <2>3, RemovalType, AdditionType
  <2>5. /\ job' \in [Tasks -> Jobs]
        /\ storage' \in Storages /\ vault' = vault /\ ended' = ended
        /\ calm' \in BOOLEAN /\ expected' \subseteq Entries
    <3>1. CASE same # {}
      <4>1. Start(t, "add", owner, FALSE, rest, Removal(same, rest))
        BY <1>1, <3>1 DEF Add
      <4>. QED BY <4>1, <2>2, <2>4, StartType
    <3>2. CASE same = {}
      <4>1. Start(t, "add", owner, TRUE, entries, Addition(New(t, owner), entries))
        BY <1>1, <3>2 DEF Add
      <4>. QED BY <4>1, <2>1, <2>4, StartType
    <3>. QED BY <3>1, <3>2
  <2>6. /\ loaded' = loaded \cup {p} /\ p \notin ended /\ file' = file
        /\ memory' = [memory EXCEPT ![p] = entries]
    BY <1>1 DEF Add, MayStart
  <2>. QED BY <2>1, <2>5, <2>6 DEF TypeOK
<1>2. ASSUME NEW t \in Tasks, NEW owner \in Owners, Remove(t, owner)
      PROVE  TypeOK'
  <2> DEFINE p == ProcessOf[t]
             entries == Loaded(p)
             rest == {e \in entries : e.owner # owner}
  <2>1. p \in Processes /\ entries \subseteq Entries /\ rest \subseteq Entries
    BY LoadedType
  <2>2. Removal(entries \ rest, rest) \in Seq(Operations)
    BY <2>1, RemovalType
  <2>3. Start(t, "remove", owner, FALSE, rest, Removal(entries \ rest, rest))
    BY <1>2 DEF Remove
  <2>4. /\ job' \in [Tasks -> Jobs]
        /\ storage' \in Storages /\ vault' = vault /\ ended' = ended
        /\ calm' \in BOOLEAN /\ expected' \subseteq Entries
    BY <2>1, <2>2, <2>3, StartType
  <2>5. /\ loaded' = loaded \cup {p} /\ p \notin ended /\ file' = file
        /\ memory' = [memory EXCEPT ![p] = entries]
    BY <1>2 DEF Remove, MayStart
  <2>. QED BY <2>1, <2>4, <2>5 DEF TypeOK
<1>3. ASSUME NEW t \in Tasks, LoadFails(t)
      PROVE  TypeOK'
  BY <1>3, NoCallType DEF LoadFails, CalmIf, TypeOK
<1>4. ASSUME NEW t \in Tasks, Clear(t)
      PROVE  TypeOK'
  <2>1. Removal(Stored, {}) \in Seq(Operations)
    BY StoredType, RemovalType
  <2>2. ASSUME NEW u \in Tasks
        PROVE  WithFileDeleted(job[u]) \in Jobs
    <3>1. job[u] \in Jobs
      BY DEF TypeOK
    <3>2. [job[u] EXCEPT !.todo = <<>>] \in Jobs
      <4>1. <<>> \in Seq(Operations)
        OBVIOUS
      <4>. QED BY <3>1, <4>1 DEF Jobs
    <3>. QED BY <3>1, <3>2 DEF WithFileDeleted
  <2>3. [NoCall("saving") EXCEPT !.todo = Removal(Stored, {})] \in Jobs
    BY <2>1, NoCallType DEF Jobs
  <2>4. job' \in [Tasks -> Jobs]
    BY <1>4, <2>2, <2>3 DEF Clear
  <2>. QED BY <1>4, <2>4 DEF Clear, CalmIf, TypeOK
<1>5. ASSUME NEW t \in Tasks, OperateOnFile(t)
      PROVE  TypeOK'
  <2> DEFINE o == Head(job[t].todo)
  <2>1. job[t] \in Jobs /\ job[t].todo \in Seq(Operations) /\ job[t].todo # <<>>
    BY <1>5 DEF OperateOnFile, TypeOK, Jobs
  <2>2. o \in Operations /\ Tail(job[t].todo) \in Seq(Operations)
    BY <2>1
  <2>3. [job[t] EXCEPT !.todo = Tail(@)] \in Jobs
    BY <2>1, <2>2 DEF Jobs
  <2>4. job' \in [Tasks -> Jobs]
    BY <1>5, <2>3 DEF OperateOnFile, TypeOK
  <2>5. o.entries \subseteq Entries
    BY <2>2 DEF Operations
  <2>6. file' \in {[state |-> "empty", entries |-> {}], [state |-> "torn", entries |-> {}],
                   [state |-> "whole", entries |-> o.entries]}
    BY <1>5 DEF OperateOnFile, Overwritten
  <2>. QED BY <1>5, <2>4, <2>5, <2>6 DEF OperateOnFile, TypeOK
<1>6. ASSUME NEW t \in Tasks, SetBlock(t)
      PROVE  TypeOK'
  <2> DEFINE o == Head(job[t].todo)
  <2>1. job[t] \in Jobs /\ job[t].todo \in Seq(Operations) /\ job[t].todo # <<>>
    BY <1>6 DEF SetBlock, TypeOK, Jobs
  <2>2. o \in Operations /\ Tail(job[t].todo) \in Seq(Operations)
    BY <2>1
  <2>3. [job[t] EXCEPT !.todo = Tail(@)] \in Jobs
    BY <2>1, <2>2 DEF Jobs
  <2>4. job' \in [Tasks -> Jobs]
    BY <1>6, <2>3 DEF SetBlock, TypeOK
  <2>5. vault' \subseteq CredentialsOf(Entries)
    BY <1>6, <2>2 DEF SetBlock, Operations, TypeOK
  <2>. QED BY <1>6, <2>4, <2>5 DEF SetBlock, TypeOK
<1>7. ASSUME NEW t \in Tasks, RemoveEntry(t)
      PROVE  TypeOK'
  <2> DEFINE o == Head(job[t].todo)
  <2>1. job[t] \in Jobs /\ job[t].todo \in Seq(Operations) /\ job[t].todo # <<>>
    BY <1>7 DEF RemoveEntry, TypeOK, Jobs
  <2>2. o \in Operations /\ Tail(job[t].todo) \in Seq(Operations)
    BY <2>1
  <2>3. PICK e \in o.entries :
          LET its == {c \in vault : c[1] = e}
              rest == o.entries \ {e}
          IN /\ vault' = vault \ its
             /\ job' = IF its = {} THEN [job EXCEPT ![t] = NoCall("over")]
                       ELSE IF rest = {} THEN [job EXCEPT ![t].todo = Tail(@)]
                       ELSE [job EXCEPT ![t].todo = <<Op("remove", rest, 0)>> \o Tail(@)]
             /\ CalmIf(its # {})
    BY <1>7 DEF RemoveEntry
  <2>4. [job[t] EXCEPT !.todo = Tail(@)] \in Jobs
    BY <2>1, <2>2 DEF Jobs
  <2>5. Op("remove", o.entries \ {e}, 0) \in Operations
    BY <2>2 DEF Op, Operations
  <2>6. <<Op("remove", o.entries \ {e}, 0)>> \o Tail(job[t].todo) \in Seq(Operations)
    BY <2>2, <2>5
  <2>7. [job[t] EXCEPT !.todo = <<Op("remove", o.entries \ {e}, 0)>> \o Tail(@)] \in Jobs
    BY <2>1, <2>6 DEF Jobs
  <2>8. job' \in [Tasks -> Jobs]
    BY <2>3, <2>4, <2>7, NoCallType DEF TypeOK
  <2>9. calm' \in BOOLEAN /\ expected' \subseteq Entries
    BY <2>3 DEF CalmIf, TypeOK
  <2>. QED BY <1>7, <2>3, <2>8, <2>9 DEF RemoveEntry, TypeOK
<1>8. ASSUME NEW t \in Tasks, OperationFails(t)
      PROVE  TypeOK'
  BY <1>8, NoCallType DEF OperationFails, CalmIf, TypeOK
<1>9. ASSUME NEW t \in Tasks, Saved(t)
      PROVE  TypeOK'
  <2> DEFINE p == ProcessOf[t]
             new == New(t, job[t].owner)
  <2>1. job[t] \in Jobs
    BY DEF TypeOK
  <2>2. new \in Entries /\ Kept(t) \subseteq Entries
    BY <2>1 DEF New, Entries, Jobs, Kept
  <2>3. Addition(new, Kept(t)) \in Seq(Operations)
    BY <2>2, AdditionType
  <2>4. memory' \in [Processes -> SUBSET Entries]
    BY <1>9, <2>2 DEF Saved, TypeOK
  <2>5. [job[t] EXCEPT !.appends = TRUE, !.todo = Addition(new, Kept(t))] \in Jobs
    BY <2>1, <2>3 DEF Jobs
  <2>6. job' \in [Tasks -> Jobs]
    <3>1. CASE job[t].kind = "add" /\ ~job[t].appends
      <4>1. job' = [job EXCEPT ![t].appends = TRUE, ![t].todo = Addition(new, Kept(t))]
        BY <1>9, <3>1 DEF Saved
      <4>. QED BY <4>1, <2>5 DEF TypeOK
    <3>2. CASE ~(job[t].kind = "add" /\ ~job[t].appends)
      <4>1. job' = [job EXCEPT ![t] = NoCall("over")]
        BY <1>9, <3>2 DEF Saved
      <4>. QED BY <4>1, NoCallType DEF TypeOK
    <3>. QED BY <3>1, <3>2
  <2>7. Result(t) \subseteq Entries
    BY <2>2 DEF Result, TypeOK
  <2>8. expected' \subseteq Entries
    BY <1>9, <2>7 DEF Saved, TypeOK
  <2>. QED BY <1>9, <2>4, <2>6, <2>8 DEF Saved, TypeOK
<1>10. ASSUME NEW p \in Processes, End(p)
       PROVE  TypeOK'
  BY <1>10, NoCallType DEF End, CalmIf, TypeOK
<1>11. CASE Terminated \/ UNCHANGED vars
  <2>1. UNCHANGED vars
    BY <1>11 DEF Terminated
  <2>. QED BY <2>1 DEF vars, TypeOK, CredentialsOf
<1>. QED BY <1>1, <1>2, <1>3, <1>4, <1>5, <1>6, <1>7, <1>8, <1>9, <1>10, <1>11 DEF Next

\* Whatever overlaps, fails or is killed: the file, the vault and the copies
\* hold entries, and the storage is asked for nothing else.
THEOREM TypeCorrect == Spec => []TypeOK
BY InitTypeOK, NextTypeOK, PTL DEF Spec

-------------------------------------------------------------------------------
(* One entry for an owner.  In a process with one call out at a time the copy *)
(* does not change between the two halves of an addition, so that the second  *)
(* one adds to a copy from which the first has removed the owner's entry.     *)

OneCallAProcess ==
  \A t, u \in Tasks : Active(t) /\ Active(u) /\ ProcessOf[t] = ProcessOf[u] => t = u

Without(entries, owner) == \A e \in entries : e.owner # owner

WritesUnique(todo) ==
  \A k \in DOMAIN todo : todo[k].op = "write" => Unique(todo[k].entries)

CallInv(t) ==
  Active(t) =>
    /\ WritesUnique(job[t].todo)
    /\ Unique(job[t].kept)
    /\ job[t].kind = "add" =>
         IF job[t].appends THEN Without(memory[ProcessOf[t]], job[t].owner)
                           ELSE Without(job[t].kept, job[t].owner)
    /\ job[t].appends => job[t].kind = "add"

UniqueInv ==
  storage = "file" =>
    /\ Unique(file.entries)
    /\ \A p \in Processes : Unique(memory[p])
    /\ OneCallAProcess
    /\ \A t \in Tasks : CallInv(t)

LEMMA SubsetUnique ==
  ASSUME NEW entries, Unique(entries), NEW some \in SUBSET entries
  PROVE  Unique(some)
BY DEF Unique

LEMMA AddUnique ==
  ASSUME NEW entries, Unique(entries), NEW t, NEW owner, Without(entries, owner)
  PROVE  Unique(entries \cup {New(t, owner)})
BY DEF Unique, Without, New

LEMMA SaveWritesUnique ==
  ASSUME NEW entries, Unique(entries)
  PROVE  WritesUnique(Save(entries))
<1>1. /\ DOMAIN Save(entries) = {1, 2}
      /\ Save(entries)[1].op = "open"
      /\ Save(entries)[2].entries = entries
  BY DEF Save, Op
<1>. QED BY <1>1 DEF WritesUnique

LEMMA TailWritesUnique ==
  ASSUME NEW todo \in Seq(Operations), todo # <<>>, WritesUnique(todo)
  PROVE  /\ WritesUnique(Tail(todo))
         /\ Head(todo).op = "write" => Unique(Head(todo).entries)
BY DEF WritesUnique

\* A call begins: its process has no other one out, and its copy is unique.
LEMMA StartUnique ==
  ASSUME TypeOK, UniqueInv, storage = "file", Parallel = FALSE,
         NEW t \in Tasks, MayStart(t), NEW new \in Jobs, NEW old \in [Tasks -> Jobs],
         \A u \in Tasks : \/ old[u] = job[u]
                          \/ old[u] = [job[u] EXCEPT !.todo = <<>>],
         job' = [old EXCEPT ![t] = new],
         memory' \in [Processes -> SUBSET Entries],
         \A p \in Processes : p # ProcessOf[t] => memory'[p] = memory[p],
         Unique(memory'[ProcessOf[t]]),
         WritesUnique(new.todo), Unique(new.kept),
         new.kind = "add" =>
           IF new.appends THEN Without(memory'[ProcessOf[t]], new.owner)
                          ELSE Without(new.kept, new.owner),
         new.appends => new.kind = "add"
  PROVE  /\ \A p \in Processes : Unique(memory'[p])
         /\ OneCallAProcess'
         /\ \A u \in Tasks : CallInv(u)'
<1>1. \A p \in Processes : Unique(memory'[p])
  BY DEF UniqueInv
<1>2. \A u \in Tasks : u # t =>
        /\ job'[u].stage = job[u].stage /\ job'[u].kind = job[u].kind
        /\ job'[u].owner = job[u].owner /\ job'[u].appends = job[u].appends
        /\ job'[u].kept = job[u].kept
        /\ job'[u].todo = job[u].todo \/ job'[u].todo = <<>>
  BY DEF TypeOK, Jobs
<1>3. \A u \in Tasks : u # t /\ Active(u)' => Active(u) /\ ProcessOf[u] # ProcessOf[t]
  BY <1>2 DEF Active, MayStart
<1>4. OneCallAProcess'
  BY <1>3 DEF OneCallAProcess, UniqueInv
<1>5. CallInv(t)'
  <2>1. job'[t] = new
    BY DEF TypeOK
  <2>. QED BY <2>1 DEF CallInv
<1>6. ASSUME NEW u \in Tasks, u # t
      PROVE  CallInv(u)'
  <2>1. CASE Active(u)'
    <3>1. /\ CallInv(u) /\ Active(u) /\ ProcessOf[u] # ProcessOf[t]
          /\ memory'[ProcessOf[u]] = memory[ProcessOf[u]]
      BY <1>3, <1>6, <2>1, ProcessOfAssumption DEF UniqueInv
    <3>2. WritesUnique(job'[u].todo)
      <4>1. WritesUnique(<<>>)
        BY DEF WritesUnique
      <4>. QED BY <1>2, <1>6, <3>1, <4>1 DEF CallInv
    <3>. QED BY <1>2, <1>6, <3>1, <3>2 DEF CallInv
  <2>2. CASE ~Active(u)'
    BY <2>2 DEF CallInv
  <2>. QED BY <2>1, <2>2
<1>. QED BY <1>1, <1>4, <1>5, <1>6

\* A call goes on, and the copies stay as they are.
LEMMA GoesOnUnique ==
  ASSUME TypeOK, UniqueInv, storage = "file",
         NEW t \in Tasks, Active(t),
         memory' = memory, NEW todo \in Seq(Operations), WritesUnique(todo),
         \/ job' = [job EXCEPT ![t].todo = todo]
         \/ job' = [job EXCEPT ![t] = NoCall("over")]
  PROVE  OneCallAProcess' /\ \A u \in Tasks : CallInv(u)'
<1>1. NoCall("over").stage # "saving"
  BY DEF NoCall
<1>2. \A u \in Tasks : u # t => job'[u] = job[u]
  BY DEF TypeOK
<1>3. \A u \in Tasks : Active(u)' => Active(u)
  BY <1>1, <1>2 DEF Active, TypeOK
<1>4. OneCallAProcess'
  BY <1>3 DEF OneCallAProcess, UniqueInv
<1>5. ASSUME NEW u \in Tasks, u # t
      PROVE  CallInv(u)'
  BY <1>2, <1>5 DEF CallInv, Active, UniqueInv
<1>6. CallInv(t)'
  <2>1. CASE job' = [job EXCEPT ![t] = NoCall("over")]
    <3>1. ~Active(t)'
      BY <1>1, <2>1 DEF Active, TypeOK
    <3>. QED BY <3>1 DEF CallInv
  <2>2. CASE job' = [job EXCEPT ![t].todo = todo]
    <3>1. /\ job'[t].todo = todo /\ job'[t].kept = job[t].kept
          /\ job'[t].kind = job[t].kind /\ job'[t].owner = job[t].owner
          /\ job'[t].appends = job[t].appends
      BY <2>2 DEF TypeOK, Jobs
    <3>. QED BY <3>1 DEF CallInv, UniqueInv
  <2>. QED BY <2>1, <2>2
<1>. QED BY <1>4, <1>5, <1>6

LEMMA InitUnique == Init => UniqueInv
<1> SUFFICES ASSUME Init, storage = "file" PROVE UniqueInv
  BY DEF UniqueInv
<1>1. PICK owners \in SUBSET Owners : expected = [owner : owners, token : {Earlier}]
  BY DEF Init
<1>2. Unique(expected)
  BY <1>1 DEF Unique
<1>3. file.entries \in {{}, expected}
  BY DEF Init
<1>4. Unique({})
  BY DEF Unique
<1>5. \A t \in Tasks : ~Active(t)
  BY DEF Init, Active, NoCall
<1>6. \A p \in Processes : memory[p] = {}
  BY DEF Init
<1>. QED BY <1>2, <1>3, <1>4, <1>5, <1>6 DEF UniqueInv, OneCallAProcess, CallInv

LEMMA NextUnique ==
  ASSUME Parallel = FALSE
  PROVE  TypeOK /\ TypeOK' /\ UniqueInv /\ [Next]_vars => UniqueInv'
<1> SUFFICES ASSUME TypeOK, TypeOK', UniqueInv, [Next]_vars, storage' = "file"
             PROVE  UniqueInv'
  BY DEF UniqueInv
<1> USE ProcessOfAssumption
<1>0. storage = "file"
  <2>1. storage' = storage
    BY DEF Next, vars, Add, Remove, Start, LoadFails, Clear, OperateOnFile, SetBlock,
           RemoveEntry, OperationFails, Saved, End, Terminated
  <2>. QED BY <2>1
<1>00. Unique({})
  BY DEF Unique
<1>a. ASSUME NEW p \in Processes
      PROVE  Unique(Loaded(p))
  BY <1>0 DEF Loaded, Stored, UniqueInv
<1>1. ASSUME NEW t \in Tasks, NEW owner \in Owners, Add(t, owner)
      PROVE  UniqueInv'
  <2> DEFINE p == ProcessOf[t]
             entries == Loaded(p)
             same == SameIdentity(entries, owner)
             rest == entries \ same
             new == New(t, owner)
             begun(appends, kept, todo) ==
               [stage |-> "saving", kind |-> "add", owner |-> owner,
                appends |-> appends, kept |-> kept, todo |-> todo]
  <2>1. /\ MayStart(t) /\ file' = file
        /\ memory' = [memory EXCEPT ![p] = entries]
    BY <1>1 DEF Add
  <2>2. /\ memory'[p] = entries /\ Unique(entries)
        /\ memory' \in [Processes -> SUBSET Entries]
        /\ \A q \in Processes : q # p => memory'[q] = memory[q]
    BY <2>1, <1>a DEF TypeOK
  <2>3. Without(rest, owner) /\ Unique(rest)
    BY <2>2, SubsetUnique DEF Without, SameIdentity
  <2>4. CASE same # {}
    <3>1. job' = [job EXCEPT ![t] = begun(FALSE, rest, Removal(same, rest))]
      BY <1>1, <2>4 DEF Add, Start
    <3>2. begun(FALSE, rest, Removal(same, rest)) \in Jobs
      BY <3>1 DEF TypeOK
    <3>3. WritesUnique(Removal(same, rest))
      BY <1>0, <2>3, SaveWritesUnique DEF Removal
    <3>. HIDE DEF p, entries, same, rest
    <3>4. /\ \A q \in Processes : Unique(memory'[q])
          /\ OneCallAProcess'
          /\ \A u \in Tasks : CallInv(u)'
      <4> DEFINE b == begun(FALSE, rest, Removal(same, rest))
      <4>1. /\ b.todo = Removal(same, rest) /\ b.kept = rest /\ b.kind = "add"
            /\ b.owner = owner /\ b.appends = FALSE /\ b \in Jobs
            /\ job' = [job EXCEPT ![t] = b] /\ job \in [Tasks -> Jobs]
        BY <3>1, <3>2 DEF TypeOK
      <4> HIDE DEF b
      <4>2. Unique(memory'[ProcessOf[t]])
        BY <2>2 DEF p
      <4>3. \A q \in Processes : q # ProcessOf[t] => memory'[q] = memory[q]
        BY <2>2 DEF p
      <4>. QED BY <4>1, <4>2, <4>3, <1>0, <2>1, <2>2, <2>3, <3>3, StartUnique
    <3>. QED BY <1>0, <3>4, <2>1 DEF UniqueInv
  <2>5. CASE same = {}
    <3>1. job' = [job EXCEPT ![t] = begun(TRUE, entries, Addition(new, entries))]
      BY <1>1, <2>5 DEF Add, Start
    <3>2. begun(TRUE, entries, Addition(new, entries)) \in Jobs
      BY <3>1 DEF TypeOK
    <3>a. rest = entries
      BY <2>5
    <3>b. Without(entries, owner)
      BY <3>a, <2>3
    <3>3. WritesUnique(Addition(new, entries))
      BY <1>0, <2>2, <3>b, AddUnique, SaveWritesUnique DEF Addition
    <3>. HIDE DEF p, entries, same, rest, new
    <3>4. /\ \A q \in Processes : Unique(memory'[q])
          /\ OneCallAProcess'
          /\ \A u \in Tasks : CallInv(u)'
      <4> DEFINE b == begun(TRUE, entries, Addition(new, entries))
      <4>1. /\ b.todo = Addition(new, entries) /\ b.kept = entries /\ b.kind = "add"
            /\ b.owner = owner /\ b.appends = TRUE /\ b \in Jobs
            /\ job' = [job EXCEPT ![t] = b] /\ job \in [Tasks -> Jobs]
        BY <3>1, <3>2 DEF TypeOK
      <4> HIDE DEF b
      <4>2. Unique(memory'[ProcessOf[t]]) /\ Without(memory'[ProcessOf[t]], owner)
        BY <2>2, <3>b DEF p
      <4>3. \A q \in Processes : q # ProcessOf[t] => memory'[q] = memory[q]
        BY <2>2 DEF p
      <4>. QED BY <4>1, <4>2, <4>3, <1>0, <2>1, <2>2, <3>3, StartUnique
    <3>. QED BY <1>0, <3>4, <2>1 DEF UniqueInv
  <2>. QED BY <2>4, <2>5
<1>2. ASSUME NEW t \in Tasks, NEW owner \in Owners, Remove(t, owner)
      PROVE  UniqueInv'
  <2> DEFINE p == ProcessOf[t]
             entries == Loaded(p)
             rest == {e \in entries : e.owner # owner}
             b == [stage |-> "saving", kind |-> "remove", owner |-> owner,
                   appends |-> FALSE, kept |-> rest, todo |-> Removal(entries \ rest, rest)]
  <2>1. /\ MayStart(t) /\ file' = file
        /\ memory' = [memory EXCEPT ![p] = entries]
        /\ job' = [job EXCEPT ![t] = b]
    BY <1>2 DEF Remove, Start
  <2>2. /\ memory'[p] = entries /\ Unique(entries)
        /\ memory' \in [Processes -> SUBSET Entries]
        /\ \A q \in Processes : q # p => memory'[q] = memory[q]
    BY <2>1, <1>a DEF TypeOK
  <2>3. Unique(rest)
    BY <2>2, SubsetUnique
  <2>4. b \in Jobs /\ job \in [Tasks -> Jobs]
    BY <2>1 DEF TypeOK
  <2>5. WritesUnique(b.todo)
    BY <1>0, <2>3, SaveWritesUnique DEF Removal
  <2>6. Unique(b.kept) /\ b.kind = "remove" /\ b.appends = FALSE
    BY <2>3
  <2>7. /\ Unique(memory'[ProcessOf[t]])
        /\ \A q \in Processes : q # ProcessOf[t] => memory'[q] = memory[q]
    BY <2>2
  <2> HIDE DEF p, entries, b, rest
  <2>8. /\ \A q \in Processes : Unique(memory'[q])
        /\ OneCallAProcess'
        /\ \A u \in Tasks : CallInv(u)'
    BY <1>0, <2>1, <2>2, <2>4, <2>5, <2>6, <2>7, StartUnique
  <2>. QED BY <1>0, <2>1, <2>8 DEF UniqueInv
<1>3. ASSUME NEW t \in Tasks, LoadFails(t)
      PROVE  UniqueInv'
  <2>1. /\ memory' = memory /\ file' = file
        /\ \A u \in Tasks : Active(u)' => Active(u) /\ job'[u] = job[u]
    BY <1>3 DEF LoadFails, NoCall, Active, TypeOK
  <2>2. \A u \in Tasks : CallInv(u)'
    BY <1>0, <2>1 DEF CallInv, UniqueInv
  <2>. QED BY <1>0, <2>1, <2>2 DEF UniqueInv, OneCallAProcess
<1>4. ASSUME NEW t \in Tasks, Clear(t)
      PROVE  UniqueInv'
  <2> DEFINE b == [NoCall("saving") EXCEPT !.todo = Removal(Stored, {})]
             old == [u \in Tasks |-> WithFileDeleted(job[u])]
  <2>1. /\ MayStart(t) /\ memory' = memory /\ file'.entries = {}
        /\ job' = [old EXCEPT ![t] = b]
    BY <1>4 DEF Clear
  <2>2. b \in Jobs
    <3>1. job'[t] = b
      BY <2>1
    <3>. QED BY <3>1 DEF TypeOK
  <2>3. old \in [Tasks -> Jobs]
    <3>1. ASSUME NEW u \in Tasks
          PROVE  WithFileDeleted(job[u]) \in Jobs
      <4>1. job[u] \in Jobs /\ <<>> \in Seq(Operations)
        BY DEF TypeOK
      <4>2. [job[u] EXCEPT !.todo = <<>>] \in Jobs
        BY <4>1 DEF Jobs
      <4>. QED BY <4>1, <4>2 DEF WithFileDeleted
    <3>. QED BY <3>1
  <2>4. \A u \in Tasks : \/ old[u] = job[u]
                         \/ old[u] = [job[u] EXCEPT !.todo = <<>>]
    BY DEF WithFileDeleted
  <2>5. /\ b.todo = Removal(Stored, {}) /\ b.kept = {} /\ b.kind = "clear"
        /\ b.appends = FALSE
    BY DEF NoCall
  <2>6. WritesUnique(b.todo)
    BY <1>0, <1>00, <2>5, SaveWritesUnique DEF Removal
  <2>7. /\ memory' \in [Processes -> SUBSET Entries]
        /\ Unique(memory'[ProcessOf[t]])
    BY <1>0, <2>1 DEF TypeOK, UniqueInv
  <2> HIDE DEF b, old
  <2>8. /\ \A q \in Processes : Unique(memory'[q])
        /\ OneCallAProcess'
        /\ \A u \in Tasks : CallInv(u)'
    BY <1>0, <1>00, <2>1, <2>2, <2>3, <2>4, <2>5, <2>6, <2>7, StartUnique
  <2>. QED BY <1>00, <2>1, <2>8 DEF UniqueInv
<1>5. ASSUME NEW t \in Tasks, OperateOnFile(t)
      PROVE  UniqueInv'
  <2> DEFINE todo == job[t].todo
  <2>1. /\ Active(t) /\ todo \in Seq(Operations) /\ todo # <<>> /\ WritesUnique(todo)
        /\ memory' = memory /\ job' = [job EXCEPT ![t].todo = Tail(todo)]
    BY <1>0, <1>5 DEF OperateOnFile, TypeOK, Jobs, UniqueInv, CallInv
  <2>2. /\ Tail(todo) \in Seq(Operations) /\ WritesUnique(Tail(todo))
        /\ Head(todo).op = "write" => Unique(Head(todo).entries)
    BY <2>1, TailWritesUnique
  <2>3. \/ file'.entries = {}
        \/ Head(todo).op = "write" /\ file'.entries = Head(todo).entries
    BY <1>5 DEF OperateOnFile, Overwritten
  <2>4. OneCallAProcess' /\ \A u \in Tasks : CallInv(u)'
    BY <1>0, <2>1, <2>2, GoesOnUnique
  <2>. QED BY <1>0, <1>00, <2>1, <2>2, <2>3, <2>4 DEF UniqueInv
<1>6. ASSUME NEW t \in Tasks, SetBlock(t)
      PROVE  UniqueInv'
  <2> DEFINE todo == job[t].todo
  <2>1. /\ Active(t) /\ todo \in Seq(Operations) /\ todo # <<>> /\ WritesUnique(todo)
        /\ memory' = memory /\ job' = [job EXCEPT ![t].todo = Tail(todo)] /\ file' = file
    BY <1>0, <1>6 DEF SetBlock, TypeOK, Jobs, UniqueInv, CallInv
  <2>2. Tail(todo) \in Seq(Operations) /\ WritesUnique(Tail(todo))
    BY <2>1, TailWritesUnique
  <2>3. OneCallAProcess' /\ \A u \in Tasks : CallInv(u)'
    BY <1>0, <2>1, <2>2, GoesOnUnique
  <2>. QED BY <1>0, <2>1, <2>3 DEF UniqueInv
<1>7. ASSUME NEW t \in Tasks, RemoveEntry(t)
      PROVE  UniqueInv'
  <2> DEFINE todo == job[t].todo
  <2>1. /\ Active(t) /\ todo \in Seq(Operations) /\ todo # <<>> /\ WritesUnique(todo)
        /\ memory' = memory /\ file' = file
    BY <1>0, <1>7 DEF RemoveEntry, TypeOK, Jobs, UniqueInv, CallInv
  <2>2. Tail(todo) \in Seq(Operations) /\ WritesUnique(Tail(todo)) /\ Head(todo) \in Operations
    BY <2>1, TailWritesUnique
  <2>3. PICK rest \in SUBSET Entries :
          \/ job' = [job EXCEPT ![t] = NoCall("over")]
          \/ job' = [job EXCEPT ![t].todo = Tail(todo)]
          \/ job' = [job EXCEPT ![t].todo = <<Op("remove", rest, 0)>> \o Tail(todo)]
    <3>1. PICK e \in Head(todo).entries :
            \/ job' = [job EXCEPT ![t] = NoCall("over")]
            \/ job' = [job EXCEPT ![t].todo = Tail(todo)]
            \/ job' = [job EXCEPT ![t].todo =
                         <<Op("remove", Head(todo).entries \ {e}, 0)>> \o Tail(todo)]
      BY <1>7 DEF RemoveEntry
    <3>2. Head(todo).entries \ {e} \in SUBSET Entries
      BY <2>2 DEF Operations
    <3>. QED BY <3>1, <3>2
  <2> DEFINE first == Op("remove", rest, 0)
  <2>4. first.op = "remove" /\ first \in Operations
    BY DEF Op, Operations
  <2> HIDE DEF first, todo
  <2>5. <<first>> \o Tail(todo) \in Seq(Operations) /\ WritesUnique(<<first>> \o Tail(todo))
    <3>1. <<first>> \o Tail(todo) \in Seq(Operations)
      BY <2>2, <2>4
    <3>2. ASSUME NEW k \in DOMAIN (<<first>> \o Tail(todo)), k # 1
          PROVE  /\ k - 1 \in DOMAIN Tail(todo)
                 /\ (<<first>> \o Tail(todo))[k] = Tail(todo)[k - 1]
      BY <2>2, <2>4, <3>2
    <3>3. (<<first>> \o Tail(todo))[1] = first
      BY <2>2, <2>4
    <3>. QED BY <2>2, <2>4, <3>1, <3>2, <3>3 DEF WritesUnique
  <2>6. OneCallAProcess' /\ \A u \in Tasks : CallInv(u)'
    BY <1>0, <2>1, <2>2, <2>3, <2>5, GoesOnUnique DEF first
  <2>. QED BY <1>0, <2>1, <2>6 DEF UniqueInv
<1>8. ASSUME NEW t \in Tasks, OperationFails(t)
      PROVE  UniqueInv'
  <2>1. /\ Active(t) /\ memory' = memory /\ job' = [job EXCEPT ![t] = NoCall("over")]
        /\ file' = file \/ file'.entries = {}
    BY <1>8 DEF OperationFails
  <2>2. <<>> \in Seq(Operations) /\ WritesUnique(<<>>)
    BY DEF WritesUnique
  <2>3. OneCallAProcess' /\ \A u \in Tasks : CallInv(u)'
    BY <1>0, <2>1, <2>2, GoesOnUnique
  <2>. QED BY <1>0, <1>00, <2>1, <2>3 DEF UniqueInv
<1>9. ASSUME NEW t \in Tasks, Saved(t)
      PROVE  UniqueInv'
  <2> DEFINE p == ProcessOf[t]
             new == New(t, job[t].owner)
  <2>1. /\ Active(t) /\ CallInv(t) /\ job[t] \in Jobs /\ file' = file /\ p \in Processes
        /\ Unique(memory[p])
    BY <1>0, <1>9 DEF Saved, UniqueInv, TypeOK
  <2>2. memory' = [memory EXCEPT ![p] = CASE job[t].kind = "clear" -> memory[p]
                                          [] job[t].appends -> memory[p] \cup {new}
                                          [] OTHER -> Kept(t)]
    BY <1>9 DEF Saved
  <2>3. /\ \/ job[t].kind = "clear" /\ memory'[p] = memory[p]
           \/ job[t].appends /\ memory'[p] = memory[p] \cup {new}
           \/ ~job[t].appends /\ memory'[p] = job[t].kept
        /\ \A q \in Processes : q # p => memory'[q] = memory[q]
    BY <2>1, <2>2 DEF Kept, TypeOK
  <2>4. Unique(memory'[p])
    BY <2>1, <2>3, AddUnique DEF CallInv
  <2>5. \A q \in Processes : Unique(memory'[q])
    BY <1>0, <2>3, <2>4 DEF UniqueInv
  <2>6. \A u \in Tasks : u # t => job'[u] = job[u]
    BY <1>9 DEF Saved, TypeOK
  <2>7. \A u \in Tasks : Active(u)' => Active(u)
    BY <2>1, <2>6 DEF Active
  <2>8. OneCallAProcess'
    BY <1>0, <2>7 DEF OneCallAProcess, UniqueInv
  <2>9. ASSUME NEW u \in Tasks, u # t
        PROVE  CallInv(u)'
    <3>1. CASE Active(u)'
      <4>1. Active(u) /\ CallInv(u) /\ job'[u] = job[u]
        BY <1>0, <2>6, <2>7, <2>9, <3>1 DEF UniqueInv
      <4>2. ProcessOf[u] # p
        BY <1>0, <2>1, <2>9, <4>1 DEF UniqueInv, OneCallAProcess
      <4>3. memory'[ProcessOf[u]] = memory[ProcessOf[u]]
        BY <2>3, <4>2
      <4>. QED BY <4>1, <4>3 DEF CallInv
    <3>2. CASE ~Active(u)'
      BY <3>2 DEF CallInv
    <3>. QED BY <3>1, <3>2
  <2>10. CallInv(t)'
    <3>1. CASE job[t].kind = "add" /\ ~job[t].appends
      <4>1. job' = [job EXCEPT ![t].appends = TRUE, ![t].todo = Addition(new, Kept(t))]
        BY <1>9, <3>1 DEF Saved
      <4>2. /\ job'[t].kind = "add" /\ job'[t].appends /\ job'[t].kept = job[t].kept
            /\ job'[t].owner = job[t].owner /\ job'[t].todo = Addition(new, job[t].kept)
        BY <2>1, <3>1, <4>1 DEF TypeOK, Jobs, Kept
      <4>3. Without(job[t].kept, job[t].owner) /\ Unique(job[t].kept)
        BY <2>1, <3>1 DEF CallInv
      <4>4. memory'[p] = job[t].kept
        BY <2>1, <2>2, <3>1 DEF Kept, TypeOK
      <4>5. WritesUnique(Addition(new, job[t].kept))
        BY <1>0, <4>3, AddUnique, SaveWritesUnique DEF Addition
      <4>. QED BY <4>2, <4>3, <4>4, <4>5 DEF CallInv
    <3>2. CASE ~(job[t].kind = "add" /\ ~job[t].appends)
      <4>1. job' = [job EXCEPT ![t] = NoCall("over")]
        BY <1>9, <3>2 DEF Saved
      <4>2. ~Active(t)'
        BY <4>1 DEF Active, NoCall, TypeOK
      <4>. QED BY <4>2 DEF CallInv
    <3>. QED BY <3>1, <3>2
  <2>. QED BY <1>0, <2>1, <2>5, <2>8, <2>9, <2>10 DEF UniqueInv
<1>10. ASSUME NEW p \in Processes, End(p)
       PROVE  UniqueInv'
  <2>1. /\ file' = file /\ memory' = [memory EXCEPT ![p] = {}]
        /\ job' = [t \in Tasks |-> IF ProcessOf[t] = p /\ Active(t) THEN NoCall("over")
                                   ELSE job[t]]
    BY <1>10 DEF End
  <2>2. \A t \in Tasks : Active(t)' => Active(t) /\ job'[t] = job[t] /\ ProcessOf[t] # p
    BY <2>1 DEF Active, NoCall
  <2>3. \A q \in Processes : /\ Unique(memory'[q])
                             /\ q # p => memory'[q] = memory[q]
    BY <1>0, <1>00, <2>1 DEF UniqueInv, TypeOK
  <2>4. OneCallAProcess'
    BY <1>0, <2>2 DEF OneCallAProcess, UniqueInv
  <2>5. \A t \in Tasks : CallInv(t)'
    BY <1>0, <2>2, <2>3 DEF CallInv, UniqueInv
  <2>. QED BY <1>0, <2>1, <2>3, <2>4, <2>5 DEF UniqueInv
<1>11. CASE Terminated \/ UNCHANGED vars
  <2>1. UNCHANGED vars
    BY <1>11 DEF Terminated
  <2>. QED BY <2>1 DEF vars, UniqueInv, OneCallAProcess, CallInv, Active
<1>. QED BY <1>1, <1>2, <1>3, <1>4, <1>5, <1>6, <1>7, <1>8, <1>9, <1>10, <1>11 DEF Next

\* For any number of users, processes and calls, if a process has one call out
\* at a time: no two entries of one owner are ever in the file, or in the copy of
\* a process, however the calls overlap, fail or are killed.
THEOREM NoDuplicatesEver ==
  ASSUME Parallel = FALSE
  PROVE  Spec => []NoDuplicates
<1>1. UniqueInv => NoDuplicates
  BY DEF UniqueInv, NoDuplicates
<1>2. Init => TypeOK /\ UniqueInv
  BY InitTypeOK, InitUnique
<1>3. TypeOK /\ UniqueInv /\ [Next]_vars => (TypeOK /\ UniqueInv)'
  BY NextTypeOK, NextUnique
<1>. QED BY <1>1, <1>2, <1>3, PTL DEF Spec

-------------------------------------------------------------------------------
(* In the vault a call removes only what it is about.                       *)

IsAbout(call, e) == call.kind = "clear" \/ e.owner \in Rivals(call.owner)

Rightful(call) ==
  \A k \in DOMAIN call.todo :
    call.todo[k].op = "remove" => \A e \in call.todo[k].entries : IsAbout(call, e)

RemovalInv == storage = "vault" => \A t \in Tasks : Rightful(job[t])

LEMMA TailRightful ==
  ASSUME NEW call \in Jobs, call.todo # <<>>, Rightful(call)
  PROVE  Rightful([call EXCEPT !.todo = Tail(@)])
<1> DEFINE after == [call EXCEPT !.todo = Tail(@)]
<1>1. /\ after.kind = call.kind /\ after.owner = call.owner
      /\ after.todo = Tail(call.todo) /\ call.todo \in Seq(Operations)
  BY DEF Jobs
<1>2. \A k \in DOMAIN Tail(call.todo) :
        k + 1 \in DOMAIN call.todo /\ Tail(call.todo)[k] = call.todo[k + 1]
  BY <1>1
<1> HIDE DEF after
<1>3. Rightful(after)
  BY <1>1, <1>2 DEF Rightful, IsAbout
<1>. QED BY <1>3 DEF after

\* The entries that a removal has still to remove.
LEMMA RestRightful ==
  ASSUME NEW call \in Jobs, call.todo # <<>>, Rightful(call),
         Head(call.todo).op = "remove",
         NEW rest \in SUBSET Head(call.todo).entries
  PROVE  Rightful([call EXCEPT !.todo = <<Op("remove", rest, 0)>> \o Tail(@)])
<1> DEFINE first == Op("remove", rest, 0)
           after == [call EXCEPT !.todo = <<first>> \o Tail(@)]
<1>1. /\ after.kind = call.kind /\ after.owner = call.owner
      /\ after.todo = <<first>> \o Tail(call.todo) /\ call.todo \in Seq(Operations)
  BY DEF Jobs
<1>2. first.entries = rest
  BY DEF Op
<1>3. Head(call.todo) = call.todo[1] /\ 1 \in DOMAIN call.todo
  BY <1>1
<1> HIDE DEF first
<1>4. \A k \in DOMAIN (<<first>> \o Tail(call.todo)) :
        \/ (<<first>> \o Tail(call.todo))[k] = first
        \/ k \in DOMAIN call.todo /\ (<<first>> \o Tail(call.todo))[k] = call.todo[k]
  BY <1>1
<1> HIDE DEF after
<1>5. Rightful(after)
  BY <1>1, <1>2, <1>3, <1>4 DEF Rightful, IsAbout
<1>. QED BY <1>5 DEF after, first

LEMMA NoCallRightful == \A stage : Rightful(NoCall(stage))
BY DEF Rightful, NoCall

LEMMA AdditionRightful ==
  ASSUME NEW call, NEW new \in Entries, NEW existing, storage = "vault",
         call.todo = Addition(new, existing)
  PROVE  Rightful(call)
<1> DEFINE n == NumBlocks(new.owner)
<1>1. call.todo = [k \in 1 .. n |-> Op("set", {new}, k - 1)]
  BY DEF Addition
<1>. QED BY <1>1 DEF Rightful, Op

LEMMA RemovalRightful ==
  ASSUME NEW call, NEW removed, NEW kept, storage = "vault",
         call.todo = Removal(removed, kept),
         \A e \in removed : IsAbout(call, e)
  PROVE  Rightful(call)
<1>1. CASE removed = {}
  BY <1>1 DEF Removal, Rightful
<1>2. CASE removed # {}
  <2>1. call.todo = <<Op("remove", removed, 0)>>
    BY <1>2 DEF Removal
  <2>2. \A k \in DOMAIN call.todo : call.todo[k].entries = removed
    BY <2>1 DEF Op
  <2>. QED BY <2>2 DEF Rightful
<1>. QED BY <1>1, <1>2

\* add() takes for the owner's what has the same identity: one user's entries,
\* or those of all service principals.
LEMMA SameIdentityAreRivals ==
  ASSUME NEW entries \in SUBSET Entries, NEW owner \in Owners,
         NEW e \in SameIdentity(entries, owner)
  PROVE  e.owner \in Rivals(owner)
<1>1. e.owner \in Owners /\ Identity(e.owner) = Identity(owner)
  BY DEF SameIdentity, Entries
<1>. QED BY <1>1, IdentityAssumption DEF Identity, Rivals, Owners

\* An entry that is complete stays so when credentials are added.
LEMMA CompleteStays ==
  ASSUME NEW e \in Entries, NEW more, NEW few \in SUBSET more, Complete(e, few)
  PROVE  Complete(e, more)
<1> DEFINE n == NumBlocks(e.owner)
           There(credentials) ==
             {k \in 0 .. n - 1 : <<e, k>> \in credentials /\ ~IsEmpty(e.owner, k)}
<1>1. n \in Nat
  BY NumBlocksIsNatural DEF Entries
<1>2. IsFiniteSet(0 .. n - 1) /\ Cardinality(0 .. n - 1) = n
  BY <1>1, FS_Interval
<1>3. There(few) \in SUBSET (0 .. n - 1) /\ Cardinality(There(few)) = n
  BY DEF Complete
<1>4. There(few) = 0 .. n - 1
  BY <1>2, <1>3, FS_Subset
<1>5. There(more) = 0 .. n - 1
  BY <1>4
<1>. QED BY <1>2, <1>5 DEF Complete

\* What is stored after a block was set, or one entry was removed.
LEMMA StoredGrows ==
  ASSUME TypeOK, storage = "vault", storage' = storage, vault \subseteq vault'
  PROVE  Stored \subseteq Stored'
<1>1. Stored = {e \in {c[1] : c \in vault} : Complete(e, vault)}
  BY DEF Stored
<1>2. Stored' = {e \in {c[1] : c \in vault'} : Complete(e, vault')}
  BY DEF Stored
<1>3. ASSUME NEW e \in Stored
      PROVE  e \in Stored'
  <2>1. e \in Entries /\ Complete(e, vault) /\ e \in {c[1] : c \in vault'}
    BY <1>1, <1>3, StoredType
  <2>2. Complete(e, vault')
    BY <2>1, CompleteStays
  <2>. QED BY <1>2, <2>1, <2>2
<1>. QED BY <1>3

LEMMA StoredLoses ==
  ASSUME TypeOK, storage = "vault", storage' = storage, NEW e,
         vault' = vault \ {c \in vault : c[1] = e}
  PROVE  Stored \ Stored' \subseteq {e}
<1>1. Stored = {f \in {c[1] : c \in vault} : Complete(f, vault)}
  BY DEF Stored
<1>2. Stored' = {f \in {c[1] : c \in vault'} : Complete(f, vault')}
  BY DEF Stored
<1>3. ASSUME NEW f \in Stored, f # e
      PROVE  f \in Stored'
  <2>1. f \in {c[1] : c \in vault'}
    BY <1>1, <1>3
  <2>2. \A k : <<f, k>> \in vault' <=> <<f, k>> \in vault
    BY <1>3
  <2>3. Complete(f, vault')
    BY <1>1, <1>3, <2>2 DEF Complete
  <2>. QED BY <1>2, <2>1, <2>3
<1>. QED BY <1>3

-------------------------------------------------------------------------------
Keeps ==
  \A e \in Stored \ Stored' : \E t \in Tasks : Active(t) /\ IsAbout(job[t], e)

LEMMA Untouched ==
  ASSUME UNCHANGED <<storage, vault>>, storage = "vault"
  PROVE  Keeps
<1>1. Stored' = Stored
  BY DEF Stored, Complete
<1>. QED BY <1>1 DEF Keeps

\* The step of one call is rightful.
LEMMA OthersRightful ==
  ASSUME TypeOK, RemovalInv, storage = "vault", NEW t \in Tasks, NEW call,
         job' = [job EXCEPT ![t] = call], Rightful(call)
  PROVE  RemovalInv'
BY DEF TypeOK, RemovalInv

LEMMA StartRightful ==
  ASSUME TypeOK, RemovalInv, storage = "vault", NEW t \in Tasks, NEW kind, NEW owner,
         NEW appends, NEW kept, NEW todo, Start(t, kind, owner, appends, kept, todo),
         Rightful([stage |-> "saving", kind |-> kind, owner |-> owner,
                   appends |-> appends, kept |-> kept, todo |-> todo])
  PROVE  RemovalInv' /\ Keeps
<1>1. UNCHANGED <<storage, vault>>
  BY DEF Start
<1>2. RemovalInv'
  BY OthersRightful DEF Start
<1>. QED BY <1>1, <1>2, Untouched

LEMMA StorageStays == [Next]_vars => storage' = storage
BY DEF Next, Add, Remove, Start, LoadFails, Clear, OperateOnFile, SetBlock, RemoveEntry,
       OperationFails, Saved, End, Terminated, vars

LEMMA NextRightful ==
  ASSUME TypeOK, RemovalInv, storage = "vault", [Next]_vars
  PROVE  RemovalInv' /\ Keeps
<1> USE ProcessOfAssumption
<1>1. ASSUME NEW t \in Tasks, NEW owner \in Owners, Add(t, owner)
      PROVE  RemovalInv' /\ Keeps
  <2> DEFINE entries == Loaded(ProcessOf[t])
             same == SameIdentity(entries, owner)
             rest == entries \ same
             Call(appends, kept, todo) ==
               [stage |-> "saving", kind |-> "add", owner |-> owner,
                appends |-> appends, kept |-> kept, todo |-> todo]
  <2>1. entries \in SUBSET Entries /\ New(t, owner) \in Entries
    BY LoadedType DEF New, Entries
  <2>2. CASE Start(t, "add", owner, FALSE, rest, Removal(same, rest))
    <3>1. \A e \in same : IsAbout(Call(FALSE, rest, Removal(same, rest)), e)
      BY <2>1, SameIdentityAreRivals DEF IsAbout
    <3>2. Rightful(Call(FALSE, rest, Removal(same, rest)))
      BY <3>1, RemovalRightful
    <3>. QED BY <2>2, <3>2, StartRightful
  <2>3. CASE Start(t, "add", owner, TRUE, entries, Addition(New(t, owner), entries))
    <3>1. Rightful(Call(TRUE, entries, Addition(New(t, owner), entries)))
      BY <2>1, AdditionRightful
    <3>. QED BY <2>3, <3>1, StartRightful
  <2>. QED BY <1>1, <2>2, <2>3 DEF Add
<1>2. ASSUME NEW t \in Tasks, NEW owner \in Owners, Remove(t, owner)
      PROVE  RemovalInv' /\ Keeps
  <2> DEFINE entries == Loaded(ProcessOf[t])
             rest == {e \in entries : e.owner # owner}
             call == [stage |-> "saving", kind |-> "remove", owner |-> owner,
                      appends |-> FALSE, kept |-> rest,
                      todo |-> Removal(entries \ rest, rest)]
  <2>1. \A e \in entries \ rest : IsAbout(call, e)
    BY DEF IsAbout, Rivals, Owners
  <2>2. Rightful(call)
    BY <2>1, RemovalRightful
  <2>3. Start(t, "remove", owner, FALSE, rest, Removal(entries \ rest, rest))
    BY <1>2 DEF Remove
  <2>. QED BY <2>2, <2>3, StartRightful
<1>3. ASSUME NEW t \in Tasks, LoadFails(t) \/ OperationFails(t)
      PROVE  RemovalInv' /\ Keeps
  <2>1. job' = [job EXCEPT ![t] = NoCall("over")] /\ UNCHANGED <<storage, vault>>
    BY <1>3 DEF LoadFails, OperationFails
  <2>. QED BY <2>1, NoCallRightful, OthersRightful, Untouched
<1>4. ASSUME NEW t \in Tasks, Clear(t)
      PROVE  RemovalInv' /\ Keeps
  <2> DEFINE call == [NoCall("saving") EXCEPT !.todo = Removal(Stored, {})]
  <2>1. UNCHANGED <<storage, vault>>
    BY <1>4 DEF Clear
  <2>2. call.kind = "clear" /\ call.todo = Removal(Stored, {})
    BY DEF NoCall
  <2>3. Rightful(call)
    BY <2>2, RemovalRightful DEF IsAbout
  <2>4. ASSUME NEW u \in Tasks
        PROVE  Rightful(WithFileDeleted(job[u]))
    <3>1. job[u] \in Jobs /\ Rightful(job[u])
      BY DEF TypeOK, RemovalInv
    <3>2. [job[u] EXCEPT !.todo = <<>>].todo = <<>>
      BY <3>1 DEF Jobs
    <3>3. Rightful([job[u] EXCEPT !.todo = <<>>])
      BY <3>2 DEF Rightful
    <3>. QED BY <3>1, <3>3 DEF WithFileDeleted
  <2>5. \A u \in Tasks : job'[u] = IF u # t THEN WithFileDeleted(job[u]) ELSE call
    BY <1>4 DEF Clear
  <2> HIDE DEF call
  <2>6. RemovalInv'
    BY <2>3, <2>4, <2>5 DEF RemovalInv
  <2>. QED BY <2>1, <2>6, Untouched
<1>5. ASSUME NEW t \in Tasks, OperateOnFile(t) \/ SetBlock(t)
      PROVE  RemovalInv' /\ Keeps
  <2>1. /\ job' = [job EXCEPT ![t] = [job[t] EXCEPT !.todo = Tail(@)]]
        /\ job[t].todo # <<>> /\ storage' = storage /\ vault \subseteq vault'
    BY <1>5 DEF OperateOnFile, SetBlock
  <2>2. RemovalInv'
    BY <2>1, TailRightful, OthersRightful DEF TypeOK, RemovalInv
  <2>3. Stored \subseteq Stored'
    BY <2>1, StoredGrows
  <2>. QED BY <2>2, <2>3 DEF Keeps
<1>6. ASSUME NEW t \in Tasks, RemoveEntry(t)
      PROVE  RemovalInv' /\ Keeps
  <2> DEFINE o == Head(job[t].todo)
  <2>1. PICK e \in o.entries :
          /\ vault' = vault \ {c \in vault : c[1] = e}
          /\ \/ job' = [job EXCEPT ![t] = NoCall("over")]
             \/ job' = [job EXCEPT ![t] = [job[t] EXCEPT !.todo = Tail(@)]]
             \/ job' = [job EXCEPT ![t] =
                          [job[t] EXCEPT !.todo = <<Op("remove", o.entries \ {e}, 0)>> \o Tail(@)]]
    BY <1>6 DEF RemoveEntry
  <2>2. /\ job[t] \in Jobs /\ Rightful(job[t]) /\ job[t].todo # <<>>
        /\ o.op = "remove" /\ Active(t) /\ storage' = storage
    BY <1>6 DEF RemoveEntry, TypeOK, RemovalInv
  <2>3. RemovalInv'
    <3>1. CASE job' = [job EXCEPT ![t] = NoCall("over")]
      BY <3>1, NoCallRightful, OthersRightful
    <3>2. CASE job' = [job EXCEPT ![t] = [job[t] EXCEPT !.todo = Tail(@)]]
      BY <3>2, <2>2, TailRightful, OthersRightful
    <3>3. CASE job' = [job EXCEPT ![t] =
                         [job[t] EXCEPT !.todo = <<Op("remove", o.entries \ {e}, 0)>> \o Tail(@)]]
      <4>1. o.entries \ {e} \in SUBSET o.entries
        OBVIOUS
      <4>2. Rightful([job[t] EXCEPT !.todo = <<Op("remove", o.entries \ {e}, 0)>> \o Tail(@)])
        BY <2>2, <4>1, RestRightful
      <4>. QED BY <3>3, <4>2, OthersRightful
    <3>. QED BY <2>1, <3>1, <3>2, <3>3
  <2>4. IsAbout(job[t], e)
    <3>1. o = job[t].todo[1] /\ 1 \in DOMAIN job[t].todo
      BY <2>2 DEF Jobs
    <3>. QED BY <2>1, <2>2, <3>1 DEF Rightful
  <2>5. Stored \ Stored' \subseteq {e}
    BY <2>1, <2>2, StoredLoses
  <2>. QED BY <2>2, <2>3, <2>4, <2>5 DEF Keeps
<1>7. ASSUME NEW t \in Tasks, Saved(t)
      PROVE  RemovalInv' /\ Keeps
  <2> DEFINE new == New(t, job[t].owner)
             call == [job[t] EXCEPT !.appends = TRUE, !.todo = Addition(new, Kept(t))]
  <2>1. /\ UNCHANGED <<storage, vault>>
        /\ job' = [job EXCEPT ![t] = call] \/ job' = [job EXCEPT ![t] = NoCall("over")]
    BY <1>7 DEF Saved
  <2>2. job[t] \in Jobs /\ new \in Entries
    BY DEF TypeOK, Jobs, New, Entries
  <2>3. call.todo = Addition(new, Kept(t))
    BY <2>2 DEF Jobs
  <2>4. Rightful(call)
    BY <2>2, <2>3, AdditionRightful
  <2> HIDE DEF call
  <2>. QED BY <2>1, <2>4, NoCallRightful, OthersRightful, Untouched
<1>8. ASSUME NEW p \in Processes, End(p)
      PROVE  RemovalInv' /\ Keeps
  <2>1. /\ UNCHANGED <<storage, vault>>
        /\ \A t \in Tasks : job'[t] \in {job[t], NoCall("over")}
    BY <1>8 DEF End
  <2>2. RemovalInv'
    BY <2>1, NoCallRightful DEF RemovalInv
  <2>. QED BY <2>1, <2>2, Untouched
<1>9. CASE Terminated \/ UNCHANGED vars
  BY <1>9, Untouched DEF Terminated, vars, RemovalInv
<1>. QED BY <1>1, <1>2, <1>3, <1>4, <1>5, <1>6, <1>7, <1>8, <1>9 DEF Next

\* In the credential store an entry goes only by a call that is about its owner
\* or about everything, however stale the copy from which it was computed, and
\* however many calls of however many processes overlap (removeEntries() and
\* addEntries() of win-token-storage.js).
THEOREM VaultKeepsTheOthers == Spec => VaultKeepsOthers
<1>1. Init => TypeOK /\ RemovalInv
  BY InitTypeOK, NoCallRightful DEF Init, RemovalInv
<1>2. TypeOK /\ RemovalInv /\ [Next]_vars => (TypeOK /\ RemovalInv)'
  <2>1. CASE storage = "vault"
    BY <2>1, NextTypeOK, NextRightful
  <2>2. CASE storage # "vault"
    BY <2>2, NextTypeOK, StorageStays DEF RemovalInv
  <2>. QED BY <2>1, <2>2
<1>3. TypeOK /\ RemovalInv /\ [Next]_vars =>
        [storage = "vault" =>
           \A e \in Stored \ Stored' :
             \E t \in Tasks :
               /\ Active(t)
               /\ job[t].kind = "clear" \/ e.owner \in Rivals(job[t].owner)]_vars
  BY NextRightful DEF Keeps, IsAbout
<1>. QED BY <1>1, <1>2, <1>3, PTL DEF Spec, VaultKeepsOthers

-------------------------------------------------------------------------------
(* As long as it is calm there is one process at a time, with one call out,   *)
(* and the storage is on the way from what it had to what the call is for.    *)

\* What the storage has when the call of it that is out succeeds.
Aim(t) ==
  IF job[t].appends THEN memory[ProcessOf[t]] \cup {New(t, job[t].owner)}
  ELSE job[t].kept

\* The file is still to be opened, or is open and empty, or is written.
FileOnItsWay(t) ==
  \/ job[t].todo = Save(Aim(t))
  \/ job[t].todo = <<Op("write", Aim(t), 0)>> /\ file.state = "empty"
  \/ job[t].todo = <<>> /\ file = [state |-> "whole", entries |-> Aim(t)]

\* Some entries are still to be removed.
RemovalOnItsWay(t) ==
  \/ job[t].todo = <<>> /\ vault = CredentialsOf(job[t].kept)
  \/ \E removed \in (SUBSET Entries) \ {{}} :
       /\ job[t].todo = <<Op("remove", removed, 0)>>
       /\ removed \cap job[t].kept = {}
       /\ vault = CredentialsOf(job[t].kept \cup removed)

\* Some blocks of the entry are still to be set.
AdditionOnItsWay(t) ==
  LET new == New(t, job[t].owner)
      n == NumBlocks(job[t].owner)
  IN \E set \in 0 .. n :
       /\ job[t].todo = [k \in 1 .. n - set |-> Op("set", {new}, set + k - 1)]
       /\ vault = CredentialsOf(memory[ProcessOf[t]]) \cup ({new} \X (0 .. set - 1))

OnItsWay(t) ==
  /\ storage = "file" => FileOnItsWay(t)
  /\ storage = "vault" => IF job[t].appends THEN AdditionOnItsWay(t)
                                            ELSE RemovalOnItsWay(t)

Others(owners) == {e \in expected : e.owner \notin owners}

\* What the call is for is what it will have made of the storage.
Purposeful(t) ==
  LET call == job[t]
      p == ProcessOf[t]
  IN CASE call.kind = "clear" -> call.kept = {} /\ ~call.appends /\ loaded = {}
       [] call.kind = "remove" ->
            call.kept = Others({call.owner}) /\ ~call.appends /\ loaded = {p}
       [] call.kind = "add" ->
            /\ (IF call.appends THEN memory[p] ELSE call.kept) = Others(Rivals(call.owner))
            /\ loaded = {p}

AtRest ==
  /\ storage = "file" => file.state # "torn" /\ file.entries = expected
  /\ storage = "vault" => vault = CredentialsOf(expected)
  /\ \A p \in loaded : memory[p] = expected

CalmInv ==
  calm =>
    /\ \A t, u \in Tasks : Active(t) /\ Active(u) => t = u
    /\ \A p, q \in loaded : p = q
    /\ (\A t \in Tasks : ~Active(t)) => AtRest
    /\ \A t \in Tasks : Active(t) => OnItsWay(t) /\ Purposeful(t)

\* The last block of a credential has something in it: splitEntry() adds an
\* empty one to a credential that fills its blocks, which is never joined.  The
\* file has no blocks.
BlocksAreFilled ==
  "vault" \in Storages =>
    \A owner \in Owners : \A k \in 0 .. NumBlocks(owner) - 1 : ~IsEmpty(owner, k)

LEMMA NumBlocksIsPositive ==
  ASSUME NEW owner \in Owners
  PROVE  NumBlocks(owner) >= 1
<1>1. LengthOf[owner] \in Nat /\ MaxBytes \in Nat \ {0, 1}
  BY LengthOfAssumption, MaxBytesAssumption
<1>2. CASE LengthOf[owner] <= MaxBytes
  BY <1>2 DEF NumBlocks
<1>3. CASE ~(LengthOf[owner] <= MaxBytes)
  <2>1. LengthOf[owner] \div MaxBytes >= 1
    BY <1>1, <1>3
  <2>2. LengthOf[owner] \div MaxBytes \in Int
    BY <1>1
  <2>. QED BY <1>3, <2>1, <2>2 DEF NumBlocks
<1>. QED BY <1>2, <1>3

LEMMA CredentialsMember ==
  ASSUME NEW entries, NEW c
  PROVE  c \in CredentialsOf(entries)
           <=> \E e \in entries : \E k \in 0 .. NumBlocks(e.owner) - 1 : c = <<e, k>>
BY DEF CredentialsOf

\* Whoever has all credentials of some entries, and no others, finds these.
LEMMA StoredIsExact ==
  ASSUME TypeOK, BlocksAreFilled, storage = "vault", NEW entries \in SUBSET Entries,
         vault = CredentialsOf(entries)
  PROVE  Stored = entries
<1>1. Stored = {e \in {c[1] : c \in vault} : Complete(e, vault)}
  BY DEF Stored
<1>2. \A c \in vault : c[1] \in entries
  BY CredentialsMember
<1>3. ASSUME NEW e \in entries
      PROVE  e \in {c[1] : c \in vault} /\ Complete(e, vault)
  <2>. DEFINE n == NumBlocks(e.owner)
              there == {k \in 0 .. n - 1 : <<e, k>> \in vault /\ ~IsEmpty(e.owner, k)}
  <2>1. e.owner \in Owners
    BY DEF Entries
  <2>2. n \in Nat /\ n >= 1
    BY <2>1, NumBlocksIsNatural, NumBlocksIsPositive
  <2>. HIDE DEF n
  <2>3. \A k \in 0 .. n - 1 : <<e, k>> \in vault
    BY CredentialsMember DEF n
  <2>4. \A k \in 0 .. n - 1 : ~IsEmpty(e.owner, k)
    BY <2>1 DEF BlocksAreFilled, TypeOK, n
  <2>5. there = 0 .. n - 1
    BY <2>3, <2>4
  <2>6. Cardinality(0 .. n - 1) = n
    BY <2>2, FS_Interval
  <2>7. Complete(e, vault)
    <3>1. Complete(e, vault) <=> Cardinality(there) = n
      BY Zenon DEF Complete, n
    <3>. QED BY <3>1, <2>5, <2>6
  <2>8. <<e, 0>> \in vault /\ <<e, 0>>[1] = e
    BY <2>2, <2>3
  <2>9. e \in {c[1] : c \in vault}
    BY <2>8
  <2>. QED BY <2>7, <2>9
<1>. QED BY <1>1, <1>2, <1>3

LEMMA CredentialsWithout ==
  ASSUME NEW entries, NEW e
  PROVE  CredentialsOf(entries) \ {c \in CredentialsOf(entries) : c[1] = e}
           = CredentialsOf(entries \ {e})
<1>. DEFINE left == CredentialsOf(entries) \ {c \in CredentialsOf(entries) : c[1] = e}
<1>1. ASSUME NEW c \in left PROVE c \in CredentialsOf(entries \ {e})
  <2>1. PICK f \in entries : \E k \in 0 .. NumBlocks(f.owner) - 1 : c = <<f, k>>
    BY CredentialsMember
  <2>2. c[1] = f /\ f # e
    BY <2>1
  <2>. QED BY <2>1, <2>2, CredentialsMember
<1>2. ASSUME NEW c \in CredentialsOf(entries \ {e}) PROVE c \in left
  <2>1. PICK f \in entries \ {e} : \E k \in 0 .. NumBlocks(f.owner) - 1 : c = <<f, k>>
    BY CredentialsMember
  <2>2. c[1] = f
    BY <2>1
  <2>. QED BY <2>1, <2>2, CredentialsMember
<1>. QED BY <1>1, <1>2

LEMMA CredentialsWith ==
  ASSUME NEW entries, NEW e
  PROVE  CredentialsOf(entries \cup {e})
           = CredentialsOf(entries) \cup ({e} \X (0 .. NumBlocks(e.owner) - 1))
BY DEF CredentialsOf

LEMMA NoBlocksYet ==
  ASSUME NEW entries, NEW e
  PROVE  entries \cup ({e} \X (0 .. 0 - 1)) = entries
OBVIOUS

-------------------------------------------------------------------------------
\* A call is out, its process has no other one, and nobody else has any.
LEMMA OneIsOnItsWay ==
  ASSUME TypeOK, NEW t \in Tasks, NEW call, job' = [job EXCEPT ![t] = call],
         \A u \in Tasks : Active(u) => u = t,
         call.stage = "saving",
         OnItsWay(t)', Purposeful(t)', loaded' \in SUBSET {ProcessOf[t]}
  PROVE  CalmInv'
<1>1. /\ job'[t].stage = "saving"
      /\ \A u \in Tasks : u # t => job'[u] = job[u]
  BY DEF TypeOK
<1>2. \A u \in Tasks : Active(u)' <=> u = t
  BY <1>1 DEF Active
<1>. QED BY <1>2 DEF CalmInv

\* No call is out.
LEMMA NoneIsOnItsWay ==
  ASSUME \A u \in Tasks : ~Active(u)', AtRest', \A p, q \in loaded' : p = q
  PROVE  CalmInv'
BY DEF CalmInv

\* Whoever starts a call while it is calm finds what the calls before it have
\* made of the storage, in its copy or in the storage.
LEMMA CalmStart ==
  ASSUME TypeOK, BlocksAreFilled, CalmInv, calm, NEW t \in Tasks, Undisturbed(t)
  PROVE  /\ \A u \in Tasks : ~Active(u)
         /\ AtRest
         /\ loaded \in SUBSET {ProcessOf[t]}
         /\ Stored = expected
         /\ Loaded(ProcessOf[t]) = expected
<1>1. \A u \in Tasks : ~Active(u)
  BY DEF Undisturbed
<1>2. AtRest
  BY <1>1 DEF CalmInv
<1>3. loaded \in SUBSET {ProcessOf[t]}
  BY DEF Undisturbed, Alive, TypeOK
<1>4. Stored = expected
  <2>1. storage \in {"file", "vault"}
    BY StoragesAssumption DEF TypeOK
  <2>2. CASE storage = "file"
    BY <1>2, <2>2 DEF AtRest, Stored
  <2>3. CASE storage = "vault"
    <3>1. vault = CredentialsOf(expected) /\ expected \in SUBSET Entries
      BY <1>2, <2>3 DEF AtRest, TypeOK
    <3>. QED BY <2>3, <3>1, StoredIsExact
  <2>. QED BY <2>1, <2>2, <2>3
<1>5. Loaded(ProcessOf[t]) = expected
  BY <1>2, <1>4 DEF Loaded, AtRest
<1>. QED BY <1>1, <1>2, <1>3, <1>4, <1>5

\* The call that add() or remove() begins with.
LEMMA CalmCall ==
  ASSUME TypeOK, BlocksAreFilled, CalmInv, calm, NEW t \in Tasks, Undisturbed(t),
         NEW call, job' = [job EXCEPT ![t] = call],
         loaded' = loaded \cup {ProcessOf[t]},
         memory' = [memory EXCEPT ![ProcessOf[t]] = Loaded(ProcessOf[t])]
  PROVE  /\ \A u \in Tasks : Active(u) => u = t
         /\ job'[t] = call
         /\ loaded' = {ProcessOf[t]}
         /\ memory'[ProcessOf[t]] = expected
         /\ AtRest
<1>1. ProcessOf[t] \in Processes
  BY ProcessOfAssumption
<1>. QED BY <1>1, CalmStart DEF TypeOK

\* A call begins that first removes some of the entries, perhaps all or none.
LEMMA RemovalBegins ==
  ASSUME TypeOK, AtRest, UNCHANGED <<storage, vault>>, NEW t \in Tasks,
         NEW removed, NEW kept, removed \cup kept = expected, removed \cap kept = {},
         ~job'[t].appends, job'[t].kept = kept, job'[t].todo = Removal(removed, kept)
  PROVE  OnItsWay(t)'
<1>1. CASE storage = "file"
  <2>1. job'[t].todo = Save(kept)
    BY <1>1 DEF Removal
  <2>2. Aim(t)' = kept
    BY DEF Aim
  <2>3. FileOnItsWay(t)'
    BY <2>1, <2>2, Zenon DEF FileOnItsWay, Save, Op
  <2>. QED BY <1>1, <2>3 DEF OnItsWay
<1>2. CASE storage = "vault"
  <2>1. vault' = CredentialsOf(removed \cup kept)
    BY <1>2 DEF AtRest
  <2>2. CASE removed = {}
    <3>1. job'[t].todo = <<>> /\ vault' = CredentialsOf(kept)
      <4>1. removed \cup kept = kept
        BY <2>2
      <4>. QED BY <1>2, <2>1, <2>2, <4>1 DEF Removal
    <3>2. RemovalOnItsWay(t)'
      BY <3>1 DEF RemovalOnItsWay
    <3>. QED BY <1>2, <3>2 DEF OnItsWay
  <2>3. CASE removed # {}
    <3>1. job'[t].todo = <<Op("remove", removed, 0)>>
      BY <1>2, <2>3 DEF Removal
    <3>2. removed \in (SUBSET Entries) \ {{}}
      BY <2>3 DEF TypeOK
    <3>3. vault' = CredentialsOf(kept \cup removed)
      <4>1. removed \cup kept = kept \cup removed
        OBVIOUS
      <4>. QED BY <2>1, <4>1
    <3>4. RemovalOnItsWay(t)'
      BY <3>1, <3>2, <3>3, Zenon DEF RemovalOnItsWay
    <3>. QED BY <1>2, <3>4 DEF OnItsWay
  <2>. QED BY <2>2, <2>3
<1>3. storage \in {"file", "vault"}
  BY StoragesAssumption DEF TypeOK
<1>. QED BY <1>1, <1>2, <1>3

\* A call begins, or goes on, to add its entry to what the copy has.
LEMMA AdditionBegins ==
  ASSUME TypeOK, NEW t \in Tasks, storage' = storage,
         job'[t].owner \in Owners, job'[t].appends,
         job'[t].todo = Addition(New(t, job'[t].owner), memory'[ProcessOf[t]]),
         storage = "vault" => vault' = CredentialsOf(memory'[ProcessOf[t]])
  PROVE  OnItsWay(t)'
<1>. DEFINE new == New(t, job'[t].owner)
            n == NumBlocks(job'[t].owner)
<1>1. CASE storage = "file"
  <2>1. Aim(t)' = memory'[ProcessOf[t]] \cup {new}
    BY DEF Aim
  <2>2. FileOnItsWay(t)'
    BY <1>1, <2>1 DEF FileOnItsWay, Addition
  <2>. QED BY <1>1, <2>2 DEF OnItsWay
<1>2. CASE storage = "vault"
  <2>1. n \in Nat /\ new.owner = job'[t].owner
    BY NumBlocksIsNatural DEF New
  <2>2. job'[t].todo = [k \in 1 .. n |-> Op("set", {new}, k - 1)]
    BY <1>2, <2>1 DEF Addition
  <2>. HIDE DEF n
  <2>3. job'[t].todo = [k \in 1 .. n - 0 |-> Op("set", {new}, 0 + k - 1)]
    <3>1. n - 0 = n /\ \A k \in 1 .. n : 0 + k - 1 = k - 1
      BY <2>1
    <3>. QED BY <2>2, <3>1
  <2>4. vault' = CredentialsOf(memory'[ProcessOf[t]]) \cup ({new} \X (0 .. 0 - 1))
    BY <1>2, NoBlocksYet
  <2>5. 0 \in 0 .. n
    BY <2>1
  <2>6. AdditionOnItsWay(t)'
    BY <2>3, <2>4, <2>5, Zenon DEF AdditionOnItsWay, n
  <2>. QED BY <1>2, <2>6 DEF OnItsWay
<1>3. storage \in {"file", "vault"}
  BY StoragesAssumption DEF TypeOK
<1>. QED BY <1>1, <1>2, <1>3

LEMMA CalmAdd ==
  ASSUME TypeOK, BlocksAreFilled, CalmInv, calm, calm',
         NEW t \in Tasks, NEW owner \in Owners, Add(t, owner)
  PROVE  CalmInv'
<1>. DEFINE entries == Loaded(ProcessOf[t])
            same == SameIdentity(entries, owner)
            rest == entries \ same
            new == New(t, owner)
            Call(appends, kept, todo) ==
              [stage |-> "saving", kind |-> "add", owner |-> owner,
               appends |-> appends, kept |-> kept, todo |-> todo]
<1>1. /\ loaded' = loaded \cup {ProcessOf[t]} /\ file' = file
      /\ memory' = [memory EXCEPT ![ProcessOf[t]] = entries]
      /\ IF same # {}
         THEN Start(t, "add", owner, FALSE, rest, Removal(same, rest))
         ELSE Start(t, "add", owner, TRUE, entries, Addition(new, entries))
  BY DEF Add
<1>0. /\ loaded' = loaded \cup {ProcessOf[t]} /\ file' = file
      /\ memory' = [memory EXCEPT ![ProcessOf[t]] = Loaded(ProcessOf[t])]
  BY <1>1
<1>2. Undisturbed(t)
  BY <1>1 DEF Start, CalmIf
<1>3. entries = expected /\ expected \in SUBSET Entries
  BY <1>2, CalmStart DEF TypeOK
<1>4. rest = Others(Rivals(owner))
  <2>1. \A e \in expected : e.owner \in Owners
    BY <1>3 DEF Entries
  <2>2. \A o \in Owners : Identity(o) = Identity(owner) <=> o \in Rivals(owner)
    BY IdentityAssumption, OwnersAssumption DEF Identity, Rivals, Owners
  <2>3. same = {e \in expected : Identity(e.owner) = Identity(owner)}
    BY <1>3 DEF SameIdentity
  <2>4. \A e \in expected : e \in same <=> e.owner \in Rivals(owner)
    BY <2>1, <2>2, <2>3
  <2>. QED BY <1>3, <2>4 DEF Others
<1>5. CASE same # {}
  <2>. DEFINE call == Call(FALSE, rest, Removal(same, rest))
  <2>1. Start(t, "add", owner, FALSE, rest, Removal(same, rest))
    BY <1>1, <1>5
  <2>2. /\ \A u \in Tasks : Active(u) => u = t
        /\ job'[t] = call
        /\ loaded' = {ProcessOf[t]}
        /\ UNCHANGED <<storage, file, vault, expected>>
        /\ AtRest
    <3>1. job' = [job EXCEPT ![t] = call]
      BY <2>1 DEF Start
    <3>2. UNCHANGED <<storage, file, vault, expected>>
      BY <1>0, <2>1 DEF Start, CalmIf
    <3>. HIDE DEF call
    <3>. QED BY <1>0, <1>2, <3>1, <3>2, CalmCall
  <2>3. job' = [job EXCEPT ![t] = call]
    BY <2>1 DEF Start
  <2>4. OnItsWay(t)'
    <3>1. same \cup rest = expected /\ same \cap rest = {}
      BY <1>3 DEF SameIdentity
    <3>2. /\ ~call.appends /\ call.kept = rest
          /\ call.todo = Removal(same, rest)
      OBVIOUS
    <3>. HIDE DEF call, same, rest
    <3>. QED BY <2>2, <3>1, <3>2, RemovalBegins
  <2>5. Purposeful(t)'
    <3>1. Others(Rivals(owner))' = Others(Rivals(owner))
      BY <2>2 DEF Others
    <3>2. call.kind = "add" /\ call.kept = rest /\ ~call.appends /\ call.owner = owner
      OBVIOUS
    <3>. HIDE DEF call
    <3>. QED BY <1>4, <2>2, <3>1, <3>2 DEF Purposeful, Others
  <2>. QED BY <2>2, <2>3, <2>4, <2>5, OneIsOnItsWay
<1>6. CASE same = {}
  <2>. DEFINE call == Call(TRUE, entries, Addition(new, entries))
  <2>1. Start(t, "add", owner, TRUE, entries, Addition(new, entries))
    BY <1>1, <1>6
  <2>2. /\ \A u \in Tasks : Active(u) => u = t
        /\ job'[t] = call
        /\ loaded' = {ProcessOf[t]}
        /\ memory'[ProcessOf[t]] = expected
        /\ UNCHANGED <<storage, file, vault, expected>>
        /\ AtRest
    <3>1. job' = [job EXCEPT ![t] = call]
      BY <2>1 DEF Start
    <3>2. UNCHANGED <<storage, file, vault, expected>>
      BY <1>0, <2>1 DEF Start, CalmIf
    <3>. HIDE DEF call
    <3>. QED BY <1>0, <1>2, <3>1, <3>2, CalmCall
  <2>3. job' = [job EXCEPT ![t] = call]
    BY <2>1 DEF Start
  <2>4. OnItsWay(t)'
    <3>1. /\ call.appends /\ call.owner = owner
          /\ call.todo = Addition(new, entries)
      OBVIOUS
    <3>2. storage = "vault" => vault = CredentialsOf(expected)
      BY <2>2 DEF AtRest
    <3>. HIDE DEF call
    <3>. QED BY <1>3, <2>2, <3>1, <3>2, AdditionBegins
  <2>5. Purposeful(t)'
    <3>1. call.kind = "add" /\ call.appends /\ call.owner = owner
      OBVIOUS
    <3>2. expected = Others(Rivals(owner))
      BY <1>3, <1>4, <1>6
    <3>. HIDE DEF call
    <3>. QED BY <2>2, <3>1, <3>2 DEF Purposeful, Others
  <2>. QED BY <2>2, <2>3, <2>4, <2>5, OneIsOnItsWay
<1>. QED BY <1>5, <1>6

LEMMA CalmRemove ==
  ASSUME TypeOK, BlocksAreFilled, CalmInv, calm, calm',
         NEW t \in Tasks, NEW owner \in Owners, Remove(t, owner)
  PROVE  CalmInv'
<1>. DEFINE entries == Loaded(ProcessOf[t])
            rest == {e \in entries : e.owner # owner}
            removed == entries \ rest
            call == [stage |-> "saving", kind |-> "remove", owner |-> owner,
                     appends |-> FALSE, kept |-> rest, todo |-> Removal(removed, rest)]
<1>1. /\ loaded' = loaded \cup {ProcessOf[t]}
      /\ memory' = [memory EXCEPT ![ProcessOf[t]] = Loaded(ProcessOf[t])]
      /\ UNCHANGED <<storage, file, vault>>
      /\ job' = [job EXCEPT ![t] = call]
      /\ Undisturbed(t) /\ expected' = expected
  BY DEF Remove, Start, CalmIf
<1>2. entries = expected
  BY <1>1, CalmStart
<1>3. /\ \A u \in Tasks : Active(u) => u = t
      /\ job'[t] = call
      /\ loaded' = {ProcessOf[t]}
      /\ AtRest
  <2>. HIDE DEF call
  <2>. QED BY <1>1, CalmCall
<1>4. /\ ~call.appends /\ call.kept = rest /\ call.kind = "remove"
      /\ call.owner = owner /\ call.stage = "saving"
      /\ call.todo = Removal(removed, rest)
  OBVIOUS
<1>5. removed \cup rest = expected /\ removed \cap rest = {}
  BY <1>2
<1>6. rest = Others({owner})'
  BY <1>1, <1>2 DEF Others
<1>. HIDE DEF call, removed, rest
<1>7. OnItsWay(t)'
  BY <1>1, <1>3, <1>4, <1>5, RemovalBegins
<1>8. Purposeful(t)'
  BY <1>3, <1>4, <1>6 DEF Purposeful, Others
<1>. QED BY <1>1, <1>3, <1>4, <1>7, <1>8, OneIsOnItsWay

LEMMA CalmClear ==
  ASSUME TypeOK, BlocksAreFilled, CalmInv, calm, calm', NEW t \in Tasks, Clear(t)
  PROVE  CalmInv'
<1>. DEFINE call == [NoCall("saving") EXCEPT !.todo = Removal(Stored, {})]
<1>1. /\ ProcessOf[t] \notin loaded
      /\ job' = [u \in Tasks |-> IF u # t THEN WithFileDeleted(job[u]) ELSE call]
      /\ UNCHANGED <<storage, vault, loaded, memory>>
      /\ Undisturbed(t)
  BY DEF Clear, CalmIf
<1>2. /\ \A u \in Tasks : ~Active(u)
      /\ AtRest
      /\ loaded = {}
      /\ Stored = expected
  BY <1>1, CalmStart
<1>3. /\ ~call.appends /\ call.kept = {} /\ call.kind = "clear"
      /\ call.stage = "saving" /\ call.todo = Removal(Stored, {})
  BY DEF NoCall
<1>. HIDE DEF call
<1>4. job'[t] = call
  BY <1>1
<1>5. \A u \in Tasks : u # t => ~Active(u)'
  <2>. TAKE u \in Tasks
  <2>. HAVE u # t
  <2>1. job'[u] = WithFileDeleted(job[u]) /\ job[u] \in Jobs
    BY <1>1 DEF TypeOK
  <2>2. job'[u].stage = job[u].stage
    BY <2>1 DEF WithFileDeleted, Jobs
  <2>. QED BY <1>2, <2>2 DEF Active
<1>6. OnItsWay(t)'
  <2>1. Stored \cup {} = expected /\ Stored \cap {} = {}
    BY <1>2
  <2>. QED BY <1>1, <1>2, <1>3, <1>4, <2>1, RemovalBegins
<1>7. Purposeful(t)'
  BY <1>1, <1>2, <1>3, <1>4 DEF Purposeful
<1>8. Active(t)'
  BY <1>3, <1>4 DEF Active
<1>. QED BY <1>1, <1>2, <1>5, <1>6, <1>7, <1>8 DEF CalmInv

\* The storage goes on with the call that is out: only what is still to be
\* done for it changes.
LEMMA CalmGoesOn ==
  ASSUME TypeOK, CalmInv, calm, NEW t \in Tasks, Active(t),
         NEW todo, job' = [job EXCEPT ![t].todo = todo],
         UNCHANGED <<storage, loaded, memory, expected>>,
         OnItsWay(t)'
  PROVE  CalmInv'
<1>. DEFINE call == [job[t] EXCEPT !.todo = todo]
<1>1. /\ \A u \in Tasks : Active(u) => u = t
      /\ Purposeful(t)
      /\ \A p, q \in loaded : p = q
  BY DEF CalmInv
<1>2. /\ call.stage = job[t].stage /\ call.kind = job[t].kind
      /\ call.owner = job[t].owner /\ call.appends = job[t].appends
      /\ call.kept = job[t].kept
  BY DEF TypeOK, Jobs
<1>3. job' = [job EXCEPT ![t] = call]
  BY DEF TypeOK, Jobs
<1>. HIDE DEF call
<1>4. job'[t] = call
  BY <1>3 DEF TypeOK
<1>6. Purposeful(t)'
  BY <1>1, <1>2, <1>4 DEF Purposeful, Others
<1>7. call.stage = "saving"
  BY <1>2 DEF Active
<1>8. loaded' \in SUBSET {ProcessOf[t]}
  <2>1. job[t].kind \in {"clear", "remove", "add"}
    BY DEF TypeOK, Jobs
  <2>. QED BY <1>1, <2>1 DEF Purposeful
<1>. QED BY <1>1, <1>3, <1>6, <1>7, <1>8, OneIsOnItsWay

LEMMA TodoChanges ==
  ASSUME TypeOK, NEW t \in Tasks, NEW todo, job' = [job EXCEPT ![t].todo = todo],
         UNCHANGED memory
  PROVE  /\ job'[t].todo = todo
         /\ job'[t].owner = job[t].owner /\ job'[t].kept = job[t].kept
         /\ job'[t].appends = job[t].appends
         /\ Aim(t)' = Aim(t)
<1>1. /\ job'[t].todo = todo
      /\ job'[t].owner = job[t].owner /\ job'[t].kept = job[t].kept
      /\ job'[t].appends = job[t].appends
  BY DEF TypeOK, Jobs
<1>. QED BY <1>1 DEF Aim

LEMMA CalmOperateOnFile ==
  ASSUME TypeOK, CalmInv, calm, NEW t \in Tasks, OperateOnFile(t)
  PROVE  CalmInv'
<1>. DEFINE todo == job[t].todo
            o == Head(todo)
<1>1. /\ Active(t) /\ todo # <<>>
      /\ \/ o.op = "open" /\ file' = [state |-> "empty", entries |-> {}]
         \/ o.op = "write" /\ file' \in Overwritten(o.entries)
      /\ job' = [job EXCEPT ![t].todo = Tail(todo)]
      /\ UNCHANGED <<storage, vault, loaded, memory, expected>>
  BY DEF OperateOnFile, TypeOK, Jobs
<1>2. OnItsWay(t)
  BY <1>1 DEF CalmInv
<1>3. /\ job'[t].todo = Tail(todo)
      /\ Aim(t)' = Aim(t)
  BY <1>1, TodoChanges
<1>4. CASE storage = "vault"
  <2>1. o.op \in {"remove", "set"}
    <3>1. CASE job[t].appends
      <4>. DEFINE n == NumBlocks(job[t].owner)
                  new == New(t, job[t].owner)
      <4>1. PICK set \in 0 .. n :
              todo = [k \in 1 .. n - set |-> Op("set", {new}, set + k - 1)]
        BY <1>2, <1>4, <3>1 DEF OnItsWay, AdditionOnItsWay
      <4>2. job[t].owner \in Owners
        BY DEF TypeOK, Jobs
      <4>3. n \in Nat
        BY <4>2, NumBlocksIsNatural
      <4>. HIDE DEF n
      <4>4. 1 \in 1 .. n - set
        BY <1>1, <4>1, <4>3
      <4>5. todo[1] = Op("set", {new}, set + 1 - 1)
        BY <4>1, <4>4
      <4>. QED BY <4>5 DEF Op
    <3>2. CASE ~job[t].appends
      <4>1. PICK removed : todo = <<Op("remove", removed, 0)>>
        BY <1>1, <1>2, <1>4, <3>2 DEF OnItsWay, RemovalOnItsWay
      <4>. QED BY <4>1 DEF Op
    <3>. QED BY <3>1, <3>2
  <2>. QED BY <1>1, <2>1
<1>5. CASE storage = "file"
  <2>1. FileOnItsWay(t)
    BY <1>2, <1>5 DEF OnItsWay
  <2>2. CASE todo = Save(Aim(t))
    <3>1. o = Op("open", {}, 0) /\ Tail(todo) = <<Op("write", Aim(t), 0)>>
      BY <2>2 DEF Save
    <3>2. file'.state = "empty"
      <4>1. o.op = "open"
        BY <3>1 DEF Op
      <4>. QED BY <1>1, <4>1
    <3>3. FileOnItsWay(t)'
      BY <1>3, <3>1, <3>2, Zenon DEF FileOnItsWay, Op
    <3>. QED BY <1>1, <1>5, <3>3, CalmGoesOn DEF OnItsWay
  <2>3. CASE todo = <<Op("write", Aim(t), 0)>> /\ file.state = "empty"
    <3>1. o.op = "write" /\ o.entries = Aim(t) /\ Tail(todo) = <<>>
      BY <2>3 DEF Op
    <3>2. file' = [state |-> "whole", entries |-> Aim(t)]
      BY <1>1, <2>3, <3>1 DEF Overwritten
    <3>3. FileOnItsWay(t)'
      BY <1>3, <3>1, <3>2, Zenon DEF FileOnItsWay
    <3>. QED BY <1>1, <1>5, <3>3, CalmGoesOn DEF OnItsWay
  <2>. QED BY <1>1, <2>1, <2>2, <2>3 DEF FileOnItsWay
<1>6. storage \in {"file", "vault"}
  BY StoragesAssumption DEF TypeOK
<1>. QED BY <1>4, <1>5, <1>6

\* In calm nothing but what a removal or an addition consists of is done to the
\* vault, and a block or an entry is done with when it is done.
LEMMA CalmSetBlock ==
  ASSUME TypeOK, CalmInv, calm, NEW t \in Tasks, SetBlock(t)
  PROVE  CalmInv'
<1>. DEFINE todo == job[t].todo
            o == Head(todo)
            n == NumBlocks(job[t].owner)
            new == New(t, job[t].owner)
            mine == CredentialsOf(memory[ProcessOf[t]])
<1>1. /\ Active(t) /\ todo # <<>> /\ o.op = "set"
      /\ vault' = vault \cup (o.entries \X {o.block})
      /\ job' = [job EXCEPT ![t].todo = Tail(todo)]
      /\ UNCHANGED <<storage, file, loaded, memory, expected>>
  BY DEF SetBlock, TypeOK, Jobs
<1>2. OnItsWay(t)
  BY <1>1 DEF CalmInv
<1>3. storage = "vault"
  <2>1. FileOnItsWay(t) => o.op \in {"open", "write"}
    BY <1>1 DEF FileOnItsWay, Save, Op
  <2>. QED BY <1>1, <1>2, <2>1, StoragesAssumption DEF OnItsWay, TypeOK
<1>4. job[t].appends
  <2>1. ASSUME RemovalOnItsWay(t) PROVE o.op = "remove"
    <3>1. PICK removed : todo = <<Op("remove", removed, 0)>>
      BY <1>1, <2>1 DEF RemovalOnItsWay
    <3>. QED BY <3>1 DEF Op
  <2>. QED BY <1>1, <1>2, <1>3, <2>1 DEF OnItsWay
<1>5. PICK set \in 0 .. n :
        /\ todo = [k \in 1 .. n - set |-> Op("set", {new}, set + k - 1)]
        /\ vault = mine \cup ({new} \X (0 .. set - 1))
  BY <1>2, <1>3, <1>4 DEF OnItsWay, AdditionOnItsWay
<1>6. n \in Nat
  BY NumBlocksIsNatural DEF TypeOK, Jobs
<1>7. /\ job'[t].todo = Tail(todo) /\ job'[t].owner = job[t].owner
      /\ job'[t].appends
  BY <1>1, <1>4, TodoChanges
<1>. HIDE DEF n, mine
<1>8. set + 1 \in 0 .. n
  BY <1>1, <1>5, <1>6
<1>9. o.entries = {new} /\ o.block = set
  <2>1. 1 \in 1 .. n - set
    BY <1>6, <1>8
  <2>2. o = Op("set", {new}, set + 1 - 1)
    BY <1>5, <2>1
  <2>3. set + 1 - 1 = set
    BY <1>8
  <2>. QED BY <2>2, <2>3 DEF Op
<1>10. Tail(todo) = [k \in 1 .. n - (set + 1) |-> Op("set", {new}, (set + 1) + k - 1)]
  <2>1. todo \in Seq(Operations) /\ Len(todo) = n - set
    <3>1. todo \in Seq(Operations)
      BY DEF TypeOK, Jobs
    <3>2. Len(todo) \in Nat /\ DOMAIN todo = 1 .. Len(todo)
      BY <3>1
    <3>3. DOMAIN todo = 1 .. n - set
      BY <1>5
    <3>4. n - set \in 1 .. Len(todo) /\ Len(todo) \in 1 .. n - set
      BY <1>1, <1>6, <1>8, <3>1, <3>2, <3>3
    <3>. QED BY <3>1, <3>4
  <2>2. \A k \in 1 .. n - (set + 1) : Tail(todo)[k] = todo[k + 1]
    BY <1>6, <1>8, <2>1
  <2>3. \A k \in 1 .. n - (set + 1) :
          k + 1 \in 1 .. n - set /\ set + (k + 1) - 1 = (set + 1) + k - 1
    BY <1>6, <1>8
  <2>4. \A k \in 1 .. n - (set + 1) :
          Tail(todo)[k] = Op("set", {new}, (set + 1) + k - 1)
    BY <1>5, <2>2, <2>3
  <2>5. Tail(todo) = [k \in 1 .. n - (set + 1) |-> Tail(todo)[k]]
    BY <1>6, <1>8, <2>1
  <2>. QED BY <2>4, <2>5
<1>11. vault' = mine \cup ({new} \X (0 .. (set + 1) - 1))
  <2>1. 0 .. (set + 1) - 1 = (0 .. set - 1) \cup {set}
    BY <1>8, <1>6
  <2>. QED BY <1>1, <1>5, <1>9, <2>1
<1>12. vault' = CredentialsOf(memory'[ProcessOf[t]])
                   \cup ({new} \X (0 .. (set + 1) - 1))
  BY <1>1, <1>11 DEF mine
<1>13. AdditionOnItsWay(t)'
  <2>1. /\ set + 1 \in 0 .. NumBlocks(job'[t].owner)
        /\ job'[t].todo = [k \in 1 .. NumBlocks(job'[t].owner) - (set + 1) |->
                            Op("set", {New(t, job'[t].owner)}, (set + 1) + k - 1)]
        /\ vault' = CredentialsOf(memory'[ProcessOf[t]])
                      \cup ({New(t, job'[t].owner)} \X (0 .. (set + 1) - 1))
    BY <1>7, <1>8, <1>10, <1>12 DEF n
  <2>. QED BY <2>1, Zenon DEF AdditionOnItsWay
<1>. QED BY <1>1, <1>3, <1>7, <1>13, CalmGoesOn DEF OnItsWay

LEMMA CalmRemoveEntry ==
  ASSUME TypeOK, CalmInv, calm, calm', NEW t \in Tasks, RemoveEntry(t)
  PROVE  CalmInv'
<1>. DEFINE todo == job[t].todo
            o == Head(todo)
            kept == job[t].kept
<1>1. PICK e \in o.entries :
        LET its == {c \in vault : c[1] = e}
            rest == o.entries \ {e}
        IN /\ vault' = vault \ its
           /\ job' = IF its = {} THEN [job EXCEPT ![t] = NoCall("over")]
                     ELSE IF rest = {} THEN [job EXCEPT ![t].todo = Tail(@)]
                     ELSE [job EXCEPT ![t].todo = <<Op("remove", rest, 0)>> \o Tail(@)]
           /\ CalmIf(its # {})
  BY DEF RemoveEntry
<1>. DEFINE rest == o.entries \ {e}
            left == IF rest = {} THEN Tail(todo)
                    ELSE <<Op("remove", rest, 0)>> \o Tail(todo)
<1>2. /\ Active(t) /\ todo # <<>> /\ o.op = "remove"
      /\ UNCHANGED <<storage, file, loaded, memory>>
  BY DEF RemoveEntry
<1>3. /\ vault' = vault \ {c \in vault : c[1] = e}
      /\ job' = [job EXCEPT ![t].todo = left]
      /\ expected' = expected
  BY <1>1 DEF CalmIf, TypeOK, Jobs
<1>4. OnItsWay(t)
  BY <1>2 DEF CalmInv
<1>5. storage = "vault"
  <2>1. FileOnItsWay(t) => o.op \in {"open", "write"}
    BY <1>2 DEF FileOnItsWay, Save, Op
  <2>. QED BY <1>2, <1>4, <2>1, StoragesAssumption DEF OnItsWay, TypeOK
<1>6. ~job[t].appends
  <2>. SUFFICES ASSUME job[t].appends PROVE o.op = "set"
    BY <1>2
  <2>. DEFINE n == NumBlocks(job[t].owner)
              new == New(t, job[t].owner)
  <2>1. PICK set \in 0 .. n :
          todo = [k \in 1 .. n - set |-> Op("set", {new}, set + k - 1)]
    BY <1>4, <1>5 DEF OnItsWay, AdditionOnItsWay
  <2>2. n \in Nat
    BY NumBlocksIsNatural DEF TypeOK, Jobs
  <2>. HIDE DEF n
  <2>3. 1 \in 1 .. n - set
    BY <1>2, <2>1, <2>2
  <2>4. todo[1] = Op("set", {new}, set + 1 - 1)
    BY <2>1, <2>3
  <2>. QED BY <2>4 DEF Op
<1>7. PICK removed \in (SUBSET Entries) \ {{}} :
        /\ todo = <<Op("remove", removed, 0)>>
        /\ removed \cap kept = {}
        /\ vault = CredentialsOf(kept \cup removed)
  BY <1>2, <1>4, <1>5, <1>6 DEF OnItsWay, RemovalOnItsWay
<1>8. o.entries = removed /\ Tail(todo) = <<>>
  BY <1>7 DEF Op
<1>9. vault' = CredentialsOf(kept \cup rest)
  <2>1. vault' = CredentialsOf((kept \cup removed) \ {e})
    BY <1>3, <1>7, CredentialsWithout
  <2>2. (kept \cup removed) \ {e} = kept \cup rest
    BY <1>1, <1>7, <1>8
  <2>. QED BY <2>1, <2>2
<1>10. job'[t].todo = left /\ job'[t].kept = kept /\ ~job'[t].appends
  <2>. HIDE DEF left
  <2>. QED BY <1>2, <1>3, <1>6, TodoChanges
<1>11. RemovalOnItsWay(t)'
  <2>1. CASE rest = {}
    <3>1. job'[t].todo = <<>> /\ kept \cup rest = kept
      BY <1>8, <1>10, <2>1
    <3>. QED BY <1>9, <1>10, <3>1 DEF RemovalOnItsWay
  <2>2. CASE rest # {}
    <3>1. job'[t].todo = <<Op("remove", rest, 0)>>
      <4>1. \A x : <<x>> \o <<>> = <<x>>
        OBVIOUS
      <4>2. job'[t].todo = <<Op("remove", rest, 0)>> \o <<>>
        BY <1>8, <1>10, <2>2
      <4>. QED BY <4>1, <4>2
    <3>2. rest \in (SUBSET Entries) \ {{}} /\ rest \cap kept = {}
      BY <1>7, <1>8, <2>2
    <3>. QED BY <1>9, <1>10, <3>1, <3>2 DEF RemovalOnItsWay
  <2>. QED BY <2>1, <2>2
<1>. HIDE DEF left
<1>. QED BY <1>2, <1>3, <1>5, <1>10, <1>11, CalmGoesOn DEF OnItsWay

\* When nothing is left to be done the storage has what the call aimed at.
LEMMA Arrived ==
  ASSUME TypeOK, NEW t \in Tasks, OnItsWay(t), job[t].todo = <<>>
  PROVE  /\ storage = "file" => file.state = "whole" /\ file.entries = Aim(t)
         /\ storage = "vault" => vault = CredentialsOf(Aim(t))
<1>1. ASSUME storage = "file"
      PROVE  file.state = "whole" /\ file.entries = Aim(t)
  <2>1. FileOnItsWay(t)
    BY <1>1 DEF OnItsWay
  <2>2. job[t].todo # Save(Aim(t)) /\ job[t].todo # <<Op("write", Aim(t), 0)>>
    BY DEF Save
  <2>3. file = [state |-> "whole", entries |-> Aim(t)]
    BY <2>1, <2>2 DEF FileOnItsWay
  <2>. QED BY <2>3
<1>2. ASSUME storage = "vault"
      PROVE  vault = CredentialsOf(Aim(t))
  <2>1. CASE ~job[t].appends
    <3>1. \A removed : job[t].todo # <<Op("remove", removed, 0)>>
      OBVIOUS
    <3>. QED BY <1>2, <2>1, <3>1 DEF OnItsWay, RemovalOnItsWay, Aim
  <2>2. CASE job[t].appends
    <3>. DEFINE n == NumBlocks(job[t].owner)
                new == New(t, job[t].owner)
                mine == memory[ProcessOf[t]]
    <3>1. PICK set \in 0 .. n :
            /\ job[t].todo = [k \in 1 .. n - set |-> Op("set", {new}, set + k - 1)]
            /\ vault = CredentialsOf(mine) \cup ({new} \X (0 .. set - 1))
      BY <1>2, <2>2 DEF OnItsWay, AdditionOnItsWay
    <3>2. n \in Nat
      BY NumBlocksIsNatural DEF TypeOK, Jobs
    <3>. HIDE DEF n
    <3>3. set = n
      <4>1. DOMAIN job[t].todo = {}
        OBVIOUS
      <4>2. DOMAIN job[t].todo = 1 .. n - set
        BY <3>1
      <4>. QED BY <3>1, <3>2, <4>1, <4>2
    <3>4. new.owner = job[t].owner
      BY DEF New
    <3>5. CredentialsOf(mine \cup {new})
            = CredentialsOf(mine) \cup ({new} \X (0 .. NumBlocks(new.owner) - 1))
      BY CredentialsWith
    <3>. QED BY <2>2, <3>1, <3>3, <3>4, <3>5 DEF Aim, n
  <2>. QED BY <2>1, <2>2
<1>. QED BY <1>1, <1>2

LEMMA CalmSaved ==
  ASSUME TypeOK, CalmInv, calm, NEW t \in Tasks, Saved(t)
  PROVE  CalmInv'
<1>. DEFINE p == ProcessOf[t]
            new == New(t, job[t].owner)
            kept == job[t].kept
<1>1. /\ Active(t) /\ job[t].todo = <<>>
      /\ UNCHANGED <<storage, file, vault, loaded, calm>>
  BY DEF Saved
<1>2. /\ OnItsWay(t) /\ Purposeful(t)
      /\ \A u \in Tasks : Active(u) => u = t
      /\ \A q, r \in loaded : q = r
  BY <1>1 DEF CalmInv
<1>3. /\ storage = "file" => file.state = "whole" /\ file.entries = Aim(t)
      /\ storage = "vault" => vault = CredentialsOf(Aim(t))
  BY <1>1, <1>2, Arrived
<1>4. p \in Processes /\ job[t] \in Jobs
  BY ProcessOfAssumption DEF TypeOK
<1>5. job[t].kind \in {"clear", "remove", "add"} /\ job[t].owner \in Owners
  BY <1>4 DEF Jobs
<1>6. CASE job[t].kind = "add" /\ ~job[t].appends
  <2>. DEFINE call == [job[t] EXCEPT !.appends = TRUE, !.todo = Addition(new, kept)]
  <2>1. job' = [job EXCEPT ![t] = call] /\ expected' = expected
    BY <1>6 DEF Saved, Kept, TypeOK
  <2>2. /\ call.stage = "saving" /\ call.kind = "add" /\ call.appends
        /\ call.owner = job[t].owner /\ call.todo = Addition(new, kept)
    BY <1>1, <1>4, <1>6 DEF Jobs, Active
  <2>3. memory'[p] = kept
    BY <1>4, <1>6 DEF Saved, Kept, TypeOK
  <2>4. kept = Others(Rivals(job[t].owner)) /\ loaded = {p}
    BY <1>2, <1>6 DEF Purposeful
  <2>. HIDE DEF call
  <2>5. job'[t] = call
    BY <2>1 DEF TypeOK
  <2>6. OnItsWay(t)'
    <3>1. storage = "vault" => vault' = CredentialsOf(memory'[p])
      BY <1>1, <1>3, <1>6, <2>3 DEF Aim
    <3>. QED BY <1>1, <1>5, <2>2, <2>3, <2>5, <3>1, AdditionBegins
  <2>7. Purposeful(t)'
    BY <1>1, <2>1, <2>2, <2>3, <2>4, <2>5 DEF Purposeful, Others
  <2>. QED BY <1>1, <1>2, <2>1, <2>2, <2>4, <2>6, <2>7, OneIsOnItsWay
<1>7. CASE ~(job[t].kind = "add" /\ ~job[t].appends)
  <2>1. job' = [job EXCEPT ![t] = NoCall("over")] /\ expected' = Result(t)
    BY <1>7 DEF Saved
  <2>2. \A u \in Tasks : ~Active(u)'
    <3>1. job'[t].stage = "over" /\ \A u \in Tasks : u # t => job'[u] = job[u]
      BY <2>1 DEF TypeOK, NoCall
    <3>. QED BY <1>2, <3>1 DEF Active
  <2>3. Aim(t) = Result(t) /\ \A q \in loaded : memory'[q] = Result(t)
    <3>1. CASE job[t].kind = "clear"
      BY <1>2, <3>1 DEF Purposeful, Aim, Result
    <3>2. CASE job[t].kind = "remove"
      <4>1. memory'[p] = kept
        BY <1>2, <1>4, <3>2 DEF Saved, Kept, TypeOK, Purposeful
      <4>2. kept = Others({job[t].owner}) /\ ~job[t].appends /\ loaded = {p}
        BY <1>2, <3>2 DEF Purposeful
      <4>3. Result(t) = kept
        BY <4>2, <3>2 DEF Result, Others
      <4>. QED BY <4>1, <4>2, <4>3 DEF Aim
    <3>3. CASE job[t].kind = "add"
      <4>1. memory'[p] = memory[p] \cup {new} /\ job[t].appends
        BY <1>4, <1>7, <3>3 DEF Saved, TypeOK
      <4>2. memory[p] = Others(Rivals(job[t].owner)) /\ loaded = {p}
        BY <1>2, <3>3, <4>1 DEF Purposeful
      <4>3. Result(t) = memory[p] \cup {new}
        BY <3>3, <4>2 DEF Result, Others
      <4>. QED BY <4>1, <4>2, <4>3 DEF Aim
    <3>. QED BY <1>5, <3>1, <3>2, <3>3
  <2>4. AtRest'
    <3>1. storage' = "file" => file'.state # "torn" /\ file'.entries = expected'
      BY <1>1, <1>3, <2>1, <2>3
    <3>2. storage' = "vault" => vault' = CredentialsOf(expected')
      BY <1>1, <1>3, <2>1, <2>3
    <3>. QED BY <1>1, <2>1, <2>3, <3>1, <3>2 DEF AtRest
  <2>. QED BY <1>1, <1>2, <2>2, <2>4, NoneIsOnItsWay
<1>. QED BY <1>6, <1>7

LEMMA CalmEnd ==
  ASSUME TypeOK, CalmInv, calm, calm', NEW p \in Processes, End(p)
  PROVE  CalmInv'
<1>1. /\ \A t \in Tasks : Active(t) => ProcessOf[t] # p
      /\ loaded' = loaded \ {p}
      /\ memory' = [memory EXCEPT ![p] = {}]
      /\ UNCHANGED <<storage, file, vault, expected>>
  BY DEF End, CalmIf
<1>2. \A t \in Tasks : job'[t] = job[t]
  BY <1>1 DEF End
<1>3. \A q \in Processes : q # p => memory'[q] = memory[q]
  BY <1>1 DEF TypeOK
<1>4. \A t \in Tasks : Active(t)' <=> Active(t)
  BY <1>2 DEF Active
<1>5. (\A t \in Tasks : ~Active(t)) => AtRest'
  <2>. SUFFICES ASSUME \A t \in Tasks : ~Active(t) PROVE AtRest'
    OBVIOUS
  <2>1. AtRest
    BY DEF CalmInv
  <2>2. \A q \in loaded' : memory'[q] = expected'
    BY <1>1, <1>3, <2>1 DEF AtRest, TypeOK
  <2>. QED BY <1>1, <2>1, <2>2 DEF AtRest
<1>6. ASSUME NEW t \in Tasks, Active(t)
      PROVE  OnItsWay(t)' /\ Purposeful(t)'
  <2>1. /\ memory'[ProcessOf[t]] = memory[ProcessOf[t]]
        /\ job'[t] = job[t]
    BY <1>1, <1>2, <1>3, <1>6, ProcessOfAssumption
  <2>2. OnItsWay(t) /\ Purposeful(t)
    BY <1>6 DEF CalmInv
  <2>3. Aim(t)' = Aim(t)
    BY <2>1 DEF Aim
  <2>4. OnItsWay(t)'
    BY <1>1, <2>1, <2>2, <2>3
       DEF OnItsWay, FileOnItsWay, RemovalOnItsWay, AdditionOnItsWay
  <2>5. Purposeful(t)'
    <3>1. loaded' = loaded
      <4>1. job[t].kind \in {"clear", "remove", "add"}
        BY DEF TypeOK, Jobs
      <4>2. p \notin loaded
        BY <1>1, <1>6, <2>2, <4>1 DEF Purposeful
      <4>. QED BY <1>1, <4>2
    <3>. QED BY <1>1, <2>1, <2>2, <3>1 DEF Purposeful, Others
  <2>. QED BY <2>4, <2>5
<1>7. /\ \A t, u \in Tasks : Active(t)' /\ Active(u)' => t = u
      /\ \A q, r \in loaded' : q = r
  BY <1>1, <1>4 DEF CalmInv
<1>. QED BY <1>4, <1>5, <1>6, <1>7 DEF CalmInv

LEMMA InitCalm == Init => CalmInv
<1>. SUFFICES ASSUME Init PROVE CalmInv
  OBVIOUS
<1>1. \A t \in Tasks : ~Active(t)
  BY DEF Init, Active, NoCall
<1>2. AtRest
  <2>1. storage = "file" => file.state # "torn" /\ file.entries = expected
    <3>1. storage = "file"
            => file = [state |-> IF expected = {} THEN "absent" ELSE "whole",
                       entries |-> expected]
      BY DEF Init
    <3>. QED BY <3>1
  <2>2. storage = "vault" => vault = CredentialsOf(expected)
    BY DEF Init
  <2>. QED BY <2>1, <2>2 DEF Init, AtRest
<1>. QED BY <1>1, <1>2 DEF Init, CalmInv

LEMMA NextCalm ==
  ASSUME BlocksAreFilled
  PROVE  TypeOK /\ CalmInv /\ [Next]_vars => CalmInv'
<1>. SUFFICES ASSUME TypeOK, CalmInv, [Next]_vars, calm' PROVE CalmInv'
  BY DEF CalmInv
\* What is not calm stays so.
<1>1. calm
  <2>1. calm \in BOOLEAN
    BY DEF TypeOK
  <2>. QED BY <2>1, Zenon
          DEF Next, Add, Remove, Start, LoadFails, Clear, OperateOnFile, SetBlock,
              RemoveEntry, OperationFails, Saved, End, Terminated, CalmIf, vars
<1>2. ASSUME NEW t \in Tasks, NEW owner \in Owners, Add(t, owner) \/ Remove(t, owner)
      PROVE  CalmInv'
  BY <1>1, <1>2, CalmAdd, CalmRemove
<1>3. ASSUME NEW t \in Tasks, LoadFails(t) \/ OperationFails(t)
      PROVE  CalmInv'
  BY <1>3 DEF LoadFails, OperationFails, CalmIf
<1>4. ASSUME NEW t \in Tasks, Clear(t)
      PROVE  CalmInv'
  BY <1>1, <1>4, CalmClear
<1>5. ASSUME NEW t \in Tasks, OperateOnFile(t) \/ SetBlock(t) \/ RemoveEntry(t)
      PROVE  CalmInv'
  BY <1>1, <1>5, CalmOperateOnFile, CalmSetBlock, CalmRemoveEntry
<1>6. ASSUME NEW t \in Tasks, Saved(t)
      PROVE  CalmInv'
  BY <1>1, <1>6, CalmSaved
<1>7. ASSUME NEW p \in Processes, End(p)
      PROVE  CalmInv'
  BY <1>1, <1>7, CalmEnd
<1>8. CASE UNCHANGED vars
  <2>1. UNCHANGED <<storage, file, vault, loaded, memory, job, ended, calm, expected>>
    BY <1>8 DEF vars
  <2>2. /\ AtRest' <=> AtRest
        /\ \A t \in Tasks : Active(t)' <=> Active(t)
    BY <2>1 DEF AtRest, Active
  <2>3. ASSUME NEW t \in Tasks
        PROVE  (OnItsWay(t)' <=> OnItsWay(t)) /\ (Purposeful(t)' <=> Purposeful(t))
    <3>1. Aim(t)' = Aim(t)
      BY <2>1 DEF Aim
    <3>2. OnItsWay(t)' <=> OnItsWay(t)
      BY <2>1, <3>1
         DEF OnItsWay, FileOnItsWay, RemovalOnItsWay, AdditionOnItsWay
    <3>3. Purposeful(t)' <=> Purposeful(t)
      BY <2>1 DEF Purposeful, Others
    <3>. QED BY <3>2, <3>3
  <2>. QED BY <2>1, <2>2, <2>3 DEF CalmInv
<1>. QED BY <1>2, <1>3, <1>4, <1>5, <1>6, <1>7, <1>8 DEF Next, Terminated

\* For any users, tasks and processes: as long as no two processes overlap and
\* nothing fails, add(), remove() and clear() make of the storage what they are
\* for, in the two calls of an addition, through the copy of the process, and
\* block by block, in the vault if no credential fills its blocks exactly.
THEOREM CallsAloneAreExact ==
  ASSUME BlocksAreFilled
  PROVE  Spec => []AloneIsExact
<1>1. TypeOK /\ CalmInv => AloneIsExact
  <2>. SUFFICES ASSUME TypeOK, CalmInv, calm, \A t \in Tasks : ~Active(t)
                PROVE  Readable /\ Stored = expected
    BY DEF AloneIsExact
  <2>1. AtRest
    BY DEF CalmInv
  <2>2. storage \in {"file", "vault"} /\ expected \in SUBSET Entries
    BY StoragesAssumption DEF TypeOK
  <2>3. CASE storage = "file"
    BY <2>1, <2>3 DEF AtRest, Readable, Stored
  <2>4. CASE storage = "vault"
    BY <2>1, <2>2, <2>4, StoredIsExact DEF AtRest, Readable
  <2>. QED BY <2>2, <2>3, <2>4
<1>2. Init => TypeOK /\ CalmInv
  BY InitTypeOK, InitCalm
<1>3. TypeOK /\ CalmInv /\ [Next]_vars => (TypeOK /\ CalmInv)'
  BY NextTypeOK, NextCalm
<1>. QED BY <1>1, <1>2, <1>3, PTL DEF Spec

===============================================================================
