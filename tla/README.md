# Azure CLI: models and proofs

The Azure cross-platform CLI is mostly a front end: a command parses its
options, sends one request and prints the answer. Four parts of it are more:

* The upload of virtual hard disks into page blobs
  (`lib/commands/asm/iaas/upload/`, used by `azure vm image create`, `vm disk
  upload` and their relatives). It keeps many requests out at a time, retries
  what fails, drops connections that fail too often, continues the upload of an
  earlier run that was killed, copies and cleans the base of a difference VHD in
  the cloud, and merges the streams of a chain of VHDs on the fly.
* The token cache (`lib/util/authentication/`), which all CLI processes of a user
  share without a lock.
* The virtual machines of a cloud service (`lib/commands/asm/vm/vmclient.js`):
  chains of requests that act on what was read before, and clean up after a
  failure.
* The deployments of a resource group (`lib/commands/arm/group/`): commands that
  wait for, look for, stop and delete what the service is carrying out.

The modules in this directory model these parts, TLC checks them on small
instances, and TLAPS proves what matters most of them for every instance.

Paths are relative to the repository's `src/`; `pageBlob.js` and its neighbours
are in `lib/commands/asm/iaas/upload/`.

## 1. The system

### 1.1 Components, their state and how they interact

| component | source | state it keeps | operations | talks to |
|---|---|---|---|---|
| upload of one blob | `pageBlob.js` 515-787 | threads, counters, what was reported | `next()`, `toNext()`, MD5, `exitWithError()` | tracker, aggregator, blob service |
| job tracker | `jobTracker.js` | next index, list of indices to retry, counters | `nextIndex`, `done`, `error`, `getErrorRate` | the upload |
| callback aggregator | `callbackAggregator.js` | registered and finished keys, error state | `getCallback`, the callbacks | upload, inquiry |
| inquiry | `blobInfo.js`, `pageBlob.js` 368-419 | three requests that are out | `getBlobInfo()`, `onGotBlobInfo()` | aggregator, blob service |
| clean-up of a base | `pageBlob.js` 421-512 | regions to clear, a counter of requests | `createDiffVHDPageBlob()`, `deleteRegion()` | blob service, integer set |
| incremental upload | `pageBlob.js` as a whole | only the blob survives a run | continue, create anew, upload, report | all of the above |
| integer set | `intSet.js` | sorted array of intervals | `subtractInterval()` | clean-up, upload |
| empty blocks | `pageBlob.js` 70-113 | one buffer, a bit array | `findNonZeroBlocks()` | upload of a fixed VHD |
| VHD chain and streams | `vhdTools.js` | block allocation tables, position of a stream | `getVHDInfo()`, `getReadStream()` | merger, upload |
| stream merger | `streamMerger.js` | two buffers, a bitmap | `onData`, `onEnd`, `onError` | VHD streams |
| image and disk creation | `image.js`, `uploadVMImage.js` | sequence of service calls | create, upload or copy, register | upload, copy |
| copy between accounts | `pageBlob.js` 115-240 | status of the copy | poll loop | blob service |
| token cache | `token-cache.js`, `file-token-storage.js`, `win-token-storage.js` | a copy of the entries in each process; one file, keychain or credential list per user | `find`, `add`, `remove`, `clear` | every process of the user, adal-node |
| profile and caches | `lib/util/profile/`, `cacheUtils.js` | JSON files | read, change, write | every command |
| classic virtual machines | `commands/asm/vm/vmclient.js` | what was read, and what was made and may have to be deleted | `createVM`, `deleteVM`, `createEP`, `deleteEP`, `setEP`, `setVM`, `diskAttachDetach` | the cloud service, image creation and deletion, other users |
| resource group deployments | `commands/arm/group/group.deployment._js`, `groupUtils._js` | the state that was read last, the lists that were read | `create` with its poll loop, `stop`, `delete` | resource service, other users |

Everything runs in one event loop: "threads" are chains of callbacks, and a step
of a model is what happens between two returns to the event loop. Two things are
really concurrent: the services, which serve requests in any order and may
apply a request whose answer is an error, and other processes, which share the
blob, the token storage or the cloud service.

### 1.2 What is hard

* *Interleaving of connections.* The thread that runs out of indices last
  declares the upload finished, by comparing counters that all threads change.
* *Errors in any number.* Every other error costs a thread, but not at the end,
  unless the error rate is high: is a block ever left without a thread, does the
  upload end when the service fails everything?
* *Crash and restart.* A run decides what need not be sent from what it finds in
  the blob. A half-cleaned copy of the base, a blob of another file, a failed
  request that was applied: all look alike.
* *Order of answers.* The inquiry, the clean-up and the pair upload/MD5 have
  several requests out and end with one callback.
* *Boundaries.* Parts of blocks, partial reads, sectors cut by chunks, intervals
  that split, chains with a fixed root.
* *Processes without a lock.* Two commands read the token file, each writes it in
  place with its own change, and either may be killed in between.
* *Answers that are out of date.* Whether a virtual machine is the last one, what it
  is to be called, what its role looks like: all is read, then acted on, with other
  users' commands and the user's own hesitation in between.
* *Lists that are read one after the other.* A deployment goes from the one to the other
  in between, or ends, or another takes its name.
* *Clean-up that may fail in turn.* What a failed creation has made is deleted in
  callbacks whose order depends on what failed.
* *An end that does not end.* `exitWithError()` is written as if it did not
  return. The commands give their callback for it, and when telemetry has to be
  sent first the process goes on for a while.

`PROJECT.json` lists these under "hazards", each at its line, with the properties
that would catch it going wrong, or with the reason why none does: some of them the code does
meet, and a property that allows for what it then does is not counted as covering them
(section 5).

### 1.3 What makes each component correct

* Upload: a success means that all blocks are there; an end is reported, once;
  nothing goes on after giving up; "already uploaded" means that nothing was sent.
* Tracker: an index is fresh, or requested, or waiting for a retry, or completed.
* Aggregator: the final function is called once, with an error or with everything.
* Inquiry: one answer, complete; a blob that is not there is no error.
* Clean-up: what is left of the base is what the difference does not have; the
  list of regions to skip is exact; an error keeps the upload from starting.
* Incremental upload: the footer in the blob vouches for all of it; what was
  uploaded is never lost; a success means right data and right MD5.
* Integer set: it is the set that the calls describe, in a well-formed array.
* Empty blocks: a block is skipped only if it is all zeroes or in the blob.
* Token cache: one entry for a user; a login is found by the next command, a logout
  leaves nothing, and nobody else's entry is touched.
* Cloud service: names and endpoints stay unique, a virtual machine goes only when it is
  deleted, a failed creation leaves nothing, and every command calls back.
* Deployments: a command that waits is right about the end, and comes to one; a stop that is
  given no name overlooks nothing.
* Streams: what is read is the content of the virtual disk, and what the upload
  requests of it is all its data, each part once.
* Merger: each sector comes from the stream its bit names, in order, at once, and
  an end means that everything was delivered.

## 2. The modules

| module | models | uses |
|---|---|---|
| `JobTracker` | `jobTracker.js` as operators on a record | |
| `CallbackAggregator` | `callbackAggregator.js` as operators on a record | |
| `PageBlobUpload` | the upload into a blob that exists | `JobTracker`, `CallbackAggregator`, `BlockTransfer` |
| `BlockTransfer` | abstract: what an upload promises to its caller | |
| `DiffVhdCleanup` | `createDiffVHDPageBlob()`, request by request | |
| `UploadSession` | runs, crashes and restarts for one VHD and one blob | |
| `BlobInfo` | the inquiry and the creation of blob and container | `CallbackAggregator` |
| `BlobPreparation` | the inquiry and what follows it up to the upload: a new blob, or the copy and clean-up of a base | `BlobInfo`, `DiffVhdCleanup` |
| `StreamMerger` | `streamMerger.js` | |
| `IntSet`, `IntegerSet` | `intSet.js` turn by turn; abstract: a set of integers | |
| `NonZeroBlocks` | `findNonZeroBlocks()` | |
| `SkippedBlocks` | which blocks an upload does not send, and why | `IntSet`, `NonZeroBlocks`, `IntegerSet` |
| `VhdChain`, `VhdReadStream` | chains of VHDs as data; one read of them | `VhdChain` |
| `TokenCache` | the token cache of several processes, over a file or a credential store | |
| `CloudService` | commands on the virtual machines of a cloud service | |
| `Deployments` | commands on the deployments of a resource group, and the service that carries them out | |
| `MC...` | values for the constants | |
| `..._proofs` | theorems and proofs | the module of that name; `VhdStreams_proofs` those of `StreamMerger` and `VhdReadStream` |

### 2.1 How they correspond to the code

**JobTracker.** A tracker is `[fullIndex, errorList, completed]`. `nextIndex()`
returns a value and changes the tracker; these are `NextIndex` and
`AfterNextIndex`, which includes the step back (`--fullIndex`) at the end of the
list. Printing percentages is left out; `getErrorRate()` is compared with 95 only
and becomes `ErrorRateAbove`.

**CallbackAggregator.** `registered` and `finished` are the keys of the two
objects. `isFinished()` compares their numbers; that is kept, because keys may
still be registered when others have finished. `Call` is a callback,
`CallsFinal` says whether it calls the final function.

**PageBlobUpload.** `state[t]` is what thread `t` waits for, `inFlight[t]` its
block. `StartThread` is a turn of the loop in `startThreads()`, during which no
other callback runs (`phase = "starting"`); `RunNext` is `next()` from
`setImmediate()`; `BlockWritten` and `BlockFailed` are `toNext()` without and
with an error, including the counting of errors, the dropping of a thread and
the giving up. `pages` belongs to the service: a request that fails may have been
applied. `Md5Calculated`, `Md5StreamFails` and `PropertiesSet` are the MD5 beside
it. The final function reads `finished.upload[1]`: when the MD5's error comes
before the upload has finished that throws, and the process dies; this is part of
`PropertiesSet`. `ReportError` ends the process at once or, with `telemetry`,
some time later (`cli.js` 228-276), which is the action `ProcessExits`.

**DiffVhdCleanup.** `deleteRegions`, `next` and `running` are the code's; `requests`
are the indices with a request out. `NextRegion` has `++next` before
`deleteRegion(next)`, as in lines 484-492. `uploadedRegions` is changed through the
set that shares its array. A connection that met an error is never counted off.

**UploadSession.** A coarser view of all of `pageBlob.js`: a region of the blob
holds nothing, the VHD's own data, the base's or somebody else's. Threads are not
modelled; regions are sent and cleared in any order, which `PageBlobUpload` and
`DiffVhdCleanup` justify. `StartRun` begins a run with any options, `Crash` kills
one anywhere. What the clean-up leaves out with too few connections (`LeftOut`) is
what `OneRegionLeftAtMost` allows. `exitWithError()` may return (`Survives`), and the code
behind it runs: after an error of the inquiry, after the comparison of the footers, after
that of the MD5 stream, and after a base was given for a VHD that is no difference VHD
(`WrongBase`), which is then copied all the same; for a fixed VHD, which has no block
allocation table, the callback of that copy throws.

**BlobInfo.** The three requests have a state each: out, served, answered. The
container may be created before or after the others are served, and another client
may delete the blob in between. Whether a blob is continued or replaced is left to
`UploadSession`, here both happen.

**BlobPreparation.** `BlobInfo` and `DiffVhdCleanup` in one process. The callback of the inquiry
sends `createPageBlob()` or `startCopyBlob()`; its error goes to `exitWithError()`, which may end
the process. The answers of the inquiry that are still out when it has called back arrive during
the clean-up, in any order with its own, and the aggregator must let them pass. A copy needs the
container that the inquiry has made. The blob of the clean-up is what the copy has left. That a
base was given for a VHD that is no difference VHD, an error before any request, is left to
`UploadSession`.

**StreamMerger.** Positions stand for data: `out` is a sequence of (stream,
position) pairs. `Data` is `onData()` with the `processBuffers()` that it calls,
`SourceEnds` and `SourceFails` are `onEnd()` and `onError()`.

**IntSet.** `Turn` is one turn of the loop in `subtractInterval()`, downwards, with
the `splice()` that it may do. The array is seen as the set it denotes less the
interval that is being taken out; so seen, the call happens at its start, and its
turns change nothing.

**NonZeroBlocks.** `BytesRead` is `readCallback()` for any number of bytes up to what
was asked for. The buffer keeps what was read before.

**SkippedBlocks.** The composition of the two with `uploadAtIndex()`. For a difference VHD
the blob's list of regions is changed by `regionsSet.subtractInterval()`, in place, before
(`RegionCleared`); for a fixed VHD the file is scanned (`Detect`). Then one index is chosen:
the block is empty, or a set is made for it from which all uploaded regions are taken
(`NextRange`), each in as many steps as the loop has turns. The variables of `IntSet` and
`NonZeroBlocks` are those of the composition.

**VhdChain and VhdReadStream.** A sector's data is the level of the chain that it
was written at. `Emits` follows `getReadStream()` through the levels: own block and
bitmap, or the parent's stream. `VhdReadStream` is one stream of the file to upload,
for one index of the upload or for the MD5: `NextStream` looks for the next block
that has data, `Chunk` is a chunk of any size with the zeroes before it, `LastFill`
the end with the footer. `PosOut`, `MaxIndex` and `UploadSize` are the upload's plan
in `pageBlob.js` 287-345 and 734-742.

**TokenCache.** `memory[p]` is `_entries` of a process, read at its first call
(`_loadEntries()`) and never again. A call of `add()`, `remove()` or `clear()` is a sequence
of operations of the storage in `todo`: the opening of the file, which empties it, and the
write of its content; or, in the credential store, one `set` for each block and one removal
for each entry. `add()` has two such calls, with `Saved` between them. `OperationFails` is an
error of one operation, `End` the end of a process, by itself or by a signal, in any place.
`Overwritten` says what a write leaves in a file that others have written since it was
opened: what the last one wrote, or a file that cannot be parsed (`torn`). `NumBlocks` and
`Complete` are the splitting and joining of `win-token-storage.js`, with its count of blocks
as it is. An entry is an owner and the call that wrote it; tokens are not looked into.
`calm` and `expected` are there for `AloneIsExact` only.

**CloudService.** `vms` are the roles of the deployment of one cloud service, `service` who
made it, `images` the copies of community images. `job[c]` is a command with what it was
answered: the list of roles (`seen`), the role that it will write back, what it has made
(`hostedServiceCreated`, `communityImgInfo.created`). One action is one request, *served* or
refused, *failed*, or applied with the answer *lost*, together with all that the callback does
until the next request: `Hook` is `cmdCallbackHook()`, with the two orders of clean-up.
A creation goes on with a deployment that is there only if `--connect` was given and no other virtual
network than the deployment's, which are one choice (`connect`). `Applicable` are the checks of an endpoint's
name, and of its port and protocol, which another endpoint may have (`portTaken`, a choice: ports
have no numbers here). `ChangeSpace` are the changes considered.
`Confirm` is the question to the user. `setVM()` writes the role that it found in the list of
deployments, the endpoint commands one that they ask for again (`ReadRole`); both write
the whole role (`UpdateRole`). Disks are changed by unit number on the service's side.

**Deployments.** `deployments[n]` is what the service has under the name `n`: its state, and,
for the properties only, the command that has begun it. `job[c]` is a command: what it waits for
in `at`, the state that it got last in `seen`, the list that it reads in `filter`, `after` and
`found`. One action is one request with what follows until the next, *served*, *failed*, or
applied with the answer *lost*. `GetDeployment` and `ListOperations` are one turn of the poll loop (lines 86-101), `Explain` the
requests for the failed operations after it; `group create` with a template is a deploy that does not
wait. `Find` is one request of `retrieveDeployments()`: the service chooses where a page ends,
and sees the deployments as they are then. `Decide` takes the two lists together by their
lengths, as lines 237-254 do. `Progress` is the service's own work. `steady`, `crowded` and `shifted` record,
for the properties, what was active all the while that a stop was looking, whether two were active at
a time, and whether one started to run.

### 2.2 Assumptions about what surrounds the code

* The service answers every request, well or badly. A badly answered request may
  have been applied. After a process was killed none of its requests is applied late.
* The base's blob is that of the immediate parent of the difference VHD, and a copy
  is complete when `startCopyBlob()` is answered, as within one storage account.
* All VHDs of a chain have the same disk and block size, the disk is made of whole
  blocks, and the sectors that a bitmap does not mark hold zeroes.
* Files do not change while they are read.
* Indices that reach behind the disk, which a chain with a fixed root can have, are
  not read in `VhdReadStream`: `createNextStream()` throws for them.
* One run at a time (`UploadSession`).
* A process has one call of the token cache out at a time (`Parallel = FALSE`), the storage is
  the same for all of them, and a service principal's entry is one that `add()` wrote.
* The service does what it documents: it refuses a second deployment in the slot, a name or a
  unit number that is taken, the deletion of the last role of a deployment, and that of a
  cloud service with a deployment.

* The service lists deployments by name, cuts the list into pages where it likes, and filters
  each page by the states at the time; it may or may not replace or delete a deployment that is active.

## 3. The runs

Each passing run asks one question; its bounds are the smallest at which everything
that the code can do happens. TLC explores the whole of each of these instances.

* **`upload`** (598,032 states). Two connections, four blocks (the footer one of
  them), every combination of dynamic/fixed, MD5/none, telemetry/none, and every set
  of blocks that need not be sent. Four blocks for two threads leave room for
  retries that overtake fresh indices, a thread that goes idle while the other has
  errors, one that is dropped while the other goes on, and the 20 errors after which
  the error rate ends the upload. No bound on errors is needed: the code limits
  them. Invariants: `SuccessMeansUploaded`, `EveryIndexAccountedFor`,
  `GivenUpIsQuiet`, `GivenUpAfterManyErrors`, `AlreadyExistedIsAccurate`,
  `CalledBackOnce`. `ImplementsTransfer`: with what it writes and reports first, an
  upload is a `BlockTransfer`, liveness included.
* **`preparation`** (3,302,284 states). All options and all initial states of container and blob;
  no base, or a base of four blocks that is cleared over two connections, for every allocation
  table: fewer regions than connections, as many, more by one and by three. Four blocks are the
  fewest with which a connection has a third region to clear while the other one fails.
  `InfoIsComplete` (one answer, with everything in it), `ForcedCreationFindsContainer`,
  `OneRegionLeftAtMost`, `UploadedRegionsAreExact`, `NotReadyAfterFailure`, and
  `PreparationEnds`: from the first request the process comes to the upload, to an error, or to
  a copy that failed.
* **`session`** (66,593 states; symmetric in the data regions). Three data regions and a
  footer, VHDs of all kinds with every base, a blob of another file or none at first, any
  number of runs with and without `-f` and `-m`, killed anywhere. `FooterVouches`,
  `SuccessMeansRightContent`, `SuccessMeansRightMd5`, `SuccessMeansNothingMissing`,
  `NothingIsLost`. Processes that go on after their first error are among them where the
  properties hold with them (with `-f`, without an MD5 of the base, and with a base for difference
VHDs only); fixed VHDs, whose footer
  is not compared, are uploaded with `-f`; and there are as many connections as regions (the
  default is 96 or more). Section 5 says what happens otherwise.
* **`streams`** (704,216 states). `StreamMerger` and `VhdReadStream` share no state, so one run
  interleaves their steps; what it says of either is what that one does alone. To keep their
  states from being multiplied, either there is nothing to read or the merger has ended.
  *Merging*: sectors of two units, streams of up to five units that may differ in
  length, a read from inside the block, every bitmap and every way to cut the streams.
  Odd lengths leave a part of a sector. `OutputIsMerge`, `NothingHeldBack`,
  `EndMeansComplete`, `NothingAfterTheEnd`, `MergeEnds`. *Reading*: chains of three VHDs, so that
  a block may be in the grandparent only, two blocks of two sectors, two uploads for each block,
  dynamic and fixed roots. `OutputIsContent` (what is read, and at the end all of it) and, for the
  plan, `AllDataIsSent`, each part once.
* **`skip`** (1,291,936 states). All interval arrays over 0..5, any regions taken from them,
  one after the other: inside, across, around and beside the intervals, several at a time;
  all files of up to five bytes in blocks of four, read in all possible pieces, and blocks of
  the upload of two sizes. `WellFormed`, `ImplementsIntegerSet` (the array refines a set of
  integers, through every turn of the loop), `SkippedRightly`.
* **`tokens`** (1,175,271 states). Two processes with three calls, two users and two service
  principals, tokens of one block and of two, the file and the credential store. Two calls of
  one process are needed for a copy that is out of date, a second process for it to be so.
  `NoDuplicates`, `AloneIsExact`, `VaultKeepsOthers`.
* **`service`** (454,764 states). Three commands: one that creates, one that deletes or changes
  endpoints, one of any kind, on a cloud service that is not there, is empty or has one VM.
  Three are needed for a VM that is added between another's look at the list and its deletion,
  with a third that cleans up. `AloneIsExact`, `VmsGoByDeletion`, `NothingTemporaryLeft`,
  `UniqueEndpoints`, `EveryCommandEnds`.
* **`deployments`** (399,542 states). One command that deploys, one that deploys or stops, one
  that deletes, over two names, each of which may be taken at first. Two names are needed for a
  choice and for a list of two pages, the first command for a deployment that appears or is
  replaced while the second waits or looks, the third for one that goes. Requests fail at any place.
  `StopMissesNothing`, `WaitsToTheEnd`, `EveryCommandEnds`.

Every property of these runs has a mutant in `PROJECT.json`: a change of the model such
as a slip in the code would be, with which TLC refutes it. A `TypeOK` that is proved is not
among the invariants of a run.

Four runs show the code at odds with its own comments and tests:

* **`upload_md5_lost`**: "need to finish two things to succeed" (`pageBlob.js` 348), but
  an error of `setBlobProperties()` after the last block is reported as a success.
* **`cleanup_leaves_region`**: "Successfully copied and cleaned up base VHD" (487), but
  with fewer connections than regions one region keeps the base's data.
* **`inquiry_container`**: a blob that is not there "is not considered an error"
  (`blobInfo.js` 48), but its 404 overtakes the creation of the container, and the
  creation of the blob fails.
* **`stop_counts_twice`**: "There are more than 1 deployment in either "Running" or "Accepted"
  state" (`group.deployment._js` 246), and a stop without a name "should stop the currently running
  deployment when ... only 1 deployment is currently running" (`arm.group.deployment-tests.js` 211);
  but one that starts to run after the accepted ones were listed is in both lists, and counts twice:
  `RefusedOnlyIfSeveral` fails with a single deployment in the group.

### 3.1 Fairness

`PageBlobUpload`, `BlobPreparation` and `StreamMerger` ask for weak fairness of
what the event loop or the service does sooner or later: a request is *answered*, a timer
fires, a stream delivers, ends or fails. The disjunction of the good and the bad answer is
fair, neither of them alone: the upload ends even if every request fails for ever. Requests
are answered because HTTP requests end, with an error if need be. `UploadSession` claims no liveness,
since a run may be killed at any time, nor does `TokenCache`, nor do `SkippedBlocks` and
`VhdReadStream`, which are about what is decided and what is read. In `CloudService` each command is weakly fair: its
requests are answered, however badly, and the user answers the question; no command is made
to start, and nothing is assumed of the order. In `Deployments` the service's work on each
deployment is weakly fair as well: without that `create` would wait for ever, as it does in the code.
`CHECK_DEADLOCK` is on everywhere; where a process ends, an action `Terminated` (`ReadOver`) says so.

## 4. The proofs

TLAPS checks these for every value of the constants.

**`PageBlobUpload_proofs`**: every invariant of the run `upload` (`SuccessIsComplete`,
`GivingUpIsQuiet`, `NoIndexLostOrDoubled`, `GivingUpTakesManyErrors`, `ExistedIsSaidRightly`,
`CallerIsCalledOnce`), `TypeCorrect`, and `TransferIsSafe`.
`SuccessMeansUploaded` is not inductive: that the last thread finds no index left says
nothing of the blocks unless each was followed from the tracker through a request to the
blob. `Coverage` says so: every index is outstanding in the tracker, or requested, or its
block is in the blob. `CountInv` ties `doneThreads` to the threads that have stopped, so
that "done = running" means that no request is out, and with an empty tracker `Coverage`
then gives all blocks. `ExitInv` says that giving up needs all threads to have stopped.
On top of this, `AccountInv` counts: no index has two places, and completed, requested, fresh
and pending ones add up to all. From the sum `ErrorInv` has that a thread goes idle only after
a block was completed (with one thread at rest there are fewer requests than indices, by the
pigeonhole principle), which is what the error rate needs to mean 20 errors. `ExistedInv`
says that as long as `alreadyDone` equals `completed` whatever is gone was skipped, and
`AggregatorInv` with `ReportedInv` that after a report nothing is left that could make another.
`TransferIsSafe` reduces every action to the four ways in which it can be seen from outside.
The tracker enters only through the lemmas of its own section (`NextIndexDefined`,
`NextIndexTakesOne`, `MarkErrorAddsOne`...), the aggregator through lemmas of its own
(`GetCallbackFacts`, `CallFacts`, `FinalWaitsForMd5`...). Assumptions: `IndexCount` and
`Threads` are positive.

**`BlobPreparation_proofs`**, of the clean-up alone: `TypeCorrect`, `LeftoversAreBounded`, `CleanUpIsComplete`,
`FailureStopsTheUpload`, `SkippedRegionsAreThere`. The key is `StaleInv`: each region that
is still stale has an index that is requested, or yet to be requested, or is the one that
the counter passes over. `CountInv` (at least as many connections as requests, and more
after an error) makes "no connection left" mean "no request out". `CleanUpIsComplete` needs
more connections than the VHD has blocks; `cleanup_leaves_region` shows that it must.
Of the inquiry and what follows it: `InquiryCallsBackOnce`, `CreationFindsContainer` and
`PreparedBaseIsCleanedUp`. `InquiryInv` ties what the aggregator has registered to the requests that
are out, so that its counting tells the last answer (`IsFinishedIsExact`); the rest is that neither
component disturbs the other's invariant (`PreparationInv`), although answers of the inquiry may arrive
while regions are being cleared.

**`UploadSession_proofs`**: `TypeCorrect`, `FooterCanBeTrusted`, `SuccessIsRight`,
`SuccessHasRightMd5`, `NothingIsEverLost` and `NothingIsMissing`. The invariant follows a blob through a run: from
the moment the upload starts it is *sound* (each region holds what it should or nothing),
before that its footer is not the VHD's. For `NothingIsEverLost`, `SafeInv` adds that a blob is
created anew or copied only where there is none to continue with, and that a blob with the
footer exists. All but the last need three hypotheses, stated in the
theorems: `QuickExits` (no telemetry: the process ends with its first error), `StartsClean`
(the first blob is empty, or it has not the footer of this VHD and the VHD is not a fixed one) and
`EnoughThreads`. `NothingIsMissing` needs none, and covers telemetry, few connections and
fixed VHDs.

**`VhdStreams_proofs`**, of `StreamMerger`: `TypeCorrect`, `Merges`, `EmitsAtOnce`, `EndsComplete`,
`NothingFollowsTheEnd`. `Buffered`
says that both buffers begin where the output ends, which `processBuffers()` keeps by taking
the same number of sectors from each; the arithmetic of whole sectors is in `WholeSectorsFit`.
Of `VhdReadStream`, in the same module: `ChainIsReadRightly`, `ReadsAreRight` and
`EverySectorIsSentOnce`. The first is an induction over the levels of a chain, made with the least-number
principle (`SmallestOf`, from the well-foundedness of the natural numbers): the recursive function `Emits` is
the one that takes a sector from the first VHD that has it, as another would have a last level at which it
differs. `ReadInv` says of a stream that what it has emitted is what is wanted up to `pos`, that only zeroes
are between `pos` and where the next file stream or chunk begins (`OnlyZeroes`; `NotReadIsZero` for the blocks
that `createNextStream()` passes over), and that the open file stream is one run of sectors of one block. That
a block of the upload lies in one block of the disk (`RequestFacts`) is needed since
`startPosWithinBlock` is added to whichever block is found first. For
`EverySectorIsSentOnce` the blocks of `fullIndices` are told apart by how many come before them (`Rank`): every
number below their count is the rank of one (`EachRankIsThere`) and of one only (`RankGrows`). Assumptions:
those that `VhdChain` and `VhdReadStream` make of their constants, among them that level 1 is no fixed VHD
(`Parameters`); and, as the hypothesis of `ReadsAreRight`, that the disk has whole blocks (`WholeDisk`, see
section 5), as in the run `streams`.

**`SkippedBlocks_proofs`**: `ArrayStaysInOrder`, `OnlyNeedlessBlocksAreSkipped` and
`ArrayImplementsSet`, every property of the run `skip`, for any regions, any file, however it is read, and
any sizes of blocks. `SetInv` says where the loop of `subtractInterval()` is: the intervals behind the
one whose turn it is do not meet the one that is taken away, and neighbours are in order. What a turn
puts in the place of an interval (`Parts`: nothing, one part or two) lies within it, so that the order
of neighbours is all that is needed (`SplicedFacts`, `CutFacts`), and what the array denotes does not change
(`TurnFacts`). The refinement follows: a call is one step of `IntegerSet`, and the turns are stutters.
`DetectionInv` says that the blocks read have their answers and that the part read of the present one
has no data, whatever the buffer held before. `DecisionInv` is the loop of `subtractRanges()`: what is left of the
block's set, without what is still to be subtracted, is the block without the blob's regions. That a
block of the upload asks the right block of the detection is `LiesInOneBlock`, division of one size by
the other. Assumptions: those of `createIntSet()` on the regions, and that the larger size is a multiple of the
smaller, both asserted by the code; the files explored are not larger than the blob.

**`TokenCache_proofs`**: `TypeCorrect`, `NoDuplicatesEver`, `VaultKeepsTheOthers`, `CallsAloneAreExact`. That there is one entry for a
user in the file says nothing while a call is between its two operations: `UniqueInv` adds
that the copy of every process, what every call keeps, and the content that it has still to
write are unique too, and that an addition is under way only over a copy that has no entry of
the owner (`Without`). This last one needs that a process has one call out at a time
(`OneCallAProcess`), which is that theorem's hypothesis. `VaultKeepsTheOthers` has none:
`RemovalInv` says that what a call has still to remove is what the call is about, however old
the copy from which it was computed. For `CallsAloneAreExact`, `CalmInv` says that as long as no call
overlapped or failed, one call is under way at most, what it holds in its hands is made from what was promised
before it, and with no call under way the storage and the copy are what was promised. Its hypothesis
`BlocksAreFilled` leaves out the credentials of section 5 that get an empty block (their entries are
never read again, and the statement is false of them). Assumption: no user is called as a missing one is.

**`CloudService_proofs`**: `TypeCorrect`, `NewNameIsNew`, `EndpointsAreUnique`,
`VmsGoOnlyByDeletion`, `CleanUpIsComplete`, `CommandsAloneAreExact`. `EndpointInv` says that the roles that commands
*keep* are as well-formed as those of the service, and that a change that is about to be
written was found to be applicable to the role it was computed from: what is written back
is then legal, however old. `StagesInv` ties what a command has made and seen to its stage:
the deployment is deleted only by a command that has seen its VM alone. `CleanInv` names who is
responsible for each image and service that is there. `CommandsAloneAreExact` needs to know what a
command owes at every stage: as long as no two commands overlapped and nothing failed, `AloneInv` gives for
the one that runs, stage by stage, what it has made so far and what it has read, so that what it does last is what it
promised (`Now` against `Promised`). Assumptions: the sets of names that the
commands begin with are finite, commands are no reserved values.

**`Deployments_proofs`**: `TypeCorrect`, `SearchMissesNothing`, `WaitsAreComplete`,
`RefusalsHaveACause`, for any commands, any finite set of names and every cut of the lists. `Reachable` is the heart of the second: a deployment
that was active all the while has been found, or lies ahead of the search in the list that is
read, or runs while the list of the accepted ones is still being read; nothing goes back from running to
accepted, so nothing slips from a list that is still to be read into one that was. `WaitFact` is that of the
third: an end that was seen is final for as long as the deployment is the command's own, and
`BegunInv` that no deployment becomes so without the command's request. All actions are reduced
to what they may do to a deployment (`Change`) and to their own job (`Effect`), and the
invariant is shown once for these. For the fourth, a run shows that a stop may
be refused although no two deployments are active at a time: the theorem says that this takes one that starts to
run while the stop is looking (`RefusalsExplained`). `SettledFact` says that what a search has found in
settled times is one deployment at most, and in one list only; `AloneCounts` is the arithmetic of it.

Only model-checked: all liveness (that part of `ImplementsTransfer`, `PreparationEnds`,
`MergeEnds`, `EveryCommandEnds`), which is out of the prover's reach. `MissingBlobIsNoError` and the other
three properties of the runs that end in a violation are false. Every invariant and every action property
of a run that passes is a theorem, under the hypotheses named above where there are any.

## 5. Where the properties stop holding

These were met on the way, besides the four of section 3. They are not kept as runs; each
says what the model does when a condition of a run is dropped.

* With telemetry to send, `exitWithError()` returns: an error of the MD5 stream stores an
  empty MD5 and is followed by a success (`pageBlob.js` 541-563), and an upload that was
  refused because the files differ goes on in the other file's blob (390-394). One that was refused
  because a base was given for a VHD that is no difference VHD copies the base, clears what it has
  data of its own for, and keeps the base's data in the rest (402-405); no region is missing then, but
  some are wrong.
  `CalledBackOnce` and `SuccessMeansRightContent` are therefore stated without telemetry.
* When `startCopyBlob()` fails nothing is called back (424-428): phase `stranded` of
  `DiffVhdCleanup` is an end without a report.
* The footer is compared "if vhd" says the comment (387), if dynamic says the code: over the
  blob of another fixed VHD of the same size the regions that are there are not sent.
* Without `-f` a blob of another size is replaced (398-417).
* The stream for the MD5 ends at the size in the footer, the blob at the end of the last
  block (`vhdTools.js` 161): for a disk that is not made of whole blocks the MD5 is not the
  blob's.
* With a fixed root the number of indices is taken from the size of the difference VHD's file
  (`pageBlob.js` 318), so that data behind it is not sent. `AllDataIsSent` is
  stated for chains whose blocks are counted.
* Of two processes that change the token file at a time the last one wins, and a process that
  is killed while it writes leaves a file that no command can parse (`file-token-storage.js` 41).
  `AloneIsExact` is stated for calls that neither overlap nor fail.
* Two calls of `add()` at a time in one process (`Parallel = TRUE`; `image.js` 167-180 asks for
  tokens in parallel) leave two entries for a user.
* A token string whose length is a multiple of the block size, twice the size at least, gets an
  empty block too many and is never read again (`win-token-storage.js` 59-62, 106).
* The entry of a service principal has none of the fields that `add()` looks for: adding one
  removes those of all the others (`token-cache.js` 141-145).
* A VM that is added to a deployment after a deletion has seen the only other one goes with
  the deployment (`vmclient.js` 3999). `VmsGoByDeletion` allows for that, and for nothing else.
* Of two changes of a role at a time the first one is lost (`vmclient.js` 1005 and the like).
* The name of a deployment comes from the template's file if none is given: of two users who deploy
  the same template one waits for the other's deployment (`groupUtils._js` 78-89). `WaitsToTheEnd` is
  stated for a deployment that is still the command's own.
* An error of `createRole()` or `configureCert()` is reported without the clean-up
  (`vmclient.js` 3813, 3882, 3926, 3938).

## 6. What is not modelled, and the plan

By far the most of `lib/` is generated from the descriptions of the services: `armsdk` and
`network.generated` are about three quarters of its lines. They build one request and parse one
answer, in one function after the other, and have no state: there is nothing in them that a model could
check, and a model of their parts would be a list of formats. The same is true of nearly all
commands. What is left out for good besides:

* the parsing of VHD headers and locators (429-552 of `vhdTools.js`), a conversion without control;
* progress output, options, the printing of lists, the storage library, the address arithmetic
  of virtual networks;
* `copyBlob()`: one request and a loop around another;
* of the deployments, the templates and their parameters, the question before a complete one, the printing
  of operations, and `list`, `show` and `download`, which only read;
* `image.js` and `uploadVMImage.js`: one chain of requests around an upload, without a clean-up;
* the profile and the caches of `cacheUtils.js`: the read, change and write of a file that
  `TokenCache` shows for the token file;
* in `vmclient.js`, extensions, load balancers, public addresses, the capture of images and the
  creation from a file's role: the same read and write of a role, or the same chain of requests,
  as those of `CloudService`;
* the keychain of macOS, which works entry by entry as the credential store does, without blocks.

What could still be added, in this order:

1. Two uploads to one blob at a time, as a composition of two `UploadSession` clients.
2. File descriptors and `destroy()` in `VhdReadStream`.
3. Several cloud services at a time in `CloudService`, whose VMs may have the same name.

The order in which the present modules were written is the order of section 2: the upload
first, since everything else serves it, then what decides what it skips, what it reads, the
token cache, the commands on a cloud service, and those on deployments.
