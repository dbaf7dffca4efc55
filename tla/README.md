# Remote Sync: a TLA+ model of the server and its agents

Remote Sync (`src/README.md`) backs up folders and Git worktrees to a central
server. This directory holds TLA+ modules of the server and of the agent, TLC
configurations that check them on small instances and TLAPS proofs for instances
of every size.
Paths below are relative to `src/`.

## 1. The system

| Component | State it keeps | Operations |
|---|---|---|
| Metadata store, PostgreSQL (`internal/metadata`, `migrations`) | operations, upload sessions, object rows, entries and their head versions, versions and changes by sequence, cursors of the devices, quota counters, snapshots, restore jobs and items, enrollment tokens, folder policies | one transaction each: BeginUpload, UpdateUploadProgress, MarkUploadVerified, EnsureObject, Commit, ListChanges, AckChanges, ExpireUploadSessions, CompleteUploadCleanup, PruneVersions, PendingGarbage, DeleteGarbageRecord, EnsureFolder, Create/ConsumeEnrollment, StartRestore, ListRestoreItems, ReportRestoreItem, FinishRestore |
| Blob store, directory (`internal/blob`) | `uploads/<session>.part`, `objects/sha256/...` | Resume, Append, Finalize, Exists, Open, Abort, Delete |
| Sync engine (`internal/syncengine`) | none: it sequences calls of the two stores | BeginUpload, AppendUpload, FinalizeUpload, Commit, the lifecycle calls |
| Garbage collector (`internal/garbage`) | none: a pass over both stores | RunOnce, every GC_INTERVAL |
| gRPC server, authentication (`internal/transport/grpcserver`, `internal/auth`) | none | one handler per call; an Upload stream is a loop of AppendUpload and one FinalizeUpload |
| Server process (`cmd/sync-server`, `internal/migrate`) | migrations applied | start, one collector, graceful stop |
| Agent queue, SQLite (`internal/localdb`) | entries with their server versions, pending operations, scan generations | Enqueue, ClaimNext, Transition, RecoverInFlight, UpsertEntry, SetServerVersion ... |
| Agent scanner, processor (`internal/agent`, `internal/hashing`) | the operation in hand | Scan; ProcessNext: Capture, BeginUpload, Upload, Commit |
| Agent coordinator, watcher, supervisor (`internal/agent`, `cmd/sync-agent`) | one set of goroutines per root, their channels, timers and contexts | realMain, runAll, run, Coordinator.Run, Watcher.Run, Processor.Run |
| Restore command (`cmd/sync-agent/lifecycle.go`) | the files of the target, temporary files and backups, local entries | runRestoreCommand, applyRestoreItem, publishRestoredFile |
| Registration of roots (`cmd/sync-agent/main.go`, `worktrees.go`) | local databases by folder and path, or the one of SYNC_STATE_PATH | validateSyncRoots, findExistingAnchorRoot, prepareConfigs |
| Discovery, folder map (`internal/worktree`, `cmd/sync-agent`) | a report of roots and folders | start-up only |

The agent calls the server over gRPC; the engine calls the two stores, which
share no transaction; the collector calls the same two stores on its own
schedule; the scanner and the processor of an agent meet only in the SQLite
queue. One process runs a coordinator, a watcher and a processor for every root
under one supervisor. The restore command is a process of its own, between a
restore job on the server and a directory that the user may be changing. Which
folder a root belongs to is agreed on with the server at each start, from what
earlier starts have left on the device.

What is hard here, and what the models are for:

* **two stores without a common transaction**: the engine looks at the disk,
  writes a row, commits, and the collector marks, lists, deletes a blob and
  then a row; every call of one can fall between two calls of the other;
* **retries**: a device repeats BeginUpload, Upload and Commit until it has an
  answer, also while the first call still runs;
* **optimistic commits** of several devices on one path;
* **READ COMMITTED**: some rows are read without a lock, and relied on later;
* **crashes** between any two calls, and sessions that expire at any time;
* **pruning** under devices that have not caught up, restores in progress and
  restores that start at an old sequence;
* **counters** that are kept by increments;
* **goroutines** that wait for each other, and that an error or a signal must end;
* **a file system that others use**: any call can fail, and a name may hold
  something else than a moment before;
* **identities by convention**: a root is known by its path, a folder by a key
  or by a state file.

A component is right when: no update is lost and an operation takes effect at
most once (store); nothing that can be listed or restored is without its
content (engine, blob store, collector); a retried or interrupted upload goes
on (engine); what is not needed is removed, and nothing else (collector); the
counters match the rows (quotas); every change of a file reaches the server in
spite of restarts (agent); no event is lost on its way to a scan, and a failure
ends everything and is reported (supervisor); a restore ends, leaves whole files
and loses none of the user's (restore); a root keeps its folder and shares it
with no other root (registration).

The hazards, each at its line, are in `PROJECT.json` with the properties that
cover them, or the reason why none does.

## 2. Modules

| Module | What it is |
|---|---|
| `FolderLog` | abstract specification: what the devices of a folder are promised, a log of versions |
| `Metadata` | the metadata store; an action is a transaction |
| `MetadataProofs` | type correctness and the safety of object rows, proved |
| `HistoryProofs` | the properties of the version history and of the outcomes, and that `Metadata` implements `FolderLog`, proved |
| `SyncEngine` | extends `Metadata` with request handlers, the blob store, the collector, failures and crashes |
| `SyncEngineProofs` | its safety, proved: types, committed content, verified uploads, garbage; and that the engine, too, implements `FolderLog` |
| `Quota` | extends `Metadata` with the counters of `quota_usages` |
| `QuotaProofs` | that the counters match the rows and keep the limits, proved |
| `Agent` | scanner, processor and SQLite queue of one root, between the user's edits and an abstract server |
| `AgentProofs` | its types, its queue, the order of what it commits, and that no change is forgotten, proved |
| `RestoreClient` | the restore command, its job on the server and the target directory |
| `RestoreProofs` | its safety, proved |
| `Registration` | the starts of agents and EnsureFolder, with several folders |
| `RegistrationProofs` | its properties, proved |
| `Supervisor` | the goroutines of one agent process |
| `SupervisorProofs` | its types and the reporting of errors, proved |
| `MCMetadata`, `MCSyncEngine`, `MCQuota`, `MCAgent`, `MCRestoreClient`, `MCRegistration`, `MCSupervisor` | instances for TLC |

`SyncEngine` and `Quota` compose the transactions of `Metadata` with the other
store and with the counters. `Agent`, `RestoreClient`, `Registration` and
`Supervisor` each hold the part of the server, or of the other side, that their
component relies on.

### Metadata

A row is a function value: `opState[o]` is `operations.state` of the key `o`
(device and operation id), `session[o]` the state of its upload session,
`object[h]` that of the object row of content `h`. A version is named by its
sequence number, unique in a folder by the schema, so `head[p]`, `base` and a
manifest hold sequence numbers, and 0 is the empty version id. `version` keeps
every version ever made so that properties can speak of pruned ones; the
actions read only those in `retained`.

Transactions are single steps, except where another transaction can run
between a read and the write that relies on it:

* BeginUpload reads the object row without a lock (`ensureObjectTx`) and
  inserts the operation later: `BeginCheck`, then `BeginPresent` or
  `BeginRollback`;
* Commit holds the operation, folder, quota and entry rows, but not the
  object row: `CommitLock`, then `CommitApply` or `CommitRollback`. While
  `commitTx` is set, transactions that need one of these rows wait
  (`Unlocked`): another Commit, a BeginUpload that inserts an operation (its
  foreign key needs the folder), an enrollment, StartRestore (`FOR SHARE`),
  a pruning that moves the restore floor, an expiry that releases quota.

PruneVersions is one step although it is several statements: its candidates
are locked, the folder's update serialises it with StartRestore and Commit,
and the statements that mark objects see every operation that was committed
before them; the one thing they cannot see, an operation that is being
inserted, is the window between `BeginCheck` and `BeginPresent`.

Time is a choice: a session may expire at any moment (`SessionTimesOut`), a
superseded version may or may not have passed the safety window, an
unreferenced row may or may not be old enough (`batch` and `orphans` are any
subset of what is eligible), which also stands for the batch limit.

### SyncEngine

A request handler is a worker that makes one call at a time: `task[w].call`
names the call it makes next. A handler may stop before any call
(`HandlerFails`: the client went away, the disk or the database failed, the
call was refused) and the server may crash. Transactions that were open are
rolled back, files stay: the blob store syncs what it acknowledges. Two
workers may serve one operation. `gc` is the one collector of the server. A
row it lists was marked by an earlier pass, because a pass uses one `now` and
a grace period is at least a minute (`migrations/000002_lifecycle.sql:33`).

A part is its length, and the fact that its bytes are not the declared ones
(`spoiled`): a file may change while it is uploaded.

### Quota

The counters of the one folder and user. `reserved_bytes` of a session is a
function of its state and needs no variable. The versions that entries show (`Heads`)
and the rows of `upload_sessions` (`Sessions`) are finite sets, even when there is no
end of paths and operations, so that their sums are defined.

### Agent

The agent side of the system, which extends none of the other modules. `entry`
and `queue` are the tables `local_entries` and `pending_operations`; `scan` and
`work` are the local variables and the program counters of the Scan and the
ProcessNext in progress. An action is one SQLite statement or transaction
(`Enqueued`, `Upserted`, `Moved` and the other functions named after them), one
look at a file, or one remote call; scanner and processor interleave at that
grain.

* A file is a stamp: hash, size, mtime and mode together. A write makes a state
  the file has not had before, since its mtime is new.
* The scanner keeps in `scan.old` what it has read of a row and in `scan.new`
  what it has seen of the file, and writes both later; `gone` is only for the
  properties and collects the paths that had no file at some time of the scan.
* `Moved` is Transition: it changes the row only when the row is in the state
  that the processor believes in. The scanner may have cancelled the row in the
  meantime; then ProcessNext ends, except after SetServerVersion, which does not
  look at the row of the operation.
* `network` holds the Commit requests on their way. One whose answer the
  processor no longer waits for, because it gave up or was killed, may arrive
  later or never. `ServerCommit` is what `Metadata` promises to one device:
  `AtMostOnce`, `NoLostUpdate` and the replay of a stored response. BeginUpload
  and Upload change nothing that the agent relies on, and are single steps.
* `Start` is the recovery of `run` (`cmd/sync-agent/main.go`), `Crash` any end of
  the process. A scan may begin at any time: at start-up, after an event of the
  watcher, or when the interval has passed.

### RestoreClient

`job` is the row of `restore_jobs` with its items and the pin of its snapshot;
`cmd` the local variables and the program counter of the command that runs;
`file`, `temp`, `linked` and `backup` are what the target directory holds for
each item. The properties need a memory of the user (`mine`, what must not be
lost; `touched`, what was changed since).

* A call to the server is the composition of what it passes: `StoreReport` is the
  transaction, `EngineReport` what the engine refuses, `HandleReport` the
  handler behind the authentication (`Resolved`), `CallReport` the client's stub
  with the conversion of states. It is answered, refused, or fails before or
  after the transaction (`NotAnswered`), and then the command ends.
* applyRestoreItem is one action per call to the file system: `Lstat`,
  `Compare`, `Create`, `Download`, then `Link`, `Unlink` for a free name or
  `Replace`, `Inspect`, `Preserve`, `Swap`, `Rollback`, `Clean` for a taken one,
  then `Stamp`, `Seed` and `Report`. Each may fail although nothing is in its
  way (`FailsIf`), in between the user may change the name, and a name may be a
  second link of the temporary file, so that a write to one is seen in both.
* `Crash` ends the command at any point; `Resume` is a new command for the same
  job, which lists it from the start.
* A file is its content: the wanted one, one of the user's, or `Partial`.
  `mine` forgets what the user writes under a job that overwrites while its
  command runs, because the user is told not to edit the target until the
  restore completes (`release/USER_GUIDE_EN.txt:252`).

### Registration

`folders` is the sequence of rows of one user's folders with the devices
registered for each and what was committed to it; `state` the local databases, with the
device, the place and what opened them; `agent` the processes. The place of a
database (`Database`) is the file that SYNC_STATE_PATH names, for a process that
has the variable, and otherwise named by folder and path. A file that is set is found
whatever root and folder it was made for (`Anchored`), and `Restore`, the restore
command of `RestoreClient` seen from here, opens a database for a target that may never
have been synchronized. Both make a root the anchor, as in the code. `EnsureFolder` is one step: its
transaction begins with a lock on the row of the user. `Launch` is the
validation of the roots and the choice of the root that may take the base
folder, `Register` one call of prepareConfigs, after which the process goes on,
exits, or never gets the answer; `Begin` opens the databases; `CommitChange` is all
that is left of backing up. `RegisterUnimplemented` is the answer of a server
that does not know the call, and `Upgrade` its end. `given` and `compat` are for
the properties. Left out are the folder map, which no later start reads, and a
SYNC_STATE_DIR of its own for the agent: restore commands keep their databases in the default
directory in any case (`cmd/sync-agent/lifecycle.go:549`), so with it they make fewer anchors.

### Supervisor

The state of a goroutine is the point at which it blocks (`coord`, `watch`,
`proc`, `run`), or the error it has ended with. A channel of capacity one and a
timer are flags. A `select` is one action per case (`SelectDone`,
`SelectTrigger`, ...), of which any that is ready may be taken. A context is an
expression, not a variable: `Outer` is the one of runAll, `Canceled` that of the
goroutines of a root. Scans and operations are opaque: what happens in them is
`Agent`. `unseen` is for the properties: an event came that no scan has begun
after.

### Left out everywhere

Audit rows, quarantine (the schema has it, no code writes it), display paths,
mtimes and modes, which no property is about; folder policies, which are one
UPDATE; more than one folder outside `Registration`, and the revocation of a
device outside `RestoreClient`.

## 3. Checks

| Run | Instance | Shows |
|---|---|---|
| `MetadataUploads` | 3 operations of 1 device, 2 paths, contents of one and two bytes, upload sessions and quotas; 453,280 states up to symmetry | NoLostUpdate, AtMostOnce, RetainedAvailable, OutcomesAreFinal, UsageExact, LiveWithinLimit, NoReservationLeak, TypeOK |
| `MetadataHistory` | 3 operations, 2 devices of which one enrolls, 2 paths, 1 content, 1 restore job; puts are deduplicated ones; 62,591 states up to symmetry | RestorableHistory, ManifestIntact, UnreadRetained, and that Metadata implements FolderLog |
| `Engine` | 2 handlers, 1 collector, two puts of one content and a delete, files that change; 555,209 states up to symmetry | NoCommittedDataLoss, VerifiedStored, GarbageStaysGarbage, EngineTypeOK |
| `Agent` | 1 path, 3 edits, 1 fault, fair; 174,668 states | OneLive, InFlightOwned, NewestWins, NothingForgotten, DeletesAreReal, Settles, TypeOK |
| `RestoreClient` | 2 items in pages of one, 2 edits, 2 faults, fair; 364,211 states | WholeFiles, UserFilesKept, NothingDestroyed, SeededIsWhole, CompletedIsComplete, Continues, RestoreTypeOK |
| `Registration` | 3 agents on 2 devices, 4 paths, 1 state file that may be set, 3 starts of agents or restore commands, 1 lost answer; 3,918,900 states up to symmetry | SameFolder, RootsApart, AnchorKept, RegistrationTypeOK |
| `Supervisor` | 2 roots, one of them disturbed by 2 changes and 1 error, fair; 361,840 states | ErrorsReported, ChangesScanned, OneForAll, SupervisorTypeOK |
| `EngineReferenceCheck`, `QuotaPending`, `AgentBackedUp`, `SupervisorStops`, `SupervisorRootGone` | the same instances or smaller ones | a disagreement each, section 5 |

**Bounds.** In the runs of the server they are the sets in the configurations: no
action has a bound of its own, because every operation id is used once and the
history ends with them. Three operations are enough for a version to be made,
replaced and pruned while another is on its way, and for two uploads that
hold reservations while a third commits. `MetadataUploads` explores the uploads
with one device, `MetadataHistory` the history with two devices, without
upload sessions. In `Engine` two handlers are enough for every pair of
calls to overlap, and one content for all the races of the collector, which are
about one content. The two puts overlap in every way until the delete begins, a
session times out or a file has changed; from then on only one handler is busy at
a time, next to the collector and crashes, and at most one session times out
(the constraint `InTurn`). The theorems of section 4 have neither bound.

In `Agent` the bounds are `MaxEdits`, in the guards of `Write` and `Remove`, and
`MaxFaults`, in `Fault`, which every failure takes. Three edits of one path are
enough for a file to be made, changed or removed and made again while each
earlier operation is still somewhere between the queue and the server, and one
fault at any of its steps, a lost answer or a crash among them. The paths meet only in the order
in which ClaimNext takes them and in the progress of one processor.

`RestoreClient` has `MaxEdits` in `Edited` and `MaxFaults` in `Fault`. Two items are
enough for a page that is listed while an item of an earlier page is settled or
has failed; two faults for a crash and a failed step of the resumed attempt, or
a failed step and the failure of its clean-up; two edits for a name that is changed before and
after it is looked at. `Registration` has `MaxLaunches` in `Launch` and `Restore`, and
`MaxFaults` in `Register`: three starts are an agent that synchronizes, one that
starts with more or other roots, and one on another device or beside them; or a restore
and two agents. Its paths are two projects, a directory inside one of them, and the directory
above the state. The one file that can be set lies inside the second project,
which therefore cannot be started with it. Restore commands name that file or the base
folder (the constraint `RestoresOfBase`), because agents look for no other database.
`Supervisor` has `MaxChanges` and `MaxFaults`: two changes, the second of which can fall
into a scan, find the timer of the first set or its trigger waiting, or be the removal
of the root, and one error of either task at any time. Two are needed: an event
is raised only by a change, so with one the timer would never be started again.
The other root meets with nothing: what matters is that it ends.

**Symmetry.** Handlers and the two puts are symmetric in `Engine`, operations
and paths in `MetadataUploads`, paths and the operations of one device in
`MetadataHistory`, and the two agents of one device in `Registration`. No
symmetry is used with a liveness property.

**Deadlock** is checked in `Agent`, which scans for ever. In the server's runs the
operations are used up, a restore job ends, the starts are bounded, and
an agent process exits, so that these systems really stop.

**Fairness.** `FairSpec` of `Agent` is weak fairness of three processes: the
scanner, because the coordinator scans every SCAN_INTERVAL
(`internal/agent/coordinator.go:79`); the processor, because it polls every second,
a row in RETRY_WAIT is due after a backoff of some minutes at most, its calls
end, and a killed agent is started again by its service manager; the server, which
answers a request that reaches it. `RestoreFairSpec` is weak fairness of the
command, whose calls end, and of `Resume`: a user who knows the job goes on
with it. Without the second nothing is promised, since the command does not
retry. `SupervisorFairSpec` is weak fairness of each goroutine, and strong fairness of
the ready cases of its `select`, which Go takes at random, so that none is
passed over for ever. Of the tickers nothing is expected: an event must lead to
a scan without them. Nowhere is anything assumed of the user's edits, of
failures or of signals.

In `EngineReferenceCheck` a BeginUpload transaction is taken to be shorter than a
grace period (`PromptSpec`), so that the counterexample is not one that needs
a transaction of a day.

### Mutants

A definition `X_Mistake` is `X` with one plausible mistake: a check dropped, a
state forgotten, an increment too many. It is used by no action. Each property
fails when a definition it depends on is replaced by such a mistake; the pairs
are in `PROJECT.json`. They show that a property is about the code and not
about the shape of the model.

## 4. Proofs

The theorems below hold for every value of the constants that satisfies the
assumptions of the module they are about: `ConstantsOK` of `Metadata`, with `EngineConstantsOK` of `SyncEngine` and `LimitsOK` of
`Quota` for these two, `BoundsOK` of
`Agent`, `RestoreConstantsOK`, `RegistrationConstantsOK` with `NamesOK`, and
`SupervisorConstantsOK`. They say that bounds, sizes and limits are numbers, sets are not
empty and names for nothing are not names of something; no set need be finite.
`HistoryProofs` extends `MetadataProofs` and uses its invariant, `SyncEngineProofs` and
`QuotaProofs` extend `HistoryProofs`; each of the others stands alone.

`MetadataProofs`:

* `TypeCorrect`: `Spec => []TypeOK`. `TypeOK` is not inductive. `TypeInv` adds
  that an operation in flight has a content (`UploadsKnown`), that an ACTIVE
  session belongs to a RESERVED operation, that a head has a row, and that the
  operation whose commit holds the locks is READY.
* `RetainedAlwaysAvailable`: `Spec => []RetainedAvailable`. `ObjectInv` adds
  `CommitChecked`: what CommitLock has checked, the object and the head,
  still holds when CommitApply writes. The object row is not locked; it stays
  AVAILABLE because the operation is READY until the commit and a READY
  operation is a reference that keeps the row from being marked.

`HistoryProofs` first sorts the steps (`StepKinds`): a step publishes a
version of an unsettled operation on top of the head of its path, prunes a
batch, lets a reader or a job move, or leaves all of this alone. It rests on
`BaseInv`: `ObjectInv`, whose `CommitChecked` says that the head has not moved
between CommitLock and CommitApply, and `WritersRead`, that nobody loses a
membership. By these kinds:

* `UpdatesNeverLost`: `NoLostUpdate` is inductive. A new version's base is the
  head, which is the newest version; no batch contains a head.
* `OperationsTakeEffectOnce`: `AtMostOnce` is inductive, because only an
  operation that is NONE or READY is published and READY is never reached from
  COMPLETED.
* `OutcomesNeverChange`: each step satisfies `Final`, from `BaseInv`.
* `UnreadAlwaysRetained`: inductive. A batch is acknowledged by every reader,
  and a new reader starts at the current sequence.
* `HistoryAlwaysRestorable`: `RestorableHistory` is not inductive on its own.
  `Covered` says that at every sequence from the floor on each version has
  itself or a newer version of its path among the rows; a batch that is not
  empty moves the floor to the current sequence, which the heads cover.
* `ManifestsStayIntact`: the manifest is complete when StartRestore freezes it
  (`SnapshotComplete`, from `Covered`), the collector spares what an active job
  names, and later versions come after the job's sequence.

The last part of `HistoryProofs` is `StoreImplementsFolderLog`: `Spec =>
ImplementsFolderLog`. Under `HistoryInv` the newest version of a path, to the
log, is the head (`HeadIsNewestInLog`), and the files at a sequence are the
items of StartRestore (`FilesAreItems`); then a publication is `Publish`, a
batch `Forget`, an expiry `Fail`, and a reader's or a job's transaction `Join`,
`Acknowledge`, `TakeSnapshot` or hidden.

`SyncEngineProofs`: a call of the engine is a step of the store that `MetadataProofs`
knows, or a rollback, or leaves the store alone (`StoreStep`), so the store's invariant holds
under the engine (`StoreStepKeeps`), which is `EngineKeepsContents`. What a call may do
to the handlers, blobs, lists, sessions and versions is said once (`EngineMoves`) and proved for
every action (`EngineStepMoves`); that `EngineInv` is kept follows from this alone.
`EngineInv` adds to the types of handlers, parts and collector what is still
relied on after the call that learned it:

* `EngineTypeCorrect`: a part is no longer than its declaration, because each
  length that a handler carries from one call to the next is within it.
* `GarbageAlwaysGarbage`: a row that waits for deletion does so until its record
  is deleted, which only the one collector does.
* `CommittedDataNeverLost`, `VerifiedAlwaysStored`: an AVAILABLE row without a blob
  is reachable. The handler looks for the blob, the collector removes it and its
  record, and then the handler's EnsureObject makes a row. `SeenStored` says why
  this does no harm: while an operation is in flight and its handler has seen
  the blob, the blob is there or its row still says PENDING_DELETE, which the
  commit and the verification refuse. Between the two deletions of the
  collector the operation keeps the record (`Needed`), so the row cannot be
  made anew.
* `EngineImplementsFolderLog`, `EngineKeepsHistory`: a rollback of what handlers had
  open is hidden from the log and keeps `HistoryInv` (`RolledBackHistory`), so with all
  handlers, crashes and the collector the devices still see the log of `FolderLog`, and
  every history is as intact as that of the store alone. No run explores the history under the
  engine, whose instance has one content and no readers to speak of.

`QuotaProofs` first shows `QuotasOnlyRefuse`: `QuotaSpec => Spec`, so that all of the above
is true with the quotas. Then it needs sums over finite sets. The library defines
them by recursion over an arbitrary element (`SumFunctionOnSet`) and has no theorem about
them; the first part proves those that are needed: a sum may begin with any element
(`SumRemove`), splits (`SumSplit`), grows by what is added (`SumAdd`), depends only
on the sizes (`SumSame`). The induction theorems take an operator, which no prover here can
instantiate; instead each of these looks at a smallest set for which it would be false
(`SmallestSet`, from `WFMin` of the library). `QuotaInv` then gives

* `UsageAlwaysExact`: `UsageExact` needs of the store that two paths never have the same
  head (`HeadsDistinct`, from `NoLostUpdate`) and that a batch of PruneVersions is
  superseded, so that each step moves just the sizes that it charges, and the clamp at 0 hides
  nothing.
* `LiveAlwaysWithinLimit`: `LimitChecked` says that what Commit has compared with the
  limit stays while it holds its locks, head and counter among them.
* `NothingStaysReserved`: a new operation has no session (`SessionsKnown`), and a commit gives back at
  least what its session reserves.

`AgentProofs` sorts the steps, too (`RowStep`, `LogStep`): a step moves rows and
goes on with the operation in hand, or ends it (`Proceeds`); it queues an
operation (`Queues`); or it is the server's. It rests on `AgentInv`:

* `AgentTypeCorrect`: `Spec => []TypeOK`. `TypeOK` is not inductive: the version
  that SetServerVersion writes down is the answer in hand, the one that
  UpsertEntry writes is what the scanner has read before, so both must be
  versions of their path as well (`VersionsKnown`), and log and queue must
  agree on the path of an operation (`HistoryKnown`).
* `NewestAlwaysWins`: `NewestWins` needs that an operation is younger than the
  operation that made its base (`HistoryKnown`): the scanner takes the base from
  an entry, which holds only versions that exist when it queues. The server
  accepts an operation only on top of the head, the youngest version of the
  path.
* `OneLiveAlways`: `OneLive` is inductive, because no statement opens a closed
  row (`RowsMove`) and Enqueue closes all rows of the path first.
* `InFlightAlwaysOwned`: `Owned` adds that the row in flight is in the state that
  ProcessNext believes it to be in, without which a Transition could leave it
  behind.
* `NothingIsForgotten`: `NothingForgotten` adds `ScannerInv` to `AgentInv`. A file
  that has changed never comes back with the same stamp (`Past`, `StampsMade`), so what the
  scanner holds of an entry or a file is right until the file has changed
  (`ScanKnows`). An entry that names the file there is written only after the operation was
  queued (`Handled`): the last operation of the path, which is open, or was
  committed and then is the head, by `NewestWins`. When it is closed without a commit,
  another one was queued after it. An answer that the processor has is the commit of
  the operation in hand (`AnswersKnown`), so it completes no other row.
* `DeletesAreAlwaysReal`: each path that the walk has passed (`Passed`) was seen, or
  has no present row, or had no file at some time of the scan; a path missing from
  the walk's result is one of the last.

`RestoreProofs` takes the six safety properties of the restore together, because
each leans on the others. `RestoreInv` says of every item what they say
(`ItemOK`), and of the item in hand what each step of applyRestoreItem relies on
(`Progress`): the temporary file about to be published is whole and no second link
of the name, so that no edit of the name reaches it; a file is moved aside
only under a job that overwrites; until the wanted file has the name, what was
moved is among the backups; when the item is recorded or about to be, the name
holds the wanted file or the user has changed it. None of this survives a
crash, and it need not: a new command looks at each item afresh, and `ItemOK` is
enough for that. A step on one item leaves the others alone (`ItemAlone`), and
a call, answered or not, leaves a job that `Fits`. The theorems are
`RestoreTypeCorrect`, `NothingHalf`, `UserFilesAreKept`, `NothingIsDestroyed`,
`SeedsAreWhole` and `CompletedJobsAreComplete`.

`RegistrationProofs`: a folder's key is unique and, once set, never changes, so all
that was ever recorded of a root and its folder remains true. `RegistrationInv` says
it of what processes were told (`got`), of the local databases that agents opened for
a folder (`Owned`) and of what was committed: each belongs to its folder by the key
or, in the base folder, through an old server. `RootsKeepTheirFolder`, `HistoriesStayApart`,
`RegistrationTypeCorrect`; and `HistoryBoundToItsRoot`: a process takes an
anchor only from a database that it has found and that stays (`AnchorFound`). When no file was set, it
is the one of the base folder and that root; the base folder has no key yet, so by `Owned` an agent
opened it only through an old server, and otherwise a restore command did.

`SupervisorProofs`: `ErrorsAlwaysReported` needs `Reason`. A goroutine that ended
because its context was cancelled does not say why; either the process was told to
stop or another root failed (`Outer`), or the other goroutine of the same root
ended with an error, which is the one that `run` returns. `SupervisorTypeCorrect`
includes that the database and the root are closed only when nobody uses them.

Every invariant and action property of the passing runs is stated by one of these
theorems. Only model-checked is what the prover cannot reach: the liveness properties
`Settles`, `Continues`, `ChangesScanned` and `OneForAll`. What the runs that expect a
violation refute cannot be proved.

## 5. Disagreements between the code and what it says

With a run that shows them:

1. `EngineReferenceCheck`. A blob is removed before the reference check of its
   record. A pass that stopped after it had removed a blob leaves a row that
   the next pass lists; an upload of the content stores the blob again, and
   the pass removes it although an operation in flight needs it. The upload
   is then refused; no committed version loses its content.
2. `QuotaPending`. The commit of a deduplicated content releases reserved
   bytes that other uploads hold.
3. `AgentBackedUp`. A file is edited while an earlier version of it is being
   committed. The scanner has read the entry before SetServerVersion, so the new
   operation is based on an older version; the server refuses it, rightly, with
   BASE_VERSION_CONFLICT; the processor blocks it for ever; and the entry, which
   UpsertEntry has written with the new hash, keeps the scanner from queueing the
   change again. The file is not backed up until its next edit, and when UpsertEntry has also
   put an older version back over the newer one (`internal/localdb/store.go:89`),
   not after that either. The run needs no failure. `NewestWins` holds all the
   same: what is on the server is never older than what the server was given
   before.
4. `SupervisorStops`. After Ctrl+C the processor calls ProcessNext again and
   again: with a cancelled context it returns an error that is not ErrNotFound, and
   only ErrNotFound ends the inner loop (`internal/agent/processor.go:66`). The
   supervisor waits for it and the process does not exit. For the same reason
   the failure of one root does not always end the others. When its coordinator or watcher
   fails while its processor is working, `run` cancels the context and waits for the
   processor for ever (`cmd/sync-agent/main.go:246`), `runAll` does not hear
   of the error, and the other roots go on. `OneForAll` has this case as its exception;
   `AllForOne`, without it, does not hold.
5. `SupervisorRootGone`. A root that is deleted while the agent runs makes every
   later scan of it fail. The coordinator logs that and goes on
   (`internal/agent/coordinator.go:78`); nothing is taken for a deletion, but
   neither the root's worker nor the process stops.

Seen in the models, without a run of their own:

* `ResumeAccepted` of `SyncEngine` does not hold. After FinalizeUpload has promoted
  the part (or removed one with a wrong hash) and before the session is VERIFIED,
  the session is ACTIVE with everything received and no part. The next
  BeginUpload resumes at length 0, which `received_size <= $2` refuses
  (`internal/metadata/postgres.go:160`). That the blob is there does not help: the replay
  of a RESERVED operation does not look at the object (656-694). The operation can only expire.
* `PartReclaimed` of `SyncEngine` does not hold. A chunk that was on its way when
  its session was cleaned up creates the part again, and nothing removes it.
* In `Agent`, a file that is removed while its first version is being committed
  stays on the server: its operation is cancelled, its commit succeeds, and no
  DELETE is queued.

* `AnchorIdentified` of `Registration` does not hold. "An existing per-root SQLite state file
  identifies which selected root owns prior anchor-folder history" (`README.md:326`), but an agent
  with SYNC_STATE_PATH looks at the one file, whichever root it was made for. A first root is
  synchronized with that file and an old server; after the upgrade an agent that is started with
  the same variable and another root binds the base folder and its history to that root, and
  goes on with the entries of the first. A restore of the base folder to a directory
  has a similar effect: the database it leaves makes the directory an anchor.

To see the others, name `ResumeAccepted` or `PartReclaimed` as INVARIANT in `Engine.cfg`,
`AnchorIdentified` as PROPERTY in `Registration.cfg`, and `AllForOne` in `Supervisor.cfg`.

## 6. Not modelled, and what is left

| What | Why |
|---|---|
| Worktree discovery, terminal dialogue, folder map | file-system walks and text, no state that outlives a start |
| Server start and stop, migrations | sequential, under an advisory lock; what a restart does to requests is in `SyncEngine` |
| Path policy, domain types | pure functions on strings; a canonical path is a model value |
| Handlers and stubs that only convert messages | nothing changes in them |
| Generated gRPC code | generated |
| Row locks of PostgreSQL | transactions wait as `Unlocked` says; deadlocks among them are aborted and retried or blocked, which `CommitRollback` and the agent's BLOCKED state cover |
| The calls inside Append and Finalize | single steps, true for a client that does not retry before its stream has ended |
| The life of an enrollment token | one row, used once under its lock |
| Liveness of the collector | an operation that was READY from the start has no session that expires, and pins its content for ever; no document promises otherwise |

Next, in this order: `PartFile`, Append and Finalize with open file descriptions; `Locks`,
the row locks of the transactions in the order they are taken.
