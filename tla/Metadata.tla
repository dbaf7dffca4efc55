------------------------------ MODULE Metadata ------------------------------
(***************************************************************************)
(* The metadata store of sync-server (internal/metadata): one folder, the  *)
(* devices enrolled in it, the operations the devices submit, the upload   *)
(* sessions, the content-addressed object rows, the version history, the   *)
(* acknowledgement cursors and the restore jobs.                           *)
(*                                                                         *)
(* An action is a PostgreSQL transaction.  Where READ COMMITTED lets       *)
(* another transaction run between a read and the write that relies on it, *)
(* the transaction takes two steps: BeginUpload reads the object row       *)
(* without a lock (BeginCheck, then BeginPresent) and Commit reads it      *)
(* while holding the operation, folder, quota and entry rows (CommitLock,  *)
(* then CommitApply or CommitRollback).  A transaction that fails rolls    *)
(* back, so its only trace is the error the caller sees.                   *)
(*                                                                         *)
(* A version is named by its sequence number, which the schema makes       *)
(* unique in a folder; 0 is the empty version id.  version[] keeps every   *)
(* row ever inserted so that properties can speak of pruned ones: the      *)
(* actions read only the rows in retained.  Byte quotas are a layer of     *)
(* their own (module Quota).                                               *)
(*                                                                         *)
(* A definition named X_Mistake is X with one plausible mistake; no action *)
(* uses it (see README.md, "Mutants").                                     *)
(***************************************************************************)
EXTENDS Integers, Sequences, FiniteSets

CONSTANTS
    Devices,      \* devices of the folder's owner
    Owners,       \* the devices that have the folder from its creation on
    Paths,        \* canonical path keys
    NoPath,
    Hashes,       \* SHA-256 values of file contents
    NoHash,       \* the NULL object_hash of a DELETE
    Size,         \* the length of each content
    Ops,          \* (device_id, operation_id) keys
    NoOp,
    Origin,       \* the device of each key
    Restores,     \* restore job ids
    Target        \* the device that starts each restore job

ASSUME ConstantsOK ==
    /\ Owners \subseteq Devices
    /\ NoPath \notin Paths /\ NoHash \notin Hashes /\ NoOp \notin Ops
    /\ Size \in [Hashes -> Nat]
    /\ Origin \in [Ops -> Devices]
    /\ Target \in [Restores -> Devices]

VARIABLES
    opState,      \* operations.state, "NONE" when there is no row
    request,      \* the intent whose digest the operation row stores
    response,     \* operations.response: the sequence it committed at, or 0
    session,      \* upload_sessions.state, "NONE" when there is no row
    received,     \* upload_sessions.received_size
    late,         \* operations whose session's expires_at has passed
    object,       \* objects.state, "ABSENT" when there is no row
    reading,      \* the hash a running BeginUpload transaction found AVAILABLE
    version,      \* every version ever inserted, in sequence order
    retained,     \* sequences with a row in file_versions and in changes
    superseded,   \* sequences whose superseded_at is set
    head,         \* entries.head_version_id, 0 when the path has no entry
    restoreFloor, \* folders.restore_floor_sequence
    readers,      \* devices with an ACTIVE, can_read membership
    cursor,       \* device_cursors.acked_sequence, 0 when there is no row
    jobState,     \* restore_jobs.state, "NONE" when there is no row
    jobSequence,  \* restore_jobs.expected_folder_sequence
    manifest,     \* the versions named by the job's restore_items
    openItems,    \* those whose item is PENDING
    failedItems,  \* those whose item is FAILED
    commitTx      \* the operation whose Commit transaction holds its locks

opVars == <<opState, request, response>>
sessionVars == <<session, received, late>>
objectVars == <<object, reading>>
logVars == <<version, retained, superseded, head, restoreFloor>>
readerVars == <<readers, cursor>>
jobVars == <<jobState, jobSequence, manifest, openItems, failedItems>>
vars == <<opVars, sessionVars, objectVars, logVars, readerVars, jobVars, commitTx>>

-----------------------------------------------------------------------------

Request == [path : Paths, base : Nat, hash : Hashes \cup {NoHash}]
NoRequest == [path |-> NoPath, base |-> 0, hash |-> NoHash]

Version == [path : Paths, base : Nat, hash : Hashes \cup {NoHash}, op : Ops]

OpStates == {"NONE", "RESERVED", "READY", "COMPLETED", "FAILED"}
SessionStates == {"NONE", "ACTIVE", "VERIFIED", "COMMITTED", "EXPIRED", "ABORTED"}
ObjectStates == {"ABSENT", "AVAILABLE", "PENDING_DELETE"}
JobStates == {"NONE", "READY", "RUNNING", "COMPLETED", "FAILED"}

Max2(a, b) == IF a >= b THEN a ELSE b

SizeOf(h) == IF h = NoHash THEN 0 ELSE Size[h]

CurrentSequence == Len(version)

\* The folder, quota and entry rows are not held by a Commit transaction.
Unlocked == commitTx = NoOp

\* writerUser and lockWritableFolder: the device is an ACTIVE member.
Writer(o) == Origin[o] \in readers

ActiveJob(r) == jobState[r] \in {"READY", "RUNNING"}

\* readOperation finds no row under this key: a request with a key that has
\* one is a replay, or is refused because its digest differs.
NewOperation_NotLookedUp(o) == TRUE
NewOperation(o) == opState[o] = "NONE"

\* ensureObjectTx: insert the row unless there is one; a row that waits for
\* deletion is refused.
ObjectUsable(h) == object[h] \in {"ABSENT", "AVAILABLE"}

\* operations whose state counts as a reference to their object
InFlight_ReadyForgotten(o) == opState[o] = "RESERVED"
InFlight(o) == opState[o] \in {"RESERVED", "READY"}

\* The two NOT EXISTS clauses of every garbage statement, over the versions
\* in kept.
ReferencedIn(h, kept) ==
    \/ \E i \in kept : version[i].hash = h
    \/ \E o \in Ops : InFlight(o) /\ request[o].hash = h

\* The newest version at or below sequence s of every path, among the rows.
NewestAt(s) ==
    {i \in retained : /\ i <= s
                      /\ \A j \in retained :
                            j <= s /\ version[j].path = version[i].path => j <= i}

Init ==
    /\ opState = [o \in Ops |-> "NONE"]
    /\ request = [o \in Ops |-> NoRequest]
    /\ response = [o \in Ops |-> 0]
    /\ session = [o \in Ops |-> "NONE"]
    /\ received = [o \in Ops |-> 0]
    /\ late = {}
    /\ object = [h \in Hashes |-> "ABSENT"]
    /\ reading = [o \in Ops |-> NoHash]
    /\ version = <<>>
    /\ retained = {}
    /\ superseded = {}
    /\ head = [p \in Paths |-> 0]
    /\ restoreFloor = 0
    /\ readers = Owners
    /\ cursor = [d \in Devices |-> 0]
    /\ jobState = [r \in Restores |-> "NONE"]
    /\ jobSequence = [r \in Restores |-> 0]
    /\ manifest = [r \in Restores |-> {}]
    /\ openItems = [r \in Restores |-> {}]
    /\ failedItems = [r \in Restores |-> {}]
    /\ commitTx = NoOp

-----------------------------------------------------------------------------
(* Uploads *)

\* EnsureObject: the row of a blob the engine has found on disk.
EnsureObject(h) ==
    /\ object[h] = "ABSENT"
    /\ object' = [object EXCEPT ![h] = "AVAILABLE"]
    /\ UNCHANGED <<opVars, sessionVars, reading, logVars, readerVars, jobVars, commitTx>>

\* BeginUpload of a new operation whose object is not present: the operation
\* is RESERVED and an ACTIVE session is created with it.
BeginRequired(o, r) ==
    /\ Unlocked /\ Writer(o)
    /\ NewOperation(o)
    /\ r.hash # NoHash
    /\ opState' = [opState EXCEPT ![o] = "RESERVED"]
    /\ request' = [request EXCEPT ![o] = r]
    /\ session' = [session EXCEPT ![o] = "ACTIVE"]
    /\ reading' = [reading EXCEPT ![o] = NoHash]
    /\ UNCHANGED <<response, received, late, object, logVars, readerVars, jobVars, commitTx>>

\* BeginUpload with the object present reads the row that is there already...
BeginCheck(o, h) ==
    /\ Writer(o)
    /\ NewOperation(o)
    /\ object[h] = "AVAILABLE"
    /\ reading' = [reading EXCEPT ![o] = h]
    /\ UNCHANGED <<opVars, sessionVars, object, logVars, readerVars, jobVars, commitTx>>

\* ... or inserts it, and inserts the operation as READY, without a session.
BeginPresent(o, r) ==
    /\ Unlocked /\ Writer(o)
    /\ NewOperation(o)
    /\ r.hash # NoHash
    /\ \/ reading[o] = r.hash /\ UNCHANGED object
       \/ /\ object[r.hash] = "ABSENT"
          /\ object' = [object EXCEPT ![r.hash] = "AVAILABLE"]
    /\ opState' = [opState EXCEPT ![o] = "READY"]
    /\ request' = [request EXCEPT ![o] = r]
    /\ reading' = [reading EXCEPT ![o] = NoHash]
    /\ UNCHANGED <<response, sessionVars, logVars, readerVars, jobVars, commitTx>>

\* The transaction of BeginUpload ends without effect.
BeginRollback(o) ==
    /\ reading[o] # NoHash
    /\ reading' = [reading EXCEPT ![o] = NoHash]
    /\ UNCHANGED <<opVars, sessionVars, object, logVars, readerVars, jobVars, commitTx>>

\* replayBeginUpload answers ObjectPresent, a session, or ErrInvalidState.
ReplaysPresent(o) == opState[o] \in {"READY", "COMPLETED"}
ReplaysRequired(o) ==
    /\ opState[o] \in {"RESERVED", "FAILED"}
    /\ session[o] \in {"ACTIVE", "VERIFIED"}

\* UpdateUploadProgress: received_size never moves back.
ProgressAccepted(o, n) ==
    /\ session[o] = "ACTIVE"
    /\ o \notin late
    /\ received[o] <= n
    /\ n <= SizeOf(request[o].hash)

UpdateUploadProgress(o, n) ==
    /\ ProgressAccepted(o, n)
    /\ received' = [received EXCEPT ![o] = n]
    /\ UNCHANGED <<opVars, session, late, objectVars, logVars, readerVars, jobVars, commitTx>>

\* MarkUploadVerified, on a session that is not VERIFIED already.
MarkUploadVerified(o) ==
    /\ session[o] = "ACTIVE"
    /\ o \notin late
    /\ received[o] = SizeOf(request[o].hash)
    /\ ObjectUsable(request[o].hash)
    /\ object' = [object EXCEPT ![request[o].hash] = "AVAILABLE"]
    /\ session' = [session EXCEPT ![o] = "VERIFIED"]
    /\ opState' = [opState EXCEPT ![o] = "READY"]
    /\ UNCHANGED <<request, response, received, late, reading, logVars, readerVars, jobVars, commitTx>>

\* Time passes: a session reaches its expires_at.
SessionTimesOut(o) ==
    /\ session[o] \in {"ACTIVE", "VERIFIED"}
    /\ o \notin late
    /\ late' = late \cup {o}
    /\ UNCHANGED <<opVars, session, received, objectVars, logVars, readerVars, jobVars, commitTx>>

-----------------------------------------------------------------------------
(* Commit *)

\* lockEntry and the version check: the request was made against the head.
BaseIsHead_Unchecked(r) == TRUE
BaseIsHead(r) == head[r.path] = r.base

\* requireMatchingSession, for a caller that supplies the session it has.
SessionMatches(o) == session[o] \in {"NONE", "VERIFIED"}

\* The transaction takes the operation, folder, quota and entry rows and
\* checks the upload.
CommitLock(o) ==
    /\ Unlocked /\ Writer(o)
    /\ opState[o] = "READY"
    /\ BaseIsHead(request[o])
    /\ object[request[o].hash] = "AVAILABLE"
    /\ SessionMatches(o)
    /\ commitTx' = o
    /\ UNCHANGED <<opVars, sessionVars, objectVars, logVars, readerVars, jobVars>>

\* What a commit of intent r of operation o writes.
InsertVersion(o, r) ==
    LET sequence == CurrentSequence + 1 IN
    /\ version' = Append(version, [path |-> r.path, base |-> r.base, hash |-> r.hash, op |-> o])
    /\ retained' = retained \cup {sequence}
    /\ superseded' = IF head[r.path] = 0 THEN superseded ELSE superseded \cup {head[r.path]}
    /\ head' = [head EXCEPT ![r.path] = sequence]
    /\ cursor' = [cursor EXCEPT ![Origin[o]] = Max2(@, sequence)]
    /\ opState' = [opState EXCEPT ![o] = "COMPLETED"]
    /\ response' = [response EXCEPT ![o] = sequence]
    /\ UNCHANGED <<received, late, objectVars, restoreFloor, readers, jobVars>>

CommitApply(o) ==
    /\ commitTx = o
    /\ InsertVersion(o, request[o])
    /\ session' = [session EXCEPT ![o] = IF @ = "VERIFIED" THEN "COMMITTED" ELSE @]
    /\ commitTx' = NoOp
    /\ UNCHANGED request

\* The connection is lost, or PostgreSQL resolves a deadlock against it.
CommitRollback ==
    /\ ~ Unlocked
    /\ commitTx' = NoOp
    /\ UNCHANGED <<opVars, sessionVars, objectVars, logVars, readerVars, jobVars>>

\* A DELETE has no upload: Commit inserts the operation row itself.
CommitDelete(o, r) ==
    /\ Unlocked /\ Writer(o)
    /\ NewOperation(o)
    /\ r.hash = NoHash
    /\ BaseIsHead(r)
    /\ InsertVersion(o, r)
    /\ request' = [request EXCEPT ![o] = r]
    /\ UNCHANGED <<session, commitTx>>

-----------------------------------------------------------------------------
(* Garbage collection *)

Expirable == {o \in late : session[o] \in {"ACTIVE", "VERIFIED", "EXPIRED"}}

\* ExpireUploadSessions, on a batch: the operations fail with their sessions.
ExpireUploadSessions(batch) ==
    /\ Unlocked
    /\ batch # {} /\ batch \subseteq Expirable
    /\ session' = [o \in Ops |-> IF o \in batch THEN "EXPIRED" ELSE session[o]]
    /\ opState' = [o \in Ops |->
                     IF o \in batch /\ opState[o] # "COMPLETED" THEN "FAILED" ELSE opState[o]]
    /\ UNCHANGED <<request, response, received, late, objectVars, logVars, readerVars, jobVars, commitTx>>

CompleteUploadCleanup(o) ==
    /\ session[o] = "EXPIRED"
    /\ session' = [session EXCEPT ![o] = "ABORTED"]
    /\ UNCHANGED <<opVars, received, late, objectVars, logVars, readerVars, jobVars, commitTx>>

\* sequence <= cursor_floor: every active reader has acknowledged it
AckedByReaders_AnyReader(i) == \E d \in readers : i <= cursor[d]
AckedByReaders(i) == readers # {} /\ \A d \in readers : i <= cursor[d]

\* a restore item of an active job names it
NeededByJob(i) == \E r \in Restores : ActiveJob(r) /\ i \in manifest[r]

\* it is what a pinned snapshot preserves of its path: FinishRestore unpins
\* the snapshot that StartRestore pinned
PreservedBySnapshot(i) == \E r \in Restores : ActiveJob(r) /\ i \in NewestAt(jobSequence[r])

Prunable ==
    {i \in retained : /\ AckedByReaders(i)
                      /\ i \in superseded
                      /\ \A p \in Paths : head[p] # i
                      /\ ~ NeededByJob(i)
                      /\ ~ PreservedBySnapshot(i)}

\* What was prunable before the current sequence can no longer be restored.
FloorAfter_NotMoved(batch) == restoreFloor
FloorAfter_OffByOne(batch) == CurrentSequence + 1
FloorAfter(batch) == IF batch = {} THEN restoreFloor ELSE CurrentSequence

\* PruneVersions deletes a batch of versions and their changes, moves the
\* restore floor to the current sequence, marks the contents the batch was the
\* last to reference and marks other unreferenced rows, old enough to be orphans.
PruneVersions(batch, orphans) ==
    LET kept == retained \ batch
        Unreferenced == {h \in Hashes : object[h] = "AVAILABLE" /\ ~ ReferencedIn(h, kept)}
        dropped == {h \in Unreferenced : \E i \in batch : version[i].hash = h}
    IN
    /\ batch \subseteq Prunable
    /\ batch # {} => Unlocked
    /\ orphans \subseteq Unreferenced
    /\ retained' = kept
    /\ superseded' = superseded \ batch
    /\ restoreFloor' = FloorAfter(batch)
    /\ object' = [h \in Hashes |->
                    IF h \in dropped \cup orphans THEN "PENDING_DELETE" ELSE object[h]]
    /\ UNCHANGED <<opVars, sessionVars, reading, version, head, readerVars, jobVars, commitTx>>

\* PendingGarbage: rows whose grace period is over and that nothing references
PendingGarbage == {h \in Hashes : object[h] = "PENDING_DELETE" /\ ~ ReferencedIn(h, retained)}

DeleteGarbageRecord(h) ==
    /\ h \in PendingGarbage
    /\ object' = [object EXCEPT ![h] = "ABSENT"]
    /\ UNCHANGED <<opVars, sessionVars, reading, logVars, readerVars, jobVars, commitTx>>

-----------------------------------------------------------------------------
(* Readers and restores *)

\* ConsumeEnrollment: the new device starts at the current sequence.
ConsumeEnrollment(d) ==
    /\ Unlocked
    /\ d \notin readers
    /\ readers' = readers \cup {d}
    /\ cursor' = [cursor EXCEPT ![d] = CurrentSequence]
    /\ UNCHANGED <<opVars, sessionVars, objectVars, logVars, jobVars, commitTx>>

AckChanges(d, n) ==
    /\ d \in readers
    /\ n \in 0..CurrentSequence
    /\ cursor' = [cursor EXCEPT ![d] = Max2(@, n)]
    /\ UNCHANGED <<opVars, sessionVars, objectVars, logVars, readers, jobVars, commitTx>>

\* A request for sequence 0 means the current one.
SnapshotSequence(asked) == IF asked = 0 THEN CurrentSequence ELSE asked

RestorableAt_FloorIgnored(s) == s <= CurrentSequence
RestorableAt(s) == restoreFloor <= s /\ s <= CurrentSequence

\* StartRestore pins the snapshot and freezes the manifest: what NewestAt
\* shows there, without the deleted paths.
StartRestore(r, asked) ==
    LET s == SnapshotSequence(asked)
        items == {i \in NewestAt(s) : version[i].hash # NoHash}
    IN
    /\ Unlocked
    /\ Target[r] \in readers
    /\ jobState[r] = "NONE"
    /\ RestorableAt(s)
    /\ jobState' = [jobState EXCEPT ![r] = "READY"]
    /\ jobSequence' = [jobSequence EXCEPT ![r] = s]
    /\ manifest' = [manifest EXCEPT ![r] = items]
    /\ openItems' = [openItems EXCEPT ![r] = items]
    /\ UNCHANGED <<failedItems, opVars, sessionVars, objectVars, logVars, readerVars, commitTx>>

\* ListRestoreItems claims the job for its target.
ListRestoreItems(r) ==
    /\ jobState[r] = "READY"
    /\ jobState' = [jobState EXCEPT ![r] = "RUNNING"]
    /\ UNCHANGED <<jobSequence, manifest, openItems, failedItems,
                   opVars, sessionVars, objectVars, logVars, readerVars, commitTx>>

\* ReportRestoreItem: an item is settled once, as applied (or skipped) or failed.
ReportRestoreItem(r, i, applied) ==
    /\ ActiveJob(r)
    /\ i \in openItems[r]
    /\ jobState' = [jobState EXCEPT ![r] = "RUNNING"]
    /\ openItems' = [openItems EXCEPT ![r] = @ \ {i}]
    /\ failedItems' = [failedItems EXCEPT ![r] = IF applied THEN @ ELSE @ \cup {i}]
    /\ UNCHANGED <<jobSequence, manifest, opVars, sessionVars, objectVars, logVars, readerVars, commitTx>>

\* FinishRestore unpins the snapshot; a success acknowledges it.
FinishRestore(r, success) ==
    /\ ActiveJob(r)
    /\ success => openItems[r] = {} /\ failedItems[r] = {}
    /\ jobState' = [jobState EXCEPT ![r] = IF success THEN "COMPLETED" ELSE "FAILED"]
    /\ cursor' = IF success
                 THEN [cursor EXCEPT ![Target[r]] = Max2(@, jobSequence[r])]
                 ELSE cursor
    /\ UNCHANGED <<readers, jobSequence, manifest, openItems, failedItems,
                   opVars, sessionVars, objectVars, logVars, commitTx>>

-----------------------------------------------------------------------------

UploadNext ==
    \/ \E h \in Hashes : EnsureObject(h)
    \/ \E o \in Ops :
        \/ \E p \in Paths, b \in 0..CurrentSequence, h \in Hashes :
              LET r == [path |-> p, base |-> b, hash |-> h] IN
              BeginRequired(o, r) \/ BeginPresent(o, r)
        \/ \E h \in Hashes : BeginCheck(o, h)
        \/ BeginRollback(o)
        \/ \E n \in 0..SizeOf(request[o].hash) : UpdateUploadProgress(o, n)
        \/ MarkUploadVerified(o)
        \/ SessionTimesOut(o)

CommitNext ==
    \/ \E o \in Ops :
        \/ CommitLock(o)
        \/ CommitApply(o)
        \/ \E p \in Paths, b \in 0..CurrentSequence :
              CommitDelete(o, [path |-> p, base |-> b, hash |-> NoHash])
    \/ CommitRollback

GarbageNext ==
    \/ \E batch \in SUBSET Expirable : ExpireUploadSessions(batch)
    \/ \E o \in Ops : CompleteUploadCleanup(o)
    \/ \E batch \in SUBSET Prunable, orphans \in SUBSET Hashes : PruneVersions(batch, orphans)
    \/ \E h \in Hashes : DeleteGarbageRecord(h)

ReaderNext ==
    \/ \E d \in Devices :
        \/ ConsumeEnrollment(d)
        \/ \E n \in 0..CurrentSequence : AckChanges(d, n)
    \/ \E r \in Restores :
        \/ \E asked \in 0..CurrentSequence : StartRestore(r, asked)
        \/ ListRestoreItems(r)
        \/ \E i \in openItems[r], applied \in BOOLEAN : ReportRestoreItem(r, i, applied)
        \/ \E success \in BOOLEAN : FinishRestore(r, success)

Next == UploadNext \/ CommitNext \/ GarbageNext \/ ReaderNext

Spec == Init /\ [][Next]_vars

-----------------------------------------------------------------------------
(* Properties *)

\* Every row holds what the schema and the code let it hold.
TypeOK ==
    /\ opState \in [Ops -> OpStates]
    /\ request \in [Ops -> Request \cup {NoRequest}]
    /\ response \in [Ops -> Nat]
    /\ session \in [Ops -> SessionStates]
    /\ received \in [Ops -> Nat]
    /\ late \subseteq Ops
    /\ object \in [Hashes -> ObjectStates]
    /\ reading \in [Ops -> Hashes \cup {NoHash}]
    /\ version \in Seq(Version)
    /\ retained \subseteq 1..CurrentSequence
    /\ superseded \subseteq retained
    /\ head \in [Paths -> 0..CurrentSequence]
    /\ restoreFloor \in 0..CurrentSequence
    /\ readers \subseteq Devices
    /\ cursor \in [Devices -> 0..CurrentSequence]
    /\ jobState \in [Restores -> JobStates]
    /\ jobSequence \in [Restores -> 0..CurrentSequence]
    /\ manifest \in [Restores -> SUBSET (1..CurrentSequence)]
    /\ openItems \in [Restores -> SUBSET (1..CurrentSequence)]
    /\ failedItems \in [Restores -> SUBSET (1..CurrentSequence)]
    /\ commitTx \in Ops \cup {NoOp}

\* The newest version of path p at or below sequence s in the whole history.
IsNewest(i, p, s) ==
    /\ i \in 1..CurrentSequence /\ i <= s /\ version[i].path = p
    /\ \A j \in 1..CurrentSequence : j <= s /\ version[j].path = p => j <= i

\* No lost update: every version was made on top of the version it replaces,
\* and the entry's head is the newest version of its path, whatever the
\* devices, the retries and the order of their commits (optimistic check of
\* Commit under the folder's row lock).
NoLostUpdate ==
    /\ \A i \in 1..CurrentSequence :
          LET v == version[i] IN
          IF v.base = 0
          THEN \A j \in 1..(i - 1) : version[j].path # v.path
          ELSE v.base < i /\ IsNewest(v.base, v.path, i - 1)
    /\ \A p \in Paths :
          IF head[p] = 0
          THEN \A j \in 1..CurrentSequence : version[j].path # p
          ELSE head[p] \in retained /\ IsNewest(head[p], p, CurrentSequence)

\* An operation takes effect at most once, at the sequence that its stored
\* response reports, and it is COMPLETED exactly when it did (idempotent replay
\* of Commit and BeginUpload).
AtMostOnce ==
    /\ \A i, j \in 1..CurrentSequence : version[i].op = version[j].op => i = j
    /\ \A i \in 1..CurrentSequence : response[version[i].op] = i
    /\ \A o \in Ops :
          /\ opState[o] = "COMPLETED" <=> response[o] # 0
          /\ response[o] # 0 =>
                response[o] \in 1..CurrentSequence /\ version[response[o]].op = o

\* The content of every retained version has a row that is AVAILABLE: garbage
\* marking and row deletion never hit a content between its upload and the
\* commit that uses it, nor one that a version still needs.
RetainedAvailable ==
    \A i \in retained : version[i].hash # NoHash => object[version[i].hash] = "AVAILABLE"

\* A snapshot at or above the restore floor is complete: the newest version of
\* each path at that sequence is still there (PruneVersions moves the floor
\* past everything it makes partial).
RestorableHistory ==
    \A s \in restoreFloor..CurrentSequence : \A i \in 1..CurrentSequence :
        IsNewest(i, version[i].path, s) => i \in retained

\* The manifest of an active restore stays what the folder held at its
\* sequence, with all its versions still there, however much is committed and
\* pruned before it ends.
ManifestIntact ==
    \A r \in Restores : ActiveJob(r) =>
        /\ manifest[r] \subseteq retained
        /\ manifest[r] = {i \in 1..CurrentSequence :
                            /\ IsNewest(i, version[i].path, jobSequence[r])
                            /\ version[i].hash # NoHash}

\* A change that an active reader has not acknowledged is never pruned: the
\* list it gets from ListChanges has no gap.
UnreadRetained ==
    \A d \in readers : {i \in 1..CurrentSequence : i > cursor[d]} \subseteq retained

\* What a device was told stays true: a completed operation keeps its state
\* and its response, a failed one never completes, and an acknowledgement, the
\* history and the restore floor never move back.
OutcomesAreFinal ==
    [][/\ \A o \in Ops :
            /\ opState[o] = "COMPLETED" => opState'[o] = "COMPLETED" /\ response'[o] = response[o]
            /\ opState[o] = "FAILED" => opState'[o] = "FAILED"
       /\ \A d \in Devices : cursor[d] <= cursor'[d]
       /\ restoreFloor <= restoreFloor'
       /\ \A i \in 1..CurrentSequence : version'[i] = version[i]]_vars

\* The store as the devices see it: a log of versions.
Log == INSTANCE FolderLog WITH
    Jobs <- Restores,
    log <- version,
    outcome <- response,
    failed <- {o \in Ops : opState[o] = "FAILED"},
    kept <- retained,
    floor <- restoreFloor,
    readers <- readers,
    seen <- cursor,
    snapshot <- [r \in Restores |-> IF ActiveJob(r) THEN manifest[r] ELSE {}]

\* The metadata store implements the folder log: the transactions of uploads,
\* garbage collection and restores, and the replays of a retried operation,
\* publish, forget and hold versions only as the log allows.
ImplementsFolderLog == Log!Spec
=============================================================================
