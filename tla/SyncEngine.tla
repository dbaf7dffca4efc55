----------------------------- MODULE SyncEngine -----------------------------
(***************************************************************************)
(* The sync engine of sync-server (internal/syncengine) between its two    *)
(* stores: the metadata store (module Metadata) and the local blob store   *)
(* (internal/blob), with the garbage collector (internal/garbage) that     *)
(* works on both.                                                          *)
(*                                                                         *)
(* The two stores share no transaction, so a request handler is a worker   *)
(* that makes one call at a time, and between two calls the other workers  *)
(* and the collector run.  A handler can stop before any of its calls: the *)
(* client is gone, a disk or a connection fails, the call is refused; the  *)
(* server can crash, which stops everything.  The blob store syncs what it *)
(* acknowledges, so files survive.                                         *)
(*                                                                         *)
(* Two workers may serve the same operation: a device that lost its        *)
(* connection retries while the first handler is still running.            *)
(*                                                                         *)
(* A definition named X_Mistake is X with one plausible mistake; no action *)
(* uses it (see README.md, "Mutants").                                     *)
(***************************************************************************)
EXTENDS Metadata

CONSTANTS
    Workers,   \* request handlers that can run at a time
    Intents,   \* the changes that the devices may have to submit, by operation
    Unstable   \* the operations whose file may change while it is uploaded

ASSUME EngineConstantsOK ==
    /\ Intents \subseteq [Ops -> [path : Paths, hash : Hashes \cup {NoHash}]]
    /\ Unstable \subseteq Ops

VARIABLES
    intent,    \* what the device's queue holds under each operation id
    task,      \* each worker's operation, next call and byte count
    part,      \* length of uploads/<session>.part, NoPart when there is no file
    spoiled,   \* operations whose part holds other bytes than they declared
    blob,      \* contents with a file under objects/sha256
    gc         \* the collector's next call, and the lists it works through

NoPart == -1
IdleTask == [op |-> NoOp, call |-> "idle", n |-> 0]
IdleCollector == [call |-> "idle", current |-> NoOp, expired |-> {}, garbage |-> {}]

fileVars == <<part, spoiled, blob>>
engineVars == <<intent, task, fileVars, gc>>
allVars == <<vars, engineVars>>

Hash(o) == intent[o].hash
DeclaredSize(o) == SizeOf(Hash(o))
RequestOf(o, base) == [path |-> intent[o].path, base |-> base, hash |-> Hash(o)]
PartLength(o) == IF part[o] = NoPart THEN 0 ELSE part[o]

\* blobs.Exists
Exists(h) == h \in blob

\* Append: the chunk belongs where the file ends.
AtEnd_Anywhere(o, offset) == TRUE
AtEnd(o, offset) == offset = PartLength(o)

Vacant(w) == task[w].call = "idle"
At(w, call) == task[w].call = call
Start(w, o, call) == task' = [task EXCEPT ![w] = [op |-> o, call |-> call, n |-> 0]]
Proceed(w, call, n) == task' = [task EXCEPT ![w] = [@ EXCEPT !.call = call, !.n = n]]
Return(w) == task' = [task EXCEPT ![w] = IdleTask]

EngineInit ==
    /\ Init
    /\ intent \in Intents
    /\ task = [w \in Workers |-> IdleTask]
    /\ part = [o \in Ops |-> NoPart]
    /\ spoiled = {}
    /\ blob = {}
    /\ gc = IdleCollector

-----------------------------------------------------------------------------
(* BeginUpload *)

\* The engine asks the blob store whether the content is there.
CallBegin(w, o) ==
    /\ Vacant(w)
    /\ Hash(o) # NoHash
    /\ Start(w, o, IF Exists(Hash(o)) THEN "ensure" ELSE "absent")
    /\ UNCHANGED <<vars, intent, fileVars, gc>>

\* EnsureObject inserts the row, or finds it AVAILABLE.
Ensured_Revives(h) ==
    /\ object' = [object EXCEPT ![h] = "AVAILABLE"]
    /\ UNCHANGED <<opVars, sessionVars, reading, logVars, readerVars, jobVars, commitTx>>
Ensured(h) ==
    \/ EnsureObject(h)
    \/ object[h] = "AVAILABLE" /\ UNCHANGED vars

BeginEnsure(w) ==
    /\ At(w, "ensure")
    /\ Ensured(Hash(task[w].op))
    /\ Proceed(w, "present", 0)
    /\ UNCHANGED <<intent, fileVars, gc>>

BeginRead(w) ==
    /\ At(w, "present")
    /\ reading[task[w].op] = NoHash
    /\ BeginCheck(task[w].op, Hash(task[w].op))
    /\ Proceed(w, "read", 0)
    /\ UNCHANGED <<intent, fileVars, gc>>

\* The answer is ObjectPresent.
BeginWithObject(w, base) ==
    /\ task[w].call \in {"present", "read"}
    /\ BeginPresent(task[w].op, RequestOf(task[w].op, base))
    /\ Return(w)
    /\ UNCHANGED <<intent, fileVars, gc>>

BeginWithSession(w, base) ==
    /\ At(w, "absent")
    /\ BeginRequired(task[w].op, RequestOf(task[w].op, base))
    /\ Proceed(w, "resume", 0)
    /\ UNCHANGED <<intent, fileVars, gc>>

\* The operation is there already: the same disposition as the first time.
BeginReplay(w) ==
    /\ task[w].call \in {"present", "read", "absent"}
    /\ \/ ReplaysPresent(task[w].op) /\ Return(w)
       \/ ReplaysRequired(task[w].op) /\ Proceed(w, "resume", 0)
    /\ UNCHANGED <<vars, intent, fileVars, gc>>

\* Resume reads the length of the part; a part that is too long is removed.
Resume(w) ==
    LET o == task[w].op
        long == PartLength(o) > DeclaredSize(o)
    IN
    /\ At(w, "resume")
    /\ IF long THEN Return(w) ELSE Proceed(w, "resumed", PartLength(o))
    /\ part' = IF long THEN [part EXCEPT ![o] = NoPart] ELSE part
    /\ UNCHANGED <<vars, intent, spoiled, blob, gc>>

\* The part's length is recorded, after a resume or an append.
RecordProgress(w) ==
    /\ task[w].call \in {"resumed", "appended"}
    /\ UpdateUploadProgress(task[w].op, task[w].n)
    /\ Return(w)
    /\ UNCHANGED <<intent, fileVars, gc>>

-----------------------------------------------------------------------------
(* Upload: AppendUpload for every chunk, then FinalizeUpload *)

SessionOpen(o) == session[o] = "ACTIVE" /\ o \notin late

CallAppend(w, o) ==
    /\ Vacant(w)
    /\ SessionOpen(o)
    /\ Start(w, o, "append")
    /\ UNCHANGED <<vars, intent, fileVars, gc>>

\* Append writes n - offset bytes where the part ends, or, at another offset,
\* leaves the part, which it has created if there was none.  A write that
\* stops half-way is a shorter one after which the handler stops.  An unstable
\* file may have changed since the device hashed it (clean = FALSE).
AppendPart(w, offset, n, clean) ==
    LET o == task[w].op IN
    /\ At(w, "append")
    /\ offset <= n /\ n <= DeclaredSize(o)
    /\ clean \/ o \in Unstable
    /\ IF AtEnd(o, offset)
       THEN /\ part' = [part EXCEPT ![o] = PartLength(o) + (n - offset)]
            /\ spoiled' = IF clean \/ n = offset THEN spoiled ELSE spoiled \cup {o}
            /\ Proceed(w, "appended", n)
       ELSE /\ part' = [part EXCEPT ![o] = PartLength(o)]
            /\ Return(w)
            /\ UNCHANGED spoiled
    /\ UNCHANGED <<vars, intent, blob, gc>>

CallFinalize(w, o) ==
    /\ Vacant(w)
    /\ SessionOpen(o)
    /\ received[o] = DeclaredSize(o)
    /\ Start(w, o, "finalize")
    /\ UNCHANGED <<vars, intent, fileVars, gc>>

\* Finalize hashes the part: one with other bytes is removed, the right one
\* becomes the object, or is removed when the object exists.
Finalize(w) ==
    LET o == task[w].op IN
    /\ At(w, "finalize")
    /\ part[o] = DeclaredSize(o)
    /\ part' = [part EXCEPT ![o] = NoPart]
    /\ spoiled' = spoiled \ {o}
    /\ IF o \in spoiled
       THEN Return(w) /\ UNCHANGED blob
       ELSE Proceed(w, "mark", 0) /\ blob' = blob \cup {Hash(o)}
    /\ UNCHANGED <<vars, intent, gc>>

MarkVerified(w) ==
    /\ At(w, "mark")
    /\ \/ MarkUploadVerified(task[w].op)
       \/ session[task[w].op] = "VERIFIED" /\ UNCHANGED vars
    /\ Return(w)
    /\ UNCHANGED <<intent, fileVars, gc>>

-----------------------------------------------------------------------------
(* Commit *)

\* Commit asks the blob store again, however the upload ended.
StillStored_Trusted(o) == TRUE
StillStored(o) == Exists(Hash(o))

\* A device commits once the server has told it that the upload is done.
CallCommit(w, o) ==
    /\ Vacant(w)
    /\ Hash(o) # NoHash
    /\ opState[o] \in {"READY", "COMPLETED"}
    /\ StillStored(o)
    /\ Start(w, o, "commit-ensure")
    /\ UNCHANGED <<vars, intent, fileVars, gc>>

CommitEnsure(w) ==
    /\ At(w, "commit-ensure")
    /\ Ensured(Hash(task[w].op))
    /\ Proceed(w, "commit-session", 0)
    /\ UNCHANGED <<intent, fileVars, gc>>

\* UploadSession, when the device names one, must be VERIFIED or COMMITTED.
CommitSession(w) ==
    /\ At(w, "commit-session")
    /\ session[task[w].op] \in {"NONE", "VERIFIED", "COMMITTED"}
    /\ Proceed(w, "commit", 0)
    /\ UNCHANGED <<vars, intent, fileVars, gc>>

CommitBegin(w) ==
    /\ At(w, "commit")
    /\ CommitLock(task[w].op)
    /\ Proceed(w, "locked", 0)
    /\ UNCHANGED <<intent, fileVars, gc>>

CommitEnd(w) ==
    /\ At(w, "locked")
    /\ CommitApply(task[w].op)
    /\ Return(w)
    /\ UNCHANGED <<intent, fileVars, gc>>

CommitReplay(w) ==
    /\ At(w, "commit")
    /\ opState[task[w].op] = "COMPLETED"
    /\ Return(w)
    /\ UNCHANGED <<vars, intent, fileVars, gc>>

\* A DELETE has no content: its Commit is one transaction.
DeleteFile(o, base) ==
    /\ Hash(o) = NoHash
    /\ CommitDelete(o, RequestOf(o, base))
    /\ UNCHANGED engineVars

-----------------------------------------------------------------------------
(* Failures *)

\* The transactions that the stopped workers had open are rolled back.
RollBack(stopped) ==
    /\ commitTx' = IF \E w \in stopped : At(w, "locked") THEN NoOp ELSE commitTx
    /\ reading' = [o \in Ops |->
                     IF \E w \in stopped : At(w, "read") /\ task[w].op = o
                     THEN NoHash ELSE reading[o]]
    /\ task' = [w \in Workers |-> IF w \in stopped THEN IdleTask ELSE task[w]]
    /\ UNCHANGED <<opVars, sessionVars, object, logVars, readerVars, jobVars, intent, fileVars>>

\* A handler stops: its context ends, or its next call fails.
HandlerFails(w) ==
    /\ ~ Vacant(w)
    /\ RollBack({w})
    /\ UNCHANGED gc

\* The server crashes and restarts.
Crash ==
    /\ RollBack(Workers)
    /\ gc' = IdleCollector

-----------------------------------------------------------------------------
(* Collector.RunOnce *)

Collecting(call) == gc.call = call

CollectExpired(batch) ==
    /\ Collecting("idle")
    /\ IF batch = {} THEN UNCHANGED vars ELSE ExpireUploadSessions(batch)
    /\ gc' = [IdleCollector EXCEPT !.call = "abort", !.expired = batch]
    /\ UNCHANGED <<intent, task, fileVars>>

\* Abort removes the part of an expired session...
AbortPart(o) ==
    /\ Collecting("abort") /\ o \in gc.expired
    /\ part' = [part EXCEPT ![o] = NoPart]
    /\ spoiled' = spoiled \ {o}
    /\ gc' = [gc EXCEPT !.call = "cleanup", !.current = o]
    /\ UNCHANGED <<vars, intent, task, blob>>

\* ... and CompleteUploadCleanup records that it has.
RecordCleanup ==
    /\ Collecting("cleanup")
    /\ CompleteUploadCleanup(gc.current)
    /\ gc' = [gc EXCEPT !.call = "abort", !.current = NoOp, !.expired = @ \ {gc.current}]
    /\ UNCHANGED <<intent, task, fileVars>>

CollectVersions(batch, orphans) ==
    /\ Collecting("abort") /\ gc.expired = {}
    /\ PruneVersions(batch, orphans)
    /\ gc' = [gc EXCEPT !.call = "list", !.garbage = {h \in Hashes : object[h] = "PENDING_DELETE"}]
    /\ UNCHANGED <<intent, task, fileVars>>

\* Rows whose grace period is over are listed: none that this pass has marked,
\* because a pass has one notion of now and a grace period is at least a minute...
ListGarbage(rows) ==
    /\ Collecting("list")
    /\ rows \subseteq PendingGarbage \cap gc.garbage
    /\ gc' = [gc EXCEPT !.call = "delete", !.garbage = rows]
    /\ UNCHANGED <<vars, intent, task, fileVars>>

\* ... then each blob is deleted before its record.
DeleteBlob(h) ==
    /\ Collecting("delete") /\ h \in gc.garbage
    /\ blob' = blob \ {h}
    /\ gc' = [gc EXCEPT !.call = "record", !.current = h]
    /\ UNCHANGED <<vars, intent, task, part, spoiled>>

DeleteRecord ==
    /\ Collecting("record")
    /\ DeleteGarbageRecord(gc.current)
    /\ gc' = [gc EXCEPT !.call = "delete", !.current = NoOp, !.garbage = @ \ {gc.current}]
    /\ UNCHANGED <<intent, task, fileVars>>

\* The pass is over, or a call failed, or the record is referenced again.
CollectorReturns ==
    /\ gc # IdleCollector
    /\ gc' = IdleCollector
    /\ UNCHANGED <<vars, intent, task, fileVars>>

-----------------------------------------------------------------------------

BeginUpload(w) ==
    \/ \E o \in Ops : CallBegin(w, o)
    \/ BeginEnsure(w)
    \/ BeginRead(w)
    \/ \E base \in 0..CurrentSequence : BeginWithObject(w, base) \/ BeginWithSession(w, base)
    \/ BeginReplay(w)
    \/ Resume(w)
    \/ RecordProgress(w)

Upload(w) ==
    \/ \E o \in Ops : CallAppend(w, o) \/ CallFinalize(w, o)
    \/ /\ At(w, "append")
       /\ \E n \in 0..DeclaredSize(task[w].op) : \E offset \in 0..n, clean \in BOOLEAN :
             AppendPart(w, offset, n, clean)
    \/ Finalize(w)
    \/ MarkVerified(w)

Commit(w) ==
    \/ \E o \in Ops : CallCommit(w, o)
    \/ CommitEnsure(w)
    \/ CommitSession(w)
    \/ CommitBegin(w)
    \/ CommitEnd(w)
    \/ CommitReplay(w)

RunOnce ==
    \/ \E batch \in SUBSET Expirable : CollectExpired(batch)
    \/ \E o \in Ops : AbortPart(o)
    \/ RecordCleanup
    \/ \E batch \in SUBSET Prunable, orphans \in SUBSET Hashes : CollectVersions(batch, orphans)
    \/ \E rows \in SUBSET Hashes : ListGarbage(rows)
    \/ \E h \in Hashes : DeleteBlob(h)
    \/ DeleteRecord
    \/ CollectorReturns

Environment ==
    \/ \E w \in Workers : HandlerFails(w)
    \/ Crash
    \/ \E o \in Ops, base \in 0..CurrentSequence : DeleteFile(o, base)
    \/ \E o \in Ops : SessionTimesOut(o) /\ UNCHANGED engineVars
    \/ ReaderNext /\ UNCHANGED engineVars

EngineNext ==
    \/ \E w \in Workers : BeginUpload(w) \/ Upload(w) \/ Commit(w)
    \/ RunOnce
    \/ Environment

EngineSpec == EngineInit /\ [][EngineNext]_allVars

-----------------------------------------------------------------------------
(* Properties *)

\* Files, handlers and the collector are in states the code can be in.
EngineTypeOK ==
    /\ intent \in Intents
    /\ \A w \in Workers :
          /\ task[w].op \in Ops \cup {NoOp}
          /\ task[w].op = NoOp <=> Vacant(w)
          /\ task[w].op # NoOp => task[w].n \in 0..DeclaredSize(task[w].op)
    /\ \A o \in Ops : part[o] = NoPart \/ part[o] \in 0..DeclaredSize(o)
    /\ spoiled \subseteq Ops
    /\ blob \subseteq Hashes
    /\ gc.expired \subseteq Ops /\ gc.garbage \subseteq Hashes

\* No acknowledged data is lost: the content of every version that can still
\* be listed or restored is in the blob store, whatever handlers, crashes and
\* collector passes ran between Exists, EnsureObject, Commit, PruneVersions
\* and Delete.
NoCommittedDataLoss ==
    \A i \in retained : version[i].hash # NoHash => version[i].hash \in blob

\* A verified upload keeps its content and its row until it is committed or
\* expires: the collector never takes what a device was told is stored.
VerifiedStored ==
    \A o \in Ops : session[o] = "VERIFIED" =>
        Hash(o) \in blob /\ object[Hash(o)] = "AVAILABLE"

\* A row the collector has chosen stays chosen: while its blob is being
\* deleted nobody makes the content AVAILABLE again.
GarbageStaysGarbage ==
    \A h \in gc.garbage : object[h] = "PENDING_DELETE"

\* An upload that is interrupted can be resumed: while the session is open,
\* the length of the part is accepted as its progress (BeginUpload's Resume
\* and UpdateUploadProgress).
ResumeAccepted ==
    \A w \in Workers : At(w, "resumed") /\ SessionOpen(task[w].op) =>
        ProgressAccepted(task[w].op, task[w].n)

\* A blob is removed only while nothing references it (RunOnce's Delete).
OnlyUnreferencedRemoved ==
    [][\A h \in blob \ blob' : ~ ReferencedIn(h, retained)]_allVars

\* Once the cleanup of an expired session is acknowledged its part is gone.
PartReclaimed ==
    \A o \in Ops : session[o] = "ABORTED" => part[o] = NoPart
=============================================================================
