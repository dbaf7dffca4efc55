------------------------------- MODULE Agent -------------------------------
(***************************************************************************)
(* One root of sync-agent: the scanner (internal/agent/scanner.go), the    *)
(* SQLite queue they share (internal/localdb) and the processor            *)
(* (internal/agent/processor.go), with the user's edits on one side and    *)
(* the server on the other.  An action is one SQLite statement or          *)
(* transaction, one look at a file or one remote call; scanner and         *)
(* processor interleave at this grain, the agent may be killed between any *)
(* two, and requests and answers may be lost or late.                      *)
(*                                                                         *)
(* The state of a file (hash, size, mtime, mode) is a stamp; 0 is no file. *)
(* A write makes a state the file has not had before.  An operation is     *)
(* named by its place in the order of creation, a version by its sequence  *)
(* number.  The server is what Metadata promises to one device: a commit   *)
(* is applied once, and only on top of the head.                           *)
(*                                                                         *)
(* A definition named X_Mistake is X with one plausible mistake; no action *)
(* uses it (see README.md, "Mutants").                                     *)
(***************************************************************************)
EXTENDS Integers, Sequences, FiniteSets

CONSTANTS
    Paths,
    MaxEdits,     \* how often the user changes the root
    MaxFaults     \* how often something fails: a call, a read, the process

ASSUME BoundsOK == MaxEdits \in Nat /\ MaxFaults \in Nat

VARIABLES
    disk,      \* the stamp of the file at each path
    edits,     \* the edits made so far
    faults,    \* the faults that have happened
    entry,     \* local_entries
    seen,      \* the paths whose scan_generation is the current one
    queue,     \* pending_operations, in the order of created_at
    scan,      \* the Scan in progress
    gone,      \* the paths that had no file at some time during the scan
    work,      \* the ProcessNext in progress
    network,   \* the operations whose Commit request is on its way
    log        \* the versions the server has committed

userVars == <<disk, edits>>
tableVars == <<entry, seen>>
serverVars == <<network, log>>
vars == <<userVars, faults, tableVars, queue, scan, gone, work, serverVars>>

-----------------------------------------------------------------------------

NoFile == 0
Conflict == -1
NoOp == 0

Stamps == 0..MaxEdits
Entry == [found : BOOLEAN, present : BOOLEAN, stamp : Stamps, version : Nat]
NoEntry == [found |-> FALSE, present |-> FALSE, stamp |-> NoFile, version |-> 0]

OpStates == {"QUEUED", "RESERVING", "UPLOADING", "COMMITTING", "RETRY_WAIT",
             "BLOCKED", "COMPLETED", "CANCELLED"}
InFlight == {"RESERVING", "UPLOADING", "COMMITTING"}
Closed == {"COMPLETED", "CANCELLED"}

\* An operation with no file is a DELETE.
Operation == [path : Paths, stamp : Stamps, base : Nat, state : OpStates]
IsDelete(o) == queue[o].stamp = NoFile

\* A version that the server has committed for an operation.
Version == [path : Paths, stamp : Stamps, op : Nat]

\* step: the next thing to do; todo: the paths left; path: the one in hand;
\* old, new: what Scan has read of the rows and of the file.
ScanSteps == {"idle", "walk", "capture", "same", "enqueue", "upsert", "missing", "absent"}
NoRows == [p \in Paths |-> NoEntry]
NoScan == [step |-> "idle", todo |-> {}, path |-> {}, old |-> NoRows, new |-> NoFile]

Init ==
    /\ disk = [p \in Paths |-> NoFile]
    /\ edits = 0
    /\ faults = 0
    /\ entry = [p \in Paths |-> NoEntry]
    /\ seen = {}
    /\ queue = <<>>
    /\ scan = NoScan
    /\ gone = {}
    /\ work = [step |-> "down", op |-> NoOp, answer |-> 0]
    /\ network = {}
    /\ log = <<>>

Fault == faults < MaxFaults /\ faults' = faults + 1

-----------------------------------------------------------------------------
(* The user *)

Write(p) ==
    /\ edits < MaxEdits
    /\ edits' = edits + 1
    /\ disk' = [disk EXCEPT ![p] = edits + 1]
    /\ UNCHANGED <<faults, tableVars, queue, scan, gone, work, serverVars>>

Remove(p) ==
    /\ edits < MaxEdits
    /\ disk[p] # NoFile
    /\ edits' = edits + 1
    /\ disk' = [disk EXCEPT ![p] = NoFile]
    /\ gone' = gone \cup {p}
    /\ UNCHANGED <<faults, tableVars, queue, scan, work, serverVars>>

-----------------------------------------------------------------------------
(* The statements of localdb *)

\* Transition changes the row only in the state its caller expects.
Moved(o, from, to) ==
    IF queue[o].state = from THEN [queue EXCEPT ![o].state = to] ELSE queue

\* The first statement of Enqueue, and CancelPath.
Cancelled_QueuedOnly(p) ==
    [o \in DOMAIN queue |->
       IF queue[o].path = p /\ queue[o].state = "QUEUED"
       THEN [queue[o] EXCEPT !.state = "CANCELLED"] ELSE queue[o]]
Cancelled(p) ==
    [o \in DOMAIN queue |->
       IF queue[o].path = p /\ queue[o].state \notin Closed
       THEN [queue[o] EXCEPT !.state = "CANCELLED"] ELSE queue[o]]

Enqueued(p, stamp, base) ==
    Append(Cancelled(p), [path |-> p, stamp |-> stamp, base |-> base, state |-> "QUEUED"])

\* UpsertEntry keeps the server version of the row only if it is given none.
Upserted(p, present, stamp, version) ==
    [entry EXCEPT ![p] =
       [found |-> TRUE, present |-> present, stamp |-> stamp,
        version |-> IF version # 0 THEN version ELSE @.version]]

\* ClaimNext takes the oldest row that is due; a row in RETRY_WAIT may or may
\* not be.
Claimable_QueuedOnly(o) == queue[o].state = "QUEUED"
Claimable(o) == queue[o].state \in {"QUEUED", "RETRY_WAIT"}
Due(o) == Claimable(o) /\ \A q \in 1..(o - 1) : queue[q].state # "QUEUED"

Recovered_NotCommitting(state) ==
    IF state \in {"RESERVING", "UPLOADING"} THEN "RETRY_WAIT" ELSE state
Recovered(state) == IF state \in InFlight THEN "RETRY_WAIT" ELSE state

-----------------------------------------------------------------------------
(* The scanner *)

NextFile == [scan EXCEPT !.step = "walk", !.path = {}, !.old = NoRows, !.new = NoFile]

\* The order of Scan's writes for a changed file.
FirstWrite_Entry == "upsert"
FirstWrite == "enqueue"
SecondWrite == CHOOSE step \in {"enqueue", "upsert"} : step # FirstWrite
AfterWrite(step) == IF step = FirstWrite THEN [scan EXCEPT !.step = SecondWrite] ELSE NextFile

BeginScan ==
    /\ work.step # "down"
    /\ scan.step = "idle"
    /\ seen' = {}
    /\ scan' = [scan EXCEPT !.step = "walk", !.todo = Paths]
    /\ gone' = {p \in Paths : disk[p] = NoFile}
    /\ UNCHANGED <<userVars, faults, entry, queue, work, serverVars>>

\* WalkDir does not find the file.
WalkPast(p) ==
    /\ scan.step = "walk" /\ p \in scan.todo
    /\ disk[p] = NoFile
    /\ scan' = [scan EXCEPT !.todo = @ \ {p}]
    /\ UNCHANGED <<userVars, faults, tableVars, queue, gone, work, serverVars>>

ReadEntry(p) ==
    /\ scan.step = "walk" /\ p \in scan.todo
    /\ disk[p] # NoFile
    /\ scan' = [scan EXCEPT !.step = "capture", !.todo = @ \ {p}, !.path = {p}, !.old[p] = entry[p]]
    /\ UNCHANGED <<userVars, faults, tableVars, queue, gone, work, serverVars>>

Unchanged(old, stamp) == old.found /\ old.present /\ old.stamp = stamp

ScanCapture(p) ==
    /\ scan.step = "capture" /\ p \in scan.path
    /\ disk[p] # NoFile
    /\ scan' = [scan EXCEPT !.new = disk[p],
                            !.step = IF Unchanged(scan.old[p], disk[p]) THEN "same" ELSE FirstWrite]
    /\ UNCHANGED <<userVars, faults, tableVars, queue, gone, work, serverVars>>

\* A file that cannot be read is not a file that is missing: its row, if it
\* has one, is marked as seen.
Marked_None(p) == {}
Marked(p) == IF scan.old[p].found THEN {p} ELSE {}

MarkSeen(p) ==
    /\ scan.step = "capture" /\ p \in scan.path
    /\ entry' = [q \in Paths |->
                   IF q \in Marked(p) THEN [entry[q] EXCEPT !.present = TRUE] ELSE entry[q]]
    /\ seen' = seen \cup Marked(p)
    /\ scan' = NextFile
    /\ UNCHANGED <<userVars, queue, gone, work, serverVars>>

\* The file has vanished since WalkDir found it, ...
ScanMissesFile(p) ==
    /\ disk[p] = NoFile
    /\ MarkSeen(p)
    /\ UNCHANGED faults

\* ... cannot be read, or changes while it is hashed.
ScanCaptureFails(p) ==
    /\ Fault
    /\ MarkSeen(p)

UpsertSame(p) ==
    /\ scan.step = "same" /\ p \in scan.path
    /\ entry' = Upserted(p, TRUE, scan.old[p].stamp, scan.old[p].version)
    /\ seen' = seen \cup {p}
    /\ scan' = NextFile
    /\ UNCHANGED <<userVars, faults, queue, gone, work, serverVars>>

EnqueueChange(p) ==
    /\ scan.step = "enqueue" /\ p \in scan.path
    /\ queue' = Enqueued(p, scan.new, scan.old[p].version)
    /\ scan' = AfterWrite("enqueue")
    /\ UNCHANGED <<userVars, faults, tableVars, gone, work, serverVars>>

UpsertChange(p) ==
    /\ scan.step = "upsert" /\ p \in scan.path
    /\ entry' = Upserted(p, TRUE, scan.new, scan.old[p].version)
    /\ seen' = seen \cup {p}
    /\ scan' = AfterWrite("upsert")
    /\ UNCHANGED <<userVars, faults, queue, gone, work, serverVars>>

\* MissingEntries, after a walk without an error, reads the rows.
ListMissing ==
    /\ scan.step = "walk" /\ scan.todo = {}
    /\ LET missing == {p \in Paths : entry[p].present /\ p \notin seen} IN
       scan' = [scan EXCEPT !.step = "missing", !.todo = missing,
                            !.old = [p \in Paths |-> IF p \in missing THEN entry[p] ELSE NoEntry]]
    /\ UNCHANGED <<userVars, faults, tableVars, queue, gone, work, serverVars>>

CancelOrEnqueueDelete(p) ==
    /\ scan.step = "missing" /\ p \in scan.todo
    /\ queue' = IF scan.old[p].version = 0
                THEN Cancelled(p)
                ELSE Enqueued(p, NoFile, scan.old[p].version)
    /\ scan' = [scan EXCEPT !.step = "absent", !.todo = @ \ {p}, !.path = {p}]
    /\ UNCHANGED <<userVars, faults, tableVars, gone, work, serverVars>>

UpsertMissing(p) ==
    /\ scan.step = "absent" /\ p \in scan.path
    /\ entry' = Upserted(p, FALSE, NoFile, scan.old[p].version)
    /\ seen' = seen \cup {p}
    /\ scan' = [scan EXCEPT !.step = "missing", !.path = {}, !.old[p] = NoEntry]
    /\ UNCHANGED <<userVars, faults, queue, gone, work, serverVars>>

CompleteScan ==
    /\ scan.step = "missing" /\ scan.todo = {}
    /\ scan' = NoScan
    /\ UNCHANGED <<userVars, faults, tableVars, queue, gone, work, serverVars>>

\* The walk or a statement fails.
ScanFails ==
    /\ scan.step # "idle"
    /\ Fault
    /\ scan' = NoScan
    /\ UNCHANGED <<userVars, tableVars, queue, gone, work, serverVars>>

-----------------------------------------------------------------------------
(* The processor *)

\* The state of the row while ProcessNext is at a step.
Steps == {"capture", "begin", "upload", "commit", "await", "version", "complete"}
StepState == [step \in Steps |-> IF step \in {"capture", "begin"} THEN "RESERVING"
                                 ELSE IF step = "upload" THEN "UPLOADING" ELSE "COMMITTING"]
Idle == [step |-> "idle", op |-> NoOp, answer |-> 0]

\* The state that ProcessNext believes its operation to be in.
Believed == StepState[work.step]

\* deferOperation and blockOperation end ProcessNext, with or without a row.
GivesUp(to) ==
    /\ queue' = Moved(work.op, Believed, to)
    /\ work' = Idle

\* ProcessNext goes on only if its Transition has changed the row.
GoesOn(step) ==
    /\ queue' = Moved(work.op, Believed, StepState[step])
    /\ work' = IF Believed = StepState[step] \/ queue[work.op].state = Believed
               THEN [work EXCEPT !.step = step]
               ELSE Idle

\* run recovers the rows in flight before it starts scanner and processor; the
\* recovery of the processor itself finds none.
Start ==
    /\ work.step = "down"
    /\ queue' = [o \in DOMAIN queue |-> [queue[o] EXCEPT !.state = Recovered(@)]]
    /\ work' = Idle
    /\ UNCHANGED <<userVars, faults, tableVars, scan, gone, serverVars>>

ClaimNext(o) ==
    /\ work.step = "idle"
    /\ Due(o)
    /\ queue' = [queue EXCEPT ![o].state = "RESERVING"]
    /\ work' = [step |-> "capture", op |-> o, answer |-> 0]
    /\ UNCHANGED <<userVars, faults, tableVars, scan, gone, serverVars>>

\* A DELETE goes straight to its commit; a file must be the one that was
\* scanned.
Capture ==
    /\ work.step = "capture"
    /\ LET o == work.op
           now == disk[queue[o].path]
       IN  \/ IsDelete(o) /\ GoesOn("commit")
           \/ ~ IsDelete(o) /\ now = queue[o].stamp /\ GoesOn("begin")
           \/ ~ IsDelete(o) /\ now \notin {queue[o].stamp, NoFile} /\ GivesUp("RETRY_WAIT")
           \/ ~ IsDelete(o) /\ now = NoFile /\ GivesUp("BLOCKED")
    /\ UNCHANGED <<userVars, faults, tableVars, scan, gone, serverVars>>

\* BeginUpload: the content is required, or it is present.
BeginUpload ==
    /\ work.step = "begin"
    /\ GoesOn("upload") \/ GoesOn("commit")
    /\ UNCHANGED <<userVars, faults, tableVars, scan, gone, serverVars>>

\* Upload reads the file again: other bytes, or none, do not verify.
Upload ==
    /\ work.step = "upload"
    /\ \/ disk[queue[work.op].path] # NoFile /\ GoesOn("commit")
       \/ disk[queue[work.op].path] # queue[work.op].stamp /\ GivesUp("BLOCKED")
    /\ UNCHANGED <<userVars, faults, tableVars, scan, gone, serverVars>>

\* A read or a call before the commit fails, for now or for good.
CallFails ==
    /\ work.step \in {"capture", "begin", "upload"}
    /\ Fault
    /\ GivesUp("RETRY_WAIT") \/ GivesUp("BLOCKED")
    /\ UNCHANGED <<userVars, tableVars, scan, gone, serverVars>>

SendCommit ==
    /\ work.step = "commit"
    /\ network' = network \cup {work.op}
    /\ work' = [work EXCEPT !.step = "await"]
    /\ UNCHANGED <<userVars, faults, tableVars, queue, scan, gone, log>>

ServerHead(p) ==
    LET versions == {i \in DOMAIN log : log[i].path = p} IN
    IF versions = {} THEN 0 ELSE CHOOSE i \in versions : \A j \in versions : j <= i

\* The base that Commit sends: the one of the operation's row.
BaseOf_Newest(o) == entry[queue[o].path].version
BaseOf(o) == queue[o].base

\* The server commits an operation once, on top of the head; a second request
\* for it gets the first one's answer.  Whoever waits for o is answered.
ServerCommit(o) ==
    LET done == {i \in DOMAIN log : log[i].op = o}
        accepted == done = {} /\ BaseOf(o) = ServerHead(queue[o].path)
        answer == IF accepted THEN Len(log) + 1
                  ELSE IF done # {} THEN CHOOSE i \in done : TRUE ELSE Conflict
    IN
    /\ o \in network
    /\ network' = network \ {o}
    /\ log' = IF accepted
              THEN Append(log, [path |-> queue[o].path, stamp |-> queue[o].stamp, op |-> o])
              ELSE log
    /\ work' = IF work.step = "await" /\ work.op = o
               THEN [work EXCEPT !.answer = answer] ELSE work
    /\ UNCHANGED <<userVars, faults, tableVars, queue, scan, gone>>

\* A conflict is an error, and not one to retry.
Committed_Answered(answer) == answer # 0
Committed(answer) == answer > 0

ReceiveAnswer ==
    /\ work.step = "await"
    /\ \/ Committed(work.answer) /\ GoesOn("version")
       \/ work.answer = Conflict /\ GivesUp("BLOCKED")
    /\ UNCHANGED <<userVars, faults, tableVars, scan, gone, serverVars>>

\* The request is lost, or the answer, or it is late; the server reports an
\* error of its own, with or without a commit.
CommitFails ==
    /\ work.step = "await"
    /\ Fault
    /\ GivesUp("RETRY_WAIT") \/ GivesUp("BLOCKED")
    /\ network' \in {network, network \ {work.op}}
    /\ UNCHANGED <<userVars, tableVars, scan, gone, log>>

\* SetServerVersion finds no row for a path that Scan has not recorded yet.
SetServerVersion ==
    /\ work.step = "version"
    /\ LET p == queue[work.op].path IN
       \/ /\ entry[p].found
          /\ entry' = [entry EXCEPT ![p].version = work.answer]
          /\ GoesOn("complete")
       \/ ~ entry[p].found /\ GivesUp("BLOCKED") /\ UNCHANGED entry
    /\ UNCHANGED <<userVars, faults, seen, scan, gone, serverVars>>

Complete ==
    /\ work.step = "complete"
    /\ GivesUp("COMPLETED")
    /\ UNCHANGED <<userVars, faults, tableVars, scan, gone, serverVars>>

\* The agent is killed; what it has sent is on its way.
Crash ==
    /\ work.step # "down"
    /\ Fault
    /\ work' = [Idle EXCEPT !.step = "down"]
    /\ scan' = NoScan
    /\ UNCHANGED <<userVars, tableVars, queue, gone, serverVars>>

-----------------------------------------------------------------------------

User == \E p \in Paths : Write(p) \/ Remove(p)

Scanner ==
    \/ BeginScan \/ ListMissing \/ CompleteScan
    \/ \E p \in Paths :
        \/ WalkPast(p) \/ ReadEntry(p) \/ ScanCapture(p)
        \/ ScanMissesFile(p)
        \/ UpsertSame(p) \/ EnqueueChange(p) \/ UpsertChange(p)
        \/ CancelOrEnqueueDelete(p) \/ UpsertMissing(p)

Processor ==
    \/ Start
    \/ \E o \in DOMAIN queue : ClaimNext(o)
    \/ Capture \/ BeginUpload \/ Upload \/ SendCommit \/ ReceiveAnswer
    \/ SetServerVersion \/ Complete

Server == \E o \in network : ServerCommit(o)

Failure ==
    \/ CallFails \/ CommitFails \/ ScanFails \/ Crash
    \/ \E p \in Paths : ScanCaptureFails(p)

Next == User \/ Scanner \/ Processor \/ Server \/ Failure

Spec == Init /\ [][Next]_vars

\* The scan interval passes and the poll of the processor returns; an agent
\* that was killed is started again; the server answers what reaches it.
FairSpec == Spec /\ WF_vars(Scanner) /\ WF_vars(Processor) /\ WF_vars(Server)

-----------------------------------------------------------------------------
(* Properties *)

\* Every row and every program counter has its type, and the server version of
\* an entry is a version of its path.
TypeOK ==
    /\ disk \in [Paths -> Stamps] /\ edits \in Stamps /\ faults \in 0..MaxFaults
    /\ entry \in [Paths -> Entry] /\ seen \subseteq Paths
    /\ queue \in Seq(Operation)
    /\ scan \in [step : ScanSteps, todo : SUBSET Paths, path : SUBSET Paths,
                old : [Paths -> Entry], new : Stamps]
    /\ gone \subseteq Paths
    /\ work \in [step : Steps \cup {"down", "idle"}, op : Nat, answer : Nat \cup {Conflict}]
    /\ work.step \in Steps => work.op \in DOMAIN queue
    /\ network \subseteq DOMAIN queue
    /\ log \in Seq(Version) /\ \A i \in DOMAIN log : log[i].op \in DOMAIN queue
    /\ \A p \in Paths : entry[p].version # 0 =>
          entry[p].version \in DOMAIN log /\ log[entry[p].version].path = p

\* A path has at most one operation that is not closed, although the processor
\* still holds operations that the scanner has cancelled (the unique index
\* pending_operations_active_path_idx never refuses a statement).
OneLive ==
    \A o, q \in DOMAIN queue :
        queue[o].path = queue[q].path /\ queue[o].state \notin Closed /\ queue[q].state \notin Closed
        => o = q

\* While the agent runs, an operation in flight is the one that the processor
\* works on: no crash strands one, and no refused Transition leaves one behind.
InFlightOwned ==
    work.step # "down" =>
        \A o \in DOMAIN queue : queue[o].state \in InFlight => work.op = o

\* The versions of a path follow the order in which its operations were
\* queued: a late or repeated commit of an older operation never covers a newer
\* one.
NewestWins ==
    \A i, j \in DOMAIN log : i < j /\ log[i].path = log[j].path => log[i].op < log[j].op

HasVersion(p, stamp) == ServerHead(p) # 0 /\ log[ServerHead(p)].stamp = stamp
LiveOn(p) == \E o \in DOMAIN queue : queue[o].path = p /\ queue[o].state \notin Closed

\* A file that the scanner takes for known is on the server, or an operation
\* on its path is still open: no crash between Enqueue and UpsertEntry, no
\* cancellation and no lost answer makes the agent forget a change.
NothingForgotten ==
    \A p \in Paths :
        disk[p] # NoFile /\ Unchanged(entry[p], disk[p]) => HasVersion(p, disk[p]) \/ LiveOn(p)

\* A DELETE is queued only for a path that had no file at some time during the
\* scan: a file that cannot be read is not deleted on the server.
DeletesAreReal ==
    [][\A o \in DOMAIN queue' \ DOMAIN queue :
         queue'[o].stamp = NoFile => queue'[o].path \in gone]_vars

\* The queue is drained again and again, whatever the scanner and the failures
\* do to it on the way: a retry that the crash of the agent interrupts is taken
\* up again, and an operation whose file has changed does not wait for ever.
\* The changes are bounded, so each operation is completed, cancelled or
\* blocked in the end.
Drained == \A o \in DOMAIN queue : queue[o].state \in Closed \cup {"BLOCKED"}
Settles == []<>Drained

\* "backs up user-selected local folders" (README.md:6): once the user stops,
\* each file is on the server.
BackedUp ==
    <>[](\A p \in Paths : disk[p] # NoFile => HasVersion(p, disk[p]))
=============================================================================
