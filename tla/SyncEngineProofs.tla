-------------------------- MODULE SyncEngineProofs --------------------------
(***************************************************************************)
(* Safety of the sync engine between the metadata store and the blob       *)
(* store, for every set of handlers, operations, contents and intents.     *)
(*                                                                         *)
(* A call of the engine takes a step of the store that MetadataProofs      *)
(* knows, or rolls transactions back, so the invariant of the store is     *)
(* used as it stands.  What is new is what a handler learned in an earlier *)
(* call and still relies on when it makes the next one.                    *)
(* The last part uses HistoryProofs: under the engine the store still is   *)
(* the folder log of FolderLog.tla and keeps its restorable history.       *)
(***************************************************************************)
EXTENDS HistoryProofs, SyncEngine

-----------------------------------------------------------------------------
(* What a step of the store may do *)

\* The open transactions of handlers that stopped are gone, without a trace.
RolledBack ==
    /\ commitTx' \in {commitTx, NoOp}
    /\ reading' \in [Ops -> Hashes \cup {NoHash}]
    /\ UNCHANGED <<opVars, sessionVars, object, logVars, readerVars, jobVars>>

StoreStep == [Next]_vars \/ RolledBack

\* A rollback keeps what the store promises: it only gives locks back.
LEMMA RolledBackStore ==
  ASSUME StoreInv, RolledBack
  PROVE  StoreInv' /\ OperationsMove /\ ObjectsMove
<1> USE DEF RolledBack, StoreInv, ObjectInv, opVars, sessionVars, logVars, readerVars, jobVars
<1>1. TypeInv'
  BY DEF TypeInv, TypeOK, UploadsKnown, HeadRetained, CommitReady, InFlight, CurrentSequence
<1>2. CommitChecked' /\ RetainedAvailable' /\ SessionsKnown'
  BY DEF CommitChecked, RetainedAvailable, SessionsKnown
<1>3. OperationsMove /\ ObjectsMove
  BY DEF OperationsMove, ObjectsMove
<1>4. QED
  BY <1>1, <1>2, <1>3

\* Every step of the store keeps its invariant and moves as said above.
LEMMA StoreStepKeeps ==
  ASSUME StoreInv, StoreStep
  PROVE  StoreInv' /\ OperationsMove /\ ObjectsMove
<1>1. CASE RolledBack
  BY <1>1, RolledBackStore
<1>2. CASE Next
  <2>1. ObjectInv'
    BY <1>2, ObjectStep DEF StoreInv
  <2>2. QED
    BY <1>2, <2>1, StoreMoves DEF StoreInv
<1>3. CASE UNCHANGED vars
  <2>1. ObjectInv'
    BY <1>3, ObjectStep DEF StoreInv
  <2>2. SessionsKnown' /\ OperationsMove /\ ObjectsMove
    BY <1>3 DEF StoreInv, SessionsKnown, OperationsMove, ObjectsMove, vars, opVars, sessionVars, objectVars
  <2>3. QED
    BY <2>1, <2>2 DEF StoreInv
<1>4. QED
  BY <1>1, <1>2, <1>3 DEF StoreStep

-----------------------------------------------------------------------------
(* Handlers, files and the collector *)

BeginCalls == {"ensure", "present", "read", "absent"}
UploadCalls == {"resume", "resumed", "append", "appended", "finalize", "mark"}
CommitCalls == {"commit-ensure", "commit-session", "commit", "locked"}
Calls == BeginCalls \cup UploadCalls \cup CommitCalls
CollectorCalls == {"idle", "abort", "cleanup", "list", "delete", "record"}

\* A busy handler serves an operation with a content, within its length.
HandlerInv ==
    /\ intent \in Intents
    /\ task \in [Workers -> [op : Ops \cup {NoOp}, call : Calls \cup {"idle"}, n : Nat]]
    /\ \A w \in Workers :
          /\ task[w].op = NoOp <=> Vacant(w)
          /\ ~ Vacant(w) => Hash(task[w].op) \in Hashes /\ task[w].n <= DeclaredSize(task[w].op)

\* No part is longer than what its operation declared.
FileInv ==
    /\ part \in [Ops -> Int]
    /\ \A o \in Ops : part[o] = NoPart \/ part[o] \in 0..DeclaredSize(o)
    /\ spoiled \subseteq Ops
    /\ blob \subseteq Hashes

\* The collector works on an operation or a row of its lists.
CollectorInv ==
    /\ gc \in [call : CollectorCalls, current : Ops \cup Hashes \cup {NoOp},
               expired : SUBSET Ops, garbage : SUBSET Hashes]
    /\ gc.call = "cleanup" => gc.current \in Ops

EngineTypeInv == HandlerInv /\ FileInv /\ CollectorInv

\* The invariants of the three parts say what the type invariant says.
LEMMA EngineTypeInvGives == EngineTypeInv => EngineTypeOK
<1> SUFFICES ASSUME EngineTypeInv PROVE EngineTypeOK
  OBVIOUS
<1> USE DEF EngineTypeInv
<1>1. ASSUME NEW w \in Workers
      PROVE  /\ task[w].op \in Ops \cup {NoOp}
             /\ task[w].op = NoOp <=> Vacant(w)
             /\ task[w].op # NoOp => task[w].n \in 0..DeclaredSize(task[w].op)
  <2>1. task[w].op \in Ops \cup {NoOp} /\ task[w].n \in Nat /\ (task[w].op = NoOp <=> Vacant(w))
    BY DEF HandlerInv
  <2>2. ASSUME task[w].op # NoOp PROVE task[w].n \in 0..DeclaredSize(task[w].op)
    <3>1. Hash(task[w].op) \in Hashes /\ task[w].n <= DeclaredSize(task[w].op)
      BY <2>1, <2>2 DEF HandlerInv
    <3>2. DeclaredSize(task[w].op) \in Nat
      BY <3>1, ConstantsOK DEF DeclaredSize, SizeOf
    <3>3. QED
      BY <2>1, <3>1, <3>2
  <2>3. QED
    BY <2>1, <2>2
<1>2. gc.expired \subseteq Ops /\ gc.garbage \subseteq Hashes
  BY DEF CollectorInv
<1>3. QED
  BY <1>1, <1>2 DEF EngineTypeOK, HandlerInv, FileInv

\* What is known of the operation that a busy handler serves.
LEMMA Serves ==
  ASSUME HandlerInv, NEW w \in Workers, ~ Vacant(w)
  PROVE  /\ task[w].op \in Ops /\ Hash(task[w].op) \in Hashes
         /\ DeclaredSize(task[w].op) \in Nat
         /\ task[w].n \in 0..DeclaredSize(task[w].op)
<1>1. task[w].op \in Ops /\ Hash(task[w].op) \in Hashes
  BY DEF HandlerInv
<1>2. task[w].n \in Nat /\ task[w].n <= DeclaredSize(task[w].op)
  BY DEF HandlerInv
<1>3. DeclaredSize(task[w].op) \in Nat
  BY <1>1, ConstantsOK DEF DeclaredSize, SizeOf
<1>4. QED
  BY <1>1, <1>2, <1>3

\* Every declared length is one.
LEMMA DeclaredSizeType ==
  ASSUME HandlerInv, NEW o \in Ops
  PROVE  DeclaredSize(o) \in Nat
<1>1. intent \in [Ops -> [path : Paths, hash : Hashes \cup {NoHash}]]
  BY EngineConstantsOK DEF HandlerInv
<1>2. Hash(o) \in Hashes \cup {NoHash}
  BY <1>1 DEF Hash
<1>3. QED
  BY <1>2, ConstantsOK DEF DeclaredSize, SizeOf

\* A handler starts on an operation.
LEMMA StartTask ==
  ASSUME HandlerInv, NEW w \in Workers, NEW o \in Ops, NEW call \in Calls,
         Hash(o) \in Hashes, Start(w, o, call), UNCHANGED intent
  PROVE  /\ HandlerInv'
         /\ task'[w] = [op |-> o, call |-> call, n |-> 0]
         /\ \A v \in Workers \ {w} : task'[v] = task[v]
<1>1. /\ task'[w] = [op |-> o, call |-> call, n |-> 0]
      /\ \A v \in Workers \ {w} : task'[v] = task[v]
  BY DEF Start, HandlerInv
<1>2. task' \in [Workers -> [op : Ops \cup {NoOp}, call : Calls \cup {"idle"}, n : Nat]]
  BY DEF Start, HandlerInv
<1>3. DeclaredSize(o) \in Nat
  BY DeclaredSizeType
<1>4. ASSUME NEW v \in Workers
      PROVE  /\ task'[v].op = NoOp <=> Vacant(v)'
             /\ ~ Vacant(v)' => Hash(task[v].op)' \in Hashes /\ task'[v].n <= DeclaredSize(task[v].op)'
  <2>1. CASE v = w
    <3>1. call # "idle" /\ o # NoOp
      BY ConstantsOK DEF Calls, BeginCalls, UploadCalls, CommitCalls
    <3>2. ~ Vacant(v)' /\ task'[v].op = o /\ task'[v].n = 0
      BY <1>1, <2>1, <3>1 DEF Vacant
    <3>3. Hash(task[v].op)' = Hash(o) /\ DeclaredSize(task[v].op)' = DeclaredSize(o)
      BY <3>2 DEF Hash, DeclaredSize
    <3>4. QED
      BY <1>3, <3>1, <3>2, <3>3
  <2>2. CASE v # w
    <3>1. task'[v] = task[v]
      BY <1>1, <2>2
    <3>2. /\ Vacant(v)' = Vacant(v)
          /\ Hash(task[v].op)' = Hash(task[v].op) /\ DeclaredSize(task[v].op)' = DeclaredSize(task[v].op)
      BY <3>1 DEF Vacant, Hash, DeclaredSize
    <3>3. QED
      BY <3>1, <3>2 DEF HandlerInv
  <2>3. QED
    BY <2>1, <2>2
<1>5. QED
  BY <1>1, <1>2, <1>4 DEF HandlerInv

\* A handler goes on to its next call.
LEMMA ProceedTask ==
  ASSUME HandlerInv, NEW w \in Workers, NEW call \in Calls, ~ Vacant(w),
         NEW n \in 0..DeclaredSize(task[w].op), Proceed(w, call, n), UNCHANGED intent
  PROVE  /\ HandlerInv'
         /\ task'[w] = [op |-> task[w].op, call |-> call, n |-> n]
         /\ \A v \in Workers \ {w} : task'[v] = task[v]
<1>0. /\ task[w].op \in Ops /\ Hash(task[w].op) \in Hashes
      /\ n \in Nat /\ n <= DeclaredSize(task[w].op)
  BY Serves
<1>1. /\ task'[w] = [op |-> task[w].op, call |-> call, n |-> n]
      /\ \A v \in Workers \ {w} : task'[v] = task[v]
  BY DEF Proceed, HandlerInv
<1>2. task' \in [Workers -> [op : Ops \cup {NoOp}, call : Calls \cup {"idle"}, n : Nat]]
  BY <1>0 DEF Proceed, HandlerInv
<1>4. ASSUME NEW v \in Workers
      PROVE  /\ task'[v].op = NoOp <=> Vacant(v)'
             /\ ~ Vacant(v)' => Hash(task[v].op)' \in Hashes /\ task'[v].n <= DeclaredSize(task[v].op)'
  <2>1. CASE v = w
    <3>1. call # "idle" /\ task[w].op # NoOp
      BY <1>0, ConstantsOK DEF Calls, BeginCalls, UploadCalls, CommitCalls
    <3>2. ~ Vacant(v)' /\ task'[v].op = task[w].op /\ task'[v].n = n
      BY <1>1, <2>1, <3>1 DEF Vacant
    <3>3. Hash(task[v].op)' = Hash(task[w].op) /\ DeclaredSize(task[v].op)' = DeclaredSize(task[w].op)
      BY <3>2 DEF Hash, DeclaredSize
    <3>4. QED
      BY <1>0, <3>1, <3>2, <3>3
  <2>2. CASE v # w
    <3>1. task'[v] = task[v]
      BY <1>1, <2>2
    <3>2. /\ Vacant(v)' = Vacant(v)
          /\ Hash(task[v].op)' = Hash(task[v].op) /\ DeclaredSize(task[v].op)' = DeclaredSize(task[v].op)
      BY <3>1 DEF Vacant, Hash, DeclaredSize
    <3>3. QED
      BY <3>1, <3>2 DEF HandlerInv
  <2>3. QED
    BY <2>1, <2>2
<1>5. QED
  BY <1>1, <1>2, <1>4 DEF HandlerInv

\* Handlers stop, by an answer, a failure or a crash; the others go on.
LEMMA StopTasks ==
  ASSUME HandlerInv, NEW stopped \in SUBSET Workers, UNCHANGED intent,
         task' = [w \in Workers |-> IF w \in stopped THEN IdleTask ELSE task[w]]
  PROVE  /\ HandlerInv'
         /\ \A w \in Workers : task'[w] = task[w] \/ task'[w] = IdleTask
<1>1. \A w \in Workers : task'[w] = task[w] \/ task'[w] = IdleTask
  OBVIOUS
<1>2. task' \in [Workers -> [op : Ops \cup {NoOp}, call : Calls \cup {"idle"}, n : Nat]]
  BY DEF HandlerInv, IdleTask
<1>4. ASSUME NEW v \in Workers
      PROVE  /\ task'[v].op = NoOp <=> Vacant(v)'
             /\ ~ Vacant(v)' => Hash(task[v].op)' \in Hashes /\ task'[v].n <= DeclaredSize(task[v].op)'
  <2>1. CASE task'[v] = IdleTask
    BY <2>1 DEF Vacant, IdleTask
  <2>2. CASE task'[v] = task[v]
    <3>2. /\ Vacant(v)' = Vacant(v)
          /\ Hash(task[v].op)' = Hash(task[v].op) /\ DeclaredSize(task[v].op)' = DeclaredSize(task[v].op)
      BY <2>2 DEF Vacant, Hash, DeclaredSize
    <3>3. QED
      BY <2>2, <3>2 DEF HandlerInv
  <2>3. QED
    BY <1>1, <2>1, <2>2
<1>5. QED
  BY <1>1, <1>2, <1>4 DEF HandlerInv

\* A handler answers.
LEMMA ReturnTask ==
  ASSUME HandlerInv, NEW w \in Workers, Return(w), UNCHANGED intent
  PROVE  /\ HandlerInv'
         /\ \A v \in Workers : task'[v] = task[v] \/ task'[v] = IdleTask
<1>1. task' = [v \in Workers |-> IF v \in {w} THEN IdleTask ELSE task[v]]
  BY DEF Return, HandlerInv
<1>2. QED
  BY <1>1, StopTasks
-----------------------------------------------------------------------------
(* What a step of the engine may do *)

\* The row of an operation stores the intent of the device's queue.
RequestsIntended == \A o \in Ops : opState[o] # "NONE" => request[o].hash = Hash(o)

\* A handler stays at its task, drops it, goes on with it or takes one up: what
\* it is sure of at the new call comes with the step.
TasksMove ==
    \A w \in Workers :
        \/ task'[w] = task[w]
        \/ task'[w] = IdleTask
        \/ /\ ~ Vacant(w) /\ task'[w].op = task[w].op
           /\ task'[w].call \in CommitCalls => task[w].call \in CommitCalls
           /\ task'[w].call \in UploadCalls =>
                 task[w].call \in UploadCalls \/ session'[task[w].op] # "NONE"
           /\ task'[w].call = "mark" => Hash(task[w].op) \in blob'
        \/ /\ task'[w].op \in Ops /\ task'[w].call # "mark"
           /\ task'[w].call \in CommitCalls =>
                 /\ opState'[task'[w].op] \in {"READY", "COMPLETED"}
                 /\ Hash(task'[w].op) \in blob'
           /\ task'[w].call \in UploadCalls => session'[task'[w].op] # "NONE"

\* The collector alone removes a blob, and only one of its garbage list.
BlobsMove ==
    \/ blob \subseteq blob'
    \/ \E h \in gc.garbage : blob' = blob \ {h} /\ UNCHANGED vars

\* A row that is on the list waits for deletion, if it did when it was listed.
ListMoves ==
    \A h \in gc'.garbage :
        (h \in gc.garbage => object[h] = "PENDING_DELETE") => object'[h] = "PENDING_DELETE"

\* A new operation stores the intent that its device has.
RequestsMove == \A o \in Ops : opState[o] = "NONE" /\ opState'[o] # "NONE" => request'[o].hash = Hash(o)

\* A session becomes VERIFIED under a handler that has finalized its part.
SessionsMove ==
    \A o \in Ops : session'[o] = "VERIFIED" =>
        \/ session[o] = "VERIFIED"
        \/ \E w \in Workers : At(w, "mark") /\ task[w].op = o /\ MarkUploadVerified(o) /\ blob' = blob

\* A version is a delete, or is committed by a handler that holds the locks.
LogMoves ==
    \A i \in retained' :
        \/ i \in retained /\ version'[i] = version[i]
        \/ version'[i].hash = NoHash
        \/ /\ commitTx \in Ops /\ version'[i].hash = request[commitTx].hash
           /\ \E w \in Workers : At(w, "locked") /\ task[w].op = commitTx
           /\ blob' = blob

StoreMovesSafely == StoreStep /\ RequestsMove /\ SessionsMove /\ LogMoves
EngineMoves ==
    EngineTypeInv' /\ intent' = intent /\ TasksMove /\ BlobsMove /\ ListMoves /\ StoreMovesSafely

EngineKnows == StoreInv /\ EngineTypeInv /\ RequestsIntended

\* A call that is no transaction leaves the store as it is.
LEMMA StoreUntouched == UNCHANGED vars => StoreMovesSafely
  BY DEF StoreMovesSafely, StoreStep, RequestsMove, SessionsMove, LogMoves, vars, opVars, sessionVars,
     logVars

\* A transaction that inserts no operation, verifies none and commits none.
LEMMA StoreQuiet ==
  ASSUME Next, UNCHANGED <<opState, session, version, retained>>
  PROVE  StoreMovesSafely
  BY DEF StoreMovesSafely, StoreStep, RequestsMove, SessionsMove, LogMoves

\* The version that a commit adds has the content of its request.
LEMMA InsertVersionMoves ==
  ASSUME StoreInv, NEW o \in Ops, NEW r, InsertVersion(o, r)
  PROVE  \A i \in retained' :
            \/ i \in retained /\ version'[i] = version[i]
            \/ version'[i].hash = r.hash
<1>1. version \in Seq(Version) /\ retained \subseteq 1..Len(version)
  BY DEF StoreInv, ObjectInv, TypeInv, TypeOK, CurrentSequence
<1>2. /\ version' = Append(version, [path |-> r.path, base |-> r.base, hash |-> r.hash, op |-> o])
      /\ retained' = retained \cup {Len(version) + 1}
  BY DEF InsertVersion, CurrentSequence
<1>3. \A i \in retained : version'[i] = version[i]
  BY <1>1, <1>2
<1>4. version'[Len(version) + 1].hash = r.hash
  BY <1>1, <1>2
<1>5. QED
  BY <1>2, <1>3, <1>4

\* Nothing moves in the files when a handler calls the store.
LEMMA FilesUntouched ==
  ASSUME EngineTypeInv, UNCHANGED <<intent, fileVars>>
  PROVE  FileInv' /\ BlobsMove
<1>1. \A o \in Ops : DeclaredSize(o)' = DeclaredSize(o)
  BY DEF DeclaredSize, Hash
<1>2. QED
  BY <1>1 DEF EngineTypeInv, FileInv, fileVars, BlobsMove

-----------------------------------------------------------------------------
(* BeginUpload *)

\* Every call of BeginUpload is such a step.
LEMMA BeginUploadMoves ==
  ASSUME EngineKnows, NEW w \in Workers, BeginUpload(w)
  PROVE  EngineMoves
<1>k. EngineTypeInv /\ HandlerInv /\ FileInv /\ CollectorInv /\ StoreInv /\ RequestsIntended
  BY DEF EngineKnows, EngineTypeInv
<1>i. UNCHANGED <<intent, gc>> /\ CollectorInv'
  <2>1. UNCHANGED <<intent, gc>>
    BY DEF BeginUpload, CallBegin, BeginEnsure, BeginRead, BeginWithObject, BeginWithSession, BeginReplay,
       Resume, RecordProgress
  <2>2. QED
    BY <1>k, <2>1 DEF CollectorInv
<1>1. ASSUME NEW o \in Ops, CallBegin(w, o) PROVE EngineMoves
  <2>1. PICK call \in {"ensure", "absent"} : Start(w, o, call)
    BY <1>1 DEF CallBegin
  <2>2. Hash(o) \in Hashes
    <3>1. intent \in [Ops -> [path : Paths, hash : Hashes \cup {NoHash}]]
      BY <1>k, EngineConstantsOK DEF HandlerInv
    <3>2. QED
      BY <1>1, <3>1 DEF CallBegin, Hash
  <2>3. /\ HandlerInv'
        /\ task'[w] = [op |-> o, call |-> call, n |-> 0]
        /\ \A v \in Workers \ {w} : task'[v] = task[v]
    BY <1>k, <1>i, <2>1, <2>2, StartTask DEF Calls, BeginCalls
  <2>4. TasksMove
    BY <2>3 DEF TasksMove, CommitCalls, UploadCalls
  <2>5. UNCHANGED <<vars, fileVars>>
    BY <1>1 DEF CallBegin
  <2>6. ListMoves
    BY <1>i, <2>5 DEF ListMoves, vars, objectVars
  <2>7. QED
    BY <1>k, <1>i, <2>3, <2>4, <2>5, <2>6, FilesUntouched, StoreUntouched DEF EngineMoves, EngineTypeInv
\* a handler that goes on to another call without leaving BeginUpload
<1>2. ASSUME NEW call \in BeginCalls \cup {"resume"}, ~ Vacant(w), Proceed(w, call, 0), UNCHANGED fileVars,
             call = "resume" => session'[task[w].op] # "NONE"
      PROVE  HandlerInv' /\ FileInv' /\ TasksMove /\ BlobsMove
  <2>1. 0 \in 0..DeclaredSize(task[w].op) /\ call \in Calls
    BY <1>k, <1>2, Serves DEF Calls, UploadCalls
  <2>2. /\ HandlerInv'
        /\ task'[w] = [op |-> task[w].op, call |-> call, n |-> 0]
        /\ \A v \in Workers \ {w} : task'[v] = task[v]
    BY <1>k, <1>i, <1>2, <2>1, ProceedTask
  <2>3. TasksMove
    BY <1>2, <2>2 DEF TasksMove, BeginCalls, CommitCalls, UploadCalls
  <2>4. QED
    BY <1>k, <1>i, <1>2, <2>2, <2>3, FilesUntouched
\* a handler that answers
<1>3. ASSUME Return(w), UNCHANGED fileVars
      PROVE  HandlerInv' /\ FileInv' /\ TasksMove /\ BlobsMove
  <2>1. HandlerInv' /\ \A v \in Workers : task'[v] = task[v] \/ task'[v] = IdleTask
    BY <1>k, <1>i, <1>3, ReturnTask
  <2>2. TasksMove
    BY <2>1 DEF TasksMove
  <2>3. QED
    BY <1>k, <1>i, <1>3, <2>1, <2>2, FilesUntouched
<1>4. CASE BeginEnsure(w)
  <2>1. ~ Vacant(w) /\ Proceed(w, "present", 0) /\ UNCHANGED fileVars
    BY <1>4 DEF BeginEnsure, At, Vacant
  <2>2. HandlerInv' /\ FileInv' /\ TasksMove /\ BlobsMove
    BY <1>2, <2>1 DEF BeginCalls
  <2>3. Hash(task[w].op) \in Hashes
    BY <1>k, <2>1, Serves
  <2>4. StoreMovesSafely /\ ListMoves
    <3>1. CASE UNCHANGED vars
      BY <1>i, <3>1, StoreUntouched DEF ListMoves, vars, objectVars
    <3>2. CASE EnsureObject(Hash(task[w].op))
      <4>1. Next
        BY <2>3, <3>2 DEF Next, UploadNext
      <4>2. UNCHANGED <<opState, session, version, retained>>
        BY <3>2 DEF EnsureObject, opVars, sessionVars, logVars
      <4>3. ListMoves
        BY <1>i, <1>k, <3>2, <2>3 DEF ListMoves, EnsureObject, CollectorInv, StoreInv, ObjectInv, TypeInv, TypeOK
      <4>4. QED
        BY <4>1, <4>2, <4>3, StoreQuiet
    <3>3. QED
      BY <1>4, <3>1, <3>2 DEF BeginEnsure, Ensured
  <2>5. QED
    BY <1>i, <2>2, <2>4 DEF EngineMoves, EngineTypeInv
<1>5. CASE BeginRead(w)
  <2>1. ~ Vacant(w) /\ Proceed(w, "read", 0) /\ UNCHANGED fileVars
    BY <1>5 DEF BeginRead, At, Vacant
  <2>2. HandlerInv' /\ FileInv' /\ TasksMove /\ BlobsMove
    BY <1>2, <2>1 DEF BeginCalls
  <2>3. task[w].op \in Ops /\ Hash(task[w].op) \in Hashes
    BY <1>k, <2>1, Serves
  <2>4. BeginCheck(task[w].op, Hash(task[w].op))
    BY <1>5 DEF BeginRead
  <2>5. Next
    BY <2>3, <2>4 DEF Next, UploadNext
  <2>6. UNCHANGED <<opState, session, version, retained, object>>
    BY <2>4 DEF BeginCheck, opVars, sessionVars, logVars
  <2>7. QED
    BY <1>i, <2>2, <2>5, <2>6, StoreQuiet DEF EngineMoves, EngineTypeInv, ListMoves
<1>6. ASSUME NEW base \in 0..CurrentSequence, BeginWithObject(w, base) PROVE EngineMoves
  <2> DEFINE o == task[w].op
             r == RequestOf(o, base)
  <2>1. ~ Vacant(w) /\ Return(w) /\ UNCHANGED fileVars /\ BeginPresent(o, r)
    BY <1>6 DEF BeginWithObject, Vacant
  <2>2. HandlerInv' /\ FileInv' /\ TasksMove /\ BlobsMove
    BY <1>3, <2>1
  <2>3. o \in Ops /\ Hash(o) \in Hashes /\ intent[o].path \in Paths
    <3>1. intent \in [Ops -> [path : Paths, hash : Hashes \cup {NoHash}]]
      BY <1>k, EngineConstantsOK DEF HandlerInv
    <3>2. QED
      BY <1>k, <2>1, <3>1, Serves
  <2>4. Next
    BY <2>1, <2>3 DEF Next, UploadNext, RequestOf
  <2>5. RequestsMove
    BY <1>k, <2>1, <2>3 DEF BeginPresent, RequestsMove, RequestOf, StoreInv, ObjectInv, TypeInv, TypeOK
  <2>6. SessionsMove /\ LogMoves
    BY <2>1 DEF BeginPresent, SessionsMove, LogMoves, sessionVars, logVars
  <2>7. ListMoves
    BY <1>i, <1>k, <2>1, <2>3 DEF BeginPresent, ListMoves, CollectorInv, RequestOf, StoreInv, ObjectInv,
       TypeInv, TypeOK
  <2>8. QED
    BY <1>i, <2>2, <2>4, <2>5, <2>6, <2>7 DEF EngineMoves, EngineTypeInv, StoreMovesSafely, StoreStep
<1>7. ASSUME NEW base \in 0..CurrentSequence, BeginWithSession(w, base) PROVE EngineMoves
  <2> DEFINE o == task[w].op
             r == RequestOf(o, base)
  <2>1. ~ Vacant(w) /\ Proceed(w, "resume", 0) /\ UNCHANGED fileVars /\ BeginRequired(o, r)
    BY <1>7 DEF BeginWithSession, At, Vacant
  <2>2. o \in Ops /\ Hash(o) \in Hashes /\ intent[o].path \in Paths
    <3>1. intent \in [Ops -> [path : Paths, hash : Hashes \cup {NoHash}]]
      BY <1>k, EngineConstantsOK DEF HandlerInv
    <3>2. QED
      BY <1>k, <2>1, <3>1, Serves
  <2>3. session' = [session EXCEPT ![o] = "ACTIVE"] /\ session \in [Ops -> SessionStates]
    BY <1>k, <2>1 DEF BeginRequired, StoreInv, ObjectInv, TypeInv, TypeOK
  <2>4. HandlerInv' /\ FileInv' /\ TasksMove /\ BlobsMove
    BY <1>2, <2>1, <2>2, <2>3
  <2>5. Next
    BY <2>1, <2>2 DEF Next, UploadNext, RequestOf
  <2>6. RequestsMove
    BY <1>k, <2>1, <2>2 DEF BeginRequired, RequestsMove, RequestOf, StoreInv, ObjectInv, TypeInv, TypeOK
  <2>7. SessionsMove /\ LogMoves /\ ListMoves
    BY <1>i, <2>1, <2>2, <2>3 DEF BeginRequired, SessionsMove, LogMoves, ListMoves, logVars
  <2>8. QED
    BY <1>i, <2>4, <2>5, <2>6, <2>7 DEF EngineMoves, EngineTypeInv, StoreMovesSafely, StoreStep
<1>8. CASE BeginReplay(w)
  <2>1. ~ Vacant(w) /\ UNCHANGED <<vars, fileVars>>
    BY <1>8 DEF BeginReplay, Vacant
  <2>2. HandlerInv' /\ FileInv' /\ TasksMove /\ BlobsMove
    <3>1. CASE Return(w)
      BY <1>3, <2>1, <3>1
    <3>2. CASE ReplaysRequired(task[w].op) /\ Proceed(w, "resume", 0)
      BY <1>2, <2>1, <3>2 DEF ReplaysRequired, vars, sessionVars
    <3>3. QED
      BY <1>8, <3>1, <3>2 DEF BeginReplay
  <2>3. ListMoves
    BY <1>i, <2>1 DEF ListMoves, vars, objectVars
  <2>4. QED
    BY <1>i, <2>1, <2>2, <2>3, StoreUntouched DEF EngineMoves, EngineTypeInv
<1>9. CASE Resume(w)
  <2> DEFINE o == task[w].op
  <2>1. At(w, "resume") /\ ~ Vacant(w) /\ UNCHANGED <<vars, spoiled, blob>>
    BY <1>9 DEF Resume, At, Vacant
  <2>2. o \in Ops /\ DeclaredSize(o) \in Nat
    BY <1>k, <2>1, Serves
  <2>3. \A x \in Ops : DeclaredSize(x)' = DeclaredSize(x)
    BY <1>i DEF DeclaredSize, Hash
  <2>4. part' = part \/ part' = [part EXCEPT ![o] = NoPart]
    BY <1>9 DEF Resume
  <2>5. FileInv' /\ BlobsMove
    BY <1>k, <2>1, <2>2, <2>3, <2>4 DEF FileInv, NoPart, BlobsMove
  <2>6. HandlerInv' /\ TasksMove
    <3>1. CASE Return(w)
      BY <1>k, <1>i, <3>1, ReturnTask DEF TasksMove
    <3>2. CASE PartLength(o) <= DeclaredSize(o) /\ Proceed(w, "resumed", PartLength(o))
      <4>1. PartLength(o) \in 0..DeclaredSize(o)
        BY <1>k, <2>2 DEF PartLength, FileInv, NoPart
      <4>2. /\ HandlerInv'
            /\ task'[w] = [op |-> o, call |-> "resumed", n |-> PartLength(o)]
            /\ \A v \in Workers \ {w} : task'[v] = task[v]
        BY <1>k, <1>i, <2>1, <3>2, <4>1, ProceedTask DEF Calls, UploadCalls
      <4>3. QED
        BY <2>1, <4>2 DEF TasksMove, At, UploadCalls, CommitCalls
    <3>3. PartLength(o) \in Int
      BY <1>k, <2>2 DEF PartLength, FileInv, NoPart
    <3>4. QED
      BY <1>9, <2>2, <3>1, <3>2, <3>3 DEF Resume
  <2>7. ListMoves
    BY <1>i, <2>1 DEF ListMoves, vars, objectVars
  <2>8. QED
    BY <1>i, <2>1, <2>5, <2>6, <2>7, StoreUntouched DEF EngineMoves, EngineTypeInv
<1>10. CASE RecordProgress(w)
  <2>1. ~ Vacant(w) /\ Return(w) /\ UNCHANGED fileVars /\ UpdateUploadProgress(task[w].op, task[w].n)
    BY <1>10 DEF RecordProgress, Vacant
  <2>2. HandlerInv' /\ FileInv' /\ TasksMove /\ BlobsMove
    BY <1>3, <2>1
  <2>3. task[w].op \in Ops /\ task[w].n \in 0..SizeOf(request[task[w].op].hash)
    <3>1. task[w].op \in Ops /\ task[w].n \in 0..DeclaredSize(task[w].op) /\ DeclaredSize(task[w].op) \in Nat
      BY <1>k, <2>1, Serves
    <3>2. request[task[w].op].hash = Hash(task[w].op)
      <4>1. session[task[w].op] = "ACTIVE"
        BY <2>1 DEF UpdateUploadProgress, ProgressAccepted
      <4>2. opState[task[w].op] # "NONE"
        BY <1>k, <3>1, <4>1 DEF StoreInv, SessionsKnown
      <4>3. QED
        BY <1>k, <3>1, <4>2 DEF RequestsIntended
    <3>3. QED
      BY <3>1, <3>2 DEF DeclaredSize
  <2>4. Next
    BY <2>1, <2>3 DEF Next, UploadNext
  <2>5. UNCHANGED <<opState, session, version, retained, object>>
    BY <2>1 DEF UpdateUploadProgress, opVars, objectVars, logVars
  <2>6. QED
    BY <1>i, <2>2, <2>4, <2>5, StoreQuiet DEF EngineMoves, EngineTypeInv, ListMoves
<1>11. QED
  BY <1>1, <1>4, <1>5, <1>6, <1>7, <1>8, <1>9, <1>10 DEF BeginUpload
-----------------------------------------------------------------------------
(* Upload *)

\* Every call of Upload is such a step.
LEMMA UploadMoves ==
  ASSUME EngineKnows, NEW w \in Workers, Upload(w)
  PROVE  EngineMoves
<1>k. EngineTypeInv /\ HandlerInv /\ FileInv /\ CollectorInv /\ StoreInv /\ RequestsIntended
  BY DEF EngineKnows, EngineTypeInv
<1>i. UNCHANGED <<intent, gc>> /\ CollectorInv'
  <2>1. UNCHANGED <<intent, gc>>
    BY DEF Upload, CallAppend, CallFinalize, AppendPart, Finalize, MarkVerified
  <2>2. QED
    BY <1>k, <2>1 DEF CollectorInv
<1>d. \A x \in Ops : DeclaredSize(x)' = DeclaredSize(x) /\ DeclaredSize(x) \in Nat
  BY <1>k, <1>i, DeclaredSizeType DEF DeclaredSize, Hash
\* a handler takes up an upload whose session is open
<1>1. ASSUME NEW o \in Ops, NEW call \in {"append", "finalize"}, SessionOpen(o), Start(w, o, call),
             UNCHANGED <<vars, fileVars>>
      PROVE  EngineMoves
  <2>1. Hash(o) \in Hashes
    <3>1. opState[o] = "RESERVED" /\ request[o].hash \in Hashes
      BY <1>k, <1>1 DEF SessionOpen, StoreInv, ObjectInv, TypeInv, UploadsKnown, InFlight
    <3>2. QED
      BY <1>k, <3>1 DEF RequestsIntended
  <2>2. /\ HandlerInv'
        /\ task'[w] = [op |-> o, call |-> call, n |-> 0]
        /\ \A v \in Workers \ {w} : task'[v] = task[v]
    BY <1>k, <1>i, <1>1, <2>1, StartTask DEF Calls, UploadCalls
  <2>3. session'[o] = "ACTIVE"
    BY <1>1 DEF SessionOpen, vars, sessionVars
  <2>4. TasksMove
    BY <2>2, <2>3 DEF TasksMove, CommitCalls, UploadCalls
  <2>5. ListMoves
    BY <1>i, <1>1 DEF ListMoves, vars, objectVars
  <2>6. QED
    BY <1>k, <1>i, <1>1, <2>2, <2>4, <2>5, FilesUntouched, StoreUntouched DEF EngineMoves, EngineTypeInv
<1>2. ASSUME NEW n \in 0..DeclaredSize(task[w].op), NEW offset \in 0..n, NEW clean \in BOOLEAN,
             At(w, "append"), AppendPart(w, offset, n, clean)
      PROVE  EngineMoves
  <2> DEFINE o == task[w].op
  <2>1. ~ Vacant(w) /\ UNCHANGED <<vars, blob>>
    BY <1>2 DEF AppendPart, At, Vacant
  <2>2. o \in Ops /\ DeclaredSize(o) \in Nat
    BY <1>k, <2>1, Serves
  <2>3. n \in Nat /\ offset \in Nat /\ n <= DeclaredSize(o)
    BY <2>2
  <2>4. PartLength(o) \in 0..DeclaredSize(o)
    BY <1>k, <2>2 DEF PartLength, FileInv, NoPart
  <2>5. CASE AtEnd(o, offset)
    <3>1. /\ part' = [part EXCEPT ![o] = PartLength(o) + (n - offset)]
          /\ spoiled' \subseteq spoiled \cup {o}
          /\ Proceed(w, "appended", n)
      BY <1>2, <2>5 DEF AppendPart
    <3>2. PartLength(o) + (n - offset) = n
      BY <2>3, <2>4, <2>5 DEF AtEnd
    <3>3. FileInv'
      BY <1>k, <1>d, <2>1, <2>2, <2>3, <3>1, <3>2 DEF FileInv
    <3>4. /\ HandlerInv'
          /\ task'[w] = [op |-> o, call |-> "appended", n |-> n]
          /\ \A v \in Workers \ {w} : task'[v] = task[v]
      BY <1>k, <1>i, <2>1, <3>1, ProceedTask DEF Calls, UploadCalls
    <3>5. TasksMove
      BY <1>2, <2>1, <3>4 DEF TasksMove, At, UploadCalls, CommitCalls
    <3>6. QED
      BY <3>3, <3>4, <3>5, <1>i, <2>1, StoreUntouched
         DEF EngineMoves, EngineTypeInv, BlobsMove, ListMoves, vars, objectVars
  <2>6. CASE ~ AtEnd(o, offset)
    <3>1. /\ part' = [part EXCEPT ![o] = PartLength(o)]
          /\ UNCHANGED spoiled
          /\ Return(w)
      BY <1>2, <2>6 DEF AppendPart
    <3>2. FileInv'
      BY <1>k, <1>d, <2>1, <2>2, <2>4, <3>1 DEF FileInv
    <3>3. HandlerInv' /\ TasksMove
      BY <1>k, <1>i, <3>1, ReturnTask DEF TasksMove
    <3>4. QED
      BY <3>2, <3>3, <1>i, <2>1, StoreUntouched
         DEF EngineMoves, EngineTypeInv, BlobsMove, ListMoves, vars, objectVars
  <2>7. QED
    BY <2>5, <2>6
<1>3. CASE Finalize(w)
  <2> DEFINE o == task[w].op
  <2>1. At(w, "finalize") /\ ~ Vacant(w) /\ UNCHANGED vars
    BY <1>3 DEF Finalize, At, Vacant
  <2>2. o \in Ops /\ Hash(o) \in Hashes /\ 0 \in 0..DeclaredSize(o)
    BY <1>k, <2>1, Serves
  <2>3. /\ part' = [part EXCEPT ![o] = NoPart]
        /\ spoiled' = spoiled \ {o}
        /\ blob \subseteq blob' /\ blob' \subseteq blob \cup {Hash(o)}
    BY <1>3 DEF Finalize
  <2>4. FileInv'
    BY <1>k, <1>d, <2>2, <2>3 DEF FileInv, NoPart
  <2>5. HandlerInv' /\ TasksMove
    <3>1. CASE Return(w)
      BY <1>k, <1>i, <3>1, ReturnTask DEF TasksMove
    <3>2. CASE Proceed(w, "mark", 0) /\ blob' = blob \cup {Hash(o)}
      <4>1. /\ HandlerInv'
            /\ task'[w] = [op |-> o, call |-> "mark", n |-> 0]
            /\ \A v \in Workers \ {w} : task'[v] = task[v]
        BY <1>k, <1>i, <2>1, <2>2, <3>2, ProceedTask DEF Calls, UploadCalls
      <4>2. QED
        BY <2>1, <3>2, <4>1 DEF TasksMove, At, UploadCalls, CommitCalls
    <3>3. QED
      BY <1>3, <3>1, <3>2 DEF Finalize
  <2>6. QED
    BY <2>1, <2>3, <2>4, <2>5, <1>i, StoreUntouched
       DEF EngineMoves, EngineTypeInv, BlobsMove, ListMoves, vars, objectVars
<1>4. CASE MarkVerified(w)
  <2> DEFINE o == task[w].op
  <2>1. At(w, "mark") /\ ~ Vacant(w) /\ Return(w) /\ UNCHANGED fileVars
    BY <1>4 DEF MarkVerified, At, Vacant
  <2>2. o \in Ops
    BY <1>k, <2>1, Serves
  <2>3. HandlerInv' /\ TasksMove
    BY <1>k, <1>i, <2>1, ReturnTask DEF TasksMove
  <2>4. FileInv' /\ BlobsMove
    BY <1>k, <1>i, <2>1, FilesUntouched
  <2>5. StoreMovesSafely /\ ListMoves
    <3>1. CASE UNCHANGED vars
      BY <1>i, <3>1, StoreUntouched DEF ListMoves, vars, objectVars
    <3>2. CASE MarkUploadVerified(o)
      <4>1. Next
        BY <2>2, <3>2 DEF Next, UploadNext
      <4>2. opState[o] = "RESERVED"
        BY <1>k, <2>2, <3>2 DEF MarkUploadVerified, StoreInv, ObjectInv, TypeInv, UploadsKnown
      <4>3. RequestsMove
        BY <1>k, <2>2, <3>2, <4>2
           DEF RequestsMove, MarkUploadVerified, StoreInv, ObjectInv, TypeInv, TypeOK
      <4>4. LogMoves
        BY <3>2 DEF LogMoves, MarkUploadVerified, logVars
      <4>5. SessionsMove
        <5>1. \A x \in Ops : session'[x] = "VERIFIED" => session[x] = "VERIFIED" \/ x = o
          BY <1>k, <3>2 DEF MarkUploadVerified, StoreInv, ObjectInv, TypeInv, TypeOK
        <5>2. blob' = blob
          BY <2>1 DEF fileVars
        <5>3. QED
          BY <2>1, <3>2, <5>1, <5>2 DEF SessionsMove
      <4>6. ListMoves
        BY <1>i, <1>k, <3>2 DEF ListMoves, MarkUploadVerified, ObjectUsable, CollectorInv, StoreInv,
           ObjectInv, TypeInv, TypeOK
      <4>7. QED
        BY <4>1, <4>3, <4>4, <4>5, <4>6 DEF StoreMovesSafely, StoreStep
    <3>3. QED
      BY <1>4, <3>1, <3>2 DEF MarkVerified
  <2>6. QED
    BY <1>i, <2>3, <2>4, <2>5 DEF EngineMoves, EngineTypeInv
<1>5. ASSUME NEW o \in Ops, CallAppend(w, o) \/ CallFinalize(w, o) PROVE EngineMoves
  BY <1>1, <1>5 DEF CallAppend, CallFinalize
<1>6. QED
  BY <1>2, <1>3, <1>4, <1>5 DEF Upload

-----------------------------------------------------------------------------
(* Commit *)

\* Every call of Commit is such a step.
LEMMA CommitMoves ==
  ASSUME EngineKnows, NEW w \in Workers, Commit(w)
  PROVE  EngineMoves
<1>k. EngineTypeInv /\ HandlerInv /\ FileInv /\ CollectorInv /\ StoreInv /\ RequestsIntended
  BY DEF EngineKnows, EngineTypeInv
<1>i. UNCHANGED <<intent, fileVars, gc>> /\ CollectorInv' /\ FileInv' /\ BlobsMove
  <2>1. UNCHANGED <<intent, fileVars, gc>>
    BY DEF Commit, CallCommit, CommitEnsure, CommitSession, CommitBegin, CommitEnd, CommitReplay
  <2>2. QED
    BY <1>k, <2>1, FilesUntouched DEF CollectorInv
<1>1. ASSUME NEW o \in Ops, CallCommit(w, o) PROVE EngineMoves
  <2>1. UNCHANGED vars /\ Start(w, o, "commit-ensure")
    BY <1>1 DEF CallCommit
  <2>2. Hash(o) \in Hashes
    <3>1. intent \in [Ops -> [path : Paths, hash : Hashes \cup {NoHash}]]
      BY <1>k, EngineConstantsOK DEF HandlerInv
    <3>2. QED
      BY <1>1, <3>1 DEF CallCommit, Hash
  <2>3. /\ HandlerInv'
        /\ task'[w] = [op |-> o, call |-> "commit-ensure", n |-> 0]
        /\ \A v \in Workers \ {w} : task'[v] = task[v]
    BY <1>k, <1>i, <2>1, <2>2, StartTask DEF Calls, CommitCalls
  <2>4. Hash(o) \in blob' /\ opState'[o] \in {"READY", "COMPLETED"}
    BY <1>i, <1>1, <2>1 DEF CallCommit, StillStored, Exists, vars, opVars, fileVars
  <2>5. TasksMove
    BY <2>3, <2>4 DEF TasksMove, UploadCalls
  <2>6. ListMoves
    BY <1>i, <2>1 DEF ListMoves, vars, objectVars
  <2>7. QED
    BY <1>i, <2>1, <2>3, <2>5, <2>6, StoreUntouched DEF EngineMoves, EngineTypeInv
\* a handler that makes the next call of its commit
<1>2. ASSUME NEW call \in CommitCalls, task[w].call \in CommitCalls, Proceed(w, call, 0)
      PROVE  HandlerInv' /\ TasksMove
  <2>1. ~ Vacant(w)
    BY <1>2 DEF Vacant, CommitCalls
  <2>2. 0 \in 0..DeclaredSize(task[w].op) /\ call \in Calls
    BY <1>k, <1>2, <2>1, Serves DEF Calls
  <2>3. /\ HandlerInv'
        /\ task'[w] = [op |-> task[w].op, call |-> call, n |-> 0]
        /\ \A v \in Workers \ {w} : task'[v] = task[v]
    BY <1>k, <1>i, <1>2, <2>1, <2>2, ProceedTask
  <2>4. call \notin UploadCalls /\ call # "mark"
    BY <1>2 DEF CommitCalls, UploadCalls
  <2>5. QED
    BY <1>2, <2>1, <2>3, <2>4 DEF TasksMove
<1>3. ASSUME Return(w) PROVE HandlerInv' /\ TasksMove
  BY <1>k, <1>i, <1>3, ReturnTask DEF TasksMove
<1>4. CASE CommitEnsure(w)
  <2>1. HandlerInv' /\ TasksMove
    BY <1>2, <1>4 DEF CommitEnsure, At, CommitCalls
  <2>2. Hash(task[w].op) \in Hashes
    BY <1>k, <1>4, Serves DEF CommitEnsure, At, Vacant
  <2>3. StoreMovesSafely /\ ListMoves
    <3>1. CASE UNCHANGED vars
      BY <1>i, <3>1, StoreUntouched DEF ListMoves, vars, objectVars
    <3>2. CASE EnsureObject(Hash(task[w].op))
      <4>1. Next
        BY <2>2, <3>2 DEF Next, UploadNext
      <4>2. UNCHANGED <<opState, session, version, retained>>
        BY <3>2 DEF EnsureObject, opVars, sessionVars, logVars
      <4>3. ListMoves
        BY <1>i, <1>k, <3>2, <2>2 DEF ListMoves, EnsureObject, CollectorInv, StoreInv, ObjectInv, TypeInv, TypeOK
      <4>4. QED
        BY <4>1, <4>2, <4>3, StoreQuiet
    <3>3. QED
      BY <1>4, <3>1, <3>2 DEF CommitEnsure, Ensured
  <2>4. QED
    BY <1>i, <2>1, <2>3 DEF EngineMoves, EngineTypeInv
<1>5. ASSUME CommitSession(w) \/ CommitReplay(w) PROVE EngineMoves
  <2>1. UNCHANGED vars
    BY <1>5 DEF CommitSession, CommitReplay
  <2>2. HandlerInv' /\ TasksMove
    BY <1>2, <1>3, <1>5 DEF CommitSession, CommitReplay, At, CommitCalls
  <2>3. QED
    BY <1>i, <2>1, <2>2, StoreUntouched DEF EngineMoves, EngineTypeInv, ListMoves, vars, objectVars
<1>6. CASE CommitBegin(w)
  <2>1. HandlerInv' /\ TasksMove
    BY <1>2, <1>6 DEF CommitBegin, At, CommitCalls
  <2>2. CommitLock(task[w].op) /\ task[w].op \in Ops
    BY <1>k, <1>6, Serves DEF CommitBegin, At, Vacant
  <2>3. Next
    BY <2>2 DEF Next, CommitNext
  <2>4. UNCHANGED <<opState, session, version, retained, object>>
    BY <2>2 DEF CommitLock, opVars, sessionVars, logVars, objectVars
  <2>5. QED
    BY <1>i, <2>1, <2>3, <2>4, StoreQuiet DEF EngineMoves, EngineTypeInv, ListMoves
<1>7. CASE CommitEnd(w)
  <2> DEFINE o == task[w].op
  <2>1. HandlerInv' /\ TasksMove
    BY <1>3, <1>7 DEF CommitEnd
  <2>2. At(w, "locked") /\ CommitApply(o) /\ o \in Ops /\ commitTx = o /\ InsertVersion(o, request[o])
    BY <1>k, <1>7, Serves DEF CommitEnd, CommitApply, At, Vacant
  <2>3. Next
    BY <2>2 DEF Next, CommitNext
  <2>4. opState[o] = "READY"
    BY <1>k, <2>2, ConstantsOK DEF StoreInv, ObjectInv, TypeInv, CommitReady
  <2>5. RequestsMove
    BY <1>k, <2>2, <2>4 DEF RequestsMove, InsertVersion, StoreInv, ObjectInv, TypeInv, TypeOK
  <2>6. SessionsMove
    BY <1>k, <2>2 DEF SessionsMove, CommitApply, StoreInv, ObjectInv, TypeInv, TypeOK
  <2>7. LogMoves
    BY <1>k, <1>i, <2>2, InsertVersionMoves DEF LogMoves, fileVars
  <2>8. ListMoves
    BY <1>i, <2>2 DEF ListMoves, InsertVersion, objectVars
  <2>9. QED
    BY <1>i, <2>1, <2>3, <2>5, <2>6, <2>7, <2>8 DEF EngineMoves, EngineTypeInv, StoreMovesSafely, StoreStep
<1>8. QED
  BY <1>1, <1>4, <1>5, <1>6, <1>7 DEF Commit
-----------------------------------------------------------------------------
(* Collector.RunOnce and the environment *)

\* The handlers stay at their tasks while another part moves.
LEMMA TasksUntouched ==
  ASSUME HandlerInv, UNCHANGED <<intent, task>>
  PROVE  HandlerInv' /\ TasksMove
<1>1. ASSUME NEW w \in Workers
      PROVE  /\ Vacant(w)' = Vacant(w)
             /\ Hash(task[w].op)' = Hash(task[w].op) /\ DeclaredSize(task[w].op)' = DeclaredSize(task[w].op)
  BY DEF Vacant, Hash, DeclaredSize
<1>2. QED
  BY <1>1 DEF HandlerInv, TasksMove

\* Every call of a collector pass is such a step.
LEMMA RunOnceMoves ==
  ASSUME EngineKnows, RunOnce
  PROVE  EngineMoves
<1>k. EngineTypeInv /\ HandlerInv /\ FileInv /\ CollectorInv /\ StoreInv /\ RequestsIntended
  BY DEF EngineKnows, EngineTypeInv
<1>i. UNCHANGED <<intent, task>> /\ HandlerInv' /\ TasksMove
  <2>1. UNCHANGED <<intent, task>>
    BY DEF RunOnce, CollectExpired, AbortPart, RecordCleanup, CollectVersions, ListGarbage, DeleteBlob,
       DeleteRecord, CollectorReturns
  <2>2. QED
    BY <1>k, <2>1, TasksUntouched
<1>t. /\ opState \in [Ops -> OpStates] /\ session \in [Ops -> SessionStates]
      /\ object \in [Hashes -> ObjectStates] /\ late \subseteq Ops
      /\ SessionsKnown
  BY <1>k DEF StoreInv, ObjectInv, TypeInv, TypeOK
<1>g. /\ gc.call \in CollectorCalls /\ gc.current \in Ops \cup Hashes \cup {NoOp}
      /\ gc.expired \subseteq Ops /\ gc.garbage \subseteq Hashes
      /\ gc = [call |-> gc.call, current |-> gc.current, expired |-> gc.expired, garbage |-> gc.garbage]
  BY <1>k DEF CollectorInv
<1>f. ASSUME UNCHANGED fileVars PROVE FileInv' /\ BlobsMove
  BY <1>k, <1>i, <1>f, FilesUntouched
<1>1. ASSUME NEW batch \in SUBSET Expirable, CollectExpired(batch) PROVE EngineMoves
  <2>1. UNCHANGED fileVars /\ gc' = [call |-> "abort", current |-> NoOp, expired |-> batch, garbage |-> {}]
    BY <1>1 DEF CollectExpired, IdleCollector
  <2>2. CollectorInv' /\ ListMoves
    BY <1>t, <2>1 DEF CollectorInv, ListMoves, CollectorCalls, Expirable
  <2>3. StoreMovesSafely
    <3>1. CASE UNCHANGED vars
      BY <3>1, StoreUntouched
    <3>2. CASE ExpireUploadSessions(batch)
      <4>1. Next
        BY <3>2 DEF Next, GarbageNext
      <4>2. RequestsMove
        BY <1>t, <3>2 DEF ExpireUploadSessions, RequestsMove, SessionsKnown, Expirable
      <4>3. SessionsMove /\ LogMoves
        BY <1>t, <3>2 DEF ExpireUploadSessions, SessionsMove, LogMoves, logVars
      <4>4. QED
        BY <4>1, <4>2, <4>3 DEF StoreMovesSafely, StoreStep
    <3>3. QED
      BY <1>1, <3>1, <3>2 DEF CollectExpired
  <2>4. QED
    BY <1>i, <1>f, <2>1, <2>2, <2>3 DEF EngineMoves, EngineTypeInv
<1>2. ASSUME NEW o \in Ops, AbortPart(o) PROVE EngineMoves
  <2>1. /\ UNCHANGED <<vars, blob>>
        /\ part' = [part EXCEPT ![o] = NoPart] /\ spoiled' = spoiled \ {o}
        /\ gc' = [call |-> "cleanup", current |-> o, expired |-> gc.expired, garbage |-> gc.garbage]
    BY <1>2, <1>g DEF AbortPart
  <2>2. CollectorInv' /\ ListMoves
    BY <1>g, <2>1 DEF CollectorInv, ListMoves, CollectorCalls, vars, objectVars
  <2>3. FileInv'
    <3>1. \A x \in Ops : DeclaredSize(x)' = DeclaredSize(x)
      BY <1>i DEF DeclaredSize, Hash
    <3>2. QED
      BY <1>k, <2>1, <3>1 DEF FileInv, NoPart
  <2>4. QED
    BY <1>i, <2>1, <2>2, <2>3, StoreUntouched DEF EngineMoves, EngineTypeInv, BlobsMove
<1>3. CASE RecordCleanup
  <2>1. /\ UNCHANGED fileVars /\ gc.current \in Ops /\ CompleteUploadCleanup(gc.current)
        /\ gc' = [call |-> "abort", current |-> NoOp, expired |-> gc.expired \ {gc.current},
                  garbage |-> gc.garbage]
    BY <1>3, <1>k, <1>g DEF RecordCleanup, Collecting, CollectorInv
  <2>2. CollectorInv' /\ ListMoves
    BY <1>g, <2>1 DEF CollectorInv, ListMoves, CollectorCalls, CompleteUploadCleanup, objectVars
  <2>3. Next
    BY <2>1 DEF Next, GarbageNext
  <2>4. RequestsMove /\ SessionsMove /\ LogMoves
    BY <1>t, <2>1 DEF CompleteUploadCleanup, RequestsMove, SessionsMove, LogMoves, opVars, logVars
  <2>5. QED
    BY <1>i, <1>f, <2>1, <2>2, <2>3, <2>4 DEF EngineMoves, EngineTypeInv, StoreMovesSafely, StoreStep
<1>4. ASSUME NEW batch \in SUBSET Prunable, NEW orphans \in SUBSET Hashes, CollectVersions(batch, orphans)
      PROVE  EngineMoves
  <2>1. /\ UNCHANGED fileVars /\ PruneVersions(batch, orphans)
        /\ gc' = [call |-> "list", current |-> gc.current, expired |-> gc.expired,
                  garbage |-> {h \in Hashes : object[h] = "PENDING_DELETE"}]
    BY <1>4, <1>g DEF CollectVersions
  <2>2. \A h \in Hashes : object[h] = "PENDING_DELETE" => object'[h] = "PENDING_DELETE"
    BY <1>t, <2>1 DEF PruneVersions
  <2>3. CollectorInv' /\ ListMoves
    BY <1>g, <2>1, <2>2 DEF CollectorInv, ListMoves, CollectorCalls
  <2>4. Next
    BY <2>1 DEF Next, GarbageNext
  <2>5. RequestsMove /\ SessionsMove /\ LogMoves
    BY <2>1 DEF PruneVersions, RequestsMove, SessionsMove, LogMoves, opVars, sessionVars
  <2>6. QED
    BY <1>i, <1>f, <2>1, <2>3, <2>4, <2>5 DEF EngineMoves, EngineTypeInv, StoreMovesSafely, StoreStep
<1>5. ASSUME NEW rows \in SUBSET Hashes, ListGarbage(rows) PROVE EngineMoves
  <2>1. /\ UNCHANGED <<vars, fileVars>> /\ rows \subseteq gc.garbage
        /\ gc' = [call |-> "delete", current |-> gc.current, expired |-> gc.expired, garbage |-> rows]
    BY <1>5, <1>g DEF ListGarbage
  <2>2. CollectorInv' /\ ListMoves
    BY <1>g, <2>1 DEF CollectorInv, ListMoves, CollectorCalls, vars, objectVars
  <2>3. QED
    BY <1>i, <1>f, <2>1, <2>2, StoreUntouched DEF EngineMoves, EngineTypeInv
<1>6. ASSUME NEW h \in Hashes, DeleteBlob(h) PROVE EngineMoves
  <2>1. /\ UNCHANGED <<vars, part, spoiled>> /\ h \in gc.garbage /\ blob' = blob \ {h}
        /\ gc' = [call |-> "record", current |-> h, expired |-> gc.expired, garbage |-> gc.garbage]
    BY <1>6, <1>g DEF DeleteBlob
  <2>2. CollectorInv' /\ ListMoves
    BY <1>g, <2>1 DEF CollectorInv, ListMoves, CollectorCalls, vars, objectVars
  <2>3. FileInv'
    <3>1. \A x \in Ops : DeclaredSize(x)' = DeclaredSize(x)
      BY <1>i DEF DeclaredSize, Hash
    <3>2. QED
      BY <1>k, <2>1, <3>1 DEF FileInv
  <2>4. QED
    BY <1>i, <2>1, <2>2, <2>3, StoreUntouched DEF EngineMoves, EngineTypeInv, BlobsMove
<1>7. CASE DeleteRecord
  <2>1. /\ UNCHANGED fileVars /\ DeleteGarbageRecord(gc.current) /\ gc.current \in Hashes
        /\ gc' = [call |-> "delete", current |-> NoOp, expired |-> gc.expired,
                  garbage |-> gc.garbage \ {gc.current}]
    BY <1>7, <1>g DEF DeleteRecord, DeleteGarbageRecord, PendingGarbage
  <2>2. CollectorInv'
    BY <1>g, <2>1 DEF CollectorInv, CollectorCalls
  <2>3. ListMoves
    BY <1>t, <1>g, <2>1 DEF ListMoves, DeleteGarbageRecord
  <2>4. Next
    BY <2>1 DEF Next, GarbageNext
  <2>5. UNCHANGED <<opState, session, version, retained>>
    BY <2>1 DEF DeleteGarbageRecord, opVars, sessionVars, logVars
  <2>6. QED
    BY <1>i, <1>f, <2>1, <2>2, <2>3, <2>4, <2>5, StoreQuiet DEF EngineMoves, EngineTypeInv
<1>8. CASE CollectorReturns
  <2>1. UNCHANGED <<vars, fileVars>> /\ gc' = IdleCollector
    BY <1>8 DEF CollectorReturns
  <2>2. CollectorInv' /\ ListMoves
    BY <2>1 DEF CollectorInv, ListMoves, CollectorCalls, IdleCollector
  <2>3. QED
    BY <1>i, <1>f, <2>1, <2>2, StoreUntouched DEF EngineMoves, EngineTypeInv
<1>9. QED
  BY <1>1, <1>2, <1>3, <1>4, <1>5, <1>6, <1>7, <1>8 DEF RunOnce

\* Handlers that stop give their locks back.
LEMMA RollBackMoves ==
  ASSUME EngineKnows, NEW stopped \in SUBSET Workers, RollBack(stopped), gc' \in {gc, IdleCollector}
  PROVE  EngineMoves
<1>k. EngineTypeInv /\ HandlerInv /\ FileInv /\ CollectorInv /\ StoreInv
  BY DEF EngineKnows, EngineTypeInv
<1>1. /\ UNCHANGED <<intent, fileVars, opVars, sessionVars, object, logVars, readerVars, jobVars>>
      /\ task' = [w \in Workers |-> IF w \in stopped THEN IdleTask ELSE task[w]]
  BY DEF RollBack
<1>2. HandlerInv' /\ TasksMove
  BY <1>k, <1>1, StopTasks DEF TasksMove
<1>3. FileInv' /\ BlobsMove
  BY <1>k, <1>1, FilesUntouched
<1>4. CollectorInv' /\ ListMoves
  BY <1>k, <1>1 DEF CollectorInv, ListMoves, CollectorCalls, IdleCollector
<1>5. RolledBack
  <2>1. commitTx' \in {commitTx, NoOp}
    BY DEF RollBack
  <2>2. reading' \in [Ops -> Hashes \cup {NoHash}]
    BY <1>k DEF RollBack, StoreInv, ObjectInv, TypeInv, TypeOK
  <2>3. QED
    BY <1>1, <2>1, <2>2 DEF RolledBack
<1>6. RequestsMove /\ SessionsMove /\ LogMoves
  BY <1>1 DEF RequestsMove, SessionsMove, LogMoves, opVars, sessionVars, logVars
<1>7. QED
  BY <1>1, <1>2, <1>3, <1>4, <1>5, <1>6 DEF EngineMoves, EngineTypeInv, StoreMovesSafely, StoreStep

\* Failures, deletes, the clock and the readers take such a step too.
LEMMA EnvironmentMoves ==
  ASSUME EngineKnows, Environment
  PROVE  EngineMoves
<1>k. EngineTypeInv /\ HandlerInv /\ FileInv /\ CollectorInv /\ StoreInv /\ RequestsIntended
  BY DEF EngineKnows, EngineTypeInv
<1>t. /\ request \in [Ops -> Request \cup {NoRequest}]
      /\ opState \in [Ops -> OpStates] /\ session \in [Ops -> SessionStates]
  BY <1>k DEF StoreInv, ObjectInv, TypeInv, TypeOK
\* the store moves and leaves the rows alone, nothing else moves
<1>1. ASSUME UNCHANGED <<engineVars, object>>, StoreMovesSafely PROVE EngineMoves
  <2>1. UNCHANGED <<intent, task, fileVars, gc>>
    BY <1>1 DEF engineVars
  <2>2. HandlerInv' /\ TasksMove /\ FileInv' /\ BlobsMove
    BY <1>k, <2>1, TasksUntouched, FilesUntouched
  <2>3. CollectorInv' /\ ListMoves
    BY <1>k, <1>1, <2>1 DEF CollectorInv, ListMoves
  <2>4. QED
    BY <1>1, <2>1, <2>2, <2>3 DEF EngineMoves, EngineTypeInv
<1>2. ASSUME NEW w \in Workers, HandlerFails(w) PROVE EngineMoves
  BY <1>2, RollBackMoves DEF HandlerFails
<1>3. CASE Crash
  BY <1>3, RollBackMoves DEF Crash
<1>4. ASSUME NEW o \in Ops, NEW base \in 0..CurrentSequence, DeleteFile(o, base) PROVE EngineMoves
  <2> DEFINE r == RequestOf(o, base)
  <2>1. /\ UNCHANGED engineVars /\ Hash(o) = NoHash
        /\ CommitDelete(o, r) /\ InsertVersion(o, r)
        /\ request' = [request EXCEPT ![o] = r] /\ session' = session
    BY <1>4 DEF DeleteFile, CommitDelete
  <2>2. intent[o].path \in Paths
    <3>1. intent \in [Ops -> [path : Paths, hash : Hashes \cup {NoHash}]]
      BY <1>k, EngineConstantsOK DEF HandlerInv
    <3>2. QED
      BY <3>1
  <2>3. r = [path |-> intent[o].path, base |-> base, hash |-> NoHash]
    BY <2>1 DEF RequestOf
  <2>4. Next
    BY <2>1, <2>2, <2>3 DEF Next, CommitNext
  <2>5. RequestsMove
    BY <1>t, <2>1, <2>3 DEF RequestsMove, InsertVersion
  <2>6. SessionsMove
    BY <2>1 DEF SessionsMove
  <2>7. LogMoves
    BY <1>k, <2>1, <2>3, InsertVersionMoves DEF LogMoves
  <2>8. UNCHANGED object
    BY <2>1 DEF InsertVersion, objectVars
  <2>9. QED
    BY <1>1, <2>1, <2>4, <2>5, <2>6, <2>7, <2>8 DEF StoreMovesSafely, StoreStep
<1>5. ASSUME NEW o \in Ops, SessionTimesOut(o), UNCHANGED engineVars PROVE EngineMoves
  <2>1. Next
    BY <1>5 DEF Next, UploadNext
  <2>2. UNCHANGED <<opState, session, version, retained, object>>
    BY <1>5 DEF SessionTimesOut, opVars, objectVars, logVars
  <2>3. QED
    BY <1>1, <1>5, <2>1, <2>2, StoreQuiet
<1>6. ASSUME ReaderNext, UNCHANGED engineVars PROVE EngineMoves
  <2>1. Next
    BY <1>6 DEF Next
  <2>2. UNCHANGED <<opState, session, version, retained, object>>
    BY <1>6 DEF ReaderNext, ConsumeEnrollment, AckChanges, StartRestore, ListRestoreItems,
       ReportRestoreItem, FinishRestore, opVars, sessionVars, objectVars, logVars
  <2>3. QED
    BY <1>1, <1>6, <2>1, <2>2, StoreQuiet
<1>7. QED
  BY <1>2, <1>3, <1>4, <1>5, <1>6 DEF Environment

\* Every step of the engine is one of these.
LEMMA EngineStepMoves ==
  ASSUME EngineKnows, [EngineNext]_allVars
  PROVE  EngineMoves
<1>1. CASE EngineNext
  BY <1>1, BeginUploadMoves, UploadMoves, CommitMoves, RunOnceMoves, EnvironmentMoves DEF EngineNext
<1>2. CASE UNCHANGED allVars
  <2>1. UNCHANGED <<vars, intent, task, fileVars, gc>>
    BY <1>2 DEF allVars, engineVars
  <2>2. HandlerInv' /\ TasksMove /\ FileInv' /\ BlobsMove
    BY <2>1, TasksUntouched, FilesUntouched DEF EngineKnows, EngineTypeInv
  <2>3. CollectorInv' /\ ListMoves
    BY <2>1 DEF EngineKnows, EngineTypeInv, CollectorInv, ListMoves, vars, objectVars
  <2>4. QED
    BY <2>1, <2>2, <2>3, StoreUntouched DEF EngineMoves, EngineTypeInv
<1>3. QED
  BY <1>1, <1>2
-----------------------------------------------------------------------------
(* What a handler learned and still relies on *)

\* A handler that commits was told that the upload is done, and one that uploads
\* has a session; an operation and a session never go back on that.
CallsInOrder ==
    \A w \in Workers :
        /\ task[w].call \in CommitCalls => opState[task[w].op] \in {"READY", "COMPLETED", "FAILED"}
        /\ task[w].call \in UploadCalls => session[task[w].op] # "NONE"

\* A content is there, or its row shows that the collector has taken it.
Stored(o) == Hash(o) \in blob \/ object[Hash(o)] = "PENDING_DELETE"

\* The handler has seen the content of this operation in the blob store, and
\* the operation still needs it.
Seen(w, o) ==
    \/ task[w].call \in CommitCalls /\ opState[o] = "READY"
    \/ task[w].call = "mark" /\ session[o] = "ACTIVE"

\* What a handler has seen stays there, or shows that it does not: the commit
\* and the verification that read the row next are refused.
SeenStored == \A w \in Workers : Seen(w, task[w].op) => Stored(task[w].op)

EngineInv ==
    EngineKnows /\ CallsInOrder /\ SeenStored
    /\ GarbageStaysGarbage /\ VerifiedStored /\ NoCommittedDataLoss

\* At first there are no handlers, no files and no rows.
LEMMA EngineInvInit == EngineInit => EngineInv
<1> SUFFICES ASSUME EngineInit PROVE EngineInv
  OBVIOUS
<1> USE DEF EngineInit
<1>1. StoreInv
  BY StoreInit
<1>2. HandlerInv
  BY DEF HandlerInv, IdleTask, Vacant
<1>3. FileInv /\ CollectorInv
  BY DEF FileInv, NoPart, CollectorInv, IdleCollector, CollectorCalls
<1>4. RequestsIntended
  BY DEF Init, RequestsIntended
<1>5. CallsInOrder /\ SeenStored
  BY DEF CallsInOrder, SeenStored, Seen, IdleTask, CommitCalls, UploadCalls
<1>6. GarbageStaysGarbage
  BY DEF GarbageStaysGarbage, IdleCollector
<1>7. VerifiedStored /\ NoCommittedDataLoss
  BY DEF Init, VerifiedStored, NoCommittedDataLoss
<1>8. QED
  BY <1>1, <1>2, <1>3, <1>4, <1>5, <1>6, <1>7 DEF EngineInv, EngineKnows, EngineTypeInv

\* A content that an operation in flight needs stays stored, whatever the
\* collector deletes.
LEMMA StoredKept ==
  ASSUME EngineInv, EngineMoves, StoreInv', OperationsMove, ObjectsMove,
         NEW o \in Ops, Hash(o) \in Hashes, InFlight(o), Stored(o)
  PROVE  Stored(o)'
<1>1. Needed(Hash(o))
  <2>1. opState[o] # "NONE"
    BY DEF InFlight
  <2>2. request[o].hash = Hash(o)
    BY <2>1 DEF EngineInv, EngineKnows, RequestsIntended
  <2>3. QED
    BY <2>2 DEF Needed
<1>2. Hash(o)' = Hash(o)
  BY DEF EngineMoves, Hash
<1>3. CASE object[Hash(o)] = "PENDING_DELETE"
  <2>1. object'[Hash(o)] = "PENDING_DELETE"
    BY <1>1, <1>3 DEF ObjectsMove
  <2>2. QED
    BY <1>2, <2>1 DEF Stored
<1>4. CASE Hash(o) \in blob
  <2>1. CASE blob \subseteq blob'
    BY <1>2, <1>4, <2>1 DEF Stored
  <2>2. ASSUME NEW h \in gc.garbage, blob' = blob \ {h}, UNCHANGED vars PROVE Stored(o)'
    <3>1. CASE Hash(o) = h
      <4>1. object[h] = "PENDING_DELETE"
        BY DEF EngineInv, GarbageStaysGarbage
      <4>2. object'[h] = "PENDING_DELETE"
        BY <2>2, <4>1 DEF vars, objectVars
      <4>3. QED
        BY <1>2, <3>1, <4>2 DEF Stored
    <3>2. CASE Hash(o) # h
      BY <1>2, <1>4, <2>2, <3>2 DEF Stored
    <3>3. QED
      BY <3>1, <3>2
  <2>3. QED
    BY <2>1, <2>2 DEF EngineMoves, BlobsMove
<1>5. QED
  BY <1>3, <1>4 DEF Stored

\* The store's steps and the handlers' moves keep what the handlers know.
LEMMA EngineInvStep == EngineInv /\ [EngineNext]_allVars => EngineInv'
<1> SUFFICES ASSUME EngineInv, [EngineNext]_allVars PROVE EngineInv'
  OBVIOUS
<1>k. EngineKnows /\ StoreInv /\ HandlerInv /\ FileInv /\ CollectorInv
  BY DEF EngineInv, EngineKnows, EngineTypeInv
<1>m. EngineMoves
  BY <1>k, EngineStepMoves
<1>n. /\ EngineTypeInv' /\ intent' = intent /\ TasksMove /\ BlobsMove /\ ListMoves
      /\ StoreStep /\ RequestsMove /\ SessionsMove /\ LogMoves
  BY <1>m DEF EngineMoves, StoreMovesSafely
<1>s. StoreInv' /\ OperationsMove /\ ObjectsMove
  BY <1>k, <1>n, StoreStepKeeps
<1>h. \A o \in Ops : Hash(o)' = Hash(o)
  BY <1>n DEF Hash
<1>1. RequestsIntended'
  <2>1. ASSUME NEW o \in Ops, opState'[o] # "NONE" PROVE request'[o].hash = Hash(o)
    BY <1>k, <1>n, <1>s, <2>1 DEF EngineKnows, RequestsIntended, RequestsMove, OperationsMove
  <2>2. QED
    BY <1>h, <2>1 DEF RequestsIntended
<1>2. CallsInOrder'
  <2> SUFFICES ASSUME NEW w \in Workers
               PROVE  /\ task'[w].call \in CommitCalls =>
                            opState'[task'[w].op] \in {"READY", "COMPLETED", "FAILED"}
                      /\ task'[w].call \in UploadCalls => session'[task'[w].op] # "NONE"
    BY DEF CallsInOrder
  <2>1. /\ task[w].call \in CommitCalls => opState[task[w].op] \in {"READY", "COMPLETED", "FAILED"}
        /\ task[w].call \in UploadCalls => session[task[w].op] # "NONE"
    BY DEF EngineInv, CallsInOrder
  <2>2. /\ task[w].call \in CommitCalls => opState'[task[w].op] \in {"READY", "COMPLETED", "FAILED"}
        /\ task[w].call \in UploadCalls => session'[task[w].op] # "NONE"
    <3>1. ~ Vacant(w) => task[w].op \in Ops
      BY <1>k, Serves
    <3>2. task[w].call \in CommitCalls \/ task[w].call \in UploadCalls => ~ Vacant(w)
      BY DEF CommitCalls, UploadCalls, Vacant
    <3>3. QED
      BY <1>s, <2>1, <3>1, <3>2 DEF OperationsMove
  <2>3. CASE task'[w] = task[w]
    BY <2>2, <2>3
  <2>4. CASE task'[w] = IdleTask
    BY <2>4 DEF IdleTask, CommitCalls, UploadCalls
  <2>5. CASE /\ ~ Vacant(w) /\ task'[w].op = task[w].op
             /\ task'[w].call \in CommitCalls => task[w].call \in CommitCalls
             /\ task'[w].call \in UploadCalls =>
                   task[w].call \in UploadCalls \/ session'[task[w].op] # "NONE"
    BY <2>2, <2>5
  <2>6. CASE /\ task'[w].call \in CommitCalls => opState'[task'[w].op] \in {"READY", "COMPLETED"}
             /\ task'[w].call \in UploadCalls => session'[task'[w].op] # "NONE"
    BY <2>6
  <2>7. QED
    BY <1>n, <2>3, <2>4, <2>5, <2>6 DEF TasksMove
<1>3. GarbageStaysGarbage'
  BY <1>n DEF ListMoves, EngineInv, GarbageStaysGarbage
<1>4. SeenStored'
  <2> SUFFICES ASSUME NEW w \in Workers, Seen(w, task[w].op)' PROVE Stored(task[w].op)'
    BY DEF SeenStored
  <2>0. \/ task'[w].call \in CommitCalls /\ opState'[task'[w].op] = "READY"
        \/ task'[w].call = "mark" /\ session'[task'[w].op] = "ACTIVE"
    BY DEF Seen
  <2>1. task'[w].call \in CommitCalls \/ task'[w].call = "mark"
    BY <2>0
  \* the handler had seen it before this step
  <2>2. ASSUME NEW x \in Ops, x = task[w].op, x = task'[w].op, Hash(x) \in Hashes,
               \/ task[w].call \in CommitCalls /\ opState'[x] = "READY"
               \/ task[w].call = "mark" /\ session'[x] = "ACTIVE"
        PROVE  Stored(x)'
    <3>1. Seen(w, x) /\ InFlight(x)
      <4>1. CASE task[w].call \in CommitCalls /\ opState'[x] = "READY"
        <5>1. opState[x] \in {"READY", "COMPLETED", "FAILED"}
          BY <2>2, <4>1 DEF EngineInv, CallsInOrder
        <5>2. opState[x] = "READY"
          BY <1>s, <2>2, <4>1, <5>1 DEF OperationsMove
        <5>3. QED
          BY <4>1, <5>2 DEF Seen, InFlight
      <4>2. CASE task[w].call = "mark" /\ session'[x] = "ACTIVE"
        <5>1. session[x] # "NONE"
          BY <2>2, <4>2 DEF EngineInv, CallsInOrder, UploadCalls
        <5>2. session[x] = "ACTIVE"
          BY <1>s, <2>2, <4>2, <5>1 DEF OperationsMove
        <5>3. opState[x] = "RESERVED"
          BY <1>k, <2>2, <5>2 DEF StoreInv, ObjectInv, TypeInv, UploadsKnown
        <5>4. QED
          BY <4>2, <5>2, <5>3 DEF Seen, InFlight
      <4>3. QED
        BY <2>2, <4>1, <4>2
    <3>2. Stored(x)
      BY <2>2, <3>1 DEF EngineInv, SeenStored
    <3>3. QED
      BY <1>m, <1>s, <2>2, <3>1, <3>2, StoredKept
  \* the handler sees it in this step
  <2>3. ASSUME NEW x \in Ops, x = task'[w].op, Hash(x) \in blob' PROVE Stored(x)'
    BY <1>n, <2>3 DEF Stored, Hash
  <2>x. ASSUME NEW x \in Ops, x = task'[w].op, Stored(x)' PROVE Stored(task[w].op)'
    BY <2>x DEF Stored, Hash
  <2>4. CASE task'[w] = task[w]
    <3>1. ~ Vacant(w)
      BY <2>1, <2>4 DEF Vacant, CommitCalls
    <3>2. PICK x \in Ops : x = task[w].op /\ Hash(x) \in Hashes
      BY <1>k, <3>1, Serves
    <3>3. Stored(x)'
      BY <2>0, <2>2, <2>4, <3>2
    <3>4. QED
      BY <2>4, <2>x, <3>2, <3>3
  <2>5. CASE task'[w] = IdleTask
    BY <2>1, <2>5 DEF IdleTask, CommitCalls
  <2>6. CASE /\ ~ Vacant(w) /\ task'[w].op = task[w].op
             /\ task'[w].call \in CommitCalls => task[w].call \in CommitCalls
             /\ task'[w].call = "mark" => Hash(task[w].op) \in blob'
    <3>1. PICK x \in Ops : x = task[w].op /\ Hash(x) \in Hashes
      BY <1>k, <2>6, Serves
    <3>2. CASE task'[w].call = "mark"
      <4>1. Stored(x)'
        BY <2>3, <2>6, <3>1, <3>2
      <4>2. QED
        BY <2>6, <2>x, <3>1, <4>1
    <3>3. CASE task'[w].call \in CommitCalls /\ opState'[task'[w].op] = "READY"
      <4>1. Stored(x)'
        BY <2>2, <2>6, <3>1, <3>3
      <4>2. QED
        BY <2>6, <2>x, <3>1, <4>1
    <3>4. QED
      BY <2>0, <3>2, <3>3
  <2>7. CASE /\ task'[w].op \in Ops /\ task'[w].call # "mark"
             /\ task'[w].call \in CommitCalls => Hash(task'[w].op) \in blob'
    <3>1. PICK x \in Ops : x = task'[w].op /\ Hash(x) \in blob'
      BY <2>1, <2>7
    <3>2. QED
      BY <2>3, <2>x, <3>1
  <2>8. QED
    BY <1>n, <2>4, <2>5, <2>6, <2>7 DEF TasksMove
<1>5. VerifiedStored'
  <2> SUFFICES ASSUME NEW o \in Ops, session'[o] = "VERIFIED"
               PROVE  Hash(o) \in blob' /\ object'[Hash(o)] = "AVAILABLE"
    BY <1>h DEF VerifiedStored
  <2>1. CASE session[o] = "VERIFIED"
    <3>1. Hash(o) \in blob /\ object[Hash(o)] = "AVAILABLE"
      BY <2>1 DEF EngineInv, VerifiedStored
    <3>2. Hash(o) \in Hashes
      BY <1>k, <3>1 DEF FileInv
    <3>3. opState[o] = "READY" /\ request[o].hash = Hash(o)
      BY <1>k, <2>1 DEF StoreInv, SessionsKnown, EngineKnows, RequestsIntended
    <3>4. object'[Hash(o)] = "AVAILABLE"
      BY <1>s, <3>1, <3>2, <3>3 DEF ObjectsMove, Needed, InFlight
    <3>5. Hash(o) \notin gc.garbage
      BY <3>1 DEF EngineInv, GarbageStaysGarbage
    <3>6. Hash(o) \in blob'
      BY <1>n, <3>1, <3>5 DEF BlobsMove
    <3>7. QED
      BY <3>4, <3>6
  <2>2. ASSUME NEW w \in Workers, At(w, "mark"), task[w].op = o, MarkUploadVerified(o), blob' = blob
        PROVE  Hash(o) \in blob' /\ object'[Hash(o)] = "AVAILABLE"
    <3>1. session[o] = "ACTIVE" /\ opState[o] = "RESERVED" /\ Hash(o) \in Hashes
      BY <1>k, <2>2, Serves DEF MarkUploadVerified, At, Vacant, StoreInv, ObjectInv, TypeInv, UploadsKnown
    <3>2. request[o].hash = Hash(o)
      BY <1>k, <3>1 DEF EngineKnows, RequestsIntended
    <3>3. object[Hash(o)] # "PENDING_DELETE" /\ object' = [object EXCEPT ![Hash(o)] = "AVAILABLE"]
      BY <2>2, <3>2 DEF MarkUploadVerified, ObjectUsable
    <3>4. Stored(o)
      BY <2>2, <3>1 DEF At, Seen, EngineInv, SeenStored
    <3>5. object'[Hash(o)] = "AVAILABLE"
      BY <1>k, <3>1, <3>3 DEF StoreInv, ObjectInv, TypeInv, TypeOK
    <3>6. QED
      BY <2>2, <3>3, <3>4, <3>5 DEF Stored
  <2>3. QED
    BY <1>n, <2>1, <2>2 DEF SessionsMove
<1>6. NoCommittedDataLoss'
  <2> SUFFICES ASSUME NEW i \in retained', version'[i].hash # NoHash PROVE version'[i].hash \in blob'
    BY DEF NoCommittedDataLoss
  <2>1. CASE i \in retained /\ version'[i] = version[i]
    <3>1. version[i].hash \in blob /\ object[version[i].hash] = "AVAILABLE"
      BY <1>k, <2>1 DEF EngineInv, NoCommittedDataLoss, StoreInv, ObjectInv, RetainedAvailable
    <3>2. version[i].hash \notin gc.garbage
      BY <3>1 DEF EngineInv, GarbageStaysGarbage
    <3>3. QED
      BY <1>n, <2>1, <3>1, <3>2 DEF BlobsMove
  <2>2. ASSUME NEW w \in Workers, At(w, "locked"), task[w].op = commitTx, commitTx \in Ops,
               version'[i].hash = request[commitTx].hash, blob' = blob
        PROVE  version'[i].hash \in blob'
    <3>1. opState[commitTx] = "READY" /\ object[request[commitTx].hash] = "AVAILABLE"
      BY <1>k, <2>2, ConstantsOK DEF StoreInv, ObjectInv, TypeInv, CommitReady, CommitChecked
    <3>2. request[commitTx].hash = Hash(commitTx)
      BY <1>k, <2>2, <3>1 DEF EngineKnows, RequestsIntended
    <3>3. Stored(commitTx)
      BY <2>2, <3>1 DEF At, CommitCalls, Seen, EngineInv, SeenStored
    <3>4. QED
      BY <2>2, <3>1, <3>2, <3>3 DEF Stored
  <2>3. QED
    BY <1>n, <2>1, <2>2 DEF LogMoves
<1>7. QED
  BY <1>n, <1>s, <1>1, <1>2, <1>3, <1>4, <1>5, <1>6 DEF EngineInv, EngineKnows

\* The files, the handlers and the collector's lists are well-typed: no append,
\* by however many handlers, makes a part longer than its operation declared.
THEOREM EngineTypeCorrect == EngineSpec => []EngineTypeOK
<1>1. EngineInv => EngineTypeOK
  BY EngineTypeInvGives DEF EngineInv, EngineKnows
<1>2. QED
  BY EngineInvInit, EngineInvStep, <1>1, PTL DEF EngineSpec

\* No version that can be listed or restored loses its content, between Exists,
\* EnsureObject and Commit of the handlers and the collector's two deletions.
THEOREM CommittedDataNeverLost == EngineSpec => []NoCommittedDataLoss
<1>1. EngineInv => NoCommittedDataLoss
  BY DEF EngineInv
<1>2. QED
  BY EngineInvInit, EngineInvStep, <1>1, PTL DEF EngineSpec

\* A verified upload has its content and its row until it is committed or
\* expires: FinalizeUpload and MarkUploadVerified against the collector.
THEOREM VerifiedAlwaysStored == EngineSpec => []VerifiedStored
<1>1. EngineInv => VerifiedStored
  BY DEF EngineInv
<1>2. QED
  BY EngineInvInit, EngineInvStep, <1>1, PTL DEF EngineSpec

\* A row on the collector's list is not revived by EnsureObject, BeginUpload or
\* MarkUploadVerified while its blob is being deleted.
THEOREM GarbageAlwaysGarbage == EngineSpec => []GarbageStaysGarbage
<1>1. EngineInv => GarbageStaysGarbage
  BY DEF EngineInv
<1>2. QED
  BY EngineInvInit, EngineInvStep, <1>1, PTL DEF EngineSpec

\* Under the engine's handlers, crashes and collector the rows keep what the
\* metadata store promises on its own: the content of a retained version is
\* never marked for deletion.
THEOREM EngineKeepsContents == EngineSpec => []RetainedAvailable
<1>1. EngineInv => RetainedAvailable
  BY DEF EngineInv, EngineKnows, StoreInv, ObjectInv
<1>2. QED
  BY EngineInvInit, EngineInvStep, <1>1, PTL DEF EngineSpec

-----------------------------------------------------------------------------
(* The history under the engine *)

\* A rollback of open transactions changes nothing of the history, and no
\* membership: it only gives locks back.
LEMMA RolledBackHistory ==
  ASSUME HistoryInv, RolledBack
  PROVE  HistoryInv' /\ UNCHANGED Log!logVars
<1>1. UNCHANGED <<opVars, logVars, readerVars, jobVars>>
  BY DEF RolledBack
<1> USE <1>1 DEF opVars, logVars, readerVars, jobVars
<1>2. NoLostUpdate' /\ AtMostOnce' /\ UnreadRetained' /\ Covered' /\ ManifestIntact'
  BY DEF HistoryInv, NoLostUpdate, AtMostOnce, UnreadRetained, Covered, ManifestIntact,
     IsNewest, CurrentSequence, ActiveJob
<1>3. WritersRead'
  BY ConstantsOK DEF HistoryInv, BaseInv, WritersRead, RolledBack, Writer, ActiveJob
<1>4. ObjectInv'
  <2>1. TypeInv /\ CommitChecked /\ RetainedAvailable
    BY DEF HistoryInv, BaseInv, ObjectInv
  <2>2. TypeInv'
    BY <2>1 DEF RolledBack, sessionVars, TypeInv, TypeOK, UploadsKnown, HeadRetained, CommitReady,
       InFlight, CurrentSequence
  <2>3. CommitChecked' /\ RetainedAvailable'
    BY <2>1 DEF RolledBack, CommitChecked, RetainedAvailable
  <2>4. QED
    BY <2>2, <2>3 DEF ObjectInv
<1>5. UNCHANGED Log!logVars
  BY DEF Log!logVars, ActiveJob
<1>6. QED
  BY <1>2, <1>3, <1>4, <1>5 DEF HistoryInv, BaseInv

\* What handlers, crashes and the collector do is, to the devices, a step of
\* the log, or nothing.
LEMMA EngineHistoryStep ==
  EngineInv /\ HistoryInv /\ [EngineNext]_allVars => HistoryInv' /\ [Log!Next]_(Log!logVars)
<1> SUFFICES ASSUME EngineInv, HistoryInv, [EngineNext]_allVars
             PROVE  HistoryInv' /\ (Log!Next \/ UNCHANGED Log!logVars)
  OBVIOUS
<1>1. StoreStep
  BY EngineStepMoves DEF EngineInv, EngineMoves, StoreMovesSafely
<1>2. CASE [Next]_vars
  BY <1>2, HistoryStep, RefinesStep
<1>3. CASE RolledBack
  BY <1>3, RolledBackHistory
<1>4. QED
  BY <1>1, <1>2, <1>3 DEF StoreStep

\* What the engine is built for: with several handlers, retries, crashes, lost
\* files and the collector beside them, the devices of a folder see the log that
\* FolderLog promises.
THEOREM EngineImplementsFolderLog == EngineSpec => ImplementsFolderLog
<1>1. EngineInit => EngineInv /\ HistoryInv /\ Log!Init
  BY EngineInvInit, HistoryInit, RefinesInit DEF EngineInit
<1>2. EngineInv /\ HistoryInv /\ [EngineNext]_allVars => EngineInv' /\ HistoryInv'
  BY EngineInvStep, EngineHistoryStep
<1>3. EngineSpec => [](EngineInv /\ HistoryInv)
  BY <1>1, <1>2, PTL DEF EngineSpec
<1>4. EngineSpec => [][Log!Next]_(Log!logVars)
  BY <1>3, EngineHistoryStep, PTL DEF EngineSpec
<1>5. EngineSpec => Log!Init
  BY <1>1, PTL DEF EngineSpec
<1>6. QED
  BY <1>4, <1>5 DEF ImplementsFolderLog, Log!Spec

\* And no history is damaged on the way: no update is lost, no operation counts
\* twice, and what a device or a restore still needs is there.
THEOREM EngineKeepsHistory ==
  EngineSpec => [](NoLostUpdate /\ AtMostOnce /\ UnreadRetained /\ RestorableHistory /\ ManifestIntact)
<1>1. EngineInit => EngineInv /\ HistoryInv
  BY EngineInvInit, HistoryInit DEF EngineInit
<1>2. EngineInv /\ HistoryInv /\ [EngineNext]_allVars => EngineInv' /\ HistoryInv'
  BY EngineInvStep, EngineHistoryStep
<1>3. HistoryInv => RestorableHistory
  BY CoveredRestorable DEF HistoryInv, BaseInv, ObjectInv
<1>4. HistoryInv => NoLostUpdate /\ AtMostOnce /\ UnreadRetained /\ ManifestIntact
  BY DEF HistoryInv
<1>5. QED
  BY <1>1, <1>2, <1>3, <1>4, PTL DEF EngineSpec
=============================================================================
