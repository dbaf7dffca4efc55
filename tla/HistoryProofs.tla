--------------------------- MODULE HistoryProofs ---------------------------
(***************************************************************************)
(* The history of the folder, for every set of devices, paths, contents,   *)
(* operations and restore jobs: no lost update, replays that take effect   *)
(* once, histories that can be restored, and the refinement of FolderLog.  *)
(***************************************************************************)
EXTENDS MetadataProofs

-----------------------------------------------------------------------------
(* What a step does to the history *)

\* A device keeps its membership while its commit holds the locks, and while
\* it restores.
WritersRead ==
    /\ commitTx # NoOp => Writer(commitTx)
    /\ \A r \in Restores : ActiveJob(r) => Target[r] \in readers

\* A commit, on top of the head, of an operation that was not settled.
Publishes(o, r) ==
    /\ InsertVersion(o, r)
    /\ BaseIsHead(r)
    /\ Writer(o)
    /\ opState[o] \in {"NONE", "READY"}

\* Every other step leaves the versions and the outcomes alone, and no step
\* but ExpireUploadSessions fails an operation.
Settled(s) == {o \in Ops : opState[o] = s}
KeepsOutcomes ==
    /\ UNCHANGED <<version, head, response>>
    /\ Settled("COMPLETED")' = Settled("COMPLETED")

BaseInv == ObjectInv /\ WritersRead

\* The first state satisfies what the analysis of a step relies on.
LEMMA BaseInit == Init => BaseInv
  BY ObjectInit, ConstantsOK DEF BaseInv, WritersRead, Init, ActiveJob

\* The fact WritersRead is kept by every step, because no transaction takes a
\* membership away.
LEMMA WritersReadStep == BaseInv /\ [Next]_vars => BaseInv'
<1> SUFFICES ASSUME BaseInv, [Next]_vars PROVE BaseInv'
  OBVIOUS
<1>1. ObjectInv /\ ObjectInv' /\ TypeInv /\ WritersRead
  BY ObjectStep DEF BaseInv, ObjectInv
<1> SUFFICES WritersRead'
  BY <1>1 DEF BaseInv
<1>k. /\ jobState \in [Restores -> JobStates] /\ commitTx \in Ops \cup {NoOp} /\ NoOp \notin Ops
  BY <1>1, ConstantsOK DEF TypeInv, TypeOK
<1> USE <1>1, <1>k DEF WritersRead, Writer, ActiveJob,
        opVars, sessionVars, objectVars, logVars, readerVars, jobVars
<1>2. CASE UploadNext
  BY <1>2 DEF UploadNext, EnsureObject, BeginRequired, BeginPresent, BeginCheck, BeginRollback,
     UpdateUploadProgress, MarkUploadVerified, SessionTimesOut
<1>3. CASE CommitNext
  <2>1. ASSUME NEW o \in Ops, CommitLock(o) PROVE WritersRead'
    BY <2>1 DEF CommitLock
  <2>2. ASSUME NEW o \in Ops, NEW r, InsertVersion(o, r), commitTx' \in {commitTx, NoOp}
        PROVE  WritersRead'
    BY <2>2 DEF InsertVersion
  <2>3. ASSUME CommitRollback PROVE WritersRead'
    BY <2>3 DEF CommitRollback
  <2>4. QED
    BY <1>3, <2>1, <2>2, <2>3 DEF CommitNext, CommitApply, CommitDelete
<1>4. CASE GarbageNext
  BY <1>4 DEF GarbageNext, ExpireUploadSessions, CompleteUploadCleanup, PruneVersions, DeleteGarbageRecord
<1>5. CASE ReaderNext
  BY <1>5 DEF ReaderNext, ConsumeEnrollment, AckChanges, StartRestore, ListRestoreItems,
     ReportRestoreItem, FinishRestore
<1>6. CASE UNCHANGED vars
  BY <1>6 DEF vars
<1>7. QED
  BY <1>2, <1>3, <1>4, <1>5, <1>6 DEF Next

\* A step of the uploads keeps the history and the outcomes.
LEMMA UploadKeeps ==
  ASSUME TypeInv, UploadNext
  PROVE  /\ KeepsOutcomes /\ Settled("FAILED")' = Settled("FAILED")
         /\ UNCHANGED <<logVars, readerVars, jobVars>>
<1>k. opState \in [Ops -> OpStates] /\ UploadsKnown
  BY DEF TypeInv, TypeOK
<1> USE <1>k DEF KeepsOutcomes, Settled, opVars, sessionVars, objectVars, logVars, readerVars, jobVars
<1>1. ASSUME NEW o \in Ops, NEW s \in {"RESERVED", "READY"}, opState' = [opState EXCEPT ![o] = s],
             opState[o] \in {"NONE", "RESERVED"}
      PROVE  Settled("COMPLETED")' = Settled("COMPLETED") /\ Settled("FAILED")' = Settled("FAILED")
  BY <1>1
<1>2. ASSUME NEW o \in Ops, NEW r, BeginRequired(o, r)
      PROVE  Settled("COMPLETED")' = Settled("COMPLETED") /\ Settled("FAILED")' = Settled("FAILED")
  BY <1>1, <1>2 DEF BeginRequired, NewOperation
<1>3. ASSUME NEW o \in Ops, NEW r, BeginPresent(o, r)
      PROVE  Settled("COMPLETED")' = Settled("COMPLETED") /\ Settled("FAILED")' = Settled("FAILED")
  BY <1>1, <1>3 DEF BeginPresent, NewOperation
<1>4. ASSUME NEW o \in Ops, MarkUploadVerified(o)
      PROVE  Settled("COMPLETED")' = Settled("COMPLETED") /\ Settled("FAILED")' = Settled("FAILED")
  <2>1. opState[o] = "RESERVED"
    BY <1>4 DEF MarkUploadVerified, UploadsKnown
  <2>2. QED
    BY <1>1, <1>4, <2>1 DEF MarkUploadVerified
<1>5. Settled("COMPLETED")' = Settled("COMPLETED") /\ Settled("FAILED")' = Settled("FAILED")
  BY <1>2, <1>3, <1>4 DEF UploadNext, EnsureObject, BeginCheck, BeginRollback,
     UpdateUploadProgress, SessionTimesOut
<1>6. UNCHANGED <<version, head, response>> /\ UNCHANGED <<logVars, readerVars, jobVars>>
  BY DEF UploadNext, EnsureObject, BeginRequired, BeginPresent, BeginCheck, BeginRollback,
     UpdateUploadProgress, MarkUploadVerified, SessionTimesOut
<1>7. QED
  BY <1>5, <1>6

\* A step of a commit publishes a version or keeps everything.
LEMMA CommitKinds ==
  ASSUME BaseInv, CommitNext
  PROVE  \/ \E o \in Ops, r \in Request : Publishes(o, r)
         \/ UNCHANGED <<opVars, logVars, readerVars, jobVars>>
<1>k. /\ CommitReady /\ UploadsKnown /\ CommitChecked /\ WritersRead
      /\ request \in [Ops -> Request \cup {NoRequest}] /\ NoOp \notin Ops
  BY ConstantsOK DEF BaseInv, ObjectInv, TypeInv, TypeOK
<1>1. ASSUME NEW o \in Ops, CommitApply(o) PROVE Publishes(o, request[o]) /\ request[o] \in Request
  BY <1>1, <1>k DEF CommitApply, Publishes, CommitReady, UploadsKnown, InFlight, CommitChecked,
     BaseIsHead, WritersRead
<1>2. ASSUME NEW o \in Ops, NEW p \in Paths, NEW b \in 0..CurrentSequence,
             CommitDelete(o, [path |-> p, base |-> b, hash |-> NoHash])
      PROVE  \E r \in Request : Publishes(o, r)
  <2>1. [path |-> p, base |-> b, hash |-> NoHash] \in Request
    BY DEF Request, CurrentSequence
  <2>2. QED
    BY <1>2, <2>1 DEF CommitDelete, Publishes, NewOperation
<1>3. QED
  BY <1>1, <1>2 DEF CommitNext, CommitLock, CommitRollback

\* A step of the collector prunes, fails operations that are not completed, or
\* keeps the history and the outcomes.
LEMMA GarbageKinds ==
  ASSUME TypeInv, GarbageNext
  PROVE  /\ UNCHANGED <<readerVars, jobVars>> /\ KeepsOutcomes
         /\ \/ \E batch \in SUBSET Prunable, orphans \in SUBSET Hashes : PruneVersions(batch, orphans)
            \/ UNCHANGED logVars
         /\ Settled("FAILED") \subseteq Settled("FAILED")'
<1>k. opState \in [Ops -> OpStates]
  BY DEF TypeInv, TypeOK
<1> USE <1>k DEF KeepsOutcomes, Settled, opVars, sessionVars, objectVars, logVars, readerVars, jobVars
<1>1. ASSUME NEW batch \in SUBSET Expirable, ExpireUploadSessions(batch)
      PROVE  Settled("COMPLETED")' = Settled("COMPLETED") /\ Settled("FAILED") \subseteq Settled("FAILED")'
  BY <1>1 DEF ExpireUploadSessions
<1>2. Settled("COMPLETED")' = Settled("COMPLETED") /\ Settled("FAILED") \subseteq Settled("FAILED")'
  BY <1>1 DEF GarbageNext, CompleteUploadCleanup, PruneVersions, DeleteGarbageRecord
<1>3. UNCHANGED <<version, head, response>> /\ UNCHANGED <<readerVars, jobVars>>
  BY DEF GarbageNext, ExpireUploadSessions, CompleteUploadCleanup, PruneVersions, DeleteGarbageRecord
<1>4. \/ \E batch \in SUBSET Prunable, orphans \in SUBSET Hashes : PruneVersions(batch, orphans)
      \/ UNCHANGED logVars
  BY DEF GarbageNext, ExpireUploadSessions, CompleteUploadCleanup, DeleteGarbageRecord
<1>5. QED
  BY <1>2, <1>3, <1>4

\* A step of a reader keeps the history and the outcomes.
LEMMA ReaderKeeps ==
  ASSUME ReaderNext
  PROVE  UNCHANGED <<opVars, logVars>>
  BY DEF ReaderNext, ConsumeEnrollment, AckChanges, StartRestore, ListRestoreItems,
     ReportRestoreItem, FinishRestore, logVars

\* Every step publishes, prunes, lets readers move or does nothing to the
\* history; only a publication settles an operation as completed.
LEMMA StepKinds ==
  ASSUME BaseInv, [Next]_vars
  PROVE  \/ \E o \in Ops, r \in Request : Publishes(o, r)
         \/ /\ KeepsOutcomes /\ Settled("FAILED") \subseteq Settled("FAILED")'
            /\ \/ /\ \E batch \in SUBSET Prunable, orphans \in SUBSET Hashes :
                        PruneVersions(batch, orphans)
                  /\ UNCHANGED <<readerVars, jobVars>>
               \/ UNCHANGED logVars /\ (ReaderNext \/ UNCHANGED <<readerVars, jobVars>>)
<1>1. TypeInv
  BY DEF BaseInv, ObjectInv
<1>2. ASSUME UNCHANGED <<opVars, logVars>>
      PROVE  KeepsOutcomes /\ Settled("FAILED") \subseteq Settled("FAILED")'
  BY <1>2 DEF KeepsOutcomes, Settled, opVars, logVars
<1>3. CASE UploadNext
  BY <1>1, <1>3, UploadKeeps
<1>4. CASE CommitNext
  BY <1>2, <1>4, CommitKinds
<1>5. CASE GarbageNext
  BY <1>1, <1>5, GarbageKinds
<1>6. CASE ReaderNext
  BY <1>2, <1>6, ReaderKeeps
<1>7. CASE UNCHANGED vars
  BY <1>2, <1>7 DEF vars
<1>8. QED
  BY <1>3, <1>4, <1>5, <1>6, <1>7 DEF Next

-----------------------------------------------------------------------------
(* No lost update *)

\* A publication adds one version at the end and leaves the others alone.
LEMMA PublicationAppends ==
  ASSUME TypeInv, NEW o \in Ops, NEW r \in Request, Publishes(o, r)
  PROVE  /\ CurrentSequence \in Nat
         /\ CurrentSequence' = CurrentSequence + 1
         /\ \A i \in 1..CurrentSequence : version'[i] = version[i] /\ version[i] \in Version
         /\ version'[CurrentSequence + 1] = [path |-> r.path, base |-> r.base, hash |-> r.hash, op |-> o]
         /\ r.path \in Paths /\ r.base \in 0..CurrentSequence /\ r.base = head[r.path]
         /\ retained' = retained \cup {CurrentSequence + 1}
         /\ head' = [head EXCEPT ![r.path] = CurrentSequence + 1]
  BY DEF TypeInv, TypeOK, Publishes, InsertVersion, BaseIsHead, CurrentSequence, Request

\* The two halves of NoLostUpdate.
MadeOnNewest(i) ==
    LET v == version[i] IN
    IF v.base = 0
    THEN \A j \in 1..(i - 1) : version[j].path # v.path
    ELSE v.base < i /\ IsNewest(v.base, v.path, i - 1)
HeadIsNewest(p) ==
    IF head[p] = 0
    THEN \A j \in 1..CurrentSequence : version[j].path # p
    ELSE head[p] \in retained /\ IsNewest(head[p], p, CurrentSequence)

\* A publication keeps both: its base is the head of its path.
LEMMA PublicationOnNewest ==
  ASSUME TypeInv, NoLostUpdate, NEW o \in Ops, NEW r \in Request, Publishes(o, r)
  PROVE  NoLostUpdate'
<1> DEFINE n == CurrentSequence + 1
<1>1. /\ CurrentSequence \in Nat /\ CurrentSequence' = n
      /\ \A i \in 1..CurrentSequence : version'[i] = version[i] /\ version[i] \in Version
      /\ version'[n] = [path |-> r.path, base |-> r.base, hash |-> r.hash, op |-> o]
      /\ r.path \in Paths /\ r.base \in 0..CurrentSequence /\ r.base = head[r.path]
      /\ retained' = retained \cup {n}
      /\ head' = [head EXCEPT ![r.path] = n]
  BY PublicationAppends
<1>2. head \in [Paths -> 0..CurrentSequence]
  BY DEF TypeInv, TypeOK
<1>3. /\ \A i \in 1..CurrentSequence : MadeOnNewest(i)
      /\ \A p \in Paths : HeadIsNewest(p)
  BY DEF NoLostUpdate, MadeOnNewest, HeadIsNewest
<1>4. ASSUME NEW i \in 1..CurrentSequence PROVE MadeOnNewest(i)'
  <2>1. version[i].base \in Nat
    BY <1>1 DEF Version
  <2>2. QED
    BY <1>1, <1>3, <2>1 DEF MadeOnNewest, IsNewest
<1>5. ASSUME NEW i, i = n PROVE MadeOnNewest(i)'
  BY <1>1, <1>3, <1>5 DEF MadeOnNewest, HeadIsNewest, IsNewest
<1>6. ASSUME NEW p \in Paths PROVE HeadIsNewest(p)'
  BY <1>1, <1>2, <1>3 DEF HeadIsNewest, IsNewest
<1>7. \A i \in 1..CurrentSequence' : MadeOnNewest(i)'
  BY <1>1, <1>4, <1>5
<1>8. QED
  BY <1>6, <1>7 DEF NoLostUpdate, MadeOnNewest, HeadIsNewest

\* Nothing but a publication touches the chain of bases: PruneVersions keeps
\* the heads.
LEMMA NoLostUpdateStep == BaseInv /\ NoLostUpdate /\ [Next]_vars => NoLostUpdate'
<1> SUFFICES ASSUME BaseInv, NoLostUpdate, [Next]_vars PROVE NoLostUpdate'
  OBVIOUS
<1>1. TypeInv
  BY DEF BaseInv, ObjectInv
<1>2. ASSUME NEW o \in Ops, NEW r \in Request, Publishes(o, r) PROVE NoLostUpdate'
  BY <1>1, <1>2, PublicationOnNewest
<1>3. ASSUME KeepsOutcomes, \A p \in Paths : head[p] \in retained => head[p] \in retained'
      PROVE  NoLostUpdate'
  BY <1>3 DEF KeepsOutcomes, NoLostUpdate, IsNewest, CurrentSequence
<1>4. ASSUME NEW batch \in SUBSET Prunable, NEW orphans \in SUBSET Hashes, PruneVersions(batch, orphans)
      PROVE  \A p \in Paths : head[p] \in retained => head[p] \in retained'
  BY <1>4 DEF PruneVersions, Prunable
<1>5. QED
  BY <1>2, <1>3, <1>4, StepKinds DEF logVars

\* No lost update: every version of a path is made on top of the newest one
\* before it, and the head is the newest, whatever the interleaving of the
\* commits, of their retries and of the collector.
THEOREM UpdatesNeverLost == Spec => []NoLostUpdate
<1>1. Init => BaseInv /\ NoLostUpdate
  <2>1. Init => NoLostUpdate
    BY DEF Init, NoLostUpdate, CurrentSequence
  <2>2. QED
    BY <2>1, BaseInit
<1>2. BaseInv /\ NoLostUpdate /\ [Next]_vars => (BaseInv /\ NoLostUpdate)'
  BY WritersReadStep, NoLostUpdateStep
<1>3. QED
  BY <1>1, <1>2, PTL DEF Spec

-----------------------------------------------------------------------------
(* Outcomes *)

\* An operation that is published was not completed before, and then is.
LEMMA PublicationSettles ==
  ASSUME TypeInv, NEW o \in Ops, NEW r \in Request, Publishes(o, r)
  PROVE  /\ opState[o] # "COMPLETED" /\ opState[o] # "FAILED"
         /\ opState' = [opState EXCEPT ![o] = "COMPLETED"]
         /\ response' = [response EXCEPT ![o] = CurrentSequence + 1]
         /\ opState \in [Ops -> OpStates] /\ response \in [Ops -> Nat]
  BY DEF Publishes, InsertVersion, CurrentSequence, TypeInv, TypeOK

\* A publication takes an unused operation, and every other step keeps the
\* versions, the responses and the set of completed operations.
LEMMA AtMostOnceStep == BaseInv /\ AtMostOnce /\ [Next]_vars => AtMostOnce'
<1> SUFFICES ASSUME BaseInv, AtMostOnce, [Next]_vars PROVE AtMostOnce'
  OBVIOUS
<1>1. TypeInv
  BY DEF BaseInv, ObjectInv
<1>2. ASSUME NEW o \in Ops, NEW r \in Request, Publishes(o, r) PROVE AtMostOnce'
  <2> DEFINE n == CurrentSequence + 1
  <2>1. /\ CurrentSequence \in Nat /\ CurrentSequence' = n
        /\ \A i \in 1..CurrentSequence : version'[i] = version[i] /\ version[i].op \in Ops
        /\ version'[n].op = o
    <3>1. /\ CurrentSequence \in Nat /\ CurrentSequence' = n
          /\ \A i \in 1..CurrentSequence : version'[i] = version[i] /\ version[i] \in Version
          /\ version'[n] = [path |-> r.path, base |-> r.base, hash |-> r.hash, op |-> o]
      BY <1>1, <1>2, PublicationAppends
    <3>2. QED
      BY <3>1 DEF Version
  <2>2. /\ response' = [response EXCEPT ![o] = n] /\ response \in [Ops -> Nat]
        /\ opState' = [opState EXCEPT ![o] = "COMPLETED"] /\ opState \in [Ops -> OpStates]
        /\ opState[o] # "COMPLETED"
    BY <1>1, <1>2, PublicationSettles
  <2>3. response[o] = 0 /\ \A i \in 1..CurrentSequence : version[i].op # o
    BY <2>1, <2>2 DEF AtMostOnce
  <2>4. \A i \in 1..CurrentSequence' : i \in 1..CurrentSequence \/ i = n
    BY <2>1
  <2>5. \A i, j \in 1..CurrentSequence' : version'[i].op = version'[j].op => i = j
    BY <2>1, <2>3, <2>4 DEF AtMostOnce
  <2>6. \A i \in 1..CurrentSequence' : response'[version'[i].op] = i
    BY <2>1, <2>2, <2>3, <2>4 DEF AtMostOnce
  <2>7. \A q \in Ops :
           /\ opState'[q] = "COMPLETED" <=> response'[q] # 0
           /\ response'[q] # 0 =>
                response'[q] \in 1..CurrentSequence' /\ version'[response'[q]].op = q
    BY <2>1, <2>2 DEF AtMostOnce
  <2>8. QED
    BY <2>5, <2>6, <2>7 DEF AtMostOnce
<1>3. ASSUME KeepsOutcomes PROVE AtMostOnce'
  <2>1. \A o \in Ops : opState'[o] = "COMPLETED" <=> opState[o] = "COMPLETED"
    BY <1>3 DEF KeepsOutcomes, Settled
  <2>2. QED
    BY <1>3, <2>1 DEF KeepsOutcomes, AtMostOnce, CurrentSequence
<1>4. QED
  BY <1>2, <1>3, StepKinds

\* A retried or duplicated request takes effect at most once, and every replay
\* is answered with the one sequence that the operation committed at.
THEOREM OperationsTakeEffectOnce == Spec => []AtMostOnce
<1>1. Init => BaseInv /\ AtMostOnce
  <2>1. Init => AtMostOnce
    BY DEF Init, AtMostOnce, CurrentSequence
  <2>2. QED
    BY <2>1, BaseInit
<1>2. BaseInv /\ AtMostOnce /\ [Next]_vars => (BaseInv /\ AtMostOnce)'
  BY WritersReadStep, AtMostOnceStep
<1>3. QED
  BY <1>1, <1>2, PTL DEF Spec

\* What OutcomesAreFinal says of one step.
Final ==
    /\ \A o \in Ops :
         /\ opState[o] = "COMPLETED" => opState'[o] = "COMPLETED" /\ response'[o] = response[o]
         /\ opState[o] = "FAILED" => opState'[o] = "FAILED"
    /\ \A d \in Devices : cursor[d] <= cursor'[d]
    /\ restoreFloor <= restoreFloor'
    /\ \A i \in 1..CurrentSequence : version'[i] = version[i]

\* Cursors only move forward: every write of one takes a maximum.
LEMMA CursorsForward ==
  ASSUME TypeInv, ReaderNext
  PROVE  \A d \in Devices : cursor[d] <= cursor'[d]
<1>1. cursor \in [Devices -> 0..CurrentSequence] /\ CurrentSequence \in Nat
      /\ jobSequence \in [Restores -> 0..CurrentSequence]
  BY DEF TypeInv, TypeOK, CurrentSequence
<1>2. QED
  BY <1>1, ConstantsOK DEF ReaderNext, ConsumeEnrollment, AckChanges, StartRestore, ListRestoreItems,
     ReportRestoreItem, FinishRestore, Max2, readerVars

\* A step changes nothing that a device was told.
LEMMA FinalStep == BaseInv /\ [Next]_vars => Final
<1> SUFFICES ASSUME BaseInv, [Next]_vars PROVE Final
  OBVIOUS
<1>1. TypeInv
  BY DEF BaseInv, ObjectInv
<1>2. /\ cursor \in [Devices -> 0..CurrentSequence] /\ CurrentSequence \in Nat
      /\ restoreFloor \in 0..CurrentSequence
  BY <1>1 DEF TypeInv, TypeOK, CurrentSequence
<1>3. ASSUME NEW o \in Ops, NEW r \in Request, Publishes(o, r) PROVE Final
  <2>1. \A i \in 1..CurrentSequence : version'[i] = version[i]
    BY <1>1, <1>3, PublicationAppends
  <2>2. \A q \in Ops :
          /\ opState[q] = "COMPLETED" => opState'[q] = "COMPLETED" /\ response'[q] = response[q]
          /\ opState[q] = "FAILED" => opState'[q] = "FAILED"
    BY <1>1, <1>3, PublicationSettles
  <2>3. restoreFloor' = restoreFloor /\ cursor' = [cursor EXCEPT ![Origin[o]] = Max2(@, CurrentSequence + 1)]
    BY <1>3 DEF Publishes, InsertVersion
  <2>4. QED
    BY <1>2, <2>1, <2>2, <2>3 DEF Final, Max2
<1>4. ASSUME KeepsOutcomes, Settled("FAILED") \subseteq Settled("FAILED")',
             restoreFloor <= restoreFloor', \A d \in Devices : cursor[d] <= cursor'[d]
      PROVE  Final
  <2>1. \A o \in Ops :
           /\ opState[o] = "COMPLETED" => opState'[o] = "COMPLETED"
           /\ opState[o] = "FAILED" => opState'[o] = "FAILED"
    BY <1>4 DEF KeepsOutcomes, Settled
  <2>2. QED
    BY <1>4, <2>1 DEF KeepsOutcomes, Final
<1>5. ASSUME NEW batch \in SUBSET Prunable, NEW orphans \in SUBSET Hashes, PruneVersions(batch, orphans)
      PROVE  restoreFloor <= restoreFloor'
  BY <1>2, <1>5 DEF PruneVersions, FloorAfter
<1>6. ASSUME UNCHANGED readerVars PROVE \A d \in Devices : cursor[d] <= cursor'[d]
  BY <1>2, <1>6 DEF readerVars
<1>7. ASSUME UNCHANGED logVars PROVE restoreFloor <= restoreFloor'
  BY <1>2, <1>7 DEF logVars
<1>8. QED
  BY <1>1, <1>3, <1>4, <1>5, <1>6, <1>7, StepKinds, CursorsForward

\* What a device was told stays true.
THEOREM OutcomesNeverChange == Spec => OutcomesAreFinal
<1>1. Spec => []BaseInv
  BY BaseInit, WritersReadStep, PTL DEF Spec
<1>2. BaseInv /\ [Next]_vars => [Final]_vars
  BY FinalStep
<1>3. Spec => [][Final]_vars
  BY <1>1, <1>2, PTL DEF Spec
<1>4. QED
  BY <1>3 DEF OutcomesAreFinal, Final

-----------------------------------------------------------------------------
(* What the collector leaves *)

\* The collector takes only what every reader has acknowledged, and a reader
\* that is enrolled later starts at the current sequence.
LEMMA UnreadRetainedStep == BaseInv /\ UnreadRetained /\ [Next]_vars => UnreadRetained'
<1> SUFFICES ASSUME BaseInv, UnreadRetained, [Next]_vars PROVE UnreadRetained'
  OBVIOUS
<1>1. TypeInv
  BY DEF BaseInv, ObjectInv
<1>2. /\ cursor \in [Devices -> 0..CurrentSequence] /\ CurrentSequence \in Nat
      /\ readers \subseteq Devices
  BY <1>1 DEF TypeInv, TypeOK, CurrentSequence
<1>3. ASSUME NEW o \in Ops, NEW r \in Request, Publishes(o, r) PROVE UnreadRetained'
  <2>1. CurrentSequence' = CurrentSequence + 1 /\ retained' = retained \cup {CurrentSequence + 1}
    BY <1>1, <1>3, PublicationAppends
  <2>2. readers' = readers /\ cursor' = [cursor EXCEPT ![Origin[o]] = Max2(@, CurrentSequence + 1)]
    BY <1>3 DEF Publishes, InsertVersion
  <2>3. QED
    BY <1>2, <2>1, <2>2 DEF UnreadRetained, Max2
<1>4. ASSUME NEW batch \in SUBSET Prunable, NEW orphans \in SUBSET Hashes, PruneVersions(batch, orphans),
             UNCHANGED <<version, readerVars>>
      PROVE  UnreadRetained'
  <2>1. \A d \in readers, i \in batch : i <= cursor[d]
    BY DEF Prunable, AckedByReaders
  <2>2. retained' = retained \ batch
    BY <1>4 DEF PruneVersions
  <2>3. QED
    BY <1>2, <1>4, <2>1, <2>2 DEF UnreadRetained, readerVars, CurrentSequence
<1>5. ASSUME UNCHANGED logVars, ReaderNext PROVE UnreadRetained'
  <2>1. UNCHANGED <<retained, CurrentSequence>>
    BY <1>5 DEF logVars, CurrentSequence
  <2>2. \A d \in Devices : cursor[d] <= cursor'[d] /\ cursor'[d] \in Nat
    <3>1. cursor' \in [Devices -> 0..CurrentSequence']
      BY <1>1, TypeStep DEF TypeInv, TypeOK
    <3>2. QED
      BY <1>1, <1>2, <1>5, <2>1, <3>1, CursorsForward
  <2>3. \A d \in readers' : d \in readers \/ cursor'[d] = CurrentSequence
    BY <1>2, <1>5 DEF ReaderNext, ConsumeEnrollment, AckChanges, StartRestore, ListRestoreItems,
       ReportRestoreItem, FinishRestore, readerVars
  <2>4. readers' \subseteq Devices
    BY <1>1, TypeStep DEF TypeInv, TypeOK
  <2>5. QED
    BY <1>2, <2>1, <2>2, <2>3, <2>4 DEF UnreadRetained
<1>6. ASSUME UNCHANGED logVars, UNCHANGED <<readerVars, jobVars>> PROVE UnreadRetained'
  BY <1>6 DEF UnreadRetained, logVars, readerVars, CurrentSequence
<1>7. QED
  BY <1>3, <1>4, <1>5, <1>6, StepKinds DEF KeepsOutcomes

\* At every sequence from the restore floor on, each version has itself or a
\* newer version of its path among the rows that are still there.
Covered ==
    \A s \in restoreFloor..CurrentSequence : \A i \in 1..CurrentSequence :
        i <= s => \E j \in retained : i <= j /\ j <= s /\ version[j].path = version[i].path

\* A cover that is there for every version is what a snapshot needs.
LEMMA CoveredRestorable ==
  ASSUME TypeInv, Covered
  PROVE  RestorableHistory
<1>1. CurrentSequence \in Nat /\ restoreFloor \in 0..CurrentSequence /\ retained \subseteq 1..CurrentSequence
  BY DEF TypeInv, TypeOK, CurrentSequence
<1>2. QED
  BY <1>1 DEF Covered, RestorableHistory, IsNewest

\* A batch that is not empty moves the floor to the current sequence, where
\* the heads cover everything.
LEMMA CoveredStep == BaseInv /\ NoLostUpdate /\ Covered /\ [Next]_vars => Covered'
<1> SUFFICES ASSUME BaseInv, NoLostUpdate, Covered, [Next]_vars PROVE Covered'
  OBVIOUS
<1>1. TypeInv
  BY DEF BaseInv, ObjectInv
<1>2. /\ CurrentSequence \in Nat /\ restoreFloor \in 0..CurrentSequence
      /\ retained \subseteq 1..CurrentSequence
      /\ \A i \in 1..CurrentSequence : version[i].path \in Paths
  <2>1. \A i \in 1..CurrentSequence : version[i] \in Version
    BY <1>1 DEF TypeInv, TypeOK, CurrentSequence
  <2>2. QED
    BY <1>1, <2>1 DEF TypeInv, TypeOK, CurrentSequence, Version
<1>3. ASSUME NEW o \in Ops, NEW r \in Request, Publishes(o, r) PROVE Covered'
  <2> DEFINE n == CurrentSequence + 1
  <2>1. /\ CurrentSequence' = n /\ retained' = retained \cup {n}
        /\ \A i \in 1..CurrentSequence : version'[i] = version[i]
    BY <1>1, <1>3, PublicationAppends
  <2>2. restoreFloor' = restoreFloor
    BY <1>3 DEF Publishes, InsertVersion
  <2> SUFFICES ASSUME NEW s \in restoreFloor..n, NEW i \in 1..n, i <= s
               PROVE  \E j \in retained \cup {n} :
                         i <= j /\ j <= s /\ version'[j].path = version'[i].path
    BY <2>1, <2>2 DEF Covered
  <2>3. CASE i = n
    BY <1>2, <2>3
  <2>4. CASE i # n
    <3>1. PICK t \in restoreFloor..CurrentSequence : i <= t /\ t <= s
      <4>1. CASE s = n
        BY <1>2, <2>4, <4>1
      <4>2. CASE s # n
        BY <1>2, <4>2
      <4>3. QED
        BY <4>1, <4>2
    <3>2. PICK j \in retained : i <= j /\ j <= t /\ version[j].path = version[i].path
      BY <1>2, <2>4, <3>1 DEF Covered
    <3>3. QED
      BY <1>2, <2>1, <2>4, <3>1, <3>2
  <2>5. QED
    BY <2>3, <2>4
<1>4. ASSUME NEW batch \in SUBSET Prunable, NEW orphans \in SUBSET Hashes, PruneVersions(batch, orphans),
             UNCHANGED version
      PROVE  Covered'
  <2>1. retained' = retained \ batch /\ restoreFloor' = FloorAfter(batch) /\ UNCHANGED CurrentSequence
    BY <1>4 DEF PruneVersions, CurrentSequence
  <2>2. CASE batch = {}
    BY <1>4, <2>1, <2>2 DEF FloorAfter, Covered
  <2>3. CASE batch # {}
    <3> SUFFICES ASSUME NEW i \in 1..CurrentSequence
                 PROVE  \E j \in retained \ batch :
                           i <= j /\ j <= CurrentSequence /\ version[j].path = version[i].path
      BY <1>2, <1>4, <2>1, <2>3 DEF FloorAfter, Covered
    <3>1. LET p == version[i].path IN
          head[p] \in retained /\ IsNewest(head[p], p, CurrentSequence)
      BY <1>2 DEF NoLostUpdate
    <3>2. head[version[i].path] \notin batch
      BY <1>2 DEF Prunable
    <3>3. QED
      BY <1>2, <3>1, <3>2 DEF IsNewest
  <2>4. QED
    BY <2>2, <2>3
<1>5. ASSUME UNCHANGED logVars PROVE Covered'
  BY <1>5 DEF Covered, logVars, CurrentSequence
<1>6. QED
  BY <1>3, <1>4, <1>5, StepKinds DEF KeepsOutcomes

\* At or above the restore floor, the newest rows are the newest versions.
LEMMA SnapshotComplete ==
  ASSUME TypeInv, Covered, NEW s \in restoreFloor..CurrentSequence
  PROVE  NewestAt(s) = {i \in 1..CurrentSequence : IsNewest(i, version[i].path, s)}
<1>1. CurrentSequence \in Nat /\ restoreFloor \in 0..CurrentSequence /\ retained \subseteq 1..CurrentSequence
  BY DEF TypeInv, TypeOK, CurrentSequence
<1>2. RestorableHistory
  BY CoveredRestorable
<1>3. ASSUME NEW i \in NewestAt(s) PROVE IsNewest(i, version[i].path, s)
  <2>1. /\ i \in retained /\ i <= s
        /\ \A j \in retained : j <= s /\ version[j].path = version[i].path => j <= i
    BY DEF NewestAt
  <2>2. ASSUME NEW k \in 1..CurrentSequence, k <= s, version[k].path = version[i].path PROVE k <= i
    <3>1. PICK j \in retained : k <= j /\ j <= s /\ version[j].path = version[k].path
      BY <2>2 DEF Covered
    <3>2. j <= i
      BY <2>1, <2>2, <3>1
    <3>3. QED
      BY <1>1, <2>1, <3>1, <3>2
  <2>3. QED
    BY <1>1, <2>1, <2>2 DEF IsNewest
<1>4. ASSUME NEW i \in 1..CurrentSequence, IsNewest(i, version[i].path, s) PROVE i \in NewestAt(s)
  BY <1>1, <1>2, <1>4 DEF RestorableHistory, NewestAt, IsNewest
<1>5. NewestAt(s) \subseteq 1..CurrentSequence
  BY <1>1 DEF NewestAt
<1>6. QED
  BY <1>3, <1>4, <1>5

\* The manifest of job r is what the folder held at its sequence.
ManifestOf(r) ==
    {i \in 1..CurrentSequence :
       IsNewest(i, version[i].path, jobSequence[r]) /\ version[i].hash # NoHash}

\* An active manifest is complete when it is made, the collector spares it,
\* and later versions are newer than its sequence.
LEMMA ManifestStep == BaseInv /\ Covered /\ ManifestIntact /\ [Next]_vars => ManifestIntact'
<1> SUFFICES ASSUME BaseInv, Covered, ManifestIntact, [Next]_vars,
                    NEW r \in Restores, ActiveJob(r)'
             PROVE  (manifest[r] \subseteq retained /\ manifest[r] = ManifestOf(r))'
  BY DEF ManifestIntact, ManifestOf
<1>1. TypeInv
  BY DEF BaseInv, ObjectInv
<1>2. /\ CurrentSequence \in Nat /\ restoreFloor \in 0..CurrentSequence
      /\ retained \subseteq 1..CurrentSequence
      /\ jobSequence \in [Restores -> 0..CurrentSequence]
      /\ manifest \in [Restores -> SUBSET (1..CurrentSequence)]
      /\ jobState \in [Restores -> JobStates]
  BY <1>1 DEF TypeInv, TypeOK, CurrentSequence
<1>3. ActiveJob(r) => manifest[r] \subseteq retained /\ manifest[r] = ManifestOf(r)
  BY DEF ManifestIntact, ManifestOf
<1>4. ASSUME NEW o \in Ops, NEW q \in Request, Publishes(o, q)
      PROVE  (manifest[r] \subseteq retained /\ manifest[r] = ManifestOf(r))'
  <2>1. /\ CurrentSequence' = CurrentSequence + 1
        /\ retained' = retained \cup {CurrentSequence + 1}
        /\ \A i \in 1..CurrentSequence : version'[i] = version[i]
    BY <1>1, <1>4, PublicationAppends
  <2>2. UNCHANGED <<jobState, jobSequence, manifest>>
    BY <1>4 DEF Publishes, InsertVersion, jobVars
  <2>3. \A i \in 1..CurrentSequence' :
           IsNewest(i, version[i].path, jobSequence[r])' =>
             i \in 1..CurrentSequence /\ IsNewest(i, version[i].path, jobSequence[r])
    BY <1>2, <2>1, <2>2 DEF IsNewest
  <2>4. \A i \in 1..CurrentSequence :
           IsNewest(i, version[i].path, jobSequence[r]) => IsNewest(i, version[i].path, jobSequence[r])'
    BY <1>2, <2>1, <2>2 DEF IsNewest
  <2>5. ManifestOf(r)' = ManifestOf(r)
    BY <1>2, <2>1, <2>3, <2>4 DEF ManifestOf
  <2>6. QED
    BY <1>3, <2>1, <2>2, <2>5 DEF ActiveJob
<1>5. ASSUME NEW batch \in SUBSET Prunable, NEW orphans \in SUBSET Hashes, PruneVersions(batch, orphans),
             UNCHANGED <<version, jobVars>>
      PROVE  (manifest[r] \subseteq retained /\ manifest[r] = ManifestOf(r))'
  <2>1. ActiveJob(r) /\ manifest[r] \cap batch = {}
    BY <1>5 DEF jobVars, ActiveJob, Prunable, NeededByJob
  <2>2. QED
    BY <1>3, <1>5, <2>1 DEF PruneVersions, jobVars, ManifestOf, IsNewest, CurrentSequence
<1>6. ASSUME UNCHANGED logVars, ActiveJob(r), manifest'[r] = manifest[r], jobSequence'[r] = jobSequence[r]
      PROVE  (manifest[r] \subseteq retained /\ manifest[r] = ManifestOf(r))'
  BY <1>3, <1>6 DEF logVars, ManifestOf, IsNewest, CurrentSequence
<1>7. ASSUME UNCHANGED logVars, NEW asked \in 0..CurrentSequence, StartRestore(r, asked)
      PROVE  (manifest[r] \subseteq retained /\ manifest[r] = ManifestOf(r))'
  <2> DEFINE s == SnapshotSequence(asked)
  <2>1. s \in restoreFloor..CurrentSequence
    BY <1>2, <1>7 DEF StartRestore, RestorableAt, SnapshotSequence
  <2>2. NewestAt(s) = {i \in 1..CurrentSequence : IsNewest(i, version[i].path, s)}
    BY <1>1, <2>1, SnapshotComplete
  <2>3. NewestAt(s) \subseteq retained
    BY DEF NewestAt
  <2>4. /\ manifest'[r] = {i \in NewestAt(s) : version[i].hash # NoHash}
        /\ jobSequence'[r] = s
    BY <1>2, <1>7 DEF StartRestore
  <2> HIDE DEF s
  <2>5. ManifestOf(r)' = {i \in NewestAt(s) : version[i].hash # NoHash}
    BY <1>7, <2>2, <2>4 DEF ManifestOf, IsNewest, logVars, CurrentSequence
  <2>6. QED
    BY <1>7, <2>3, <2>4, <2>5 DEF logVars
<1>8. ASSUME ReaderNext
      PROVE  \/ \E asked \in 0..CurrentSequence : StartRestore(r, asked)
             \/ /\ ActiveJob(r) /\ manifest'[r] = manifest[r] /\ jobSequence'[r] = jobSequence[r]
  BY <1>2, <1>8 DEF ReaderNext, ConsumeEnrollment, AckChanges, StartRestore, ListRestoreItems,
     ReportRestoreItem, FinishRestore, ActiveJob, jobVars
<1>9. ASSUME UNCHANGED logVars, UNCHANGED <<readerVars, jobVars>>
      PROVE  (manifest[r] \subseteq retained /\ manifest[r] = ManifestOf(r))'
  <2>1. ActiveJob(r) /\ manifest'[r] = manifest[r] /\ jobSequence'[r] = jobSequence[r]
    BY <1>9 DEF jobVars, ActiveJob
  <2>2. QED
    BY <1>6, <1>9, <2>1
<1>10. QED
  BY <1>4, <1>5, <1>6, <1>7, <1>8, <1>9, StepKinds DEF KeepsOutcomes

\* The whole invariant of the history.
HistoryInv == BaseInv /\ NoLostUpdate /\ AtMostOnce /\ UnreadRetained /\ Covered /\ ManifestIntact

\* The invariant holds of the empty folder.
LEMMA HistoryInit == Init => HistoryInv
<1> SUFFICES ASSUME Init PROVE HistoryInv
  OBVIOUS
<1>1. NoLostUpdate /\ AtMostOnce
  BY DEF Init, NoLostUpdate, AtMostOnce, CurrentSequence
<1>2. UnreadRetained /\ Covered /\ ManifestIntact
  BY DEF Init, UnreadRetained, Covered, ManifestIntact, CurrentSequence, ActiveJob
<1>3. QED
  BY <1>1, <1>2, BaseInit DEF HistoryInv

\* The invariant is inductive.
LEMMA HistoryStep == HistoryInv /\ [Next]_vars => HistoryInv'
  BY WritersReadStep, NoLostUpdateStep, AtMostOnceStep, UnreadRetainedStep, CoveredStep, ManifestStep
     DEF HistoryInv

\* No reader misses a change: what it has not acknowledged is never pruned.
THEOREM UnreadAlwaysRetained == Spec => []UnreadRetained
<1>1. HistoryInv => UnreadRetained
  BY DEF HistoryInv
<1>2. QED
  BY HistoryInit, HistoryStep, <1>1, PTL DEF Spec

\* Every sequence that StartRestore accepts has a complete snapshot.
THEOREM HistoryAlwaysRestorable == Spec => []RestorableHistory
<1>1. HistoryInv => RestorableHistory
  BY CoveredRestorable DEF HistoryInv, BaseInv, ObjectInv
<1>2. QED
  BY HistoryInit, HistoryStep, <1>1, PTL DEF Spec

\* A restore finds every version that its manifest names, to its end.
THEOREM ManifestsStayIntact == Spec => []ManifestIntact
<1>1. HistoryInv => ManifestIntact
  BY DEF HistoryInv
<1>2. QED
  BY HistoryInit, HistoryStep, <1>1, PTL DEF Spec

-----------------------------------------------------------------------------
(* The refinement of FolderLog: a transaction is a step of the log, or hidden *)

\* What the refinement mapping makes of the operations and of the jobs.
Failed == {o \in Ops : opState[o] = "FAILED"}
Snapshots == [r \in Restores |-> IF ActiveJob(r) THEN manifest[r] ELSE {}]

\* The empty store is the empty log.
LEMMA RefinesInit == Init => Log!Init
  BY DEF Init, Log!Init, ActiveJob

\* The newest version of a path, to the log, is its head.
LEMMA HeadIsNewestInLog ==
  ASSUME TypeInv, NoLostUpdate, NEW p \in Paths
  PROVE  Log!Newest(p, Len(version)) = IF head[p] = 0 THEN {} ELSE {head[p]}
<1>1. CurrentSequence \in Nat /\ CurrentSequence = Len(version) /\ head \in [Paths -> 0..CurrentSequence]
  BY DEF TypeInv, TypeOK, CurrentSequence
<1>2. CASE head[p] = 0
  <2>1. \A j \in 1..CurrentSequence : version[j].path # p
    BY <1>2 DEF NoLostUpdate
  <2>2. QED
    BY <1>1, <1>2, <2>1 DEF Log!Newest
<1>3. CASE head[p] # 0
  <2>1. IsNewest(head[p], p, CurrentSequence)
    BY <1>3 DEF NoLostUpdate
  <2>2. \A i \in Log!Newest(p, Len(version)) : i = head[p]
    BY <1>1, <2>1 DEF Log!Newest, IsNewest
  <2>3. head[p] \in Log!Newest(p, Len(version))
    BY <1>1, <2>1 DEF Log!Newest, IsNewest
  <2>4. QED
    BY <1>3, <2>2, <2>3
<1>4. QED
  BY <1>2, <1>3

\* The files of the log at a sequence that can be restored are the items that
\* StartRestore freezes.
LEMMA FilesAreItems ==
  ASSUME TypeInv, Covered, NEW s \in restoreFloor..CurrentSequence
  PROVE  Log!Files(s) = {i \in NewestAt(s) : version[i].hash # NoHash}
<1>1. \A i \in 1..CurrentSequence : version[i].path \in Paths
  <2>1. \A i \in 1..CurrentSequence : version[i] \in Version
    BY DEF TypeInv, TypeOK, CurrentSequence
  <2>2. QED
    BY <2>1 DEF Version
<1>2. NewestAt(s) = {i \in 1..CurrentSequence : IsNewest(i, version[i].path, s)}
  BY SnapshotComplete
<1>3. UNION {Log!Newest(p, s) : p \in Paths} = NewestAt(s)
  <2>1. ASSUME NEW i \in NewestAt(s) PROVE i \in Log!Newest(version[i].path, s) /\ version[i].path \in Paths
    BY <1>1, <1>2 DEF IsNewest, Log!Newest, CurrentSequence
  <2>2. ASSUME NEW p \in Paths, NEW i \in Log!Newest(p, s) PROVE i \in NewestAt(s)
    BY <1>2 DEF IsNewest, Log!Newest, CurrentSequence
  <2>3. QED
    BY <2>1, <2>2
<1>4. QED
  BY <1>3 DEF Log!Files

\* A cursor moves in the store as it does in the log.
LEMMA ForwardIsMax ==
  ASSUME TypeInv, NEW d \in Devices, NEW n \in Nat
  PROVE  Log!Forward(d, n) = [cursor EXCEPT ![d] = Max2(@, n)]
<1>1. cursor[d] \in Nat
  BY DEF TypeInv, TypeOK, CurrentSequence
<1>2. Max2(cursor[d], n) = IF n > cursor[d] THEN n ELSE cursor[d]
  BY <1>1 DEF Max2
<1>3. QED
  BY <1>2 DEF Log!Forward

-----------------------------------------------------------------------------
(* The steps *)

\* A commit publishes.
LEMMA PublishStep ==
  ASSUME HistoryInv, NEW o \in Ops, NEW r \in Request, Publishes(o, r)
  PROVE  Log!Publish(o, Origin[o], r.path, r.base, r.hash)
<1>1. TypeInv /\ NoLostUpdate /\ AtMostOnce
  BY DEF HistoryInv, BaseInv, ObjectInv
<1>2. /\ opState[o] # "COMPLETED" /\ opState[o] # "FAILED"
      /\ opState' = [opState EXCEPT ![o] = "COMPLETED"]
      /\ response' = [response EXCEPT ![o] = CurrentSequence + 1]
      /\ opState \in [Ops -> OpStates]
  BY <1>1, PublicationSettles
<1>3. response[o] = 0 /\ o \notin Failed
  BY <1>1, <1>2 DEF AtMostOnce, Failed
<1>4. Origin[o] \in readers
  BY DEF Publishes, Writer
<1>5. IF r.base = 0 THEN Log!Newest(r.path, Len(version)) = {} ELSE Log!Newest(r.path, Len(version)) = {r.base}
  BY <1>1, HeadIsNewestInLog DEF Publishes, BaseIsHead, Request
<1>6. Failed' = Failed
  BY <1>2 DEF Failed
<1>7. Snapshots' = Snapshots
  BY DEF Publishes, InsertVersion, jobVars, Snapshots, ActiveJob
<1>8. cursor' = Log!Forward(Origin[o], Len(version) + 1)
  <2>1. Len(version) + 1 \in Nat /\ Origin[o] \in Devices
    BY <1>1, ConstantsOK DEF TypeInv, TypeOK, CurrentSequence
  <2>2. cursor' = [cursor EXCEPT ![Origin[o]] = Max2(@, Len(version) + 1)]
    BY DEF Publishes, InsertVersion, CurrentSequence
  <2>3. Log!Forward(Origin[o], Len(version) + 1) = [cursor EXCEPT ![Origin[o]] = Max2(@, Len(version) + 1)]
    BY <1>1, <2>1, ForwardIsMax
  <2>4. QED
    BY <2>2, <2>3
<1>9. QED
  BY <1>2, <1>3, <1>4, <1>5, <1>6, <1>7, <1>8
     DEF Log!Publish, Publishes, InsertVersion, CurrentSequence, Failed, Snapshots

\* A batch of PruneVersions is forgotten; an empty one is hidden.
LEMMA ForgetStep ==
  ASSUME HistoryInv, NEW batch \in SUBSET Prunable, NEW orphans \in SUBSET Hashes,
         PruneVersions(batch, orphans)
  PROVE  Log!Forget(batch) \/ UNCHANGED Log!logVars
<1>1. TypeInv /\ NoLostUpdate
  BY DEF HistoryInv, BaseInv, ObjectInv
<1>2. /\ UNCHANGED <<version, response, readers, cursor>>
      /\ retained' = retained \ batch /\ restoreFloor' = FloorAfter(batch)
      /\ Failed' = Failed /\ Snapshots' = Snapshots
  BY DEF PruneVersions, opVars, readerVars, jobVars, Failed, Snapshots, ActiveJob
<1>3. CASE batch = {}
  BY <1>2, <1>3 DEF FloorAfter, Log!logVars, Failed, Snapshots
<1>4. CASE batch # {}
  <2>1. ASSUME NEW i \in batch
        PROVE  /\ i \in retained
               /\ \A p \in Paths : i \notin Log!Newest(p, Len(version))
               /\ \A d \in readers : i <= cursor[d]
               /\ \A r \in Restores : i \notin Snapshots[r]
    <3>1. /\ i \in retained /\ \A p \in Paths : head[p] # i
          /\ \A d \in readers : i <= cursor[d]
          /\ ~ NeededByJob(i)
      BY DEF Prunable, AckedByReaders
    <3>2. \A p \in Paths : i \notin Log!Newest(p, Len(version))
      BY <1>1, <3>1, HeadIsNewestInLog
    <3>3. QED
      BY <3>1, <3>2 DEF NeededByJob, Snapshots
  <2>2. restoreFloor' = Len(version)
    BY <1>2, <1>4 DEF FloorAfter, CurrentSequence
  <2>3. QED
    BY <1>2, <2>1, <2>2 DEF Log!Forget, Failed, Snapshots
<1>5. QED
  BY <1>3, <1>4

\* What leaves the history and the readers alone is a failure or hidden.
LEMMA FailStep ==
  ASSUME HistoryInv, KeepsOutcomes, Settled("FAILED") \subseteq Settled("FAILED")',
         UNCHANGED <<logVars, readerVars, jobVars>>
  PROVE  \E batch \in SUBSET Ops : Log!Fail(batch)
<1>1. Failed' \subseteq Ops /\ Failed' = Failed \cup Failed'
  BY DEF Failed, Settled
<1>2. \A o \in Failed' : response[o] = 0
  BY DEF Failed, Settled, KeepsOutcomes, HistoryInv, AtMostOnce
<1>3. Snapshots' = Snapshots
  BY DEF Snapshots, ActiveJob, jobVars
<1>4. ASSUME NEW batch, batch = Failed' PROVE Log!Fail(batch)
  BY <1>1, <1>2, <1>3, <1>4 DEF Log!Fail, KeepsOutcomes, logVars, readerVars, Failed, Snapshots
<1>5. QED
  BY <1>1, <1>4

\* Enrolment, acknowledgements and restores: the log sees who follows it, how
\* far, and which versions are held.
LEMMA ReaderStep ==
  ASSUME HistoryInv, ReaderNext, UNCHANGED logVars
  PROVE  Log!Next \/ UNCHANGED Log!logVars
<1>1. TypeInv /\ Covered /\ WritersRead
  BY DEF HistoryInv, BaseInv, ObjectInv
<1>2. /\ CurrentSequence \in Nat /\ CurrentSequence = Len(version)
      /\ restoreFloor \in 0..CurrentSequence
      /\ cursor \in [Devices -> 0..CurrentSequence] /\ readers \subseteq Devices
      /\ jobState \in [Restores -> JobStates]
      /\ jobSequence \in [Restores -> 0..CurrentSequence]
      /\ manifest \in [Restores -> SUBSET (1..CurrentSequence)]
  BY <1>1 DEF TypeInv, TypeOK, CurrentSequence
<1>3. UNCHANGED <<version, retained, restoreFloor, opState, request, response>> /\ Failed' = Failed
  <2>1. UNCHANGED <<opVars, logVars>>
    BY ReaderKeeps
  <2>2. QED
    BY <2>1 DEF opVars, logVars, Failed
<1>4. ASSUME NEW d \in Devices, ConsumeEnrollment(d) PROVE Log!Join(d)
  <2>1. Snapshots' = Snapshots
    BY <1>4 DEF ConsumeEnrollment, jobVars, Snapshots, ActiveJob
  <2>2. QED
    BY <1>3, <1>4, <2>1 DEF ConsumeEnrollment, Log!Join, CurrentSequence, Failed, Snapshots
<1>5. ASSUME NEW d \in Devices, NEW n \in 0..CurrentSequence, AckChanges(d, n)
      PROVE  Log!Acknowledge(d, n, {})
  <2>1. Snapshots' = Snapshots
    BY <1>5 DEF AckChanges, jobVars, Snapshots, ActiveJob
  <2>2. Snapshots' = [r \in Restores |-> IF r \in {} THEN {} ELSE Snapshots[r]]
    BY <2>1 DEF Snapshots
  <2>3. cursor' = Log!Forward(d, n)
    BY <1>1, <1>2, <1>5, ForwardIsMax DEF AckChanges
  <2>4. d \in readers /\ n \in 0..Len(version) /\ readers' = readers
    BY <1>2, <1>5 DEF AckChanges
  <2>5. QED
    BY <1>3, <2>2, <2>3, <2>4 DEF Log!Acknowledge, Failed, Snapshots
<1>6. ASSUME NEW r \in Restores, NEW asked \in 0..CurrentSequence, StartRestore(r, asked)
      PROVE  \E s \in 0..Len(version) : Log!TakeSnapshot(r, s)
  <2>1. PICK s \in restoreFloor..CurrentSequence : s = SnapshotSequence(asked)
    BY <1>2, <1>6 DEF StartRestore, RestorableAt, SnapshotSequence
  <2> DEFINE items == {i \in NewestAt(s) : version[i].hash # NoHash}
  <2>2. Log!Files(s) = items
    BY <1>1, <2>1, FilesAreItems
  <2>3. items \subseteq retained
    BY DEF NewestAt
  <2>4. /\ jobState[r] = "NONE" /\ jobState' = [jobState EXCEPT ![r] = "READY"]
        /\ manifest' = [manifest EXCEPT ![r] = items]
        /\ UNCHANGED <<readers, cursor>>
    BY <1>6, <2>1 DEF StartRestore, readerVars
  <2> HIDE DEF items
  <2>5. Snapshots[r] = {} /\ Snapshots' = [Snapshots EXCEPT ![r] = items]
    BY <1>2, <2>4 DEF Snapshots, ActiveJob
  <2>6. s \in restoreFloor..Len(version) /\ s \in 0..Len(version)
    BY <1>2
  <2>7. Log!TakeSnapshot(r, s)
    BY <1>3, <2>2, <2>3, <2>4, <2>5, <2>6 DEF Log!TakeSnapshot, Failed, Snapshots
  <2>8. QED
    BY <2>6, <2>7
<1>7. ASSUME NEW r \in Restores, jobState' = [jobState EXCEPT ![r] = "RUNNING"], ActiveJob(r),
             UNCHANGED <<manifest, readerVars>>
      PROVE  UNCHANGED Log!logVars
  <2>1. Snapshots' = Snapshots
    BY <1>2, <1>7 DEF Snapshots, ActiveJob
  <2>2. QED
    BY <1>3, <1>7, <2>1 DEF Log!logVars, readerVars, Failed, Snapshots
<1>8. ASSUME NEW r \in Restores, NEW success \in BOOLEAN, FinishRestore(r, success)
      PROVE  \E d \in Devices, n \in 0..Len(version) : Log!Acknowledge(d, n, {r})
  <2>1. PICK n \in 0..Len(version) : n = IF success THEN jobSequence[r] ELSE 0
    BY <1>2
  <2>2. PICK d \in Devices : d = Target[r] /\ d \in readers
    BY <1>1, <1>8, ConstantsOK DEF FinishRestore, WritersRead
  <2>3. cursor' = Log!Forward(d, n)
    <3>1. Log!Forward(d, n) = [cursor EXCEPT ![d] = Max2(@, n)]
      BY <1>1, <1>2, ForwardIsMax
    <3>2. CASE success
      BY <1>8, <2>1, <2>2, <3>1, <3>2 DEF FinishRestore
    <3>3. CASE ~ success
      <4>1. Max2(cursor[d], n) = cursor[d]
        BY <1>2, <2>1, <3>3 DEF Max2
      <4>2. [cursor EXCEPT ![d] = cursor[d]] = cursor
        BY <1>2
      <4>3. cursor' = cursor
        BY <1>8, <3>3 DEF FinishRestore
      <4>4. QED
        BY <3>1, <4>1, <4>2, <4>3
    <3>4. QED
      BY <3>2, <3>3
  <2>4. Snapshots' = [q \in Restores |-> IF q \in {r} THEN {} ELSE Snapshots[q]]
    BY <1>2, <1>8 DEF FinishRestore, Snapshots, ActiveJob
  <2>5. readers' = readers
    BY <1>8 DEF FinishRestore
  <2>6. Log!Acknowledge(d, n, {r})
    BY <1>3, <2>1, <2>2, <2>3, <2>4, <2>5 DEF Log!Acknowledge, Failed, Snapshots
  <2>7. QED
    BY <2>6
<1>9. ASSUME NEW r \in Restores, ListRestoreItems(r) PROVE UNCHANGED Log!logVars
  BY <1>7, <1>9 DEF ListRestoreItems, ActiveJob
<1>10. ASSUME NEW r \in Restores, NEW i, NEW applied, ReportRestoreItem(r, i, applied)
       PROVE  UNCHANGED Log!logVars
  BY <1>7, <1>10 DEF ReportRestoreItem
<1>11. ASSUME NEW d \in Devices, ConsumeEnrollment(d) PROVE Log!Next
  BY <1>4, <1>11 DEF Log!Next
<1>12. ASSUME NEW d \in Devices, NEW n \in 0..CurrentSequence, AckChanges(d, n) PROVE Log!Next
  BY <1>2, <1>5, <1>12 DEF Log!Next
<1>13. ASSUME NEW r \in Restores, NEW asked \in 0..CurrentSequence, StartRestore(r, asked) PROVE Log!Next
  BY <1>6, <1>13 DEF Log!Next
<1>14. ASSUME NEW r \in Restores, NEW success \in BOOLEAN, FinishRestore(r, success) PROVE Log!Next
  <2>1. {r} \in SUBSET Restores
    OBVIOUS
  <2>2. QED
    BY <1>8, <1>14, <2>1 DEF Log!Next
<1>15. QED
  BY <1>9, <1>10, <1>11, <1>12, <1>13, <1>14 DEF ReaderNext

-----------------------------------------------------------------------------

\* Every step is a step of the log or hidden from it.
LEMMA RefinesStep == HistoryInv /\ [Next]_vars => [Log!Next]_(Log!logVars)
<1> SUFFICES ASSUME HistoryInv, [Next]_vars PROVE Log!Next \/ UNCHANGED Log!logVars
  OBVIOUS
<1>1. BaseInv /\ TypeInv
  BY DEF HistoryInv, BaseInv, ObjectInv
<1>2. ASSUME NEW o \in Ops, NEW r \in Request, Publishes(o, r) PROVE Log!Next
  <2>1. /\ Origin[o] \in Devices /\ r.path \in Paths /\ r.base \in 0..Len(version)
        /\ r.hash \in Hashes \cup {NoHash}
    <3>1. r.path \in Paths /\ r.base \in 0..CurrentSequence
      BY <1>1, <1>2, PublicationAppends
    <3>2. QED
      BY <3>1, ConstantsOK DEF Request, CurrentSequence
  <2>2. Log!Publish(o, Origin[o], r.path, r.base, r.hash)
    BY <1>2, PublishStep
  <2>3. QED
    BY <2>1, <2>2 DEF Log!Next
<1>3. ASSUME NEW batch \in SUBSET Prunable, NEW orphans \in SUBSET Hashes, PruneVersions(batch, orphans)
      PROVE  Log!Next \/ UNCHANGED Log!logVars
  <2>1. batch \in SUBSET retained
    BY DEF Prunable
  <2>2. QED
    BY <1>3, <2>1, ForgetStep DEF Log!Next
<1>4. ASSUME KeepsOutcomes, Settled("FAILED") \subseteq Settled("FAILED")',
             UNCHANGED <<logVars, readerVars, jobVars>>
      PROVE  Log!Next
  BY <1>4, FailStep DEF Log!Next
<1>5. ASSUME ReaderNext, UNCHANGED logVars PROVE Log!Next \/ UNCHANGED Log!logVars
  BY <1>5, ReaderStep
<1>6. QED
  BY <1>1, <1>2, <1>3, <1>4, <1>5, StepKinds

\* The metadata store implements the folder log.
THEOREM StoreImplementsFolderLog == Spec => ImplementsFolderLog
<1>1. Spec => []HistoryInv
  BY HistoryInit, HistoryStep, PTL DEF Spec
<1>2. Spec => [][Log!Next]_(Log!logVars)
  BY <1>1, RefinesStep, PTL DEF Spec
<1>3. Spec => Log!Init
  BY RefinesInit DEF Spec
<1>4. QED
  BY <1>2, <1>3 DEF ImplementsFolderLog, Log!Spec
=============================================================================
