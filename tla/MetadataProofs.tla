--------------------------- MODULE MetadataProofs ---------------------------
(***************************************************************************)
(* Safety of the metadata store for every set of devices, paths, contents, *)
(* operations and restore jobs.                                            *)
(***************************************************************************)
EXTENDS Metadata, TLAPS

-----------------------------------------------------------------------------
(* Type correctness *)

\* An operation that waits for its upload or its commit has a content, and an
\* ACTIVE session belongs to a RESERVED operation.
UploadsKnown ==
    /\ \A o \in Ops : InFlight(o) => request[o] \in Request /\ request[o].hash \in Hashes
    /\ \A o \in Ops : session[o] = "ACTIVE" => opState[o] = "RESERVED"

\* The head of a path has a row, and only the commit of a READY operation
\* holds the locks.
HeadRetained == \A p \in Paths : head[p] # 0 => head[p] \in retained
CommitReady == commitTx # NoOp => opState[commitTx] = "READY"

TypeInv == TypeOK /\ UploadsKnown /\ HeadRetained /\ CommitReady

\* The empty store is well-typed.
LEMMA TypeInit == Init => TypeInv
  BY ConstantsOK DEF Init, TypeInv, TypeOK, UploadsKnown, HeadRetained, CommitReady, InFlight,
     OpStates, SessionStates, ObjectStates, JobStates, CurrentSequence, NoRequest

\* A commit adds one well-formed version, and its head has a row.
LEMMA InsertVersionType ==
  ASSUME TypeInv, NEW o \in Ops, NEW r \in Request, InsertVersion(o, r)
  PROVE  /\ version' \in Seq(Version)
         /\ Len(version') = Len(version) + 1
         /\ retained' \subseteq 1..Len(version')
         /\ superseded' \subseteq retained'
         /\ head' \in [Paths -> 0..Len(version')]
         /\ HeadRetained'
         /\ cursor' \in [Devices -> 0..Len(version')]
<1> DEFINE v == [path |-> r.path, base |-> r.base, hash |-> r.hash, op |-> o]
<1>1. v \in Version
  BY DEF Request, Version
<1>2. version' = Append(version, v)
  BY DEF InsertVersion
<1>3. /\ version' \in Seq(Version)
      /\ Len(version') = Len(version) + 1
      /\ Len(version) \in Nat
  BY <1>1, <1>2 DEF TypeInv, TypeOK
<1>4. retained' = retained \cup {Len(version) + 1} /\ retained' \subseteq 1..Len(version')
  <2>1. retained' = retained \cup {Len(version) + 1}
    BY DEF InsertVersion, CurrentSequence
  <2>2. retained \subseteq 1..Len(version)
    BY DEF TypeInv, TypeOK, CurrentSequence
  <2>3. \A n \in Nat : \A S \in SUBSET (1..n) : S \cup {n + 1} \subseteq 1..(n + 1)
    OBVIOUS
  <2>4. QED
    BY <1>3, <2>1, <2>2, <2>3
<1>5. r.path \in Paths
  BY DEF Request
<1>6. superseded' \subseteq retained'
  BY <1>4, <1>5 DEF InsertVersion, HeadRetained, TypeInv, TypeOK
<1>7. head' = [head EXCEPT ![r.path] = Len(version) + 1]
  BY DEF InsertVersion, CurrentSequence
<1>8. head' \in [Paths -> 0..Len(version')] /\ HeadRetained'
  BY <1>3, <1>4, <1>5, <1>7 DEF HeadRetained, TypeInv, TypeOK, CurrentSequence
<1>9. cursor' = [cursor EXCEPT ![Origin[o]] = Max2(@, Len(version) + 1)]
  BY DEF InsertVersion, CurrentSequence
<1>10. cursor' \in [Devices -> 0..Len(version')]
  BY <1>3, <1>9, ConstantsOK DEF Max2, TypeInv, TypeOK, CurrentSequence
<1>11. QED
  BY <1>3, <1>4, <1>6, <1>8, <1>10

\* Every transaction keeps the rows well-typed.
LEMMA TypeStep == TypeInv /\ [Next]_vars => TypeInv'
<1> SUFFICES ASSUME TypeInv, [Next]_vars PROVE TypeInv'
  OBVIOUS
<1> USE ConstantsOK DEF TypeInv, TypeOK, UploadsKnown, HeadRetained, CommitReady, InFlight,
     OpStates, SessionStates, ObjectStates, JobStates, CurrentSequence,
     opVars, sessionVars, objectVars, logVars, readerVars, jobVars
<1>1. ASSUME NEW h \in Hashes, EnsureObject(h) PROVE TypeInv'
  BY <1>1 DEF EnsureObject
<1>2. ASSUME NEW o \in Ops, NEW r \in Request, BeginRequired(o, r) PROVE TypeInv'
  BY <1>2 DEF BeginRequired, Request, NewOperation, Unlocked
<1>3. ASSUME NEW o \in Ops, NEW r \in Request, BeginPresent(o, r) PROVE TypeInv'
  BY <1>3, SMTT(30) DEF BeginPresent, Request, NewOperation, Unlocked
<1>4. ASSUME NEW o \in Ops, NEW h \in Hashes, BeginCheck(o, h) PROVE TypeInv'
  BY <1>4 DEF BeginCheck
<1>5. ASSUME NEW o \in Ops, BeginRollback(o) PROVE TypeInv'
  BY <1>5 DEF BeginRollback
<1>6. ASSUME NEW o \in Ops, NEW n \in Nat, UpdateUploadProgress(o, n) PROVE TypeInv'
  BY <1>6 DEF UpdateUploadProgress
<1>7. ASSUME NEW o \in Ops, MarkUploadVerified(o) PROVE TypeInv'
  BY <1>7 DEF MarkUploadVerified
<1>8. ASSUME NEW o \in Ops, SessionTimesOut(o) PROVE TypeInv'
  BY <1>8 DEF SessionTimesOut
<1>9. ASSUME NEW o \in Ops, CommitLock(o) PROVE TypeInv'
  BY <1>9 DEF CommitLock
<1>10. ASSUME NEW o \in Ops, CommitApply(o) PROVE TypeInv'
  <2>1. request[o] \in Request /\ opState[o] = "READY"
    BY <1>10 DEF CommitApply
  <2>2. InsertVersion(o, request[o])
    BY <1>10 DEF CommitApply
  <2> HIDE DEF TypeInv
  <2>3. /\ version' \in Seq(Version)
        /\ Len(version') = Len(version) + 1
        /\ retained' \subseteq 1..Len(version')
        /\ superseded' \subseteq retained'
        /\ head' \in [Paths -> 0..Len(version')]
        /\ HeadRetained'
        /\ cursor' \in [Devices -> 0..Len(version')]
    BY <2>1, <2>2, InsertVersionType
  <2> USE DEF TypeInv
  <2>4. QED
    BY <1>10, <2>1, <2>2, <2>3 DEF CommitApply, InsertVersion
<1>11. CASE CommitRollback
  BY <1>11 DEF CommitRollback
<1>12. ASSUME NEW o \in Ops, NEW r \in Request, CommitDelete(o, r) PROVE TypeInv'
  <2>1. InsertVersion(o, r) /\ opState[o] = "NONE" /\ commitTx = NoOp
    BY <1>12 DEF CommitDelete, NewOperation, Unlocked
  <2> HIDE DEF TypeInv
  <2>2. /\ version' \in Seq(Version)
        /\ Len(version') = Len(version) + 1
        /\ retained' \subseteq 1..Len(version')
        /\ superseded' \subseteq retained'
        /\ head' \in [Paths -> 0..Len(version')]
        /\ HeadRetained'
        /\ cursor' \in [Devices -> 0..Len(version')]
    BY <2>1, InsertVersionType
  <2> USE DEF TypeInv
  <2>3. QED
    BY <1>12, <2>1, <2>2, SMTT(30) DEF CommitDelete, InsertVersion
<1>13. ASSUME NEW batch \in SUBSET Expirable, ExpireUploadSessions(batch) PROVE TypeInv'
  BY <1>13 DEF ExpireUploadSessions, Expirable, Unlocked
<1>14. ASSUME NEW o \in Ops, CompleteUploadCleanup(o) PROVE TypeInv'
  BY <1>14 DEF CompleteUploadCleanup
<1>15. ASSUME NEW batch \in SUBSET Prunable, NEW orphans \in SUBSET Hashes, PruneVersions(batch, orphans)
       PROVE TypeInv'
  BY <1>15 DEF PruneVersions, Prunable, FloorAfter
<1>16. ASSUME NEW h \in Hashes, DeleteGarbageRecord(h) PROVE TypeInv'
  BY <1>16 DEF DeleteGarbageRecord
<1>17. ASSUME NEW d \in Devices, ConsumeEnrollment(d) PROVE TypeInv'
  BY <1>17 DEF ConsumeEnrollment
<1>18. ASSUME NEW d \in Devices, NEW n \in 0..CurrentSequence, AckChanges(d, n) PROVE TypeInv'
  BY <1>18 DEF AckChanges, Max2
<1>19. ASSUME NEW r \in Restores, NEW asked \in 0..CurrentSequence, StartRestore(r, asked) PROVE TypeInv'
  <2> DEFINE s == SnapshotSequence(asked)
             items == {i \in NewestAt(s) : version[i].hash # NoHash}
  <2>1. s \in 0..CurrentSequence
    BY DEF SnapshotSequence
  <2>2. items \in SUBSET (1..CurrentSequence)
    BY DEF NewestAt
  <2> HIDE DEF s, items
  <2>3. /\ jobState' = [jobState EXCEPT ![r] = "READY"]
        /\ jobSequence' = [jobSequence EXCEPT ![r] = s]
        /\ manifest' = [manifest EXCEPT ![r] = items]
        /\ openItems' = [openItems EXCEPT ![r] = items]
        /\ UNCHANGED <<failedItems, opVars, sessionVars, objectVars, logVars, readerVars, commitTx>>
    BY <1>19 DEF StartRestore, s, items
  <2>4. QED
    BY <2>1, <2>2, <2>3
<1>20. ASSUME NEW r \in Restores, ListRestoreItems(r) PROVE TypeInv'
  BY <1>20 DEF ListRestoreItems
<1>21. ASSUME NEW r \in Restores, NEW i \in openItems[r], NEW applied \in BOOLEAN,
              ReportRestoreItem(r, i, applied)
       PROVE TypeInv'
  BY <1>21 DEF ReportRestoreItem
<1>22. ASSUME NEW r \in Restores, NEW success \in BOOLEAN, FinishRestore(r, success) PROVE TypeInv'
  BY <1>22 DEF FinishRestore, Max2
<1>23. CASE UNCHANGED vars
  BY <1>23 DEF vars
<1>24. CASE UploadNext
  <2>1. \A p \in Paths, b \in 0..CurrentSequence, h \in Hashes :
           [path |-> p, base |-> b, hash |-> h] \in Request
    BY DEF Request
  <2>2. \A o \in Ops : \A n \in 0..SizeOf(request[o].hash) : UpdateUploadProgress(o, n) => n \in Nat
    OBVIOUS
  <2> HIDE DEF TypeInv
  <2>3. QED
    BY <1>1, <1>2, <1>3, <1>4, <1>5, <1>6, <1>7, <1>8, <1>24, <2>1, <2>2 DEF UploadNext
<1>25. CASE CommitNext
  <2>1. \A p \in Paths, b \in 0..CurrentSequence : [path |-> p, base |-> b, hash |-> NoHash] \in Request
    BY DEF Request
  <2> HIDE DEF TypeInv
  <2>2. QED
    BY <1>9, <1>10, <1>11, <1>12, <1>25, <2>1 DEF CommitNext
<1> HIDE DEF TypeInv
<1>26. CASE GarbageNext
  BY <1>13, <1>14, <1>15, <1>16, <1>26 DEF GarbageNext
<1>27. CASE ReaderNext
  BY <1>17, <1>18, <1>19, <1>20, <1>21, <1>22, <1>27 DEF ReaderNext
<1>28. QED
  BY <1>23, <1>24, <1>25, <1>26, <1>27 DEF Next

\* Type correctness: every row always holds what the schema and the code let it
\* hold.
THEOREM TypeCorrect == Spec => []TypeOK
<1>1. TypeInv => TypeOK
  BY DEF TypeInv
<1>2. QED
  BY TypeInit, TypeStep, <1>1, PTL DEF Spec

-----------------------------------------------------------------------------
(* Contents of retained versions *)

\* What CommitLock has checked stays true until its transaction ends: nobody
\* moves the head, and the collector does not mark the object, because the
\* READY operation references it.
CommitChecked ==
    commitTx # NoOp =>
        /\ object[request[commitTx].hash] = "AVAILABLE"
        /\ head[request[commitTx].path] = request[commitTx].base

ObjectInv == TypeInv /\ CommitChecked /\ RetainedAvailable

\* An empty store has no version that lacks its content.
LEMMA ObjectInit == Init => ObjectInv
<1> SUFFICES ASSUME Init PROVE ObjectInv
  OBVIOUS
<1>1. TypeInv
  BY TypeInit
<1>2. CommitChecked /\ RetainedAvailable
  BY DEF Init, CommitChecked, RetainedAvailable
<1>3. QED
  BY <1>1, <1>2 DEF ObjectInv

\* The version that a commit adds has an AVAILABLE content; the others keep
\* theirs.
LEMMA InsertVersionAvailable ==
  ASSUME TypeInv, RetainedAvailable, NEW o \in Ops, NEW r \in Request, InsertVersion(o, r),
         r.hash # NoHash => object[r.hash] = "AVAILABLE"
  PROVE  RetainedAvailable'
<1>1. version \in Seq(Version) /\ retained \subseteq 1..Len(version)
  BY DEF TypeInv, TypeOK, CurrentSequence
<1>2. /\ version' = Append(version, [path |-> r.path, base |-> r.base, hash |-> r.hash, op |-> o])
      /\ retained' = retained \cup {Len(version) + 1}
      /\ object' = object
  BY DEF InsertVersion, CurrentSequence, objectVars
<1>3. \A i \in retained : version'[i] = version[i]
  BY <1>1, <1>2
<1>4. version'[Len(version) + 1].hash = r.hash
  BY <1>1, <1>2
<1>5. QED
  BY <1>2, <1>3, <1>4 DEF RetainedAvailable

\* No transaction takes the content of a row that is there or is being
\* committed: what is marked or deleted is unreferenced.
LEMMA ObjectStep == ObjectInv /\ [Next]_vars => ObjectInv'
<1> SUFFICES ASSUME ObjectInv, [Next]_vars PROVE ObjectInv'
  OBVIOUS
<1>t. TypeInv /\ TypeInv'
  BY TypeStep DEF ObjectInv
<1> DEFINE Goal == CommitChecked' /\ RetainedAvailable'
<1> SUFFICES Goal
  BY <1>t DEF ObjectInv
<1>i. CommitChecked /\ RetainedAvailable
  BY DEF ObjectInv
<1>k. /\ object \in [Hashes -> ObjectStates]
      /\ commitTx \in Ops \cup {NoOp}
      /\ request \in [Ops -> Request \cup {NoRequest}]
      /\ session \in [Ops -> SessionStates]
      /\ version \in Seq(Version)
      /\ retained \subseteq 1..Len(version)
      /\ opState \in [Ops -> OpStates]
      /\ UploadsKnown /\ CommitReady
  BY <1>t DEF TypeInv, TypeOK, CurrentSequence
<1>h. \A i \in retained : version[i].hash \in Hashes \cup {NoHash}
  <2>1. \A i \in retained : version[i] \in Version
    BY <1>k
  <2>2. QED
    BY <2>1 DEF Version
<1>n. NoOp \notin Ops /\ NoHash \notin Hashes
  BY ConstantsOK
<1> USE <1>i, <1>k, <1>h, <1>n
        DEF opVars, sessionVars, objectVars, logVars, readerVars, jobVars
\* the actions that leave the object rows, the requests and the log alone
<1>1. ASSUME UNCHANGED <<object, request, logVars, commitTx>> PROVE Goal
  BY <1>1 DEF CommitChecked, RetainedAvailable
\* inserting a row or finding it AVAILABLE takes no content away
<1>2. ASSUME NEW h \in Hashes, object' = [object EXCEPT ![h] = "AVAILABLE"],
             UNCHANGED <<request, logVars, commitTx>>
      PROVE  Goal
  <2>1. RetainedAvailable'
    BY <1>2 DEF RetainedAvailable
  <2>2. CommitChecked'
    BY <1>2 DEF CommitChecked, CommitReady, UploadsKnown, InFlight
  <2>3. QED
    BY <2>1, <2>2
<1>3. ASSUME NEW o \in Ops, NEW r \in Request, BeginRequired(o, r) PROVE Goal
  BY <1>3 DEF BeginRequired, Unlocked, CommitChecked, RetainedAvailable
<1>4. ASSUME NEW o \in Ops, NEW r \in Request, r.hash \in Hashes, BeginPresent(o, r) PROVE Goal
  BY <1>4 DEF BeginPresent, Unlocked, CommitChecked, RetainedAvailable
<1>5. ASSUME NEW o \in Ops, CommitLock(o) PROVE Goal
  BY <1>5 DEF CommitLock, BaseIsHead, CommitChecked, RetainedAvailable
<1>6. ASSUME NEW o \in Ops, CommitApply(o) PROVE Goal
  <2>1. request[o] \in Request /\ object[request[o].hash] = "AVAILABLE" /\ InsertVersion(o, request[o])
    BY <1>6 DEF CommitApply, CommitChecked, CommitReady, UploadsKnown, InFlight
  <2>2. RetainedAvailable'
    BY <1>t, <2>1, InsertVersionAvailable
  <2>3. QED
    BY <1>6, <2>2 DEF CommitApply, CommitChecked
<1>7. CASE CommitRollback
  BY <1>7 DEF CommitRollback, CommitChecked, RetainedAvailable
<1>8. ASSUME NEW o \in Ops, NEW r \in Request, r.hash = NoHash, CommitDelete(o, r) PROVE Goal
  <2>1. RetainedAvailable'
    BY <1>t, <1>8, InsertVersionAvailable DEF CommitDelete
  <2>2. QED
    BY <1>8, <2>1 DEF CommitDelete, Unlocked, CommitChecked
<1>9. ASSUME NEW batch \in SUBSET Prunable, NEW orphans \in SUBSET Hashes, PruneVersions(batch, orphans)
      PROVE  Goal
  <2> DEFINE kept == retained \ batch
  <2>1. \A h \in Hashes : ReferencedIn(h, kept) => object'[h] = object[h]
    BY <1>9 DEF PruneVersions
  <2>2. retained' = kept /\ UNCHANGED <<opState, request, version, head, commitTx>>
    BY <1>9 DEF PruneVersions
  <2>3. RetainedAvailable'
    <3> SUFFICES ASSUME NEW i \in kept, version[i].hash # NoHash
                 PROVE  object'[version[i].hash] = "AVAILABLE"
      BY <2>2 DEF RetainedAvailable
    <3>1. version[i].hash \in Hashes /\ ReferencedIn(version[i].hash, kept)
      BY DEF ReferencedIn
    <3>2. QED
      BY <2>1, <3>1 DEF RetainedAvailable
  <2>4. CommitChecked'
    <3> SUFFICES ASSUME commitTx # NoOp
                 PROVE  /\ object'[request[commitTx].hash] = "AVAILABLE"
                        /\ head[request[commitTx].path] = request[commitTx].base
      BY <2>2 DEF CommitChecked
    <3>1. request[commitTx].hash \in Hashes /\ ReferencedIn(request[commitTx].hash, kept)
      BY DEF ReferencedIn, InFlight, CommitReady, UploadsKnown
    <3>2. QED
      BY <2>1, <3>1 DEF CommitChecked
  <2>5. QED
    BY <2>3, <2>4
<1>10. ASSUME NEW h \in Hashes, DeleteGarbageRecord(h) PROVE Goal
  BY <1>10 DEF DeleteGarbageRecord, PendingGarbage, CommitChecked, RetainedAvailable, CommitReady,
     UploadsKnown, InFlight
<1> HIDE DEF Goal
<1>11. CASE UploadNext
  <2>1. ASSUME NEW o \in Ops, NEW p \in Paths, NEW b \in 0..CurrentSequence, NEW h \in Hashes,
               \/ BeginRequired(o, [path |-> p, base |-> b, hash |-> h])
               \/ BeginPresent(o, [path |-> p, base |-> b, hash |-> h])
        PROVE  Goal
    BY <2>1, <1>3, <1>4 DEF Request
  <2>2. ASSUME NEW o \in Ops, MarkUploadVerified(o) PROVE Goal
    <3>1. request[o].hash \in Hashes
      BY <2>2 DEF MarkUploadVerified, UploadsKnown, InFlight
    <3>2. QED
      BY <1>2, <2>2, <3>1 DEF MarkUploadVerified
  <2>3. ASSUME NEW o \in Ops,
               \/ \E h \in Hashes : BeginCheck(o, h)
               \/ BeginRollback(o)
               \/ \E n \in 0..SizeOf(request[o].hash) : UpdateUploadProgress(o, n)
               \/ SessionTimesOut(o)
        PROVE  Goal
    BY <1>1, <2>3 DEF BeginCheck, BeginRollback, UpdateUploadProgress, SessionTimesOut
  <2>4. ASSUME NEW h \in Hashes, EnsureObject(h) PROVE Goal
    BY <1>2, <2>4 DEF EnsureObject
  <2>5. QED
    BY <1>11, <2>1, <2>2, <2>3, <2>4 DEF UploadNext
<1>12. CASE CommitNext
  <2>1. ASSUME NEW o \in Ops, NEW p \in Paths, NEW b \in 0..CurrentSequence,
               CommitDelete(o, [path |-> p, base |-> b, hash |-> NoHash])
        PROVE  Goal
    <3>1. [path |-> p, base |-> b, hash |-> NoHash] \in Request
      BY DEF Request
    <3>2. QED
      BY <1>8, <2>1, <3>1
  <2>2. QED
    BY <1>12, <1>5, <1>6, <1>7, <2>1 DEF CommitNext
<1>13. CASE GarbageNext
  BY <1>13, <1>1, <1>9, <1>10 DEF GarbageNext, ExpireUploadSessions, CompleteUploadCleanup
<1>14. CASE ReaderNext
  BY <1>14, <1>1 DEF ReaderNext, ConsumeEnrollment, AckChanges, StartRestore, ListRestoreItems,
     ReportRestoreItem, FinishRestore
<1>15. CASE UNCHANGED vars
  BY <1>15, <1>1 DEF vars
<1>16. QED
  BY <1>11, <1>12, <1>13, <1>14, <1>15 DEF Next

\* The content of a retained version is never marked for deletion and never
\* loses its row, whatever PruneVersions and DeleteGarbageRecord do between the
\* upload and the commit.
THEOREM RetainedAlwaysAvailable == Spec => []RetainedAvailable
<1>1. ObjectInv => RetainedAvailable
  BY DEF ObjectInv
<1>2. QED
  BY ObjectInit, ObjectStep, <1>1, PTL DEF Spec
-----------------------------------------------------------------------------
(* What a transaction does to operations, sessions and rows *)

\* A session belongs to an operation, and a VERIFIED one to an operation that
\* waits for its commit.
SessionsKnown ==
    \A o \in Ops :
        /\ session[o] # "NONE" => opState[o] # "NONE"
        /\ session[o] = "VERIFIED" => opState[o] = "READY"

\* An operation in flight keeps a row of this content from being touched.
Needed(h) == \E o \in Ops : InFlight(o) /\ request[o].hash = h

\* An operation keeps its intent and never starts again; a session ends once.
OperationsMove ==
    \A o \in Ops :
        /\ opState[o] # "NONE" => opState'[o] # "NONE" /\ request'[o] = request[o]
        /\ opState[o] \in {"READY", "COMPLETED", "FAILED"} =>
              opState'[o] \in {"READY", "COMPLETED", "FAILED"}
        /\ opState[o] \in {"COMPLETED", "FAILED"} => opState'[o] # "READY"
        /\ session[o] # "NONE" => session'[o] # "NONE"
        /\ session[o] \notin {"NONE", "ACTIVE"} => session'[o] # "ACTIVE"

\* A row waits for deletion until its record goes, and neither that nor the
\* mark comes while an operation in flight needs the content.
ObjectsMove ==
    \A h \in Hashes :
        /\ object[h] = "PENDING_DELETE" => object'[h] = "PENDING_DELETE" \/ DeleteGarbageRecord(h)
        /\ object[h] # "ABSENT" /\ Needed(h) => object'[h] = object[h]

StoreInv == ObjectInv /\ SessionsKnown

\* The empty store has no session.
LEMMA StoreInit == Init => StoreInv
<1>1. Init => SessionsKnown
  BY DEF Init, SessionsKnown
<1>2. QED
  BY <1>1, ObjectInit DEF StoreInv

\* What a transaction does to the operations, sessions and rows.
LEMMA StoreMoves ==
  ASSUME StoreInv, Next
  PROVE  SessionsKnown' /\ OperationsMove /\ ObjectsMove
<1> DEFINE Goal == SessionsKnown' /\ OperationsMove /\ ObjectsMove
<1>k. /\ object \in [Hashes -> ObjectStates]
      /\ commitTx \in Ops \cup {NoOp}
      /\ request \in [Ops -> Request \cup {NoRequest}]
      /\ session \in [Ops -> SessionStates]
      /\ opState \in [Ops -> OpStates]
      /\ UploadsKnown /\ CommitReady /\ CommitChecked /\ SessionsKnown
      /\ NoOp \notin Ops
  BY ConstantsOK DEF StoreInv, ObjectInv, TypeInv, TypeOK
<1> USE <1>k DEF opVars, sessionVars, objectVars, logVars, readerVars, jobVars
\* transactions that leave the operations, the sessions and the rows alone
<1>1. ASSUME UNCHANGED <<opState, request, session, object>> PROVE Goal
  BY <1>1 DEF SessionsKnown, OperationsMove, ObjectsMove
<1>2. ASSUME NEW h \in Hashes, EnsureObject(h) PROVE Goal
  BY <1>2 DEF EnsureObject, SessionsKnown, OperationsMove, ObjectsMove
<1>3. ASSUME NEW o \in Ops, NEW r, BeginRequired(o, r) PROVE Goal
  BY <1>3 DEF BeginRequired, NewOperation, SessionsKnown, OperationsMove, ObjectsMove, UploadsKnown
<1>4. ASSUME NEW o \in Ops, NEW r, r.hash \in Hashes, BeginPresent(o, r) PROVE Goal
  BY <1>4 DEF BeginPresent, NewOperation, SessionsKnown, OperationsMove, ObjectsMove, UploadsKnown
<1>5. ASSUME NEW o \in Ops, MarkUploadVerified(o) PROVE Goal
  <2>1. opState[o] = "RESERVED" /\ request[o].hash \in Hashes
    BY <1>5 DEF MarkUploadVerified, UploadsKnown, InFlight
  <2>2. SessionsKnown' /\ OperationsMove
    BY <1>5, <2>1 DEF MarkUploadVerified, SessionsKnown, OperationsMove
  <2>3. ObjectsMove
    BY <1>5, <2>1 DEF MarkUploadVerified, ObjectUsable, ObjectsMove
  <2>4. QED
    BY <2>2, <2>3
<1>6. ASSUME NEW o \in Ops, CommitApply(o) PROVE Goal
  <2>1. opState[o] = "READY"
    BY <1>6 DEF CommitApply, CommitReady
  <2>2. QED
    BY <1>6, <2>1 DEF CommitApply, InsertVersion, SessionsKnown, OperationsMove, ObjectsMove
<1>7. ASSUME NEW o \in Ops, NEW r, CommitDelete(o, r) PROVE Goal
  BY <1>7 DEF CommitDelete, NewOperation, InsertVersion, SessionsKnown, OperationsMove, ObjectsMove
<1>8. ASSUME NEW batch \in SUBSET Expirable, ExpireUploadSessions(batch) PROVE Goal
  BY <1>8 DEF ExpireUploadSessions, Expirable, SessionsKnown, UploadsKnown, OperationsMove, ObjectsMove
<1>9. ASSUME NEW o \in Ops, CompleteUploadCleanup(o) PROVE Goal
  BY <1>9 DEF CompleteUploadCleanup, SessionsKnown, OperationsMove, ObjectsMove
<1>10. ASSUME NEW batch \in SUBSET Prunable, NEW orphans \in SUBSET Hashes, PruneVersions(batch, orphans)
       PROVE  Goal
  <2>1. UNCHANGED <<opState, request, session>>
    BY <1>10 DEF PruneVersions
  <2>2. ASSUME NEW h \in Hashes, object'[h] # object[h]
        PROVE  object[h] = "AVAILABLE" /\ ~ ReferencedIn(h, retained \ batch)
    BY <1>10, <2>2 DEF PruneVersions
  <2>3. ObjectsMove
    BY <2>2 DEF ObjectsMove, Needed, ReferencedIn
  <2>4. QED
    BY <2>1, <2>3 DEF SessionsKnown, OperationsMove
<1>11. ASSUME NEW h \in Hashes, DeleteGarbageRecord(h) PROVE Goal
  <2>1. UNCHANGED <<opState, request, session>>
    BY <1>11 DEF DeleteGarbageRecord
  <2>2. object' = [object EXCEPT ![h] = "ABSENT"] /\ ~ Needed(h)
    BY <1>11 DEF DeleteGarbageRecord, PendingGarbage, ReferencedIn, Needed
  <2>3. ObjectsMove
    BY <1>11, <2>2 DEF ObjectsMove
  <2>4. QED
    BY <2>1, <2>3 DEF SessionsKnown, OperationsMove
<1> SUFFICES Goal
  OBVIOUS
<1> HIDE DEF Goal
<1>12. CASE UploadNext
  <2>1. ASSUME NEW o \in Ops, NEW p \in Paths, NEW b \in 0..CurrentSequence, NEW h \in Hashes,
               \/ BeginRequired(o, [path |-> p, base |-> b, hash |-> h])
               \/ BeginPresent(o, [path |-> p, base |-> b, hash |-> h])
        PROVE  Goal
    BY <2>1, <1>3, <1>4
  <2>2. ASSUME NEW o \in Ops,
               \/ \E h \in Hashes : BeginCheck(o, h)
               \/ BeginRollback(o)
               \/ \E n \in 0..SizeOf(request[o].hash) : UpdateUploadProgress(o, n)
               \/ SessionTimesOut(o)
        PROVE  Goal
    BY <1>1, <2>2 DEF BeginCheck, BeginRollback, UpdateUploadProgress, SessionTimesOut
  <2>3. QED
    BY <1>12, <1>2, <1>5, <2>1, <2>2 DEF UploadNext
<1>13. CASE CommitNext
  <2>1. ASSUME NEW o \in Ops, CommitLock(o) PROVE Goal
    BY <1>1, <2>1 DEF CommitLock
  <2>2. CASE CommitRollback
    BY <1>1, <2>2 DEF CommitRollback
  <2>3. QED
    BY <1>13, <1>6, <1>7, <2>1, <2>2 DEF CommitNext
<1>14. CASE GarbageNext
  BY <1>14, <1>8, <1>9, <1>10, <1>11 DEF GarbageNext
<1>15. CASE ReaderNext
  BY <1>15, <1>1 DEF ReaderNext, ConsumeEnrollment, AckChanges, StartRestore, ListRestoreItems,
     ReportRestoreItem, FinishRestore
<1>16. QED
  BY <1>12, <1>13, <1>14, <1>15 DEF Next

=============================================================================
