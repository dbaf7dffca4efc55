---------------------------- MODULE AgentProofs ----------------------------
(***************************************************************************)
(* The queue of an agent, for every set of paths and any number of edits   *)
(* and failures: its types, one live operation per path, and the order in  *)
(* which the versions of a path reach the server.                          *)
(***************************************************************************)
EXTENDS Agent, TLAPS

-----------------------------------------------------------------------------
(* The statements on the queue *)

\* What every statement does but the insertion of Enqueue: rows keep what they
\* were queued with, and no closed row is opened.
RowsMove(q) ==
    /\ q \in Seq(Operation)
    /\ DOMAIN q = DOMAIN queue
    /\ \A o \in DOMAIN queue :
          /\ q[o].path = queue[o].path /\ q[o].stamp = queue[o].stamp /\ q[o].base = queue[o].base
          /\ q[o].state \notin Closed => queue[o].state \notin Closed

\* Each row has its type.
LEMMA RowTypes ==
  ASSUME queue \in Seq(Operation), NEW o \in DOMAIN queue
  PROVE  /\ queue[o] \in Operation
         /\ queue[o].path \in Paths /\ queue[o].stamp \in Stamps /\ queue[o].base \in Nat
         /\ queue[o].state \in OpStates
         /\ queue[o] = [queue[o] EXCEPT !.state = queue[o].state]
<1>1. queue[o] \in Operation
  OBVIOUS
<1>2. QED
  BY <1>1 DEF Operation

\* A function on the rows that gives each row a state of the schema and opens
\* no closed one is such a statement.
LEMMA StatesMove ==
  ASSUME queue \in Seq(Operation), NEW q, DOMAIN q = DOMAIN queue,
         q = [o \in DOMAIN queue |-> q[o]],
         \A o \in DOMAIN queue : \E s \in OpStates :
             /\ q[o] = [queue[o] EXCEPT !.state = s]
             /\ s \notin Closed => queue[o].state \notin Closed
  PROVE  RowsMove(q)
<1>1. /\ Len(queue) \in Nat /\ DOMAIN queue = 1..Len(queue)
      /\ \A o \in DOMAIN queue : queue[o] \in Operation
  OBVIOUS
<1>2. \A o \in DOMAIN queue :
        /\ q[o] \in Operation
        /\ q[o].path = queue[o].path /\ q[o].stamp = queue[o].stamp /\ q[o].base = queue[o].base
        /\ q[o].state \notin Closed => queue[o].state \notin Closed
  <2> SUFFICES ASSUME NEW o \in DOMAIN queue
      PROVE /\ q[o] \in Operation
            /\ q[o].path = queue[o].path /\ q[o].stamp = queue[o].stamp /\ q[o].base = queue[o].base
            /\ q[o].state \notin Closed => queue[o].state \notin Closed
    OBVIOUS
  <2>1. PICK s \in OpStates : /\ q[o] = [queue[o] EXCEPT !.state = s]
                              /\ s \notin Closed => queue[o].state \notin Closed
    OBVIOUS
  <2>2. queue[o] \in Operation
    BY <1>1
  <2>3. QED
    BY <2>1, <2>2 DEF Operation
<1>3. q \in Seq(Operation)
  BY <1>1, <1>2
<1>4. QED
  BY <1>2, <1>3 DEF RowsMove

\* Transition moves a row that is in flight to a state of the schema.
LEMMA MovedMoves ==
  ASSUME queue \in Seq(Operation), NEW o, NEW from, from \notin Closed, NEW to \in OpStates
  PROVE  RowsMove(Moved(o, from, to))
<1>1. ASSUME NEW r \in DOMAIN queue
      PROVE  /\ queue[r] \in Operation /\ queue[r].state \in OpStates
             /\ queue[r] = [queue[r] EXCEPT !.state = queue[r].state]
  BY <1>1, RowTypes
<1>2. CASE queue[o].state = from
  <2>1. Moved(o, from, to) = [queue EXCEPT ![o].state = to]
    BY <1>2 DEF Moved
  <2> DEFINE q == [queue EXCEPT ![o].state = to]
  <2>2. DOMAIN q = DOMAIN queue /\ q = [r \in DOMAIN queue |-> q[r]]
    OBVIOUS
  <2>3. ASSUME NEW r \in DOMAIN queue
        PROVE  \E s \in OpStates : /\ q[r] = [queue[r] EXCEPT !.state = s]
                                   /\ s \notin Closed => queue[r].state \notin Closed
    <3>1. CASE r = o
      BY <1>2, <3>1
    <3>2. CASE r # o
      BY <1>1, <3>2
    <3>3. QED
      BY <3>1, <3>2
  <2>4. RowsMove(q)
    <3> HIDE DEF q
    <3> QED
      BY <2>2, <2>3, StatesMove
  <2>5. QED
    BY <2>1, <2>4
<1>3. CASE queue[o].state # from
  BY <1>3 DEF Moved, RowsMove
<1>4. QED
  BY <1>2, <1>3

\* Cancelling closes every row of the path and leaves the others alone.
LEMMA CancelledMoves ==
  ASSUME queue \in Seq(Operation), NEW p
  PROVE  /\ RowsMove(Cancelled(p))
         /\ \A o \in DOMAIN queue : queue[o].path = p => Cancelled(p)[o].state \in Closed
<1> DEFINE q == Cancelled(p)
<1>1. DOMAIN q = DOMAIN queue /\ q = [o \in DOMAIN queue |-> q[o]]
  BY DEF Cancelled
<1>2. ASSUME NEW o \in DOMAIN queue
      PROVE  /\ \E s \in OpStates : /\ q[o] = [queue[o] EXCEPT !.state = s]
                                    /\ s \notin Closed => queue[o].state \notin Closed
             /\ queue[o].path = p => q[o].state \in Closed
  <2>1. /\ queue[o] \in Operation /\ queue[o].state \in OpStates
        /\ queue[o] = [queue[o] EXCEPT !.state = queue[o].state]
    BY RowTypes
  <2>2. CASE queue[o].path = p /\ queue[o].state \notin Closed
    <3>1. q[o] = [queue[o] EXCEPT !.state = "CANCELLED"]
      BY <2>2 DEF Cancelled
    <3>2. q[o].state = "CANCELLED"
      BY <2>1, <3>1 DEF Operation
    <3>3. "CANCELLED" \in OpStates /\ "CANCELLED" \in Closed
      BY DEF OpStates, Closed
    <3>4. QED
      BY <3>1, <3>2, <3>3
  <2>3. CASE ~ (queue[o].path = p /\ queue[o].state \notin Closed)
    <3>1. q[o] = queue[o]
      BY <2>3 DEF Cancelled
    <3>2. QED
      BY <2>1, <2>3, <3>1
  <2>4. QED
    BY <2>2, <2>3
<1>3. RowsMove(q)
  <2> HIDE DEF q
  <2> QED
    BY <1>1, <1>2, StatesMove
<1>4. QED
  BY <1>2, <1>3

\* RecoverInFlight moves the rows in flight to RETRY_WAIT.
LEMMA RecoveredMoves ==
  ASSUME queue \in Seq(Operation)
  PROVE  RowsMove([o \in DOMAIN queue |-> [queue[o] EXCEPT !.state = Recovered(@)]])
<1> DEFINE q == [o \in DOMAIN queue |-> [queue[o] EXCEPT !.state = Recovered(@)]]
<1>1. DOMAIN q = DOMAIN queue /\ q = [o \in DOMAIN queue |-> q[o]]
  OBVIOUS
<1>2. ASSUME NEW o \in DOMAIN queue
      PROVE  \E s \in OpStates : /\ q[o] = [queue[o] EXCEPT !.state = s]
                                 /\ s \notin Closed => queue[o].state \notin Closed
  <2>1. queue[o].state \in OpStates
    BY RowTypes
  <2> DEFINE s == Recovered(queue[o].state)
  <2>2. s \in OpStates /\ (s \notin Closed => queue[o].state \notin Closed)
    BY <2>1 DEF Recovered, InFlight, OpStates, Closed
  <2>3. q[o] = [queue[o] EXCEPT !.state = s]
    OBVIOUS
  <2> HIDE DEF q, s
  <2>4. QED
    BY <2>2, <2>3
<1>3. RowsMove(q)
  <2> HIDE DEF q
  <2> QED
    BY <1>1, <1>2, StatesMove
<1>4. QED
  BY <1>3

\* Enqueue appends its row to what it has cancelled.
LEMMA EnqueuedRows ==
  ASSUME queue \in Seq(Operation), NEW p \in Paths, NEW stamp \in Stamps, NEW base \in Nat
  PROVE  LET q == Enqueued(p, stamp, base)
             n == Len(queue) + 1
         IN  /\ q \in Seq(Operation)
             /\ DOMAIN queue = 1..Len(queue) /\ DOMAIN q = 1..n /\ n \notin DOMAIN queue
             /\ q[n] = [path |-> p, stamp |-> stamp, base |-> base, state |-> "QUEUED"]
             /\ \A o \in DOMAIN queue : q[o] = Cancelled(p)[o]
<1> DEFINE c == Cancelled(p)
           row == [path |-> p, stamp |-> stamp, base |-> base, state |-> "QUEUED"]
<1>1. c \in Seq(Operation) /\ DOMAIN c = DOMAIN queue
  BY CancelledMoves DEF RowsMove
<1>2. row \in Operation
  BY DEF Operation, OpStates
<1>3. Enqueued(p, stamp, base) = Append(c, row)
  BY DEF Enqueued
<1>4. Len(c) = Len(queue) /\ DOMAIN queue = 1..Len(queue) /\ Len(queue) \in Nat
  BY <1>1
<1> HIDE DEF c, row
<1>5. QED
  <2>1. Append(c, row) \in Seq(Operation) /\ DOMAIN Append(c, row) = 1..(Len(c) + 1)
    BY <1>1, <1>2
  <2>2. /\ Append(c, row)[Len(c) + 1] = row
        /\ \A o \in 1..Len(c) : Append(c, row)[o] = c[o]
    BY <1>1
  <2>3. QED
    BY <1>3, <1>4, <2>1, <2>2 DEF c, row

-----------------------------------------------------------------------------
(* What a step does to the queue and to the log *)

\* The files, the counters of the model and what the scanner knows of them
\* keep their types.
ScanTypes ==
    /\ disk \in [Paths -> Stamps] /\ edits \in Stamps /\ faults \in 0..MaxFaults
    /\ seen \subseteq Paths /\ gone \subseteq Paths
    /\ scan \in [step : ScanSteps, todo : SUBSET Paths, path : SUBSET Paths,
                 old : [Paths -> Entry], new : Stamps]
    /\ entry \in [Paths -> Entry]

\* An entry is found or not, and has a version that is a number.
LEMMA EntryTypes ==
  ASSUME NEW e
  PROVE  e \in Entry <=> \E f, r \in BOOLEAN, s \in Stamps, v \in Nat :
             e = [found |-> f, present |-> r, stamp |-> s, version |-> v]
  BY DEF Entry

\* UpsertEntry writes a row of the right type.
LEMMA UpsertedTypes ==
  ASSUME entry \in [Paths -> Entry], NEW p \in Paths, NEW present \in BOOLEAN,
         NEW stamp \in Stamps, NEW version \in Nat
  PROVE  /\ Upserted(p, present, stamp, version) \in [Paths -> Entry]
         /\ Upserted(p, present, stamp, version)[p].version
               = IF version # 0 THEN version ELSE entry[p].version
         /\ \A q \in Paths \ {p} : Upserted(p, present, stamp, version)[q] = entry[q]
<1> DEFINE row == [found |-> TRUE, present |-> present, stamp |-> stamp,
                   version |-> IF version # 0 THEN version ELSE entry[p].version]
<1>1. entry[p] \in Entry /\ entry[p].version \in Nat
  BY DEF Entry
<1>2. row \in Entry
  BY <1>1 DEF Entry
<1>3. Upserted(p, present, stamp, version) = [entry EXCEPT ![p] = row]
  BY DEF Upserted
<1>4. row.version = IF version # 0 THEN version ELSE entry[p].version
  OBVIOUS
<1> HIDE DEF row
<1>5. QED
  BY <1>2, <1>3, <1>4

\* The types of the scanner's side in every step.
LEMMA ScanTypesStep ==
  ASSUME ScanTypes, [Next]_vars, work.step = "version" => work.answer \in Nat
  PROVE  ScanTypes'
<1> USE BoundsOK DEF ScanTypes, userVars, tableVars, serverVars
<1>0. /\ 0 \in Stamps /\ \A n \in Stamps : n < MaxEdits => n + 1 \in Stamps
      /\ NoFile \in Stamps /\ NoEntry \in Entry /\ NoRows \in [Paths -> Entry]
      /\ \A n \in 0..MaxFaults : n < MaxFaults => n + 1 \in 0..MaxFaults
  BY DEF Stamps, NoFile, NoEntry, Entry, NoRows
<1>s. /\ scan.old \in [Paths -> Entry] /\ scan.new \in Stamps
      /\ scan.todo \subseteq Paths /\ scan.path \subseteq Paths
      /\ \A p \in Paths : /\ scan.old[p] \in Entry /\ scan.old[p].version \in Nat
                          /\ scan.old[p].stamp \in Stamps
  BY DEF Entry
<1>1. CASE User
  BY <1>0, <1>1 DEF User, Write, Remove
<1>2. CASE UNCHANGED vars
  BY <1>2 DEF vars
<1>3. CASE Processor
  <2>1. CASE SetServerVersion
    <3>1. CASE UNCHANGED entry
      BY <2>1, <3>1 DEF SetServerVersion
    <3>2. CASE entry' = [entry EXCEPT ![queue[work.op].path].version = work.answer]
      <4>1. work.answer \in Nat
        BY <2>1 DEF SetServerVersion
      <4>2. \A p \in Paths : [entry[p] EXCEPT !.version = work.answer] \in Entry
        BY <4>1 DEF Entry
      <4>3. entry' \in [Paths -> Entry]
        BY <3>2, <4>2
      <4>4. QED
        BY <2>1, <4>3 DEF SetServerVersion
    <3>3. QED
      BY <2>1, <3>1, <3>2 DEF SetServerVersion
  <2>2. CASE ~ SetServerVersion
    BY <1>3, <2>2 DEF Processor, Start, ClaimNext, Capture, BeginUpload, Upload, SendCommit,
       ReceiveAnswer, Complete
  <2>3. QED
    BY <2>1, <2>2
<1>4. CASE Server
  BY <1>4 DEF Server, ServerCommit
<1>5. ASSUME NEW p \in Paths, MarkSeen(p), faults' \in 0..MaxFaults
      PROVE  ScanTypes'
  <2>1. \A q \in Paths : [entry[q] EXCEPT !.present = TRUE] \in Entry
    BY DEF Entry
  <2>2. entry' \in [Paths -> Entry]
    BY <1>5, <2>1 DEF MarkSeen
  <2>3. seen' \subseteq Paths
    BY <1>5 DEF MarkSeen, Marked
  <2>4. QED
    BY <1>0, <1>5, <2>2, <2>3 DEF MarkSeen, NextFile, ScanSteps
<1>6. CASE Failure
  <2>1. CASE ScanFails \/ Crash \/ CallFails \/ CommitFails
    BY <1>0, <2>1 DEF ScanFails, Crash, CallFails, CommitFails, Fault, NoScan, ScanSteps
  <2>2. ASSUME NEW p \in Paths, ScanCaptureFails(p) PROVE ScanTypes'
    BY <1>0, <1>5, <2>2 DEF ScanCaptureFails, Fault
  <2>3. QED
    BY <1>6, <2>1, <2>2 DEF Failure
<1>7. CASE Scanner
  <2>1. CASE BeginScan \/ ListMissing \/ CompleteScan
    <3>1. CASE BeginScan
      BY <1>0, <3>1 DEF BeginScan, ScanSteps
    <3>2. CASE ListMissing
      <4> DEFINE missing == {p \in Paths : entry[p].present /\ p \notin seen}
                 old == [p \in Paths |-> IF p \in missing THEN entry[p] ELSE NoEntry]
      <4>1. old \in [Paths -> Entry] /\ missing \subseteq Paths
        BY <1>0
      <4>2. scan' = [scan EXCEPT !.step = "missing", !.todo = missing, !.old = old]
        BY <3>2 DEF ListMissing
      <4> HIDE DEF missing, old
      <4>3. QED
        BY <3>2, <4>1, <4>2 DEF ListMissing, ScanSteps
    <3>3. CASE CompleteScan
      BY <1>0, <3>3 DEF CompleteScan, NoScan, ScanSteps
    <3>4. QED
      BY <2>1, <3>1, <3>2, <3>3
  <2>2. ASSUME NEW p \in Paths, WalkPast(p) \/ ReadEntry(p) \/ ScanCapture(p)
        PROVE  ScanTypes'
    <3>1. CASE WalkPast(p)
      BY <3>1 DEF WalkPast
    <3>2. CASE ReadEntry(p)
      <4> DEFINE old == [scan.old EXCEPT ![p] = entry[p]]
      <4>1. old \in [Paths -> Entry]
        BY <1>s
      <4>2. scan' = [scan EXCEPT !.step = "capture", !.todo = @ \ {p}, !.path = {p}, !.old = old]
        BY <3>2 DEF ReadEntry
      <4>3. UNCHANGED <<disk, edits, faults, entry, seen, gone>>
        BY <3>2 DEF ReadEntry
      <4> HIDE DEF old
      <4>4. QED
        BY <4>1, <4>2, <4>3 DEF ScanSteps
    <3>3. CASE ScanCapture(p)
      <4>1. PICK step \in ScanSteps : scan' = [scan EXCEPT !.new = disk[p], !.step = step]
        BY <3>3 DEF ScanCapture, FirstWrite, ScanSteps
      <4>2. QED
        BY <3>3, <4>1 DEF ScanCapture
    <3>4. QED
      BY <2>2, <3>1, <3>2, <3>3
  <2>3. ASSUME NEW p \in Paths, ScanMissesFile(p) PROVE ScanTypes'
    BY <1>5, <2>3 DEF ScanMissesFile
  <2>4. ASSUME NEW p \in Paths, UpsertSame(p) \/ UpsertChange(p) PROVE ScanTypes'
    <3>1. entry' \in [Paths -> Entry] /\ seen' \subseteq Paths
      <4>1. PICK stamp \in Stamps : entry' = Upserted(p, TRUE, stamp, scan.old[p].version)
        BY <1>s, <2>4 DEF UpsertSame, UpsertChange
      <4>2. Upserted(p, TRUE, stamp, scan.old[p].version) \in [Paths -> Entry]
        BY <1>s, UpsertedTypes
      <4>3. QED
        BY <2>4, <4>1, <4>2 DEF UpsertSame, UpsertChange
    <3>2. scan' \in {NextFile, AfterWrite("upsert")}
      BY <2>4 DEF UpsertSame, UpsertChange
    <3>3. SecondWrite \in ScanSteps
      BY DEF SecondWrite, FirstWrite, ScanSteps
    <3>4. scan' \in [step : ScanSteps, todo : SUBSET Paths, path : SUBSET Paths,
                     old : [Paths -> Entry], new : Stamps]
      BY <1>0, <3>2, <3>3 DEF NextFile, AfterWrite, ScanSteps
    <3>5. QED
      BY <2>4, <3>1, <3>4 DEF UpsertSame, UpsertChange
  <2>5. ASSUME NEW p \in Paths, EnqueueChange(p) PROVE ScanTypes'
    <3>1. SecondWrite \in ScanSteps
      BY DEF SecondWrite, FirstWrite, ScanSteps
    <3>2. QED
      BY <1>0, <2>5, <3>1 DEF EnqueueChange, AfterWrite, NextFile, ScanSteps
  <2>6. ASSUME NEW p \in Paths, CancelOrEnqueueDelete(p) PROVE ScanTypes'
    BY <2>6 DEF CancelOrEnqueueDelete, ScanSteps
  <2>7. ASSUME NEW p \in Paths, UpsertMissing(p) PROVE ScanTypes'
    <3>1. entry' \in [Paths -> Entry] /\ seen' \subseteq Paths
      BY <1>0, <1>s, <2>7, UpsertedTypes DEF UpsertMissing
    <3>2. QED
      BY <1>0, <2>7, <3>1 DEF UpsertMissing, ScanSteps
  <2>8. QED
    BY <1>7, <2>1, <2>2, <2>3, <2>4, <2>5, <2>6, <2>7 DEF Scanner
<1>8. QED
  BY <1>1, <1>2, <1>3, <1>4, <1>6, <1>7 DEF Next

\* The rows, and what the processor and the network hold of them.
WorkTypes ==
    /\ queue \in Seq(Operation)
    /\ work \in [step : Steps \cup {"down", "idle"}, op : Nat, answer : Nat \cup {Conflict}]
    /\ work.step \in Steps => work.op \in DOMAIN queue
    /\ work.step \in {"version", "complete"} => work.answer \in Nat \ {0}
    /\ network \subseteq DOMAIN queue
    /\ log \in Seq(Version) /\ \A i \in DOMAIN log : log[i].op \in DOMAIN queue

\* What a step does to the rows and to the processor, but for Enqueue and
\* Commit: it moves rows, goes on with the same operation, or ends.
Proceeds ==
    /\ RowsMove(queue')
    /\ \/ work' = work
       \/ /\ work.step \in Steps
          /\ \E step \in Steps :
                /\ work' = [work EXCEPT !.step = step]
                /\ step \in {"version", "complete"} => work.answer > 0
       \/ /\ work' \in [step : {"capture", "idle", "down"}, op : Nat, answer : {0}]
          /\ (work'.step = "capture" => work'.op \in DOMAIN queue)

\* Enqueue adds an operation based on what the scanner has read.
Queues(p, stamp) ==
    /\ queue' = Enqueued(p, stamp, scan.old[p].version)
    /\ UNCHANGED <<entry, work, network, log>>

\* A state that the processor believes in is not closed.
LEMMA BelievedOpen ==
  ASSUME WorkTypes, work.step \in Steps
  PROVE  Believed \notin Closed /\ \A step \in Steps : StepState[step] \in OpStates
  BY DEF WorkTypes, Believed, StepState, Steps, Closed, OpStates

\* Giving up moves at most the row in hand, and forgets it.
LEMMA GivesUpProceeds ==
  ASSUME WorkTypes, work.step \in Steps, NEW to \in OpStates, GivesUp(to)
  PROVE  Proceeds
<1>1. RowsMove(queue')
  BY MovedMoves, BelievedOpen DEF GivesUp, WorkTypes
<1>2. QED
  BY <1>1 DEF Proceeds, GivesUp, Idle, NoOp

\* Going on moves at most the row in hand.
LEMMA GoesOnProceeds ==
  ASSUME WorkTypes, work.step \in Steps, NEW step \in Steps, GoesOn(step),
         step \in {"version", "complete"} => work.answer > 0
  PROVE  Proceeds
<1>1. RowsMove(queue')
  BY MovedMoves, BelievedOpen DEF GoesOn, WorkTypes
<1>2. work' = [work EXCEPT !.step = step] \/ work' = Idle
  BY DEF GoesOn
<1>3. CASE work' = Idle
  BY <1>1, <1>3 DEF Proceeds, Idle, NoOp
<1>4. CASE work' = [work EXCEPT !.step = step]
  BY <1>1, <1>4 DEF Proceeds
<1>5. QED
  BY <1>2, <1>3, <1>4

\* A row that nothing is done to has moved.
LEMMA RowsStay == ASSUME WorkTypes, UNCHANGED queue PROVE RowsMove(queue')
  BY DEF WorkTypes, RowsMove

\* Each step of the agent proceeds or queues an operation.
LEMMA RowStep ==
  ASSUME ScanTypes, WorkTypes, [Next]_vars
  PROVE  \/ Proceeds
         \/ \E p \in Paths, stamp \in Stamps : Queues(p, stamp)
         \/ \E o \in network : ServerCommit(o)
<1> USE DEF tableVars, userVars, serverVars
<1>0. ASSUME UNCHANGED <<queue, work>> PROVE Proceeds
  BY <1>0, RowsStay DEF Proceeds
<1>1. CASE User
  BY <1>0, <1>1 DEF User, Write, Remove
<1>2. CASE UNCHANGED vars
  BY <1>0, <1>2 DEF vars
<1>3. CASE Server
  BY <1>3 DEF Server
<1>t. "RETRY_WAIT" \in OpStates /\ "BLOCKED" \in OpStates /\ "COMPLETED" \in OpStates
      /\ Steps = {"capture", "begin", "upload", "commit", "await", "version", "complete"}
  BY DEF OpStates, Steps
<1>4. CASE Processor
  <2>1. CASE Start
    <3>1. RowsMove(queue')
      BY <2>1, RecoveredMoves DEF Start, WorkTypes
    <3>2. QED
      BY <2>1, <3>1 DEF Start, Proceeds, Idle, NoOp
  <2>2. ASSUME NEW o \in DOMAIN queue, ClaimNext(o) PROVE Proceeds
    <3>1. queue' = Moved(o, queue[o].state, "RESERVING")
      BY <2>2 DEF ClaimNext, Moved
    <3>2. queue[o].state \notin Closed /\ "RESERVING" \in OpStates
      BY <2>2 DEF ClaimNext, Due, Claimable, Closed, OpStates
    <3>3. RowsMove(queue')
      BY <3>1, <3>2, MovedMoves DEF WorkTypes
    <3>4. o \in Nat
      BY DEF WorkTypes
    <3>5. QED
      BY <2>2, <3>3, <3>4 DEF ClaimNext, Proceeds
  <2>3. CASE Capture
    BY <1>t, <2>3, GoesOnProceeds, GivesUpProceeds DEF Capture
  <2>4. CASE BeginUpload \/ Upload
    BY <1>t, <2>4, GoesOnProceeds, GivesUpProceeds DEF BeginUpload, Upload
  <2>5. CASE SendCommit
    BY <1>t, <2>5, RowsStay DEF SendCommit, Proceeds
  <2>6. CASE ReceiveAnswer
    BY <1>t, <2>6, GoesOnProceeds, GivesUpProceeds DEF ReceiveAnswer, Committed
  <2>7. CASE SetServerVersion
    <3>1. work.answer > 0
      BY <2>7 DEF SetServerVersion, WorkTypes
    <3>2. QED
      BY <1>t, <2>7, <3>1, GoesOnProceeds, GivesUpProceeds DEF SetServerVersion
  <2>8. CASE Complete
    BY <1>t, <2>8, GivesUpProceeds DEF Complete
  <2>9. QED
    BY <1>4, <2>1, <2>2, <2>3, <2>4, <2>5, <2>6, <2>7, <2>8 DEF Processor
<1>5. CASE Failure
  <2>1. CASE CallFails \/ CommitFails
    BY <1>t, <2>1, GivesUpProceeds DEF CallFails, CommitFails
  <2>2. CASE Crash
    BY <2>2, RowsStay DEF Crash, Proceeds, Idle, NoOp
  <2>3. CASE ScanFails \/ \E p \in Paths : ScanCaptureFails(p)
    BY <1>0, <2>3 DEF ScanFails, ScanCaptureFails, MarkSeen
  <2>4. QED
    BY <1>5, <2>1, <2>2, <2>3 DEF Failure
<1>6. CASE Scanner
  <2>1. ASSUME NEW p \in Paths, EnqueueChange(p)
        PROVE  \E stamp \in Stamps : Queues(p, stamp)
    BY <2>1 DEF EnqueueChange, Queues, ScanTypes
  <2>2. ASSUME NEW p \in Paths, CancelOrEnqueueDelete(p)
        PROVE  Proceeds \/ \E stamp \in Stamps : Queues(p, stamp)
    <3>1. CASE scan.old[p].version = 0
      <4>1. RowsMove(queue')
        BY <2>2, <3>1, CancelledMoves DEF CancelOrEnqueueDelete, WorkTypes
      <4>2. QED
        BY <2>2, <4>1 DEF CancelOrEnqueueDelete, Proceeds
    <3>2. CASE scan.old[p].version # 0
      <4>1. NoFile \in Stamps
        BY BoundsOK DEF NoFile, Stamps
      <4>2. QED
        BY <2>2, <3>2, <4>1 DEF CancelOrEnqueueDelete, Queues
    <3>3. QED
      BY <3>1, <3>2
  <2>3. CASE BeginScan \/ ListMissing \/ CompleteScan
    BY <1>0, <2>3 DEF BeginScan, ListMissing, CompleteScan
  <2>4. ASSUME NEW p \in Paths,
               \/ WalkPast(p) \/ ReadEntry(p) \/ ScanCapture(p) \/ ScanMissesFile(p)
               \/ UpsertSame(p) \/ UpsertChange(p) \/ UpsertMissing(p)
        PROVE  Proceeds
    BY <1>0, <2>4 DEF WalkPast, ReadEntry, ScanCapture, ScanMissesFile, MarkSeen, UpsertSame,
       UpsertChange, UpsertMissing
  <2>5. QED
    BY <1>6, <2>1, <2>2, <2>3, <2>4 DEF Scanner
<1>7. QED
  BY <1>1, <1>2, <1>3, <1>4, <1>5, <1>6 DEF Next

\* Only the server writes the log; the rest of a step sends at most the
\* operation in hand.
LEMMA LogStep ==
  ASSUME [Next]_vars
  PROVE  \/ UNCHANGED log /\ network' \subseteq network
            \cup (IF work.step = "commit" THEN {work.op} ELSE {})
         \/ \E o \in network : ServerCommit(o)
<1> USE DEF tableVars, userVars, serverVars
<1>1. CASE User \/ UNCHANGED vars
  BY <1>1 DEF User, Write, Remove, vars
<1>2. CASE Server
  BY <1>2 DEF Server
<1>3. CASE Processor
  BY <1>3 DEF Processor, Start, ClaimNext, Capture, BeginUpload, Upload, SendCommit, ReceiveAnswer,
     SetServerVersion, Complete
<1>4. CASE Failure
  BY <1>4 DEF Failure, CallFails, CommitFails, Crash, ScanFails, ScanCaptureFails, MarkSeen
<1>5. CASE Scanner
  BY <1>5 DEF Scanner, BeginScan, ListMissing, CompleteScan, WalkPast, ReadEntry, ScanCapture,
     ScanMissesFile, MarkSeen, UpsertSame, EnqueueChange, UpsertChange, CancelOrEnqueueDelete, UpsertMissing
<1>6. QED
  BY <1>1, <1>2, <1>3, <1>4, <1>5 DEF Next

\* A server version moves between the entry and the scanner, and comes from the
\* answer to a commit.
LEMMA VersionStep ==
  ASSUME ScanTypes, WorkTypes, [Next]_vars, NEW p \in Paths
  PROVE  /\ \/ entry'[p].version \in {entry[p].version, scan.old[p].version}
            \/ work.step = "version" /\ p = queue[work.op].path /\ entry'[p].version = work.answer
         /\ scan'.old[p].version \in {scan.old[p].version, entry[p].version, 0}
<1> DEFINE G == /\ \/ entry'[p].version \in {entry[p].version, scan.old[p].version}
                   \/ work.step = "version" /\ p = queue[work.op].path /\ entry'[p].version = work.answer
                /\ scan'.old[p].version \in {scan.old[p].version, entry[p].version, 0}
<1> USE DEF tableVars, userVars, serverVars
<1>0. /\ NoRows[p].version = 0 /\ NoEntry.version = 0
      /\ \A q \in Paths : scan.old[q].version \in Nat /\ scan.old[q].stamp \in Stamps
      /\ scan.new \in Stamps /\ NoFile \in Stamps
      /\ entry \in [Paths -> Entry] /\ scan.old \in [Paths -> Entry]
      /\ scan \in [step : ScanSteps, todo : SUBSET Paths, path : SUBSET Paths,
                   old : [Paths -> Entry], new : Stamps]
  BY BoundsOK DEF NoRows, NoEntry, ScanTypes, Entry, NoFile, Stamps
<1>1. ASSUME UNCHANGED <<entry, scan>> PROVE G
  BY <1>1
<1>2. CASE User \/ UNCHANGED vars \/ Server
  BY <1>1, <1>2 DEF User, Write, Remove, vars, Server, ServerCommit
<1>3. CASE Processor
  <2>1. CASE SetServerVersion
    <3>1. CASE UNCHANGED entry
      BY <1>1, <2>1, <3>1 DEF SetServerVersion
    <3>2. CASE entry' = [entry EXCEPT ![queue[work.op].path].version = work.answer]
      <4>1. \A q \in Paths : [entry[q] EXCEPT !.version = work.answer].version = work.answer
        BY <1>0 DEF Entry
      <4>2. entry'[p].version = IF p = queue[work.op].path THEN work.answer ELSE entry[p].version
        BY <1>0, <3>2, <4>1
      <4>3. UNCHANGED scan /\ work.step = "version"
        BY <2>1 DEF SetServerVersion
      <4>4. QED
        BY <4>2, <4>3
    <3>3. QED
      BY <2>1, <3>1, <3>2 DEF SetServerVersion
  <2>2. CASE ~ SetServerVersion
    BY <1>1, <1>3, <2>2 DEF Processor, Start, ClaimNext, Capture, BeginUpload, Upload, SendCommit,
       ReceiveAnswer, Complete
  <2>3. QED
    BY <2>1, <2>2
<1>4. ASSUME NEW q \in Paths, MarkSeen(q) PROVE G
  <2>1. entry'[p].version = entry[p].version
    BY <1>0, <1>4 DEF MarkSeen, Entry
  <2>2. scan'.old[p].version = 0
    BY <1>0, <1>4 DEF MarkSeen, NextFile
  <2>3. QED
    BY <2>1, <2>2
<1>5. ASSUME UNCHANGED entry, scan' = NoScan PROVE G
  BY <1>0, <1>5 DEF NoScan
<1>6. CASE Failure
  <2>1. CASE CallFails \/ CommitFails
    BY <1>1, <2>1 DEF CallFails, CommitFails
  <2>2. CASE ScanFails \/ Crash
    BY <1>5, <2>2 DEF ScanFails, Crash
  <2>3. QED
    BY <1>4, <1>6, <2>1, <2>2 DEF Failure, ScanCaptureFails
<1>7. CASE Scanner
  <2>1. ASSUME NEW q \in Paths, UpsertSame(q) \/ UpsertChange(q) \/ UpsertMissing(q) PROVE G
    <3>1. PICK present \in BOOLEAN, stamp \in Stamps :
            entry' = Upserted(q, present, stamp, scan.old[q].version)
      <4>1. UpsertSame(q) => entry' = Upserted(q, TRUE, scan.old[q].stamp, scan.old[q].version)
        BY DEF UpsertSame
      <4>2. UpsertChange(q) => entry' = Upserted(q, TRUE, scan.new, scan.old[q].version)
        BY DEF UpsertChange
      <4>3. UpsertMissing(q) => entry' = Upserted(q, FALSE, NoFile, scan.old[q].version)
        BY DEF UpsertMissing
      <4>4. QED
        BY <1>0, <2>1, <4>1, <4>2, <4>3
    <3>2. entry'[p].version \in {entry[p].version, scan.old[p].version}
      <4>1. CASE p = q
        BY <1>0, <3>1, <4>1, UpsertedTypes
      <4>2. CASE p # q
        BY <1>0, <3>1, <4>2, UpsertedTypes
      <4>3. QED
        BY <4>1, <4>2
    <3>3. scan'.old[p].version \in {scan.old[p].version, 0}
      <4>1. CASE UpsertSame(q) \/ UpsertChange(q)
        BY <1>0, <4>1 DEF UpsertSame, UpsertChange, AfterWrite, NextFile
      <4>2. CASE UpsertMissing(q)
        BY <1>0, <4>2 DEF UpsertMissing
      <4>3. QED
        BY <2>1, <4>1, <4>2
    <3>4. QED
      BY <3>2, <3>3
  <2>2. ASSUME NEW q \in Paths, EnqueueChange(q) \/ CancelOrEnqueueDelete(q) \/ WalkPast(q)
                                \/ ScanCapture(q)
        PROVE  G
    <3>1. UNCHANGED entry
      BY <2>2 DEF EnqueueChange, CancelOrEnqueueDelete, WalkPast, ScanCapture
    <3>2. scan'.old \in {scan.old, NoRows}
      BY <1>0, <2>2 DEF EnqueueChange, CancelOrEnqueueDelete, WalkPast, ScanCapture, AfterWrite, NextFile
    <3>3. QED
      BY <1>0, <3>1, <3>2
  <2>3. ASSUME NEW q \in Paths, ReadEntry(q) PROVE G
    <3>1. UNCHANGED entry
      BY <2>3 DEF ReadEntry
    <3>2. scan'.old = [scan.old EXCEPT ![q] = entry[q]]
      BY <1>0, <2>3 DEF ReadEntry
    <3>3. QED
      BY <1>0, <3>1, <3>2
  <2>4. CASE BeginScan
    BY <1>0, <2>4 DEF BeginScan
  <2>5. CASE ListMissing
    <3>1. UNCHANGED entry
      BY <2>5 DEF ListMissing
    <3>2. scan'.old[p] \in {entry[p], NoEntry}
      BY <1>0, <2>5 DEF ListMissing
    <3>3. QED
      BY <1>0, <3>1, <3>2
  <2>6. CASE CompleteScan
    BY <1>5, <2>6 DEF CompleteScan
  <2>7. QED
    BY <1>4, <1>7, <2>1, <2>2, <2>3, <2>4, <2>5, <2>6 DEF Scanner, ScanMissesFile
<1>8. QED
  BY <1>2, <1>3, <1>6, <1>7 DEF Next

-----------------------------------------------------------------------------
(* The versions that the agent knows of *)

\* v is no version, or one of the path p.
Known(p, v) == v # 0 => v \in DOMAIN log /\ log[v].path = p

\* A server version that the agent has written down, or has in hand, is one
\* of its path.
VersionsKnown ==
    /\ \A p \in Paths : Known(p, entry[p].version) /\ Known(p, scan.old[p].version)
    /\ work.answer > 0 => work.op \in DOMAIN queue /\ Known(queue[work.op].path, work.answer)

\* A version is of the path of its operation; an operation is based on a version of its
\* path that an earlier operation has made.
HistoryKnown ==
    /\ \A i \in DOMAIN log : log[i].path = queue[log[i].op].path
    /\ \A o \in DOMAIN queue :
          /\ Known(queue[o].path, queue[o].base)
          /\ queue[o].base # 0 => log[queue[o].base].op < o

\* A path without a newest version has none.
NewestExists ==
    \A p \in Paths : \A i \in DOMAIN log : log[i].path = p =>
        \E n \in DOMAIN log : log[n].path = p /\ \A j \in DOMAIN log : log[j].path = p => j <= n

AgentInv ==
    /\ ScanTypes /\ WorkTypes
    /\ VersionsKnown /\ HistoryKnown /\ NewestExists /\ NewestWins

\* The head of a path, to the server, is its newest version.
LEMMA HeadIsNewest ==
  ASSUME NewestExists, log \in Seq(Version), NEW p \in Paths
  PROVE  /\ ServerHead(p) = 0 => \A i \in DOMAIN log : log[i].path # p
         /\ ServerHead(p) # 0 => /\ ServerHead(p) \in DOMAIN log /\ log[ServerHead(p)].path = p
                                 /\ \A j \in DOMAIN log : log[j].path = p => j <= ServerHead(p)
<1> DEFINE versions == {i \in DOMAIN log : log[i].path = p}
<1>1. CASE versions = {}
  BY <1>1 DEF ServerHead
<1>2. CASE versions # {}
  <2>1. PICK n \in DOMAIN log : log[n].path = p /\ \A j \in DOMAIN log : log[j].path = p => j <= n
    BY <1>2 DEF NewestExists
  <2>2. n \in versions /\ \A j \in versions : j <= n
    BY <2>1
  <2>3. ServerHead(p) = CHOOSE i \in versions : \A j \in versions : j <= i
    BY <1>2 DEF ServerHead
  <2>4. ServerHead(p) \in versions /\ \A j \in versions : j <= ServerHead(p)
    BY <2>2, <2>3
  <2>5. 0 \notin DOMAIN log
    OBVIOUS
  <2>6. QED
    BY <2>4, <2>5
<1>3. QED
  BY <1>1, <1>2

\* The log with a new version.
LEMMA AppendedLog ==
  ASSUME log \in Seq(Version), NEW new \in Version
  PROVE  /\ Append(log, new) \in Seq(Version)
         /\ DOMAIN log = 1..Len(log) /\ Len(log) \in Nat
         /\ DOMAIN Append(log, new) = 1..(Len(log) + 1)
         /\ Append(log, new)[Len(log) + 1] = new
         /\ \A i \in DOMAIN log : Append(log, new)[i] = log[i]
         /\ \A i \in DOMAIN Append(log, new) :
               \/ i = Len(log) + 1 /\ Append(log, new)[i] = new
               \/ i \in DOMAIN log /\ Append(log, new)[i] = log[i]
  OBVIOUS

\* What Commit does: it answers a request with the version of the operation,
\* a new one on top of the head if there is none, or with a conflict.
LEMMA CommitAnswers ==
  ASSUME AgentInv, NEW o \in network, ServerCommit(o)
  PROVE  /\ UNCHANGED <<queue, entry, scan>> /\ network' \subseteq network
         /\ \/ UNCHANGED log
            \/ /\ BaseOf(o) = ServerHead(queue[o].path)
               /\ log' = Append(log, [path |-> queue[o].path, stamp |-> queue[o].stamp, op |-> o])
         /\ \/ work' = work
            \/ /\ work.step = "await" /\ work.op = o
               /\ \E a \in Nat \cup {Conflict} :
                     /\ work' = [work EXCEPT !.answer = a]
                     /\ a > 0 => /\ a \in DOMAIN log' /\ log'[a].path = queue[o].path
                                 /\ log'[a].op = o
<1> DEFINE done == {i \in DOMAIN log : log[i].op = o}
           accepted == done = {} /\ BaseOf(o) = ServerHead(queue[o].path)
           version == [path |-> queue[o].path, stamp |-> queue[o].stamp, op |-> o]
           answer == IF accepted THEN Len(log) + 1
                     ELSE IF done # {} THEN CHOOSE i \in done : TRUE ELSE Conflict
<1>t. /\ log \in Seq(Version)
      /\ o \in DOMAIN queue
      /\ \A i \in DOMAIN log : log[i].path = queue[log[i].op].path
  BY DEF AgentInv, WorkTypes, HistoryKnown
<1>1. /\ UNCHANGED <<queue, entry, scan>> /\ network' \subseteq network
      /\ log' = IF accepted THEN Append(log, version) ELSE log
      /\ work' = IF work.step = "await" /\ work.op = o THEN [work EXCEPT !.answer = answer] ELSE work
  BY DEF ServerCommit, tableVars
<1>2. CASE accepted
  <2>1. log' = Append(log, version) /\ answer = Len(log) + 1
    BY <1>1, <1>2
  <2>2. answer \in Nat
    BY <1>t, <2>1
  <2>3. Append(log, version)[Len(log) + 1] = version /\ Len(log) + 1 \in DOMAIN Append(log, version)
    BY <1>t
  <2>4. answer \in DOMAIN log' /\ log'[answer].path = queue[o].path /\ log'[answer].op = o
    BY <2>1, <2>3
  <2> HIDE DEF answer
  <2>5. QED
    BY <1>1, <1>2, <2>1, <2>2, <2>4
<1>3. CASE ~ accepted /\ done # {}
  <2>1. answer \in done
    BY <1>3
  <2>2. answer \in DOMAIN log /\ log[answer].path = queue[o].path /\ log[answer].op = o
    BY <1>t, <2>1
  <2>3. log' = log
    BY <1>1, <1>3
  <2>4. answer \in Nat
    BY <1>t, <2>2
  <2> HIDE DEF answer
  <2>5. QED
    BY <1>1, <2>2, <2>3, <2>4
<1>4. CASE ~ accepted /\ done = {}
  <2>1. answer = Conflict /\ log' = log /\ ~ (Conflict > 0)
    BY <1>1, <1>4 DEF Conflict
  <2> HIDE DEF answer
  <2>2. QED
    BY <1>1, <2>1
<1>5. QED
  BY <1>2, <1>3, <1>4

-----------------------------------------------------------------------------
(* The invariant *)

\* The rows of a later state: the old ones with what they were queued with, and
\* new ones based on a version that is known.
RowsGrow ==
    /\ queue' \in Seq(Operation)
    /\ \A o \in DOMAIN queue :
          /\ o \in DOMAIN queue'
          /\ queue'[o].path = queue[o].path /\ queue'[o].base = queue[o].base
          /\ queue'[o].stamp = queue[o].stamp
    /\ \A o \in DOMAIN queue' \ DOMAIN queue :
          /\ \A q \in DOMAIN queue : q < o
          /\ Known(queue'[o].path, queue'[o].base)

\* Both what ProcessNext and what Enqueue do to the rows makes them grow.
LEMMA GrowingRows ==
  ASSUME AgentInv, Proceeds \/ \E p \in Paths, stamp \in Stamps : Queues(p, stamp)
  PROVE  RowsGrow
<1>1. CASE Proceeds
  BY <1>1 DEF Proceeds, RowsMove, RowsGrow
<1>2. ASSUME NEW p \in Paths, NEW stamp \in Stamps, Queues(p, stamp)
      PROVE  RowsGrow
  <2> DEFINE base == scan.old[p].version
             n == Len(queue) + 1
  <2>1. base \in Nat /\ Known(p, base) /\ queue \in Seq(Operation)
    BY DEF AgentInv, ScanTypes, VersionsKnown, Entry, WorkTypes
  <2>2. queue' = Enqueued(p, stamp, base)
    BY <1>2 DEF Queues
  <2> HIDE DEF base
  <2>3. /\ queue' \in Seq(Operation)
        /\ DOMAIN queue = 1..Len(queue) /\ DOMAIN queue' = 1..n /\ n \notin DOMAIN queue
        /\ queue'[n] = [path |-> p, stamp |-> stamp, base |-> base, state |-> "QUEUED"]
        /\ \A o \in DOMAIN queue : queue'[o] = Cancelled(p)[o]
    BY <2>1, <2>2, EnqueuedRows
  <2>4. RowsMove(Cancelled(p))
    BY <2>1, CancelledMoves
  <2>5. \A o \in DOMAIN queue : /\ queue'[o].path = queue[o].path /\ queue'[o].base = queue[o].base
                               /\ queue'[o].stamp = queue[o].stamp
    BY <2>3, <2>4 DEF RowsMove
  <2>6. \A o \in DOMAIN queue' \ DOMAIN queue : o = n
    BY <2>1, <2>3
  <2>7. \A q \in DOMAIN queue : q < n
    BY <2>1, <2>3
  <2>8. Known(queue'[n].path, queue'[n].base) /\ \A o \in DOMAIN queue : o \in DOMAIN queue'
    BY <2>1, <2>3
  <2> HIDE DEF n
  <2>9. QED
    BY <2>3, <2>5, <2>6, <2>7, <2>8 DEF RowsGrow
<1>3. QED
  BY <1>1, <1>2

\* The types of rows, processor, network and log in every step.
LEMMA WorkTypesStep ==
  ASSUME AgentInv, [Next]_vars
  PROVE  WorkTypes'
<1>t. WorkTypes /\ ScanTypes /\ \A o \in DOMAIN queue : o \in Nat
  BY DEF AgentInv, WorkTypes
<1>1. ASSUME NEW o \in network, ServerCommit(o)
      PROVE  WorkTypes'
  <2> DEFINE new == [path |-> queue[o].path, stamp |-> queue[o].stamp, op |-> o]
  <2>1. queue' = queue /\ network' \subseteq network /\ (log' = log \/ log' = Append(log, new))
    BY <1>1, CommitAnswers
  <2>2. /\ o \in DOMAIN queue /\ o \in Nat
        /\ queue[o].path \in Paths /\ queue[o].stamp \in Stamps
    BY <1>t, RowTypes DEF WorkTypes
  <2>3. new \in Version /\ new.op = o
    BY <2>2 DEF Version
  <2> HIDE DEF new
  <2>4. log' \in Seq(Version) /\ \A i \in DOMAIN log' : log'[i].op \in DOMAIN queue
    <3>1. log \in Seq(Version) /\ \A i \in DOMAIN log : log[i].op \in DOMAIN queue
      BY <1>t DEF WorkTypes
    <3>2. QED
      BY <2>1, <2>2, <2>3, <3>1, AppendedLog
  <2>5. work' = work \/ (work.step = "await" /\ \E a \in Nat \cup {Conflict} : work' = [work EXCEPT !.answer = a])
    BY <1>1, CommitAnswers
  <2>6. CASE work' = work
    BY <1>t, <2>1, <2>4, <2>6 DEF WorkTypes
  <2>7. ASSUME NEW a \in Nat \cup {Conflict}, work.step = "await", work' = [work EXCEPT !.answer = a]
        PROVE  WorkTypes'
    <3>1. work' \in [step : Steps \cup {"down", "idle"}, op : Nat, answer : Nat \cup {Conflict}]
      BY <1>t, <2>7 DEF WorkTypes
    <3>2. work'.step = "await" /\ work'.op = work.op /\ work.op \in DOMAIN queue
      BY <1>t, <2>7 DEF WorkTypes, Steps
    <3>3. QED
      BY <1>t, <2>1, <2>4, <3>1, <3>2 DEF WorkTypes
  <2>8. QED
    BY <2>5, <2>6, <2>7
<1>2. ASSUME ~ \E o \in network : ServerCommit(o)
      PROVE  WorkTypes'
  <2>1. /\ Proceeds \/ \E p \in Paths, stamp \in Stamps : Queues(p, stamp)
        /\ log' = log
        /\ network' \subseteq network \cup (IF work.step = "commit" THEN {work.op} ELSE {})
    BY <1>t, <1>2, RowStep, LogStep
  <2>2. RowsGrow
    BY <2>1, GrowingRows
  <2>3. queue' \in Seq(Operation) /\ DOMAIN queue \subseteq DOMAIN queue'
    BY <2>2 DEF RowsGrow
  <2>4. network' \subseteq DOMAIN queue'
    BY <1>t, <2>1, <2>3 DEF WorkTypes, Steps
  <2>5. log' \in Seq(Version) /\ \A i \in DOMAIN log' : log'[i].op \in DOMAIN queue'
    BY <1>t, <2>1, <2>3 DEF WorkTypes
  <2>6. /\ work' \in [step : Steps \cup {"down", "idle"}, op : Nat, answer : Nat \cup {Conflict}]
        /\ work'.step \in Steps => work'.op \in DOMAIN queue'
        /\ work'.step \in {"version", "complete"} => work'.answer \in Nat \ {0}
    <3>1. CASE work' = work
      BY <1>t, <2>3, <3>1 DEF WorkTypes
    <3>2. ASSUME NEW step \in Steps, work' = [work EXCEPT !.step = step],
                 step \in {"version", "complete"} => work.answer > 0, work.step \in Steps
          PROVE  <2>6!1 /\ <2>6!2 /\ <2>6!3
      <4>1. /\ work \in [step : Steps \cup {"down", "idle"}, op : Nat, answer : Nat \cup {Conflict}]
            /\ work.op \in DOMAIN queue
        BY <1>t, <3>2 DEF WorkTypes
      <4>2. /\ work' \in [step : Steps \cup {"down", "idle"}, op : Nat, answer : Nat \cup {Conflict}]
            /\ work'.op = work.op /\ work'.answer = work.answer /\ work'.step = step
        BY <3>2, <4>1
      <4>3. work.answer > 0 => work.answer \in Nat \ {0}
        BY <4>1 DEF Conflict
      <4>4. QED
        BY <2>3, <3>2, <4>1, <4>2, <4>3
    <3>3. CASE /\ work' \in [step : {"capture", "idle", "down"}, op : Nat, answer : {0}]
               /\ (work'.step = "capture" => work'.op \in DOMAIN queue)
      BY <2>3, <3>3 DEF Steps
    <3>4. QED
      BY <2>1, <3>1, <3>2, <3>3 DEF Proceeds, Queues
  <2>7. QED
    BY <2>3, <2>4, <2>5, <2>6 DEF WorkTypes
<1>3. QED
  BY <1>1, <1>2

\* What a later state shares with this one: the log has only grown and the rows
\* keep what they were queued with.
LEMMA Growth ==
  ASSUME AgentInv, [Next]_vars
  PROVE  /\ \A i \in DOMAIN log : i \in DOMAIN log' /\ log'[i] = log[i]
         /\ RowsGrow
<1>t. queue \in Seq(Operation) /\ log \in Seq(Version) /\ WorkTypes /\ ScanTypes
  BY DEF AgentInv, WorkTypes
<1>1. ASSUME NEW o \in network, ServerCommit(o)
      PROVE  /\ \A i \in DOMAIN log : i \in DOMAIN log' /\ log'[i] = log[i]
             /\ RowsGrow
  <2> DEFINE new == [path |-> queue[o].path, stamp |-> queue[o].stamp, op |-> o]
  <2>1. queue' = queue /\ (log' = log \/ log' = Append(log, new))
    BY <1>1, CommitAnswers
  <2>2. o \in DOMAIN queue /\ o \in Nat /\ queue[o].path \in Paths /\ queue[o].stamp \in Stamps
    BY <1>t, RowTypes DEF WorkTypes
  <2>3. new \in Version
    BY <2>2 DEF Version
  <2> HIDE DEF new
  <2>4. \A i \in DOMAIN log : i \in DOMAIN log' /\ log'[i] = log[i]
    <3>1. CASE log' = log
      BY <3>1
    <3>2. CASE log' = Append(log, new)
      BY <1>t, <2>3, <3>2, AppendedLog
    <3>3. QED
      BY <2>1, <3>1, <3>2
  <2>5. QED
    BY <1>t, <2>1, <2>4 DEF RowsGrow
<1>2. ASSUME ~ \E o \in network : ServerCommit(o)
      PROVE  /\ \A i \in DOMAIN log : i \in DOMAIN log' /\ log'[i] = log[i]
             /\ RowsGrow
  BY <1>t, <1>2, RowStep, LogStep, GrowingRows
<1>3. QED
  BY <1>1, <1>2

\* The agent keeps knowing only versions of the path they are for.
LEMMA VersionsKnownStep ==
  ASSUME AgentInv, [Next]_vars
  PROVE  VersionsKnown'
<1>t. ScanTypes /\ WorkTypes /\ VersionsKnown
  BY DEF AgentInv
<1>g. /\ \A i \in DOMAIN log : i \in DOMAIN log' /\ log'[i] = log[i]
      /\ RowsGrow
  BY Growth
<1>k. \A p, v : Known(p, v) => Known(p, v)'
  BY <1>g DEF Known
<1>1. \A p \in Paths : Known(p, entry[p].version)' /\ Known(p, scan.old[p].version)'
  <2> SUFFICES ASSUME NEW p \in Paths
      PROVE Known(p, entry[p].version)' /\ Known(p, scan.old[p].version)'
    OBVIOUS
  <2> DEFINE old == entry[p].version
             read == scan.old[p].version
             answer == work.answer
  <2>1. Known(p, old) /\ Known(p, read) /\ Known(p, 0)
    BY <1>t DEF VersionsKnown, Known
  <2>2. work.step = "version" /\ p = queue[work.op].path => Known(p, answer)
    BY <1>t DEF VersionsKnown, WorkTypes
  <2>3. \A v : Known(p, v) => (v # 0 => v \in DOMAIN log' /\ log'[v].path = p)
    BY <1>g DEF Known
  <2>4. \/ entry'[p].version \in {old, read}
        \/ work.step = "version" /\ p = queue[work.op].path /\ entry'[p].version = answer
    BY <1>t, VersionStep
  <2>5. scan'.old[p].version \in {read, old, 0}
    BY <1>t, VersionStep
  <2>6. \E v : Known(p, v) /\ entry'[p].version = v
    BY <2>1, <2>2, <2>4
  <2>7. \E v : Known(p, v) /\ scan'.old[p].version = v
    BY <2>1, <2>5
  <2> HIDE DEF old, read, answer
  <2>8. QED
    BY <2>3, <2>6, <2>7 DEF Known
<1>2. work'.answer > 0 =>
        work'.op \in DOMAIN queue' /\ Known(queue[work.op].path, work.answer)'
  <2> DEFINE G == work'.answer > 0 =>
        /\ work'.op \in DOMAIN queue'
        /\ work'.answer \in DOMAIN log' /\ log'[work'.answer].path = queue'[work'.op].path
  <2>w. work \in [step : Steps \cup {"down", "idle"}, op : Nat, answer : Nat \cup {Conflict}]
    BY <1>t DEF WorkTypes
  <2>s. ASSUME work'.op = work.op, work'.answer = work.answer PROVE G
    <3>1. work.answer > 0 => work.op \in DOMAIN queue /\ Known(queue[work.op].path, work.answer)
      BY <1>t DEF VersionsKnown
    <3>2. \A o \in DOMAIN queue : o \in DOMAIN queue' /\ queue'[o].path = queue[o].path
      BY <1>g DEF RowsGrow
    <3>3. work.answer > 0 => work.answer # 0
      OBVIOUS
    <3>4. QED
      BY <1>g, <2>s, <3>1, <3>2, <3>3 DEF Known
  <2>1. ASSUME NEW o \in network, ServerCommit(o) PROVE G
    <3>1. queue' = queue /\ o \in DOMAIN queue
      BY <1>t, <2>1, CommitAnswers DEF WorkTypes
    <3>2. CASE work' = work
      BY <2>s, <3>2
    <3>3. ASSUME work.op = o, NEW a \in Nat \cup {Conflict}, work' = [work EXCEPT !.answer = a],
                 a > 0 => a \in DOMAIN log' /\ log'[a].path = queue[o].path
          PROVE  G
      <4>1. work'.answer = a /\ work'.op = o
        BY <2>w, <3>3
      <4>2. QED
        BY <3>1, <3>3, <4>1
    <3>4. QED
      BY <2>1, <3>2, <3>3, CommitAnswers
  <2>2. ASSUME Proceeds PROVE G
    <3>1. CASE work' = work
      BY <2>s, <3>1
    <3>2. ASSUME NEW step \in Steps, work' = [work EXCEPT !.step = step] PROVE G
      <4>1. work'.op = work.op /\ work'.answer = work.answer
        BY <2>w, <3>2
      <4>2. QED
        BY <2>s, <4>1
    <3>3. CASE work' \in [step : {"capture", "idle", "down"}, op : Nat, answer : {0}]
      BY <3>3
    <3>4. QED
      BY <2>2, <3>1, <3>2, <3>3 DEF Proceeds
  <2>3. ASSUME NEW p \in Paths, NEW stamp \in Stamps, Queues(p, stamp) PROVE G
    BY <2>s, <2>3 DEF Queues
  <2>4. G
    BY <1>t, <2>1, <2>2, <2>3, RowStep
  <2>5. QED
    BY <2>4 DEF Known
<1>3. QED
  BY <1>1, <1>2 DEF VersionsKnown

\* A version keeps its operation, and the base of an operation stays older than
\* the operation.
LEMMA HistoryKnownStep ==
  ASSUME AgentInv, [Next]_vars
  PROVE  HistoryKnown'
<1>t. /\ ScanTypes /\ WorkTypes /\ HistoryKnown
      /\ queue \in Seq(Operation) /\ log \in Seq(Version)
      /\ \A i \in DOMAIN log : log[i].op \in DOMAIN queue
  BY DEF AgentInv, WorkTypes
<1>g. /\ \A i \in DOMAIN log : i \in DOMAIN log' /\ log'[i] = log[i]
      /\ RowsGrow
  BY Growth
<1>1. \A o \in DOMAIN queue' :
        queue'[o].base # 0 =>
          /\ queue'[o].base \in DOMAIN log' /\ log'[queue'[o].base].path = queue'[o].path
          /\ log'[queue'[o].base].op < o
  <2>1. ASSUME NEW o \in DOMAIN queue
        PROVE  queue'[o].base # 0 =>
                 /\ queue'[o].base \in DOMAIN log' /\ log'[queue'[o].base].path = queue'[o].path
                 /\ log'[queue'[o].base].op < o
    BY <1>t, <1>g DEF HistoryKnown, RowsGrow, Known
  <2>2. ASSUME NEW o \in DOMAIN queue' \ DOMAIN queue
        PROVE  queue'[o].base # 0 =>
                 /\ queue'[o].base \in DOMAIN log' /\ log'[queue'[o].base].path = queue'[o].path
                 /\ log'[queue'[o].base].op < o
    <3>1. /\ \A q \in DOMAIN queue : q < o
          /\ Known(queue'[o].path, queue'[o].base)
      BY <1>g DEF RowsGrow
    <3>2. QED
      BY <1>t, <1>g, <3>1 DEF Known
  <2>3. QED
    BY <2>1, <2>2
<1>2. \A i \in DOMAIN log' : log'[i].path = queue'[log'[i].op].path
  <2>1. ASSUME NEW i \in DOMAIN log PROVE log'[i].path = queue'[log'[i].op].path
    <3>1. log'[i] = log[i] /\ log[i].op \in DOMAIN queue /\ log[i].path = queue[log[i].op].path
      BY <1>t, <1>g DEF HistoryKnown
    <3>2. \A o \in DOMAIN queue : queue'[o].path = queue[o].path
      BY <1>g DEF RowsGrow
    <3>3. QED
      BY <3>1, <3>2
  <2>2. ASSUME NEW o \in network, ServerCommit(o), NEW i \in DOMAIN log' \ DOMAIN log
        PROVE  log'[i].path = queue'[log'[i].op].path
    <3> DEFINE new == [path |-> queue[o].path, stamp |-> queue[o].stamp, op |-> o]
    <3>1. queue' = queue /\ log' = Append(log, new)
      BY <2>2, CommitAnswers
    <3>2. o \in DOMAIN queue /\ o \in Nat /\ queue[o].path \in Paths /\ queue[o].stamp \in Stamps
      BY <1>t, RowTypes DEF WorkTypes
    <3>3. new \in Version /\ new.path = queue[o].path /\ new.op = o
      BY <3>2 DEF Version
    <3> HIDE DEF new
    <3>4. log'[i] = new
      BY <1>t, <2>2, <3>1, <3>3, AppendedLog
    <3>5. QED
      BY <3>1, <3>3, <3>4
  <2>3. QED
    BY <2>1, <2>2, LogStep
<1>3. QED
  BY <1>1, <1>2 DEF HistoryKnown, Known

\* A new version is of an operation that is younger than those of all earlier
\* versions of its path: the base of the operation is the head, and so the
\* youngest of them, and older than the operation.
LEMMA NewestStep ==
  ASSUME AgentInv, [Next]_vars
  PROVE  NewestExists' /\ NewestWins'
<1>t. /\ HistoryKnown /\ NewestExists /\ NewestWins
      /\ queue \in Seq(Operation) /\ log \in Seq(Version)
      /\ network \subseteq DOMAIN queue
      /\ \A i \in DOMAIN log : log[i].op \in DOMAIN queue
      /\ \A o \in DOMAIN queue : o \in Nat
  BY DEF AgentInv, WorkTypes
<1>1. CASE UNCHANGED log
  BY <1>t, <1>1 DEF NewestExists, NewestWins
<1>2. ASSUME NEW o \in network, ServerCommit(o), log' # log
      PROVE  NewestExists' /\ NewestWins'
  <2> DEFINE path == queue[o].path
             new == [path |-> path, stamp |-> queue[o].stamp, op |-> o]
             n == Len(log) + 1
             head == ServerHead(path)
  <2>1. BaseOf(o) = head /\ log' = Append(log, new)
    BY <1>2, CommitAnswers
  <2>2. o \in DOMAIN queue /\ o \in Nat /\ path \in Paths /\ queue[o].stamp \in Stamps
    BY <1>t, RowTypes
  <2>3. new \in Version /\ new.path = path /\ new.op = o
    BY <2>2 DEF Version
  <2>4. /\ head = 0 => \A i \in DOMAIN log : log[i].path # path
        /\ head # 0 => /\ head \in DOMAIN log /\ log[head].path = path
                       /\ \A j \in DOMAIN log : log[j].path = path => j <= head
    BY <1>t, <2>2, HeadIsNewest
  <2>5. head # 0 => log[head].op < o
    BY <1>t, <2>1, <2>2 DEF HistoryKnown, BaseOf
  <2> HIDE DEF new, path, head
  <2>6. \A i \in DOMAIN log : log[i].path = path => log[i].op < o
    <3> SUFFICES ASSUME NEW i \in DOMAIN log, log[i].path = path PROVE log[i].op < o
      OBVIOUS
    <3>1. head # 0 /\ head \in DOMAIN log /\ i <= head /\ log[head].path = path
      BY <2>4
    <3>2. i \in Nat /\ head \in Nat /\ log[i].op \in Nat /\ log[head].op \in Nat
      BY <1>t, <3>1
    <3>3. CASE i = head
      BY <2>5, <3>1, <3>3
    <3>4. CASE i < head
      <4>1. log[i].op < log[head].op
        BY <1>t, <3>1, <3>4 DEF NewestWins
      <4>2. QED
        BY <2>2, <2>5, <3>1, <3>2, <4>1
    <3>5. QED
      BY <3>1, <3>2, <3>3, <3>4
  <2>7. /\ DOMAIN log = 1..Len(log) /\ Len(log) \in Nat /\ DOMAIN log' = 1..n
        /\ log'[n] = new /\ \A i \in DOMAIN log : log'[i] = log[i]
    BY <1>t, <2>1, <2>3, AppendedLog
  <2>8. n \in DOMAIN log' /\ \A i \in DOMAIN log' : i <= n /\ (i = n \/ i \in DOMAIN log)
    BY <2>7
  <2> HIDE DEF n
  <2>9. NewestExists'
    <3> SUFFICES ASSUME NEW q \in Paths, NEW i \in DOMAIN log', log'[i].path = q
        PROVE \E m \in DOMAIN log' :
                  log'[m].path = q /\ \A j \in DOMAIN log' : log'[j].path = q => j <= m
      BY DEF NewestExists
    <3>1. CASE q = path
      BY <2>3, <2>7, <2>8, <3>1
    <3>2. CASE q # path
      <4>1. i \in DOMAIN log /\ log[i].path = q
        BY <2>3, <2>7, <2>8, <3>2
      <4>2. PICK m \in DOMAIN log : log[m].path = q /\ \A j \in DOMAIN log : log[j].path = q => j <= m
        BY <1>t, <4>1 DEF NewestExists
      <4>3. m \in DOMAIN log' /\ log'[m].path = q
        BY <2>7, <4>2, <1>2, <2>8, Growth
      <4>4. \A j \in DOMAIN log' : log'[j].path = q => j <= m
        BY <2>3, <2>7, <2>8, <3>2, <4>2
      <4>5. QED
        BY <4>3, <4>4
    <3>3. QED
      BY <3>1, <3>2
  <2>10. NewestWins'
    <3> SUFFICES ASSUME NEW i \in DOMAIN log', NEW j \in DOMAIN log', i < j,
                        log'[i].path = log'[j].path
        PROVE log'[i].op < log'[j].op
      BY DEF NewestWins
    <3>1. i \in DOMAIN log
      BY <2>7, <2>8
    <3>2. CASE j = n
      BY <2>3, <2>6, <2>7, <3>1, <3>2
    <3>3. CASE j \in DOMAIN log
      BY <1>t, <2>7, <3>1, <3>3 DEF NewestWins
    <3>4. QED
      BY <2>8, <3>2, <3>3
  <2>11. QED
    BY <2>9, <2>10
<1>3. QED
  BY <1>1, <1>2, LogStep

-----------------------------------------------------------------------------
(* The theorems *)

\* The agent starts with empty tables and an empty history.
LEMMA AgentInit == Init => AgentInv
<1> SUFFICES ASSUME Init PROVE AgentInv
  OBVIOUS
<1> USE BoundsOK DEF Init
<1>1. ScanTypes
  BY DEF ScanTypes, Stamps, NoFile, NoEntry, Entry, NoScan, NoRows, ScanSteps
<1>2. WorkTypes
  BY DEF WorkTypes, NoOp, Steps
<1>3. VersionsKnown
  BY DEF VersionsKnown, Known, NoScan, NoRows, NoEntry
<1>4. HistoryKnown /\ NewestExists /\ NewestWins
  BY DEF HistoryKnown, NewestExists, NewestWins
<1>5. QED
  BY <1>1, <1>2, <1>3, <1>4 DEF AgentInv

\* Every step keeps the invariant.
LEMMA AgentStep == AgentInv /\ [Next]_vars => AgentInv'
<1> SUFFICES ASSUME AgentInv, [Next]_vars PROVE AgentInv'
  OBVIOUS
<1>1. ScanTypes'
  BY ScanTypesStep DEF AgentInv, WorkTypes
<1>2. QED
  BY <1>1, WorkTypesStep, VersionsKnownStep, HistoryKnownStep, NewestStep DEF AgentInv

\* The rows, the program counters and the versions that the agent has written
\* down are what their types say, whatever the interleaving and the failures.
THEOREM AgentTypeCorrect == Spec => []TypeOK
<1>1. AgentInv => TypeOK
  BY DEF AgentInv, ScanTypes, WorkTypes, VersionsKnown, Known, TypeOK
<1>2. QED
  BY <1>1, AgentInit, AgentStep, PTL DEF Spec

\* A late or repeated commit of an operation never covers a newer operation on
\* its path (ServerCommit against Enqueue and RecoverInFlight).
THEOREM NewestAlwaysWins == Spec => []NewestWins
<1>1. AgentInv => NewestWins
  BY DEF AgentInv
<1>2. QED
  BY <1>1, AgentInit, AgentStep, PTL DEF Spec

\* A path has at most one operation that is not closed: Enqueue cancels what it
\* replaces, and nothing that the processor does opens a cancelled row again.
THEOREM OneLiveAlways == Spec => []OneLive
<1>1. Init => OneLive
  BY DEF Init, OneLive
<1>2. AgentInv /\ OneLive /\ [Next]_vars => OneLive'
  <2> SUFFICES ASSUME AgentInv, OneLive, [Next]_vars PROVE OneLive'
    OBVIOUS
  <2>t. ScanTypes /\ WorkTypes /\ queue \in Seq(Operation)
    BY DEF AgentInv, WorkTypes
  <2>1. ASSUME Proceeds PROVE OneLive'
    BY <2>1 DEF Proceeds, RowsMove, OneLive
  <2>2. ASSUME NEW o \in network, ServerCommit(o) PROVE OneLive'
    BY <2>2, CommitAnswers DEF OneLive
  <2>3. ASSUME NEW p \in Paths, NEW stamp \in Stamps, Queues(p, stamp)
        PROVE  OneLive'
    <3> DEFINE n == Len(queue) + 1
               base == scan.old[p].version
    <3>1. base \in Nat /\ queue' = Enqueued(p, stamp, base)
      BY <2>t, <2>3 DEF ScanTypes, Entry, Queues
    <3> HIDE DEF base
    <3>2. /\ DOMAIN queue = 1..Len(queue) /\ DOMAIN queue' = 1..n /\ n \notin DOMAIN queue
          /\ queue'[n] = [path |-> p, stamp |-> stamp, base |-> base, state |-> "QUEUED"]
          /\ \A o \in DOMAIN queue : queue'[o] = Cancelled(p)[o]
      BY <2>t, <3>1, EnqueuedRows
    <3>3. \A o \in DOMAIN queue' : o = n \/ o \in DOMAIN queue
      BY <2>t, <3>2
    <3>4. /\ queue'[n].path = p
          /\ \A o \in DOMAIN queue :
               /\ queue'[o].path = queue[o].path
               /\ queue'[o].state \notin Closed => queue[o].state \notin Closed
               /\ queue[o].path = p => queue'[o].state \in Closed
      BY <2>t, <3>2, CancelledMoves DEF RowsMove
    <3> HIDE DEF n
    <3>5. QED
      BY <3>3, <3>4 DEF OneLive
  <2>4. QED
    BY <2>t, <2>1, <2>2, <2>3, RowStep
<1>3. QED
  BY <1>1, <1>2, AgentInit, AgentStep, PTL DEF Spec

-----------------------------------------------------------------------------
(* Who owns an operation in flight *)

\* The only row in flight is the one in hand, in the state that the processor
\* believes it to be in.
Owned ==
    work.step # "down" =>
        \A o \in DOMAIN queue : queue[o].state \in InFlight =>
            work.step \in Steps /\ work.op = o /\ queue[o].state = Believed

\* A step that opens no row of its own and leaves the processor alone, or kills
\* it.
LEMMA OwnedStays ==
  ASSUME Owned, work' = work \/ work'.step = "down",
         \A o \in DOMAIN queue' :
             queue'[o].state \in InFlight => o \in DOMAIN queue /\ queue'[o].state = queue[o].state
  PROVE  Owned'
  BY DEF Owned, Believed

\* The state of every row after a Transition.
LEMMA MovedStates ==
  ASSUME queue \in Seq(Operation), NEW r \in DOMAIN queue, NEW from, NEW to
  PROVE  /\ DOMAIN Moved(r, from, to) = DOMAIN queue
         /\ Moved(r, from, to)[r].state = IF queue[r].state = from THEN to ELSE queue[r].state
         /\ \A o \in DOMAIN queue \ {r} : Moved(r, from, to)[o] = queue[o]
<1>1. queue[r] \in Operation
  BY RowTypes
<1>2. [queue[r] EXCEPT !.state = to].state = to
  BY <1>1 DEF Operation
<1>3. QED
  BY <1>2 DEF Moved

\* Giving up leaves no row in flight.
LEMMA GivesUpOwned ==
  ASSUME WorkTypes, Owned, work.step \in Steps, NEW to, to \notin InFlight, GivesUp(to)
  PROVE  Owned'
<1>1. work.step # "down" /\ work.op \in DOMAIN queue /\ queue \in Seq(Operation)
  BY DEF WorkTypes, Steps
<1>2. /\ DOMAIN queue' = DOMAIN queue
      /\ queue'[work.op].state = IF queue[work.op].state = Believed THEN to ELSE queue[work.op].state
      /\ \A o \in DOMAIN queue \ {work.op} : queue'[o] = queue[o]
  BY <1>1, MovedStates DEF GivesUp
<1>3. \A o \in DOMAIN queue' : queue'[o].state \notin InFlight
  BY <1>1, <1>2 DEF Owned
<1>4. QED
  BY <1>3 DEF Owned

\* Going on takes the row in hand along; if it is gone, no row is in flight.
LEMMA GoesOnOwned ==
  ASSUME WorkTypes, Owned, work.step \in Steps, NEW step \in Steps, GoesOn(step)
  PROVE  Owned'
<1>1. /\ work.step # "down" /\ work.op \in DOMAIN queue /\ queue \in Seq(Operation)
      /\ work \in [step : Steps \cup {"down", "idle"}, op : Nat, answer : Nat \cup {Conflict}]
  BY DEF WorkTypes, Steps
<1>2. /\ DOMAIN queue' = DOMAIN queue
      /\ queue'[work.op].state = IF queue[work.op].state = Believed THEN StepState[step]
                                 ELSE queue[work.op].state
      /\ \A o \in DOMAIN queue \ {work.op} : queue'[o] = queue[o]
  BY <1>1, MovedStates DEF GoesOn
<1>3. \A o \in DOMAIN queue' : queue'[o].state \in InFlight =>
          o = work.op /\ queue[o].state = Believed /\ queue'[o].state = StepState[step]
  BY <1>1, <1>2 DEF Owned
<1>4. CASE \E o \in DOMAIN queue' : queue'[o].state \in InFlight
  <2>1. work' = [work EXCEPT !.step = step]
    BY <1>3, <1>4 DEF GoesOn
  <2>2. work'.step = step /\ work'.op = work.op
    BY <1>1, <2>1
  <2>3. QED
    BY <1>3, <2>2 DEF Owned, Believed
<1>5. CASE ~ \E o \in DOMAIN queue' : queue'[o].state \in InFlight
  BY <1>5 DEF Owned
<1>6. QED
  BY <1>4, <1>5

\* Every step keeps the owner of the row in flight.
LEMMA OwnedStep ==
  ASSUME AgentInv, Owned, [Next]_vars
  PROVE  Owned'
<1>t. ScanTypes /\ WorkTypes /\ queue \in Seq(Operation)
  BY DEF AgentInv, WorkTypes
<1> USE DEF tableVars, userVars, serverVars
<1>0. ASSUME UNCHANGED <<queue, work>> PROVE Owned'
  BY <1>0, OwnedStays
<1>1. CASE User \/ UNCHANGED vars
  BY <1>0, <1>1 DEF User, Write, Remove, vars
<1>2. CASE Server
  <2>1. PICK o \in network : ServerCommit(o)
    BY <1>2 DEF Server
  <2>2. queue' = queue
    BY <2>1, CommitAnswers
  <2>3. work'.step = work.step /\ work'.op = work.op
    BY <1>t, <2>1 DEF ServerCommit, WorkTypes
  <2>4. QED
    BY <2>2, <2>3 DEF Owned, Believed
<1>s. /\ Steps = {"capture", "begin", "upload", "commit", "await", "version", "complete"}
      /\ "RETRY_WAIT" \notin InFlight /\ "BLOCKED" \notin InFlight /\ "COMPLETED" \notin InFlight
      /\ "QUEUED" \notin InFlight /\ Closed \cap InFlight = {}
  BY DEF Steps, InFlight, Closed
<1>3. CASE Processor
  <2>1. CASE Start
    <3>1. \A o \in DOMAIN queue : queue[o] \in Operation
      BY <1>t
    <3>2. \A o \in DOMAIN queue' : queue'[o].state = Recovered(queue[o].state)
      BY <2>1, <3>1 DEF Start, Operation
    <3>3. \A o \in DOMAIN queue' : queue'[o].state \notin InFlight
      BY <1>s, <3>2 DEF Recovered
    <3>4. QED
      BY <3>3 DEF Owned
  <2>2. ASSUME NEW o \in DOMAIN queue, ClaimNext(o) PROVE Owned'
    <3>1. \A r \in DOMAIN queue : queue[r].state \notin InFlight
      BY <1>s, <2>2 DEF ClaimNext, Owned
    <3>2. queue' = Moved(o, queue[o].state, "RESERVING")
      BY <2>2 DEF ClaimNext, Moved
    <3>3. /\ DOMAIN queue' = DOMAIN queue /\ queue'[o].state = "RESERVING"
          /\ \A r \in DOMAIN queue \ {o} : queue'[r] = queue[r]
      BY <1>t, <3>2, MovedStates
    <3>4. work'.step = "capture" /\ work'.op = o
      BY <2>2 DEF ClaimNext
    <3>5. StepState["capture"] = "RESERVING"
      BY DEF StepState, Steps
    <3>6. QED
      BY <1>s, <3>1, <3>3, <3>4, <3>5 DEF Owned, Believed
  <2>3. CASE Capture
    BY <1>t, <1>s, <2>3, GoesOnOwned, GivesUpOwned DEF Capture
  <2>4. CASE BeginUpload \/ Upload
    BY <1>t, <1>s, <2>4, GoesOnOwned, GivesUpOwned DEF BeginUpload, Upload
  <2>5. CASE SendCommit
    <3>1. /\ queue' = queue /\ work.step = "commit"
          /\ work'.step = "await" /\ work'.op = work.op
      BY <1>t, <2>5 DEF SendCommit, WorkTypes
    <3>2. StepState["await"] = StepState["commit"]
      BY DEF StepState, Steps
    <3>3. QED
      BY <1>s, <3>1, <3>2 DEF Owned, Believed
  <2>6. CASE ReceiveAnswer
    BY <1>t, <1>s, <2>6, GoesOnOwned, GivesUpOwned DEF ReceiveAnswer
  <2>7. CASE SetServerVersion
    BY <1>t, <1>s, <2>7, GoesOnOwned, GivesUpOwned DEF SetServerVersion
  <2>8. CASE Complete
    BY <1>t, <1>s, <2>8, GivesUpOwned DEF Complete
  <2>9. QED
    BY <1>3, <2>1, <2>2, <2>3, <2>4, <2>5, <2>6, <2>7, <2>8 DEF Processor
<1>4. CASE Failure
  <2>1. CASE CallFails \/ CommitFails
    BY <1>t, <1>s, <2>1, GivesUpOwned DEF CallFails, CommitFails
  <2>2. CASE Crash
    BY <2>2 DEF Crash, Idle, Owned
  <2>3. CASE ScanFails \/ \E p \in Paths : ScanCaptureFails(p)
    BY <1>0, <2>3 DEF ScanFails, ScanCaptureFails, MarkSeen
  <2>4. QED
    BY <1>4, <2>1, <2>2, <2>3 DEF Failure
<1>c. ASSUME NEW p \in Paths
      PROVE  /\ DOMAIN Cancelled(p) = DOMAIN queue
             /\ \A o \in DOMAIN queue : Cancelled(p)[o].state \in InFlight =>
                    Cancelled(p)[o].state = queue[o].state
  <2>1. \A o \in DOMAIN queue : queue[o] \in Operation
    BY <1>t
  <2>2. \A o \in DOMAIN queue : Cancelled(p)[o].state \in {"CANCELLED", queue[o].state}
    BY <2>1 DEF Cancelled, Operation
  <2>3. "CANCELLED" \notin InFlight
    BY DEF InFlight
  <2>4. QED
    BY <2>2, <2>3 DEF Cancelled
<1>5. ASSUME NEW p \in Paths, NEW stamp \in Stamps, Queues(p, stamp) PROVE Owned'
  <2> DEFINE base == scan.old[p].version
             n == Len(queue) + 1
  <2>1. base \in Nat /\ queue' = Enqueued(p, stamp, base) /\ work' = work
    BY <1>t, <1>5 DEF ScanTypes, Entry, Queues
  <2> HIDE DEF base
  <2>2. /\ DOMAIN queue = 1..Len(queue) /\ DOMAIN queue' = 1..n
        /\ queue'[n] = [path |-> p, stamp |-> stamp, base |-> base, state |-> "QUEUED"]
        /\ \A o \in DOMAIN queue : queue'[o] = Cancelled(p)[o]
    BY <1>t, <2>1, EnqueuedRows
  <2>3. \A o \in DOMAIN queue' : o = n \/ o \in DOMAIN queue
    BY <1>t, <2>2
  <2>4. queue'[n].state = "QUEUED"
    BY <2>2
  <2> HIDE DEF n
  <2>5. \A o \in DOMAIN queue' :
          queue'[o].state \in InFlight => o \in DOMAIN queue /\ queue'[o].state = queue[o].state
    BY <1>c, <1>s, <2>2, <2>3, <2>4
  <2>6. QED
    BY <2>1, <2>5, OwnedStays
<1>6. CASE Scanner
  <2>1. ASSUME NEW p \in Paths, EnqueueChange(p) PROVE Owned'
    BY <1>t, <1>5, <2>1 DEF EnqueueChange, Queues, ScanTypes
  <2>2. ASSUME NEW p \in Paths, CancelOrEnqueueDelete(p) PROVE Owned'
    <3>1. CASE scan.old[p].version = 0
      BY <1>c, <2>2, <3>1, OwnedStays DEF CancelOrEnqueueDelete
    <3>2. CASE scan.old[p].version # 0
      <4>1. NoFile \in Stamps
        BY BoundsOK DEF NoFile, Stamps
      <4>2. QED
        BY <1>5, <2>2, <3>2, <4>1 DEF CancelOrEnqueueDelete, Queues
    <3>3. QED
      BY <3>1, <3>2
  <2>3. CASE BeginScan \/ ListMissing \/ CompleteScan
    BY <1>0, <2>3 DEF BeginScan, ListMissing, CompleteScan
  <2>4. ASSUME NEW p \in Paths,
               \/ WalkPast(p) \/ ReadEntry(p) \/ ScanCapture(p) \/ ScanMissesFile(p)
               \/ UpsertSame(p) \/ UpsertChange(p) \/ UpsertMissing(p)
        PROVE  Owned'
    BY <1>0, <2>4 DEF WalkPast, ReadEntry, ScanCapture, ScanMissesFile, MarkSeen, UpsertSame,
       UpsertChange, UpsertMissing
  <2>5. QED
    BY <1>6, <2>1, <2>2, <2>3, <2>4 DEF Scanner
<1>7. QED
  BY <1>1, <1>2, <1>3, <1>4, <1>6 DEF Next

\* An operation in flight is the one that the processor works on: a cancelled
\* row is never taken along, RecoverInFlight frees what a crash has stranded,
\* and every way out of ProcessNext leaves its row out of flight.
THEOREM InFlightAlwaysOwned == Spec => []InFlightOwned
<1>1. Init => Owned
  BY DEF Init, Owned
<1>2. AgentInv /\ Owned /\ [Next]_vars => Owned'
  BY OwnedStep
<1>3. Owned => InFlightOwned
  BY DEF Owned, InFlightOwned
<1>4. QED
  BY <1>1, <1>2, <1>3, AgentInit, AgentStep, PTL DEF Spec

-----------------------------------------------------------------------------
(* What the scanner takes for known *)

\* The file that a stamp stands for is not there; since no later write makes it
\* again, it never will be.
Past(p, stamp) == stamp = NoFile \/ stamp # disk[p]

\* The last operation that was queued for a path is for this file, and it is
\* open or was committed.
Handled(p, stamp) ==
    \E o \in DOMAIN queue :
        /\ queue[o].path = p /\ queue[o].stamp = stamp
        /\ \A q \in DOMAIN queue : queue[q].path = p => q <= o
        /\ queue[o].state \notin Closed \/ \E i \in DOMAIN log : log[i].op = o

\* The answer that the processor has in hand is the commit of its operation, and
\* a version holds the file of its operation.
AnswersKnown ==
    /\ work.answer > 0 => \E i \in DOMAIN log : log[i].op = work.op
    /\ \A i \in DOMAIN log : log[i].stamp = queue[log[i].op].stamp

\* No stamp comes from a write that is still to be made.
StampsMade ==
    /\ scan.new <= edits
    /\ \A p \in Paths : disk[p] <= edits /\ entry[p].stamp <= edits

\* A row that is not present has no file, and a row that is not found is not
\* present.
RowsPlain ==
    \A p \in Paths :
        /\ entry[p].present => entry[p].found
        /\ entry[p].stamp # NoFile => entry[p].present

WalkSteps == {"walk", "capture", "same", "enqueue", "upsert"}
AbsentSteps == {"missing", "absent"}

\* The rows whose old values the scanner will still use.
Pending == scan.path \cup (IF scan.step \in AbsentSteps THEN scan.todo ELSE {})

\* The row is what the scanner has read, but for the server version.
Reads(p) ==
    /\ scan.old[p].found = entry[p].found
    /\ scan.old[p].present = entry[p].present
    /\ scan.old[p].stamp = entry[p].stamp

\* The scanner has passed the path: it has seen the row, there is none, or the
\* file is gone.
Passed(p) ==
    \/ p \in seen \/ ~ entry[p].present
    \/ Past(p, entry[p].stamp) /\ p \in gone

\* What Scan knows at each step of the files that it has passed, of the one in
\* hand, and of those that it has found missing.
ScanKnows ==
    /\ scan.step \in {"idle", "walk", "missing"} => scan.path = {}
    /\ \A p, q \in scan.path : p = q
    /\ scan.path \cap scan.todo = {}
    /\ scan.step # "idle" => \A p \in Paths : disk[p] = NoFile => p \in gone
    /\ \A p \in Pending : Reads(p)
    /\ scan.step \in WalkSteps => \A p \in Paths \ (scan.todo \cup scan.path) : Passed(p)
    /\ scan.step \in AbsentSteps => \A p \in Pending : Past(p, entry[p].stamp)
    /\ scan.step \in AbsentSteps => scan.todo \subseteq gone
    /\ scan.step = "same" => \A p \in scan.path : entry[p].found /\ entry[p].present
    /\ scan.step \in {"enqueue", "upsert"} =>
          scan.new # NoFile /\ \A p \in scan.path : Past(p, entry[p].stamp)
    /\ scan.step = "upsert" => \A p \in scan.path : Handled(p, scan.new)

\* Every entry that names the file at its path names one that was handled.
EntriesHandled ==
    \A p \in Paths : ~ Past(p, entry[p].stamp) => Handled(p, entry[p].stamp)

ScannerInv ==
    /\ AnswersKnown /\ StampsMade /\ RowsPlain /\ ScanKnows /\ EntriesHandled

\* The rows of a path in the next state: the same, and none that is open gets
\* closed but the one whose commit is known.
RowsLeft(p) ==
    /\ \A o \in DOMAIN queue : queue[o].path = p =>
          /\ o \in DOMAIN queue'
          /\ queue'[o].path = queue[o].path /\ queue'[o].stamp = queue[o].stamp
          /\ \/ queue[o].state \in Closed \/ queue'[o].state \notin Closed
             \/ \E i \in DOMAIN log : log[i].op = o
    /\ \A o \in DOMAIN queue' : queue'[o].path = p => o \in DOMAIN queue

\* What was handled stays handled.
LEMMA HandledStays ==
  ASSUME NEW p, NEW stamp, Handled(p, stamp), RowsLeft(p),
         \A i \in DOMAIN log : i \in DOMAIN log' /\ log'[i] = log[i],
         \A o \in DOMAIN queue : o \in DOMAIN queue' /\ queue'[o].path = queue[o].path
  PROVE  Handled(p, stamp)'
<1>1. PICK o \in DOMAIN queue :
        /\ queue[o].path = p /\ queue[o].stamp = stamp
        /\ \A q \in DOMAIN queue : queue[q].path = p => q <= o
        /\ queue[o].state \notin Closed \/ \E i \in DOMAIN log : log[i].op = o
  BY DEF Handled
<1>2. /\ o \in DOMAIN queue' /\ queue'[o].path = p /\ queue'[o].stamp = stamp
      /\ queue'[o].state \notin Closed \/ \E i \in DOMAIN log : log[i].op = o
  BY <1>1 DEF RowsLeft
<1>3. \A q \in DOMAIN queue' : queue'[q].path = p => q <= o
  BY <1>1 DEF RowsLeft
<1>4. queue'[o].state \notin Closed \/ \E i \in DOMAIN log' : log'[i].op = o
  BY <1>2
<1>5. QED
  BY <1>2, <1>3, <1>4 DEF Handled

\* A Transition to a state that is not closed closes no row.
LEMMA MovedLeaves ==
  ASSUME queue \in Seq(Operation), NEW r, NEW from, NEW to,
         \/ to \notin Closed \/ r \notin DOMAIN queue
         \/ \E i \in DOMAIN log : log[i].op = r,
         queue' = Moved(r, from, to), NEW p
  PROVE  RowsLeft(p)
<1>1. /\ DOMAIN queue' = DOMAIN queue
      /\ \A o \in DOMAIN queue : o # r => queue'[o] = queue[o]
  BY DEF Moved
<1>2. CASE queue[r].state = from /\ r \in DOMAIN queue
  <2>1. queue[r] \in Operation
    BY <1>2
  <2>2. queue'[r] = [queue[r] EXCEPT !.state = to]
    BY <1>2 DEF Moved
  <2>3. queue'[r].path = queue[r].path /\ queue'[r].stamp = queue[r].stamp /\ queue'[r].state = to
    BY <2>1, <2>2 DEF Operation
  <2>4. QED
    BY <1>1, <1>2, <2>3 DEF RowsLeft
<1>3. CASE ~ (queue[r].state = from /\ r \in DOMAIN queue)
  <2>1. \A o \in DOMAIN queue : queue'[o] = queue[o]
    BY <1>3 DEF Moved
  <2>2. QED
    BY <1>1, <2>1 DEF RowsLeft
<1>4. QED
  BY <1>2, <1>3

\* The rows of a path are left alone by everything but Scan's own writes for it:
\* the processor closes a row only when it knows of its commit.
LEMMA RowsLeftStep ==
  ASSUME AgentInv, AnswersKnown, [Next]_vars, NEW p \in Paths,
         ~ EnqueueChange(p), ~ CancelOrEnqueueDelete(p)
  PROVE  RowsLeft(p)
<1>t. ScanTypes /\ WorkTypes /\ queue \in Seq(Operation)
  BY DEF AgentInv, WorkTypes
<1>0. ASSUME UNCHANGED queue PROVE RowsLeft(p)
  BY <1>0 DEF RowsLeft
<1>s. /\ "RETRY_WAIT" \notin Closed /\ "BLOCKED" \notin Closed
      /\ "QUEUED" \notin Closed /\ Closed \cap InFlight = {}
      /\ Steps = {"capture", "begin", "upload", "commit", "await", "version", "complete"}
      /\ \A step \in Steps : StepState[step] \in InFlight
  BY DEF Closed, InFlight, Steps, StepState
<1>o. ASSUME NEW step \in Steps, GoesOn(step) PROVE RowsLeft(p)
  <2>1. StepState[step] \notin Closed
    BY <1>o, <1>s
  <2>2. QED
    BY <1>t, <1>o, <2>1, MovedLeaves DEF GoesOn
<1>g. ASSUME NEW to, GivesUp(to), to \notin Closed PROVE RowsLeft(p)
  BY <1>t, <1>g, MovedLeaves DEF GivesUp
<1> USE DEF tableVars, userVars, serverVars
<1>1. CASE User \/ Server \/ UNCHANGED vars
  BY <1>0, <1>1 DEF User, Write, Remove, Server, ServerCommit, vars
<1>2. CASE Processor
  <2>1. CASE Start
    <3>1. \A o \in DOMAIN queue : queue[o] \in Operation
      BY <1>t
    <3>2. /\ DOMAIN queue' = DOMAIN queue
          /\ \A o \in DOMAIN queue :
                /\ queue'[o].path = queue[o].path /\ queue'[o].stamp = queue[o].stamp
                /\ queue'[o].state = Recovered(queue[o].state)
      BY <2>1, <3>1 DEF Start, Operation
    <3>3. \A o \in DOMAIN queue : queue[o].state \notin Closed => queue'[o].state \notin Closed
      BY <1>s, <3>2 DEF Recovered
    <3>4. QED
      BY <3>2, <3>3 DEF RowsLeft
  <2>2. ASSUME NEW o \in DOMAIN queue, ClaimNext(o) PROVE RowsLeft(p)
    <3>1. queue' = Moved(o, queue[o].state, "RESERVING")
      BY <2>2 DEF ClaimNext, Moved
    <3>2. "RESERVING" \notin Closed
      BY DEF Closed
    <3>3. QED
      BY <1>t, <3>1, <3>2, MovedLeaves
  <2>3. CASE Capture
    BY <1>o, <1>g, <1>s, <2>3 DEF Capture
  <2>4. CASE BeginUpload \/ Upload
    BY <1>o, <1>g, <1>s, <2>4 DEF BeginUpload, Upload
  <2>5. CASE SendCommit
    BY <1>0, <2>5 DEF SendCommit
  <2>6. CASE ReceiveAnswer
    BY <1>o, <1>g, <1>s, <2>6 DEF ReceiveAnswer
  <2>7. CASE SetServerVersion
    BY <1>o, <1>g, <1>s, <2>7 DEF SetServerVersion
  <2>8. CASE Complete
    <3>1. \E i \in DOMAIN log : log[i].op = work.op
      BY <1>t, <2>8 DEF Complete, AnswersKnown, WorkTypes
    <3>2. QED
      BY <1>t, <2>8, <3>1, MovedLeaves DEF Complete, GivesUp
  <2>9. QED
    BY <1>2, <2>1, <2>2, <2>3, <2>4, <2>5, <2>6, <2>7, <2>8 DEF Processor
<1>3. CASE Failure
  <2>1. CASE CallFails \/ CommitFails
    BY <1>g, <1>s, <2>1 DEF CallFails, CommitFails
  <2>2. CASE Crash \/ ScanFails \/ \E q \in Paths : ScanCaptureFails(q)
    BY <1>0, <2>2 DEF Crash, ScanFails, ScanCaptureFails, MarkSeen
  <2>3. QED
    BY <1>3, <2>1, <2>2 DEF Failure
<1>c. ASSUME NEW r \in Paths, r # p
      PROVE  /\ DOMAIN Cancelled(r) = DOMAIN queue
             /\ \A o \in DOMAIN queue : queue[o].path = p => Cancelled(r)[o] = queue[o]
  BY <1>c DEF Cancelled
<1>4. CASE Scanner
  <2>1. ASSUME NEW r \in Paths, r # p, NEW stamp \in Stamps, NEW base \in Nat,
               queue' = Enqueued(r, stamp, base)
        PROVE  RowsLeft(p)
    <3> DEFINE n == Len(queue) + 1
    <3>1. /\ DOMAIN queue = 1..Len(queue) /\ DOMAIN queue' = 1..n
          /\ queue'[n] = [path |-> r, stamp |-> stamp, base |-> base, state |-> "QUEUED"]
          /\ \A o \in DOMAIN queue : queue'[o] = Cancelled(r)[o]
      BY <1>t, <2>1, EnqueuedRows
    <3>2. \A o \in DOMAIN queue' : o = n \/ o \in DOMAIN queue
      BY <1>t, <3>1
    <3>3. queue'[n].path = r /\ \A o \in DOMAIN queue : o \in DOMAIN queue'
      BY <1>t, <3>1
    <3> HIDE DEF n
    <3>4. \A o \in DOMAIN queue : queue[o].path = p => queue'[o] = queue[o]
      BY <1>c, <2>1, <3>1
    <3>5. \A o \in DOMAIN queue' : queue'[o].path = p => o \in DOMAIN queue
      BY <2>1, <3>2, <3>3
    <3>6. QED
      BY <3>3, <3>4, <3>5 DEF RowsLeft
  <2>2. ASSUME NEW r \in Paths, EnqueueChange(r) PROVE RowsLeft(p)
    <3>1. r # p /\ scan.new \in Stamps /\ scan.old[r].version \in Nat
      BY <1>t, <2>2 DEF ScanTypes, Entry
    <3>2. QED
      BY <2>1, <2>2, <3>1 DEF EnqueueChange
  <2>3. ASSUME NEW r \in Paths, CancelOrEnqueueDelete(r) PROVE RowsLeft(p)
    <3>1. r # p /\ NoFile \in Stamps /\ scan.old[r].version \in Nat
      BY <1>t, <2>3, BoundsOK DEF ScanTypes, Entry, NoFile, Stamps
    <3>2. CASE queue' = Cancelled(r)
      BY <1>c, <1>t, <3>1, <3>2 DEF RowsLeft, Cancelled
    <3>3. CASE queue' = Enqueued(r, NoFile, scan.old[r].version)
      BY <2>1, <3>1, <3>3
    <3>4. QED
      BY <2>3, <3>2, <3>3 DEF CancelOrEnqueueDelete
  <2>4. CASE BeginScan \/ ListMissing \/ CompleteScan
    BY <1>0, <2>4 DEF BeginScan, ListMissing, CompleteScan
  <2>5. ASSUME NEW r \in Paths,
               \/ WalkPast(r) \/ ReadEntry(r) \/ ScanCapture(r) \/ ScanMissesFile(r)
               \/ UpsertSame(r) \/ UpsertChange(r) \/ UpsertMissing(r)
        PROVE  RowsLeft(p)
    BY <1>0, <2>5 DEF WalkPast, ReadEntry, ScanCapture, ScanMissesFile, MarkSeen, UpsertSame,
       UpsertChange, UpsertMissing
  <2>6. QED
    BY <1>4, <2>2, <2>3, <2>4, <2>5 DEF Scanner
<1>5. QED
  BY <1>1, <1>2, <1>3, <1>4 DEF Next

\* An answer is remembered only together with the version that it names.
LEMMA AnswersKnownStep ==
  ASSUME AgentInv, AnswersKnown, [Next]_vars
  PROVE  AnswersKnown'
<1>t. ScanTypes /\ WorkTypes /\ queue \in Seq(Operation) /\ log \in Seq(Version)
  BY DEF AgentInv, WorkTypes
<1>g. /\ \A i \in DOMAIN log : i \in DOMAIN log' /\ log'[i] = log[i]
      /\ RowsGrow
  BY Growth
<1>1. work'.answer > 0 => \E i \in DOMAIN log' : log'[i].op = work'.op
  <2> DEFINE G == work'.answer > 0 => \E i \in DOMAIN log' : log'[i].op = work'.op
  <2>w. work \in [step : Steps \cup {"down", "idle"}, op : Nat, answer : Nat \cup {Conflict}]
    BY <1>t DEF WorkTypes
  <2>s. ASSUME work'.op = work.op, work'.answer = work.answer PROVE G
    BY <1>g, <2>s DEF AnswersKnown
  <2>1. ASSUME NEW o \in network, ServerCommit(o) PROVE G
    <3>1. CASE work' = work
      BY <2>s, <3>1
    <3>2. ASSUME work.op = o, NEW a \in Nat \cup {Conflict}, work' = [work EXCEPT !.answer = a],
                 a > 0 => a \in DOMAIN log' /\ log'[a].op = o
          PROVE  G
      BY <2>w, <3>2
    <3>3. QED
      BY <2>1, <3>1, <3>2, CommitAnswers
  <2>2. ASSUME Proceeds PROVE G
    <3>1. CASE work' = work
      BY <2>s, <3>1
    <3>2. ASSUME NEW step \in Steps, work' = [work EXCEPT !.step = step] PROVE G
      <4>1. work'.op = work.op /\ work'.answer = work.answer
        BY <2>w, <3>2
      <4>2. QED
        BY <2>s, <4>1
    <3>3. CASE work' \in [step : {"capture", "idle", "down"}, op : Nat, answer : {0}]
      BY <3>3
    <3>4. QED
      BY <2>2, <3>1, <3>2, <3>3 DEF Proceeds
  <2>3. ASSUME NEW p \in Paths, NEW stamp \in Stamps, Queues(p, stamp) PROVE G
    BY <2>s, <2>3 DEF Queues
  <2>4. QED
    BY <1>t, <2>1, <2>2, <2>3, RowStep
<1>2. \A i \in DOMAIN log' : log'[i].stamp = queue'[log'[i].op].stamp
  <2> SUFFICES ASSUME NEW i \in DOMAIN log' PROVE log'[i].stamp = queue'[log'[i].op].stamp
    OBVIOUS
  <2>1. CASE i \in DOMAIN log
    <3>1. log[i].stamp = queue[log[i].op].stamp /\ log[i].op \in DOMAIN queue
      BY <1>t, <2>1 DEF AnswersKnown, WorkTypes
    <3>2. QED
      BY <1>g, <2>1, <3>1 DEF RowsGrow
  <2>2. CASE i \notin DOMAIN log
    <3>1. PICK o \in network : ServerCommit(o)
      BY <2>2, LogStep
    <3> DEFINE new == [path |-> queue[o].path, stamp |-> queue[o].stamp, op |-> o]
    <3>2. queue' = queue /\ log' = Append(log, new)
      BY <2>2, <3>1, CommitAnswers
    <3>3. o \in DOMAIN queue /\ o \in Nat /\ queue[o].path \in Paths /\ queue[o].stamp \in Stamps
      BY <1>t, RowTypes DEF WorkTypes
    <3>4. new \in Version /\ new.stamp = queue[o].stamp /\ new.op = o
      BY <3>3 DEF Version
    <3> HIDE DEF new
    <3>5. log'[i] = new
      BY <1>t, <2>2, <3>2, <3>4, AppendedLog
    <3>6. QED
      BY <3>2, <3>4, <3>5
  <2>3. QED
    BY <2>1, <2>2
<1>3. QED
  BY <1>1, <1>2 DEF AnswersKnown

\* The scanner's view of a row, all but the server version, does not change.
EntryStays(p) ==
    /\ entry'[p].found = entry[p].found
    /\ entry'[p].present = entry[p].present
    /\ entry'[p].stamp = entry[p].stamp

\* The row that UpsertEntry writes.
LEMMA UpsertedRow ==
  ASSUME entry \in [Paths -> Entry], NEW p \in Paths, NEW present \in BOOLEAN, NEW stamp, NEW version,
         entry' = Upserted(p, present, stamp, version)
  PROVE  /\ entry'[p].found = TRUE /\ entry'[p].present = present /\ entry'[p].stamp = stamp
         /\ \A q \in Paths \ {p} : entry'[q] = entry[q]
<1> DEFINE row == [found |-> TRUE, present |-> present, stamp |-> stamp,
                   version |-> IF version # 0 THEN version ELSE entry[p].version]
<1>1. entry' = [entry EXCEPT ![p] = row]
  BY DEF Upserted
<1>2. row.found = TRUE /\ row.present = present /\ row.stamp = stamp
  OBVIOUS
<1> HIDE DEF row
<1>3. QED
  BY <1>1, <1>2

\* How a step may change the row of a path.
LEMMA EntryStep ==
  ASSUME AgentInv, ScanKnows, [Next]_vars, NEW p \in Paths
  PROVE  \/ EntryStays(p)
         \/ UpsertChange(p) /\ entry'[p].found /\ entry'[p].present /\ entry'[p].stamp = scan.new
         \/ UpsertMissing(p) /\ entry'[p].found /\ ~ entry'[p].present /\ entry'[p].stamp = NoFile
         \/ MarkSeen(p) /\ entry[p].found
               /\ entry'[p].found /\ entry'[p].present /\ entry'[p].stamp = entry[p].stamp
<1> DEFINE G == \/ EntryStays(p)
                \/ UpsertChange(p) /\ entry'[p].found /\ entry'[p].present /\ entry'[p].stamp = scan.new
                \/ UpsertMissing(p) /\ entry'[p].found /\ ~ entry'[p].present /\ entry'[p].stamp = NoFile
                \/ MarkSeen(p) /\ entry[p].found
                      /\ entry'[p].found /\ entry'[p].present /\ entry'[p].stamp = entry[p].stamp
<1>t. entry \in [Paths -> Entry] /\ scan.path \subseteq Paths
  BY DEF AgentInv, ScanTypes
<1> USE DEF tableVars, userVars, serverVars
<1>0. ASSUME entry'[p] = entry[p] PROVE G
  BY <1>0 DEF EntryStays
<1>m. ASSUME NEW r \in Paths, MarkSeen(r) PROVE G
  <2>1. r \in scan.path /\ scan.old[r].found = entry[r].found
    BY <1>m DEF MarkSeen, ScanKnows, Pending, Reads
  <2>2. CASE p \in Marked(r)
    <3>1. p = r /\ entry[p].found
      BY <2>1, <2>2 DEF Marked
    <3>2. entry'[p] = [entry[p] EXCEPT !.present = TRUE] /\ entry[p] \in Entry
      BY <1>t, <1>m, <2>2 DEF MarkSeen
    <3>3. entry'[p].present /\ entry'[p].found = entry[p].found /\ entry'[p].stamp = entry[p].stamp
      BY <3>2 DEF Entry
    <3>4. QED
      BY <1>m, <3>1, <3>3
  <2>3. CASE p \notin Marked(r)
    BY <1>0, <1>m, <2>3 DEF MarkSeen
  <2>4. QED
    BY <2>2, <2>3
<1>1. CASE User \/ Server \/ UNCHANGED vars
  BY <1>0, <1>1 DEF User, Write, Remove, Server, ServerCommit, vars
<1>2. CASE Processor
  <2>1. CASE SetServerVersion
    <3>1. CASE entry' = [entry EXCEPT ![queue[work.op].path].version = work.answer]
      <4>1. entry[p] \in Entry
        BY <1>t
      <4>2. entry'[p] = entry[p] \/ entry'[p] = [entry[p] EXCEPT !.version = work.answer]
        BY <1>t, <3>1
      <4>3. EntryStays(p)
        BY <4>1, <4>2 DEF EntryStays, Entry
      <4>4. QED
        BY <4>3
    <3>2. CASE UNCHANGED entry
      BY <1>0, <3>2
    <3>3. QED
      BY <2>1, <3>1, <3>2 DEF SetServerVersion
  <2>2. CASE ~ SetServerVersion
    BY <1>0, <1>2, <2>2 DEF Processor, Start, ClaimNext, Capture, BeginUpload, Upload, SendCommit,
       ReceiveAnswer, Complete
  <2>3. QED
    BY <2>1, <2>2
<1>3. CASE Failure
  <2>1. CASE CallFails \/ CommitFails \/ Crash \/ ScanFails
    BY <1>0, <2>1 DEF CallFails, CommitFails, Crash, ScanFails
  <2>2. ASSUME NEW r \in Paths, ScanCaptureFails(r) PROVE G
    BY <1>m, <2>2 DEF ScanCaptureFails
  <2>3. QED
    BY <1>3, <2>1, <2>2 DEF Failure
<1>4. CASE Scanner
  <2>1. ASSUME NEW r \in Paths, UpsertSame(r) PROVE G
    <3>1. /\ scan.old[r].stamp = entry[r].stamp
          /\ entry[r].found = TRUE /\ entry[r].present = TRUE
      BY <1>t, <2>1 DEF UpsertSame, ScanKnows, Pending, Reads, Entry
    <3>2. /\ entry'[r].found = TRUE /\ entry'[r].present = TRUE
          /\ entry'[r].stamp = scan.old[r].stamp
          /\ \A q \in Paths \ {r} : entry'[q] = entry[q]
      BY <1>t, <2>1, UpsertedRow DEF UpsertSame
    <3>3. EntryStays(p)
      BY <3>1, <3>2 DEF EntryStays
    <3>4. QED
      BY <3>3
  <2>2. ASSUME NEW r \in Paths, UpsertChange(r) PROVE G
    <3>1. /\ entry'[r].found = TRUE /\ entry'[r].present = TRUE
          /\ entry'[r].stamp = scan.new
          /\ \A q \in Paths \ {r} : entry'[q] = entry[q]
      BY <1>t, <2>2, UpsertedRow DEF UpsertChange
    <3>2. CASE p = r
      BY <2>2, <3>1, <3>2
    <3>3. CASE p # r
      BY <1>0, <3>1, <3>3
    <3>4. QED
      BY <3>2, <3>3
  <2>3. ASSUME NEW r \in Paths, UpsertMissing(r) PROVE G
    <3>1. /\ entry'[r].found = TRUE /\ entry'[r].present = FALSE
          /\ entry'[r].stamp = NoFile
          /\ \A q \in Paths \ {r} : entry'[q] = entry[q]
      BY <1>t, <2>3, UpsertedRow DEF UpsertMissing
    <3>2. CASE p = r
      BY <2>3, <3>1, <3>2
    <3>3. CASE p # r
      BY <1>0, <3>1, <3>3
    <3>4. QED
      BY <3>2, <3>3
  <2>4. ASSUME NEW r \in Paths, ScanMissesFile(r) PROVE G
    BY <1>m, <2>4 DEF ScanMissesFile
  <2>5. CASE BeginScan \/ ListMissing \/ CompleteScan
    BY <1>0, <2>5 DEF BeginScan, ListMissing, CompleteScan
  <2>6. ASSUME NEW r \in Paths,
               \/ WalkPast(r) \/ ReadEntry(r) \/ ScanCapture(r)
               \/ EnqueueChange(r) \/ CancelOrEnqueueDelete(r)
        PROVE  G
    BY <1>0, <2>6 DEF WalkPast, ReadEntry, ScanCapture, EnqueueChange, CancelOrEnqueueDelete
  <2>7. QED
    BY <1>4, <2>1, <2>2, <2>3, <2>4, <2>5, <2>6 DEF Scanner
<1>5. QED
  BY <1>1, <1>2, <1>3, <1>4 DEF Next

\* Only the user's steps change files, and each is one more edit.
LEMMA EditsStep ==
  ASSUME AgentInv, [Next]_vars
  PROVE  /\ edits \in Nat /\ edits' \in Nat /\ edits <= edits'
         /\ ~ User => UNCHANGED userVars
<1>t. edits \in Nat
  BY BoundsOK DEF AgentInv, ScanTypes, Stamps
<1> DEFINE G == edits' \in Nat /\ edits <= edits' /\ (~ User => UNCHANGED userVars)
<1>0. ASSUME UNCHANGED userVars PROVE G
  BY <1>t, <1>0 DEF userVars
<1> SUFFICES G
  BY <1>t
<1> HIDE DEF G
<1>1. CASE User
  BY <1>t, <1>1 DEF G, User, Write, Remove, userVars
<1>2. CASE UNCHANGED vars
  BY <1>0, <1>2 DEF vars
<1>3. CASE Server
  BY <1>0, <1>3 DEF Server, ServerCommit
<1>4. CASE Processor
  BY <1>0, <1>4 DEF Processor, Start, ClaimNext, Capture, BeginUpload, Upload, SendCommit,
     ReceiveAnswer, SetServerVersion, Complete
<1>5. CASE Failure
  BY <1>0, <1>5 DEF Failure, CallFails, CommitFails, Crash, ScanFails, ScanCaptureFails, MarkSeen
<1>6. CASE Scanner
  BY <1>0, <1>6 DEF Scanner, BeginScan, ListMissing, CompleteScan, WalkPast, ReadEntry, ScanCapture,
     ScanMissesFile, MarkSeen, UpsertSame, EnqueueChange, UpsertChange, CancelOrEnqueueDelete, UpsertMissing
<1>7. QED
  BY <1>1, <1>2, <1>3, <1>4, <1>5, <1>6 DEF Next

\* How a step may change a file: the user writes one that was not there before
\* or removes it.
LEMMA DiskStep ==
  ASSUME AgentInv, [Next]_vars, NEW p \in Paths
  PROVE  \/ disk'[p] = disk[p]
         \/ disk'[p] = NoFile /\ p \in gone'
         \/ disk'[p] = edits + 1 /\ edits' = edits + 1
<1>t. disk \in [Paths -> Stamps]
  BY DEF AgentInv, ScanTypes
<1>1. ASSUME NEW r \in Paths, Write(r)
      PROVE  disk'[p] = disk[p] \/ (disk'[p] = edits + 1 /\ edits' = edits + 1)
  BY <1>t, <1>1 DEF Write
<1>2. ASSUME NEW r \in Paths, Remove(r)
      PROVE  disk'[p] = disk[p] \/ (disk'[p] = NoFile /\ p \in gone')
  BY <1>t, <1>2 DEF Remove
<1>3. CASE ~ User
  BY <1>3, EditsStep DEF userVars
<1>4. QED
  BY <1>1, <1>2, <1>3 DEF User

\* The past stays the past.
LEMMA PastStays ==
  ASSUME AgentInv, [Next]_vars, NEW p \in Paths, NEW stamp \in Nat, stamp <= edits
  PROVE  Past(p, stamp) => Past(p, stamp)'
<1>1. SUFFICES ASSUME stamp # NoFile, stamp # disk[p] PROVE stamp # disk'[p]
  BY DEF Past
<1>2. QED
  BY <1>1, DiskStep, EditsStep

\* Whatever is not a step of the scanner leaves it what it knows: the user's writes
\* are new files, and what the user removes is gone.
LEMMA OthersKeepScan ==
  ASSUME AgentInv, ScannerInv, [Next]_vars, UNCHANGED <<scan, seen>>, gone \subseteq gone',
         \A p \in Paths : EntryStays(p) /\ RowsLeft(p)
  PROVE  ScanKnows'
<1>t. /\ scan.path \subseteq Paths /\ scan.todo \subseteq Paths /\ scan.new \in Nat
      /\ \A p \in Paths : entry[p].stamp \in Nat
      /\ edits \in Nat /\ scan.step \in ScanSteps
      /\ \A p \in Paths : entry[p].stamp <= edits
  BY BoundsOK DEF AgentInv, ScanTypes, Stamps, Entry, ScannerInv, StampsMade
<1>k. ScanKnows
  BY DEF ScannerInv
<1>e. \A p \in Paths : /\ entry'[p].found = entry[p].found
                       /\ entry'[p].present = entry[p].present
                       /\ entry'[p].stamp = entry[p].stamp
  BY DEF EntryStays
<1>p. \A p \in Paths : Past(p, entry[p].stamp) => Past(p, entry[p].stamp)'
  <2> SUFFICES ASSUME NEW p \in Paths, Past(p, entry[p].stamp) PROVE Past(p, entry[p].stamp)'
    OBVIOUS
  <2>1. ASSUME NEW s \in Nat, s = entry[p].stamp PROVE Past(p, s)'
    BY <1>t, <2>1, PastStays
  <2>2. QED
    BY <1>e, <1>t, <2>1 DEF Past
<1>1. /\ scan.step \in {"idle", "walk", "missing"} => scan.path = {}
      /\ \A p, q \in scan.path : p = q
      /\ scan.path \cap scan.todo = {}
  BY <1>k DEF ScanKnows
<1>2. scan.step # "idle" => \A p \in Paths : disk'[p] = NoFile => p \in gone'
  <2> SUFFICES ASSUME scan.step # "idle", NEW p \in Paths, disk'[p] = NoFile PROVE p \in gone'
    OBVIOUS
  <2>1. disk'[p] # edits + 1
    BY <1>t DEF NoFile
  <2>2. disk[p] = NoFile \/ p \in gone'
    BY <2>1, DiskStep
  <2>3. QED
    BY <1>k, <2>2 DEF ScanKnows
<1>3. \A p \in Pending : Reads(p)'
  <2> SUFFICES ASSUME NEW p \in Pending PROVE Reads(p)'
    OBVIOUS
  <2>1. Reads(p) /\ p \in Paths
    BY <1>k, <1>t DEF ScanKnows, Pending
  <2>2. QED
    BY <1>e, <2>1 DEF Reads
<1>4. scan.step \in WalkSteps => \A p \in Paths \ (scan.todo \cup scan.path) : Passed(p)'
  <2> SUFFICES ASSUME scan.step \in WalkSteps, NEW p \in Paths \ (scan.todo \cup scan.path)
      PROVE Passed(p)'
    OBVIOUS
  <2>1. Passed(p)
    BY <1>k DEF ScanKnows
  <2>2. QED
    BY <1>e, <1>p, <2>1 DEF Passed
<1>5. scan.step \in AbsentSteps => \A p \in Pending : Past(p, entry[p].stamp)'
  <2> SUFFICES ASSUME scan.step \in AbsentSteps, NEW p \in Pending PROVE Past(p, entry[p].stamp)'
    OBVIOUS
  <2>1. Past(p, entry[p].stamp) /\ p \in Paths
    BY <1>k, <1>t DEF ScanKnows, Pending
  <2>2. QED
    BY <1>p, <2>1
<1>6. scan.step \in AbsentSteps => scan.todo \subseteq gone'
  BY <1>k DEF ScanKnows
<1>7. scan.step = "same" => \A p \in scan.path : entry'[p].found /\ entry'[p].present
  BY <1>e, <1>k, <1>t DEF ScanKnows
<1>8. scan.step \in {"enqueue", "upsert"} =>
        scan.new # NoFile /\ \A p \in scan.path : Past(p, entry[p].stamp)'
  <2>1. scan.step \in {"enqueue", "upsert"} =>
          scan.new # NoFile /\ \A p \in scan.path : Past(p, entry[p].stamp)
    BY <1>k DEF ScanKnows
  <2>2. QED
    BY <1>p, <1>t, <2>1
<1>9. scan.step = "upsert" => \A p \in scan.path : Handled(p, scan.new)'
  <2> SUFFICES ASSUME scan.step = "upsert", NEW p \in scan.path PROVE Handled(p, scan.new)'
    OBVIOUS
  <2>1. Handled(p, scan.new) /\ p \in Paths
    BY <1>k, <1>t DEF ScanKnows
  <2>2. \A o \in DOMAIN queue : o \in DOMAIN queue' /\ queue'[o].path = queue[o].path
    BY Growth DEF RowsGrow
  <2>3. ASSUME NEW s, s = scan.new PROVE Handled(p, s)'
    BY <2>1, <2>2, <2>3, HandledStays, Growth
  <2>4. QED
    BY <2>3 DEF Handled
<1>10. QED
  BY <1>1, <1>2, <1>3, <1>4, <1>5, <1>6, <1>7, <1>8, <1>9 DEF ScanKnows, Pending

\* A scan that ends, whether done, failed or killed, knows nothing any more.
LEMMA NoScanKnows == scan' = NoScan => ScanKnows'
  BY DEF NoScan, ScanKnows, Pending, WalkSteps, AbsentSteps

\* The steps of the scanner that read: BeginScan, the walk, the look at a file, and
\* the list of what is missing.
LEMMA ReadingKnows ==
  ASSUME AgentInv, ScannerInv, NEW p,
         BeginScan \/ WalkPast(p) \/ ReadEntry(p) \/ ScanCapture(p) \/ ListMissing
  PROVE  ScanKnows'
<1>t. /\ scan \in [step : ScanSteps, todo : SUBSET Paths, path : SUBSET Paths,
                   old : [Paths -> Entry], new : Stamps]
      /\ disk \in [Paths -> Stamps] /\ entry \in [Paths -> Entry]
  BY DEF AgentInv, ScanTypes
<1>k. ScanKnows /\ RowsPlain
  BY DEF ScannerInv
<1> USE DEF tableVars, userVars, serverVars
<1>1. CASE BeginScan
  <2>1. /\ scan'.step = "walk" /\ scan'.todo = Paths /\ scan'.path = scan.path
        /\ gone' = {r \in Paths : disk[r] = NoFile} /\ UNCHANGED <<disk, entry>>
        /\ scan.step = "idle"
    BY <1>t, <1>1 DEF BeginScan
  <2>2. scan.path = {}
    BY <1>k, <2>1 DEF ScanKnows
  <2>3. QED
    BY <2>1, <2>2 DEF ScanKnows, Pending, WalkSteps, AbsentSteps
<1>2. CASE WalkPast(p)
  <2>1. /\ scan'.step = "walk" /\ scan'.todo = scan.todo \ {p} /\ scan'.path = scan.path
        /\ scan.step = "walk" /\ disk[p] = NoFile
        /\ UNCHANGED <<disk, entry, gone, seen>>
    BY <1>t, <1>2 DEF WalkPast
  <2>2. scan.path = {} /\ p \in Paths /\ p \in gone
    BY <1>t, <1>k, <1>2, <2>1 DEF ScanKnows, WalkPast
  <2>3. \A q \in Paths : disk[q] = NoFile => q \in gone
    BY <1>k, <2>1 DEF ScanKnows
  <2>4. \A q \in Paths \ scan.todo : Passed(q)
    BY <1>k, <2>1, <2>2 DEF ScanKnows, WalkSteps
  <2>5. Passed(p)
    BY <2>1, <2>2 DEF Passed, Past
  <2>6. \A q \in Paths \ scan'.todo : Passed(q)'
    BY <2>1, <2>4, <2>5 DEF Passed, Past
  <2>7. QED
    BY <2>1, <2>2, <2>3, <2>6 DEF ScanKnows, Pending, WalkSteps, AbsentSteps
<1>3. CASE ReadEntry(p)
  <2>1. /\ scan'.step = "capture" /\ scan'.todo = scan.todo \ {p} /\ scan'.path = {p}
        /\ scan'.old[p] = entry[p] /\ scan.step = "walk"
        /\ UNCHANGED <<disk, entry, gone, seen>>
    BY <1>t, <1>3 DEF ReadEntry
  <2>2. scan.path = {}
    BY <1>k, <2>1 DEF ScanKnows
  <2>3. \A q \in Paths : disk[q] = NoFile => q \in gone
    BY <1>k, <2>1 DEF ScanKnows
  <2>4. \A q \in Paths \ scan.todo : Passed(q)
    BY <1>k, <2>1, <2>2 DEF ScanKnows, WalkSteps
  <2>5. \A q \in Paths \ (scan'.todo \cup scan'.path) : Passed(q)'
    BY <2>1, <2>4 DEF Passed, Past
  <2>6. Reads(p)'
    BY <2>1 DEF Reads
  <2>7. QED
    BY <2>1, <2>3, <2>5, <2>6 DEF ScanKnows, Pending, WalkSteps, AbsentSteps
<1>4. CASE ScanCapture(p)
  <2>1. /\ scan'.todo = scan.todo /\ scan'.path = scan.path /\ scan'.old = scan.old
        /\ scan'.new = disk[p] /\ disk[p] # NoFile
        /\ scan'.step = IF Unchanged(scan.old[p], disk[p]) THEN "same" ELSE "enqueue"
        /\ p \in Paths /\ p \in scan.path /\ scan.step = "capture"
        /\ UNCHANGED <<disk, entry, gone, seen>>
    BY <1>t, <1>4 DEF ScanCapture, FirstWrite
  <2>2. /\ scan.path \cap scan.todo = {} /\ \A q \in scan.path : q = p
        /\ \A q \in Paths : disk[q] = NoFile => q \in gone
        /\ Reads(p)
        /\ \A q \in Paths \ (scan.todo \cup scan.path) : Passed(q)
    BY <1>k, <2>1 DEF ScanKnows, Pending, WalkSteps
  <2>3. Reads(p)' /\ \A q \in Paths \ (scan'.todo \cup scan'.path) : Passed(q)'
    BY <2>1, <2>2 DEF Reads, Passed, Past
  <2>4. CASE scan'.step = "same"
    <3>1. entry[p].found /\ entry[p].present
      BY <2>1, <2>2, <2>4 DEF Unchanged, Reads
    <3>2. QED
      BY <2>1, <2>2, <2>3, <2>4, <3>1 DEF ScanKnows, Pending, WalkSteps, AbsentSteps
  <2>5. CASE scan'.step = "enqueue"
    <3>1. Past(p, entry[p].stamp)
      BY <1>k, <2>1, <2>2, <2>5 DEF Unchanged, Reads, Past, RowsPlain
    <3>2. Past(p, entry[p].stamp)'
      BY <2>1, <3>1 DEF Past
    <3>3. QED
      BY <2>1, <2>2, <2>3, <2>5, <3>2 DEF ScanKnows, Pending, WalkSteps, AbsentSteps
  <2>6. QED
    BY <2>1, <2>4, <2>5
<1>5. CASE ListMissing
  <2> DEFINE missing == {q \in Paths : entry[q].present /\ q \notin seen}
  <2>1. /\ scan'.step = "missing" /\ scan'.todo = missing /\ scan'.path = scan.path
        /\ \A q \in missing : scan'.old[q] = entry[q]
        /\ scan.step = "walk" /\ scan.todo = {}
        /\ UNCHANGED <<disk, entry, gone, seen>>
    BY <1>t, <1>5 DEF ListMissing
  <2>2. scan.path = {} /\ \A q \in Paths : Passed(q)
    BY <1>k, <2>1 DEF ScanKnows, WalkSteps
  <2>3. \A q \in missing : q \in gone /\ Past(q, entry[q].stamp)
    BY <2>2 DEF Passed
  <2>4. \A q \in missing : Past(q, entry[q].stamp)' /\ Reads(q)'
    BY <2>1, <2>3 DEF Past, Reads
  <2>5. \A q \in Paths : disk[q] = NoFile => q \in gone
    BY <1>k, <2>1 DEF ScanKnows
  <2> HIDE DEF missing
  <2>6. QED
    BY <2>1, <2>2, <2>3, <2>4, <2>5 DEF ScanKnows, Pending, WalkSteps, AbsentSteps
<1>6. QED
  BY <1>1, <1>2, <1>3, <1>4, <1>5

\* A file that Scan has dealt with was seen, or is no row: it goes on with the next.
LEMMA NextFileKnows ==
  ASSUME AgentInv, ScannerInv, NEW p \in scan.path, scan.step \in WalkSteps,
         scan' = NextFile, UNCHANGED <<disk, gone>>, seen \subseteq seen',
         p \in seen' \/ ~ entry'[p].present,
         \A q \in Paths \ {p} : entry'[q] = entry[q]
  PROVE  ScanKnows'
<1>t. scan \in [step : ScanSteps, todo : SUBSET Paths, path : SUBSET Paths,
                old : [Paths -> Entry], new : Stamps]
  BY DEF AgentInv, ScanTypes
<1>1. scan'.step = "walk" /\ scan'.todo = scan.todo /\ scan'.path = {}
  BY <1>t DEF NextFile
<1>2. /\ \A q \in Paths : disk[q] = NoFile => q \in gone
      /\ \A q \in Paths \ (scan.todo \cup scan.path) : Passed(q)
      /\ \A q \in scan.path : q = p
  BY DEF ScannerInv, ScanKnows, WalkSteps
<1>3. \A q \in Paths \ scan.todo : Passed(q)'
  BY <1>2 DEF Passed, Past
<1>4. QED
  BY <1>1, <1>2, <1>3 DEF ScanKnows, Pending, WalkSteps, AbsentSteps

\* MarkSeen and UpsertEntry, after which a file is dealt with.
LEMMA MarkingKnows ==
  ASSUME AgentInv, ScannerInv, NEW p \in Paths, MarkSeen(p) \/ UpsertSame(p) \/ UpsertChange(p)
  PROVE  ScanKnows'
<1>t. entry \in [Paths -> Entry]
  BY DEF AgentInv, ScanTypes
<1> USE DEF tableVars, userVars, serverVars
<1>1. CASE MarkSeen(p)
  <2>1. p \in scan.path /\ scan.step = "capture"
    BY <1>1 DEF MarkSeen
  <2>2. scan.old[p].found = entry[p].found
    BY <2>1 DEF ScannerInv, ScanKnows, Pending, Reads
  <2>3. Marked(p) \subseteq {p} /\ \A q \in Paths \ Marked(p) : entry'[q] = entry[q]
    BY <1>1 DEF MarkSeen, Marked
  <2>4. p \in seen' \/ ~ entry'[p].present
    <3>1. CASE entry[p].found
      BY <1>1, <2>2, <3>1 DEF MarkSeen, Marked
    <3>2. CASE ~ entry[p].found
      <4>1. entry'[p] = entry[p]
        BY <2>2, <2>3, <3>2 DEF Marked
      <4>2. QED
        BY <3>2, <4>1 DEF ScannerInv, RowsPlain
    <3>3. QED
      BY <3>1, <3>2
  <2>5. /\ scan' = NextFile /\ UNCHANGED <<disk, gone>> /\ seen \subseteq seen'
        /\ scan.step \in WalkSteps
    BY <1>1, <2>1 DEF MarkSeen, WalkSteps
  <2>6. QED
    BY <2>1, <2>3, <2>4, <2>5, NextFileKnows
<1>2. CASE UpsertSame(p)
  <2>1. p \in scan.path /\ scan.step \in WalkSteps /\ p \in seen' /\ seen \subseteq seen'
        /\ scan' = NextFile /\ UNCHANGED <<disk, gone>>
    BY <1>2 DEF UpsertSame, WalkSteps
  <2>2. \A q \in Paths \ {p} : entry'[q] = entry[q]
    BY <1>t, <1>2, UpsertedRow DEF UpsertSame
  <2>3. QED
    BY <2>1, <2>2, NextFileKnows
<1>3. CASE UpsertChange(p)
  <2>1. p \in scan.path /\ scan.step \in WalkSteps /\ p \in seen' /\ seen \subseteq seen'
        /\ scan' = NextFile /\ UNCHANGED <<disk, gone>>
    BY <1>3 DEF UpsertChange, WalkSteps, AfterWrite, FirstWrite
  <2>2. \A q \in Paths \ {p} : entry'[q] = entry[q]
    BY <1>t, <1>3, UpsertedRow DEF UpsertChange
  <2>3. QED
    BY <2>1, <2>2, NextFileKnows
<1>4. QED
  BY <1>1, <1>2, <1>3

\* Enqueue makes the last operation of its path, and it is open.
LEMMA EnqueuedHandled ==
  ASSUME queue \in Seq(Operation), NEW p \in Paths, NEW stamp \in Stamps, NEW base \in Nat,
         queue' = Enqueued(p, stamp, base)
  PROVE  Handled(p, stamp)'
<1> DEFINE n == Len(queue) + 1
<1>1. /\ Len(queue) \in Nat /\ DOMAIN queue' = 1..n
      /\ queue'[n] = [path |-> p, stamp |-> stamp, base |-> base, state |-> "QUEUED"]
  BY EnqueuedRows
<1>2. n \in DOMAIN queue' /\ \A q \in DOMAIN queue' : q <= n
  BY <1>1
<1>3. queue'[n].path = p /\ queue'[n].stamp = stamp /\ queue'[n].state = "QUEUED"
  BY <1>1
<1>4. "QUEUED" \notin Closed
  BY DEF Closed
<1> HIDE DEF n
<1>5. QED
  BY <1>2, <1>3, <1>4 DEF Handled

\* Enqueue and CancelPath, and the upsert of a row whose file is missing.
LEMMA WritingKnows ==
  ASSUME AgentInv, ScannerInv, NEW p \in Paths,
         EnqueueChange(p) \/ CancelOrEnqueueDelete(p) \/ UpsertMissing(p)
  PROVE  ScanKnows'
<1>t. /\ scan \in [step : ScanSteps, todo : SUBSET Paths, path : SUBSET Paths,
                   old : [Paths -> Entry], new : Stamps]
      /\ entry \in [Paths -> Entry] /\ queue \in Seq(Operation)
  BY DEF AgentInv, ScanTypes, WorkTypes
<1>k. ScanKnows
  BY DEF ScannerInv
<1> USE DEF tableVars, userVars, serverVars
<1>1. CASE EnqueueChange(p)
  <2>1. SecondWrite = "upsert"
    BY DEF SecondWrite, FirstWrite
  <2>2. /\ scan'.step = "upsert" /\ scan'.todo = scan.todo /\ scan'.path = scan.path
        /\ scan'.old = scan.old /\ scan'.new = scan.new
        /\ scan.step = "enqueue" /\ p \in scan.path
        /\ UNCHANGED <<disk, entry, gone, seen>>
    BY <1>t, <1>1, <2>1 DEF EnqueueChange, AfterWrite, FirstWrite
  <2>3. scan.new \in Stamps /\ scan.old[p].version \in Nat
    BY <1>t DEF Entry
  <2>4. ASSUME NEW s \in Stamps, s = scan.new PROVE Handled(p, s)'
    BY <1>t, <1>1, <2>3, <2>4, EnqueuedHandled DEF EnqueueChange
  <2>5. Handled(p, scan.new)'
    BY <2>2, <2>3, <2>4 DEF Handled
  <2>6. /\ scan.path \cap scan.todo = {} /\ \A q \in scan.path : q = p
        /\ \A q \in Paths : disk[q] = NoFile => q \in gone
        /\ Reads(p) /\ scan.new # NoFile /\ Past(p, entry[p].stamp)
        /\ \A q \in Paths \ (scan.todo \cup scan.path) : Passed(q)
    BY <1>k, <2>2 DEF ScanKnows, Pending, WalkSteps
  <2>7. /\ Reads(p)' /\ Past(p, entry[p].stamp)'
        /\ \A q \in Paths \ (scan'.todo \cup scan'.path) : Passed(q)'
    BY <2>2, <2>6 DEF Reads, Passed, Past
  <2>8. QED
    BY <2>2, <2>5, <2>6, <2>7 DEF ScanKnows, Pending, WalkSteps, AbsentSteps
<1>2. CASE CancelOrEnqueueDelete(p)
  <2>1. /\ scan'.step = "absent" /\ scan'.todo = scan.todo \ {p} /\ scan'.path = {p}
        /\ scan'.old = scan.old
        /\ scan.step = "missing" /\ p \in scan.todo
        /\ UNCHANGED <<disk, entry, gone, seen>>
    BY <1>t, <1>2 DEF CancelOrEnqueueDelete
  <2>2. /\ \A q \in Paths : disk[q] = NoFile => q \in gone
        /\ \A q \in scan.todo : Reads(q) /\ Past(q, entry[q].stamp) /\ q \in gone
    BY <1>k, <2>1 DEF ScanKnows, Pending, AbsentSteps
  <2>3. \A q \in scan.todo : Reads(q)' /\ Past(q, entry[q].stamp)' /\ q \in gone'
    BY <2>1, <2>2 DEF Reads, Past
  <2>4. QED
    BY <2>1, <2>2, <2>3 DEF ScanKnows, Pending, WalkSteps, AbsentSteps
<1>3. CASE UpsertMissing(p)
  <2>1. /\ scan'.step = "missing" /\ scan'.todo = scan.todo /\ scan'.path = {}
        /\ \A q \in Paths \ {p} : scan'.old[q] = scan.old[q]
        /\ scan.step = "absent" /\ p \in scan.path
        /\ UNCHANGED <<disk, gone>>
    BY <1>t, <1>3 DEF UpsertMissing
  <2>2. \A q \in Paths \ {p} : entry'[q] = entry[q]
    BY <1>t, <1>3, UpsertedRow DEF UpsertMissing
  <2>3. /\ \A q \in Paths : disk[q] = NoFile => q \in gone
        /\ \A q \in scan.todo : q # p /\ Reads(q) /\ Past(q, entry[q].stamp) /\ q \in gone
    BY <1>k, <2>1 DEF ScanKnows, Pending, AbsentSteps
  <2>4. \A q \in scan.todo : Reads(q)' /\ Past(q, entry[q].stamp)' /\ q \in gone'
    BY <1>t, <2>1, <2>2, <2>3 DEF Reads, Past
  <2>5. QED
    BY <2>1, <2>3, <2>4 DEF ScanKnows, Pending, WalkSteps, AbsentSteps
<1>4. QED
  BY <1>1, <1>2, <1>3

\* Every step keeps what the scanner knows.
LEMMA ScanKnowsStep ==
  ASSUME AgentInv, ScannerInv, [Next]_vars
  PROVE  ScanKnows'
<1>k. ScanKnows /\ AnswersKnown
  BY DEF ScannerInv
<1> USE DEF tableVars, userVars, serverVars
<1>0. ASSUME UNCHANGED <<scan, seen>>, gone \subseteq gone',
             ~ \E p \in Paths : UpsertChange(p) \/ UpsertMissing(p) \/ MarkSeen(p)
                                \/ EnqueueChange(p) \/ CancelOrEnqueueDelete(p)
      PROVE  ScanKnows'
  <2>1. \A p \in Paths : EntryStays(p) /\ RowsLeft(p)
    BY <1>0, <1>k, EntryStep, RowsLeftStep
  <2>2. QED
    BY <1>0, <2>1, OthersKeepScan
<1>n. ASSUME UNCHANGED scan, NEW p \in Paths
      PROVE  ~ (UpsertChange(p) \/ UpsertMissing(p) \/ MarkSeen(p)
                \/ EnqueueChange(p) \/ CancelOrEnqueueDelete(p))
  <2>1. scan \in [step : ScanSteps, todo : SUBSET Paths, path : SUBSET Paths,
                  old : [Paths -> Entry], new : Stamps]
    BY DEF AgentInv, ScanTypes
  <2>2. /\ NextFile.step = "walk" /\ SecondWrite = "upsert"
        /\ \A step \in ScanSteps : [scan EXCEPT !.step = step].step = step
    BY <2>1 DEF NextFile, SecondWrite, FirstWrite
  <2>3. "upsert" \in ScanSteps
    BY DEF ScanSteps
  <2>4. ~ MarkSeen(p) /\ ~ UpsertChange(p)
    BY <1>n, <2>2 DEF MarkSeen, UpsertChange, AfterWrite, FirstWrite
  <2>5. ~ EnqueueChange(p)
    BY <1>n, <2>2, <2>3 DEF EnqueueChange, AfterWrite, FirstWrite
  <2>6. ~ UpsertMissing(p) /\ ~ CancelOrEnqueueDelete(p)
    BY <1>n, <2>1 DEF UpsertMissing, CancelOrEnqueueDelete
  <2>7. QED
    BY <2>4, <2>5, <2>6
<1>1. ASSUME UNCHANGED <<scan, seen>>, gone \subseteq gone' PROVE ScanKnows'
  BY <1>0, <1>1, <1>n
<1>2. CASE User \/ Server \/ UNCHANGED vars
  BY <1>1, <1>2 DEF User, Write, Remove, Server, ServerCommit, vars
<1>3. CASE Processor
  BY <1>1, <1>3 DEF Processor, Start, ClaimNext, Capture, BeginUpload, Upload, SendCommit,
     ReceiveAnswer, SetServerVersion, Complete
<1>4. CASE Failure
  <2>1. CASE CallFails \/ CommitFails
    BY <1>1, <2>1 DEF CallFails, CommitFails
  <2>2. CASE Crash \/ ScanFails
    BY <2>2, NoScanKnows DEF Crash, ScanFails
  <2>3. ASSUME NEW p \in Paths, ScanCaptureFails(p) PROVE ScanKnows'
    BY <2>3, MarkingKnows DEF ScanCaptureFails
  <2>4. QED
    BY <1>4, <2>1, <2>2, <2>3 DEF Failure
<1>5. CASE Scanner
  <2>1. CASE CompleteScan
    BY <2>1, NoScanKnows DEF CompleteScan
  <2>2. CASE BeginScan \/ ListMissing
    BY <2>2, ReadingKnows
  <2>3. ASSUME NEW p \in Paths, WalkPast(p) \/ ReadEntry(p) \/ ScanCapture(p) PROVE ScanKnows'
    BY <2>3, ReadingKnows
  <2>4. ASSUME NEW p \in Paths, ScanMissesFile(p) \/ UpsertSame(p) \/ UpsertChange(p)
        PROVE  ScanKnows'
    BY <2>4, MarkingKnows DEF ScanMissesFile
  <2>5. ASSUME NEW p \in Paths,
               EnqueueChange(p) \/ CancelOrEnqueueDelete(p) \/ UpsertMissing(p)
        PROVE  ScanKnows'
    BY <2>5, WritingKnows
  <2>6. QED
    BY <1>5, <2>1, <2>2, <2>3, <2>4, <2>5 DEF Scanner
<1>6. QED
  BY <1>2, <1>3, <1>4, <1>5 DEF Next

\* The stamp that Scan holds is one that it held, or the one at a path.
LEMMA NewStep ==
  ASSUME AgentInv, [Next]_vars
  PROVE  scan'.new \in {scan.new, NoFile} \/ \E p \in Paths : scan'.new = disk[p]
<1>t. scan \in [step : ScanSteps, todo : SUBSET Paths, path : SUBSET Paths,
                old : [Paths -> Entry], new : Stamps]
  BY DEF AgentInv, ScanTypes
<1> USE DEF tableVars, userVars, serverVars
<1>0. NextFile.new = NoFile /\ NoScan.new = NoFile /\ \A step : [scan EXCEPT !.step = step].new = scan.new
  BY <1>t DEF NextFile, NoScan
<1>1. CASE User \/ Server \/ UNCHANGED vars
  BY <1>1 DEF User, Write, Remove, Server, ServerCommit, vars
<1>2. CASE Processor
  BY <1>2 DEF Processor, Start, ClaimNext, Capture, BeginUpload, Upload, SendCommit, ReceiveAnswer,
     SetServerVersion, Complete
<1>3. CASE Failure
  BY <1>0, <1>3 DEF Failure, CallFails, CommitFails, Crash, ScanFails, ScanCaptureFails, MarkSeen
<1>4. CASE Scanner
  <2>1. CASE CompleteScan \/ BeginScan \/ ListMissing
    BY <1>0, <1>t, <2>1 DEF CompleteScan, BeginScan, ListMissing
  <2>2. ASSUME NEW p \in Paths, ScanMissesFile(p) \/ UpsertSame(p) \/ UpsertChange(p) \/ EnqueueChange(p)
        PROVE  scan'.new \in {scan.new, NoFile}
    BY <1>0, <2>2 DEF ScanMissesFile, MarkSeen, UpsertSame, UpsertChange, EnqueueChange, AfterWrite
  <2>3. ASSUME NEW p \in Paths, WalkPast(p) \/ ReadEntry(p) \/ CancelOrEnqueueDelete(p) \/ UpsertMissing(p)
        PROVE  scan'.new = scan.new
    BY <1>t, <2>3 DEF WalkPast, ReadEntry, CancelOrEnqueueDelete, UpsertMissing
  <2>4. ASSUME NEW p \in Paths, ScanCapture(p) PROVE scan'.new = disk[p]
    BY <1>t, <2>4 DEF ScanCapture
  <2>5. QED
    BY <1>4, <2>1, <2>2, <2>3, <2>4 DEF Scanner
<1>5. QED
  BY <1>1, <1>2, <1>3, <1>4 DEF Next

\* Stamps come from files, and rows from what the scanner has seen of them.
LEMMA RowsStep ==
  ASSUME AgentInv, ScannerInv, [Next]_vars
  PROVE  StampsMade' /\ RowsPlain'
<1>t. /\ edits \in Nat /\ scan.new \in Nat /\ scan.new <= edits
      /\ \A p \in Paths : /\ disk[p] \in Nat /\ disk[p] <= edits
                          /\ entry[p].stamp \in Nat /\ entry[p].stamp <= edits
  BY BoundsOK DEF AgentInv, ScanTypes, Stamps, Entry, ScannerInv, StampsMade
<1>g. edits' \in Nat /\ edits <= edits'
  BY EditsStep
<1>1. scan'.new <= edits'
  BY <1>g, <1>t, NewStep DEF NoFile
<1>2. \A p \in Paths : disk'[p] <= edits'
  <2> SUFFICES ASSUME NEW p \in Paths PROVE disk'[p] <= edits'
    OBVIOUS
  <2>1. QED
    BY <1>g, <1>t, DiskStep DEF NoFile
<1>3. ASSUME NEW p \in Paths
      PROVE  /\ entry'[p].stamp <= edits'
             /\ entry'[p].present => entry'[p].found
             /\ entry'[p].stamp # NoFile => entry'[p].present
  <2>1. /\ entry[p].present => entry[p].found
        /\ entry[p].stamp # NoFile => entry[p].present
    BY DEF ScannerInv, RowsPlain
  <2>2. \/ EntryStays(p)
        \/ entry'[p].found /\ entry'[p].present /\ entry'[p].stamp = scan.new
        \/ entry'[p].found /\ ~ entry'[p].present /\ entry'[p].stamp = NoFile
        \/ entry'[p].found /\ entry'[p].present /\ entry'[p].stamp = entry[p].stamp
    BY EntryStep DEF ScannerInv
  <2>3. CASE EntryStays(p)
    BY <1>g, <1>t, <2>1, <2>3 DEF EntryStays
  <2>4. CASE ~ EntryStays(p)
    BY <1>g, <1>t, <2>2, <2>4 DEF NoFile
  <2>5. QED
    BY <2>3, <2>4
<1>4. QED
  BY <1>1, <1>2, <1>3 DEF StampsMade, RowsPlain

\* An entry names a file that was handled when Scan writes it, which is after the
\* operation was queued, and as long as the file is there.
LEMMA EntriesHandledStep ==
  ASSUME AgentInv, ScannerInv, [Next]_vars
  PROVE  EntriesHandled'
<1> SUFFICES ASSUME NEW p \in Paths, ~ Past(p, entry[p].stamp)' PROVE Handled(p, entry[p].stamp)'
  BY DEF EntriesHandled
<1>t. entry[p].stamp \in Nat /\ entry[p].stamp <= edits /\ edits \in Nat
  BY BoundsOK DEF AgentInv, ScanTypes, Stamps, Entry, ScannerInv, StampsMade
<1>n. entry'[p].stamp # NoFile /\ entry'[p].stamp = disk'[p]
  BY DEF Past
<1>g. /\ \A i \in DOMAIN log : i \in DOMAIN log' /\ log'[i] = log[i]
      /\ \A o \in DOMAIN queue : o \in DOMAIN queue' /\ queue'[o].path = queue[o].path
  BY Growth DEF RowsGrow
<1>1. ASSUME entry'[p].stamp = entry[p].stamp PROVE Handled(p, entry[p].stamp)'
  <2>1. ~ Past(p, entry[p].stamp)
    <3>1. ASSUME NEW s \in Nat, s = entry[p].stamp, Past(p, s) PROVE FALSE
      <4>1. Past(p, s)'
        BY <1>t, <3>1, PastStays
      <4>2. QED
        BY <1>n, <1>1, <3>1, <4>1 DEF Past
    <3>2. QED
      BY <1>t, <3>1
  <2>2. Handled(p, entry[p].stamp)
    BY <2>1 DEF ScannerInv, EntriesHandled
  <2>3. ~ EnqueueChange(p)
    BY <2>1 DEF EnqueueChange, ScannerInv, ScanKnows
  <2>4. ~ CancelOrEnqueueDelete(p)
    BY <2>1 DEF CancelOrEnqueueDelete, ScannerInv, ScanKnows, AbsentSteps, Pending
  <2>5. RowsLeft(p)
    BY <2>3, <2>4, RowsLeftStep DEF ScannerInv
  <2>6. ASSUME NEW s, s = entry[p].stamp PROVE Handled(p, s)'
    BY <1>g, <2>2, <2>5, <2>6, HandledStays
  <2>7. QED
    BY <1>1, <2>6 DEF Handled
<1>2. CASE UpsertChange(p) /\ entry'[p].stamp = scan.new
  <2>1. Handled(p, scan.new)
    BY <1>2 DEF UpsertChange, ScannerInv, ScanKnows
  <2>2. UNCHANGED <<queue, log>>
    BY <1>2 DEF UpsertChange, serverVars
  <2>3. QED
    BY <1>2, <2>1, <2>2 DEF Handled
<1>3. QED
  BY <1>n, <1>1, <1>2, EntryStep DEF ScannerInv, EntryStays

\* At first there is nothing to know.
LEMMA ScannerInit == Init => ScannerInv
<1> SUFFICES ASSUME Init PROVE ScannerInv
  OBVIOUS
<1> USE DEF Init, NoFile, NoEntry, NoScan
<1>1. AnswersKnown
  BY DEF AnswersKnown
<1>2. StampsMade /\ RowsPlain
  BY DEF StampsMade, RowsPlain
<1>3. ScanKnows
  BY DEF ScanKnows, Pending, WalkSteps, AbsentSteps
<1>4. EntriesHandled
  BY DEF EntriesHandled, Past
<1>5. QED
  BY <1>1, <1>2, <1>3, <1>4 DEF ScannerInv

\* Every step keeps the invariant of the scanner.
LEMMA ScannerStep == AgentInv /\ ScannerInv /\ [Next]_vars => ScannerInv'
  BY AnswersKnownStep, RowsStep, ScanKnowsStep, EntriesHandledStep DEF ScannerInv

\* What was handled is on the server or on its way: the last operation of a path
\* made the newest version, since the versions follow the operations.
LEMMA HandledIsKept ==
  ASSUME AgentInv, AnswersKnown, NEW p \in Paths, NEW stamp, Handled(p, stamp)
  PROVE  HasVersion(p, stamp) \/ LiveOn(p)
<1>t. /\ log \in Seq(Version) /\ queue \in Seq(Operation)
      /\ \A i \in DOMAIN log : log[i].op \in DOMAIN queue /\ log[i].path = queue[log[i].op].path
      /\ \A i \in DOMAIN log : log[i].stamp = queue[log[i].op].stamp
  BY DEF AgentInv, WorkTypes, HistoryKnown, AnswersKnown
<1>1. PICK o \in DOMAIN queue :
        /\ queue[o].path = p /\ queue[o].stamp = stamp
        /\ \A q \in DOMAIN queue : queue[q].path = p => q <= o
        /\ queue[o].state \notin Closed \/ \E i \in DOMAIN log : log[i].op = o
  BY DEF Handled
<1>2. CASE queue[o].state \notin Closed
  BY <1>1, <1>2 DEF LiveOn
<1>3. ASSUME NEW i \in DOMAIN log, log[i].op = o PROVE HasVersion(p, stamp)
  <2>1. log[i].path = p /\ log[i].stamp = stamp
    BY <1>t, <1>1, <1>3
  <2> DEFINE head == ServerHead(p)
  <2>2. head # 0 /\ head \in DOMAIN log /\ log[head].path = p /\ i <= head
    BY <1>t, <1>3, <2>1, HeadIsNewest DEF AgentInv
  <2> HIDE DEF head
  <2>3. log[head].op <= o /\ log[head].op \in Nat /\ o \in Nat /\ i \in Nat /\ head \in Nat
    BY <1>t, <1>1, <2>2
  <2>4. i = head
    <3>1. i < head => log[i].op < log[head].op
      BY <1>3, <2>1, <2>2 DEF AgentInv, NewestWins
    <3>2. QED
      BY <1>3, <2>2, <2>3, <3>1
  <2>5. QED
    BY <2>1, <2>2, <2>4 DEF HasVersion, head
<1>4. QED
  BY <1>1, <1>2, <1>3

\* A file that Scan takes for known is on the server, or an operation on its path is
\* open: the entry is written after the operation is queued (Scan), so that no
\* crash, cancellation or lost answer makes the agent forget a change.
THEOREM NothingIsForgotten == Spec => []NothingForgotten
<1>1. AgentInv /\ ScannerInv => NothingForgotten
  <2> SUFFICES ASSUME AgentInv, ScannerInv, NEW p \in Paths,
                      disk[p] # NoFile, Unchanged(entry[p], disk[p])
      PROVE  HasVersion(p, disk[p]) \/ LiveOn(p)
    BY DEF NothingForgotten
  <2>1. ~ Past(p, entry[p].stamp) /\ entry[p].stamp = disk[p]
    BY DEF Unchanged, Past
  <2>2. Handled(p, disk[p])
    BY <2>1 DEF ScannerInv, EntriesHandled
  <2>3. QED
    BY <2>2, HandledIsKept DEF ScannerInv
<1>2. QED
  BY <1>1, AgentInit, AgentStep, ScannerInit, ScannerStep, PTL DEF Spec

\* Scan queues a DELETE only for a path without a file at some time of the scan:
\* a file that it could not read was marked as seen (MarkSeen), and MissingEntries
\* does not list it.
THEOREM DeletesAreAlwaysReal == Spec => DeletesAreReal
<1> DEFINE Real == \A o \in DOMAIN queue' \ DOMAIN queue :
                       queue'[o].stamp = NoFile => queue'[o].path \in gone
<1>1. AgentInv /\ ScannerInv /\ [Next]_vars => Real
  <2> SUFFICES ASSUME AgentInv, ScannerInv, [Next]_vars,
                      NEW o \in DOMAIN queue' \ DOMAIN queue, queue'[o].stamp = NoFile
      PROVE  queue'[o].path \in gone
    OBVIOUS
  <2>t. /\ scan \in [step : ScanSteps, todo : SUBSET Paths, path : SUBSET Paths,
                     old : [Paths -> Entry], new : Stamps]
        /\ queue \in Seq(Operation)
    BY DEF AgentInv, ScanTypes, WorkTypes
  <2>1. queue' \in Seq(Operation)
    BY AgentStep DEF AgentInv, WorkTypes
  <2>2. queue'[o].path \in Paths
    <3>1. queue'[o] \in Operation
      BY <2>1
    <3>2. QED
      BY <3>1 DEF Operation
  <2>3. ASSUME NEW p \in Paths, p = queue'[o].path PROVE p \in gone
    <3>1. ~ RowsLeft(p)
      BY <2>3 DEF RowsLeft
    <3>2. EnqueueChange(p) \/ CancelOrEnqueueDelete(p)
      BY <3>1, RowsLeftStep DEF ScannerInv
    <3>3. CASE EnqueueChange(p)
      <4> DEFINE n == Len(queue) + 1
                 base == scan.old[p].version
                 new == scan.new
      <4>1. /\ queue' = Enqueued(p, new, base)
            /\ new # NoFile /\ new \in Stamps /\ base \in Nat
        BY <2>t, <3>3 DEF EnqueueChange, ScannerInv, ScanKnows, Entry
      <4> HIDE DEF new, base
      <4>2. /\ DOMAIN queue = 1..Len(queue) /\ DOMAIN queue' = 1..n
            /\ queue'[n] = [path |-> p, stamp |-> new, base |-> base, state |-> "QUEUED"]
        BY <2>t, <4>1, EnqueuedRows
      <4>3. o = n
        BY <2>t, <4>2
      <4>4. queue'[n].stamp = new
        BY <4>2
      <4>5. QED
        BY <4>1, <4>3, <4>4
    <3>4. CASE CancelOrEnqueueDelete(p)
      BY <3>4 DEF CancelOrEnqueueDelete, ScannerInv, ScanKnows, AbsentSteps
    <3>5. QED
      BY <3>2, <3>3, <3>4
  <2>4. QED
    BY <2>2, <2>3
<1>2. AgentInv /\ ScannerInv /\ [Next]_vars => [Real]_vars
  BY <1>1
<1> HIDE DEF Real
<1>3. Spec => [][Real]_vars
  BY <1>2, AgentInit, AgentStep, ScannerInit, ScannerStep, PTL DEF Spec
<1>4. QED
  BY <1>3 DEF Real, DeletesAreReal
=============================================================================
