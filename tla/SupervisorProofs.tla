-------------------------- MODULE SupervisorProofs --------------------------
(***************************************************************************)
(* The goroutines of a process, for every number of roots, changes and     *)
(* errors: what run closes is in use no more, and no error is lost.        *)
(***************************************************************************)
EXTENDS Supervisor, TLAPS

-----------------------------------------------------------------------------
(* The inductive invariant *)

\* A goroutine finds its context cancelled only for a reason: the process was
\* told to stop, another root has failed, or the other goroutine of its root
\* has ended; and of two that have ended without such an outer reason one has
\* ended with an error.
Reason(r) ==
    /\ run[r] = "start" => coord[r] = "off" /\ watch[r] = "off" /\ proc[r] = "off"
    /\ run[r] = "wait" => coord[r] # "off" /\ proc[r] # "off"
    /\ run[r] = "wait" /\ "canceled" \in {coord[r], watch[r], proc[r]} => Outer
    /\ run[r] = "draining" => Outer \/ "error" \in {coord[r], proc[r]}
    /\ run[r] \in {"nil", "canceled", "done"} => Outer

SupervisorInv ==
    /\ SupervisorTypeOK
    /\ failed => Cardinality(Roots) > 1
    /\ \A r \in Roots : Reason(r)
    /\ ErrorsReported

RunStates == {"start", "wait", "draining", "nil", "error", "canceled", "done"}
CoordStates == Ends \cup {"off", "startup", "wait", "scan", "last scan"}
WatchStates == Ends \cup {"off", "adding", "watching"}
ProcStates == Ends \cup {"off", "recover", "work", "wait"}

\* The goroutines of one root, and when run may close what they use.
RootTypes ==
    /\ run \in [Roots -> RunStates] /\ coord \in [Roots -> CoordStates]
    /\ watch \in [Roots -> WatchStates] /\ proc \in [Roots -> ProcStates]
OthersTypes ==
    /\ signalled \in BOOLEAN /\ failed \in BOOLEAN
    /\ process \in {"running", "success", "failure"}
    /\ root \in [Roots -> BOOLEAN] /\ event \in [Roots -> BOOLEAN]
    /\ trigger \in [Roots -> BOOLEAN] /\ timer \in [Roots -> BOOLEAN]
    /\ unseen \in [Roots -> BOOLEAN]
    /\ changes \in 0 .. MaxChanges /\ faults \in 0 .. MaxFaults
Closable(r) ==
    run[r] \notin {"start", "wait", "draining"} => {coord[r], proc[r]} \subseteq Ends \cup {"off"}

LEMMA Types == SupervisorTypeOK <=> RootTypes /\ OthersTypes /\ \A r \in Roots : Closable(r)
BY DEF SupervisorTypeOK, RootTypes, OthersTypes, Closable, RunStates, CoordStates,
   WatchStates, ProcStates

LEMMA SupervisorStarts == SupervisorInit => SupervisorInv
<1> SUFFICES ASSUME SupervisorInit PROVE SupervisorInv
  OBVIOUS
<1>1. RootTypes /\ \A r \in Roots : Closable(r)
  BY DEF SupervisorInit, RootTypes, Closable, RunStates, CoordStates, WatchStates, ProcStates
<1>2. OthersTypes
  <2>1. signalled \in BOOLEAN /\ failed \in BOOLEAN
    BY DEF SupervisorInit
  <2>2. changes \in 0 .. MaxChanges /\ faults \in 0 .. MaxFaults
    BY SupervisorConstantsOK DEF SupervisorInit
  <2>3. /\ root \in [Roots -> BOOLEAN] /\ event \in [Roots -> BOOLEAN]
        /\ trigger \in [Roots -> BOOLEAN] /\ timer \in [Roots -> BOOLEAN]
        /\ unseen \in [Roots -> BOOLEAN]
    BY DEF SupervisorInit
  <2>4. QED
    BY <2>1, <2>2, <2>3 DEF SupervisorInit, OthersTypes
<1>3. SupervisorTypeOK
  BY <1>1, <1>2, Types
<1>4. QED
  BY <1>3 DEF SupervisorInit, SupervisorInv, Reason, ErrorsReported

\* The data that a step of a goroutine may change keeps its types.
LEMMA OthersStep ==
  ASSUME SupervisorTypeOK, [SupervisorNext]_vars
  PROVE  OthersTypes'
<1>t. RootTypes /\ OthersTypes
  BY Types
<1>c. MaxChanges \in Nat /\ MaxFaults \in Nat /\ Disturbed \subseteq Roots
  BY SupervisorConstantsOK
<1>f. ASSUME NEW r \in Roots, Fault(r) \/ NoFault PROVE faults' \in 0 .. MaxFaults
  BY <1>t, <1>c, <1>f DEF Fault, NoFault, OthersTypes
<1>1. CASE UNCHANGED vars
  BY <1>t, <1>1 DEF OthersTypes, vars, main, triggering, world
\* Steps that send and set nothing.
<1>2. ASSUME NEW r \in Roots, UNCHANGED <<signalled, process, triggering, root, changes>>,
             failed' \in BOOLEAN, Fault(r) \/ NoFault
      PROVE OthersTypes'
  BY <1>t, <1>f, <1>2 DEF OthersTypes, triggering
<1>3. ASSUME NEW r \in Roots, Goroutine(r) PROVE OthersTypes'
  <2>1. CASE StartupScan(r) \/ AddDirectories(r) \/ Recover(r) \/ StartRun(r)
    BY <1>t, <1>2, <2>1 DEF StartupScan, AddDirectories, Recover, StartRun, main, OthersTypes
  <2>2. CASE ScanEnds(r) \/ Work(r) \/ FirstEnds(r) \/ SecondEnds(r)
    BY <1>t, <1>2, <2>2 DEF ScanEnds, Work, FirstEnds, SecondEnds, main, world, OthersTypes, NoFault
  <2>3. CASE Collect(r)
    <3>1. failed' \in BOOLEAN
      BY <2>3 DEF Collect
    <3>2. QED
      BY <1>2, <2>3, <3>1 DEF Collect, world, NoFault
  <2>4. QED
    BY <1>3, <2>1, <2>2, <2>3 DEF Goroutine
<1>4. ASSUME NEW r \in Roots, Selected(r) PROVE OthersTypes'
  <2>1. CASE SelectDone(r) \/ WaitDone(r) \/ WatchEnds(r)
    BY <1>t, <1>2, <2>1 DEF SelectDone, WaitDone, WatchEnds, main, world, OthersTypes, NoFault
  <2>2. CASE SelectWatcherError(r)
    BY <1>t, <2>2 DEF SelectWatcherError, main, world, OthersTypes
  <2>3. CASE SelectTrigger(r)
    BY <1>t, <2>3 DEF SelectTrigger, Restarts, main, world, OthersTypes
  <2>4. CASE SelectDebounce(r)
    BY <1>t, <2>4 DEF SelectDebounce, BeginsScan, main, world, OthersTypes
  <2>5. CASE TakeEvent(r)
    <3>1. faults' \in 0 .. MaxFaults
      BY <1>f, <2>5 DEF TakeEvent
    <3>2. QED
      BY <1>t, <2>5, <3>1 DEF TakeEvent, Notify, main, OthersTypes
  <2>6. QED
    BY <1>4, <2>1, <2>2, <2>3, <2>4, <2>5 DEF Selected
<1>5. ASSUME NEW r \in Roots, Unawaited(r) PROVE OthersTypes'
  <2>1. CASE SelectTicker(r)
    BY <1>t, <2>1 DEF SelectTicker, BeginsScan, main, world, OthersTypes
  <2>2. CASE PollTicker(r)
    BY <1>t, <2>2 DEF PollTicker, main, triggering, world, OthersTypes
  <2>3. CASE Change(r) \/ RemoveRoot(r)
    <3>1. changes' \in 0 .. MaxChanges
      BY <1>t, <1>c, <2>3 DEF Change, RemoveRoot, OthersTypes
    <3>2. event' \in [Roots -> BOOLEAN] /\ unseen' \in [Roots -> BOOLEAN]
      BY <1>t, <2>3 DEF Change, RemoveRoot, Seen, OthersTypes
    <3>3. root' \in [Roots -> BOOLEAN]
      BY <1>t, <2>3 DEF Change, RemoveRoot, OthersTypes
    <3>4. QED
      BY <1>t, <2>3, <3>1, <3>2, <3>3 DEF Change, RemoveRoot, main, OthersTypes
  <2>4. QED
    BY <1>5, <2>1, <2>2, <2>3 DEF Unawaited
<1>6. CASE Exit
  BY <1>t, <1>6 DEF OthersTypes, triggering, world, Exit, ExitStatus
<1>7. CASE Signal
  BY <1>t, <1>7 DEF OthersTypes, triggering, world, Signal
<1>8. QED
  BY <1>1, <1>3, <1>4, <1>5, <1>6, <1>7 DEF SupervisorNext

-----------------------------------------------------------------------------
(* The steps of the goroutines *)

\* What a step of root r does to the goroutines: those of the other roots stay
\* where they are.
Moves(r) ==
    /\ RootTypes'
    /\ \A q \in Roots : q # r =>
          run'[q] = run[q] /\ coord'[q] = coord[q] /\ watch'[q] = watch[q] /\ proc'[q] = proc[q]
    /\ Outer => Outer'
    /\ failed' => Cardinality(Roots) > 1

\* The invariant is one of each root alone.
LEMMA RootAlone ==
  ASSUME SupervisorInv, [SupervisorNext]_vars, NEW r \in Roots, Moves(r), process' = process,
         signalled => signalled', Reason(r)', Closable(r)'
  PROVE  SupervisorInv'
<1>t. RootTypes /\ \A q \in Roots : Closable(q)
  BY Types DEF SupervisorInv
<1>1. ASSUME NEW q \in Roots, q # r PROVE Reason(q)' /\ Closable(q)'
  <2>1. /\ run'[q] = run[q] /\ coord'[q] = coord[q] /\ watch'[q] = watch[q]
        /\ proc'[q] = proc[q] /\ (Outer => Outer')
    BY <1>1 DEF Moves
  <2>2. Reason(q) /\ Closable(q)
    BY <1>t DEF SupervisorInv
  <2>3. QED
    BY <2>1, <2>2 DEF Reason, Closable
<1>2. OthersTypes'
  BY OthersStep DEF SupervisorInv
<1>3. \A q \in Roots : Reason(q)' /\ Closable(q)'
  BY <1>1
<1>4. SupervisorTypeOK'
  BY <1>2, <1>3 DEF Moves, SupervisorTypeOK, RootTypes, OthersTypes, Closable, RunStates,
     CoordStates, WatchStates, ProcStates
<1>5. ErrorsReported'
  BY DEF SupervisorInv, ErrorsReported
<1>6. QED
  BY <1>3, <1>4, <1>5 DEF SupervisorInv, Moves

\* Coordinator and watcher: they end as cancelled only when the context is.
LEMMA CoordinatorStep ==
  ASSUME SupervisorInv, NEW r \in Roots,
         \/ StartupScan(r) \/ ScanEnds(r) \/ SelectDone(r) \/ SelectWatcherError(r)
         \/ SelectTrigger(r) \/ SelectDebounce(r) \/ SelectTicker(r)
  PROVE  Moves(r) /\ UNCHANGED <<signalled, process>> /\ Reason(r)' /\ Closable(r)'
<1>t. RootTypes /\ Closable(r) /\ Reason(r) /\ (failed => Cardinality(Roots) > 1)
  BY Types DEF SupervisorInv
<1>1. UNCHANGED <<signalled, failed, process, run, proc>>
  BY DEF StartupScan, ScanEnds, SelectDone, SelectWatcherError, SelectTrigger, SelectDebounce,
     SelectTicker, main
<1>2. PICK c \in CoordStates, w \in WatchStates :
        /\ coord' = [coord EXCEPT ![r] = c] /\ watch' = [watch EXCEPT ![r] = w]
        /\ coord[r] \in {"startup", "wait", "scan", "last scan"}
        /\ c # "off" /\ (c = "canceled" => Canceled(r) \/ watch[r] = "canceled")
        /\ w \in {watch[r], "adding"}
  <2>1. /\ watch[r] \in WatchStates /\ coord[r] \in CoordStates /\ "adding" \in WatchStates
        /\ watch = [watch EXCEPT ![r] = watch[r]] /\ coord = [coord EXCEPT ![r] = coord[r]]
        /\ {"startup", "wait", "scan", "last scan", "canceled", "error"} \subseteq CoordStates
    BY <1>t DEF RootTypes, WatchStates, CoordStates, Ends
  <2>2. CASE StartupScan(r)
    BY <2>1, <2>2 DEF StartupScan, Coord
  <2>3. CASE ScanEnds(r)
    BY <2>1, <2>3 DEF ScanEnds, Coord
  <2>4. CASE SelectDone(r)
    BY <2>1, <2>4 DEF SelectDone, Coord
  <2>5. CASE SelectWatcherError(r)
    BY <2>1, <2>5 DEF SelectWatcherError, Coord
  <2>6. CASE SelectTrigger(r)
    BY <2>1, <2>6 DEF SelectTrigger, Restarts
  <2>7. CASE SelectDebounce(r) \/ SelectTicker(r)
    BY <2>1, <2>7 DEF SelectDebounce, SelectTicker, BeginsScan, Coord
  <2>8. QED
    BY <2>2, <2>3, <2>4, <2>5, <2>6, <2>7
<1>3. Moves(r)
  BY <1>t, <1>1, <1>2 DEF Moves, RootTypes, Outer
<1>4. run[r] \in {"wait", "draining"}
  BY <1>t, <1>2 DEF Closable, Reason, RootTypes, RunStates, Ends
<1>5. coord'[r] = c /\ watch'[r] = w /\ proc'[r] = proc[r] /\ run'[r] = run[r] /\ Outer' = Outer
  BY <1>t, <1>1, <1>2 DEF RootTypes, Outer
<1>6. Reason(r)'
  <2>1. "error" \in {coord[r], proc[r]} => "error" \in {coord'[r], proc'[r]}
    BY <1>2, <1>5
  <2>2. QED
    BY <1>t, <1>2, <1>4, <1>5, <2>1 DEF Reason, Canceled
<1>7. Closable(r)'
  BY <1>4, <1>5 DEF Closable
<1>8. QED
  BY <1>1, <1>3, <1>6, <1>7

\* Watcher.Run.
LEMMA WatcherStep ==
  ASSUME SupervisorInv, NEW r \in Roots, AddDirectories(r) \/ TakeEvent(r) \/ WatchEnds(r)
  PROVE  Moves(r) /\ UNCHANGED <<signalled, process>> /\ Reason(r)' /\ Closable(r)'
<1>t. RootTypes /\ Closable(r) /\ Reason(r) /\ (failed => Cardinality(Roots) > 1)
  BY Types DEF SupervisorInv
<1>1. UNCHANGED <<signalled, failed, process, run, coord, proc>>
  BY DEF AddDirectories, TakeEvent, WatchEnds, main
<1>2. PICK w \in WatchStates :
        /\ watch' = [watch EXCEPT ![r] = w]
        /\ watch[r] \in {"adding", "watching"}
        /\ w # "off" /\ (w = "canceled" => Canceled(r))
  <2>1. /\ watch[r] \in WatchStates /\ watch = [watch EXCEPT ![r] = watch[r]]
        /\ {"watching", "canceled", "error"} \subseteq WatchStates
    BY <1>t DEF RootTypes, WatchStates, Ends
  <2>2. QED
    BY <2>1 DEF AddDirectories, TakeEvent, WatchEnds, Watch
<1>3. Moves(r)
  BY <1>t, <1>1, <1>2 DEF Moves, RootTypes, Outer
<1>4. /\ coord'[r] = coord[r] /\ watch'[r] = w /\ proc'[r] = proc[r] /\ run'[r] = run[r]
      /\ Outer' = Outer /\ run[r] # "start"
  BY <1>t, <1>1, <1>2 DEF RootTypes, Outer, Reason
<1>5. QED
  BY <1>t, <1>1, <1>2, <1>3, <1>4 DEF Reason, Closable, Canceled

\* Processor.Run.
LEMMA ProcessorStep ==
  ASSUME SupervisorInv, NEW r \in Roots,
         Recover(r) \/ Work(r) \/ PollTicker(r) \/ WaitDone(r)
  PROVE  Moves(r) /\ UNCHANGED <<signalled, process>> /\ Reason(r)' /\ Closable(r)'
<1>t. RootTypes /\ Closable(r) /\ Reason(r) /\ (failed => Cardinality(Roots) > 1)
  BY Types DEF SupervisorInv
<1>1. UNCHANGED <<signalled, failed, process, run, coord, watch>>
  BY DEF Recover, Work, PollTicker, WaitDone, main
<1>2. PICK p \in ProcStates :
        /\ proc' = [proc EXCEPT ![r] = p]
        /\ proc[r] \in {"recover", "work", "wait"}
        /\ p # "off" /\ (p = "canceled" => Canceled(r))
  <2>1. {"work", "wait", "canceled", "error"} \subseteq ProcStates
    BY DEF ProcStates, Ends
  <2>2. QED
    BY <2>1 DEF Recover, Work, PollTicker, WaitDone, Proc
<1>3. Moves(r)
  BY <1>t, <1>1, <1>2 DEF Moves, RootTypes, Outer
<1>4. /\ coord'[r] = coord[r] /\ watch'[r] = watch[r] /\ proc'[r] = p /\ run'[r] = run[r]
      /\ Outer' = Outer /\ run[r] \in {"wait", "draining"}
  BY <1>t, <1>1, <1>2 DEF RootTypes, Outer, Reason, Closable, RunStates, Ends
<1>5. Reason(r)'
  <2>1. "error" \in {coord[r], proc[r]} => "error" \in {coord'[r], proc'[r]}
    BY <1>2, <1>4
  <2>2. QED
    BY <1>t, <1>2, <1>4, <2>1 DEF Reason, Canceled
<1>6. QED
  BY <1>1, <1>3, <1>4, <1>5 DEF Closable

\* run and runAll: a root is given up without an error only for an outer reason.
LEMMA RunStep ==
  ASSUME SupervisorInv, NEW r \in Roots,
         StartRun(r) \/ FirstEnds(r) \/ SecondEnds(r) \/ Collect(r)
  PROVE  Moves(r) /\ UNCHANGED <<signalled, process>> /\ Reason(r)' /\ Closable(r)'
<1>t. /\ RootTypes /\ Closable(r) /\ Reason(r) /\ (failed => Cardinality(Roots) > 1)
      /\ signalled \in BOOLEAN /\ failed \in BOOLEAN
  BY Types DEF SupervisorInv, OthersTypes
<1>e. {"canceled", "error"} = Ends /\ "off" \notin Ends
  BY DEF Ends
<1>1. CASE StartRun(r)
  <2>1. UNCHANGED <<signalled, failed, process, watch>>
    BY <1>1 DEF StartRun, main
  <2>2. CASE run' = [run EXCEPT ![r] = "wait"] /\ coord' = [coord EXCEPT ![r] = "startup"]
             /\ proc' = [proc EXCEPT ![r] = "recover"]
    <3>1. Moves(r)
      BY <1>t, <2>1, <2>2 DEF Moves, RootTypes, Outer, RunStates, CoordStates, ProcStates
    <3>2. /\ run'[r] = "wait" /\ coord'[r] = "startup" /\ proc'[r] = "recover"
          /\ watch'[r] = "off"
      BY <1>t, <1>1, <2>1, <2>2 DEF RootTypes, StartRun, Reason
    <3>3. QED
      BY <2>1, <3>1, <3>2 DEF Reason, Closable
  <2>3. CASE /\ run' = [run EXCEPT ![r] = "error"] \/ (Outer /\ run' = [run EXCEPT ![r] = "canceled"])
             /\ UNCHANGED <<coord, proc>>
    <3>1. Moves(r)
      BY <1>t, <2>1, <2>3 DEF Moves, RootTypes, Outer, RunStates
    <3>2. /\ run'[r] = "error" \/ (run'[r] = "canceled" /\ Outer')
          /\ coord'[r] = "off" /\ proc'[r] = "off"
      BY <1>t, <1>1, <2>1, <2>3 DEF RootTypes, StartRun, Reason, Outer
    <3>3. QED
      BY <2>1, <3>1, <3>2 DEF Reason, Closable
  <2>4. \/ /\ run' = [run EXCEPT ![r] = "wait"] /\ coord' = [coord EXCEPT ![r] = "startup"]
           /\ proc' = [proc EXCEPT ![r] = "recover"]
        \/ /\ run' = [run EXCEPT ![r] = "error"] \/ (Outer /\ run' = [run EXCEPT ![r] = "canceled"])
           /\ UNCHANGED <<coord, proc>>
    BY <1>1 DEF StartRun, Run, Coord, Proc
  <2>5. QED
    BY <2>2, <2>3, <2>4
<1>2. CASE FirstEnds(r)
  <2>1. /\ UNCHANGED <<signalled, failed, process, coord, watch, proc>>
        /\ run' = [run EXCEPT ![r] = "draining"] /\ run[r] = "wait"
        /\ {coord[r], proc[r]} \cap Ends # {}
    BY <1>2 DEF FirstEnds, Run, main
  <2>2. Moves(r)
    BY <1>t, <2>1 DEF Moves, RootTypes, Outer, RunStates
  <2>3. run'[r] = "draining" /\ coord'[r] = coord[r] /\ proc'[r] = proc[r] /\ Outer' = Outer
    BY <1>t, <2>1 DEF RootTypes, Outer
  <2>4. Outer \/ "error" \in {coord[r], proc[r]}
    BY <1>t, <1>e, <2>1 DEF Reason
  <2>5. QED
    BY <2>1, <2>2, <2>3, <2>4 DEF Reason, Closable
<1>3. CASE SecondEnds(r)
  <2>1. /\ UNCHANGED <<signalled, failed, process, coord, watch, proc>>
        /\ run[r] = "draining" /\ {coord[r], proc[r]} \subseteq Ends
        /\ run' = [run EXCEPT ![r] = IF ~Outer /\ "error" \in {coord[r], proc[r]}
                                    THEN "error" ELSE "nil"]
    BY <1>3 DEF SecondEnds, BothEnded, Run, main
  <2>2. Moves(r)
    BY <1>t, <2>1 DEF Moves, RootTypes, Outer, RunStates
  <2>3. /\ run'[r] = "error" \/ (run'[r] = "nil" /\ Outer)
        /\ coord'[r] = coord[r] /\ proc'[r] = proc[r] /\ Outer' = Outer
    BY <1>t, <2>1 DEF RootTypes, Outer, Reason
  <2>4. QED
    BY <2>1, <2>2, <2>3 DEF Reason, Closable
<1>4. CASE Collect(r)
  <2>1. /\ UNCHANGED <<signalled, process, coord, watch, proc>>
        /\ run' = [run EXCEPT ![r] = "done"] /\ run[r] \in {"nil", "error", "canceled"}
        /\ Cardinality(Roots) > 1
        /\ failed' = (failed \/ run[r] = "error" \/ (run[r] = "nil" /\ ~signalled))
    BY <1>4 DEF Collect, Run
  <2>2. Moves(r)
    BY <1>t, <2>1 DEF Moves, RootTypes, Outer, RunStates
  <2>3. /\ run'[r] = "done" /\ coord'[r] = coord[r] /\ proc'[r] = proc[r] /\ Outer'
    BY <1>t, <2>1 DEF RootTypes, Outer, Reason
  <2>4. QED
    BY <1>t, <2>1, <2>2, <2>3 DEF Reason, Closable
<1>5. QED
  BY <1>1, <1>2, <1>3, <1>4

\* The process exits with success only when it was told to stop: a single root
\* that is given up without an error, or several that are all given up while
\* none has failed first, has no other reason.
LEMMA ExitStep == SupervisorInv /\ Exit => ErrorsReported'
<1> SUFFICES ASSUME SupervisorInv, Exit, process' = "success" PROVE signalled'
  BY DEF ErrorsReported
<1>1. /\ \A r \in Roots : run[r] \in Returned /\ Reason(r)
      /\ process' = ExitStatus /\ signalled' = signalled
      /\ failed => Cardinality(Roots) > 1
  BY DEF Exit, SupervisorInv
<1>2. CASE Cardinality(Roots) = 1
  <2>1. ~failed
    BY <1>1, <1>2
  <2>2. PICK r \in Roots : run[r] = "nil"
    BY <1>1, <1>2 DEF ExitStatus
  <2>3. QED
    BY <1>1, <2>1, <2>2 DEF Reason, Outer
<1>3. CASE Cardinality(Roots) # 1
  <2>1. PICK r \in Roots : run[r] = "done"
    BY <1>1, <1>3, SupervisorConstantsOK DEF Returned
  <2>2. failed \/ signalled
    BY <1>1, <2>1 DEF Reason, Outer
  <2>3. ~(failed /\ ~signalled)
    BY <1>1, <1>3 DEF ExitStatus
  <2>4. QED
    BY <1>1, <2>2, <2>3
<1>4. QED
  BY <1>2, <1>3

LEMMA SupervisorStep == SupervisorInv /\ [SupervisorNext]_vars => SupervisorInv'
<1> SUFFICES ASSUME SupervisorInv, [SupervisorNext]_vars PROVE SupervisorInv'
  OBVIOUS
<1>t. RootTypes /\ \A r \in Roots : Closable(r)
  BY Types DEF SupervisorInv
<1>o. OthersTypes'
  BY OthersStep DEF SupervisorInv
\* Steps of the world and of the process move no goroutine.
<1>w. ASSUME UNCHANGED <<run, coord, watch, proc, failed>>, Outer => Outer', ErrorsReported'
      PROVE  SupervisorInv'
  <2>1. \A r \in Roots : Reason(r)' /\ Closable(r)'
    BY <1>t, <1>w DEF SupervisorInv, Reason, Closable
  <2>2. SupervisorTypeOK'
    BY <1>t, <1>o, <1>w, <2>1 DEF SupervisorTypeOK, RootTypes, OthersTypes, Closable, RunStates,
       CoordStates, WatchStates, ProcStates
  <2>3. QED
    BY <1>w, <2>1, <2>2 DEF SupervisorInv
<1>1. CASE UNCHANGED vars
  BY <1>1, <1>w DEF vars, main, triggering, world, Outer, ErrorsReported, SupervisorInv
<1>2. ASSUME NEW r \in Roots, Goroutine(r) PROVE SupervisorInv'
  <2>1. Moves(r) /\ UNCHANGED <<signalled, process>> /\ Reason(r)' /\ Closable(r)'
    BY <1>2, CoordinatorStep, WatcherStep, ProcessorStep, RunStep DEF Goroutine
  <2>2. QED
    BY <2>1, RootAlone
<1>3. ASSUME NEW r \in Roots, Selected(r) PROVE SupervisorInv'
  <2>1. Moves(r) /\ UNCHANGED <<signalled, process>> /\ Reason(r)' /\ Closable(r)'
    BY <1>3, CoordinatorStep, WatcherStep, ProcessorStep DEF Selected
  <2>2. QED
    BY <2>1, RootAlone
<1>4. ASSUME NEW r \in Roots, SelectTicker(r) \/ PollTicker(r) PROVE SupervisorInv'
  <2>1. Moves(r) /\ UNCHANGED <<signalled, process>> /\ Reason(r)' /\ Closable(r)'
    BY <1>4, CoordinatorStep, ProcessorStep
  <2>2. QED
    BY <2>1, RootAlone
<1>5. ASSUME NEW r \in Roots, Change(r) \/ RemoveRoot(r) PROVE SupervisorInv'
  BY <1>5, <1>w DEF Change, RemoveRoot, main, Outer, ErrorsReported, SupervisorInv
<1>6. CASE Signal
  BY <1>6, <1>w DEF Signal, Outer, ErrorsReported, SupervisorInv
<1>7. CASE Exit
  <2>1. ErrorsReported'
    BY <1>7, ExitStep
  <2>2. QED
    BY <1>7, <1>w, <2>1 DEF Exit, Outer
<1>8. QED
  BY <1>1, <1>2, <1>3, <1>4, <1>5, <1>6, <1>7 DEF SupervisorNext, Unawaited

-----------------------------------------------------------------------------
(* The theorems *)

\* The goroutines are where they can be, and run returns, and closes the
\* database and the root, only when its coordinator and its processor have ended.
THEOREM SupervisorTypeCorrect == SupervisorSpec => []SupervisorTypeOK
<1>1. SupervisorInv => SupervisorTypeOK
  BY DEF SupervisorInv
<1>2. QED
  BY <1>1, SupervisorStarts, SupervisorStep, PTL DEF SupervisorSpec

\* A process that nobody told to stop does not exit with success: whoever ends
\* because its context was cancelled has a reason, and every reason but the
\* signal is an error that runAll or run returns.
THEOREM ErrorsAlwaysReported == SupervisorSpec => []ErrorsReported
<1>1. SupervisorInv => ErrorsReported
  BY DEF SupervisorInv
<1>2. QED
  BY <1>1, SupervisorStarts, SupervisorStep, PTL DEF SupervisorSpec
=============================================================================
