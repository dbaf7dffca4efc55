----------------------------- MODULE Supervisor -----------------------------
(***************************************************************************)
(* The goroutines of one sync-agent process: realMain, runAll and run      *)
(* (cmd/sync-agent/main.go), and under them for each root a coordinator, a *)
(* watcher and a processor (internal/agent), with the channels, timers and *)
(* contexts that tie them together.                                        *)
(*                                                                         *)
(* An action is one step of one goroutine between two points where it      *)
(* blocks.  A select with several ready cases takes any of them.  A scan   *)
(* and an operation are opaque here (see module Agent): they begin, and    *)
(* end well, with an error, or because of the context.                     *)
(*                                                                         *)
(* A definition named X_Mistake is X with one plausible mistake; no action *)
(* uses it (see README.md, "Mutants").                                     *)
(***************************************************************************)
EXTENDS Naturals, FiniteSets

CONSTANTS
    Roots,        \* the roots of the process
    Disturbed,    \* those whose files change and that meet with errors
    MaxChanges,   \* bound on the changes under the roots
    MaxFaults     \* bound on the errors of databases and watchers

ASSUME SupervisorConstantsOK ==
    Roots # {} /\ Disturbed \subseteq Roots /\ MaxChanges \in Nat /\ MaxFaults \in Nat

VARIABLES
    signalled,  \* has the process got its signal?
    failed,     \* has runAll seen a first error and cancelled the others?
    process,    \* "running", or how it exited
    run,        \* run of each root: where it is, or what it has returned
    coord,      \* Coordinator.Run: "off" before it starts
    watch,      \* Watcher.Run
    proc,       \* Processor.Run
    root,       \* is the root still there?
    event,      \* is an event waiting in the watcher's queue?
    trigger,    \* the channel triggers, of capacity 1
    timer,      \* is the debounce timer set?
    unseen,     \* did the watcher get an event since the last scan began?
    changes, faults

main == <<signalled, failed, process>>
triggering == <<event, trigger, timer, unseen>>
world == <<root, changes, faults>>
vars == <<main, run, coord, watch, proc, triggering, world>>

\* The error that a goroutine has ended with, as its receiver finds it.
Ends == {"canceled", "error"}

SupervisorInit ==
    /\ signalled = FALSE /\ failed = FALSE /\ process = "running"
    /\ run = [r \in Roots |-> "start"]
    /\ coord = [r \in Roots |-> "off"]
    /\ watch = [r \in Roots |-> "off"]
    /\ proc = [r \in Roots |-> "off"]
    /\ root = [r \in Roots |-> TRUE]
    /\ event = [r \in Roots |-> FALSE]
    /\ trigger = [r \in Roots |-> FALSE]
    /\ timer = [r \in Roots |-> FALSE]
    /\ unseen = [r \in Roots |-> FALSE]
    /\ changes = 0 /\ faults = 0

Fault(r) == r \in Disturbed /\ faults < MaxFaults /\ faults' = faults + 1
NoFault == UNCHANGED faults

\* The context that runAll gives to run, and the one that run makes.
Outer_SignalOnly == signalled
Outer == signalled \/ failed
Canceled(r) == Outer \/ run[r] \notin {"start", "wait"}

-----------------------------------------------------------------------------
(* Coordinator.Run: the first scan, then the select loop.                  *)

Coord(r, step) == coord' = [coord EXCEPT ![r] = step]
BeginsScan(r) == Coord(r, "scan") /\ unseen' = [unseen EXCEPT ![r] = FALSE]

\* The first scan fails with the root, the database or the context; only its
\* errors end the coordinator.
StartupScan(r) ==
    /\ coord[r] = "startup"
    /\ \/ /\ root[r] /\ NoFault
          /\ Coord(r, "wait")
          /\ watch' = [watch EXCEPT ![r] = "adding"]
       \/ ~root[r] /\ Coord(r, "error") /\ NoFault /\ UNCHANGED watch
       \/ Coord(r, "error") /\ Fault(r) /\ UNCHANGED watch
       \/ Canceled(r) /\ Coord(r, "canceled") /\ NoFault /\ UNCHANGED watch
    /\ UNCHANGED <<main, run, proc, triggering, root, changes>>

\* A later scan ends; its error is logged.
ScanEnds(r) ==
    /\ coord[r] \in {"scan", "last scan"}
    /\ Coord(r, IF coord[r] = "scan" THEN "wait" ELSE "error")
    /\ UNCHANGED <<main, run, watch, proc, triggering, world>>

SelectDone(r) ==
    /\ coord[r] = "wait" /\ Canceled(r)
    /\ Coord(r, "canceled")
    /\ UNCHANGED <<main, run, watch, proc, triggering, world>>

SelectWatcherError(r) ==
    /\ coord[r] = "wait"
    /\ \/ watch[r] = "canceled" /\ Coord(r, "canceled") /\ UNCHANGED unseen
       \/ /\ watch[r] = "error" /\ Coord(r, "last scan")
          /\ unseen' = [unseen EXCEPT ![r] = FALSE]
    /\ UNCHANGED <<main, run, watch, proc, event, trigger, timer, world>>

\* Starts the timer, or stops it, drains it and starts it again.  Time is not
\* modelled: a timer that is set may fire at once.
Restarts_NotReset(r) == timer' = [timer EXCEPT ![r] = ~timer[r]]
Restarts(r) == timer' = [timer EXCEPT ![r] = TRUE]

SelectTrigger(r) ==
    /\ coord[r] = "wait" /\ trigger[r]
    /\ trigger' = [trigger EXCEPT ![r] = FALSE]
    /\ Restarts(r)
    /\ UNCHANGED <<main, run, coord, watch, proc, event, unseen, world>>

SelectDebounce(r) ==
    /\ coord[r] = "wait" /\ timer[r]
    /\ timer' = [timer EXCEPT ![r] = FALSE]
    /\ BeginsScan(r)
    /\ UNCHANGED <<main, run, watch, proc, event, trigger, world>>

SelectTicker(r) ==
    /\ coord[r] = "wait"
    /\ BeginsScan(r)
    /\ UNCHANGED <<main, run, watch, proc, event, trigger, timer, world>>

-----------------------------------------------------------------------------
(* Watcher.Run: adds the directories, then turns events into triggers.     *)

Watch(r, step) == watch' = [watch EXCEPT ![r] = step]

AddDirectories(r) ==
    /\ watch[r] = "adding"
    /\ \/ root[r] /\ Watch(r, "watching") /\ NoFault
       \/ ~root[r] /\ Watch(r, "error") /\ NoFault
       \/ Watch(r, "error") /\ Fault(r)
    /\ UNCHANGED <<main, run, coord, proc, triggering, root, changes>>

\* The send does not block: a trigger that is there already is enough.
Notify(r) == trigger' = [trigger EXCEPT ![r] = TRUE]

\* The directories of a new directory are added first, which can fail.
TakeEvent(r) ==
    /\ watch[r] = "watching" /\ event[r]
    /\ event' = [event EXCEPT ![r] = FALSE]
    /\ \/ Notify(r) /\ UNCHANGED watch /\ NoFault
       \/ Watch(r, "error") /\ UNCHANGED trigger /\ Fault(r)
    /\ UNCHANGED <<main, run, coord, proc, timer, unseen, root, changes>>

WatchEnds(r) ==
    /\ watch[r] = "watching"
    /\ \/ Canceled(r) /\ Watch(r, "canceled") /\ NoFault
       \/ Watch(r, "error") /\ Fault(r)
    /\ UNCHANGED <<main, run, coord, proc, triggering, root, changes>>

-----------------------------------------------------------------------------
(* Processor.Run: recover, then work through the queue and wait.           *)

Proc(r, step) == proc' = [proc EXCEPT ![r] = step]

Recover(r) ==
    /\ proc[r] = "recover"
    /\ \/ Proc(r, "work") /\ NoFault
       \/ Proc(r, "error") /\ Fault(r)
       \/ Canceled(r) /\ Proc(r, "canceled") /\ NoFault
    /\ UNCHANGED <<main, run, coord, watch, triggering, root, changes>>

\* The inner loop ends only when ProcessNext finds the queue empty; with a
\* cancelled context every call returns another error.
QueueEmpty(r) == ~Canceled(r)

Work(r) ==
    /\ proc[r] = "work" /\ QueueEmpty(r)
    /\ Proc(r, "wait")
    /\ UNCHANGED <<main, run, coord, watch, triggering, world>>

PollTicker(r) ==
    /\ proc[r] = "wait"
    /\ Proc(r, "work")
    /\ UNCHANGED <<main, run, coord, watch, triggering, world>>

WaitDone(r) ==
    /\ proc[r] = "wait" /\ Canceled(r)
    /\ Proc(r, "canceled")
    /\ UNCHANGED <<main, run, coord, watch, triggering, world>>

-----------------------------------------------------------------------------
(* run: opens everything, starts the two, waits for both.                  *)

Run(r, step) == run' = [run EXCEPT ![r] = step]

StartRun(r) ==
    /\ run[r] = "start"
    /\ \/ /\ root[r] /\ ~Outer /\ NoFault
          /\ Run(r, "wait") /\ Coord(r, "startup") /\ Proc(r, "recover")
       \/ ~root[r] /\ Run(r, "error") /\ NoFault /\ UNCHANGED <<coord, proc>>
       \/ Run(r, "error") /\ Fault(r) /\ UNCHANGED <<coord, proc>>
       \/ Outer /\ Run(r, "canceled") /\ NoFault /\ UNCHANGED <<coord, proc>>
    /\ UNCHANGED <<main, watch, triggering, root, changes>>

FirstEnds(r) ==
    /\ run[r] = "wait" /\ {coord[r], proc[r]} \cap Ends # {}
    /\ Run(r, "draining")
    /\ UNCHANGED <<main, coord, watch, proc, triggering, world>>

BothEnded_One(r) == {coord[r], proc[r]} \cap Ends # {}
BothEnded(r) == {coord[r], proc[r]} \subseteq Ends

SecondEnds(r) ==
    /\ run[r] = "draining" /\ BothEnded(r)
    /\ Run(r, IF ~Outer /\ "error" \in {coord[r], proc[r]} THEN "error" ELSE "nil")
    /\ UNCHANGED <<main, coord, watch, proc, triggering, world>>

-----------------------------------------------------------------------------
(* runAll and realMain: the first error cancels all, the signal too.       *)

Collect(r) ==
    /\ run[r] \in {"nil", "error", "canceled"}
    /\ Cardinality(Roots) > 1
    /\ Run(r, "done")
    /\ failed' = (failed \/ run[r] = "error" \/ (run[r] = "nil" /\ ~signalled))
    /\ UNCHANGED <<signalled, process, coord, watch, proc, triggering, world>>

\* A single root has no result channel: what run returns is returned.
ExitStatus_InnerContext ==
    IF Cardinality(Roots) = 1
    THEN IF \E r \in Roots : run[r] = "nil" THEN "success" ELSE "failure"
    ELSE IF failed /\ ~Outer THEN "failure" ELSE "success"
ExitStatus ==
    IF Cardinality(Roots) = 1
    THEN IF \E r \in Roots : run[r] = "nil" THEN "success" ELSE "failure"
    ELSE IF failed /\ ~signalled THEN "failure" ELSE "success"

Returned ==
    IF Cardinality(Roots) = 1 THEN {"nil", "error", "canceled"} ELSE {"done"}

Exit ==
    /\ \A r \in Roots : run[r] \in Returned
    /\ process' = ExitStatus
    /\ UNCHANGED <<signalled, failed, run, coord, watch, proc, triggering, world>>

-----------------------------------------------------------------------------
(* The world: the signal, changes of files, the removal of a root.         *)

Signal ==
    /\ ~signalled
    /\ signalled' = TRUE
    /\ UNCHANGED <<failed, process, run, coord, watch, proc, triggering, world>>

\* The watcher's queue gets an event of a directory that was added.
Seen(r) ==
    IF watch[r] = "watching"
    THEN /\ event' = [event EXCEPT ![r] = TRUE]
         /\ unseen' = [unseen EXCEPT ![r] = TRUE]
    ELSE UNCHANGED <<event, unseen>>

Change(r) ==
    /\ r \in Disturbed /\ root[r] /\ changes < MaxChanges
    /\ changes' = changes + 1
    /\ Seen(r)
    /\ UNCHANGED <<main, run, coord, watch, proc, trigger, timer, root, faults>>

RemoveRoot(r) ==
    /\ r \in Disturbed /\ root[r] /\ changes < MaxChanges
    /\ changes' = changes + 1
    /\ root' = [root EXCEPT ![r] = FALSE]
    /\ Seen(r)
    /\ UNCHANGED <<main, run, coord, watch, proc, trigger, timer, faults>>

-----------------------------------------------------------------------------
Goroutine(r) ==
    \/ StartupScan(r) \/ ScanEnds(r) \/ AddDirectories(r) \/ Recover(r) \/ Work(r)
    \/ StartRun(r) \/ FirstEnds(r) \/ SecondEnds(r) \/ Collect(r)
Selected(r) ==
    \/ SelectDone(r) \/ SelectWatcherError(r) \/ SelectTrigger(r) \/ SelectDebounce(r)
    \/ TakeEvent(r) \/ WatchEnds(r) \/ WaitDone(r)
Unawaited(r) ==
    SelectTicker(r) \/ PollTicker(r) \/ Change(r) \/ RemoveRoot(r)

SupervisorNext ==
    /\ process = "running"
    /\ \/ \E r \in Roots : Goroutine(r) \/ Selected(r) \/ Unawaited(r)
       \/ Exit \/ Signal

SupervisorSpec == SupervisorInit /\ [][SupervisorNext]_vars

\* A goroutine that can go on does.  A select takes each of its cases that is
\* ready again and again.  Nothing is expected of the two tickers, of the
\* user and of what can fail.
Awaited(step) == process = "running" /\ step
SupervisorFairSpec ==
    /\ SupervisorSpec
    /\ WF_vars(Awaited(Exit))
    /\ \A r \in Roots :
          /\ WF_vars(Awaited(StartRun(r) \/ FirstEnds(r) \/ SecondEnds(r) \/ Collect(r)))
          /\ WF_vars(Awaited(StartupScan(r) \/ ScanEnds(r)))
          /\ WF_vars(Awaited(Recover(r) \/ Work(r)))
          /\ WF_vars(Awaited(AddDirectories(r) \/ TakeEvent(r)
                                \/ (Canceled(r) /\ WatchEnds(r))))
          /\ SF_vars(Awaited(SelectDone(r) \/ SelectWatcherError(r)
                                \/ SelectTrigger(r) \/ SelectDebounce(r)))
          /\ SF_vars(Awaited(WaitDone(r)))

-----------------------------------------------------------------------------
(* Every variable has its type, and run closes the database and the root   *)
(* only when neither of its goroutines uses them any more (main.go:234-246,*)
(* the deferred calls of 188-214).                                         *)
SupervisorTypeOK ==
    /\ {signalled, failed} \subseteq BOOLEAN
    /\ process \in {"running", "success", "failure"}
    /\ run \in [Roots -> {"start", "wait", "draining", "nil", "error", "canceled", "done"}]
    /\ coord \in [Roots -> Ends \cup {"off", "startup", "wait", "scan", "last scan"}]
    /\ watch \in [Roots -> Ends \cup {"off", "adding", "watching"}]
    /\ proc \in [Roots -> Ends \cup {"off", "recover", "work", "wait"}]
    /\ {root, event, trigger, timer, unseen} \subseteq [Roots -> BOOLEAN]
    /\ changes \in 0 .. MaxChanges /\ faults \in 0 .. MaxFaults
    /\ \A r \in Roots : run[r] \notin {"start", "wait", "draining"} =>
          {coord[r], proc[r]} \subseteq Ends \cup {"off"}

(* A process that was not told to stop does not exit with success: the     *)
(* error of one root is not lost among the others, which end because it    *)
(* cancelled them (runAll, main.go:164-180; run, 247-256).                 *)
ErrorsReported == process = "success" => signalled

(* A change that the watcher was told of is followed by a scan that begins *)
(* after it, also when it comes while a scan runs, while the timer of an   *)
(* earlier one is set or while its trigger waits, and without waiting for  *)
(* the periodic scan (coordinator.go:55-80, watcher.go:35-58).  Changes    *)
(* that never pause put the debounce off; here they are bounded.           *)
ChangesScanned == \A r \in Disturbed :
    unseen[r] ~> (~unseen[r] \/ Canceled(r) \/ process # "running")

(* When a root fails, the coordinators and watchers of all the roots end,  *)
(* and none goes on filling its queue (main.go:164-176, 243-244), unless   *)
(* the context ends while the processor of the failed root is working: it  *)
(* never returns (processor.go:65-73), run waits for it (main.go:246) and  *)
(* runAll does not hear of the error.  The failed root then has ended, but *)
(* the others go on.                                                       *)
Ended(q) ==
    /\ run[q] # "start"
    /\ coord[q] \in Ends \cup {"off"} /\ watch[q] \in Ends \cup {"off"}
Stuck(r) == Canceled(r) /\ proc[r] = "work"
OneForAll == \A r \in Disturbed :
    "error" \in {coord[r], proc[r], run[r]} ~>
        \/ process # "running"
        \/ \A q \in Roots : Ended(q)
        \/ Stuck(r) /\ Ended(r)

(* The same without the exception.  Known not to hold: see QueueEmpty.     *)
AllForOne == \A r \in Disturbed :
    "error" \in {coord[r], proc[r], run[r]} ~>
        process # "running" \/ \A q \in Roots : Ended(q)

(* Ctrl+C stops the agent (release/USER_GUIDE_EN.txt:195).  Known not to   *)
(* hold: see QueueEmpty.                                                   *)
Stops == signalled ~> process # "running"

(* The supervisor stops when a root is deleted while the agent runs        *)
(* (README.md:336-338): the run of that root comes to its end.  Known not  *)
(* to hold: see ScanEnds.                                                  *)
StopsWithoutRoot == \A r \in Roots :
    ~root[r] /\ run[r] = "wait" ~> run[r] # "wait"
=============================================================================
