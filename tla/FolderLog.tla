----------------------------- MODULE FolderLog ------------------------------
(***************************************************************************)
(* What the metadata store promises to the devices of one folder: a log of *)
(* versions to which an operation adds at most one entry, always on top of *)
(* the newest version of its path; entries that may be forgotten once      *)
(* every reader has seen them, and snapshots that stay complete while they *)
(* are held.  Uploads, objects, locks and replays are hidden.              *)
(***************************************************************************)
EXTENDS Integers, Sequences

CONSTANTS Devices, Owners, Paths, Hashes, NoHash, Ops, Jobs

VARIABLES
    log,       \* every version published, in order
    outcome,   \* the position at which an operation was published, or 0
    failed,    \* the operations that can no longer be published
    kept,      \* the positions that can still be read
    floor,     \* snapshots below this position are refused
    readers,   \* the devices that follow the log
    seen,      \* the position up to which each device has followed it
    snapshot   \* the versions each restore job holds

logVars == <<log, outcome, failed, kept, floor, readers, seen, snapshot>>

Newest(p, s) ==
    {i \in 1..Len(log) : /\ i <= s
                         /\ log[i].path = p
                         /\ \A j \in 1..Len(log) : j <= s /\ log[j].path = p => j <= i}

\* The versions that make up the folder at position s.
Files(s) == {i \in UNION {Newest(p, s) : p \in Paths} : log[i].hash # NoHash}

Forward(d, n) == [seen EXCEPT ![d] = IF n > @ THEN n ELSE @]

Init ==
    /\ log = <<>>
    /\ outcome = [o \in Ops |-> 0]
    /\ failed = {}
    /\ kept = {}
    /\ floor = 0
    /\ readers = Owners
    /\ seen = [d \in Devices |-> 0]
    /\ snapshot = [r \in Jobs |-> {}]

\* An operation is published, by the device d that submitted it.
Publish(o, d, p, base, h) ==
    /\ outcome[o] = 0 /\ o \notin failed
    /\ d \in readers
    /\ IF base = 0 THEN Newest(p, Len(log)) = {} ELSE Newest(p, Len(log)) = {base}
    /\ log' = Append(log, [path |-> p, base |-> base, hash |-> h, op |-> o])
    /\ outcome' = [outcome EXCEPT ![o] = Len(log) + 1]
    /\ kept' = kept \cup {Len(log) + 1}
    /\ seen' = Forward(d, Len(log) + 1)
    /\ UNCHANGED <<failed, floor, readers, snapshot>>

\* Operations are given up.
Fail(batch) ==
    /\ \A o \in batch : outcome[o] = 0
    /\ failed' = failed \cup batch
    /\ UNCHANGED <<log, outcome, kept, floor, readers, seen, snapshot>>

\* Old versions are forgotten, and with them the snapshots of the past.
Forget(batch) ==
    /\ \A i \in batch :
          /\ i \in kept
          /\ \A p \in Paths : i \notin Newest(p, Len(log))
          /\ \A d \in readers : i <= seen[d]
          /\ \A r \in Jobs : i \notin snapshot[r]
    /\ kept' = kept \ batch
    /\ floor' = Len(log)
    /\ UNCHANGED <<log, outcome, failed, readers, seen, snapshot>>

Join(d) ==
    /\ d \notin readers
    /\ readers' = readers \cup {d}
    /\ seen' = [seen EXCEPT ![d] = Len(log)]
    /\ UNCHANGED <<log, outcome, failed, kept, floor, snapshot>>

\* A device follows the log, and a job whose snapshot it has restored ends.
Acknowledge(d, n, ended) ==
    /\ d \in readers
    /\ n \in 0..Len(log)
    /\ seen' = Forward(d, n)
    /\ snapshot' = [r \in Jobs |-> IF r \in ended THEN {} ELSE snapshot[r]]
    /\ UNCHANGED <<log, outcome, failed, kept, floor, readers>>

\* A snapshot is complete when it is taken: all of it can be read.
TakeSnapshot(r, s) ==
    /\ s \in floor..Len(log)
    /\ Files(s) \subseteq kept
    /\ snapshot[r] = {}
    /\ snapshot' = [snapshot EXCEPT ![r] = Files(s)]
    /\ UNCHANGED <<log, outcome, failed, kept, floor, readers, seen>>

Next ==
    \/ \E o \in Ops, d \in Devices, p \in Paths, base \in 0..Len(log), h \in Hashes \cup {NoHash} :
          Publish(o, d, p, base, h)
    \/ \E batch \in SUBSET Ops : Fail(batch)
    \/ \E batch \in SUBSET kept : Forget(batch)
    \/ \E d \in Devices : Join(d)
    \/ \E d \in Devices, n \in 0..Len(log), ended \in SUBSET Jobs : Acknowledge(d, n, ended)
    \/ \E r \in Jobs, s \in 0..Len(log) : TakeSnapshot(r, s)

Spec == Init /\ [][Next]_logVars
=============================================================================
