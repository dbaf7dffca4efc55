------------------------------- MODULE Quota --------------------------------
(***************************************************************************)
(* The byte quotas that the metadata store keeps in quota_usages, a layer  *)
(* over module Metadata.  The folder is the only one of its user, so the   *)
(* USER and the FOLDER row hold the same counters.                         *)
(*                                                                         *)
(* A session's reserved_bytes is its declared size while the session is    *)
(* ACTIVE or VERIFIED and 0 afterwards, so it needs no variable.           *)
(***************************************************************************)
EXTENDS Metadata, Functions

CONSTANTS
    MaxPendingUploadSize,  \* limits.MaxPendingUploadSizePerUser
    MaxLiveSize            \* the smaller of MaxUserLiveSize and MaxFolderLiveSize

ASSUME LimitsOK == MaxPendingUploadSize \in Nat /\ MaxLiveSize \in Nat

VARIABLES
    reserved,  \* reserved_bytes: declared sizes of uploads in progress
    live,      \* live_bytes: sizes of the entries' heads
    history    \* history_bytes: sizes of the superseded versions

usageVars == <<reserved, live, history>>
quotaVars == <<vars, usageVars>>

\* file_versions.size, and its sum over a set of versions
VersionSize == [i \in DOMAIN version |-> SizeOf(version[i].hash)]
TotalSize(S) == SumFunctionOnSet(VersionSize, S)

\* the rows of upload_sessions, and their reserved_bytes
Sessions == {o \in Ops : session[o] # "NONE"}
SessionReserved ==
    [o \in Ops |-> IF session[o] \in {"ACTIVE", "VERIFIED"} THEN SizeOf(request[o].hash) ELSE 0]

\* A deleted entry, like a missing one, has no live bytes.
OldLive(p) == IF head[p] = 0 THEN 0 ELSE VersionSize[head[p]]

\* SQL's GREATEST(0, n)
Clamped(n) == Max2(0, n)

\* reserveQuota
PendingAllows(size) == reserved <= MaxPendingUploadSize - size

\* checkLiveQuota
LiveAllows_Unchecked(delta) == TRUE
LiveAllows(delta) == delta > 0 => live <= MaxLiveSize - delta

LiveDelta(r) == SizeOf(r.hash) - OldLive(r.path)

\* updateUsageAfterCommit: the declared size is released whether the operation
\* reserved it or its content was already present.
NewlyHistoric_Counted(r) == SizeOf(r.hash)
NewlyHistoric(r) == OldLive(r.path)

UpdateUsageAfterCommit(r) ==
    /\ live' = live + LiveDelta(r)
    /\ history' = history + NewlyHistoric(r)
    /\ reserved' = Clamped(reserved - SizeOf(r.hash))

\* ExpireUploadSessions releases what the sessions still reserve.
ReleasedBy_Forgotten(batch) == 0
ReleasedBy(batch) == SumFunctionOnSet(SessionReserved, batch)

-----------------------------------------------------------------------------

QuotaInit == Init /\ reserved = 0 /\ live = 0 /\ history = 0

Reserve(o, r) ==
    /\ BeginRequired(o, r)
    /\ PendingAllows(SizeOf(r.hash))
    /\ reserved' = reserved + SizeOf(r.hash)
    /\ UNCHANGED <<live, history>>

CommitWithinQuota(o) ==
    /\ CommitLock(o)
    /\ LiveAllows(LiveDelta(request[o]))
    /\ UNCHANGED usageVars

CommitCharged(o) == CommitApply(o) /\ UpdateUsageAfterCommit(request[o])

DeleteCharged(o, r) == CommitDelete(o, r) /\ UpdateUsageAfterCommit(r)

ExpireAndRelease(batch) ==
    /\ ExpireUploadSessions(batch)
    /\ reserved' = Clamped(reserved - ReleasedBy(batch))
    /\ UNCHANGED <<live, history>>

PruneAndRelease(batch, orphans) ==
    /\ PruneVersions(batch, orphans)
    /\ history' = Clamped(history - TotalSize(batch))
    /\ UNCHANGED <<reserved, live>>

\* the transactions that touch no quota row
Uncharged ==
    \/ \E h \in Hashes : EnsureObject(h)
    \/ \E o \in Ops :
        \/ \E h \in Hashes : BeginCheck(o, h)
        \/ \E p \in Paths, b \in 0..CurrentSequence, h \in Hashes :
              BeginPresent(o, [path |-> p, base |-> b, hash |-> h])
        \/ BeginRollback(o)
        \/ \E n \in 0..SizeOf(request[o].hash) : UpdateUploadProgress(o, n)
        \/ MarkUploadVerified(o)
        \/ SessionTimesOut(o)
        \/ CompleteUploadCleanup(o)
    \/ CommitRollback
    \/ \E h \in Hashes : DeleteGarbageRecord(h)
    \/ ReaderNext

QuotaNext ==
    \/ \E o \in Ops :
        \/ \E p \in Paths, b \in 0..CurrentSequence, h \in Hashes :
              Reserve(o, [path |-> p, base |-> b, hash |-> h])
        \/ CommitWithinQuota(o)
        \/ CommitCharged(o)
        \/ \E p \in Paths, b \in 0..CurrentSequence :
              DeleteCharged(o, [path |-> p, base |-> b, hash |-> NoHash])
    \/ \E batch \in SUBSET Expirable : ExpireAndRelease(batch)
    \/ \E batch \in SUBSET Prunable, orphans \in SUBSET Hashes : PruneAndRelease(batch, orphans)
    \/ Uncharged /\ UNCHANGED usageVars

QuotaSpec == QuotaInit /\ [][QuotaNext]_quotaVars

-----------------------------------------------------------------------------
(* Properties *)

\* the versions that the entries show
Heads == {head[p] : p \in Paths} \ {0}

\* the reserved_bytes of all upload sessions
SessionsReserve == SumFunctionOnSet(SessionReserved, Sessions)

\* The counters never drift from the rows they summarise, however commits,
\* deletions, replays and prunings interleave (incremental updates in Commit
\* and PruneVersions).
UsageExact ==
    /\ live = TotalSize(Heads)
    /\ history = TotalSize(retained \ Heads)

\* The live size stays within the limit, although the check and the update
\* are separate statements of Commit.
LiveWithinLimit == live <= MaxLiveSize

\* Nothing stays reserved without an upload that will release it: when every
\* session has ended the whole pending quota is free again.
NoReservationLeak ==
    /\ reserved >= 0
    /\ reserved <= SessionsReserve

\* The uploads in progress stay within MAX_PENDING_UPLOAD_SIZE_BYTES.
PendingWithinLimit == SessionsReserve <= MaxPendingUploadSize
=============================================================================
