----------------------------- MODULE MCMetadata -----------------------------
(***************************************************************************)
(* Instances of Metadata for TLC.                                          *)
(***************************************************************************)
EXTENDS Metadata, TLC

CONSTANTS d1, d2, h1, h2, o1, o2, o3

\* one byte for h1, none for h2
SmallSizes == [h \in Hashes |-> IF h = h1 THEN 1 ELSE 0]

\* the first operation is d1's, the others are d2's
TwoDevices == [o \in Ops |-> IF o = o1 THEN d1 ELSE d2]

\* Every put is a deduplicated one: the history then grows without upload
\* sessions, whose interleavings are the subject of the other instance.
HistoryNext ==
    \/ \E o \in Ops, p \in Paths, b \in 0..CurrentSequence, h \in Hashes :
          \/ BeginCheck(o, h)
          \/ BeginPresent(o, [path |-> p, base |-> b, hash |-> h])
    \/ \E batch \in SUBSET Prunable, orphans \in SUBSET Hashes : PruneVersions(batch, orphans)
    \/ \E h \in Hashes : DeleteGarbageRecord(h)
    \/ CommitNext \/ ReaderNext
HistorySpec == Init /\ [][HistoryNext]_vars

RestoreOnD2 == [r \in Restores |-> d2]
Symmetry == Permutations({o2, o3}) \cup Permutations(Paths)
=============================================================================
