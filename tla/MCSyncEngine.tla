---------------------------- MODULE MCSyncEngine ----------------------------
(***************************************************************************)
(* Instances of SyncEngine for TLC.                                        *)
(***************************************************************************)
EXTENDS SyncEngine, TLC

CONSTANTS d1, h1, p1, o1, o2, o3

OneByte == [h \in Hashes |-> 1]
OneDevice == [o \in Ops |-> d1]
NoTargets == [r \in Restores |-> d1]

Put == [path |-> p1, hash |-> h1]
Delete == [path |-> p1, hash |-> NoHash]

\* Two puts of one content, whose file may change while it is read, and a
\* delete: the puts run side by side until the delete has begun, a session has
\* timed out or a part is spoiled, and from then on one request at a time; at
\* most one session times out.
Intended == {[o \in Ops |-> IF o = o3 THEN Delete ELSE Put]}
Puts == {o1, o2}
Busy == {w \in Workers : ~ Vacant(w)}
InTurn ==
    /\ opState[o3] # "NONE" \/ late # {} \/ spoiled # {} => Cardinality(Busy) <= 1
    /\ Cardinality(late) <= 1

\* A BeginUpload transaction is shorter than the grace period of the rows it
\* reads: none that has read a row is still open when the row is listed.
PromptNext ==
    /\ EngineNext
    /\ gc.call = "list" /\ gc'.call = "delete" =>
          \A o \in Ops : reading[o] \notin gc'.garbage
PromptSpec == EngineInit /\ [][PromptNext]_allVars

Symmetry == Permutations(Workers) \cup Permutations(Puts)
=============================================================================
