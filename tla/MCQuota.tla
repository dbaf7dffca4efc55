------------------------------- MODULE MCQuota ------------------------------
(***************************************************************************)
(* Instances of Quota for TLC.                                             *)
(***************************************************************************)
EXTENDS Quota, TLC

CONSTANTS d1, h1, h2

OneAndTwoBytes == [h \in Hashes |-> IF h = h1 THEN 1 ELSE 2]
OneDevice == [o \in Ops |-> d1]
NoTargets == [r \in Restores |-> d1]
Symmetry == Permutations(Ops) \cup Permutations(Paths)
=============================================================================
