-------------------------- MODULE MCRestoreClient --------------------------
(***************************************************************************)
(* Instances of RestoreClient for TLC.                                     *)
(***************************************************************************)
EXTENDS RestoreClient
=============================================================================
