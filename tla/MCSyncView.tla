---------------------------- MODULE MCSyncView -----------------------------
(***************************************************************************)
(* SyncView for TLC.                                                       *)
(***************************************************************************)
EXTENDS SyncPage
=============================================================================
