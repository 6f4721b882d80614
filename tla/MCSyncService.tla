---------------------------- MODULE MCSyncService ---------------------------
(***************************************************************************)
(* SyncService for TLC: two ids of ledger rows, enough for a run and its   *)
(* retry, an orphan row and a run, or a run that overlaps the notification *)
(* of the one before.                                                      *)
(***************************************************************************)
EXTENDS SyncService, TLC

CONSTANTS r1, r2
=============================================================================
