-------------------------- MODULE MCSnapshotHistory --------------------------
(***************************************************************************)
(* SnapshotHistory for TLC: one character, values of which two are stored  *)
(* alike and one of these as it is, days of two ticks, and a retention     *)
(* that ends while captures are under way.                                 *)
(***************************************************************************)
EXTENDS Progression

CONSTANTS c1
=============================================================================
