---------------------------- MODULE MCScheduler ----------------------------
(***************************************************************************)
(* Scheduler for TLC: a guild with a valid schedule, alone or beside one   *)
(* whose schedule does not parse.                                          *)
(***************************************************************************)
EXTENDS NightlySyncs

CONSTANTS g1, g2

MCAt == [g \in Guilds |-> IF g = g1 THEN 1 ELSE Invalid]
=============================================================================
