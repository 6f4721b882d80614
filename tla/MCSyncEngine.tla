---------------------------- MODULE MCSyncEngine ----------------------------
(***************************************************************************)
(* SyncEngine for TLC: three roster entries, two of which share a name on  *)
(* different realms, and two workers.                                      *)
(***************************************************************************)
EXTENDS SyncEngine, TLC

CONSTANTS m1, m2, m3, w1, w2, thrall, jaina

MCMembers == {m1, m2, m3}
MCNames == {thrall, jaina}
MCNameOf == (m1 :> thrall) @@ (m2 :> thrall) @@ (m3 :> jaina)
MCWorkers == {w1, w2}
=============================================================================
