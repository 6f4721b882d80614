--------------------------- MODULE MCServerProcess --------------------------
(***************************************************************************)
(* ServerProcess for TLC: two ids of ledger rows, one request in flight at *)
(* a time, and any number of crashes and restarts.                         *)
(***************************************************************************)
EXTENDS ServerProcess, TLC

CONSTANTS r1, r2

\* Ids are alike: any unused one may come next.
Symmetry == Permutations(Runs)
=============================================================================
