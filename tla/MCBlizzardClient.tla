-------------------------- MODULE MCBlizzardClient --------------------------
(***************************************************************************)
(* BlizzardClient for TLC: two callers of one bucket and one token cache.  *)
(***************************************************************************)
EXTENDS BlizzardClient

CONSTANTS w1, w2
=============================================================================
