------------------------------ MODULE MCSignIn ------------------------------
(***************************************************************************)
(* SignIn for TLC: two callbacks at once, over states that may be brought  *)
(* twice, for an ordinary account and a configured super admin.            *)
(***************************************************************************)
EXTENDS SignIn, TLC

CONSTANTS s1, s2, c1, c2, a1, a2

Symmetry == Permutations(States) \cup Permutations(Callbacks)
=============================================================================
