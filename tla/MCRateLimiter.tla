--------------------------- MODULE MCRateLimiter ---------------------------
(***************************************************************************)
(* RateLimiter for TLC: four requests of two clients on routes of each     *)
(* kind, long enough for hits to expire out of the order of their stamps.  *)
(***************************************************************************)
EXTENDS RateLimiter, TLC

CONSTANTS r1, r2, r3, r4, c1, c2

MCRoutes ==
    {[area |-> "auth", export |-> FALSE, method |-> "GET"],
     [area |-> "sync", export |-> FALSE, method |-> "POST"],
     [area |-> "other", export |-> TRUE, method |-> "GET"],
     [area |-> "other", export |-> FALSE, method |-> "GET"],
     [area |-> "other", export |-> FALSE, method |-> "POST"]}
MCLimit == [b \in Buckets |-> IF b = "mutation" THEN 2 ELSE 1]

Symmetry == Permutations(Requests) \cup Permutations(Clients)
=============================================================================
