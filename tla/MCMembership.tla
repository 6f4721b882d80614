---------------------------- MODULE MCMembership ----------------------------
(***************************************************************************)
(* Membership for TLC: a superadmin, an admin and a plain user, who are    *)
(* either the first to ask of a new installation, with one guild that      *)
(* nobody belongs to, or have different roles in two guilds.               *)
(***************************************************************************)
EXTENDS Membership, TLC

CONSTANTS h1, h2, o, a, m

MCAppRole == (o :> "superadmin") @@ (a :> "admin") @@ (m :> "member")

NewGuild == [guilds |-> {1}, member |-> 1 :> [u \in Users |-> "none"]]
Settled ==
    [guilds |-> {1, 2},
     member |-> (1 :> ((o :> "owner") @@ (a :> "admin") @@ (m :> "member")))
             @@ (2 :> ((o :> "none") @@ (a :> "member") @@ (m :> "owner")))]

MCWorlds == {NewGuild, Settled}

\* Two writes where the roles come from SessionUser, one where they are given.
MCMaxChanges(gs) == IF Cardinality(gs) = 1 THEN 2 ELSE 1

Symmetry == Permutations(Handlers)
=============================================================================
