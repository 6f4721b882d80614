----------------------------- MODULE Membership -----------------------------
(***************************************************************************)
(* Who belongs to a guild and who may change that: SessionUser, which      *)
(* every request starts with, the choice of the request's guild and the    *)
(* three member handlers of src/backend/internal/httpapi/api.go over       *)
(* store/memberships.go.  A handler reads its actor, then its target, then *)
(* writes, then records an audit event, each in a statement of its own, so *)
(* two handlers and the requests of other users interleave between them.   *)
(***************************************************************************)
EXTENDS Naturals, FiniteSets

CONSTANTS Worlds,       \* the guilds there may be, with the memberships at first
          DefaultGuild, \* the configured guild
          Users, Handlers, None,
          AppRole,      \* users.app_role of every user
          Roles,        \* the membership roles that handlers are asked for
          MaxChanges(_) \* bound on the handlers' writes, for a set of guilds

Level == [none |-> 0, member |-> 1, officer |-> 2, admin |-> 3, owner |-> 4]

ASSUME MembershipAssumption ==
    /\ \A w \in Worlds :
          /\ w.guilds \subseteq Nat /\ DefaultGuild \in w.guilds
          /\ None \notin w.guilds
          /\ w.member \in [w.guilds -> [Users -> DOMAIN Level]]
          /\ MaxChanges(w.guilds) \in Nat
    /\ AppRole \in [Users -> {"member", "officer", "admin", "superadmin"}]
    /\ Roles \subseteq DOMAIN Level \ {"none"}
    /\ None \notin Users
    /\ IsFiniteSet(Handlers) /\ None \notin Handlers

VARIABLES
    guilds,    \* the ids in guilds, numbers; nothing here adds one
    member,    \* guild_memberships: the role in a guild of a user, or "none"
    hs,        \* what each handler is doing
    changes,   \* history: writes of the handlers
    audits,    \* audit_events: rows of the handlers
    revoked    \* history: memberships removed and not granted since

vars == <<guilds, member, hs, changes, audits, revoked>>

Idle == [pc |-> "idle", user |-> None, op |-> "none", target |-> None, ask |-> "none",
         wanted |-> None, guild |-> None, role |-> "none",
         disturbed |-> FALSE]

Super(u) == AppRole[u] = "superadmin"
GuildsOf(u) == {g \in guilds : member[g][u] # "none"}
Least(S) == CHOOSE x \in S : \A y \in S : x <= y

Init ==
    /\ \E w \in Worlds : guilds = w.guilds /\ member = w.member
    /\ hs = [h \in Handlers |-> Idle]
    /\ changes = 0 /\ audits = 0
    /\ revoked = {}

\* The handlers but for h whose actor or target is u are told that a row of u
\* has changed.
Disturb(h, u) ==
    [x \in Handlers |->
        IF x # h /\ u \in {hs[x].user, hs[x].target}
        THEN [hs[x] EXCEPT !.disturbed = TRUE] ELSE hs[x]]

\* A user without a membership in the only guild gets one from the first request.
BootRole(u) == IF AppRole[u] \in {"admin", "superadmin"} THEN "owner" ELSE AppRole[u]
BadBoot(u) ==
    IF Cardinality(guilds) = 1
    THEN [member EXCEPT ![DefaultGuild][u] = BootRole(u)] ELSE member
Boot(u) ==
    IF Cardinality(guilds) = 1 /\ member[DefaultGuild][u] = "none"
    THEN [member EXCEPT ![DefaultGuild][u] = BootRole(u)] ELSE member

\* requireAuth, for a handler that changes the target's membership to the role
\* asked for (a removal is checked as a change to member).  The browser sends
\* the guild it selected along, which it may have left since; without a cookie
\* the configured guild is wanted.
SessionUser(u) ==
    /\ member' = Boot(u)
    /\ UNCHANGED <<guilds, changes, audits, revoked>>

Request(h, u, op, t, ask, wanted) ==
    /\ hs[h] = Idle
    /\ op = "remove" => ask = "member"
    /\ SessionUser(u)
    /\ hs' = [IF Boot(u) = member THEN hs ELSE Disturb(h, u) EXCEPT
                ![h] = [Idle EXCEPT !.pc = "guild", !.user = u, !.op = op, !.target = t,
                                    !.ask = ask, !.wanted = wanted]]

\* Any other request of u, selectGuild among them, whose cookie is the browser's.
OtherRequest(u) ==
    /\ SessionUser(u)
    /\ hs' = IF Boot(u) = member THEN hs ELSE Disturb(None, u)

\* requireGuild: the selected guild, else the configured one, and without a
\* membership there the first guild of the user.  A superadmin needs none.
ChosenGuild(u, wanted) ==
    IF wanted \in GuildsOf(u) \/ Super(u) THEN wanted
    ELSE IF GuildsOf(u) # {} THEN Least(GuildsOf(u)) ELSE None

\* roleAllowed for the member routes, which ask for an owner or an admin.
RoleAllowed(u, role) == Super(u) \/ Level[role] >= Level["admin"]

To(h, pc) == hs' = [hs EXCEPT ![h].pc = pc]
Answer(h) == hs' = [hs EXCEPT ![h] = Idle]

\* requireGuild and requireRole read the actor's memberships in one statement.
ActorRole(u, g) == IF Super(u) THEN "superadmin" ELSE member[g][u]
RequireRole(h) ==
    LET u == hs[h].user  g == ChosenGuild(u, hs[h].wanted) IN
    /\ hs[h].pc = "guild"
    /\ IF g # None /\ RoleAllowed(u, ActorRole(u, g))
       THEN hs' = [hs EXCEPT ![h].pc = "target", ![h].wanted = None,
                                    ![h].guild = g, ![h].role = ActorRole(u, g)]
       ELSE Answer(h)
    /\ UNCHANGED <<guilds, member, changes, audits, revoked>>

MembershipChangeAllowed(actor, target, ask) ==
    \/ actor = "superadmin"
    \/ /\ actor \in {"owner", "admin"}
       /\ (ask = "owner" \/ target = "owner") => actor = "owner"

\* An invitation finds its user by BattleTag among those who are not members; the
\* other two handlers read the target's role.
FindGuildCandidate(g, u) == member[g][u] = "none"
ForUser(g, u) == member[g][u]
BadTargetAllowed(c) ==
    /\ FindGuildCandidate(c.guild, c.target) = (c.op = "invite")
    /\ MembershipChangeAllowed(c.role, "none", c.ask)
TargetAllowed(c) ==
    /\ FindGuildCandidate(c.guild, c.target) = (c.op = "invite")
    /\ MembershipChangeAllowed(c.role, ForUser(c.guild, c.target), c.ask)

ReadTarget(h) ==
    /\ hs[h].pc = "target"
    /\ IF TargetAllowed(hs[h]) THEN To(h, "write") ELSE Answer(h)
    /\ UNCHANGED <<guilds, member, changes, audits, revoked>>

\* Grant, an upsert, and Revoke.
Written(c) ==
    [member EXCEPT ![c.guild][c.target] = IF c.op = "remove" THEN "none" ELSE c.ask]

Write(h) ==
    LET c == hs[h]
        row == <<c.guild, c.target>>
        told == Disturb(h, c.target) IN
    /\ c.pc = "write" /\ changes < MaxChanges(guilds)
    /\ member' = Written(c)
    /\ changes' = changes + 1
    /\ \/ hs' = [told EXCEPT ![h] = [Idle EXCEPT !.pc = "audit"]]
       \/ hs' = [told EXCEPT ![h] = Idle]   \* committed, but the answer was lost
    /\ revoked' = IF c.op = "remove" THEN revoked \cup {row} ELSE revoked \ {row}
    /\ UNCHANGED <<guilds, audits>>

Audited(h) ==
    /\ hs[h].pc = "audit"
    /\ audits' = audits + 1
    /\ Answer(h)
    /\ UNCHANGED <<guilds, member, changes, revoked>>

\* Any statement may fail: the answer is an error.
Fail(h) ==
    /\ hs[h].pc # "idle"
    /\ Answer(h)
    /\ UNCHANGED <<guilds, member, changes, audits, revoked>>

Next ==
    \/ \E h \in Handlers :
          \/ \E u, t \in Users, op \in {"invite", "update", "remove"}, r \in Roles, g \in guilds :
                Request(h, u, op, t, r, g)
          \/ RequireRole(h)
          \/ ReadTarget(h)
          \/ Write(h)
          \/ Audited(h)
          \/ Fail(h)
    \/ \E u \in Users : OtherRequest(u)

Spec == Init /\ [][Next]_vars
-----------------------------------------------------------------------------
(* Properties.                                                             *)

HandlerType ==
    [pc : {"idle", "guild", "target", "write", "audit"}, user : Users \cup {None},
     op : {"none", "invite", "update", "remove"}, target : Users \cup {None},
     ask : Roles \cup {"none"}, wanted : guilds \cup {None}, guild : guilds \cup {None},
     role : DOMAIN Level \cup {"superadmin"}, disturbed : BOOLEAN]

\* Memberships hold the four roles their column allows: the platform role of a
\* superadmin is never stored as one, which the insert of SessionUser, and so
\* every request of that user, would fail at.
TypeOK ==
    /\ \E w \in Worlds : guilds = w.guilds
    /\ member \in [guilds -> [Users -> DOMAIN Level]]
    /\ hs \in [Handlers -> HandlerType]
    /\ changes \in 0..MaxChanges(guilds) /\ audits \in Nat
    /\ revoked \subseteq guilds \X Users

\* A handler that is about to write is entitled to it in the guild it writes to,
\* unless somebody has changed the actor's or the target's memberships since the
\* request came in: the actor manages that very guild, whatever the cookie said,
\* and only an owner makes or unmakes an owner (api.go:457).
AuthorizedIfUndisturbed ==
    \A h \in Handlers : LET c == hs[h] IN
        c.pc = "write" /\ ~c.disturbed /\ ~Super(c.user) =>
            /\ member[c.guild][c.user] \in {"owner", "admin"}
            /\ "owner" \in {c.ask, member[c.guild][c.target]}
                 => member[c.guild][c.user] = "owner"

\* Only member handlers change a role that is there: the insert of SessionUser,
\* which runs on every request, never raises or resets one (users.go:137).
RolesKept ==
    [][\A g \in guilds, u \in Users :
         member[g][u] # "none" /\ member'[g][u] # member[g][u] => changes' = changes + 1]_vars

\* Who was removed from a guild and not granted a role since is not in it, whatever
\* he requests (store/memberships_test.go:52, httpapi/api_test.go:264).  The one
\* exception is the only guild of an installation, which his next request enters
\* him in again, with the role that SessionUser gives to a newcomer.
RevokedStaysOut ==
    \A row \in revoked :
        \/ member[row[1]][row[2]] = "none"
        \/ Cardinality(guilds) = 1 /\ member[row[1]][row[2]] = BootRole(row[2])

\* What a handler has checked: its guild is one of the guilds, its role is the one
\* the actor has there and manages members, and before it writes it has looked at
\* the target; all of it as long as nobody is told of a change.
Checked(h) ==
    LET c == hs[h] IN
    /\ c.pc \in {"guild", "target", "write"} =>
          c.user \in Users /\ c.target \in Users /\ c.ask \in Roles
    /\ c.pc = "guild" => c.wanted \in guilds
    /\ c.pc \in {"target", "write"} =>
          /\ c.guild \in guilds /\ RoleAllowed(c.user, c.role)
          /\ ~c.disturbed => c.role = ActorRole(c.user, c.guild)
    /\ c.pc = "write" /\ ~c.disturbed => TargetAllowed(c)
ChecksHold == \A h \in Handlers : Checked(h)

\* An audit event is of a change that has been made.
ToAudit == {h \in Handlers : hs[h].pc = "audit"}
AuditsAreOfChanges == audits + Cardinality(ToAudit) <= changes

\* The checks of the member handlers, over memberships of the four roles.
\* ChecksHold and AuditsAreOfChanges make it inductive.
MembershipInv == TypeOK /\ ChecksHold /\ AuditsAreOfChanges /\ AuthorizedIfUndisturbed

\* A role that is there is changed by the member handlers alone, and the insert of
\* SessionUser brings nobody back but into the only guild, as a newcomer.
HandlersDecide == RolesKept /\ []RevokedStaysOut
=============================================================================
