------------------------------- MODULE SignIn -------------------------------
(***************************************************************************)
(* Signing in: OAuth states, callbacks, users and sessions, as in          *)
(* src/backend/internal/auth/auth.go and store/users.go.  A callback is a  *)
(* handler that makes one statement or one outside call per step, so two   *)
(* of them interleave at the database; the statement that upserts a user   *)
(* reads a snapshot when it starts (READ COMMITTED) and writes when it     *)
(* ends.  Any call may fail, a statement may be committed although its     *)
(* answer is lost, and the process may restart with other super admins.    *)
(*                                                                         *)
(* A state is consumed once at most, so the user row and the session that  *)
(* a callback may create are named by its state.                           *)
(***************************************************************************)
EXTENDS Naturals

CONSTANTS States,     \* random OAuth states, each issued once
          Callbacks,  \* callback handlers that may run at once
          Accounts,   \* Battle.net accounts
          SuperAdmins,\* the accounts whose BattleTag may be configured as super admin
          None,       \* no account, state or user
          StateTTL, SessionTTL,
          MaxTime     \* bound on the clock

ASSUME SignInAssumption ==
    /\ SuperAdmins \subseteq Accounts
    /\ None \notin States /\ None \notin Accounts
    /\ StateTTL \in Nat \ {0} /\ SessionTTL \in Nat \ {0} /\ MaxTime \in Nat

VARIABLES
    now,       \* the clock of application and database
    supers,    \* the accounts this process's configuration makes super admins
    oauth,     \* oauth_states: expiry of each row, 0 when there is none
    role,      \* users: app_role of each row, "none" when there is none
    identity,  \* battle_net_identities: the user of each account, or None
    session,   \* sessions: user and expiry, expiry 0 when there is no row
    cb,        \* what each callback handler is doing
    accepted,  \* history: how often each state was accepted
    loggedOut  \* history: sessions whose logout was answered 204

tables == <<oauth, role, identity, session>>
vars == <<now, supers, oauth, role, identity, session, cb, accepted, loggedOut>>

Rank == [none |-> 0, member |-> 1, admin |-> 2, superadmin |-> 3]
Users == {u \in States : role[u] # "none"}

Idle == [pc |-> "idle", state |-> None, account |-> None, at |-> 0,
         known |-> None, first |-> FALSE, user |-> None]
NoSession == [user |-> None, account |-> None, expires |-> 0]

Init ==
    /\ now = 0
    /\ supers \in SUBSET SuperAdmins
    /\ oauth = [s \in States |-> 0]
    /\ role = [s \in States |-> "none"]
    /\ identity = [a \in Accounts |-> None]
    /\ session = [s \in States |-> NoSession]
    /\ cb = [p \in Callbacks |-> Idle]
    /\ accepted = [s \in States |-> 0]
    /\ loggedOut = {}

\* Login: a state is stored, with its expiry, before the redirect; one that was
\* never accepted stands, when it is issued again, for a fresh one.
AuthorizationURL(s) ==
    /\ oauth[s] = 0 /\ accepted[s] = 0
    /\ oauth' = [oauth EXCEPT ![s] = now + StateTTL]
    /\ UNCHANGED <<now, supers, role, identity, session, cb, accepted, loggedOut>>

\* The browser comes back, perhaps twice, with a state and an account's grant.
Callback(p, s, a) ==
    /\ cb[p] = Idle
    /\ cb' = [cb EXCEPT ![p] = [Idle EXCEPT !.pc = "consume", !.state = s,
                                            !.account = a, !.at = now]]
    /\ UNCHANGED <<now, supers, tables, accepted, loggedOut>>

To(p, pc) == cb' = [cb EXCEPT ![p].pc = pc]
Refuse(p) == cb' = [cb EXCEPT ![p] = Idle]

\* The conditional DELETE counts one row for one caller only.
BadConsumes(c) == oauth[c.state] # 0
Consumes(c) == oauth[c.state] > c.at
Spend(s) == [oauth EXCEPT ![s] = 0]

ConsumeOAuthState(p) ==
    /\ cb[p].pc = "consume" /\ Consumes(cb[p])
    /\ oauth' = Spend(cb[p].state)
    /\ \/ /\ To(p, "exchange")
          /\ accepted' = [accepted EXCEPT ![cb[p].state] = @ + 1]
       \/ Refuse(p) /\ UNCHANGED accepted   \* the answer was lost
    /\ UNCHANGED <<now, supers, role, identity, session, loggedOut>>

\* No such state, no database, no grant or no profile, or a failed statement:
\* an error page and an audit event.
Fail(p) ==
    /\ cb[p].pc # "idle"
    /\ Refuse(p)
    /\ UNCHANGED <<now, supers, tables, accepted, loggedOut>>

\* ExchangeCode and UserProfile.
Exchange(p) ==
    /\ cb[p].pc = "exchange"
    /\ To(p, "upsert")
    /\ UNCHANGED <<now, supers, tables, accepted, loggedOut>>

\* The upsert takes its snapshot.
UpsertBegins(p) ==
    /\ cb[p].pc = "upsert"
    /\ cb' = [cb EXCEPT ![p].pc = "insert", ![p].known = identity[cb[p].account],
                        ![p].first = (Users = {})]
    /\ UNCHANGED <<now, supers, tables, accepted, loggedOut>>

BootstrapRole(c) ==
    CASE c.account \in supers -> "superadmin"
      [] c.account \notin supers /\ c.first -> "admin"
      [] OTHER -> "member"

\* The upsert commits.  An account unknown to the snapshot gets a row in users
\* even if another callback has stored its identity since; the conflict on
\* bnet_id then keeps, and returns, the user stored first.
BadStoredUser(c) == IF c.known = None THEN c.state ELSE c.known
StoredUser(c) ==
    IF identity[c.account] = None THEN c.state ELSE identity[c.account]

UpsertCommits(p) ==
    LET c == cb[p] IN
    /\ c.pc = "insert"
    /\ role' = IF c.known = None
               THEN [role EXCEPT ![c.state] = BootstrapRole(c)] ELSE role
    /\ identity' = [identity EXCEPT ![c.account] = StoredUser(c)]
    /\ \/ cb' = [cb EXCEPT ![p].pc = "promote", ![p].user = StoredUser(c)]
       \/ Refuse(p)                         \* the answer was lost
    /\ UNCHANGED <<now, supers, oauth, session, accepted, loggedOut>>

BadPromoted(c) ==
    CASE c.account \in supers -> "superadmin"
      [] c.account \notin supers /\ role[c.user] = "superadmin" -> "admin"
      [] OTHER -> role[c.user]
Promoted(c) == IF c.account \in supers THEN "superadmin" ELSE role[c.user]

Promote(p) ==
    /\ cb[p].pc = "promote"
    /\ role' = [role EXCEPT ![cb[p].user] = Promoted(cb[p])]
    /\ To(p, "session")
    /\ UNCHANGED <<now, supers, oauth, identity, session, accepted, loggedOut>>

CreateSession(p) ==
    LET c == cb[p] IN
    /\ c.pc = "session"
    /\ session' = [session EXCEPT ![c.state] =
                     [user |-> c.user, account |-> c.account, expires |-> now + SessionTTL]]
    /\ Refuse(p)
    /\ UNCHANGED <<now, supers, oauth, role, identity, accepted, loggedOut>>

\* Logout answers 204 and clears the cookie whether or not the row could be
\* deleted.
Logout(s) ==
    /\ session[s].user # None /\ s \notin loggedOut
    /\ \/ session' = [session EXCEPT ![s] = NoSession]
       \/ UNCHANGED session                 \* the DELETE failed: logged only
    /\ loggedOut' = loggedOut \cup {s}
    /\ UNCHANGED <<now, supers, oauth, role, identity, cb, accepted>>

\* The daily sweep of expired states and sessions.
Swept(expires) == expires <= now
Sweep ==
    /\ oauth' = [s \in States |-> IF Swept(oauth[s]) THEN 0 ELSE oauth[s]]
    /\ session' = [s \in States |-> IF Swept(session[s].expires)
                                    THEN NoSession ELSE session[s]]
    /\ UNCHANGED <<now, supers, role, identity, cb, accepted, loggedOut>>

Tick ==
    /\ now < MaxTime
    /\ now' = now + 1
    /\ UNCHANGED <<supers, tables, cb, accepted, loggedOut>>

\* The process ends, with every handler, and starts with another configuration.
Restart ==
    /\ supers' \in SUBSET SuperAdmins
    /\ cb' = [p \in Callbacks |-> Idle]
    /\ UNCHANGED <<now, tables, accepted, loggedOut>>

Next ==
    \/ \E s \in States : AuthorizationURL(s) \/ Logout(s)
    \/ \E p \in Callbacks :
          \/ \E s \in States, a \in Accounts : Callback(p, s, a)
          \/ ConsumeOAuthState(p)
          \/ Fail(p)
          \/ Exchange(p)
          \/ UpsertBegins(p)
          \/ UpsertCommits(p)
          \/ Promote(p)
          \/ CreateSession(p)
    \/ Sweep
    \/ Tick
    \/ Restart

Spec == Init /\ [][Next]_vars

\* SessionUser finds the session.
Authenticated(s) == session[s].expires > now
-----------------------------------------------------------------------------
(* Properties.                                                             *)

SessionType == [user : Users \cup {None}, account : Accounts \cup {None},
                expires : 0..MaxTime + SessionTTL]
CallbackType ==
    [pc : {"idle", "consume", "exchange", "upsert", "insert", "promote", "session"},
     state : States \cup {None}, account : Accounts \cup {None}, at : 0..MaxTime,
     known : Users \cup {None}, first : BOOLEAN, user : Users \cup {None}]

\* Tables hold what their columns allow, and every reference is to a row.
TypeOK ==
    /\ now \in 0..MaxTime /\ supers \subseteq SuperAdmins
    /\ oauth \in [States -> 0..MaxTime + StateTTL]
    /\ role \in [States -> DOMAIN Rank]
    /\ identity \in [Accounts -> Users \cup {None}]
    /\ session \in [States -> SessionType]
    /\ cb \in [Callbacks -> CallbackType]
    /\ accepted \in [States -> Nat]
    /\ loggedOut \subseteq States

\* However many callbacks bring it, and whatever the sweeper does meanwhile, a
\* state is accepted once at most (docs/security.md: atomically deleted).
StateUsedOnce == \A s \in States : accepted[s] <= 1

\* A state is accepted only by a callback that began before it expired, ten
\* minutes after it was issued, also when the sweeper has not run yet.
StateInTime ==
    [][\A s \in States : accepted'[s] > accepted[s]
         => \E p \in Callbacks : cb[p].state = s /\ cb[p].at < oauth[s]]_vars

\* All sessions of an account, created by racing callbacks or long apart, are
\* sessions of one user, the one its identity names.
OneUserPerAccount ==
    \A s \in States : session[s].user # None =>
        session[s].user = identity[session[s].account]

\* As soon as there is a user, somebody who can sign in administers the
\* platform: racing first sign-ins cannot lose the bootstrap role.
SomebodyAdministers ==
    Users # {} => \E a \in Accounts : /\ identity[a] # None
                                      /\ role[identity[a]] \in {"admin", "superadmin"}

\* Whoever signs in with a configured BattleTag is a super admin when the session
\* starts, also if the user was created by an earlier process that had no such
\* configuration (users.go:81).
SuperAdminsPromoted ==
    [][\A s \in States : session[s] # session'[s] /\ session'[s].account \in supers
         => role'[session'[s].user] = "superadmin"]_vars

\* No sign-in lowers a stored role (users.go:81).
NeverDemoted == [][\A u \in States : Rank[role'[u]] >= Rank[role[u]]]_vars

\* A session ends by logging out or by its expiry and never sooner: neither
\* another sign-in nor the sweeper takes it away (users.go:152).
SessionLastsUntilLogout ==
    [][\A s \in States : Authenticated(s) /\ session'[s] # session[s]
         => s \in loggedOut']_vars

\* A state that can still be consumed was never accepted, and one that was never
\* accepted has named no user and no session.
UnusedStatesAreFresh ==
    \A s \in States :
        /\ oauth[s] # 0 => accepted[s] = 0
        /\ accepted[s] = 0 => role[s] = "none" /\ session[s] = NoSession

\* The DELETE gave the state to one callback, whose user row and session are still
\* to come.
Spent(p) == cb[p].pc \notin {"idle", "consume"}
CallbackOwnsState ==
    \A p \in Callbacks : LET c == cb[p] IN
        /\ c.pc # "idle" => c.state \in States /\ c.account \in Accounts
        /\ Spent(p) =>
              /\ accepted[c.state] = 1 /\ session[c.state] = NoSession
              /\ \A q \in Callbacks \ {p} : Spent(q) => cb[q].state # c.state
        /\ c.pc \in {"exchange", "upsert", "insert"} => role[c.state] = "none"

\* What a callback has read is outdated in one direction only: an identity that
\* was there stays, and nobody who saw users is the first.  What it has stored
\* stays as well.
KnowledgeHolds ==
    \A p \in Callbacks : LET c == cb[p] IN
        /\ c.pc = "insert" =>
              /\ c.known # None => identity[c.account] = c.known
              /\ Users = {} => c.first
        /\ c.pc \in {"promote", "session"} =>
              c.user # None /\ c.user = identity[c.account]
        /\ c.pc = "session" /\ c.account \in supers => role[c.user] = "superadmin"

\* Whatever callbacks race: states are used once, an account has one user, and
\* somebody administers.  The other three make it inductive.
SignInInv ==
    /\ TypeOK
    /\ UnusedStatesAreFresh /\ CallbackOwnsState /\ KnowledgeHolds
    /\ StateUsedOnce /\ OneUserPerAccount /\ SomebodyAdministers

\* No sign-in takes a role away, and each gives the one that is configured.
RolesOnlyRise == SuperAdminsPromoted /\ NeverDemoted

\* States and sessions are good until they expire and not longer, swept or not.
ExpiryHonoured == StateInTime /\ SessionLastsUntilLogout
=============================================================================
