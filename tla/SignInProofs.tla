---------------------------- MODULE SignInProofs ----------------------------
(***************************************************************************)
(* SignIn for any number of states, callbacks and accounts.                *)
(***************************************************************************)
EXTENDS SignIn, TLAPS

\* While no role changes, the same rows can be referred to.
LEMMA SameUsersTyped ==
    ASSUME UNCHANGED role
    PROVE  /\ Users' = Users
           /\ SessionType' = SessionType
           /\ CallbackType' = CallbackType
  BY DEF Users, SessionType, CallbackType

LEMMA InitInv == Init => SignInInv
<1> SUFFICES ASSUME Init PROVE SignInInv
  OBVIOUS
<1> USE SignInAssumption DEF Init, Idle, NoSession
<1>1. TypeOK
  <2>1. Idle \in CallbackType /\ NoSession \in SessionType
    BY DEF CallbackType, SessionType
  <2> QED
    BY <2>1 DEF TypeOK, Rank, Users
<1>2. UnusedStatesAreFresh /\ CallbackOwnsState /\ KnowledgeHolds
  BY DEF UnusedStatesAreFresh, CallbackOwnsState, KnowledgeHolds, Spent
<1>3. StateUsedOnce /\ OneUserPerAccount /\ SomebodyAdministers
  BY DEF StateUsedOnce, OneUserPerAccount, SomebodyAdministers, Users
<1> QED
  BY <1>1, <1>2, <1>3 DEF SignInInv

\* Login stores a state that has left no trace.
LEMMA AuthorizationURLKeeps ==
    ASSUME SignInInv, NEW s \in States, AuthorizationURL(s)
    PROVE  SignInInv'
<1> USE SignInAssumption DEF SignInInv, AuthorizationURL
<1>1. TypeOK'
  BY SameUsersTyped DEF TypeOK
<1>2. UnusedStatesAreFresh'
  BY DEF TypeOK, UnusedStatesAreFresh
<1>3. CallbackOwnsState' /\ KnowledgeHolds'
  BY DEF CallbackOwnsState, KnowledgeHolds, Spent, Users
<1>4. StateUsedOnce' /\ OneUserPerAccount' /\ SomebodyAdministers'
  BY DEF StateUsedOnce, OneUserPerAccount, SomebodyAdministers, Users
<1> QED
  BY <1>1, <1>2, <1>3, <1>4

\* A callback comes in, or is refused: it owns nothing.
LEMMA IdleOrNewKeeps ==
    ASSUME SignInInv, NEW p \in Callbacks,
           \/ Fail(p)
           \/ \E s \in States, a \in Accounts : Callback(p, s, a)
    PROVE  SignInInv'
<1> USE SignInAssumption DEF SignInInv
<1>0. PICK c \in CallbackType :
        /\ cb' = [cb EXCEPT ![p] = c]
        /\ c.pc \in {"idle", "consume"}
        /\ c.pc # "idle" => c.state \in States /\ c.account \in Accounts
        /\ UNCHANGED <<now, supers, tables, accepted, loggedOut>>
  <2>1. Idle \in CallbackType /\ Idle.pc = "idle"
    BY DEF CallbackType, Idle
  <2>2. CASE Fail(p)
    BY <2>1, <2>2 DEF Fail, Refuse
  <2>3. ASSUME NEW s \in States, NEW a \in Accounts, Callback(p, s, a)
        PROVE  LET c == [Idle EXCEPT !.pc = "consume", !.state = s,
                                     !.account = a, !.at = now]
               IN  /\ c \in CallbackType /\ c.pc = "consume"
                   /\ c.state = s /\ c.account = a
                   /\ cb' = [cb EXCEPT ![p] = c]
                   /\ UNCHANGED <<now, supers, tables, accepted, loggedOut>>
    BY <2>3 DEF Callback, TypeOK, CallbackType, Idle
  <2>4. CASE \E s \in States, a \in Accounts : Callback(p, s, a)
    <3> PICK s \in States, a \in Accounts : Callback(p, s, a)
      BY <2>4
    <3> DEFINE c == [Idle EXCEPT !.pc = "consume", !.state = s, !.account = a, !.at = now]
    <3>1. /\ c \in CallbackType /\ c.pc = "consume"
          /\ c.state = s /\ c.account = a
          /\ cb' = [cb EXCEPT ![p] = c]
          /\ UNCHANGED <<now, supers, tables, accepted, loggedOut>>
      BY <2>3
    <3> HIDE DEF c
    <3> QED
      BY <3>1
  <2> QED
    BY <2>2, <2>4
<1>1. TypeOK'
  BY <1>0, SameUsersTyped DEF TypeOK, tables
<1>2. /\ cb'[p].pc \in {"idle", "consume"}
      /\ cb'[p].pc # "idle" => cb'[p].state \in States /\ cb'[p].account \in Accounts
      /\ \A q \in Callbacks \ {p} : cb'[q] = cb[q]
  BY <1>0 DEF TypeOK
<1>3. UnusedStatesAreFresh'
  BY <1>0 DEF UnusedStatesAreFresh, tables
<1>4. CallbackOwnsState'
  BY <1>0, <1>2 DEF CallbackOwnsState, Spent, tables
<1>5. KnowledgeHolds'
  BY <1>0, <1>2 DEF KnowledgeHolds, Users, tables
<1>6. StateUsedOnce' /\ OneUserPerAccount' /\ SomebodyAdministers'
  BY <1>0 DEF StateUsedOnce, OneUserPerAccount, SomebodyAdministers, Users, tables
<1> QED
  BY <1>1, <1>3, <1>4, <1>5, <1>6

\* The state that is given away can be consumed no more, and who has it is alone.
LEMMA ConsumeKeeps ==
    ASSUME SignInInv, NEW p \in Callbacks, ConsumeOAuthState(p)
    PROVE  SignInInv'
<1> USE SignInAssumption DEF SignInInv
<1>0. PICK s \in States : /\ s = cb[p].state /\ cb[p].pc = "consume" /\ oauth[s] # 0
                          /\ accepted[s] = 0 /\ role[s] = "none" /\ session[s] = NoSession
                          /\ cb[p].account \in Accounts
  BY DEF ConsumeOAuthState, Consumes, CallbackOwnsState, UnusedStatesAreFresh, TypeOK, CallbackType
<1>1. /\ oauth' = [oauth EXCEPT ![s] = 0]
      /\ \/ cb' = [cb EXCEPT ![p].pc = "exchange"] /\ accepted' = [accepted EXCEPT ![s] = 1]
         \/ cb' = [cb EXCEPT ![p] = Idle] /\ accepted' = accepted
      /\ UNCHANGED <<now, supers, role, identity, session, loggedOut>>
  BY <1>0 DEF ConsumeOAuthState, To, Refuse, Spend, TypeOK
<1>2. TypeOK'
  <2>1. cb'[p] \in CallbackType
    <3>1. Idle \in CallbackType
      BY DEF Idle, CallbackType
    <3>2. [cb[p] EXCEPT !.pc = "exchange"] \in CallbackType
      BY DEF TypeOK, CallbackType
    <3> QED
      BY <1>1, <3>1, <3>2 DEF TypeOK
  <2> QED
    BY <1>1, <2>1, SameUsersTyped DEF TypeOK
<1>3. /\ \A q \in Callbacks \ {p} : cb'[q] = cb[q]
      /\ \A q \in Callbacks : Spent(q) => cb[q].state # s
      /\ \/ /\ cb'[p].pc = "exchange" /\ cb'[p].state = s
            /\ cb'[p].account = cb[p].account
            /\ accepted'[s] = 1
         \/ cb'[p] = Idle /\ accepted'[s] = 0
      /\ \A t \in States \ {s} : accepted'[t] = accepted[t] /\ oauth'[t] = oauth[t]
      /\ oauth'[s] = 0
  BY <1>0, <1>1 DEF TypeOK, CallbackType, CallbackOwnsState
<1>4. UnusedStatesAreFresh' /\ StateUsedOnce'
  BY <1>0, <1>1, <1>3 DEF UnusedStatesAreFresh, StateUsedOnce
<1>5. CallbackOwnsState'
  BY <1>0, <1>1, <1>3 DEF CallbackOwnsState, Spent, Idle
<1>6. KnowledgeHolds'
  BY <1>1, <1>3 DEF KnowledgeHolds, Users, Idle
<1>7. OneUserPerAccount' /\ SomebodyAdministers'
  BY <1>1 DEF OneUserPerAccount, SomebodyAdministers, Users
<1> QED
  BY <1>2, <1>4, <1>5, <1>6, <1>7

\* The outside calls, and the snapshot of the upsert.
LEMMA ExchangeKeeps ==
    ASSUME SignInInv, NEW p \in Callbacks, Exchange(p) \/ UpsertBegins(p)
    PROVE  SignInInv'
<1> USE SignInAssumption DEF SignInInv
<1>1. /\ UNCHANGED <<now, supers, tables, accepted, loggedOut>>
      /\ \A q \in Callbacks \ {p} : cb'[q] = cb[q]
      /\ cb'[p].state = cb[p].state /\ cb'[p].account = cb[p].account
      /\ \/ cb[p].pc = "exchange" /\ cb'[p].pc = "upsert"
         \/ /\ cb[p].pc = "upsert" /\ cb'[p].pc = "insert"
            /\ cb'[p].known = identity[cb[p].account] /\ cb'[p].first = (Users = {})
  BY DEF Exchange, UpsertBegins, To, TypeOK, CallbackType
<1>2. TypeOK'
  <2>1. cb[p].pc = "upsert" => identity[cb[p].account] \in Users \cup {None}
    BY DEF CallbackOwnsState, TypeOK
  <2>2. cb'[p] \in CallbackType
    BY <2>1 DEF Exchange, UpsertBegins, To, TypeOK, CallbackType
  <2>3. cb' = [cb EXCEPT ![p] = cb'[p]]
    BY DEF Exchange, UpsertBegins, To, TypeOK, CallbackType
  <2> QED
    BY <1>1, <2>2, <2>3, SameUsersTyped DEF TypeOK, tables
<1>3. UnusedStatesAreFresh'
  BY <1>1 DEF UnusedStatesAreFresh, tables
<1>4. CallbackOwnsState'
  BY <1>1 DEF CallbackOwnsState, Spent, tables
<1>5. KnowledgeHolds'
  <2> SUFFICES ASSUME NEW q \in Callbacks
               PROVE  LET c == cb[q] IN
                      (/\ c.pc = "insert" =>
                            /\ c.known # None => identity[c.account] = c.known
                            /\ Users = {} => c.first
                       /\ c.pc \in {"promote", "session"} =>
                            c.user # None /\ c.user = identity[c.account]
                       /\ c.pc = "session" /\ c.account \in supers
                            => role[c.user] = "superadmin")'
    BY DEF KnowledgeHolds
  <2>1. Users' = Users /\ UNCHANGED <<identity, supers, role>>
    BY <1>1, SameUsersTyped DEF tables
  <2>2. CASE q = p
    BY <1>1, <2>1, <2>2
  <2>3. CASE q # p
    BY <1>1, <2>1, <2>3 DEF KnowledgeHolds
  <2> QED
    BY <2>2, <2>3
<1>6. StateUsedOnce' /\ OneUserPerAccount' /\ SomebodyAdministers'
  BY <1>1 DEF StateUsedOnce, OneUserPerAccount, SomebodyAdministers, Users, tables
<1> QED
  BY <1>2, <1>3, <1>4, <1>5, <1>6

\* More users, and the same rows can still be referred to.
LEMMA MoreUsersTyped ==
    ASSUME Users \subseteq Users'
    PROVE  SessionType \subseteq SessionType' /\ CallbackType \subseteq CallbackType'
  BY DEF SessionType, CallbackType

\* The upsert may add a row, which nothing refers to yet, and names a user for an
\* account that had none.
LEMMA UpsertCommitsKeeps ==
    ASSUME SignInInv, NEW p \in Callbacks, UpsertCommits(p)
    PROVE  SignInInv'
<1> USE SignInAssumption DEF SignInInv
<1>0. PICK s \in States, a \in Accounts, known \in Users \cup {None} :
        /\ s = cb[p].state /\ a = cb[p].account /\ known = cb[p].known
        /\ cb[p].pc = "insert" /\ role[s] = "none"
        /\ accepted[s] = 1 /\ session[s] = NoSession
        /\ known # None => identity[a] = known
        /\ Users = {} => cb[p].first
        /\ \A q \in Callbacks \ {p} : Spent(q) => cb[q].state # s
  BY DEF UpsertCommits, CallbackOwnsState, KnowledgeHolds, Spent, TypeOK, CallbackType
<1>1. PICK b \in {"member", "admin", "superadmin"}, u \in States :
        /\ role' = IF known = None THEN [role EXCEPT ![s] = b] ELSE role
        /\ b = "member" => Users # {}
        /\ u = IF identity[a] = None THEN s ELSE identity[a]
        /\ identity' = [identity EXCEPT ![a] = u]
        /\ \/ cb' = [cb EXCEPT ![p].pc = "promote", ![p].user = u]
           \/ cb' = [cb EXCEPT ![p] = Idle]
        /\ UNCHANGED <<now, supers, oauth, session, accepted, loggedOut>>
  <2>1. /\ BootstrapRole(cb[p]) \in {"member", "admin", "superadmin"}
        /\ BootstrapRole(cb[p]) = "member" => ~cb[p].first
    BY DEF BootstrapRole
  <2>2. StoredUser(cb[p]) = IF identity[a] = None THEN s ELSE identity[a]
    BY <1>0 DEF StoredUser
  <2>3. StoredUser(cb[p]) \in States
    BY <2>2 DEF TypeOK, Users
  <2>4. /\ role' = IF known = None THEN [role EXCEPT ![s] = BootstrapRole(cb[p])] ELSE role
        /\ identity' = [identity EXCEPT ![a] = StoredUser(cb[p])]
        /\ \/ cb' = [cb EXCEPT ![p].pc = "promote", ![p].user = StoredUser(cb[p])]
           \/ cb' = [cb EXCEPT ![p] = Idle]
        /\ UNCHANGED <<now, supers, oauth, session, accepted, loggedOut>>
    BY ONLY UpsertCommits(p), <1>0 DEF UpsertCommits, Refuse
  <2>5. BootstrapRole(cb[p]) = "member" => Users # {}
    BY <1>0, <2>1
  <2> DEFINE b == BootstrapRole(cb[p])
             u == StoredUser(cb[p])
  <2>6. b \in {"member", "admin", "superadmin"} /\ u \in States
    BY <2>1, <2>3
  <2> HIDE DEF b, u
  <2> QED
    BY ONLY <2>2, <2>4, <2>5, <2>6 DEF b, u
\* The account is known afterwards, and users and identities only grow.
<1>2. /\ u \in Users' /\ u # None /\ Users \subseteq Users'
      /\ \A x \in Users : role'[x] = role[x]
      /\ \A x \in States \ {s} : role'[x] = role[x]
      /\ role' \in [States -> DOMAIN Rank]
      /\ identity' \in [Accounts -> Users' \cup {None}]
      /\ \A d \in Accounts : identity[d] # None => identity'[d] = identity[d]
      /\ identity'[a] = u
  <2>1. /\ role' \in [States -> DOMAIN Rank]
        /\ \A x \in States \ {s} : role'[x] = role[x]
    BY <1>1 DEF TypeOK, Rank
  <2>2. Users \subseteq Users' /\ \A x \in Users : role'[x] = role[x]
    BY <1>0, <2>1 DEF Users
  <2>3. known = None => s \in Users'
    BY <1>1 DEF TypeOK, Users
  <2>4. u \in Users' /\ u # None
    BY <1>0, <1>1, <2>2, <2>3 DEF TypeOK
  <2> QED
    BY <1>1, <2>1, <2>2, <2>4 DEF TypeOK
<1>3. \A q \in Callbacks \ {p} : cb'[q] = cb[q]
  BY <1>1 DEF TypeOK
<1>4. \/ /\ cb'[p].pc = "promote" /\ cb'[p].user = u
         /\ cb'[p].state = s /\ cb'[p].account = a
      \/ cb'[p] = Idle
  BY <1>0, <1>1 DEF TypeOK, CallbackType
<1>5. TypeOK'
  <2>1. Idle \in CallbackType'
    BY DEF Idle, CallbackType
  <2>2. cb[p] \in CallbackType'
    BY <1>2, MoreUsersTyped DEF TypeOK
  <2>3. [cb[p] EXCEPT !.pc = "promote", !.user = u] \in CallbackType'
    BY <1>2, <2>2 DEF CallbackType
  <2>4. cb'[p] \in CallbackType'
    BY <1>1, <2>1, <2>3 DEF TypeOK
  <2>5. cb' \in [Callbacks -> CallbackType']
    BY <1>1, <1>2, <1>3, <2>4, MoreUsersTyped DEF TypeOK
  <2>6. session' \in [States -> SessionType']
    BY <1>1, <1>2, MoreUsersTyped DEF TypeOK
  <2> QED
    BY <1>1, <1>2, <2>5, <2>6 DEF TypeOK
<1>6. UnusedStatesAreFresh'
  BY <1>0, <1>1, <1>2 DEF UnusedStatesAreFresh
<1>7. CallbackOwnsState'
  <2> SUFFICES ASSUME NEW q \in Callbacks
               PROVE  LET c == cb[q] IN
                      (/\ c.pc # "idle" => c.state \in States /\ c.account \in Accounts
                       /\ Spent(q) =>
                             /\ accepted[c.state] = 1 /\ session[c.state] = NoSession
                             /\ \A r \in Callbacks \ {q} : Spent(r) => cb[r].state # c.state
                       /\ c.pc \in {"exchange", "upsert", "insert"} => role[c.state] = "none")'
    BY DEF CallbackOwnsState
  <2>1. CASE q = p
    BY <1>0, <1>1, <1>3, <1>4, <2>1 DEF Spent, Idle
  <2>2. CASE q # p
    BY <1>0, <1>1, <1>2, <1>3, <1>4, <2>2 DEF CallbackOwnsState, Spent, Idle
  <2> QED
    BY <2>1, <2>2
<1>8. KnowledgeHolds'
  <2> SUFFICES ASSUME NEW q \in Callbacks
               PROVE  LET c == cb[q] IN
                      (/\ c.pc = "insert" =>
                            /\ c.known # None => identity[c.account] = c.known
                            /\ Users = {} => c.first
                       /\ c.pc \in {"promote", "session"} =>
                            c.user # None /\ c.user = identity[c.account]
                       /\ c.pc = "session" /\ c.account \in supers
                            => role[c.user] = "superadmin")'
    BY DEF KnowledgeHolds
  <2>1. CASE q = p
    BY <1>2, <1>4, <2>1 DEF Idle
  <2>2. CASE q # p
    <3>1. cb[q].pc # "idle" => cb[q].account \in Accounts
      BY DEF CallbackOwnsState
    <3>2. cb[q].pc = "session" => cb[q].user \in Users
      BY DEF KnowledgeHolds, TypeOK, CallbackType
    <3> QED
      BY <1>1, <1>2, <1>3, <2>2, <3>1, <3>2 DEF KnowledgeHolds
  <2> QED
    BY <2>1, <2>2
<1>9. OneUserPerAccount'
  BY <1>1, <1>2 DEF OneUserPerAccount, TypeOK, SessionType
<1>10. SomebodyAdministers'
  <2>1. CASE Users = {}
    <3>1. known = None /\ identity[a] = None /\ b \in {"admin", "superadmin"} /\ u = s
      BY <1>0, <1>1, <2>1 DEF TypeOK
    <3>2. identity'[a] = s /\ role'[s] \in {"admin", "superadmin"}
      BY <1>1, <1>2, <3>1 DEF TypeOK
    <3> QED
      BY <3>2 DEF SomebodyAdministers
  <2>2. CASE Users # {}
    BY <1>2, <2>2 DEF SomebodyAdministers, TypeOK
  <2> QED
    BY <2>1, <2>2
<1>11. StateUsedOnce'
  BY <1>1 DEF StateUsedOnce
<1> QED
  BY <1>5, <1>6, <1>7, <1>8, <1>9, <1>10, <1>11

\* A role may rise, and whoever is configured gets it.
LEMMA PromoteKeeps ==
    ASSUME SignInInv, NEW p \in Callbacks, Promote(p)
    PROVE  SignInInv'
<1> USE SignInAssumption DEF SignInInv
<1>0. PICK u \in Users, a \in Accounts :
        /\ cb[p].pc = "promote" /\ cb[p].user = u /\ cb[p].account = a
        /\ identity[a] = u
  BY DEF Promote, KnowledgeHolds, CallbackOwnsState, TypeOK, CallbackType
<1>1. PICK r \in {"member", "admin", "superadmin"} :
        /\ role' = [role EXCEPT ![u] = r]
        /\ r = "superadmin" \/ r = role[u]
        /\ a \in supers => r = "superadmin"
  <2>1. role[u] \in {"member", "admin", "superadmin"} /\ role[u] # "none"
    BY DEF TypeOK, Rank, Users
  <2>2. /\ Promoted(cb[p]) \in {"member", "admin", "superadmin"}
        /\ Promoted(cb[p]) = "superadmin" \/ Promoted(cb[p]) = role[u]
        /\ a \in supers => Promoted(cb[p]) = "superadmin"
    BY <1>0, <2>1 DEF Promoted
  <2>3. role' = [role EXCEPT ![u] = Promoted(cb[p])]
    BY <1>0 DEF Promote
  <2> QED
    BY <2>2, <2>3
<1>2. /\ cb' = [cb EXCEPT ![p].pc = "session"]
      /\ UNCHANGED <<now, supers, oauth, identity, session, accepted, loggedOut>>
  BY DEF Promote, To
<1>3. /\ \A q \in Callbacks \ {p} : cb'[q] = cb[q]
      /\ cb'[p].pc = "session" /\ cb'[p].user = u /\ cb'[p].account = a
      /\ cb'[p].state = cb[p].state
  BY <1>0, <1>2 DEF TypeOK, CallbackType
<1>4. /\ Users' = Users
      /\ role' \in [States -> DOMAIN Rank]
      /\ \A x \in States \ {u} : role'[x] = role[x]
      /\ role'[u] = r
      /\ \A x \in States : role[x] = "superadmin" => role'[x] = "superadmin"
  BY <1>1 DEF Users, TypeOK, Rank
<1>5. TypeOK'
  <2>1. SessionType' = SessionType /\ CallbackType' = CallbackType
    BY <1>2, <1>4 DEF SessionType, CallbackType
  <2>2. [cb[p] EXCEPT !.pc = "session"] \in CallbackType
    BY DEF TypeOK, CallbackType
  <2> QED
    BY <1>2, <1>4, <2>1, <2>2 DEF TypeOK
<1>6. UnusedStatesAreFresh' /\ StateUsedOnce'
  BY <1>2, <1>4 DEF UnusedStatesAreFresh, StateUsedOnce, Users
<1>7. CallbackOwnsState'
  <2>1. \A q \in Callbacks : Spent(q)' <=> Spent(q)
    BY <1>0, <1>3 DEF Spent
  <2>2. \A q \in Callbacks : cb'[q].state = cb[q].state /\ cb'[q].account = cb[q].account
    BY <1>0, <1>3
  <2>3. \A q \in Callbacks : cb'[q].pc \in {"exchange", "upsert", "insert"}
                               => cb'[q].pc = cb[q].pc /\ cb[q].state # u
    BY <1>3 DEF CallbackOwnsState, Users
  <2>4. \A q \in Callbacks : cb'[q].pc # "idle" => cb[q].pc # "idle"
    BY <1>0, <1>3
  <2>5. \A x \in States : role[x] = "none" => role'[x] = "none"
    BY <1>4 DEF Users
  <2> QED
    BY <1>2, <2>1, <2>2, <2>3, <2>4, <2>5 DEF CallbackOwnsState
<1>8. KnowledgeHolds'
  <2> SUFFICES ASSUME NEW q \in Callbacks
               PROVE  LET c == cb[q] IN
                      (/\ c.pc = "insert" =>
                            /\ c.known # None => identity[c.account] = c.known
                            /\ Users = {} => c.first
                       /\ c.pc \in {"promote", "session"} =>
                            c.user # None /\ c.user = identity[c.account]
                       /\ c.pc = "session" /\ c.account \in supers
                            => role[c.user] = "superadmin")'
    BY DEF KnowledgeHolds
  <2>1. CASE q = p
    <3>1. u # None
      BY DEF Users
    <3> QED
      BY <1>0, <1>1, <1>2, <1>3, <1>4, <2>1, <3>1
  <2>2. CASE q # p
    <3>1. cb[q].pc = "session" => cb[q].user \in States
      BY DEF KnowledgeHolds, TypeOK, CallbackType, Users
    <3> QED
      BY <1>2, <1>3, <1>4, <2>2, <3>1 DEF KnowledgeHolds
  <2> QED
    BY <2>1, <2>2
<1>9. OneUserPerAccount'
  BY <1>2 DEF OneUserPerAccount
<1>10. SomebodyAdministers'
  <2> SUFFICES ASSUME Users # {}
               PROVE  SomebodyAdministers'
    BY <1>4 DEF SomebodyAdministers
  <2>1. PICK d \in Accounts : identity[d] # None /\ role[identity[d]] \in {"admin", "superadmin"}
    BY DEF SomebodyAdministers
  <2>2. role'[identity[d]] \in {"admin", "superadmin"}
    BY <1>1, <1>4, <2>1 DEF TypeOK, Users
  <2> QED
    BY <1>2, <2>1, <2>2 DEF SomebodyAdministers
<1> QED
  BY <1>5, <1>6, <1>7, <1>8, <1>9, <1>10

\* The session is the user's that the account's identity names.
LEMMA CreateSessionKeeps ==
    ASSUME SignInInv, NEW p \in Callbacks, CreateSession(p)
    PROVE  SignInInv'
<1> USE SignInAssumption DEF SignInInv
<1>0. PICK s \in States, u \in Users, a \in Accounts :
        /\ cb[p].state = s /\ cb[p].user = u /\ cb[p].account = a
        /\ cb[p].pc = "session" /\ identity[a] = u /\ accepted[s] = 1
        /\ \A q \in Callbacks \ {p} : Spent(q) => cb[q].state # s
  BY DEF CreateSession, KnowledgeHolds, CallbackOwnsState, Spent, TypeOK, CallbackType
<1>1. PICK e \in 0..MaxTime + SessionTTL :
        session' = [session EXCEPT ![s] = [user |-> u, account |-> a, expires |-> e]]
  <2>1. now + SessionTTL \in 0..MaxTime + SessionTTL
    BY DEF TypeOK
  <2> QED
    BY <1>0, <2>1 DEF CreateSession
<1>2. /\ cb' = [cb EXCEPT ![p] = Idle]
      /\ UNCHANGED <<now, supers, oauth, role, identity, accepted, loggedOut>>
  BY DEF CreateSession, Refuse
<1>3. (\A q \in Callbacks \ {p} : cb'[q] = cb[q]) /\ cb'[p].pc = "idle"
  BY <1>2 DEF TypeOK, Idle
<1>4. TypeOK'
  <2>1. Idle \in CallbackType /\ [user |-> u, account |-> a, expires |-> e] \in SessionType
    BY DEF CallbackType, SessionType, Idle
  <2> QED
    BY <1>1, <1>2, <2>1, SameUsersTyped DEF TypeOK
<1>5. /\ session'[s].user = u /\ session'[s].account = a
      /\ \A t \in States \ {s} : session'[t] = session[t]
  BY <1>1 DEF TypeOK
<1>6. UnusedStatesAreFresh' /\ StateUsedOnce'
  BY <1>0, <1>2, <1>5 DEF UnusedStatesAreFresh, StateUsedOnce
<1>7. CallbackOwnsState'
  BY <1>0, <1>2, <1>3, <1>5 DEF CallbackOwnsState, Spent
<1>8. KnowledgeHolds'
  BY <1>2, <1>3 DEF KnowledgeHolds, Users
<1>9. OneUserPerAccount'
  BY <1>0, <1>2, <1>5 DEF OneUserPerAccount
<1>10. SomebodyAdministers'
  BY <1>2 DEF SomebodyAdministers, Users
<1> QED
  BY <1>4, <1>6, <1>7, <1>8, <1>9, <1>10

\* Logging out and the sweeper only take rows away.
LEMMA RowsGoneKeeps ==
    ASSUME SignInInv, Sweep \/ \E s \in States : Logout(s)
    PROVE  SignInInv'
<1> USE SignInAssumption DEF SignInInv
<1>1. /\ UNCHANGED <<now, supers, role, identity, cb, accepted>>
      /\ oauth' \in [States -> 0..MaxTime + StateTTL]
      /\ session' \in [States -> SessionType]
      /\ loggedOut' \subseteq States
      /\ \A s \in States : /\ oauth'[s] = 0 \/ oauth'[s] = oauth[s]
                           /\ session'[s] = NoSession \/ session'[s] = session[s]
  <2>1. NoSession \in SessionType
    BY DEF NoSession, SessionType
  <2>2. CASE Sweep
    <3>1. \A s \in States : oauth'[s] = 0 \/ oauth'[s] = oauth[s]
      BY <2>2 DEF Sweep
    <3>2. \A s \in States : session'[s] = NoSession \/ session'[s] = session[s]
      BY <2>2 DEF Sweep
    <3>3. oauth' \in [States -> 0..MaxTime + StateTTL]
      BY <2>2 DEF Sweep, TypeOK
    <3>4. session' \in [States -> SessionType]
      BY <2>1, <2>2 DEF Sweep, TypeOK
    <3> QED
      BY <2>2, <3>1, <3>2, <3>3, <3>4 DEF Sweep, TypeOK
  <2>3. CASE \E s \in States : Logout(s)
    BY <2>1, <2>3 DEF Logout, TypeOK
  <2> QED
    BY <2>2, <2>3
<1>2. TypeOK'
  BY <1>1, SameUsersTyped DEF TypeOK
<1>3. UnusedStatesAreFresh' /\ StateUsedOnce'
  BY <1>1 DEF UnusedStatesAreFresh, StateUsedOnce
<1>4. CallbackOwnsState' /\ KnowledgeHolds'
  BY <1>1 DEF CallbackOwnsState, KnowledgeHolds, Spent, Users
<1>5. OneUserPerAccount' /\ SomebodyAdministers'
  BY <1>1 DEF OneUserPerAccount, SomebodyAdministers, Users, NoSession
<1> QED
  BY <1>2, <1>3, <1>4, <1>5

\* Time passes, or the process ends and starts with other super admins.
LEMMA ClockOrRestartKeeps ==
    ASSUME SignInInv, Tick \/ Restart \/ UNCHANGED vars
    PROVE  SignInInv'
<1> USE SignInAssumption DEF SignInInv
<1>1. /\ UNCHANGED <<oauth, role, identity, session, accepted, loggedOut>>
      /\ now' \in 0..MaxTime /\ supers' \subseteq SuperAdmins
      /\ \/ supers' = supers /\ cb' = cb
         \/ cb' = [p \in Callbacks |-> Idle]
  BY DEF Tick, Restart, vars, tables, TypeOK
<1>2. TypeOK'
  <2>1. Idle \in CallbackType
    BY DEF CallbackType, Idle
  <2> QED
    BY <1>1, <2>1, SameUsersTyped DEF TypeOK
<1>3. UnusedStatesAreFresh' /\ StateUsedOnce'
  BY <1>1 DEF UnusedStatesAreFresh, StateUsedOnce
<1>4. CallbackOwnsState' /\ KnowledgeHolds'
  BY <1>1 DEF CallbackOwnsState, KnowledgeHolds, Spent, Users, Idle
<1>5. OneUserPerAccount' /\ SomebodyAdministers'
  BY <1>1 DEF OneUserPerAccount, SomebodyAdministers, Users
<1> QED
  BY <1>2, <1>3, <1>4, <1>5

\* However sign-ins, logouts, sweeps and restarts interleave, a state is used once,
\* the sessions of an account are one user's, and there is an administrator as
\* soon as there is a user.
THEOREM SignInInvariance == Spec => []SignInInv
<1>1. SignInInv /\ [Next]_vars => SignInInv'
  BY AuthorizationURLKeeps, IdleOrNewKeeps, ConsumeKeeps, ExchangeKeeps, UpsertCommitsKeeps,
     PromoteKeeps, CreateSessionKeeps, RowsGoneKeeps, ClockOrRestartKeeps
  DEF Next
<1> QED
  BY InitInv, <1>1, PTL DEF Spec

\* A sign-in that ends in a session has given the account its configured role, and
\* none takes a stored role away (users.go:81).
THEOREM RolesRise == Spec => RolesOnlyRise
<1> USE SignInAssumption
<1>1. SignInInv /\ [Next]_vars =>
        [\A s \in States : session[s] # session'[s] /\ session'[s].account \in supers
           => role'[session'[s].user] = "superadmin"]_vars
  <2> SUFFICES ASSUME SignInInv, Next, NEW s \in States,
                      session[s] # session'[s], session'[s].account \in supers
               PROVE  role'[session'[s].user] = "superadmin"
    OBVIOUS
  <2>1. session'[s] # NoSession
    BY DEF NoSession, SignInInv, TypeOK
  <2>2. PICK p \in Callbacks : CreateSession(p)
    BY <2>1 DEF Next, AuthorizationURL, Logout, Callback, ConsumeOAuthState, Fail, Exchange,
                UpsertBegins, UpsertCommits, Promote, Sweep, Tick, Restart, tables,
                SignInInv, TypeOK
  <2>3. /\ cb[p].pc = "session" /\ cb[p].state \in States
        /\ session' = [session EXCEPT ![cb[p].state] =
              [user |-> cb[p].user, account |-> cb[p].account, expires |-> now + SessionTTL]]
        /\ role' = role
    BY <2>2 DEF CreateSession, SignInInv, CallbackOwnsState
  <2>4. session'[s].account = cb[p].account /\ session'[s].user = cb[p].user
    BY <2>3 DEF SignInInv, TypeOK
  <2> QED
    BY <2>3, <2>4 DEF SignInInv, KnowledgeHolds
<1>2. SignInInv /\ [Next]_vars => [\A u \in States : Rank[role'[u]] >= Rank[role[u]]]_vars
  <2> SUFFICES ASSUME SignInInv, Next, NEW u \in States
               PROVE  Rank[role'[u]] >= Rank[role[u]]
    OBVIOUS
  <2>1. role[u] \in DOMAIN Rank
    BY DEF SignInInv, TypeOK
  <2>2. \/ role'[u] = role[u]
        \/ role[u] = "none" /\ role'[u] \in {"member", "admin", "superadmin"}
        \/ role'[u] = "superadmin"
    <3>1. ASSUME NEW p \in Callbacks, UpsertCommits(p)
          PROVE  \/ role'[u] = role[u]
                 \/ role[u] = "none" /\ role'[u] \in {"member", "admin", "superadmin"}
      <4>1. role[cb[p].state] = "none"
        BY <3>1 DEF UpsertCommits, SignInInv, CallbackOwnsState
      <4>2. BootstrapRole(cb[p]) \in {"member", "admin", "superadmin"}
        BY DEF BootstrapRole
      <4> QED
        BY <3>1, <4>1, <4>2 DEF UpsertCommits, SignInInv, TypeOK
    <3>2. ASSUME NEW p \in Callbacks, Promote(p)
          PROVE  role'[u] = role[u] \/ role'[u] = "superadmin"
      BY <3>2 DEF Promote, Promoted, SignInInv, TypeOK
    <3>3. \/ \E p \in Callbacks : UpsertCommits(p) \/ Promote(p)
          \/ role' = role
      BY DEF Next, AuthorizationURL, Logout, Callback, ConsumeOAuthState, Fail, Exchange,
             UpsertBegins, CreateSession, Sweep, Tick, Restart, tables
    <3> QED
      BY <3>1, <3>2, <3>3
  <2> QED
    BY <2>1, <2>2 DEF Rank
<1> QED
  BY SignInInvariance, <1>1, <1>2, PTL
  DEF Spec, RolesOnlyRise, SuperAdminsPromoted, NeverDemoted

\* A state is accepted from a callback that came in time, and a session that is still
\* good ends by a logout only, whatever the sweeper and other sign-ins do.
THEOREM ExpiriesAreHonoured == Spec => ExpiryHonoured
<1> USE SignInAssumption
<1>1. SignInInv /\ [Next]_vars =>
        [\A s \in States : accepted'[s] > accepted[s]
           => \E p \in Callbacks : cb[p].state = s /\ cb[p].at < oauth[s]]_vars
  <2> SUFFICES ASSUME SignInInv, Next, NEW s \in States, accepted'[s] > accepted[s]
               PROVE  \E p \in Callbacks : cb[p].state = s /\ cb[p].at < oauth[s]
    OBVIOUS
  <2>1. accepted' # accepted
    BY DEF SignInInv, TypeOK
  <2>2. PICK p \in Callbacks : ConsumeOAuthState(p)
    BY <2>1 DEF Next, AuthorizationURL, Logout, Callback, Fail, Exchange, UpsertBegins,
                UpsertCommits, Promote, CreateSession, Sweep, Tick, Restart
  <2>3. accepted' = [accepted EXCEPT ![cb[p].state] = @ + 1] /\ oauth[cb[p].state] > cb[p].at
    BY <2>1, <2>2 DEF ConsumeOAuthState, Consumes
  <2>4. cb[p].state = s
    BY <2>3 DEF SignInInv, TypeOK
  <2>5. cb[p].at \in Nat /\ oauth[s] \in Nat
    BY DEF SignInInv, TypeOK, CallbackType
  <2> QED
    BY <2>3, <2>4, <2>5
<1>2. SignInInv /\ [Next]_vars =>
        [\A s \in States : Authenticated(s) /\ session'[s] # session[s]
           => s \in loggedOut']_vars
  <2> SUFFICES ASSUME SignInInv, Next, NEW s \in States,
                      Authenticated(s), session'[s] # session[s]
               PROVE  s \in loggedOut'
    OBVIOUS
  <2>1. session[s].expires > now /\ session[s].expires \in Nat /\ now \in Nat
    BY DEF Authenticated, SignInInv, TypeOK, SessionType
  <2>2. session[s] # NoSession
    BY <2>1 DEF NoSession
  <2>3. ~Sweep
    BY <2>1 DEF Sweep, Swept
  <2>4. ASSUME NEW p \in Callbacks, CreateSession(p)
        PROVE  FALSE
    <3>1. session[cb[p].state] = NoSession
      BY <2>4 DEF CreateSession, SignInInv, CallbackOwnsState, Spent
    <3>2. session'[s] = session[s]
      BY <2>2, <2>4, <3>1 DEF CreateSession, SignInInv, TypeOK
    <3> QED
      BY <3>2
  <2>5. PICK t \in States : Logout(t)
    BY <2>3, <2>4 DEF Next, AuthorizationURL, Callback, ConsumeOAuthState, Fail, Exchange,
                      UpsertBegins, UpsertCommits, Promote, Tick, Restart, tables
  <2> QED
    BY <2>5 DEF Logout, SignInInv, TypeOK
<1> QED
  BY SignInInvariance, <1>1, <1>2, PTL
  DEF Spec, ExpiryHonoured, StateInTime, SessionLastsUntilLogout
=============================================================================
