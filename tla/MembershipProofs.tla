-------------------------- MODULE MembershipProofs --------------------------
(***************************************************************************)
(* Membership for any guilds, users, roles and number of handlers.  What a *)
(* handler has checked is about memberships of its actor and its target,   *)
(* and whoever changes one of those tells it.                              *)
(***************************************************************************)
EXTENDS Membership, FiniteSetTheorems, TLAPS

\* What is inductive: that a write is authorized follows from what was checked.
Core == TypeOK /\ ChecksHold /\ AuditsAreOfChanges

\* A user of some guilds has a first one.
LEMMA LeastIn ==
    ASSUME NEW S \in SUBSET Nat, S # {}
    PROVE  Least(S) \in S
<1> DEFINE T == {0..n : n \in S}
<1>1. T \subseteq FiniteSubsetsOf(Nat)
  <2>1. \A n \in S : IsFiniteSet(0..n) /\ 0..n \in SUBSET Nat
    BY FS_Interval
  <2> QED
    BY <2>1 DEF FiniteSubsetsOf
<1>2. PICK X \in T : \A Y \in T : ~(<<Y, X>> \in StrictSubsetOrdering(Nat))
  <2>1. T # {} /\ IsWellFoundedOn(StrictSubsetOrdering(Nat), FiniteSubsetsOf(Nat))
    BY FS_StrictSubsetOrderingWellFounded
  <2> HIDE DEF T
  <2> QED
    BY <1>1, <2>1, WFMin
<1>3. PICK x \in S : X = 0..x
  BY <1>2
<1>4. ASSUME NEW y \in S, y < x
      PROVE  FALSE
  <2>1. 0..y \in T /\ 0..y \in SUBSET Nat /\ 0..x \in SUBSET Nat
    OBVIOUS
  <2>2. 0..y \subseteq 0..x /\ 0..y # 0..x
    BY <1>4
  <2>3. <<0..y, 0..x>> \in StrictSubsetOrdering(Nat)
    BY <2>1, <2>2 DEF StrictSubsetOrdering
  <2> QED
    BY <1>2, <1>3, <2>1, <2>3
<1>5. \A y \in S : x <= y
  BY <1>4
<1> QED
  BY <1>5 DEF Least

\* The roles that can be stored, and those of them that manage members.
LEMMA Levels ==
    /\ DOMAIN Level = {"none", "member", "officer", "admin", "owner"}
    /\ \A role \in DOMAIN Level :
          Level[role] >= Level["admin"] <=> role \in {"owner", "admin"}
  BY DEF Level

\* The guilds there are.
LEMMA GuildsType ==
    ASSUME TypeOK
    PROVE  /\ guilds \subseteq Nat /\ DefaultGuild \in guilds /\ None \notin guilds
           /\ MaxChanges(guilds) \in Nat
  BY MembershipAssumption DEF TypeOK

\* The insert of SessionUser enters a user in the configured guild, or nobody.
LEMMA BootMember ==
    ASSUME TypeOK, NEW u \in Users
    PROVE  /\ Boot(u) \in [guilds -> [Users -> DOMAIN Level]]
           /\ \A g \in guilds, v \in Users :
                 \/ Boot(u)[g][v] = member[g][v]
                 \/ /\ v = u /\ member[g][v] = "none" /\ Cardinality(guilds) = 1
                    /\ Boot(u)[g][v] = BootRole(u)
<1>1. BootRole(u) \in DOMAIN Level
  BY MembershipAssumption, Levels DEF BootRole
<1>2. DefaultGuild \in guilds
  BY GuildsType
<1> QED
  BY <1>1, <1>2 DEF Boot, TypeOK

LEMMA InitInv == Init => Core /\ RevokedStaysOut
<1> SUFFICES ASSUME Init PROVE Core /\ RevokedStaysOut
  OBVIOUS
<1>0. PICK w \in Worlds : guilds = w.guilds /\ member = w.member
  BY DEF Init
<1>1. TypeOK
  <2>1. Idle \in HandlerType
    BY Levels DEF Idle, HandlerType
  <2> QED
    BY <1>0, <2>1, MembershipAssumption DEF Init, TypeOK
<1>2. ChecksHold
  BY DEF Init, Idle, ChecksHold, Checked
<1>3. AuditsAreOfChanges
  <2>1. ToAudit = {}
    BY DEF Init, Idle, ToAudit
  <2>2. Cardinality({}) = 0
    BY FS_EmptySet
  <2> QED
    BY <2>1, <2>2 DEF Init, AuditsAreOfChanges
<1> QED
  BY <1>1, <1>2, <1>3 DEF Core, RevokedStaysOut, Init

\* What a handler checked entitles it to its write.
LEMMA CheckedIsAuthorized == TypeOK /\ ChecksHold => AuthorizedIfUndisturbed
<1> SUFFICES ASSUME TypeOK, ChecksHold, NEW h \in Handlers,
                    hs[h].pc = "write", ~hs[h].disturbed, ~Super(hs[h].user)
             PROVE  LET c == hs[h] IN
                    /\ member[c.guild][c.user] \in {"owner", "admin"}
                    /\ "owner" \in {c.ask, member[c.guild][c.target]}
                         => member[c.guild][c.user] = "owner"
  BY DEF AuthorizedIfUndisturbed
<1> DEFINE c == hs[h]
<1>1. /\ c.user \in Users /\ c.target \in Users /\ c.guild \in guilds
      /\ RoleAllowed(c.user, c.role) /\ c.role = member[c.guild][c.user]
      /\ TargetAllowed(c)
  BY DEF ChecksHold, Checked, ActorRole
<1>2. c.role \in DOMAIN Level
  BY <1>1 DEF TypeOK
<1>3. c.role \in {"owner", "admin"} /\ c.role # "superadmin"
  BY <1>1, <1>2, Levels DEF RoleAllowed
<1> HIDE DEF c
<1> QED
  BY <1>1, <1>3 DEF TargetAllowed, MembershipChangeAllowed, ForUser, c

\* What a handler has checked stays true as long as it does not move, and as long as
\* it is told of every change to its actor and its target.
LEMMA StillChecked ==
    ASSUME Core, NEW h \in Handlers, guilds' = guilds,
           hs'[h] \in {hs[h], [hs[h] EXCEPT !.disturbed = TRUE]},
           hs'[h].disturbed \/ \A g \in guilds :
              /\ hs[h].user \in Users => member'[g][hs[h].user] = member[g][hs[h].user]
              /\ hs[h].target \in Users => member'[g][hs[h].target] = member[g][hs[h].target]
    PROVE  Checked(h)' /\ hs'[h].pc = hs[h].pc
<1>1. Checked(h) /\ hs[h] \in HandlerType
  BY DEF Core, ChecksHold, TypeOK
<1>2. /\ hs'[h].pc = hs[h].pc /\ hs'[h].user = hs[h].user /\ hs'[h].target = hs[h].target
      /\ hs'[h].ask = hs[h].ask /\ hs'[h].wanted = hs[h].wanted /\ hs'[h].op = hs[h].op
      /\ hs'[h].guild = hs[h].guild /\ hs'[h].role = hs[h].role
      /\ ~hs'[h].disturbed => ~hs[h].disturbed
  BY <1>1 DEF HandlerType
<1>3. CASE hs'[h].disturbed
  BY <1>1, <1>2, <1>3 DEF Checked, RoleAllowed, Super
<1>4. CASE ~hs'[h].disturbed
  BY <1>1, <1>2, <1>4 DEF Checked, RoleAllowed, Super, ActorRole, TargetAllowed,
                          FindGuildCandidate, ForUser
<1> QED
  BY <1>2, <1>3, <1>4

\* Who is told.
LEMMA Told ==
    ASSUME TypeOK, NEW h, NEW u \in Users
    PROVE  /\ Disturb(h, u) \in [Handlers -> HandlerType]
           /\ \A x \in Handlers :
                 /\ Disturb(h, u)[x] \in {hs[x], [hs[x] EXCEPT !.disturbed = TRUE]}
                 /\ x # h /\ u \in {hs[x].user, hs[x].target} => Disturb(h, u)[x].disturbed
<1>1. \A x \in Handlers : [hs[x] EXCEPT !.disturbed = TRUE] \in HandlerType
                          /\ [hs[x] EXCEPT !.disturbed = TRUE].disturbed
  <2>1. hs \in [Handlers -> HandlerType]
    BY DEF TypeOK
  <2>2. ASSUME NEW c \in HandlerType
        PROVE  [c EXCEPT !.disturbed = TRUE] \in HandlerType /\ [c EXCEPT !.disturbed = TRUE].disturbed
    BY ONLY <2>2 DEF HandlerType
  <2> QED
    BY <2>1, <2>2
<1> QED
  BY <1>1 DEF Disturb, TypeOK

\* The audit events still to come, when one handler moves.
LEMMA AuditsMove ==
    ASSUME TypeOK, NEW h \in Handlers, \A x \in Handlers \ {h} : hs'[x].pc = hs[x].pc
    PROVE  /\ IsFiniteSet(ToAudit) /\ Cardinality(ToAudit) \in Nat
           /\ hs[h].pc # "audit" /\ hs'[h].pc # "audit"
                 => Cardinality(ToAudit') = Cardinality(ToAudit)
           /\ hs[h].pc # "audit" /\ hs'[h].pc = "audit"
                 => Cardinality(ToAudit') = Cardinality(ToAudit) + 1
           /\ hs[h].pc = "audit" /\ hs'[h].pc # "audit"
                 => Cardinality(ToAudit') = Cardinality(ToAudit) - 1
<1>1. IsFiniteSet(ToAudit) /\ Cardinality(ToAudit) \in Nat
  BY MembershipAssumption, FS_Subset, FS_CardinalityType DEF ToAudit
<1>2. ASSUME hs[h].pc # "audit", hs'[h].pc # "audit"
      PROVE  ToAudit' = ToAudit
  BY <1>2 DEF ToAudit
<1>3. ASSUME hs[h].pc # "audit", hs'[h].pc = "audit"
      PROVE  ToAudit' = ToAudit \cup {h} /\ h \notin ToAudit
  BY <1>3 DEF ToAudit
<1>4. ASSUME hs[h].pc = "audit", hs'[h].pc # "audit"
      PROVE  ToAudit' = ToAudit \ {h} /\ h \in ToAudit
  BY <1>4 DEF ToAudit
<1> QED
  BY <1>1, <1>2, <1>3, <1>4, FS_AddElement, FS_RemoveElement

\* A handler asks for its guild, looks at its target, fails, or records its event:
\* memberships stay, and nobody is told of anything.
LEMMA QuietKeeps ==
    ASSUME Core, NEW h \in Handlers,
           RequireRole(h) \/ ReadTarget(h) \/ Audited(h) \/ Fail(h)
    PROVE  Core'
<1>0. TypeOK /\ hs[h] \in HandlerType /\ Checked(h)
  BY DEF Core, TypeOK, ChecksHold
<1>1. UNCHANGED <<guilds, member, changes, revoked>> /\ HandlerType' = HandlerType
  BY DEF RequireRole, ReadTarget, Audited, Fail, HandlerType
<1>2. Idle \in HandlerType /\ Idle.pc = "idle"
  BY Levels DEF Idle, HandlerType
<1>3. PICK d \in HandlerType :
        /\ hs' = [hs EXCEPT ![h] = d]
        /\ d.pc # "audit" /\ (d.pc \in {"idle", "target", "write"})
        /\ d.pc = "target" => /\ d.user \in Users /\ d.target \in Users /\ d.ask \in Roles
                              /\ d.guild \in guilds /\ RoleAllowed(d.user, d.role)
                              /\ ~d.disturbed => d.role = ActorRole(d.user, d.guild)
        /\ d.pc = "write" => /\ d.user \in Users /\ d.target \in Users /\ d.ask \in Roles
                             /\ d.guild \in guilds /\ RoleAllowed(d.user, d.role)
                             /\ ~d.disturbed => d.role = ActorRole(d.user, d.guild)
                             /\ TargetAllowed(d)
  <2>1. CASE Answer(h)
    BY <1>2, <2>1 DEF Answer
  <2>2. CASE RequireRole(h) /\ ~Answer(h)
    <3> DEFINE u == hs[h].user
               g == ChosenGuild(u, hs[h].wanted)
               d == [hs[h] EXCEPT !.pc = "target", !.wanted = None, !.guild = g,
                                  !.role = ActorRole(u, g)]
    <3>1. g # None /\ RoleAllowed(u, ActorRole(u, g)) /\ hs' = [hs EXCEPT ![h] = d]
      BY <2>2 DEF RequireRole, TypeOK
    <3>2. u \in Users /\ hs[h].target \in Users /\ hs[h].ask \in Roles /\ hs[h].wanted \in guilds
      BY <1>0, <2>2 DEF RequireRole, Checked
    <3>3. g \in guilds
      <4>1. GuildsOf(u) \in SUBSET Nat /\ GuildsOf(u) \subseteq guilds
        BY <1>0, GuildsType DEF GuildsOf
      <4> QED
        BY <3>1, <3>2, <4>1, LeastIn DEF ChosenGuild
    <3>4. ActorRole(u, g) \in DOMAIN Level \cup {"superadmin"}
      BY <1>0, <3>2, <3>3 DEF ActorRole, TypeOK
    <3> HIDE DEF g
    <3>5. d \in HandlerType
      BY ONLY <1>0, <3>3, <3>4 DEF HandlerType
    <3>6. /\ d.pc = "target" /\ d.user = u /\ d.target = hs[h].target /\ d.ask = hs[h].ask
          /\ d.guild = g /\ d.role = ActorRole(u, g)
      BY ONLY <1>0 DEF HandlerType
    <3> HIDE DEF d, u
    <3> QED
      BY <3>1, <3>2, <3>3, <3>5, <3>6 DEF u
  <2>3. CASE ReadTarget(h) /\ ~Answer(h)
    <3> DEFINE d == [hs[h] EXCEPT !.pc = "write"]
    <3>1. hs' = [hs EXCEPT ![h] = d] /\ TargetAllowed(hs[h]) /\ hs[h].pc = "target"
      BY <1>0, <2>3 DEF ReadTarget, To, TypeOK
    <3>2. d \in HandlerType /\ d.pc = "write"
      BY ONLY <1>0 DEF HandlerType
    <3>3. /\ d.user = hs[h].user /\ d.target = hs[h].target /\ d.ask = hs[h].ask
          /\ d.guild = hs[h].guild /\ d.role = hs[h].role /\ d.op = hs[h].op
          /\ d.disturbed = hs[h].disturbed
      BY ONLY <1>0 DEF HandlerType
    <3> HIDE DEF d
    <3> QED
      BY <1>0, <3>1, <3>2, <3>3 DEF Checked, TargetAllowed
  <2> QED
    BY <2>1, <2>2, <2>3 DEF RequireRole, ReadTarget, Audited, Fail
<1>4. hs'[h] = d /\ \A x \in Handlers \ {h} : hs'[x] = hs[x]
  BY <1>0, <1>3 DEF TypeOK
<1>5. TypeOK'
  <2>1. audits' \in Nat
    BY <1>0 DEF RequireRole, ReadTarget, Audited, Fail, TypeOK
  <2> QED
    BY <1>0, <1>1, <1>3, <2>1 DEF TypeOK
<1>6. ChecksHold'
  <2>1. Checked(h)'
    BY <1>1, <1>3, <1>4 DEF Checked, RoleAllowed, Super, ActorRole, TargetAllowed,
                            FindGuildCandidate, ForUser
  <2>2. \A x \in Handlers \ {h} : Checked(x)'
    BY <1>1, <1>4, StillChecked
  <2> QED
    BY <2>1, <2>2 DEF ChecksHold
<1>7. AuditsAreOfChanges'
  <2>1. audits' = IF hs[h].pc = "audit" /\ audits' # audits THEN audits + 1 ELSE audits
    BY DEF RequireRole, ReadTarget, Audited, Fail
  <2>2. audits \in Nat /\ changes \in Nat /\ audits + Cardinality(ToAudit) <= changes
    BY <1>0, GuildsType DEF TypeOK, Core, AuditsAreOfChanges
  <2> QED
    BY <1>0, <1>1, <1>3, <1>4, <2>1, <2>2, AuditsMove DEF AuditsAreOfChanges
<1> QED
  BY <1>5, <1>6, <1>7 DEF Core

\* SessionUser: a newcomer is entered in the only guild, and every handler that is
\* about him is told.
LEMMA SessionUserKeeps ==
    ASSUME Core, NEW u \in Users, OtherRequest(u)
    PROVE  Core'
<1>0. TypeOK /\ None \notin Handlers
  BY MembershipAssumption DEF Core
<1>1. /\ member' = Boot(u) /\ UNCHANGED <<guilds, changes, audits, revoked>>
      /\ HandlerType' = HandlerType
  BY DEF OtherRequest, SessionUser, HandlerType
<1>2. /\ hs' \in [Handlers -> HandlerType]
      /\ \A x \in Handlers : hs'[x] \in {hs[x], [hs[x] EXCEPT !.disturbed = TRUE]}
      /\ Boot(u) # member =>
            \A x \in Handlers : u \in {hs[x].user, hs[x].target} => hs'[x].disturbed
  BY <1>0, Told DEF OtherRequest, TypeOK
<1>3. TypeOK'
  BY <1>0, <1>1, <1>2, BootMember DEF TypeOK
<1>4. \A x \in Handlers : Checked(x)' /\ hs'[x].pc = hs[x].pc
  <2> SUFFICES ASSUME NEW x \in Handlers
               PROVE  Checked(x)' /\ hs'[x].pc = hs[x].pc
    OBVIOUS
  <2>1. \A v \in Users \ {u} : \A g \in guilds : member'[g][v] = member[g][v]
    BY <1>0, <1>1, BootMember
  <2>2. hs'[x].disturbed \/ \A g \in guilds :
              /\ hs[x].user \in Users => member'[g][hs[x].user] = member[g][hs[x].user]
              /\ hs[x].target \in Users => member'[g][hs[x].target] = member[g][hs[x].target]
    BY <1>1, <1>2, <2>1
  <2> QED
    BY <1>1, <1>2, <2>2, StillChecked
<1>5. AuditsAreOfChanges'
  BY <1>1, <1>4 DEF AuditsAreOfChanges, ToAudit, Core
<1> QED
  BY <1>3, <1>4, <1>5 DEF Core, ChecksHold

\* A request comes in, with SessionUser.
LEMMA RequestKeeps ==
    ASSUME Core, NEW h \in Handlers, NEW u \in Users, NEW t \in Users,
           NEW op \in {"invite", "update", "remove"}, NEW ask \in Roles, NEW wanted \in guilds,
           Request(h, u, op, t, ask, wanted)
    PROVE  Core'
<1>0. TypeOK /\ hs[h].pc = "idle"
  BY DEF Core, Request, Idle
<1>1. /\ member' = Boot(u) /\ UNCHANGED <<guilds, changes, audits, revoked>>
      /\ HandlerType' = HandlerType
  BY DEF Request, SessionUser, HandlerType
<1> DEFINE d == [Idle EXCEPT !.pc = "guild", !.user = u, !.op = op, !.target = t,
                             !.ask = ask, !.wanted = wanted]
<1>2. /\ d \in HandlerType /\ d.pc = "guild" /\ d.user = u /\ d.target = t
      /\ d.ask = ask /\ d.wanted = wanted
  BY Levels DEF Idle, HandlerType
<1>3. PICK f \in [Handlers -> HandlerType] :
        /\ hs' = [f EXCEPT ![h] = d]
        /\ \A x \in Handlers : f[x] \in {hs[x], [hs[x] EXCEPT !.disturbed = TRUE]}
        /\ Boot(u) # member =>
              \A x \in Handlers \ {h} : u \in {hs[x].user, hs[x].target} => f[x].disturbed
  <2>1. hs' = [IF Boot(u) = member THEN hs ELSE Disturb(h, u) EXCEPT ![h] = d]
    BY DEF Request
  <2> HIDE DEF d
  <2>2. CASE Boot(u) = member
    BY <1>0, <2>1, <2>2 DEF TypeOK
  <2>3. CASE Boot(u) # member
    <3> DEFINE f == Disturb(h, u)
    <3>1. hs' = [f EXCEPT ![h] = d]
      BY <2>1, <2>3
    <3>2. /\ f \in [Handlers -> HandlerType]
          /\ \A x \in Handlers : f[x] \in {hs[x], [hs[x] EXCEPT !.disturbed = TRUE]}
          /\ Boot(u) # member =>
                \A x \in Handlers \ {h} : u \in {hs[x].user, hs[x].target} => f[x].disturbed
      BY <1>0, Told
    <3> HIDE DEF f
    <3> QED
      BY <3>1, <3>2
  <2> QED
    BY <2>2, <2>3
<1> HIDE DEF d
<1>4. hs'[h] = d /\ \A x \in Handlers \ {h} : hs'[x] = f[x]
  BY <1>3
<1>5. TypeOK'
  BY <1>0, <1>1, <1>2, <1>3, BootMember DEF TypeOK
<1>6. \A x \in Handlers \ {h} : Checked(x)' /\ hs'[x].pc = hs[x].pc
  <2> SUFFICES ASSUME NEW x \in Handlers \ {h}
               PROVE  Checked(x)' /\ hs'[x].pc = hs[x].pc
    OBVIOUS
  <2>1. \A v \in Users \ {u} : \A g \in guilds : member'[g][v] = member[g][v]
    BY <1>0, <1>1, BootMember
  <2>2. hs'[x].disturbed \/ \A g \in guilds :
              /\ hs[x].user \in Users => member'[g][hs[x].user] = member[g][hs[x].user]
              /\ hs[x].target \in Users => member'[g][hs[x].target] = member[g][hs[x].target]
    BY <1>1, <1>3, <1>4, <2>1
  <2> QED
    BY <1>1, <1>3, <1>4, <2>2, StillChecked
<1>7. Checked(h)'
  BY <1>1, <1>2, <1>4 DEF Checked
<1>8. AuditsAreOfChanges'
  BY <1>0, <1>1, <1>2, <1>4, <1>6, AuditsMove DEF AuditsAreOfChanges, Core
<1> QED
  BY <1>5, <1>6, <1>7, <1>8 DEF Core, ChecksHold

\* The write of a handler, of which those about its target are told.
LEMMA WriteKeeps ==
    ASSUME Core, NEW h \in Handlers, Write(h)
    PROVE  Core'
<1> DEFINE c == hs[h]
           told == Disturb(h, c.target)
<1>0. TypeOK /\ c \in HandlerType /\ Checked(h) /\ c.pc = "write"
  BY DEF Core, TypeOK, ChecksHold, Write
<1>1. c.target \in Users /\ c.guild \in guilds /\ c.ask \in Roles
  BY <1>0 DEF Checked
<1>2. /\ UNCHANGED <<guilds, audits>> /\ HandlerType' = HandlerType
      /\ member' = [member EXCEPT ![c.guild][c.target] = IF c.op = "remove" THEN "none" ELSE c.ask]
      /\ changes < MaxChanges(guilds) /\ changes' = changes + 1
      /\ revoked' \in {revoked \cup {<<c.guild, c.target>>}, revoked \ {<<c.guild, c.target>>}}
  BY DEF Write, Written, HandlerType
<1>3. PICK d \in HandlerType : d.pc \in {"audit", "idle"} /\ hs' = [told EXCEPT ![h] = d]
  <2>1. Idle \in HandlerType /\ Idle.pc = "idle"
    BY Levels DEF Idle, HandlerType
  <2>2. [Idle EXCEPT !.pc = "audit"] \in HandlerType /\ [Idle EXCEPT !.pc = "audit"].pc = "audit"
    BY Levels DEF Idle, HandlerType
  <2> QED
    BY <2>1, <2>2 DEF Write
<1>4. /\ told \in [Handlers -> HandlerType]
      /\ \A x \in Handlers \ {h} :
            /\ told[x] \in {hs[x], [hs[x] EXCEPT !.disturbed = TRUE]}
            /\ c.target \in {hs[x].user, hs[x].target} => told[x].disturbed
  BY <1>0, <1>1, Told
<1> HIDE DEF c, told
<1>5. hs'[h] = d /\ \A x \in Handlers \ {h} : hs'[x] = told[x]
  BY <1>3, <1>4
<1>6. TypeOK'
  <2>1. (IF c.op = "remove" THEN "none" ELSE c.ask) \in DOMAIN Level
    BY <1>1, MembershipAssumption, Levels
  <2>2. member' \in [guilds -> [Users -> DOMAIN Level]]
    BY <1>0, <1>1, <1>2, <2>1 DEF TypeOK
  <2>3. changes' \in 0..MaxChanges(guilds) /\ audits' \in Nat
    BY <1>0, <1>2, GuildsType DEF TypeOK
  <2>4. revoked' \subseteq guilds \X Users
    BY <1>0, <1>1, <1>2 DEF TypeOK
  <2>5. hs' \in [Handlers -> HandlerType]
    BY <1>3, <1>4
  <2> QED
    BY <1>0, <1>2, <2>2, <2>3, <2>4, <2>5 DEF TypeOK
<1>7. \A x \in Handlers \ {h} : Checked(x)' /\ hs'[x].pc = hs[x].pc
  <2> SUFFICES ASSUME NEW x \in Handlers \ {h}
               PROVE  Checked(x)' /\ hs'[x].pc = hs[x].pc
    OBVIOUS
  <2>1. \A v \in Users \ {c.target} : \A g \in guilds : member'[g][v] = member[g][v]
    BY <1>0, <1>1, <1>2 DEF TypeOK
  <2>2. hs'[x].disturbed \/ \A g \in guilds :
              /\ hs[x].user \in Users => member'[g][hs[x].user] = member[g][hs[x].user]
              /\ hs[x].target \in Users => member'[g][hs[x].target] = member[g][hs[x].target]
    BY <1>4, <1>5, <2>1
  <2> QED
    BY <1>2, <1>4, <1>5, <2>2, StillChecked
<1>8. Checked(h)'
  BY <1>3, <1>5 DEF Checked
<1>9. AuditsAreOfChanges'
  <2>1. hs[h].pc # "audit"
    BY <1>0 DEF c
  <2>2. audits \in Nat /\ changes \in Nat /\ audits + Cardinality(ToAudit) <= changes
    BY <1>0, GuildsType DEF TypeOK, Core, AuditsAreOfChanges
  <2> QED
    BY <1>0, <1>2, <1>3, <1>5, <1>7, <2>1, <2>2, AuditsMove DEF AuditsAreOfChanges
<1> QED
  BY <1>6, <1>7, <1>8, <1>9 DEF Core, ChecksHold

LEMMA NextKeeps == Core /\ [Next]_vars => Core'
<1> SUFFICES ASSUME Core, [Next]_vars PROVE Core'
  OBVIOUS
<1>1. CASE UNCHANGED vars
  BY <1>1 DEF vars, Core, TypeOK, HandlerType, ChecksHold, Checked, RoleAllowed, Super, ActorRole,
              TargetAllowed, FindGuildCandidate, ForUser, AuditsAreOfChanges, ToAudit
<1> QED
  BY <1>1, QuietKeeps, SessionUserKeeps, RequestKeeps, WriteKeeps DEF Next

\* Whatever handlers and other requests interleave, a handler that was told of no
\* change writes what its actor may write in the guild it writes to, and an audit
\* event is of a change that was made.
THEOREM MembershipInvariance == Spec => []MembershipInv
<1>1. Spec => []Core
  BY InitInv, NextKeeps, PTL DEF Spec
<1>2. Core => MembershipInv
  BY CheckedIsAuthorized DEF Core, MembershipInv
<1> QED
  BY <1>1, <1>2, PTL

\* What a step does to a membership: the insert of SessionUser fills an empty one in
\* the only guild, a handler's write changes its own.
LEMMA MembershipChanges ==
    ASSUME Core, [Next]_vars
    PROVE  \/ /\ UNCHANGED <<guilds, changes, revoked>>
              /\ \A g \in guilds, v \in Users :
                    \/ member'[g][v] = member[g][v]
                    \/ /\ member[g][v] = "none" /\ Cardinality(guilds) = 1
                       /\ member'[g][v] = BootRole(v)
           \/ /\ guilds' = guilds /\ changes' = changes + 1
              /\ \E g \in guilds, v \in Users :
                    /\ \A k \in guilds, w \in Users :
                          <<k, w>> # <<g, v>> => member'[k][w] = member[k][w]
                    /\ \/ member'[g][v] = "none" /\ revoked' = revoked \cup {<<g, v>>}
                       \/ revoked' = revoked \ {<<g, v>>}
<1>0. TypeOK
  BY DEF Core
<1>1. ASSUME NEW u \in Users, SessionUser(u)
      PROVE  /\ UNCHANGED <<guilds, changes, revoked>>
             /\ \A g \in guilds, v \in Users :
                   \/ member'[g][v] = member[g][v]
                   \/ /\ member[g][v] = "none" /\ Cardinality(guilds) = 1
                      /\ member'[g][v] = BootRole(v)
  BY <1>0, <1>1, BootMember DEF SessionUser
<1>2. ASSUME NEW h \in Handlers, Write(h)
      PROVE  /\ guilds' = guilds /\ changes' = changes + 1
             /\ \E g \in guilds, v \in Users :
                   /\ \A k \in guilds, w \in Users :
                         <<k, w>> # <<g, v>> => member'[k][w] = member[k][w]
                   /\ \/ member'[g][v] = "none" /\ revoked' = revoked \cup {<<g, v>>}
                      \/ revoked' = revoked \ {<<g, v>>}
  <2> DEFINE g == hs[h].guild
             v == hs[h].target
             r == IF hs[h].op = "remove" THEN "none" ELSE hs[h].ask
  <2>1. g \in guilds /\ v \in Users
    BY <1>2 DEF Write, Core, ChecksHold, Checked
  <2>2. /\ guilds' = guilds /\ changes' = changes + 1
        /\ member' = [member EXCEPT ![g][v] = r]
        /\ revoked' = IF hs[h].op = "remove" THEN revoked \cup {<<g, v>>} ELSE revoked \ {<<g, v>>}
    BY <1>2 DEF Write, Written
  <2>3. hs[h].op = "remove" => r = "none"
    OBVIOUS
  <2> HIDE DEF g, v, r
  <2>4. \A k \in guilds, w \in Users : <<k, w>> # <<g, v>> => member'[k][w] = member[k][w]
    BY <1>0, <2>1, <2>2 DEF TypeOK
  <2>5. member'[g][v] = r
    BY <1>0, <2>1, <2>2 DEF TypeOK
  <2> QED
    BY <2>1, <2>2, <2>3, <2>4, <2>5
<1>3. CASE UNCHANGED <<guilds, member, changes, revoked>>
  BY <1>3
<1>4. \/ \E u \in Users : SessionUser(u)
      \/ \E h \in Handlers : Write(h)
      \/ UNCHANGED <<guilds, member, changes, revoked>>
  BY DEF Next, Request, OtherRequest, RequireRole, ReadTarget, Audited, Fail, vars
<1> QED
  BY <1>1, <1>2, <1>3, <1>4

\* Who was removed comes back by a grant only, or as a newcomer of the only guild; a
\* role that is there is changed by the member handlers only.
THEOREM HandlersDecideAlone == Spec => HandlersDecide
<1>1. Spec => []Core
  BY InitInv, NextKeeps, PTL DEF Spec
<1>2. Core /\ [Next]_vars =>
        [\A g \in guilds, u \in Users :
            member[g][u] # "none" /\ member'[g][u] # member[g][u] => changes' = changes + 1]_vars
  BY MembershipChanges
<1>3. Core /\ RevokedStaysOut /\ [Next]_vars => RevokedStaysOut'
  <2> SUFFICES ASSUME Core, RevokedStaysOut, [Next]_vars, NEW row \in revoked'
               PROVE  \/ member'[row[1]][row[2]] = "none"
                      \/ Cardinality(guilds') = 1 /\ member'[row[1]][row[2]] = BootRole(row[2])
    BY DEF RevokedStaysOut, BootRole
  <2>1. revoked \subseteq guilds \X Users
    BY DEF Core, TypeOK
  <2>2. CASE revoked' = revoked /\ guilds' = guilds
             /\ \A g \in guilds, v \in Users :
                   \/ member'[g][v] = member[g][v]
                   \/ /\ member[g][v] = "none" /\ Cardinality(guilds) = 1
                      /\ member'[g][v] = BootRole(v)
    <3>1. row[1] \in guilds /\ row[2] \in Users
      BY <2>1, <2>2
    <3> QED
      BY <2>2, <3>1 DEF RevokedStaysOut
  <2>3. ASSUME NEW g \in guilds, NEW v \in Users, guilds' = guilds,
               \A k \in guilds, w \in Users :
                  <<k, w>> # <<g, v>> => member'[k][w] = member[k][w],
               \/ member'[g][v] = "none" /\ revoked' = revoked \cup {<<g, v>>}
               \/ revoked' = revoked \ {<<g, v>>}
        PROVE  \/ member'[row[1]][row[2]] = "none"
               \/ Cardinality(guilds') = 1 /\ member'[row[1]][row[2]] = BootRole(row[2])
    <3>1. CASE row = <<g, v>>
      BY <2>3, <3>1
    <3>2. CASE row # <<g, v>>
      <4>1. row \in revoked /\ row[1] \in guilds /\ row[2] \in Users /\ row = <<row[1], row[2]>>
        BY <2>1, <2>3, <3>2
      <4>2. member'[row[1]][row[2]] = member[row[1]][row[2]]
        BY <2>3, <3>2, <4>1
      <4> QED
        BY <2>3, <4>1, <4>2 DEF RevokedStaysOut
    <3> QED
      BY <3>1, <3>2
  <2> QED
    BY <2>2, <2>3, MembershipChanges
<1>4. Spec => []RevokedStaysOut
  BY <1>1, <1>3, InitInv, PTL DEF Spec
<1> QED
  BY <1>1, <1>2, <1>4, PTL DEF Spec, HandlersDecide, RolesKept
=============================================================================
