------------------------ MODULE CharacterSyncProofs ------------------------
(***************************************************************************)
(* One character's sync for every answer Blizzard may give, every failure, *)
(* any number of syncs, crashes and sweeps: what is reported of it is true *)
(* of its rows, and what a failure may not touch stays.                    *)
(***************************************************************************)
EXTENDS CharacterSync, Progression, FiniteSetTheorems, SequenceTheorems, TLAPS

(***************************************************************************)
(* The operators of the model.                                             *)
(***************************************************************************)

\* A finite set of numbers has a largest one: the element with the fewest above it.
LEMMA LargestIn ==
    ASSUME NEW S \in SUBSET Nat, IsFiniteSet(S), S # {}
    PROVE  Max(S) \in S /\ \A y \in S : Max(S) >= y
<1> DEFINE Above(x) == {z \in S : z > x}
           T == {Above(x) : x \in S}
<1>1. T \subseteq FiniteSubsetsOf(S)
  <2>1. \A x \in S : IsFiniteSet(Above(x)) /\ Above(x) \in SUBSET S
    BY FS_Subset
  <2> QED
    BY <2>1 DEF FiniteSubsetsOf
<1>2. PICK X \in T : \A Y \in T : ~(<<Y, X>> \in StrictSubsetOrdering(S))
  <2>1. T # {} /\ IsWellFoundedOn(StrictSubsetOrdering(S), FiniteSubsetsOf(S))
    BY FS_StrictSubsetOrderingWellFounded
  <2> HIDE DEF T
  <2> QED
    BY <1>1, <2>1, WFMin
<1>3. PICK x \in S : X = Above(x)
  BY <1>2
<1>4. ASSUME NEW y \in S, y > x
      PROVE  FALSE
  <2>1. Above(y) \in T /\ Above(y) \in SUBSET S /\ Above(x) \in SUBSET S
    OBVIOUS
  <2>2. Above(y) \subseteq Above(x) /\ y \in Above(x) /\ y \notin Above(y)
    <3>1. x \in Nat /\ y \in Nat /\ \A z \in S : z \in Nat
      OBVIOUS
    <3>2. ~(y > y) /\ \A z \in S : z > y => z > x
      BY <1>4, <3>1
    <3> QED
      BY <1>4, <3>2
  <2>3. <<Above(y), Above(x)>> \in StrictSubsetOrdering(S)
    BY <2>1, <2>2 DEF StrictSubsetOrdering
  <2> QED
    BY <1>2, <1>3, <2>1, <2>3
<1>5. \A y \in S : x >= y
  BY <1>4
<1> QED
  BY <1>5 DEF Max

\* The pseudo tier never wins: an anchor is the newest real expansion.
LEMMA AnchorIsReal ==
    /\ ExpansionOf(Journal) \in Nat
    /\ ExpansionOf(Journal) # 0 => ExpansionOf(Journal) = Max(Tiers)
<1> DEFINE Ids == {t.id : t \in {x \in Journal : ~x.pseudo}}
<1>1. Ids = Tiers
  <2>1. ASSUME NEW t \in Tiers
        PROVE  t \in Ids
    <3>1. [id |-> t, pseudo |-> FALSE] \in Journal
      BY DEF Journal
    <3> QED
      BY <3>1
  <2>2. ASSUME NEW x \in Journal, ~x.pseudo
        PROVE  x.id \in Tiers
    <3>1. x # [id |-> PseudoTier, pseudo |-> TRUE]
      BY <2>2
    <3>2. x \in [id : Tiers, pseudo : {FALSE}]
      BY <3>1 DEF Journal
    <3> QED
      BY <3>2
  <2> QED
    BY <2>1, <2>2
<1>2. Tiers \cup {0} \in SUBSET Nat /\ IsFiniteSet(Tiers \cup {0}) /\ IsFiniteSet(Tiers)
  BY CharacterSyncAssumption, FS_AddElement
<1>3. /\ Max(Tiers \cup {0}) \in Tiers \cup {0}
      /\ \A y \in Tiers \cup {0} : Max(Tiers \cup {0}) >= y
  BY <1>2, LargestIn
<1>4. CASE Max(Tiers \cup {0}) = 0
  BY <1>1, <1>4 DEF ExpansionOf
<1>5. CASE Max(Tiers \cup {0}) \in Tiers
  <2>1. Max(Tiers) \in Tiers /\ \A y \in Tiers : Max(Tiers) >= y
    BY <1>2, <1>5, LargestIn
  <2>2. Max(Tiers) >= Max(Tiers \cup {0}) /\ Max(Tiers \cup {0}) >= Max(Tiers)
    BY <1>3, <1>5, <2>1
  <2> QED
    BY <1>1, <1>2, <1>5, <2>1, <2>2 DEF ExpansionOf
<1> QED
  BY <1>3, <1>4, <1>5

\* What numeric(8,2) has rounded it keeps.
LEMMA RoundedOnce ==
    ASSUME NEW r \in Nat
    PROVE  Numeric(r) \in Nat /\ Numeric(Numeric(r)) = Numeric(r)
  BY DEF Numeric

LEMMA StoredIsRounded ==
    \A x \in Stored : x \in Nat /\ Numeric(x) = x
<1>1. Numeric(0) = 0
  BY DEF Numeric
<1> QED
  BY <1>1, RoundedOnce, CharacterSyncAssumption DEF Stored

LEMMA RoundedIsStored ==
    \A r \in Ratings \cup {0} : Numeric(r) \in Stored
<1>1. Numeric(0) = 0
  BY DEF Numeric
<1> QED
  BY <1>1 DEF Stored

\* The text of fetched raids never comes back from the database as it was.
LEMMA NeverTheSameText ==
    \A t, u \in Texts : ReadBack(t) = u <=> t = NoRaids /\ u = NoRaids
<1> SUFFICES ASSUME NEW t \in Texts, NEW u \in Texts
             PROVE  ReadBack(t) = u <=> t = NoRaids /\ u = NoRaids
  OBVIOUS
<1>1. CASE t = NoRaids
  BY <1>1 DEF ReadBack
<1>2. CASE t # NoRaids
  <2>1. PICK R \in RaidSets : t = Marshal(R)
    BY <1>2 DEF Texts
  <2>2. ReadBack(t).form = "jsonb"
    BY <1>2, <2>1 DEF ReadBack, Marshal
  <2>3. u.form \in {"literal", "compact"}
    BY DEF Texts, NoRaids, Marshal
  <2> QED
    BY <1>2, <2>2, <2>3
<1> QED
  BY <1>1, <1>2

(***************************************************************************)
(* Types.                                                                  *)
(***************************************************************************)

LEMMA Texting == NoRaids \in Texts /\ \A R \in RaidSets : Marshal(R) \in Texts
  BY DEF Texts

LEMMA InitType == Init => TypeOK
<1> SUFFICES ASSUME Init PROVE TypeOK
  OBVIOUS
<1>1. NoJob \in JobType
  BY Texting DEF NoJob, JobType
<1>2. 0 \in Stored
  BY DEF Stored
<1>3. snaps \in Seq(Snaps) /\ DOMAIN snaps = {}
  BY DEF Init
<1> QED
  BY <1>1, <1>2, <1>3, CharacterSyncAssumption DEF Init, TypeOK

\* What becomes of the job when something went wrong.
LEMMA TroubledJob ==
    ASSUME job \in JobType,
           NEW step \in {"profile", "upsert", "season", "index", "mplus", "raids", "snapshot"}
    PROVE  /\ Troubled(step) \in JobType
           /\ Troubled(step) = [job EXCEPT !.err = TRUE, !.trouble = job.trouble \cup {step}]
  BY DEF Troubled, JobType

LEMMA ResolveTierAnchorType ==
    ASSUME TypeOK, NEW dry \in BOOLEAN, NEW s \in {"ok", "failed"}, NEW j \in {"ok", "failed"},
           ResolveTierAnchor(dry, s, j)
    PROVE  TypeOK'
<1> DEFINE has == s = "ok"
           e   == IF j = "ok" THEN ExpansionOf(Journal) ELSE 0
           J   == [NoJob EXCEPT !.dry = dry, !.season = has, !.expansion = e]
<1>1. NoJob \in JobType
  BY Texting DEF NoJob, JobType
<1>2. J \in JobType
  <2>1. has \in BOOLEAN /\ e \in {0, ExpansionOf(Journal)}
    OBVIOUS
  <2> HIDE DEF has, e
  <2> QED
    BY <1>1, <2>1 DEF JobType
<1>3. now' \in 0..MaxSyncs
  BY CharacterSyncAssumption DEF TypeOK, ResolveTierAnchor
<1>4. job' = J /\ pc' = "profile" /\ upstream' \in Truth
  BY DEF ResolveTierAnchor
<1>5. UNCHANGED stored
  BY DEF ResolveTierAnchor
<1> HIDE DEF J
<1> QED
  BY <1>2, <1>3, <1>4, <1>5 DEF TypeOK, stored
LEMMA SyncProfileJob ==
    ASSUME TypeOK, NEW w \in Writes, SyncProfile(w)
    PROVE  job' \in JobType
<1> DEFINE base == IF w = "ok" THEN job ELSE Troubled("upsert")
<1>1. job \in JobType /\ Troubled("upsert") \in JobType /\ upstream \in Truth
  BY TroubledJob DEF TypeOK
<1>2. base \in JobType /\ upstream.ilvl \in ItemLevels
  BY <1>1 DEF Truth
<1>3. job' = [base EXCEPT !.ilvl = upstream.ilvl]
  BY DEF SyncProfile, Go
<1> HIDE DEF base
<1> QED
  BY ONLY <1>2, <1>3 DEF JobType

LEMMA FetchSeasonJob ==
    ASSUME TypeOK, NEW a \in Answers, FetchSeason(a)
    PROVE  job' \in JobType
<1> DEFINE base == IF a = "failed" THEN Troubled("season") ELSE job
           r    == IF a = "ok" THEN upstream.rating ELSE 0
<1>1. job \in JobType /\ Troubled("season") \in JobType /\ upstream \in Truth
  BY TroubledJob DEF TypeOK
<1>2. base \in JobType /\ r \in Ratings \cup {0}
  BY <1>1 DEF Truth
<1>3. job' = [base EXCEPT !.found = a, !.rating = r]
  BY DEF FetchSeason, Go
<1> HIDE DEF base, r
<1> QED
  BY ONLY a \in Answers, <1>2, <1>3 DEF JobType

LEMMA FetchIndexJob ==
    ASSUME TypeOK, NEW a \in Answers, FetchIndex(a)
    PROVE  job' \in JobType
<1> DEFINE base == IF a = "failed" THEN Troubled("index") ELSE job
           b    == a = "ok" /\ upstream.recent
<1>1. job \in JobType /\ Troubled("index") \in JobType
  BY TroubledJob DEF TypeOK
<1>2. base \in JobType /\ b \in BOOLEAN
  BY <1>1
<1>3. job' = [base EXCEPT !.recent = b]
  BY DEF FetchIndex, Go
<1> HIDE DEF base, b
<1> QED
  BY ONLY <1>2, <1>3 DEF JobType

LEMMA SyncRaidsJob ==
    ASSUME TypeOK, NEW w \in Writes, SyncRaids(w)
    PROVE  job' \in JobType
<1> DEFINE base == IF w = "ok" THEN job ELSE Troubled("raids")
           t    == Marshal(upstream.raids)
<1>1. job \in JobType /\ Troubled("raids") \in JobType /\ upstream \in Truth
  BY TroubledJob DEF TypeOK
<1>2. base \in JobType /\ t \in Texts
  BY <1>1, Texting DEF Truth
<1>3. job' = [base EXCEPT !.text = t, !.gotRaids = "ok"]
  BY DEF SyncRaids, Go
<1> HIDE DEF base, t
<1> QED
  BY ONLY <1>2, <1>3 DEF JobType, Answers

LEMMA RaidsFailJob ==
    ASSUME TypeOK, NEW a \in Answers, RaidsFail(a)
    PROVE  job' \in JobType
<1> DEFINE base == IF a = "failed" THEN Troubled("raids") ELSE job
<1>1. job \in JobType /\ Troubled("raids") \in JobType
  BY TroubledJob DEF TypeOK
<1>2. base \in JobType
  BY <1>1
<1>3. job' = [base EXCEPT !.gotRaids = a]
  BY DEF RaidsFail, Go
<1> HIDE DEF base
<1> QED
  BY ONLY a \in Answers, <1>2, <1>3 DEF JobType

LEMMA LastSnapshotJob ==
    ASSUME TypeOK, LastSnapshot
    PROVE  job' \in JobType
<1> DEFINE p == IF snaps = << >> THEN NoSnap ELSE snaps[Len(snaps)]
<1>1. p \in Snaps \cup {NoSnap}
  BY DEF TypeOK
<1>2. job' = [job EXCEPT !.prev = p]
  BY DEF LastSnapshot, Go
<1>3. job \in JobType
  BY DEF TypeOK
<1> HIDE DEF p
<1> QED
  BY ONLY <1>1, <1>2, <1>3 DEF JobType

\* The variables of syncCharacter keep their types.
LEMMA JobStep ==
    ASSUME TypeOK, [Next]_vars
    PROVE  job' \in JobType
<1>1. job \in JobType /\ NoJob \in JobType
  BY Texting DEF TypeOK, NoJob, JobType
<1>2. ASSUME NEW dry \in BOOLEAN, NEW s \in {"ok", "failed"}, NEW j \in {"ok", "failed"},
             ResolveTierAnchor(dry, s, j)
      PROVE  job' \in JobType
  BY <1>2, ResolveTierAnchorType DEF TypeOK
<1>3. CASE ProfileFails
  BY <1>1, <1>3, TroubledJob DEF ProfileFails, Go
<1>4. ASSUME NEW a \in Answers, NEW w \in Writes, SyncMedia(a, w)
      PROVE  job' \in JobType
  BY <1>1, <1>4 DEF SyncMedia, Go
<1>5. ASSUME NEW w \in Writes, StoreMythic(w)
      PROVE  job' \in JobType
  BY <1>1, <1>5, TroubledJob DEF StoreMythic, Go
<1>6. ASSUME NEW w \in Writes, Capture(w)
      PROVE  job' \in JobType
  BY <1>1, <1>6, TroubledJob DEF Capture, Go
<1>7. CASE LastSnapshotFails
  BY <1>1, <1>7, TroubledJob DEF LastSnapshotFails, Go
<1>8. CASE Return \/ Crash
  BY <1>1, <1>8 DEF Return, Crash
<1>9. ASSUME NEW cutoff \in 1..now, DeleteSnapshotsBefore(cutoff)
      PROVE  job' \in JobType
  BY <1>1, <1>9 DEF DeleteSnapshotsBefore
<1>10. CASE UNCHANGED vars
  BY <1>1, <1>10 DEF vars
<1> QED
  BY <1>2, <1>3, <1>4, <1>5, <1>6, <1>7, <1>8, <1>9, <1>10, SyncProfileJob,
     FetchSeasonJob, FetchIndexJob, SyncRaidsJob, RaidsFailJob, LastSnapshotJob DEF Next
\* What a sweep leaves is the end of what there was.
LEMMA SweepKeepsTheNewest ==
    ASSUME TypeOK, NEW cutoff, DeleteSnapshotsBefore(cutoff)
    PROVE  /\ snaps' \in Seq(Snaps)
           /\ Len(snaps') <= Len(snaps)
           /\ \A i, k \in DOMAIN snaps' : i < k => snaps'[i].at < snaps'[k].at
           /\ \A i \in DOMAIN snaps' : \E k \in DOMAIN snaps : snaps'[i] = snaps[k]
           /\ snaps' # << >> =>
                 snaps # << >> /\ snaps'[Len(snaps')] = snaps[Len(snaps)]
<1> DEFINE n == Len(snaps)
<1>1. PICK k \in 0..n : snaps' = SubSeq(snaps, k + 1, n)
  BY DEF DeleteSnapshotsBefore
<1>2. n \in Nat /\ DOMAIN snaps = 1..n /\ \A i \in 1..n : snaps[i] \in Snaps
  BY LenProperties DEF TypeOK
<1>3. k + 1 \in Int /\ n \in Int /\ \A i \in (k + 1)..n : snaps[i] \in Snaps
  BY <1>2
<1>4. /\ snaps' \in Seq(Snaps)
      /\ Len(snaps') = IF k + 1 <= n THEN n - (k + 1) + 1 ELSE 0
      /\ \A i \in 1..(n - (k + 1) + 1) : snaps'[i] = snaps[k + 1 + i - 1]
  <2> HIDE DEF n
  <2> QED
    BY <1>1, <1>3, SubSeqProperties
<1>5. Len(snaps') = n - k /\ \A i \in 1..(n - k) : k + i \in 1..n /\ snaps'[i] = snaps[k + i]
  <2>1. Len(snaps') = n - k
    <3>1. n \in Nat /\ k \in 0..n /\ Len(snaps') = IF k + 1 <= n THEN n - (k + 1) + 1 ELSE 0
      BY <1>2, <1>4
    <3> HIDE DEF n
    <3> QED
      BY ONLY <3>1
  <2>2. ASSUME NEW i \in 1..(n - k)
        PROVE  k + i \in 1..n /\ snaps'[i] = snaps[k + i]
    <3>1. i \in 1..(n - (k + 1) + 1) /\ k + 1 + i - 1 = k + i /\ k + i \in 1..n
      BY <1>2
    <3> QED
      BY <1>4, <3>1
  <2> QED
    BY <2>1, <2>2
<1>6. DOMAIN snaps' = 1..(n - k)
  BY <1>4, <1>5, LenProperties
<1>7. \A i, j \in 1..n : i < j => snaps[i].at < snaps[j].at
  BY <1>2 DEF TypeOK
<1> HIDE DEF n
<1>8. \A i, j \in DOMAIN snaps' : i < j => snaps'[i].at < snaps'[j].at
  <2>1. \A i, j \in 1..(n - k) : i < j => k + i < k + j
    BY <1>2
  <2> QED
    BY <1>5, <1>6, <1>7, <2>1
<1>9. snaps' # << >> => n - k \in 1..(n - k) /\ k + (n - k) = n
  BY <1>2, <1>4, <1>5, EmptySeq
<1>10. snaps' # << >> => snaps # << >>
  BY DEF DeleteSnapshotsBefore
<1>11. Len(snaps') <= n
  BY <1>2, <1>5
<1>12. \A i \in DOMAIN snaps' : \E j \in DOMAIN snaps : snaps'[i] = snaps[j]
  BY <1>2, <1>5, <1>6
<1>13. snaps' # << >> => snaps'[Len(snaps')] = snaps[n]
  BY <1>5, <1>9
<1> QED
  BY <1>4, <1>8, <1>10, <1>11, <1>12, <1>13 DEF n

LEMMA InsertSnapshotType ==
    ASSUME TypeOK, Kept, InTurn, pc = "capture"
    PROVE  LET after == InsertSnapshot IN
           /\ after \in Seq(Snaps)
           /\ Len(after) = Len(snaps) + 1 /\ DOMAIN after = 1..(Len(snaps) + 1)
           /\ \A i \in DOMAIN snaps : after[i] = snaps[i]
           /\ after[Len(snaps) + 1] = [at |-> now, ilvl |-> job.ilvl,
                                      rating |-> Numeric(job.rating), text |-> job.text]
           /\ \A i, k \in DOMAIN after : i < k => after[i].at < after[k].at
<1> DEFINE s == [at |-> now, ilvl |-> job.ilvl, rating |-> Numeric(job.rating), text |-> job.text]
           after == InsertSnapshot
<1>1. s \in Snaps
  <2>1. now \in 1..MaxSyncs
    BY CharacterSyncAssumption DEF TypeOK, InTurn
  <2>2. job.ilvl \in ItemLevels
    BY DEF Kept, TypeOK, Truth
  <2>3. Numeric(job.rating) \in Stored
    BY RoundedIsStored DEF TypeOK, JobType
  <2>4. job.text \in Texts
    BY DEF TypeOK, JobType
  <2> QED
    BY <2>1, <2>2, <2>3, <2>4 DEF Snaps
<1>2. after = Append(snaps, s) /\ snaps \in Seq(Snaps)
  BY DEF InsertSnapshot, TypeOK
<1>3. Len(snaps) \in Nat /\ DOMAIN snaps = 1..Len(snaps)
  BY <1>2, LenProperties
<1>4. \A i \in DOMAIN snaps : snaps[i].at < now
  BY DEF InTurn
<1>5. s.at = now
  OBVIOUS
<1> HIDE DEF s, after
<1>6. /\ after \in Seq(Snaps) /\ Len(after) = Len(snaps) + 1
      /\ \A i \in DOMAIN snaps : after[i] = snaps[i]
      /\ after[Len(snaps) + 1] = s
  BY <1>1, <1>2, <1>3, AppendProperties
<1>7. DOMAIN after = 1..(Len(snaps) + 1)
  BY <1>6, LenProperties
<1>8. \A i, k \in DOMAIN after : i < k => after[i].at < after[k].at
  <2> SUFFICES ASSUME NEW i \in DOMAIN after, NEW k \in DOMAIN after, i < k
               PROVE  after[i].at < after[k].at
    OBVIOUS
  <2>1. i \in DOMAIN snaps
    BY <1>3, <1>7
  <2>2. CASE k \in DOMAIN snaps
    BY <1>6, <2>1, <2>2 DEF TypeOK
  <2>3. CASE k = Len(snaps) + 1
    BY <1>4, <1>5, <1>6, <2>1, <2>3
  <2> QED
    BY <1>3, <1>7, <2>2, <2>3
<1> QED
  BY <1>6, <1>7, <1>8 DEF s, after
\* The steps of syncCharacter and capture, each with what it was answered.
Working ==
    \/ ProfileFails
    \/ \E a \in Answers : (\E w \in Writes : SyncMedia(a, w)) \/ FetchSeason(a) \/ FetchIndex(a)
                            \/ RaidsFail(a)
    \/ \E w \in Writes : SyncProfile(w) \/ StoreMythic(w) \/ SyncRaids(w) \/ Capture(w)
    \/ LastSnapshotFails
    \/ LastSnapshot

LEMMA StepCases ==
    ASSUME [Next]_vars
    PROVE  \/ \E dry \in BOOLEAN, s, j \in {"ok", "failed"} : ResolveTierAnchor(dry, s, j)
           \/ Working
           \/ Return \/ Crash
           \/ \E cutoff \in 1..now : DeleteSnapshotsBefore(cutoff)
           \/ UNCHANGED vars
  BY DEF Next, Working

LEMMA WorkingType ==
    ASSUME TypeOK, Kept, InTurn, Working
    PROVE  TypeOK'
<1>1. job' \in JobType
  BY JobStep DEF Working, Next
<1>2. UNCHANGED <<now, upstream>>
  BY DEF Working, ProfileFails, SyncMedia, FetchSeason, FetchIndex, RaidsFail, SyncProfile,
         StoreMythic, SyncRaids, Capture, LastSnapshotFails, LastSnapshot, Go
<1>3. pc' \in {"media", "season", "index", "mplus", "raids", "last", "capture", "done"}
  BY DEF Working, ProfileFails, SyncMedia, FetchSeason, FetchIndex, RaidsFail, SyncProfile,
         StoreMythic, SyncRaids, Capture, LastSnapshotFails, LastSnapshot, Go
<1>4. char' \in [ilvl : ItemLevels \cup {0}, avatar : BOOLEAN]
  <2>1. char' \in {char, UpsertByGuildIdentity, UpdateAvatar}
    BY DEF Working, ProfileFails, SyncMedia, FetchSeason, FetchIndex, RaidsFail, SyncProfile,
           StoreMythic, SyncRaids, Capture, LastSnapshotFails, LastSnapshot, stored
  <2>2. upstream.ilvl \in ItemLevels
    BY DEF TypeOK, Truth
  <2> QED
    BY <2>1, <2>2 DEF TypeOK, UpsertByGuildIdentity, UpdateAvatar
<1>5. mplus' \in [row : BOOLEAN, rating : Stored, recent : BOOLEAN]
  <2>1. mplus' \in {mplus, UpsertMythicPlus, UpsertMythicPlusRuns}
    BY DEF Working, ProfileFails, SyncMedia, FetchSeason, FetchIndex, RaidsFail, SyncProfile,
           StoreMythic, SyncRaids, Capture, LastSnapshotFails, LastSnapshot, stored, MythicRow
  <2>2. Numeric(job.rating) \in Stored /\ job.recent \in BOOLEAN
    BY RoundedIsStored DEF TypeOK, JobType
  <2>3. mplus \in [row : BOOLEAN, rating : Stored, recent : BOOLEAN]
    BY DEF TypeOK
  <2>4. UpsertMythicPlus \in [row : BOOLEAN, rating : Stored, recent : BOOLEAN]
    BY ONLY <2>2 DEF UpsertMythicPlus
  <2>5. [mplus EXCEPT !.recent = job.recent] \in [row : BOOLEAN, rating : Stored, recent : BOOLEAN]
    BY ONLY <2>2, <2>3
  <2> QED
    BY <2>1, <2>3, <2>4, <2>5 DEF UpsertMythicPlusRuns
<1>6. raids' \in SUBSET Tiers
  <2>1. raids' \in {raids, Current(upstream.raids)}
    BY DEF Working, ProfileFails, SyncMedia, FetchSeason, FetchIndex, RaidsFail, SyncProfile,
           StoreMythic, SyncRaids, Capture, LastSnapshotFails, LastSnapshot, stored, ReplaceRaids
  <2>2. upstream.raids \in SUBSET Tiers
    BY CharacterSyncAssumption DEF TypeOK, Truth
  <2> QED
    BY <2>1, <2>2 DEF TypeOK, Current
<1>7. /\ snaps' \in Seq(Snaps)
      /\ \A i, k \in DOMAIN snaps' : i < k => snaps'[i].at < snaps'[k].at
  <2>1. snaps' = snaps \/ (pc = "capture" /\ snaps' = InsertSnapshot)
    BY DEF Working, ProfileFails, SyncMedia, FetchSeason, FetchIndex, RaidsFail, SyncProfile,
           StoreMythic, SyncRaids, Capture, LastSnapshotFails, LastSnapshot, stored
  <2>2. CASE snaps' = snaps
    BY <2>2 DEF TypeOK
  <2>3. CASE pc = "capture" /\ snaps' = InsertSnapshot
    BY <2>3, InsertSnapshotType
  <2> QED
    BY <2>1, <2>2, <2>3
<1> QED
  BY <1>1, <1>2, <1>3, <1>4, <1>5, <1>6, <1>7 DEF TypeOK

LEMMA TypeStep ==
    ASSUME TypeOK, Kept, InTurn, [Next]_vars
    PROVE  TypeOK'
<1>1. CASE Return \/ Crash
  <2>1. job' \in JobType
    BY JobStep
  <2> QED
    BY <1>1, <2>1 DEF Return, Crash, stored, TypeOK
<1>2. ASSUME NEW cutoff \in 1..now, DeleteSnapshotsBefore(cutoff)
      PROVE  TypeOK'
  <2>1. UNCHANGED <<pc, job, now, upstream, char, mplus, raids>>
    BY <1>2 DEF DeleteSnapshotsBefore
  <2> QED
    BY <1>2, <2>1, SweepKeepsTheNewest DEF TypeOK
<1>3. CASE UNCHANGED vars
  BY <1>3 DEF vars, TypeOK
<1> QED
  BY <1>1, <1>2, <1>3, StepCases, ResolveTierAnchorType, WorkingType

(***************************************************************************)
(* The job and the rows.                                                   *)
(***************************************************************************)

\* The variables that a request or statement assigns, besides err and trouble.
Answered == <<job.ilvl, job.rating, job.found, job.recent, job.gotRaids, job.text, job.prev>>
Started  == <<job.dry, job.season, job.expansion>>

LEMMA TroubledFields ==
    ASSUME job \in JobType, NEW step
    PROVE  LET t == Troubled(step) IN
           /\ t.err /\ t.trouble # {}
           /\ <<t.dry, t.season, t.expansion>> = Started
           /\ <<t.ilvl, t.rating, t.found, t.recent, t.gotRaids, t.text, t.prev>> = Answered
<1> DEFINE t == Troubled(step)
<1>1. t = [job EXCEPT !.err = TRUE, !.trouble = @ \cup {step}]
  BY DEF Troubled
<1>2. t.err /\ t.trouble = job.trouble \cup {step}
  BY <1>1 DEF JobType
<1>3. /\ t.dry = job.dry /\ t.season = job.season /\ t.expansion = job.expansion
      /\ t.ilvl = job.ilvl /\ t.rating = job.rating /\ t.found = job.found
      /\ t.recent = job.recent /\ t.gotRaids = job.gotRaids /\ t.text = job.text
      /\ t.prev = job.prev
  BY <1>1 DEF JobType
<1> QED
  BY <1>2, <1>3 DEF Started, Answered

LEMMA ProfileFailsKeeps ==
    ASSUME HonestReport, ProfileFails
    PROVE  Fetched' /\ Kept' /\ InTurn' /\ UpdatedMeansStored'
<1>1. /\ job'.err /\ job'.trouble # {} /\ Started' = Started /\ Answered' = Answered
      /\ pc = "profile" /\ pc' = "done" /\ UNCHANGED <<now, upstream, char, mplus, raids, snaps>>
  BY TroubledFields DEF HonestReport, TypeOK, ProfileFails, Go, stored, Started, Answered
<1>2. Fetched'
  BY <1>1 DEF HonestReport, Fetched, Answered
<1>3. Kept'
  BY <1>1 DEF HonestReport, Kept, Answered
<1>4. InTurn'
  BY <1>1 DEF HonestReport, InTurn
<1> QED
  BY <1>1, <1>2, <1>3, <1>4 DEF UpdatedMeansStored

LEMMA SyncProfileKeeps ==
    ASSUME HonestReport, NEW w \in Writes, SyncProfile(w)
    PROVE  Fetched' /\ Kept' /\ InTurn' /\ UpdatedMeansStored'
<1> DEFINE base == IF w = "ok" THEN job ELSE Troubled("upsert")
<1>1. /\ base.err = IF w = "ok" THEN job.err ELSE TRUE
      /\ w = "ok" => base = job
      /\ w # "ok" => base.trouble # {}
      /\ base.dry = job.dry /\ base.found = job.found /\ base.rating = job.rating
      /\ base.gotRaids = job.gotRaids /\ base.text = job.text /\ base.expansion = job.expansion
  BY TroubledFields DEF HonestReport, TypeOK, Started, Answered
<1>2. job' = [base EXCEPT !.ilvl = upstream.ilvl]
  BY DEF SyncProfile, Go
<1>3. base \in JobType
  BY TroubledJob DEF HonestReport, TypeOK
<1> HIDE DEF base
<1>4. /\ job'.ilvl = upstream.ilvl /\ job'.err = base.err /\ job'.trouble = base.trouble
      /\ job'.dry = base.dry /\ job'.found = base.found /\ job'.rating = base.rating
      /\ job'.gotRaids = base.gotRaids /\ job'.text = base.text
      /\ job'.expansion = base.expansion
  BY <1>2, <1>3 DEF JobType
<1>5. /\ pc = "profile" /\ pc' = IF w = "ok" THEN "media" ELSE "done"
      /\ UNCHANGED <<now, upstream, mplus, raids, snaps>>
      /\ ~job.dry /\ w = "ok" => char' = [char EXCEPT !.ilvl = upstream.ilvl]
  BY DEF SyncProfile, Go, Saves, Committed, UpsertByGuildIdentity
<1>6. Fetched'
  BY <1>1, <1>4, <1>5 DEF HonestReport, Fetched
<1>7. Kept'
  BY <1>1, <1>4, <1>5 DEF HonestReport, Fetched, Kept, TypeOK, Current
<1>8. InTurn'
  BY <1>1, <1>4, <1>5 DEF HonestReport, InTurn
<1> QED
  BY <1>1, <1>4, <1>5, <1>6, <1>7, <1>8 DEF UpdatedMeansStored
\* Steps after which the job is as it was, or troubled.
LEMMA Carried ==
    ASSUME job \in JobType, NEW step, NEW fine \in BOOLEAN,
           job' = IF fine THEN job ELSE Troubled(step)
    PROVE  /\ fine => job' = job
           /\ ~fine => job'.err /\ job'.trouble # {}
           /\ job'.dry = job.dry /\ job'.expansion = job.expansion /\ job'.ilvl = job.ilvl
           /\ job'.rating = job.rating /\ job'.found = job.found
           /\ job'.gotRaids = job.gotRaids /\ job'.text = job.text /\ job'.prev = job.prev
  BY TroubledFields DEF Started, Answered

LEMMA SyncMediaKeeps ==
    ASSUME HonestReport, NEW a \in Answers, NEW w \in Writes, SyncMedia(a, w)
    PROVE  Fetched' /\ Kept' /\ InTurn' /\ UpdatedMeansStored'
<1>1. /\ job' = job /\ pc = "media" /\ pc' \in {"season", "raids"}
      /\ pc' = IF job.season THEN "season" ELSE "raids"
      /\ UNCHANGED <<now, upstream, mplus, raids, snaps>>
      /\ char' = char \/ char' = [char EXCEPT !.avatar = TRUE]
  BY DEF SyncMedia, Go, UpdateAvatar
<1>2. char'.ilvl = char.ilvl
  BY <1>1 DEF HonestReport, TypeOK
<1>3. Fetched'
  BY <1>1 DEF HonestReport, Fetched
<1>4. Kept'
  BY <1>1, <1>2 DEF HonestReport, Fetched, Kept, Current
<1>5. InTurn'
  BY <1>1 DEF HonestReport, InTurn
<1> QED
  BY <1>1, <1>3, <1>4, <1>5 DEF UpdatedMeansStored

LEMMA FetchSeasonKeeps ==
    ASSUME HonestReport, NEW a \in Answers, FetchSeason(a)
    PROVE  Fetched' /\ Kept' /\ InTurn' /\ UpdatedMeansStored'
<1> DEFINE base == IF a = "failed" THEN Troubled("season") ELSE job
           r    == IF a = "ok" THEN upstream.rating ELSE 0
<1>1. /\ a # "failed" => base = job
      /\ a = "failed" => base.err /\ base.trouble # {}
      /\ base.dry = job.dry /\ base.ilvl = job.ilvl
      /\ base.gotRaids = job.gotRaids /\ base.text = job.text /\ base.expansion = job.expansion
  BY TroubledFields DEF HonestReport, TypeOK, Started, Answered
<1>2. job' = [base EXCEPT !.found = a, !.rating = r]
  BY DEF FetchSeason, Go
<1>3. base \in JobType
  BY TroubledJob DEF HonestReport, TypeOK
<1>4. a = "ok" => r = upstream.rating
  OBVIOUS
<1> HIDE DEF base, r
<1>5. /\ job'.found = a /\ job'.rating = r /\ job'.err = base.err /\ job'.trouble = base.trouble
      /\ job'.dry = base.dry /\ job'.ilvl = base.ilvl
      /\ job'.gotRaids = base.gotRaids /\ job'.text = base.text
      /\ job'.expansion = base.expansion
  BY <1>2, <1>3 DEF JobType
<1>6. /\ pc = "season" /\ pc' = "index" /\ UNCHANGED <<now, upstream, char, mplus, raids, snaps>>
  BY DEF FetchSeason, Go, stored
<1>7. Fetched'
  BY <1>1, <1>4, <1>5, <1>6 DEF HonestReport, Fetched
<1>8. Kept'
  BY <1>1, <1>5, <1>6 DEF HonestReport, Fetched, Kept, Current
<1>9. InTurn'
  BY <1>1, <1>5, <1>6 DEF HonestReport, InTurn
<1> QED
  BY <1>6, <1>7, <1>8, <1>9 DEF UpdatedMeansStored

LEMMA FetchIndexKeeps ==
    ASSUME HonestReport, NEW a \in Answers, FetchIndex(a)
    PROVE  Fetched' /\ Kept' /\ InTurn' /\ UpdatedMeansStored'
<1> DEFINE base == IF a = "failed" THEN Troubled("index") ELSE job
           b    == a = "ok" /\ upstream.recent
<1>1. /\ a # "failed" => base = job
      /\ a = "failed" => base.err /\ base.trouble # {}
      /\ base.dry = job.dry /\ base.ilvl = job.ilvl /\ base.found = job.found
      /\ base.gotRaids = job.gotRaids /\ base.text = job.text /\ base.expansion = job.expansion
      /\ base.rating = job.rating
  BY TroubledFields DEF HonestReport, TypeOK, Started, Answered
<1>2. job' = [base EXCEPT !.recent = b]
  BY DEF FetchIndex, Go
<1>3. base \in JobType
  BY TroubledJob DEF HonestReport, TypeOK
<1> HIDE DEF base, b
<1>4. /\ job'.found = base.found /\ job'.rating = base.rating
      /\ job'.err = base.err /\ job'.trouble = base.trouble
      /\ job'.dry = base.dry /\ job'.ilvl = base.ilvl
      /\ job'.gotRaids = base.gotRaids /\ job'.text = base.text
      /\ job'.expansion = base.expansion
  BY <1>2, <1>3 DEF JobType
<1>5. /\ pc = "index" /\ pc' = "mplus" /\ UNCHANGED <<now, upstream, char, mplus, raids, snaps>>
  BY DEF FetchIndex, Go, stored
<1>6. Fetched'
  BY <1>1, <1>4, <1>5 DEF HonestReport, Fetched
<1>7. Kept'
  BY <1>1, <1>4, <1>5 DEF HonestReport, Kept, Current
<1>8. InTurn'
  BY <1>1, <1>4, <1>5 DEF HonestReport, InTurn
<1> QED
  BY <1>5, <1>6, <1>7, <1>8 DEF UpdatedMeansStored

LEMMA StoreMythicKeeps ==
    ASSUME HonestReport, NEW w \in Writes, StoreMythic(w)
    PROVE  Fetched' /\ Kept' /\ InTurn' /\ UpdatedMeansStored'
<1> DEFINE fine == w = "ok"
<1>1. /\ pc = "mplus" /\ pc' = "raids" /\ UNCHANGED <<now, upstream, char, raids, snaps>>
      /\ job' = IF fine THEN job ELSE Troubled("mplus")
  BY DEF StoreMythic, Go
<1>2. job \in JobType /\ fine \in BOOLEAN
  BY DEF HonestReport, TypeOK
<1>3. fine /\ job.found = "ok" /\ ~job.dry => mplus' = UpsertMythicPlus
  BY DEF StoreMythic, KeepsMythic, Saves, Committed, MythicRow
<1>4. UpsertMythicPlus.row /\ UpsertMythicPlus.rating = Numeric(job.rating)
  BY DEF UpsertMythicPlus
<1> HIDE DEF fine
<1>5. /\ fine => job' = job
      /\ ~fine => job'.err /\ job'.trouble # {}
      /\ job'.dry = job.dry /\ job'.expansion = job.expansion /\ job'.ilvl = job.ilvl
      /\ job'.rating = job.rating /\ job'.found = job.found
      /\ job'.gotRaids = job.gotRaids /\ job'.text = job.text
  BY ONLY <1>1, <1>2, Carried
<1>6. Fetched'
  BY <1>1, <1>5 DEF HonestReport, Fetched
<1>7. Kept'
  BY <1>1, <1>3, <1>4, <1>5 DEF HonestReport, Fetched, Kept, Current
<1>8. InTurn'
  BY <1>1, <1>5 DEF HonestReport, InTurn
<1> QED
  BY <1>1, <1>6, <1>7, <1>8 DEF UpdatedMeansStored

LEMMA SyncRaidsKeeps ==
    ASSUME HonestReport, NEW w \in Writes, SyncRaids(w)
    PROVE  Fetched' /\ Kept' /\ InTurn' /\ UpdatedMeansStored'
<1> DEFINE base == IF w = "ok" THEN job ELSE Troubled("raids")
           t    == Marshal(upstream.raids)
<1>1. /\ w = "ok" => base = job
      /\ w # "ok" => base.err /\ base.trouble # {}
      /\ base.dry = job.dry /\ base.ilvl = job.ilvl /\ base.found = job.found
      /\ base.expansion = job.expansion /\ base.rating = job.rating
  BY TroubledFields DEF HonestReport, TypeOK, Started, Answered
<1>2. job' = [base EXCEPT !.text = t, !.gotRaids = "ok"]
  BY DEF SyncRaids, Go
<1>3. base \in JobType
  BY TroubledJob DEF HonestReport, TypeOK
<1>4. t # NoRaids
  BY DEF Marshal, NoRaids
<1> HIDE DEF base, t
<1>5. /\ job'.found = base.found /\ job'.rating = base.rating
      /\ job'.err = base.err /\ job'.trouble = base.trouble
      /\ job'.dry = base.dry /\ job'.ilvl = base.ilvl
      /\ job'.gotRaids = "ok" /\ job'.text = t
      /\ job'.expansion = base.expansion
  BY <1>2, <1>3 DEF JobType
<1>6. /\ pc = "raids" /\ pc' = IF job.dry THEN "done" ELSE "last"
      /\ UNCHANGED <<now, upstream, char, mplus, snaps>>
      /\ ~job.dry /\ w = "ok" => raids' = Current(upstream.raids)
  BY DEF SyncRaids, Go, Saves, ReplaceRaids, Committed
<1>7. Fetched'
  BY <1>1, <1>4, <1>5, <1>6 DEF HonestReport, Fetched
<1>8. Kept'
  BY <1>1, <1>5, <1>6 DEF HonestReport, Kept, Current
<1>9. InTurn'
  BY <1>1, <1>5, <1>6 DEF HonestReport, InTurn
<1> QED
  BY <1>1, <1>5, <1>6, <1>7, <1>8, <1>9 DEF UpdatedMeansStored

LEMMA RaidsFailKeeps ==
    ASSUME HonestReport, NEW a \in Answers, RaidsFail(a)
    PROVE  Fetched' /\ Kept' /\ InTurn' /\ UpdatedMeansStored'
<1> DEFINE base == IF a = "failed" THEN Troubled("raids") ELSE job
<1>1. /\ a # "failed" => base = job
      /\ a = "failed" => base.err /\ base.trouble # {}
      /\ base.dry = job.dry /\ base.ilvl = job.ilvl /\ base.found = job.found
      /\ base.text = job.text /\ base.expansion = job.expansion /\ base.rating = job.rating
  BY TroubledFields DEF HonestReport, TypeOK, Started, Answered
<1>2. job' = [base EXCEPT !.gotRaids = a]
  BY DEF RaidsFail, Go
<1>3. base \in JobType
  BY TroubledJob DEF HonestReport, TypeOK
<1> HIDE DEF base
<1>4. /\ job'.found = base.found /\ job'.rating = base.rating
      /\ job'.err = base.err /\ job'.trouble = base.trouble
      /\ job'.dry = base.dry /\ job'.ilvl = base.ilvl
      /\ job'.gotRaids = a /\ job'.text = base.text
      /\ job'.expansion = base.expansion
  BY <1>2, <1>3 DEF JobType
<1>5. /\ a # "ok" /\ pc = "raids" /\ pc' = IF job.dry THEN "done" ELSE "last"
      /\ UNCHANGED <<now, upstream, char, mplus, raids, snaps>>
  BY DEF RaidsFail, Go, Saves, stored
<1>6. Fetched'
  BY <1>1, <1>4, <1>5 DEF HonestReport, Fetched
<1>7. Kept'
  BY <1>1, <1>4, <1>5 DEF HonestReport, Kept, Current
<1>8. InTurn'
  BY <1>1, <1>4, <1>5 DEF HonestReport, InTurn
<1> QED
  BY <1>1, <1>4, <1>5, <1>6, <1>7, <1>8 DEF UpdatedMeansStored
LEMMA LastSnapshotKeeps ==
    ASSUME HonestReport, LastSnapshotFails \/ LastSnapshot
    PROVE  Fetched' /\ Kept' /\ InTurn' /\ UpdatedMeansStored'
<1>1. pc = "last" /\ UNCHANGED <<now, upstream, char, mplus, raids, snaps>>
  BY DEF LastSnapshotFails, LastSnapshot, Go, stored
<1>2. CASE LastSnapshotFails
  <2>1. /\ job'.err /\ job'.trouble # {} /\ Started' = Started /\ Answered' = Answered
        /\ pc' = "done"
    BY <1>2, TroubledFields DEF HonestReport, TypeOK, LastSnapshotFails, Go, Started, Answered
  <2>2. Fetched' /\ Kept' /\ InTurn'
    BY <1>1, <2>1 DEF HonestReport, Fetched, Kept, InTurn, Answered
  <2> QED
    BY <2>1, <2>2 DEF UpdatedMeansStored
<1>3. CASE LastSnapshot
  <2> DEFINE p == IF snaps = << >> THEN NoSnap ELSE snaps[Len(snaps)]
  <2>1. job' = [job EXCEPT !.prev = p] /\ pc' = "capture" /\ job \in JobType
    BY <1>3 DEF LastSnapshot, Go, HonestReport, TypeOK
  <2>2. snaps # << >> => p = snaps[Len(snaps)]
    OBVIOUS
  <2> HIDE DEF p
  <2>3. /\ job'.found = job.found /\ job'.rating = job.rating
        /\ job'.err = job.err /\ job'.trouble = job.trouble
        /\ job'.dry = job.dry /\ job'.ilvl = job.ilvl
        /\ job'.gotRaids = job.gotRaids /\ job'.text = job.text
        /\ job'.expansion = job.expansion /\ job'.prev = p
    BY <2>1 DEF JobType
  <2>4. Fetched'
    BY <1>1, <2>1, <2>3 DEF HonestReport, Fetched
  <2>5. Kept'
    BY <1>1, <2>1, <2>3 DEF HonestReport, Kept, Current
  <2>6. InTurn'
    BY <1>1, <2>1, <2>2, <2>3 DEF HonestReport, InTurn
  <2> QED
    BY <2>1, <2>4, <2>5, <2>6 DEF UpdatedMeansStored
<1> QED
  BY <1>2, <1>3

\* What is compared equal is equal, but for what the database does to it.
LEMMA Unchanged ==
    ASSUME TypeOK, ~InsertsSnapshot
    PROVE  /\ job.prev \in Snaps
           /\ job.prev.ilvl = job.ilvl
           /\ job.prev.rating = job.rating /\ job.prev.rating = Numeric(job.rating)
           /\ job.prev.text = job.text /\ job.text = NoRaids
<1>1. job.prev # NoSnap /\ ~SnapshotChanged(job.prev, job.ilvl, job.rating, job.text)
  BY DEF InsertsSnapshot
<1>2. job.prev \in Snaps /\ job.text \in Texts
  BY <1>1 DEF TypeOK, JobType
<1>3. /\ job.prev.ilvl = job.ilvl /\ job.prev.rating = job.rating
      /\ ReadBack(job.prev.text) = job.text
  BY <1>1 DEF SnapshotChanged
<1>4. job.prev.rating \in Stored /\ job.prev.text \in Texts
  BY <1>2 DEF Snaps
<1>5. job.prev.text = NoRaids /\ job.text = NoRaids
  BY <1>2, <1>3, <1>4, NeverTheSameText
<1>6. job.prev.rating = Numeric(job.rating)
  BY <1>3, <1>4, StoredIsRounded
<1> QED
  BY <1>2, <1>3, <1>5, <1>6

LEMMA CaptureKeeps ==
    ASSUME HonestReport, NEW w \in Writes, Capture(w)
    PROVE  Fetched' /\ Kept' /\ InTurn' /\ UpdatedMeansStored'
<1> DEFINE fine == w = "ok"
<1>1. /\ pc = "capture" /\ pc' = "done" /\ UNCHANGED <<now, upstream, char, mplus, raids>>
      /\ job' = IF fine THEN job ELSE Troubled("snapshot")
  BY DEF Capture, Go
<1>2. job \in JobType /\ fine \in BOOLEAN
  BY DEF HonestReport, TypeOK
<1>3. /\ snaps' = snaps \/ snaps' = InsertSnapshot
      /\ fine /\ InsertsSnapshot => snaps' = InsertSnapshot
      /\ fine /\ ~InsertsSnapshot => snaps' = snaps
  BY DEF Capture, Committed
<1> HIDE DEF fine
<1>4. /\ fine => job' = job
      /\ ~fine => job'.err /\ job'.trouble # {}
      /\ job'.dry = job.dry /\ job'.expansion = job.expansion /\ job'.ilvl = job.ilvl
      /\ job'.rating = job.rating /\ job'.found = job.found
      /\ job'.gotRaids = job.gotRaids /\ job'.text = job.text
  BY ONLY <1>1, <1>2, Carried
<1>5. snaps \in Seq(Snaps) /\ Len(snaps) \in Nat /\ DOMAIN snaps = 1..Len(snaps)
  BY LenProperties DEF HonestReport, TypeOK
<1>6. /\ Len(InsertSnapshot) = Len(snaps) + 1
      /\ DOMAIN InsertSnapshot = 1..(Len(snaps) + 1)
      /\ \A i \in DOMAIN snaps : InsertSnapshot[i] = snaps[i]
      /\ InsertSnapshot[Len(snaps) + 1] = [at |-> now, ilvl |-> job.ilvl,
                                 rating |-> Numeric(job.rating), text |-> job.text]
  BY <1>1, InsertSnapshotType DEF HonestReport
<1>7. Fetched'
  BY <1>1, <1>4 DEF HonestReport, Fetched
<1>8. Kept'
  BY <1>1, <1>4 DEF HonestReport, Kept, Current
<1>9. InTurn'
  <2>1. \A i \in DOMAIN snaps' : snaps'[i].at <= now
    <3>1. \A i \in DOMAIN snaps : snaps[i].at <= now
      BY DEF HonestReport, InTurn
    <3>2. now <= now
      BY DEF HonestReport, TypeOK
    <3>3. CASE snaps' = snaps
      BY <3>1, <3>3
    <3>4. CASE snaps' = InsertSnapshot
      <4> SUFFICES ASSUME NEW i \in DOMAIN InsertSnapshot
                   PROVE  InsertSnapshot[i].at <= now
        BY <3>4
      <4>1. i \in DOMAIN snaps \/ i = Len(snaps) + 1
        BY <1>5, <1>6
      <4> QED
        BY <1>6, <3>1, <3>2, <4>1
    <3> QED
      BY <1>3, <3>3, <3>4
  <2> QED
    BY <1>1, <2>1 DEF HonestReport, InTurn
<1>10. UpdatedMeansStored'
  <2> SUFFICES ASSUME fine, ~job.err, ~job.dry
               PROVE  UpdatedMeansStored'
    BY <1>1, <1>4 DEF UpdatedMeansStored
  <2>1. job' = job
    BY <1>4
  <2>2. /\ job.ilvl = upstream.ilvl /\ char.ilvl = upstream.ilvl
        /\ job.found = "ok" => mplus.row /\ mplus.rating = Numeric(upstream.rating)
        /\ job.gotRaids = "ok" => raids = Current(upstream.raids)
    BY <1>1 DEF HonestReport, Kept
  <2>3. Current(upstream.raids) = IF job.expansion = 0 THEN upstream.raids
                                  ELSE upstream.raids \cap {Max(Tiers)}
    <3>1. job.expansion \in {0, ExpansionOf(Journal)}
      BY <1>2 DEF JobType
    <3> QED
      BY <3>1, AnchorIsReal DEF Current
  <2>4. ASSUME snaps' # << >>
        PROVE  /\ snaps'[Len(snaps')].ilvl = upstream.ilvl
               /\ snaps'[Len(snaps')].rating = Numeric(job.rating)
               /\ snaps'[Len(snaps')].text = job.text
    <3>1. CASE InsertsSnapshot
      BY <1>3, <1>6, <2>2, <3>1
    <3>2. CASE ~InsertsSnapshot
      <4>1. snaps' = snaps /\ job.prev = snaps[Len(snaps)]
        BY <1>1, <1>3, <2>4, <3>2 DEF HonestReport, InTurn
      <4>2. /\ job.prev.ilvl = job.ilvl /\ job.prev.rating = Numeric(job.rating)
            /\ job.prev.text = job.text
        BY <3>2, Unchanged DEF HonestReport
      <4> QED
        BY <2>2, <4>1, <4>2
    <3> QED
      BY <3>1, <3>2
  <2> QED
    BY <1>1, <2>1, <2>2, <2>3, <2>4 DEF UpdatedMeansStored
<1> QED
  BY <1>7, <1>8, <1>9, <1>10
LEMMA WorkingKeeps ==
    ASSUME HonestReport, Working
    PROVE  Fetched' /\ Kept' /\ InTurn' /\ UpdatedMeansStored'
  BY ProfileFailsKeeps, SyncProfileKeeps, SyncMediaKeeps, FetchSeasonKeeps, FetchIndexKeeps,
     StoreMythicKeeps, SyncRaidsKeeps, RaidsFailKeeps, LastSnapshotKeeps, CaptureKeeps DEF Working

LEMMA ResolveTierAnchorKeeps ==
    ASSUME HonestReport, NEW dry \in BOOLEAN, NEW s \in {"ok", "failed"},
           NEW j \in {"ok", "failed"}, ResolveTierAnchor(dry, s, j)
    PROVE  Fetched' /\ Kept' /\ InTurn' /\ UpdatedMeansStored'
<1> DEFINE has == s = "ok"
           e   == IF j = "ok" THEN ExpansionOf(Journal) ELSE 0
<1>1. /\ pc = "idle" /\ pc' = "profile" /\ now' = now + 1
      /\ job' = [NoJob EXCEPT !.dry = dry, !.season = has, !.expansion = e]
      /\ UNCHANGED snaps
  BY DEF ResolveTierAnchor, stored
<1> HIDE DEF has, e
<1>2. /\ ~job'.err /\ job'.trouble = {} /\ job'.found = "skipped"
      /\ job'.gotRaids = "skipped" /\ job'.text = NoRaids
  BY <1>1 DEF NoJob
<1>3. Fetched'
  BY <1>1, <1>2 DEF Fetched
<1>4. Kept'
  BY <1>1, <1>2 DEF Kept
<1>5. InTurn'
  <2>1. now \in Nat /\ now' \in Nat /\ now < now' /\ now' > 0
    BY <1>1, CharacterSyncAssumption DEF HonestReport, TypeOK
  <2>2. \A i \in DOMAIN snaps : snaps[i].at \in Nat /\ snaps[i].at <= now
    <3>1. \A i \in DOMAIN snaps : snaps[i] \in Snaps
      BY LenProperties, ElementOfSeq DEF HonestReport, TypeOK
    <3>2. \A x \in Snaps : x.at \in Nat
      BY CharacterSyncAssumption DEF Snaps
    <3>3. \A i \in DOMAIN snaps : snaps[i].at <= now
      BY DEF HonestReport, InTurn
    <3> QED
      BY <3>1, <3>2, <3>3
  <2>3. \A i \in DOMAIN snaps : snaps[i].at <= now' /\ snaps[i].at < now'
    BY <2>1, <2>2
  <2> QED
    BY <1>1, <2>1, <2>3 DEF InTurn
<1> QED
  BY <1>1, <1>3, <1>4, <1>5 DEF UpdatedMeansStored

LEMMA EndKeeps ==
    ASSUME HonestReport, Return \/ Crash
    PROVE  Fetched' /\ Kept' /\ InTurn' /\ UpdatedMeansStored'
<1>1. pc' = "idle" /\ job' = NoJob /\ UNCHANGED <<now, upstream, stored>>
  BY DEF Return, Crash
<1>2. Fetched' /\ Kept'
  BY <1>1 DEF Fetched, Kept, NoJob
<1>3. InTurn'
  BY <1>1 DEF HonestReport, InTurn, stored
<1> QED
  BY <1>1, <1>2, <1>3 DEF UpdatedMeansStored

\* A sweep takes nothing away that a report or a comparison relies on.
LEMMA SweepKeeps ==
    ASSUME HonestReport, NEW cutoff \in 1..now, DeleteSnapshotsBefore(cutoff)
    PROVE  Fetched' /\ Kept' /\ InTurn' /\ UpdatedMeansStored'
<1>1. UNCHANGED <<pc, job, now, upstream, char, mplus, raids>>
  BY DEF DeleteSnapshotsBefore
<1>2. /\ \A i \in DOMAIN snaps' : \E k \in DOMAIN snaps : snaps'[i] = snaps[k]
      /\ snaps' # << >> => snaps # << >> /\ snaps'[Len(snaps')] = snaps[Len(snaps)]
  BY SweepKeepsTheNewest DEF HonestReport
<1>3. Fetched'
  BY <1>1 DEF HonestReport, Fetched
<1>4. Kept'
  BY <1>1 DEF HonestReport, Kept, Current
<1>5. InTurn'
  BY <1>1, <1>2 DEF HonestReport, InTurn
<1>6. UpdatedMeansStored'
  BY <1>1, <1>2 DEF HonestReport, UpdatedMeansStored
<1> QED
  BY <1>3, <1>4, <1>5, <1>6

LEMMA StutterKeeps ==
    ASSUME HonestReport, UNCHANGED vars
    PROVE  Fetched' /\ Kept' /\ InTurn' /\ UpdatedMeansStored'
  BY DEF HonestReport, vars, Fetched, Kept, InTurn, UpdatedMeansStored, Current

LEMMA StepKeeps == HonestReport /\ [Next]_vars => HonestReport'
<1> SUFFICES ASSUME HonestReport, [Next]_vars
             PROVE  HonestReport'
  OBVIOUS
<1>1. TypeOK'
  BY TypeStep DEF HonestReport
<1>2. Fetched' /\ Kept' /\ InTurn' /\ UpdatedMeansStored'
  BY StepCases, WorkingKeeps, ResolveTierAnchorKeeps, EndKeeps, SweepKeeps, StutterKeeps
<1>3. ErrorsReported'
  BY <1>2 DEF Fetched, ErrorsReported
<1> QED
  BY <1>1, <1>2, <1>3 DEF HonestReport

LEMMA InitKeeps == Init => HonestReport
<1> SUFFICES ASSUME Init
             PROVE  HonestReport
  OBVIOUS
<1>1. TypeOK
  BY InitType
<1>2. pc = "idle" /\ job = NoJob /\ snaps = << >>
  BY DEF Init
<1>3. DOMAIN snaps = {}
  BY <1>2
<1>4. Fetched /\ Kept /\ InTurn
  BY <1>2, <1>3 DEF Fetched, Kept, InTurn, NoJob
<1> QED
  BY <1>1, <1>2, <1>4 DEF HonestReport, ErrorsReported, UpdatedMeansStored

(***************************************************************************)
(* The theorems.                                                           *)
(***************************************************************************)

\* syncCharacter reports an error exactly when something but the portrait failed,
\* and a character it reports as updated is stored as Blizzard described it,
\* whatever fails, crashes or is swept in between.
THEOREM ReportIsHonest == Spec => []HonestReport
<1>1. Init => HonestReport
  BY InitKeeps
<1>2. HonestReport /\ [Next]_vars => HonestReport'
  BY StepKeeps
<1> QED
  BY <1>1, <1>2, PTL DEF Spec

\* A dry run reaches no statement of the stores; only the sweeper acts meanwhile.
THEOREM DryRunIsDry == Spec => DryRunWritesNothing
<1>1. ASSUME HonestReport, [Next]_vars
      PROVE  [job.dry => UNCHANGED <<char, mplus, raids>> /\ Len(snaps') <= Len(snaps)]_vars
  <2> SUFFICES ASSUME job.dry
               PROVE  UNCHANGED <<char, mplus, raids>> /\ Len(snaps') <= Len(snaps)
    OBVIOUS
  <2>1. Len(snaps) \in Nat
    BY <1>1, LenProperties DEF HonestReport, TypeOK
  <2>2. CASE Working
    <3>1. ~Saves
      BY DEF Saves
    <3>2. pc # "last" /\ pc # "capture"
      BY <1>1 DEF HonestReport, InTurn
    <3>3. UNCHANGED <<char, mplus, raids, snaps>>
      BY <2>2, <3>1, <3>2 DEF Working, ProfileFails, SyncMedia, FetchSeason, FetchIndex, RaidsFail,
         SyncProfile, StoreMythic, SyncRaids, Capture, LastSnapshotFails, LastSnapshot, stored
    <3> QED
      BY <2>1, <3>3
  <2>3. ASSUME NEW cutoff \in 1..now, DeleteSnapshotsBefore(cutoff)
        PROVE  UNCHANGED <<char, mplus, raids>> /\ Len(snaps') <= Len(snaps)
    BY <1>1, <2>3, SweepKeepsTheNewest DEF HonestReport, DeleteSnapshotsBefore
  <2>4. ASSUME UNCHANGED stored
        PROVE  UNCHANGED <<char, mplus, raids>> /\ Len(snaps') <= Len(snaps)
    BY <2>1, <2>4 DEF stored
  <2> QED
    BY <1>1, <2>2, <2>3, <2>4, StepCases DEF ResolveTierAnchor, Return, Crash, vars, stored
<1>2. HonestReport /\ [Next]_vars
        => [job.dry => UNCHANGED <<char, mplus, raids>> /\ Len(snaps') <= Len(snaps)]_vars
  BY <1>1
<1> QED
  BY <1>2, ReportIsHonest, PTL DEF Spec, DryRunWritesNothing
\* A stored rating and stored raids leave only for what this run was answered.
THEOREM GoodDataIsKept == Spec => GoodDataKept
<1>1. ASSUME HonestReport, [Next]_vars
      PROVE  [mplus'.rating # mplus.rating /\ mplus.row
                => job.found = "ok" /\ mplus'.rating = Numeric(upstream.rating)]_vars
  <2> SUFFICES ASSUME mplus'.rating # mplus.rating, mplus.row
               PROVE  job.found = "ok" /\ mplus'.rating = Numeric(upstream.rating)
    OBVIOUS
  <2>1. mplus' # mplus
    OBVIOUS
  <2>2. PICK w \in Writes : StoreMythic(w)
    BY <1>1, <2>1, StepCases DEF ResolveTierAnchor, Return, Crash, vars, stored,
       DeleteSnapshotsBefore, Working, ProfileFails, SyncMedia, FetchSeason, FetchIndex,
       RaidsFail, SyncProfile, SyncRaids, Capture, LastSnapshotFails, LastSnapshot
  <2>3. mplus' = MythicRow
    BY <2>1, <2>2 DEF StoreMythic
  <2>4. mplus \in [row : BOOLEAN, rating : Stored, recent : BOOLEAN]
    BY <1>1 DEF HonestReport, TypeOK
  <2>5. job.found = "ok"
    <3>1. [mplus EXCEPT !.recent = job.recent].rating = mplus.rating
      BY ONLY <2>4
    <3> QED
      BY <2>3, <3>1 DEF MythicRow, UpsertMythicPlusRuns
  <2>6. mplus'.rating = Numeric(job.rating)
    BY <2>3, <2>5 DEF MythicRow, UpsertMythicPlus
  <2> QED
    BY <1>1, <2>5, <2>6 DEF HonestReport, Fetched
<1>2. ASSUME [Next]_vars
      PROVE  [raids' # raids => raids' = Current(upstream.raids)]_vars
  <2> SUFFICES ASSUME raids' # raids
               PROVE  raids' = Current(upstream.raids)
    OBVIOUS
  <2>1. PICK w \in Writes : SyncRaids(w)
    BY <1>2, StepCases DEF ResolveTierAnchor, Return, Crash, vars, stored,
       DeleteSnapshotsBefore, Working, ProfileFails, SyncMedia, FetchSeason, FetchIndex,
       RaidsFail, SyncProfile, StoreMythic, Capture, LastSnapshotFails, LastSnapshot
  <2> QED
    BY <2>1 DEF SyncRaids, ReplaceRaids
<1>3. HonestReport /\ [Next]_vars
        => [mplus'.rating # mplus.rating /\ mplus.row
              => job.found = "ok" /\ mplus'.rating = Numeric(upstream.rating)]_vars
  BY <1>1
<1>4. [Next]_vars => [raids' # raids => raids' = Current(upstream.raids)]_vars
  BY <1>2
<1> QED
  BY <1>3, <1>4, ReportIsHonest, PTL DEF Spec, GoodDataKept, RatingNeverWiped, RaidsSwappedWhole

-----------------------------------------------------------------------------
(***************************************************************************)
(* The snapshots of all characters, which captures leave behind and the    *)
(* sweeper removes, and what is read from them: Progression, that is       *)
(* SnapshotHistory brought in as H.                                        *)
(***************************************************************************)

\* Bounded numbers have a smallest and a largest one.
LEMMA ExtremesIn ==
    ASSUME NEW n \in Nat, NEW S \in SUBSET (0..n), S # {}
    PROVE  /\ \E x \in S : \A y \in S : y <= x
           /\ \E x \in S : \A y \in S : x <= y
<1>1. ASSUME NEW T \in SUBSET (0..n), T # {}
      PROVE  \E x \in T : \A y \in T : y <= x
  <2>1. IsFiniteSet(T) /\ T \in SUBSET Nat
    <3>1. IsFiniteSet(0..n)
      BY FS_Interval
    <3>2. IsFiniteSet(T)
      BY <3>1, FS_Subset
    <3>3. \A x \in T : x \in Nat
      OBVIOUS
    <3> QED
      BY <3>2, <3>3
  <2>2. Max(T) \in T /\ \A y \in T : Max(T) >= y
    BY <1>1, <2>1, LargestIn
  <2> QED
    BY <2>1, <2>2
<1>2. \E x \in S : \A y \in S : x <= y
  <2> DEFINE T == {n - x : x \in S}
  <2>1. T \in SUBSET (0..n) /\ T # {}
    <3>1. \A x \in S : n - x \in 0..n
      OBVIOUS
    <3> QED
      BY <3>1
  <2>2. PICK z \in T : \A y \in T : y <= z
    BY <1>1, <2>1
  <2>3. PICK x \in S : z = n - x
    BY <2>2
  <2>4. \A y \in S : n - y <= n - x
    BY <2>2, <2>3
  <2> QED
    BY <2>3, <2>4
<1> QED
  BY <1>1, <1>2

\* Rows of one character: stamps and ids are bounded, ids are its own.
Ordered(S, n) ==
    /\ n \in Nat /\ \A s \in S : s.id \in 0..n /\ s.at \in 0..n
    /\ \A s, t \in S : s.id = t.id => s = t

\* The order of the queries is total on them, so they have a first and a last one.
LEMMA EndsOfRows ==
    ASSUME NEW S, NEW n, Ordered(S, n), S # {}
    PROVE  /\ H!Newest(S) \in S /\ \A t \in S \ {H!Newest(S)} : H!Before(t, H!Newest(S))
           /\ H!Oldest(S) \in S /\ \A t \in S \ {H!Oldest(S)} : H!Before(H!Oldest(S), t)
<1>0. n \in Nat
  BY DEF Ordered
<1>1. \A T \in SUBSET S : T # {} =>
         /\ \E x \in T : \A y \in T : y.at <= x.at
         /\ \E x \in T : \A y \in T : x.at <= y.at
         /\ \E x \in T : \A y \in T : y.id <= x.id
         /\ \E x \in T : \A y \in T : x.id <= y.id
  <2> SUFFICES ASSUME NEW T \in SUBSET S, T # {}
               PROVE  /\ \E x \in T : \A y \in T : y.at <= x.at
                      /\ \E x \in T : \A y \in T : x.at <= y.at
                      /\ \E x \in T : \A y \in T : y.id <= x.id
                      /\ \E x \in T : \A y \in T : x.id <= y.id
    OBVIOUS
  <2> DEFINE Ats == {x.at : x \in T}
             Ids == {x.id : x \in T}
  <2>1. Ats \in SUBSET (0..n) /\ Ats # {} /\ Ids \in SUBSET (0..n) /\ Ids # {}
    BY DEF Ordered
  <2>2. /\ \E x \in Ats : \A y \in Ats : y <= x
        /\ \E x \in Ats : \A y \in Ats : x <= y
    <3> HIDE DEF Ats
    <3> QED
      BY <1>0, <2>1, ExtremesIn
  <2>3. /\ \E x \in Ids : \A y \in Ids : y <= x
        /\ \E x \in Ids : \A y \in Ids : x <= y
    <3> HIDE DEF Ids
    <3> QED
      BY <1>0, <2>1, ExtremesIn
  <2> QED
    BY <2>2, <2>3
<1>2. \E s \in S : \A t \in S \ {s} : H!Before(t, s)
  <2>1. PICK a \in S : \A y \in S : y.at <= a.at
    BY <1>1
  <2> DEFINE T == {t \in S : t.at = a.at}
  <2>2. PICK b \in T : \A y \in T : y.id <= b.id
    <3>1. T \in SUBSET S /\ T # {}
      OBVIOUS
    <3> QED
      BY <1>1, <3>1
  <2>3. \A t \in S \ {b} : H!Before(t, b)
    BY <2>1, <2>2 DEF H!Before, Ordered
  <2> QED
    BY <2>3
<1>3. \E s \in S : \A t \in S \ {s} : H!Before(s, t)
  <2>1. PICK a \in S : \A y \in S : a.at <= y.at
    BY <1>1
  <2> DEFINE T == {t \in S : t.at = a.at}
  <2>2. PICK b \in T : \A y \in T : b.id <= y.id
    <3>1. T \in SUBSET S /\ T # {}
      OBVIOUS
    <3> QED
      BY <1>1, <3>1
  <2>3. \A t \in S \ {b} : H!Before(b, t)
    BY <2>1, <2>2 DEF H!Before, Ordered
  <2> QED
    BY <2>3
<1> QED
  BY <1>2, <1>3 DEF H!Newest, H!Oldest

\* There is one last row.
LEMMA NewestIs ==
    ASSUME NEW S, NEW n, Ordered(S, n), NEW s \in S, \A t \in S \ {s} : H!Before(t, s)
    PROVE  H!Newest(S) = s
<1>1. H!Newest(S) \in S /\ \A t \in S \ {H!Newest(S)} : H!Before(t, H!Newest(S))
  BY EndsOfRows
<1>2. \A x \in S, y \in S : ~(H!Before(x, y) /\ H!Before(y, x))
  BY DEF H!Before, Ordered
<1> QED
  BY <1>1, <1>2

\* How many rows are behind a row is its place from the end: every place is taken
\* once.
LEMMA PlacesOfRows ==
    ASSUME NEW S, NEW n, Ordered(S, n)
    PROVE  /\ IsFiniteSet(S) /\ Cardinality(S) \in Nat
           /\ \A s \in S : H!Newer(S, s) \in 0..Cardinality(S) - 1
           /\ \A s, t \in S : H!Before(s, t)
                                <=> H!Newer(S, t) < H!Newer(S, s)
           /\ \A k \in 0..Cardinality(S) - 1 : \E s \in S : H!Newer(S, s) = k
           /\ \A s, t \in S : H!Newer(S, s) = H!Newer(S, t) => s = t
<1> DEFINE Behind(s) == {t \in S : H!Before(s, t)}
           place(s) == Cardinality(Behind(s))
           N == Cardinality(S)
<1>0. \A s : H!Newer(S, s) = place(s)
  BY DEF H!Newer, H!Cardinality, Cardinality
<1>1. IsFiniteSet(S) /\ N \in Nat
  <2> DEFINE f == [s \in S |-> s.id]
  <2>1. f \in Injection(S, 0..n)
    BY DEF Ordered, Injection, IsInjective
  <2>2. IsFiniteSet(0..n)
    BY FS_Interval DEF Ordered
  <2> HIDE DEF f
  <2>3. IsFiniteSet(S)
    BY <2>1, <2>2, FS_Injection
  <2> QED
    BY <2>3, FS_CardinalityType
<1>2. \A s \in S : IsFiniteSet(Behind(s)) /\ place(s) \in 0..N - 1
  <2> SUFFICES ASSUME NEW s \in S
               PROVE  IsFiniteSet(Behind(s)) /\ place(s) \in 0..N - 1
    OBVIOUS
  <2>1. Behind(s) \in SUBSET (S \ {s})
    BY DEF H!Before, Ordered
  <2>2. IsFiniteSet(S \ {s}) /\ Cardinality(S \ {s}) = N - 1
    BY <1>1, FS_RemoveElement
  <2>3. IsFiniteSet(Behind(s)) /\ place(s) <= N - 1
    <3> DEFINE R == S \ {s}
    <3> HIDE DEF R
    <3>1. IsFiniteSet(Behind(s)) /\ place(s) <= Cardinality(R)
      BY <2>1, <2>2, FS_Subset DEF R
    <3> QED
      BY <2>2, <3>1 DEF R
  <2>4. place(s) \in Nat
    BY <2>3, FS_CardinalityType
  <2> QED
    BY <1>1, <2>3, <2>4
<1>3. ASSUME NEW s \in S, NEW t \in S, H!Before(s, t)
      PROVE  place(t) < place(s)
  <2>1. Behind(t) \in SUBSET Behind(s)
    BY <1>3 DEF H!Before, Ordered
  <2>2. t \in Behind(s) /\ t \notin Behind(t)
    BY <1>3 DEF H!Before, Ordered
  <2>3. place(t) <= place(s) /\ place(t) # place(s)
    BY <1>2, <2>1, <2>2, FS_Subset
  <2> QED
    BY <1>2, <2>3
<1> HIDE DEF Behind
<1>4. \A s, t \in S : s = t \/ H!Before(s, t) \/ H!Before(t, s)
  BY DEF H!Before, Ordered
<1>5. \A s, t \in S : place(s) = place(t) => s = t
  BY <1>2, <1>3, <1>4
<1>6. \A s, t \in S : H!Before(s, t) <=> place(t) < place(s)
  BY <1>2, <1>3, <1>4
<1>7. \A k \in 0..N - 1 : \E s \in S : place(s) = k
  <2> DEFINE f == [s \in S |-> place(s)]
  <2>1. f \in Injection(S, 0..N - 1)
    <3> HIDE DEF place
    <3>1. f \in [S -> 0..N - 1]
      BY <1>2
    <3> QED
      BY <1>5, <3>1 DEF Injection, IsInjective
  <2>2. IsFiniteSet(0..N - 1) /\ Cardinality(0..N - 1) = N
    <3>1. IsFiniteSet(0..N - 1) /\ Cardinality(0..N - 1) = IF 0 > N - 1 THEN 0 ELSE N - 1 - 0 + 1
      BY <1>1, FS_Interval
    <3> QED
      BY <1>1, <3>1
  <2> HIDE DEF f
  <2>3. f \in Surjection(S, 0..N - 1)
    <3> DEFINE T == 0..N - 1
    <3> HIDE DEF T
    <3> QED
      BY <2>1, <2>2, FS_Injection DEF T
  <2> QED
    BY <2>3 DEF Surjection, f
<1> QED
  BY <1>0, <1>1, <1>2, <1>5, <1>6, <1>7

\* A history is its rows, each once, oldest first.
LEMMA OldestFirstSorts ==
    ASSUME NEW S, NEW n, Ordered(S, n)
    PROVE  LET h == H!OldestFirst(S) IN
           /\ Len(h) = Cardinality(S) /\ DOMAIN h = 1..Len(h)
           /\ H!ToSet(h) = S
           /\ \A i, j \in 1..Len(h) : H!Before(h[i], h[j]) <=> i < j
<1> DEFINE N == Cardinality(S)
           At(i) == CHOOSE s \in S : H!Newer(S, s) = N - i
           h == [i \in 1..N |-> At(i)]
<1>1. H!OldestFirst(S) = h
  <2>1. H!Cardinality(S) = N
    BY DEF H!Cardinality, Cardinality
  <2> QED
    BY <2>1 DEF H!OldestFirst
<1>2. N \in Nat /\ Len(h) = N
  BY PlacesOfRows
<1>3. \A i \in 1..N : At(i) \in S /\ H!Newer(S, At(i)) = N - i
  <2> SUFFICES ASSUME NEW i \in 1..N
               PROVE  \E s \in S : H!Newer(S, s) = N - i
    OBVIOUS
  <2>1. N - i \in 0..N - 1
    BY <1>2
  <2> QED
    BY <2>1, PlacesOfRows
<1>4. \A i, j \in 1..N : H!Before(At(i), At(j)) <=> i < j
  <2> SUFFICES ASSUME NEW i \in 1..N, NEW j \in 1..N
               PROVE  H!Before(At(i), At(j)) <=> i < j
    OBVIOUS
  <2>1. H!Before(At(i), At(j)) <=> N - j < N - i
    <3>1. /\ At(i) \in S /\ At(j) \in S
          /\ H!Newer(S, At(i)) = N - i /\ H!Newer(S, At(j)) = N - j
      BY <1>3
    <3> HIDE DEF At
    <3>2. H!Before(At(i), At(j)) <=> H!Newer(S, At(j)) < H!Newer(S, At(i))
      BY <3>1, PlacesOfRows
    <3> QED
      BY <3>1, <3>2
  <2> QED
    BY <1>2, <2>1
<1>5. \A s \in S : \E i \in 1..N : At(i) = s
  <2> SUFFICES ASSUME NEW s \in S
               PROVE  \E i \in 1..N : At(i) = s
    OBVIOUS
  <2> DEFINE i == N - H!Newer(S, s)
  <2>1. H!Newer(S, s) \in 0..N - 1
    BY PlacesOfRows
  <2>2. i \in 1..N /\ N - i = H!Newer(S, s)
    BY <1>2, <2>1
  <2>3. At(i) \in S /\ H!Newer(S, At(i)) = H!Newer(S, s)
    BY <1>3, <2>2
  <2> HIDE DEF At, i
  <2>4. At(i) = s
    BY <2>3, PlacesOfRows
  <2> QED
    BY <2>2, <2>4
<1> HIDE DEF At
<1>6. DOMAIN h = 1..N /\ \A i \in 1..N : h[i] = At(i)
  OBVIOUS
<1> HIDE DEF h
<1>7. H!ToSet(h) = S
  BY <1>3, <1>5, <1>6 DEF H!ToSet
<1> QED
  BY <1>1, <1>2, <1>4, <1>6, <1>7

\* A limit leaves the newest rows, and less than the limit of them only if it
\* leaves all.
LEMMA LimitLeavesTheNewest ==
    ASSUME NEW S, NEW n, Ordered(S, n), NEW limit \in Nat \ {0}
    PROVE  LET L == H!NewestFirst(S, limit) IN
           /\ L \subseteq S /\ Ordered(L, n)
           /\ \A s \in L, t \in S : H!Before(s, t) => t \in L
           /\ \A s \in S \ L, t \in L : H!Before(s, t)
           /\ S \ L # {} => Cardinality(L) = limit
<1> DEFINE L == H!NewestFirst(S, limit)
           N == Cardinality(S)
<1>1. L \subseteq S /\ \A s \in S : s \in L <=> H!Newer(S, s) < limit
  BY DEF H!NewestFirst
<1> HIDE DEF L
<1>2. Ordered(L, n)
  BY <1>1 DEF Ordered
<1>3. /\ N \in Nat
      /\ \A s \in S : H!Newer(S, s) \in 0..N - 1
      /\ \A s, t \in S : H!Before(s, t) <=> H!Newer(S, t) < H!Newer(S, s)
      /\ \A k \in 0..N - 1 : \E s \in S : H!Newer(S, s) = k
      /\ \A s, t \in S : H!Newer(S, s) = H!Newer(S, t) => s = t
  BY PlacesOfRows
<1>4. \A s \in L, t \in S : H!Before(s, t) => t \in L
  BY <1>1, <1>3
<1>5. \A s \in S \ L, t \in L : H!Before(s, t)
  BY <1>1, <1>3
<1>6. ASSUME NEW s \in S \ L
      PROVE  Cardinality(L) = limit
  <2> DEFINE f == [t \in L |-> H!Newer(S, t)]
             D == 0..limit - 1
  <2>1. limit <= N - 1
    BY <1>1, <1>3
  <2>2. \A t \in L : H!Newer(S, t) \in D
    BY <1>1, <1>3
  <2>3. \A k \in D : \E t \in L : H!Newer(S, t) = k
    BY <1>1, <1>3, <2>1
  <2>4. IsFiniteSet(D) /\ Cardinality(D) = limit
    <3>1. IsFiniteSet(0..limit - 1)
          /\ Cardinality(0..limit - 1) = IF 0 > limit - 1 THEN 0 ELSE limit - 1 - 0 + 1
      BY FS_Interval
    <3> QED
      BY <3>1
  <2> HIDE DEF D
  <2>5. f \in Injection(L, D) /\ f \in Surjection(L, D)
    BY <1>1, <1>3, <2>2, <2>3 DEF Injection, IsInjective, Surjection
  <2> HIDE DEF f
  <2> QED
    BY <2>4, <2>5, FS_Injection
<1> QED
  BY <1>1, <1>2, <1>4, <1>5, <1>6 DEF L

\* A value that was stored is stored as it is.
LEMMA StoredValues ==
    ASSUME H!SnapshotHistoryAssumption
    PROVE  /\ \A v \in Values : v \in Nat /\ H!Numeric(v) \in H!Stored
           /\ \A x \in H!Stored : x \in Nat /\ x # None /\ H!Numeric(x) = x
<1>1. \A v \in Nat : H!Numeric(v) \in Nat /\ H!Numeric(H!Numeric(v)) = H!Numeric(v)
  BY DEF H!Numeric
<1>2. Values \subseteq Nat /\ None \notin Nat
  BY DEF H!SnapshotHistoryAssumption
<1> QED
  BY <1>1, <1>2 DEF H!Stored

\* What the invariant says of one character's rows: the order of the queries is that
\* of the ids.
LEMMA RowsAre ==
    ASSUME H!SnapshotHistoryAssumption, H!TypeOK, NEW c \in Characters
    PROVE  /\ rows[c] \subseteq H!Snapshots
           /\ nextId \in Nat /\ clock \in Nat /\ Ordered(rows[c], nextId + clock)
           /\ \A s \in rows[c] : s.id \in Nat /\ s.id < nextId /\ s.at \in Nat /\ s.at <= clock
           /\ \A s \in rows[c] : s.value \in H!Stored /\ s.raids \in BOOLEAN
           /\ \A s, t \in rows[c] : H!Before(s, t) <=> s.id < t.id
           /\ \A s, t \in rows[c] : s.id < t.id => s.at <= t.at
<1>1. /\ rows[c] \subseteq H!Snapshots
      /\ nextId \in Nat /\ clock \in Nat
      /\ \A s, t \in rows[c] : s.id = t.id => s = t
      /\ \A s, t \in rows[c] : s.id < t.id => s.at <= t.at
      /\ \A s \in H!Snapshots : s.id \in 1..nextId - 1 /\ s.at \in 0..clock
      /\ \A s \in H!Snapshots : s.value \in H!Stored /\ s.raids \in BOOLEAN
  BY DEF H!TypeOK, H!Snapshots, H!SnapshotHistoryAssumption
<1>2. /\ nextId + clock \in Nat
      /\ \A s \in rows[c] : s.id \in 0..nextId + clock /\ s.at \in 0..nextId + clock
  BY <1>1
<1>3. \A s \in rows[c] : s.id \in Nat /\ s.id < nextId /\ s.at \in Nat /\ s.at <= clock
  BY <1>1
<1>4. \A s, t \in rows[c] : H!Before(s, t) <=> s.id < t.id
  BY <1>1, <1>3 DEF H!Before
<1> QED
  BY <1>1, <1>2, <1>3, <1>4 DEF Ordered

LEMMA InitHistory ==
    ASSUME H!SnapshotHistoryAssumption, H!Init
    PROVE  SnapshotsInv
<1>1. H!NoCapture \in H!Captures
  BY DEF H!NoCapture, H!NoRow, H!Captures, H!Rows, H!SnapshotHistoryAssumption
<1>2. H!TypeOK
  BY <1>1 DEF H!TypeOK, H!Init, H!SnapshotHistoryAssumption
<1>3. H!RowsAreSightings /\ H!CaptureKnows
  BY DEF H!Init, H!RowsAreSightings, H!CaptureKnows
<1> QED
  BY <1>2, <1>3 DEF SnapshotsInv

\* Sweeping leaves the last row of what it leaves.
LEMMA SweepLeavesTheLast ==
    ASSUME NEW S, NEW n, Ordered(S, n), NEW cutoff \in Int, {s \in S : s.at >= cutoff} # {}
    PROVE  S # {} /\ H!Newest({s \in S : s.at >= cutoff}) = H!Newest(S)
<1> DEFINE L == {s \in S : s.at >= cutoff}
           x == H!Newest(S)
<1>1. x \in S /\ \A t \in S \ {x} : H!Before(t, x)
  BY EndsOfRows
<1>2. PICK y \in L : TRUE
  OBVIOUS
<1>3. x.at >= y.at
  BY <1>1 DEF H!Before, Ordered
<1>4. x \in L
  BY <1>1, <1>2, <1>3 DEF Ordered
<1>5. Ordered(L, n)
  BY DEF Ordered
<1> HIDE DEF x
<1>6. \A t \in L \ {x} : H!Before(t, x)
  BY <1>1
<1>7. H!Newest(L) = x
  <2> HIDE DEF L
  <2> QED
    BY <1>4, <1>5, <1>6, NewestIs
<1> QED
  BY <1>2, <1>7 DEF x

LEMMA CaptureKeepsHistory ==
    ASSUME H!SnapshotHistoryAssumption, SnapshotsInv,
           NEW c \in Characters, NEW v \in Values, NEW b \in BOOLEAN, H!Capture(c, v, b)
    PROVE  SnapshotsInv'
<1> USE DEF SnapshotsInv
<1>1. H!LastSnapshot(c) \in H!Rows
  <2>1. CASE rows[c] = {}
    BY <2>1 DEF H!LastSnapshot, H!NoRow, H!Rows
  <2>2. CASE rows[c] # {}
    <3>1. H!Newest(rows[c]) \in H!Snapshots
      BY <2>2, RowsAre, EndsOfRows
    <3>2. \A s \in H!Snapshots : H!Row(s) \in H!Rows
      BY DEF H!Snapshots, H!Row, H!Rows
    <3> QED
      BY <2>2, <3>1, <3>2 DEF H!LastSnapshot
  <2> QED
    BY <2>1, <2>2
<1> DEFINE k == [at |-> clock, next |-> [value |-> v, raids |-> b], last |-> H!LastSnapshot(c)]
<1>2. k \in H!Captures
  <2>1. clock \in 0..MaxTime
    BY DEF H!TypeOK
  <2>2. [value |-> v, raids |-> b] \in H!Rows
    BY DEF H!Rows
  <2> QED
    BY <1>1, <2>1, <2>2 DEF H!Captures
<1>3. k.at = clock /\ k.next.value = v /\ k.last = H!LastSnapshot(c)
  OBVIOUS
<1> HIDE DEF k
<1>4. /\ capture' = [capture EXCEPT ![c] = k]
      /\ UNCHANGED <<clock, rows, nextId, seen>>
  BY DEF H!Capture, k
<1>5. H!TypeOK'
  BY <1>2, <1>4 DEF H!TypeOK, H!Snapshots, H!Captures, H!Rows, H!Sightings, H!Stored
<1>6. H!RowsAreSightings'
  BY <1>4 DEF H!RowsAreSightings, H!Sighted, H!Numeric
<1>7. H!CaptureKnows'
  <2>1. \A s \in rows[c] : s.at <= clock
    BY RowsAre DEF H!Snapshots
  <2>2. clock <= clock
    BY DEF H!TypeOK
  <2>3. rows[c] # {} => k.last = H!Row(H!Newest(rows[c]))
    BY <1>3 DEF H!LastSnapshot
  <2>4. \A x \in Characters : capture'[x] = IF x = c THEN k ELSE capture[x]
    BY <1>4 DEF H!TypeOK
  <2> QED
    BY <1>3, <1>4, <2>1, <2>2, <2>3, <2>4 DEF H!CaptureKnows, H!Row
<1> QED
  BY <1>5, <1>6, <1>7

LEMMA CaptureFailsKeepsHistory ==
    ASSUME H!SnapshotHistoryAssumption, SnapshotsInv, NEW c \in Characters, H!CaptureFails(c)
    PROVE  SnapshotsInv'
<1> USE DEF SnapshotsInv
<1>1. H!NoCapture \in H!Captures
  BY DEF H!NoCapture, H!NoRow, H!Captures, H!Rows, H!SnapshotHistoryAssumption
<1>2. /\ capture' = [capture EXCEPT ![c] = H!NoCapture]
      /\ UNCHANGED <<clock, rows, nextId, seen>>
  BY DEF H!CaptureFails
<1>3. H!TypeOK'
  BY <1>1, <1>2 DEF H!TypeOK, H!Snapshots, H!Captures, H!Rows, H!Sightings, H!Stored
<1>4. H!RowsAreSightings'
  BY <1>2 DEF H!RowsAreSightings, H!Sighted, H!Numeric
<1>5. H!CaptureKnows'
  <2>1. \A x \in Characters : capture'[x] = IF x = c THEN H!NoCapture ELSE capture[x]
    BY <1>2 DEF H!TypeOK
  <2> QED
    BY <1>2, <2>1 DEF H!CaptureKnows, H!Row, H!NoCapture, H!NoRow
<1> QED
  BY <1>3, <1>4, <1>5

LEMMA SweepKeepsHistory ==
    ASSUME H!SnapshotHistoryAssumption, SnapshotsInv, H!Sweep
    PROVE  SnapshotsInv'
<1> USE DEF SnapshotsInv
<1> DEFINE cutoff == clock - Retention
           Left(c) == {s \in rows[c] : s.at >= cutoff}
<1>1. /\ rows' = [c \in Characters |-> Left(c)]
      /\ UNCHANGED <<clock, capture, nextId, seen>>
      /\ cutoff \in Int
  BY DEF H!Sweep, H!DeleteSnapshotsBefore, H!TypeOK, H!SnapshotHistoryAssumption
<1>2. \A c \in Characters : Left(c) # {} => rows[c] # {} /\ H!Newest(Left(c)) = H!Newest(rows[c])
  BY <1>1, RowsAre, SweepLeavesTheLast
<1>3. \A c \in Characters :
         /\ rows'[c] \subseteq rows[c] /\ rows'[c] = Left(c)
         /\ \A s \in rows[c] : s \in rows'[c] <=> s.at >= cutoff
  BY <1>1
<1> HIDE DEF Left, cutoff
<1>4. H!TypeOK'
  <2>1. \A c \in Characters : rows[c] \subseteq H!Snapshots
    BY RowsAre
  <2>2. rows' \in [Characters -> SUBSET H!Snapshots]
    BY <1>1, <1>3, <2>1
  <2> QED
    BY <1>1, <1>3, <2>2 DEF H!TypeOK, H!Snapshots, H!Captures, H!Rows, H!Sightings, H!Stored
<1>5. H!RowsAreSightings'
  <2> SUFFICES ASSUME NEW c \in Characters, NEW s \in rows'[c]
               PROVE  H!Sighted(c, s)' = H!Sighted(c, s)
    BY <1>1, <1>3 DEF H!RowsAreSightings, H!Numeric
  <2>1. \A r \in rows[c] : r.id > s.id => r \in rows'[c]
    BY <1>1, <1>3, RowsAre
  <2> QED
    BY <1>1, <1>3, <2>1, RowsAre DEF H!Sighted
<1>6. H!CaptureKnows'
  BY <1>1, <1>2, <1>3 DEF H!CaptureKnows, H!Row, H!NoCapture, H!NoRow
<1> QED
  BY <1>4, <1>5, <1>6

LEMMA TickKeepsHistory ==
    ASSUME H!SnapshotHistoryAssumption, SnapshotsInv, H!Tick
    PROVE  SnapshotsInv'
<1> USE DEF SnapshotsInv
<1>1. clock < MaxTime /\ clock' = clock + 1 /\ UNCHANGED <<rows, capture, nextId, seen>>
  BY DEF H!Tick
<1>2. H!TypeOK'
  <2>1. clock' \in 0..MaxTime /\ 0..clock \subseteq 0..clock + 1
    BY <1>1 DEF H!TypeOK, H!SnapshotHistoryAssumption
  <2>2. H!Snapshots \subseteq H!Snapshots'
    BY <1>1, <2>1 DEF H!Snapshots
  <2>3. rows' \in [Characters -> SUBSET H!Snapshots']
    BY <1>1, <2>2 DEF H!TypeOK
  <2> QED
    BY <1>1, <2>1, <2>3 DEF H!TypeOK, H!Captures, H!Rows, H!Sightings, H!Stored
<1>3. H!RowsAreSightings'
  BY <1>1 DEF H!RowsAreSightings, H!Sighted, H!Numeric
<1>4. H!CaptureKnows'
  <2>1. \A c \in Characters : capture[c].at <= clock => capture[c].at <= clock + 1
    BY DEF H!TypeOK, H!Captures
  <2> QED
    BY <1>1, <2>1 DEF H!CaptureKnows, H!Row, H!NoCapture, H!NoRow
<1> QED
  BY <1>2, <1>3, <1>4

\* The one action that adds a row, and the one that has seen a value.
LEMMA InsertKeepsHistory ==
    ASSUME H!SnapshotHistoryAssumption, SnapshotsInv, NEW c \in Characters, H!InsertSnapshot(c)
    PROVE  SnapshotsInv'
<1> USE DEF SnapshotsInv
<1> DEFINE k == capture[c]
           new == [id |-> nextId, at |-> k.at, value |-> H!Numeric(k.next.value),
                   raids |-> k.next.raids]
           sight == [value |-> k.next.value, before |-> nextId']
<1>1. /\ k # H!NoCapture /\ k \in H!Captures
      /\ k.next.value \in Values /\ k.next.raids \in BOOLEAN
      /\ \A s \in rows[c] : s.at <= k.at
      /\ k.at <= clock /\ k.at \in Nat
      /\ rows[c] # {} => k.last = H!Row(H!Newest(rows[c]))
  <2>1. k # H!NoCapture /\ k \in H!Captures
    BY DEF H!InsertSnapshot, H!TypeOK
  <2>2. k.at \in Nat /\ k.next.raids \in BOOLEAN
    BY <2>1 DEF H!Captures, H!Rows, H!SnapshotHistoryAssumption
  <2> QED
    BY <2>1, <2>2 DEF H!CaptureKnows, H!Row
<1>2. /\ seen' = [seen EXCEPT ![c] = @ \cup {sight}]
      /\ capture' = [capture EXCEPT ![c] = H!NoCapture] /\ UNCHANGED clock
  BY DEF H!InsertSnapshot
<1>3. nextId \in Nat \ {0} /\ nextId' \in Nat \ {0} /\ (nextId' = nextId \/ nextId' = nextId + 1)
      /\ nextId' \in 1..MaxSnapshots + 1
  BY DEF H!InsertSnapshot, H!TypeOK, H!SnapshotHistoryAssumption
<1>4. sight.value = k.next.value /\ sight.before = nextId' /\ sight \in H!Sightings'
  <2>1. k.next.value \in Values /\ nextId' \in 1..nextId'
    BY <1>1, <1>3
  <2> QED
    BY <2>1 DEF H!Sightings
<1>5. /\ seen' \in [Characters -> SUBSET H!Sightings']
      /\ \A x \in Characters : seen'[x] = IF x = c THEN seen[x] \cup {sight} ELSE seen[x]
      /\ \A x \in Characters : \A g \in seen[x] : g.before \in Nat /\ g.before <= nextId
  <2> HIDE DEF sight
  <2>1. seen \in [Characters -> SUBSET H!Sightings]
    BY DEF H!TypeOK
  <2>2. 1..nextId \subseteq 1..nextId'
    BY <1>3
  <2>3. H!Sightings \subseteq H!Sightings'
    BY <2>2 DEF H!Sightings
  <2>4. \A g \in H!Sightings : g.before \in Nat /\ g.before <= nextId
    BY <1>3 DEF H!Sightings
  <2> QED
    BY <1>2, <1>4, <2>1, <2>3, <2>4
<1>6. /\ capture' \in [Characters -> H!Captures]
      /\ \A x \in Characters : capture'[x] = IF x = c THEN H!NoCapture ELSE capture[x]
  <2>1. H!NoCapture \in H!Captures
    BY DEF H!NoCapture, H!NoRow, H!Captures, H!Rows, H!SnapshotHistoryAssumption
  <2> QED
    BY <1>2, <2>1 DEF H!TypeOK
<1>7. H!Captures' = H!Captures
  BY DEF H!Captures, H!Rows, H!Stored, H!Numeric
<1>8. CASE H!SnapshotChanged(c)
  <2>1. /\ nextId <= MaxSnapshots /\ nextId' = nextId + 1
        /\ rows' = [rows EXCEPT ![c] = @ \cup {new}]
    BY <1>8 DEF H!InsertSnapshot, H!Id
  <2>2. new.id = nextId /\ new.at = k.at /\ new.value = H!Numeric(k.next.value)
    OBVIOUS
  <2>3. new \in H!Snapshots' /\ H!Snapshots \subseteq H!Snapshots'
    <3> DEFINE v == H!Numeric(k.next.value)
               b == k.next.raids
    <3>1. /\ v \in H!Stored /\ b \in BOOLEAN /\ k.at \in 0..clock' /\ nextId \in 1..nextId' - 1
          /\ 1..nextId - 1 \subseteq 1..nextId' - 1
      <4>1. v \in H!Stored
        BY <1>1, StoredValues
      <4>2. clock' = clock /\ clock \in Nat
        BY <1>2, RowsAre
      <4> HIDE DEF v
      <4> QED
        BY <1>1, <1>3, <2>1, <4>1, <4>2
    <3>2. new = [id |-> nextId, at |-> k.at, value |-> v, raids |-> b]
      OBVIOUS
    <3>3. H!Stored' = H!Stored /\ clock' = clock
      BY <1>2 DEF H!Stored, H!Numeric
    <3> HIDE DEF new, v, b, k
    <3> QED
      BY <3>1, <3>2, <3>3 DEF H!Snapshots
  <2>4. \A x \in Characters : rows'[x] = IF x = c THEN rows[x] \cup {new} ELSE rows[x]
    BY <2>1 DEF H!TypeOK
  <2> HIDE DEF new, k, sight
  <2>5. \A s \in rows[c] : s.id < new.id /\ s.id # new.id /\ s.at <= new.at
                            /\ ~(new.id < s.id)
    BY <1>1, <1>3, <2>2, RowsAre
  <2>6. H!TypeOK'
    <3>1. \A x \in Characters : rows[x] \subseteq H!Snapshots
      BY RowsAre
    <3>2. rows' \in [Characters -> SUBSET H!Snapshots']
      BY <2>1, <2>3, <3>1 DEF H!TypeOK
    <3>3. ASSUME NEW x \in Characters, NEW s \in rows'[x], NEW t \in rows'[x]
          PROVE  (s.id = t.id => s = t) /\ (s.id < t.id => s.at <= t.at)
      <4>1. \A y, z \in rows[x] : (y.id = z.id => y = z) /\ (y.id < z.id => y.at <= z.at)
        BY DEF H!TypeOK
      <4>2. CASE x # c
        BY <2>4, <3>3, <4>1, <4>2
      <4>3. CASE x = c
        <5>1. s \in rows[x] \cup {new} /\ t \in rows[x] \cup {new}
          BY <2>4, <4>3
        <5>2. ~(new.id < new.id)
          BY <1>3, <2>2
        <5> QED
          BY <2>5, <4>1, <4>3, <5>1, <5>2
      <4> QED
        BY <4>2, <4>3
    <3> QED
      BY <1>2, <1>3, <1>5, <1>6, <1>7, <3>2, <3>3 DEF H!TypeOK
  <2>7. H!RowsAreSightings'
    <3> SUFFICES ASSUME NEW x \in Characters, NEW s \in rows'[x]
                 PROVE  /\ H!Sighted(x, s)' # {}
                        /\ \A g \in H!Sighted(x, s)' : H!Numeric(g.value) = s.value
      BY DEF H!RowsAreSightings, H!Numeric
    <3>1. \A g : g \in H!Sighted(x, s)'
                   <=> /\ g \in seen'[x] /\ s.id < g.before
                       /\ \A r \in rows'[x] : r.id < g.before => r.id <= s.id
      BY DEF H!Sighted
    <3>2. CASE x = c /\ s = new
      <4>1. nextId \in Nat /\ nextId' = nextId + 1 /\ new.id = nextId
        BY <1>3, <2>1, <2>2
      <4>2. \A r \in rows'[x] : r.id <= new.id
        <5>1. rows'[x] = rows[c] \cup {new}
          BY <2>4, <3>2
        <5>2. \A r \in rows[c] : r.id <= new.id
          <6> SUFFICES ASSUME NEW r \in rows[c]
                       PROVE  r.id <= new.id
            OBVIOUS
          <6>1. r.id \in Nat
            BY RowsAre
          <6>2. r.id < new.id
            BY <2>5
          <6> QED
            BY <4>1, <6>1, <6>2
        <5> QED
          BY <4>1, <5>1, <5>2
      <4>3. sight \in H!Sighted(x, s)'
        BY <1>4, <1>5, <3>1, <3>2, <4>1, <4>2
      <4>4. \A g \in H!Sighted(x, s)' : g = sight
        BY <1>5, <3>1, <3>2, <4>1
      <4> QED
        BY <1>4, <2>2, <3>2, <4>3, <4>4
    <3>3. CASE ~(x = c /\ s = new)
      <4>1. s \in rows[x] /\ s.id \in Nat /\ s.id < nextId
        BY <2>4, <3>3, RowsAre
      <4>2. \A g \in seen[x] : g \in H!Sighted(x, s)' <=> g \in H!Sighted(x, s)
        <5>1. \A g \in seen[x] : ~(new.id < g.before)
          BY <1>3, <1>5, <2>2
        <5> QED
          BY <1>5, <2>4, <3>1, <5>1 DEF H!Sighted
      <4>3. ASSUME NEW g \in H!Sighted(x, s)', g \notin seen[x]
            PROVE  FALSE
        <5>1. x = c /\ g = sight
          BY <1>5, <3>1, <4>3
        <5>2. new \in rows'[x] /\ new.id = nextId /\ g.before = nextId + 1
          BY <1>4, <2>1, <2>2, <2>4, <5>1
        <5> QED
          BY <1>3, <3>1, <4>1, <4>3, <5>2
      <4>4. H!Sighted(x, s)' = H!Sighted(x, s)
        <5>1. H!Sighted(x, s) \subseteq seen[x]
          BY DEF H!Sighted
        <5> QED
          BY <4>2, <4>3, <5>1
      <4> QED
        BY <4>1, <4>4 DEF H!RowsAreSightings
    <3> QED
      BY <3>2, <3>3
  <2>8. H!CaptureKnows'
    BY <1>2, <1>6, <2>4 DEF H!CaptureKnows, H!Row, H!NoCapture, H!NoRow
  <2> QED
    BY <2>6, <2>7, <2>8
<1>9. CASE ~H!SnapshotChanged(c)
  <2>1. UNCHANGED <<rows, nextId>> /\ k.last = k.next
    BY <1>9 DEF H!InsertSnapshot, H!SnapshotChanged
  <2> HIDE DEF new, k, sight
  <2>2. H!TypeOK'
    BY <1>2, <1>5, <1>6, <1>7, <2>1 DEF H!TypeOK, H!Snapshots, H!Stored, H!Numeric
  <2>3. H!RowsAreSightings'
    <3> SUFFICES ASSUME NEW x \in Characters, NEW s \in rows[x]
                 PROVE  /\ H!Sighted(x, s)' # {}
                        /\ \A g \in H!Sighted(x, s)' : H!Numeric(g.value) = s.value
      BY <2>1 DEF H!RowsAreSightings, H!Numeric
    <3>1. H!Sighted(x, s) # {} /\ \A g \in H!Sighted(x, s) : H!Numeric(g.value) = s.value
      BY DEF H!RowsAreSightings
    <3>2. \A g \in seen[x] : g \in H!Sighted(x, s)' <=> g \in H!Sighted(x, s)
      BY <1>5, <2>1 DEF H!Sighted
    <3>3. H!Sighted(x, s) \subseteq seen[x] /\ H!Sighted(x, s)' \subseteq seen'[x]
      BY DEF H!Sighted
    <3>4. ASSUME NEW g \in H!Sighted(x, s)', g \notin seen[x]
          PROVE  H!Numeric(g.value) = s.value
      <4>1. x = c /\ g = sight
        BY <1>5, <3>3, <3>4
      <4>2. \A t \in rows[c] : t.id <= s.id
        <5>1. \A t \in rows[c] : t.id < nextId
          BY RowsAre
        <5> QED
          BY <1>4, <2>1, <3>4, <4>1, <5>1 DEF H!Sighted
      <4>3. s = H!Newest(rows[c])
        <5>1. Ordered(rows[c], nextId + clock)
          BY RowsAre
        <5>2. \A t \in rows[c] \ {s} : H!Before(t, s)
          BY <4>1, <4>2, RowsAre DEF H!TypeOK
        <5> QED
          BY <4>1, <5>1, <5>2, NewestIs
      <4>4. k.next = H!Row(s)
        BY <1>1, <2>1, <4>1, <4>3
      <4>5. k.next.value = s.value /\ s.value \in H!Stored
        BY <4>1, <4>4, RowsAre DEF H!Row
      <4> QED
        BY <1>4, <4>1, <4>5, StoredValues
    <3> QED
      BY <3>1, <3>2, <3>3, <3>4
  <2>4. H!CaptureKnows'
    BY <1>2, <1>6, <2>1 DEF H!CaptureKnows, H!Row, H!NoCapture, H!NoRow
  <2> QED
    BY <2>2, <2>3, <2>4
<1> QED
  BY <1>8, <1>9

\* Each stored snapshot is what the captures until the next one saw.
THEOREM HistoryInvariance == H!Spec => []SnapshotsInv
<1>1. ASSUME H!Init
      PROVE  SnapshotsInv
  BY <1>1, HistoryAssumption, InitHistory
<1>2. ASSUME SnapshotsInv, [H!Next]_H!vars
      PROVE  SnapshotsInv'
  <2>1. CASE UNCHANGED H!vars
    BY <1>2, <2>1 DEF H!vars, SnapshotsInv, H!TypeOK, H!Snapshots, H!Captures, H!Rows,
       H!RowsAreSightings, H!Sighted, H!Sightings, H!Stored, H!Numeric, H!CaptureKnows, H!Row,
       H!NoCapture, H!NoRow
  <2>2. CASE H!Next
    BY <1>2, <2>2, HistoryAssumption, CaptureKeepsHistory, InsertKeepsHistory,
       CaptureFailsKeepsHistory, SweepKeepsHistory, TickKeepsHistory DEF H!Next
  <2> QED
    BY <1>2, <2>1, <2>2
<1> QED
  BY <1>1, <1>2, PTL DEF H!Spec

\* What the dashboard and the trends derive from snapshots is of the last capture.
THEOREM SummariesAreCurrent == H!Spec => []SummariesCurrent
<1>1. ASSUME SnapshotsInv
      PROVE  H!NotableIsCurrent
  <2> SUFFICES ASSUME NEW c \in Characters, H!Notable(c),
                      NEW k \in H!Sighted(c, H!Newest(rows[c]))
               PROVE  \E s \in rows[c] : s.at < clock - NotableAge /\ s.value < H!Numeric(k.value)
    BY DEF H!NotableIsCurrent
  <2> DEFINE W == {s \in rows[c] : clock - Recent <= s.at /\ s.at <= clock}
  <2>1. /\ Cardinality(W) > 1 /\ H!Oldest(W).at < clock - NotableAge
        /\ H!Newest(W).value > H!Oldest(W).value
    <3>1. H!Window(c, clock - Recent, clock) = W
      BY DEF H!Window
    <3>2. H!Cardinality(W) = Cardinality(W)
      BY DEF H!Cardinality, Cardinality
    <3> QED
      BY <3>1, <3>2 DEF H!Notable
  <2>2. W # {}
    <3>1. ASSUME W = {}
          PROVE  FALSE
      <4>1. Cardinality(W) = 0
        BY ONLY <3>1, FS_EmptySet
      <4> QED
        BY <2>1, <4>1
    <3> QED
      BY <3>1
  <2>3. /\ Ordered(rows[c], nextId + clock) /\ rows[c] \subseteq H!Snapshots
        /\ Recent \in Nat /\ clock \in Nat
    BY <1>1, HistoryAssumption, RowsAre DEF SnapshotsInv, H!SnapshotHistoryAssumption
  <2>4. W = {s \in rows[c] : s.at >= clock - Recent}
    BY <2>3 DEF H!Snapshots
  <2> HIDE DEF W
  <2>5. rows[c] # {} /\ H!Newest(W) = H!Newest(rows[c])
    BY <2>2, <2>3, <2>4, SweepLeavesTheLast
  <2>6. H!Oldest(W) \in rows[c]
    <3>1. Ordered(W, nextId + clock) /\ W \subseteq rows[c]
      BY <2>3, <2>4 DEF Ordered
    <3> QED
      BY <2>2, <3>1, EndsOfRows
  <2>7. H!Newest(rows[c]) \in rows[c]
    BY <2>3, <2>5, EndsOfRows
  <2>8. H!Numeric(k.value) = H!Newest(rows[c]).value
    BY <1>1, <2>7 DEF SnapshotsInv, H!RowsAreSightings
  <2>9. H!Oldest(W).value \in Nat /\ H!Newest(rows[c]).value \in Nat
    BY <1>1, <2>6, <2>7, HistoryAssumption, RowsAre, StoredValues DEF SnapshotsInv
  <2> QED
    BY <2>1, <2>5, <2>6, <2>8, <2>9
<1>2. ASSUME SnapshotsInv
      PROVE  H!TrendEndsCurrent
  <2> SUFFICES ASSUME NEW c \in Characters, rows[c] # {},
                      NEW k \in H!Sighted(c, H!Newest(rows[c]))
               PROVE  LET d == H!DayOf(H!Newest(rows[c])) IN
                      {x \in H!Representatives(d) : x.who = c}
                          = {[who |-> c, value |-> H!Numeric(k.value)]}
    BY DEF H!TrendEndsCurrent
  <2> DEFINE n == H!Newest(rows[c])
             d == H!DayOf(n)
             S == {s \in rows[c] : H!DayOf(s) = d}
             One(x) == [who |-> x, value |-> H!Newest({s \in rows[x] : H!DayOf(s) = d}).value]
  <2>1. /\ Ordered(rows[c], nextId + clock) /\ n \in rows[c]
        /\ \A t \in rows[c] \ {n} : H!Before(t, n)
    BY <1>2, HistoryAssumption, RowsAre, EndsOfRows DEF SnapshotsInv
  <2>2. H!Newest(S) = n
    <3>1. n \in S /\ S \subseteq rows[c]
      BY <2>1
    <3> HIDE DEF S, n
    <3>2. Ordered(S, nextId + clock) /\ \A t \in S \ {n} : H!Before(t, n)
      BY <2>1, <3>1 DEF Ordered
    <3> QED
      BY <3>1, <3>2, NewestIs
  <2>3. n.value = H!Numeric(k.value)
    BY <1>2, <2>1 DEF SnapshotsInv, H!RowsAreSightings
  <2>4. One(c) = [who |-> c, value |-> H!Numeric(k.value)]
    BY <2>2, <2>3
  <2>5. H!Representatives(d) = {One(x) : x \in {y \in Characters : \E s \in rows[y] : H!DayOf(s) = d}}
    BY DEF H!Representatives
  <2>6. c \in {y \in Characters : \E s \in rows[y] : H!DayOf(s) = d}
    BY <2>1
  <2>7. \A x : One(x).who = x
    OBVIOUS
  <2> HIDE DEF One, d
  <2>8. {x \in H!Representatives(d) : x.who = c} = {One(c)}
    BY <2>5, <2>6, <2>7
  <2> QED
    BY <2>4, <2>8 DEF d
<1>3. SnapshotsInv => SummariesCurrent
  BY <1>1, <1>2 DEF SummariesCurrent
<1>4. H!Spec => []SnapshotsInv
  BY HistoryInvariance
<1> QED
  BY <1>3, <1>4, PTL

\* What a range and a limit show of a character's rows.
LEMMA ShownRows ==
    ASSUME SnapshotsInv, NEW c \in Characters, NEW from \in 0..MaxTime, NEW to \in 0..MaxTime,
           NEW limit \in 1..MaxLimit
    PROVE  LET h == H!History(c, from, to, limit)
               W == H!Window(c, from, to) IN
           /\ Len(h) \in Nat /\ W \subseteq rows[c] /\ H!ToSet(h) \subseteq W
           /\ \A i \in 1..Len(h) : h[i] \in H!ToSet(h)
           /\ \A s \in H!ToSet(h) : \E i \in 1..Len(h) : h[i] = s
           /\ \A i, j \in 1..Len(h) : H!Before(h[i], h[j]) <=> i < j
           /\ \A s \in H!ToSet(h), t \in W : H!Before(s, t) => t \in H!ToSet(h)
           /\ \A s \in W \ H!ToSet(h), t \in H!ToSet(h) : H!Before(s, t)
           /\ W \ H!ToSet(h) # {} => Len(h) = limit
<1> DEFINE W == H!Window(c, from, to)
           L == H!NewestFirst(W, limit)
           h == H!OldestFirst(L)
<1>1. H!History(c, from, to, limit) = h
  BY DEF H!History
<1>2. W \subseteq rows[c]
  BY DEF H!Window
<1>3. Ordered(rows[c], nextId + clock) /\ limit \in Nat \ {0}
  BY HistoryAssumption, RowsAre DEF SnapshotsInv, H!SnapshotHistoryAssumption
<1> HIDE DEF W
<1>4. Ordered(W, nextId + clock)
  BY <1>2, <1>3 DEF Ordered
<1>5. /\ L \subseteq W /\ Ordered(L, nextId + clock)
      /\ \A s \in L, t \in W : H!Before(s, t) => t \in L
      /\ \A s \in W \ L, t \in L : H!Before(s, t)
      /\ W \ L # {} => Cardinality(L) = limit
  BY <1>3, <1>4, LimitLeavesTheNewest
<1> HIDE DEF L
<1>6. /\ Len(h) = Cardinality(L) /\ DOMAIN h = 1..Len(h) /\ H!ToSet(h) = L
      /\ \A i, j \in 1..Len(h) : H!Before(h[i], h[j]) <=> i < j
  BY <1>5, OldestFirstSorts
<1> HIDE DEF h
<1>7. Cardinality(L) \in Nat
  BY <1>5, PlacesOfRows
<1>8. /\ \A i \in 1..Len(h) : h[i] \in H!ToSet(h)
      /\ \A s \in H!ToSet(h) : \E i \in 1..Len(h) : h[i] = s
  BY <1>6 DEF H!ToSet
<1> QED
  BY <1>1, <1>2, <1>5, <1>6, <1>7, <1>8 DEF W

LEMMA HistoriesAreNewest ==
    ASSUME SnapshotsInv
    PROVE  H!HistoryIsNewest
<1> SUFFICES ASSUME NEW c \in Characters, NEW from \in 0..MaxTime, NEW to \in 0..MaxTime,
                    NEW limit \in 1..MaxLimit
             PROVE  LET h == H!History(c, from, to, limit)
                        W == H!Window(c, from, to) IN
                    /\ \A i \in 1..Len(h) - 1 : H!Before(h[i], h[i + 1])
                    /\ H!ToSet(h) \subseteq W
                    /\ \A s \in W \ H!ToSet(h) : Len(h) = limit /\ H!Before(s, h[1])
  BY DEF H!HistoryIsNewest
<1> DEFINE h == H!History(c, from, to, limit)
           W == H!Window(c, from, to)
<1>1. /\ Len(h) \in Nat /\ H!ToSet(h) \subseteq W
      /\ \A i \in 1..Len(h) : h[i] \in H!ToSet(h)
      /\ \A i, j \in 1..Len(h) : H!Before(h[i], h[j]) <=> i < j
      /\ \A s \in W \ H!ToSet(h), t \in H!ToSet(h) : H!Before(s, t)
      /\ W \ H!ToSet(h) # {} => Len(h) = limit
  BY ShownRows
<1>2. limit \in Nat \ {0}
  BY HistoryAssumption DEF H!SnapshotHistoryAssumption
<1> HIDE DEF h, W
<1>3. ASSUME NEW i \in 1..Len(h) - 1
      PROVE  H!Before(h[i], h[i + 1])
  <2>1. i \in 1..Len(h) /\ i + 1 \in 1..Len(h) /\ i < i + 1
    BY <1>1
  <2> QED
    BY <1>1, <2>1
<1>4. ASSUME NEW s \in W \ H!ToSet(h)
      PROVE  Len(h) = limit /\ H!Before(s, h[1])
  <2>1. Len(h) = limit /\ 1 \in 1..Len(h)
    BY <1>1, <1>2
  <2> QED
    BY <1>1, <2>1
<1> QED
  BY <1>1, <1>3, <1>4 DEF h, W

LEMMA ComparisonsAreSteps ==
    ASSUME SnapshotsInv
    PROVE  H!ComparisonIsOneStep
<1> SUFFICES ASSUME NEW c \in Characters, NEW from \in 0..MaxTime, NEW to \in 0..MaxTime,
                    NEW limit \in 1..MaxLimit,
                    H!Comparison(H!History(c, from, to, limit)) # None
             PROVE  LET x == H!Comparison(H!History(c, from, to, limit)) IN
                    /\ H!Before(x.from, x.to)
                    /\ \A s \in rows[c] : ~(H!Before(x.from, s) /\ H!Before(s, x.to))
                    /\ \A k \in seen[c] :
                          x.from.id < k.before /\ k.before <= x.to.id
                              => H!Numeric(k.value) = x.from.value
  BY DEF H!ComparisonIsOneStep
<1> DEFINE h == H!History(c, from, to, limit)
           W == H!Window(c, from, to)
           n == Len(h)
           s == h[n - 1]
           t == h[n]
<1>0. /\ \A r \in rows[c] : r.id \in Nat /\ r.at \in Nat
      /\ \A r, q \in rows[c] : H!Before(r, q) <=> r.id < q.id
      /\ \A k \in seen[c] : k.before \in Nat
  <2>1. \A k \in seen[c] : k.before \in Nat
    BY HistoryAssumption DEF SnapshotsInv, H!TypeOK, H!Sightings, H!SnapshotHistoryAssumption
  <2> QED
    BY <2>1, HistoryAssumption, RowsAre DEF SnapshotsInv
<1>1. /\ n \in Nat /\ W \subseteq rows[c] /\ H!ToSet(h) \subseteq W
      /\ \A i \in 1..n : h[i] \in H!ToSet(h)
      /\ \A r \in H!ToSet(h) : \E i \in 1..n : h[i] = r
      /\ \A i, j \in 1..n : H!Before(h[i], h[j]) <=> i < j
      /\ \A r \in H!ToSet(h), q \in W : H!Before(r, q) => q \in H!ToSet(h)
  BY ShownRows
<1>2. W = {r \in rows[c] : from <= r.at /\ r.at <= to}
  BY DEF H!Window
<1> HIDE DEF W
<1>3. ~(n < 2) /\ H!Comparison(h) = [from |-> s, to |-> t]
  <2> HIDE DEF h
  <2>1. H!Comparison(h) = IF n < 2 THEN None ELSE [from |-> s, to |-> t]
    BY DEF H!Comparison
  <2>2. H!Comparison(h) # None
    BY DEF h
  <2> QED
    BY <2>1, <2>2
<1>4. H!Comparison(h).from = s /\ H!Comparison(h).to = t
  BY <1>3
<1> HIDE DEF h
<1>5. n - 1 \in 1..n /\ n \in 1..n /\ n - 1 < n
  BY <1>1, <1>3
<1>6. H!Before(s, t) /\ s \in H!ToSet(h) /\ t \in H!ToSet(h)
  BY <1>1, <1>5
<1>7. s \in W /\ t \in W /\ s \in rows[c] /\ t \in rows[c]
  BY <1>1, <1>6
<1>8. ASSUME NEW r \in rows[c], H!Before(s, r), H!Before(r, t)
      PROVE  FALSE
  <2>1. r \in W
    <3> HIDE DEF s, t
    <3>1. s.at <= r.at /\ r.at <= t.at /\ from <= s.at /\ t.at <= to
      BY <1>0, <1>2, <1>7, <1>8 DEF H!Before
    <3> QED
      BY <1>0, <1>2, <1>7, <3>1
  <2>2. PICK i \in 1..n : h[i] = r
    BY <1>1, <1>6, <1>8, <2>1
  <2>3. n - 1 < i /\ i < n
    BY <1>1, <1>5, <1>8, <2>2
  <2> QED
    BY <1>1, <2>3
<1>9. ASSUME NEW k \in seen[c], s.id < k.before, k.before <= t.id
      PROVE  H!Numeric(k.value) = s.value
  <2> HIDE DEF s, t
  <2>1. \A r \in rows[c] : r.id < k.before => r.id <= s.id
    BY <1>0, <1>7, <1>8, <1>9
  <2>2. k \in H!Sighted(c, s)
    BY <1>9, <2>1 DEF H!Sighted
  <2> QED
    BY <1>7, <2>2 DEF SnapshotsInv, H!RowsAreSightings
<1> QED
  BY <1>4, <1>6, <1>8, <1>9 DEF h

\* What the history page shows is complete and in order, and what it compares is
\* one step.
THEOREM HistoriesAreFaithful == H!Spec => []HistoryFaithful
<1>1. SnapshotsInv => HistoryFaithful
  BY HistoriesAreNewest, ComparisonsAreSteps DEF HistoryFaithful
<1> QED
  BY <1>1, HistoryInvariance, PTL
=============================================================================
