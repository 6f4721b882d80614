---------------------------- MODULE CharacterSync ---------------------------
(***************************************************************************)
(* One character of a guild sync: syncCharacter and capture of             *)
(* src/backend/internal/sync, with the store statements they call.  Each   *)
(* action is one resource: the request to Blizzard and the statement that  *)
(* stores its answer.  A call may fail (which covers a cancelled context), *)
(* a resource may be missing (404), and a statement may be committed       *)
(* although its answer is lost.  The process may crash between any two     *)
(* steps, and the sweeper deletes old snapshots at any time.               *)
(*                                                                         *)
(* A rating stands for the season response (rating, best key, best runs),  *)
(* in thousandths; a set of expansions stands for the raids response, one  *)
(* row for each expansion in it.                                           *)
(***************************************************************************)
EXTENDS Naturals, Sequences, FiniteSetsExt

CONSTANTS ItemLevels, Ratings, RaidSets,  \* what Blizzard may answer
          Tiers,     \* ids of the expansions in the journal
          PseudoTier,\* the id of its "Current Season" entry, of the same space
          MaxSyncs   \* bound: how often the character is synced

ASSUME CharacterSyncAssumption ==
    /\ 0 \notin ItemLevels /\ ItemLevels \subseteq Nat /\ Ratings \subseteq Nat
    /\ Tiers \subseteq Nat \ {0} /\ IsFiniteSet(Tiers)
    /\ RaidSets \subseteq SUBSET Tiers
    /\ PseudoTier \in Nat
    /\ MaxSyncs \in Nat

VARIABLES
    pc,        \* the next resource of the sync in progress, or "idle"
    job,       \* the local variables of syncCharacter
    now,       \* the run's timestamp
    upstream,  \* what Blizzard knows of the character during this run
    char,      \* its row in characters
    mplus,     \* its row in mythic_plus for the season
    raids,     \* its rows in raid_progression, by expansion
    snaps      \* its rows in progression_snapshots, oldest first

stored == <<char, mplus, raids, snaps>>
vars == <<pc, job, now, upstream, char, mplus, raids, snaps>>

Answers == {"ok", "missing", "failed"}
Writes  == {"ok", "failed", "lost"}   \* lost: committed, but reported failed
Committed(w) == w # "failed"

Truth == [ilvl : ItemLevels, rating : Ratings, recent : BOOLEAN, raids : RaidSets]

\* numeric(8,2): a rating loses its thousandths when it is stored.
Numeric(r) == ((r + 5) \div 10) * 10

\* The text of the raid payload.  json.Marshal writes it compactly; what jsonb
\* gives back has a blank after each colon, so it is never the same text again,
\* except for the literal "[]" that stands for no answer.
NoRaids      == [form |-> "literal", raids |-> {}]
Marshal(R)   == [form |-> "compact", raids |-> R]
ReadBack(t)  == IF t = NoRaids THEN t ELSE [t EXCEPT !.form = "jsonb"]

NoSnap == [at |-> 0, ilvl |-> 0, rating |-> 0, text |-> NoRaids]

NoJob == [dry |-> FALSE, season |-> FALSE, expansion |-> 0, ilvl |-> 0,
          rating |-> 0, found |-> "skipped", recent |-> FALSE,
          gotRaids |-> "skipped", text |-> NoRaids, prev |-> NoSnap,
          err |-> FALSE, trouble |-> {}]

Init ==
    /\ pc = "idle" /\ job = NoJob /\ now = 0
    /\ upstream \in Truth
    /\ char = [ilvl |-> 0, avatar |-> FALSE]     \* ilvl 0: no row yet
    /\ mplus = [row |-> FALSE, rating |-> 0, recent |-> FALSE]
    /\ raids = {}
    /\ snaps = << >>
-----------------------------------------------------------------------------
(* The tier anchor, resolved once per run.                                 *)

Journal == [id : Tiers, pseudo : {FALSE}] \cup {[id |-> PseudoTier, pseudo |-> TRUE]}

\* The newest expansion, leaving out the pseudo tier; 0 when there is none.
ExpansionOf(journal) == Max({t.id : t \in {x \in journal : ~x.pseudo}} \cup {0})

\* An index that cannot be fetched leaves its half of the anchor at zero.
ResolveTierAnchor(dry, season, journal) ==
    /\ pc = "idle"
    /\ now < MaxSyncs
    /\ now' = now + 1
    /\ \E u \in Truth : upstream' = u
    /\ job' = [NoJob EXCEPT !.dry = dry, !.season = season = "ok",
                            !.expansion = IF journal = "ok"
                                          THEN ExpansionOf(Journal) ELSE 0]
    /\ pc' = "profile"
    /\ UNCHANGED stored
-----------------------------------------------------------------------------
(* syncCharacter.                                                          *)

Go(to, j) == pc' = to /\ job' = j /\ UNCHANGED <<now, upstream>>

Troubled(step) == [job EXCEPT !.err = TRUE, !.trouble = @ \cup {step}]

\* A dry run reaches no statement.
Saves == ~job.dry

ProfileFails ==
    /\ pc = "profile"
    /\ Go("done", Troubled("profile"))
    /\ UNCHANGED stored

\* Creates the row, or updates everything in it but the portrait.
UpsertByGuildIdentity == [char EXCEPT !.ilvl = upstream.ilvl]

SyncProfile(w) ==
    /\ pc = "profile"
    /\ w = "ok" \/ Saves
    /\ Go(IF w = "ok" THEN "media" ELSE "done",
          [IF w = "ok" THEN job ELSE Troubled("upsert")
              EXCEPT !.ilvl = upstream.ilvl])
    /\ char' = IF Saves /\ Committed(w) THEN UpsertByGuildIdentity ELSE char
    /\ UNCHANGED <<mplus, raids, snaps>>

\* The portrait is best effort: nothing about it is reported.
UpdateAvatar == [char EXCEPT !.avatar = TRUE]

SyncMedia(a, w) ==
    /\ pc = "media"
    /\ Go(IF job.season THEN "season" ELSE "raids", job)
    /\ char' = IF Saves /\ a = "ok" /\ Committed(w) THEN UpdateAvatar ELSE char
    /\ UNCHANGED <<mplus, raids, snaps>>

FetchSeason(a) ==
    /\ pc = "season"
    /\ Go("index", [IF a = "failed" THEN Troubled("season") ELSE job
                      EXCEPT !.found = a,
                             !.rating = IF a = "ok" THEN upstream.rating ELSE 0])
    /\ UNCHANGED stored

BadFetchIndex(a) ==
    /\ pc = "index"
    /\ Go("mplus", [job EXCEPT !.recent = a = "ok" /\ upstream.recent,
                               !.trouble = IF a = "failed" THEN @ \cup {"index"} ELSE @])
    /\ UNCHANGED stored

FetchIndex(a) ==
    /\ pc = "index"
    /\ Go("mplus", [IF a = "failed" THEN Troubled("index") ELSE job
                      EXCEPT !.recent = a = "ok" /\ upstream.recent])
    /\ UNCHANGED stored

UpsertMythicPlus ==
    [row |-> TRUE, rating |-> Numeric(job.rating), recent |-> job.recent]

\* Only the run lists are refreshed; a row that exists keeps its rating.
BadUpsertMythicPlusRuns == UpsertMythicPlus
UpsertMythicPlusRuns ==
    IF mplus.row THEN [mplus EXCEPT !.recent = job.recent] ELSE UpsertMythicPlus

MythicRow == IF job.found = "ok" THEN UpsertMythicPlus ELSE UpsertMythicPlusRuns

KeepsMythic == job.found = "ok" \/ (job.found = "missing" /\ job.recent)

StoreMythic(w) ==
    /\ pc = "mplus"
    /\ w = "ok" \/ (KeepsMythic /\ Saves)
    /\ Go("raids", IF w = "ok" THEN job ELSE Troubled("mplus"))
    /\ mplus' = IF KeepsMythic /\ Saves /\ Committed(w) THEN MythicRow ELSE mplus
    /\ UNCHANGED <<char, raids, snaps>>

\* What happens to the rows when ReplaceRaids, one transaction, ends so.
Current(R) == IF job.expansion > 0 THEN R \cap {job.expansion} ELSE R
ReplaceRaids(w) == IF Committed(w) THEN Current(upstream.raids) ELSE raids

BadSyncRaids(w) ==
    /\ pc = "raids"
    /\ w = "ok" \/ Saves
    /\ Go(IF Saves THEN "last" ELSE "done",
          [IF w = "ok" THEN job ELSE Troubled("raids")
              EXCEPT !.text = Marshal(upstream.raids), !.gotRaids = "ok"])
    /\ raids' = ReplaceRaids(w)
    /\ UNCHANGED <<char, mplus, snaps>>

SyncRaids(w) ==
    /\ pc = "raids"
    /\ w = "ok" \/ Saves
    /\ Go(IF Saves THEN "last" ELSE "done",
          [IF w = "ok" THEN job ELSE Troubled("raids")
              EXCEPT !.text = Marshal(upstream.raids), !.gotRaids = "ok"])
    /\ raids' = IF Saves THEN ReplaceRaids(w) ELSE raids
    /\ UNCHANGED <<char, mplus, snaps>>

RaidsFail(a) ==
    /\ pc = "raids"
    /\ a # "ok"
    /\ Go(IF Saves THEN "last" ELSE "done",
          [IF a = "failed" THEN Troubled("raids") ELSE job EXCEPT !.gotRaids = a])
    /\ UNCHANGED stored
-----------------------------------------------------------------------------
(* capture.                                                                *)

LastSnapshotFails ==
    /\ pc = "last"
    /\ Go("done", Troubled("snapshot"))
    /\ UNCHANGED stored

LastSnapshot ==
    /\ pc = "last"
    /\ Go("capture", [job EXCEPT !.prev = IF snaps = << >> THEN NoSnap
                                          ELSE snaps[Len(snaps)]])
    /\ UNCHANGED stored

SnapshotChanged(prev, ilvl, rating, text) ==
    \/ prev.ilvl # ilvl
    \/ prev.rating # rating
    \/ ReadBack(prev.text) # text

InsertsSnapshot ==
    \/ job.prev = NoSnap
    \/ SnapshotChanged(job.prev, job.ilvl, job.rating, job.text)

InsertSnapshot ==
    Append(snaps, [at |-> now, ilvl |-> job.ilvl, rating |-> Numeric(job.rating),
                   text |-> job.text])

Capture(w) ==
    /\ pc = "capture"
    /\ w = "ok" \/ InsertsSnapshot
    /\ Go("done", IF w = "ok" THEN job ELSE Troubled("snapshot"))
    /\ snaps' = IF InsertsSnapshot /\ Committed(w)
                THEN InsertSnapshot ELSE snaps
    /\ UNCHANGED <<char, mplus, raids>>

Return ==
    /\ pc = "done"
    /\ pc' = "idle"
    /\ job' = NoJob
    /\ UNCHANGED <<now, upstream, stored>>
-----------------------------------------------------------------------------
Crash ==
    /\ pc \notin {"idle", "done"}
    /\ pc' = "idle"
    /\ job' = NoJob
    /\ UNCHANGED <<now, upstream, stored>>

\* The daily sweep: snapshots captured before the cutoff, the oldest ones, go.
DeleteSnapshotsBefore(cutoff) ==
    /\ snaps # << >>
    /\ \E k \in 0..Len(snaps) :
          /\ \A i \in DOMAIN snaps : snaps[i].at < cutoff <=> i <= k
          /\ snaps' = SubSeq(snaps, k + 1, Len(snaps))
    /\ UNCHANGED <<pc, job, now, upstream, char, mplus, raids>>

Next ==
    \/ \E dry \in BOOLEAN, s, j \in {"ok", "failed"} : ResolveTierAnchor(dry, s, j)
    \/ ProfileFails
    \/ \E a \in Answers :
          \/ \E w \in Writes : SyncMedia(a, w)
          \/ FetchSeason(a)
          \/ FetchIndex(a)
          \/ RaidsFail(a)
    \/ \E w \in Writes :
          \/ SyncProfile(w)
          \/ StoreMythic(w)
          \/ SyncRaids(w)
          \/ Capture(w)
    \/ LastSnapshotFails
    \/ LastSnapshot
    \/ Return
    \/ Crash
    \/ \E cutoff \in 1..now : DeleteSnapshotsBefore(cutoff)

Spec == Init /\ [][Next]_vars
-----------------------------------------------------------------------------
(* Properties.                                                             *)

Texts == {NoRaids} \cup {Marshal(R) : R \in RaidSets}
Stored == {0} \cup {Numeric(r) : r \in Ratings}

Snaps == [at : 1..MaxSyncs, ilvl : ItemLevels, rating : Stored, text : Texts]

JobType == [dry : BOOLEAN, season : BOOLEAN, expansion : {0, ExpansionOf(Journal)},
            ilvl : ItemLevels \cup {0}, rating : Ratings \cup {0},
            found : Answers \cup {"skipped"}, recent : BOOLEAN,
            gotRaids : Answers \cup {"skipped"}, text : Texts,
            prev : Snaps \cup {NoSnap}, err : BOOLEAN,
            trouble : SUBSET {"profile", "upsert", "season", "index", "mplus",
                              "raids", "snapshot"}]

\* The rows are what the columns can hold, the snapshots in order of capture.
TypeOK ==
    /\ pc \in {"idle", "profile", "media", "season", "index", "mplus", "raids",
               "last", "capture", "done"}
    /\ job \in JobType
    /\ upstream \in Truth
    /\ now \in 0..MaxSyncs
    /\ char \in [ilvl : ItemLevels \cup {0}, avatar : BOOLEAN]
    /\ mplus \in [row : BOOLEAN, rating : Stored, recent : BOOLEAN]
    /\ raids \in SUBSET Tiers
    /\ snaps \in Seq(Snaps)
    /\ \A i, k \in DOMAIN snaps : i < k => snaps[i].at < snaps[k].at

\* syncCharacter reports an error exactly when something other than the portrait
\* went wrong and was not a 404; such a character counts as failed, any other as
\* updated (engine.go:243, whose err variables are shadowed four times).
ErrorsReported == pc = "done" => (job.err <=> job.trouble # {})

\* A character reported as updated is stored as Blizzard described it in this
\* run: its profile, the rating if the season answered, the raids of the current
\* expansion if the raids answered, and its newest snapshot, unless swept, is of
\* what this run fetched.
UpdatedMeansStored ==
    pc = "done" /\ ~job.err /\ ~job.dry =>
        /\ char.ilvl = upstream.ilvl
        /\ job.found = "ok" => mplus.row /\ mplus.rating = Numeric(upstream.rating)
        /\ job.gotRaids = "ok" =>
              raids = IF job.expansion = 0 THEN upstream.raids
                      ELSE upstream.raids \cap {Max(Tiers)}
        /\ snaps # << >> =>
              LET last == snaps[Len(snaps)] IN
              /\ last.ilvl = upstream.ilvl
              /\ last.rating = Numeric(job.rating)
              /\ last.text = job.text

\* A dry run changes no row of the character, whatever it fetched; only the
\* sweeper may take old snapshots away meanwhile (docs/goal-1.md:10).
DryRunWritesNothing ==
    [][job.dry => UNCHANGED <<char, mplus, raids>> /\ Len(snaps') <= Len(snaps)]_vars

\* A stored rating is replaced only by what this run's season answered, so a
\* failed or missing season never wipes it (engine.go:369-372).
RatingNeverWiped ==
    [][mplus'.rating # mplus.rating /\ mplus.row
         => job.found = "ok" /\ mplus'.rating = Numeric(upstream.rating)]_vars

\* Raid rows leave only for the rows of an answer of this run: a swap that fails
\* halfway, or a missing profile, keeps what was stored (progression.go:88-90).
RaidsSwappedWhole ==
    [][raids' # raids => raids' = Current(upstream.raids)]_vars

\* What the variables of syncCharacter hold once their requests were made.
Fetched ==
    /\ job.err <=> job.trouble # {}
    /\ pc \in {"profile", "media", "season"} => job.found = "skipped"
    /\ job.found = "ok" => job.rating = upstream.rating
    /\ pc \notin {"last", "capture", "done"} => job.gotRaids = "skipped"
    /\ job.gotRaids = "ok" <=> job.text # NoRaids

\* The rows between two resources of a sync, as far as nothing has failed.
Kept ==
    /\ pc \notin {"idle", "profile"} /\ ~(pc = "done" /\ job.err) =>
          /\ job.ilvl = upstream.ilvl
          /\ ~job.dry => char.ilvl = upstream.ilvl
    /\ pc \notin {"index", "mplus"} /\ job.found = "ok" /\ ~job.err /\ ~job.dry =>
          mplus.row /\ mplus.rating = Numeric(upstream.rating)
    /\ job.gotRaids = "ok" /\ ~job.err /\ ~job.dry => raids = Current(upstream.raids)

\* capture compares with the newest snapshot, or the sweeper took them all; no
\* snapshot is of this run before it inserts one.
InTurn ==
    /\ pc # "idle" => now > 0
    /\ pc \in {"last", "capture"} => ~job.dry
    /\ \A i \in DOMAIN snaps :
          snaps[i].at <= now /\ (pc \notin {"idle", "done"} => snaps[i].at < now)
    /\ pc = "capture" /\ snaps # << >> => job.prev = snaps[Len(snaps)]

\* What syncCharacter reports is true of the rows, in every state.
HonestReport ==
    TypeOK /\ ErrorsReported /\ UpdatedMeansStored /\ Fetched /\ Kept /\ InTurn

\* Rating and raids leave only for what this run was answered.
GoodDataKept == RatingNeverWiped /\ RaidsSwappedWhole
=============================================================================
