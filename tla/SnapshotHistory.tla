-------------------------- MODULE SnapshotHistory --------------------------
(***************************************************************************)
(* Progression snapshots and what is read from them: capture               *)
(* (src/backend/internal/sync/snapshots.go) inserts one only if it differs *)
(* from the last, the daily sweeper deletes old ones at any moment, and    *)
(* the history, the dashboard and the guild trends are queries over what   *)
(* is left.  What a character has progressed to is one number here, its    *)
(* rating in thousandths, of which a row keeps the hundredths; a raid      *)
(* payload, where one was fetched, never equals the one read back from the *)
(* jsonb column (CharacterSync).                                           *)
(***************************************************************************)
EXTENDS Integers, Sequences, FiniteSets, SequencesExt

CONSTANTS Characters, Values,
          Day,         \* length of a day, in ticks
          Retention,   \* SNAPSHOT_RETENTION_DAYS
          Recent,      \* the dashboard's window
          NotableAge,  \* how old its first snapshot must be to be compared
          MaxRange, MaxLimit,  \* historyMaxDays and historyMaxLimit
          MaxTime, MaxSnapshots, None

\* What is assumed of them, by Progression.
SnapshotHistoryAssumption ==
    /\ Values \subseteq Nat /\ None \notin Nat
    /\ {Day, Retention, MaxRange, MaxLimit} \subseteq Nat \ {0}
    /\ {Recent, NotableAge, MaxTime, MaxSnapshots} \subseteq Nat

VARIABLES
    clock,
    snaps,    \* progression_snapshots of each character
    capture,  \* a capture under way: what it will insert, what it found last
    nextId,
    seen      \* history: what captures saw, and the least id after them

vars == <<clock, snaps, capture, nextId, seen>>

NoRow == [value |-> None, raids |-> FALSE]
NoCapture == [at |-> 0, next |-> NoRow, last |-> NoRow]

Init ==
    /\ clock = 0 /\ nextId = 1
    /\ snaps = [c \in Characters |-> {}]
    /\ capture = [c \in Characters |-> NoCapture]
    /\ seen = [c \in Characters |-> {}]

\* numeric(8,2): what is left of a value in a row.
Numeric(v) == ((v + 5) \div 10) * 10

Before(s, t) == s.at < t.at \/ (s.at = t.at /\ s.id < t.id)
Newest(S) == CHOOSE s \in S : \A t \in S \ {s} : Before(t, s)
Oldest(S) == CHOOSE s \in S : \A t \in S \ {s} : Before(s, t)

\* LastSnapshot; no rows is not an error.
Row(s) == [value |-> s.value, raids |-> s.raids]
BadLastSnapshot(c) == IF snaps[c] = {} THEN NoRow ELSE Row(Oldest(snaps[c]))
LastSnapshot(c) == IF snaps[c] = {} THEN NoRow ELSE Row(Newest(snaps[c]))

\* A worker has the character's new values and asks for its last snapshot.
Capture(c, v, raids) ==
    /\ capture[c] = NoCapture
    /\ capture' = [capture EXCEPT ![c] = [at |-> clock, next |-> [value |-> v, raids |-> raids],
                                          last |-> LastSnapshot(c)]]
    /\ UNCHANGED <<clock, snaps, nextId, seen>>

\* Only what is better counts as a change.
BadSnapshotChanged(c) ==
    \/ capture[c].last = NoRow \/ capture[c].next.raids
    \/ capture[c].last.value < capture[c].next.value
SnapshotChanged(c) == capture[c].last # capture[c].next \/ capture[c].next.raids

Id(c) == nextId
InsertSnapshot(c) ==
    /\ capture[c] # NoCapture
    /\ IF SnapshotChanged(c)
       THEN /\ nextId <= MaxSnapshots /\ nextId' = nextId + 1
            /\ snaps' = [snaps EXCEPT ![c] =
                           @ \cup {[id |-> Id(c), at |-> capture[c].at,
                                    value |-> Numeric(capture[c].next.value),
                                    raids |-> capture[c].next.raids]}]
       ELSE UNCHANGED <<snaps, nextId>>
    /\ seen' = [seen EXCEPT ![c] =
                   @ \cup {[value |-> capture[c].next.value, before |-> nextId']}]
    /\ capture' = [capture EXCEPT ![c] = NoCapture]
    /\ UNCHANGED clock

\* The read or the insert fails, or the run is cancelled; an insert of which only the
\* answer is lost is InsertSnapshot.
CaptureFails(c) ==
    /\ capture[c] # NoCapture
    /\ capture' = [capture EXCEPT ![c] = NoCapture]
    /\ UNCHANGED <<clock, snaps, nextId, seen>>

\* The sweeper deletes what was captured before the cutoff.
DeleteSnapshotsBefore(cutoff) ==
    snaps' = [c \in Characters |-> {s \in snaps[c] : s.at >= cutoff}]
Sweep ==
    /\ DeleteSnapshotsBefore(clock - Retention)
    /\ UNCHANGED <<clock, capture, nextId, seen>>

Tick ==
    /\ clock < MaxTime /\ clock' = clock + 1
    /\ UNCHANGED <<snaps, capture, nextId, seen>>

Next ==
    \/ \E c \in Characters :
          \/ \E v \in Values, raids \in BOOLEAN : Capture(c, v, raids)
          \/ InsertSnapshot(c) \/ CaptureFails(c)
    \/ Sweep
    \/ Tick

Spec == Init /\ [][Next]_vars
-----------------------------------------------------------------------------
(* The queries.                                                            *)

Window(c, from, to) == {s \in snaps[c] : from <= s.at /\ s.at <= to}

\* parseHistoryQuery accepts a range and a limit.
HistoryRange(from, to, limit) ==
    /\ from <= to /\ to - from <= MaxRange /\ to <= clock + Day
    /\ 1 <= limit /\ limit <= MaxLimit

\* History: HistoryQuery returns the newest, the store sorts them oldest first.
Newer(S, s) == Cardinality({t \in S : Before(s, t)})
NewestFirst(S, limit) == {s \in S : Newer(S, s) < limit}
OldestFirst(S) ==
    [i \in 1..Cardinality(S) |-> CHOOSE s \in S : Newer(S, s) = Cardinality(S) - i]
History(c, from, to, limit) == OldestFirst(NewestFirst(Window(c, from, to), limit))

\* characterHistory compares the last two snapshots unless two are selected.
Comparison(h) ==
    IF Len(h) < 2 THEN None ELSE [from |-> h[Len(h) - 1], to |-> h[Len(h)]]

\* The dashboard's notable changes: the first and the last recent snapshot.
Notable(c) ==
    LET S == Window(c, clock - Recent, clock) IN
    Cardinality(S) > 1 /\ Oldest(S).at < clock - NotableAge
      /\ Newest(S).value > Oldest(S).value

\* TrendsByGuild: for each day with snapshots, the last one of each character.
DayOf(s) == s.at \div Day
BadRepresentatives(d) ==
    {[who |-> c, value |-> Oldest({s \in snaps[c] : DayOf(s) = d}).value] :
        c \in {x \in Characters : \E s \in snaps[x] : DayOf(s) = d}}
Representatives(d) ==
    {[who |-> c, value |-> Newest({s \in snaps[c] : DayOf(s) = d}).value] :
        c \in {x \in Characters : \E s \in snaps[x] : DayOf(s) = d}}
-----------------------------------------------------------------------------
(* Properties.                                                             *)

Stored == {Numeric(v) : v \in Values}
Rows == [value : Values \cup Stored \cup {None}, raids : BOOLEAN]
Captures == [at : 0..MaxTime, next : Rows, last : Rows]
Snapshots == [id : 1..nextId - 1, at : 0..clock, value : Stored, raids : BOOLEAN]
Sightings == [value : Values, before : 1..nextId]

\* Rows are of the past, with ids of their own in the order of their stamps; a
\* capture holds what it read and what it may insert.
TypeOK ==
    /\ clock \in 0..MaxTime /\ nextId \in 1..MaxSnapshots + 1
    /\ snaps \in [Characters -> SUBSET Snapshots]
    /\ capture \in [Characters -> Captures]
    /\ \A c \in Characters : \A s, t \in snaps[c] :
          /\ s.id = t.id => s = t
          /\ s.id < t.id => s.at <= t.at
    /\ seen \in [Characters -> SUBSET Sightings]

\* The captures that inserted a row, or found it the last one.
Sighted(c, s) ==
    {k \in seen[c] : s.id < k.before /\ \A r \in snaps[c] : r.id < k.before => r.id <= s.id}

\* A row stands for all the captures until the next row: it was captured, and
\* whatever the sweeper has taken away since and whichever captures failed, each of
\* them saw its value, to the hundredth.  So no change is hidden by comparing with
\* a row that was not the latest, or with a rating that was rounded.
RowsAreSightings ==
    \A c \in Characters : \A s \in snaps[c] :
        /\ Sighted(c, s) # {}
        /\ \A k \in Sighted(c, s) : Numeric(k.value) = s.value

\* A capture under way inserts behind all that is there, and if anything is left
\* when it does, what it found last is still the last one: the sweeper removes the
\* newest row only with all others.
CaptureKnows ==
    \A c \in Characters :
        capture[c] # NoCapture =>
            /\ capture[c].next.value \in Values
            /\ \A s \in snaps[c] : s.at <= capture[c].at
            /\ capture[c].at <= clock
            /\ snaps[c] # {} => capture[c].last = Row(Newest(snaps[c]))

\* In every range and limit, the comparison shown by default is one step: no row
\* between the two is left out, and every capture since the first of them and before
\* the second saw the first.  It may be a step to the same values, from a capture
\* with raids or of a rating with thousandths.
ComparisonIsOneStep ==
    \A c \in Characters, from, to \in 0..MaxTime, limit \in 1..MaxLimit :
        HistoryRange(from, to, limit) =>
            LET x == Comparison(History(c, from, to, limit)) IN
            x # None =>
                /\ Before(x.from, x.to)
                /\ \A s \in snaps[c] : ~(Before(x.from, s) /\ Before(s, x.to))
                /\ \A k \in seen[c] :
                      x.from.id < k.before /\ k.before <= x.to.id
                          => Numeric(k.value) = x.from.value

\* A history is in order and leaves out only what is older than all it returns
\* (the comment of ProgressionStore.History).
HistoryIsNewest ==
    \A c \in Characters, from, to \in 0..MaxTime, limit \in 1..MaxLimit :
        HistoryRange(from, to, limit) =>
            LET h == History(c, from, to, limit)
                W == Window(c, from, to) IN
            /\ \A i \in 1..Len(h) - 1 : Before(h[i], h[i + 1])
            /\ ToSet(h) \subseteq W
            /\ \A s \in W \ ToSet(h) : Len(h) = limit /\ Before(s, h[1])

\* What the dashboard calls a notable change lasts until the last sync: all captures
\* that may be the last one found the character better than at a row old enough.
NotableIsCurrent ==
    \A c \in Characters :
        Notable(c) => \A k \in Sighted(c, Newest(snaps[c])) :
            \E s \in snaps[c] : s.at < clock - NotableAge /\ s.value < Numeric(k.value)

\* A member's point in the guild's trend for the last day it has a snapshot of is
\* what its captures since then saw, and it counts once that day, however
\* often it was synced: "repeat syncs do not overweight a roster member" (the
\* comment of TrendsByGuild).
TrendEndsCurrent ==
    \A c \in Characters :
        snaps[c] # {} =>
            \A k \in Sighted(c, Newest(snaps[c])) :
                {x \in Representatives(DayOf(Newest(snaps[c]))) : x.who = c}
                    = {[who |-> c, value |-> Numeric(k.value)]}
=============================================================================
