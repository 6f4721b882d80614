---------------------------- MODULE Progression -----------------------------
(***************************************************************************)
(* What the history page, the dashboard and the guild's trends may trust   *)
(* of the snapshots that SnapshotHistory keeps.  The table is rows here,   *)
(* so that the module can stand beside CharacterSync, whose snaps are the  *)
(* snapshots of one character in full.                                     *)
(***************************************************************************)
CONSTANTS Characters, Values, Day, Retention, Recent, NotableAge, MaxRange, MaxLimit,
          MaxTime, MaxSnapshots, None

VARIABLES clock, rows, capture, nextId, seen

H == INSTANCE SnapshotHistory WITH snaps <- rows

ASSUME HistoryAssumption == H!SnapshotHistoryAssumption

ProgressionSpec == H!Spec

\* Each stored snapshot is what the captures until the next one saw, whatever the
\* sweeper takes away meanwhile.  CaptureKnows makes it inductive.
SnapshotsInv == H!TypeOK /\ H!RowsAreSightings /\ H!CaptureKnows

\* What the history page shows is complete and in order, and what it compares is
\* one step.
HistoryFaithful == H!HistoryIsNewest /\ H!ComparisonIsOneStep

\* What the dashboard and the trends derive from snapshots is of the last capture.
SummariesCurrent == H!NotableIsCurrent /\ H!TrendEndsCurrent
=============================================================================
