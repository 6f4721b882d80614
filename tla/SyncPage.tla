------------------------------ MODULE SyncPage ------------------------------
(***************************************************************************)
(* What SyncView promises the administrator at the page: a panel that is   *)
(* live, polling that ends, and the end of every run.  The page is brought *)
(* in under names of its own, newest for the ledger's row and shown for    *)
(* the snapshot it shows, so that it can stand beside the service.         *)
(***************************************************************************)
CONSTANTS MaxRuns, MaxCalls, MaxFailures, MaxClicks, MaxOrphans

VARIABLES newest, live, runs, shown, polling, busy, error, calls, failures, orphans,
          clicks, mine, announced

View == INSTANCE SyncView WITH row <- newest, progress <- shown

ASSUME PageAssumption == View!SyncViewAssumption

PageSpec == View!FairSpec

\* The page in every state: its buttons work one at a time, and an answer that is
\* late or outdated never brings a panel back that nobody polls for.  OneClick and
\* PollsAreWanted make it inductive.
ViewInv == View!TypeOK /\ View!PanelIsLive /\ View!OneClick /\ View!PollsAreWanted

\* "Live progress polls while a run is in flight and stops on its own once the
\* snapshot goes terminal" (the comment at the effect in Sync.svelte).
PollingStops == View!PollingStops

\* Whatever answers come late, the page ends up with the end of the run.
EndIsShown == View!FinishedRowTakesOver /\ View!EndAnnounced
=============================================================================
