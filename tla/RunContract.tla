----------------------------- MODULE RunContract ----------------------------
(***************************************************************************)
(* What one call of Engine.RunGuildSyncWithOptions promises its caller,    *)
(* with no worker, queue or WaitGroup in sight.  A run is open until its   *)
(* roster is known; then every member is counted once, as updated or as    *)
(* failed; the run settles on a status that the counts justify, or on      *)
(* "failed" if it was cancelled; and it closes, having written that very   *)
(* status to its ledger row or, when the write fails, nothing.             *)
(* SyncEngine implements this module, and SyncService's account of a run   *)
(* implements it once more.                                                *)
(***************************************************************************)
EXTENDS SyncDomain

CONSTANT MaxTotal  \* a natural number; no roster is longer

VARIABLES
    stage,      \* "open", "counting", "settled" or "closed"
    cancelled,  \* the run's context has been cancelled
    total, updated, failed,
    status,     \* the status the run object carries
    row         \* the status in the run's ledger row

vars == <<stage, cancelled, total, updated, failed, status, row>>
counts == <<total, updated, failed>>

Stages == {"open", "counting", "settled", "closed"}

\* A stage, counts and statuses of their types; the counts are never negative
\* (engine.go:117-122).
TypeOK ==
    /\ stage \in Stages
    /\ cancelled \in BOOLEAN
    /\ total \in 0..MaxTotal
    /\ updated \in 0..MaxTotal
    /\ failed \in 0..MaxTotal
    /\ status \in RunStatus
    /\ row \in RunStatus

Init ==
    /\ stage = "open"
    /\ cancelled \in BOOLEAN
    /\ total = 0
    /\ updated = 0
    /\ failed = 0
    /\ status = RunRunning
    /\ row = RunRunning

\* Cancel and Shutdown only cancel the context.
Cancel ==
    /\ cancelled' = TRUE
    /\ UNCHANGED <<stage, counts, status, row>>

\* The roster could not be fetched.
Refuse ==
    /\ stage = "open"
    /\ stage' = "settled"
    /\ status' = RunFailed
    /\ UNCHANGED <<cancelled, counts, row>>

Enumerate ==
    /\ stage = "open"
    /\ stage' = "counting"
    /\ total' \in 0..MaxTotal
    /\ UNCHANGED <<cancelled, updated, failed, status, row>>

CountUpdated ==
    /\ stage = "counting"
    /\ updated + failed < total
    /\ updated' = updated + 1
    /\ UNCHANGED <<stage, cancelled, total, failed, status, row>>

CountFailed ==
    /\ stage = "counting"
    /\ updated + failed < total
    /\ failed' = failed + 1
    /\ UNCHANGED <<stage, cancelled, total, updated, status, row>>

\* Members may be left uncounted only by a cancelled run, which has failed.
Settle ==
    /\ stage = "counting"
    /\ stage' = "settled"
    /\ \/ cancelled /\ status' = RunFailed
       \/ /\ ~cancelled
          /\ updated + failed = total
          /\ status' = Outcome(updated, failed)
    /\ UNCHANGED <<cancelled, counts, row>>

Close ==
    /\ stage = "settled"
    /\ stage' = "closed"
    /\ row' \in {row, status}
    /\ UNCHANGED <<cancelled, counts, status>>

Next ==
    \/ Cancel
    \/ Refuse
    \/ Enumerate
    \/ CountUpdated
    \/ CountFailed
    \/ Settle
    \/ Close

Spec == Init /\ [][Next]_vars
=============================================================================
