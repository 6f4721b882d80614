------------------------------ MODULE RunLedger -----------------------------
(***************************************************************************)
(* What the sync service promises of one guild's ledger of runs, with no   *)
(* mutex, channel or goroutine in sight: at most one run is active; a row  *)
(* is opened for it, leaves "running" at most once, only while its run is  *)
(* active, and never changes again.  A row may stay "running" for ever:    *)
(* the insert's answer was lost, or the run ended without its last write.  *)
(***************************************************************************)
EXTENDS SyncDomain

CONSTANTS Runs,  \* the ids of sync_runs
          NoRun  \* no id, and not in Runs

VARIABLES active,  \* the run in progress, or NoRun
          ledger   \* the status in each row, or "absent"

vars == <<active, ledger>>

\* Every id names a row or no row, and at most one run is active
\* (service.go:26-46).
TypeOK ==
    /\ active \in Runs \cup {NoRun}
    /\ ledger \in [Runs -> RunStatus \cup {"absent"}]

Init ==
    /\ active = NoRun
    /\ ledger = [r \in Runs |-> "absent"]

Open(r) ==
    /\ CanStart(active # NoRun)
    /\ ledger[r] = "absent"
    /\ ledger' = [ledger EXCEPT ![r] = RunRunning]
    /\ active' = r

\* The insert took effect and its answer did not arrive.
Orphan(r) ==
    /\ CanStart(active # NoRun)
    /\ ledger[r] = "absent"
    /\ ledger' = [ledger EXCEPT ![r] = RunRunning]
    /\ UNCHANGED active

Record(r, s) ==
    /\ active = r
    /\ Transition(ledger[r], s)
    /\ ledger' = [ledger EXCEPT ![r] = s]
    /\ UNCHANGED active

Settle ==
    /\ active # NoRun
    /\ active' = NoRun
    /\ UNCHANGED ledger

Next ==
    \/ \E r \in Runs :
          \/ Open(r)
          \/ Orphan(r)
          \/ \E s \in Terminal : Record(r, s)
    \/ Settle

Spec == Init /\ [][Next]_vars
=============================================================================
