---------------------------- MODULE ServerProcess ---------------------------
(***************************************************************************)
(* The process around the sync service (cmd/apekeeper/main.go): HTTP       *)
(* requests and the scheduler start runs, a signal stops the scheduler and *)
(* wakes the goroutine that drains the HTTP server and then shuts the      *)
(* service down, and the process ends when main returns, or crashes.  A    *)
(* new process finds only what is in the ledger.                           *)
(***************************************************************************)
EXTENDS SyncService

VARIABLES
    proc,     \* "up", "exited" or "crashed"
    http,     \* "listening", "draining", "drained" or "expired"
    handler   \* a request that may start or cancel a run is being served

procVars == <<proc, http, handler>>
allVars  == <<vars, procVars>>

ServerInit ==
    /\ Init
    /\ proc = "up"
    /\ http = "listening"
    /\ handler = FALSE

Arrive ==
    /\ http = "listening"
    /\ ~handler
    /\ handler' = TRUE
    /\ UNCHANGED <<vars, proc, http>>

\* A handler asks the service once and answers; a refusal changes nothing.
Handle ==
    /\ handler
    /\ handler' = FALSE
    /\ Request \/ UNCHANGED vars
    /\ UNCHANGED <<proc, http>>

\* Not part of the model: the scheduler hands fn a context of its own.
BadTimerFires ==
    /\ \A r \in Runs :
          at[r] = "completed" => trigger[r] # "scheduled"
    /\ \/ \E r \in Runs : Start(r) \/ StartManual(r)
       \/ "scheduled" \in Triggers /\ BeginFails
    /\ UNCHANGED procVars

\* The scheduler's timer fires while its goroutine is not carrying a run;
\* under a cancelled context the INSERT fails.
TimerFires ==
    /\ \A r \in Runs :
          at[r] = "completed" => trigger[r] # "scheduled"
    /\ \/ \E r \in Runs : Start(r)
       \/ "scheduled" \in Triggers /\ BeginFails
    /\ UNCHANGED procVars

\* SIGINT or SIGTERM cancels main's context, which the scheduler shares.
Signal ==
    /\ ParentDone
    /\ UNCHANGED procVars

\* The goroutine that waits for it calls server.Shutdown, which closes the
\* listener.
CloseListener ==
    /\ parentDone
    /\ http = "listening"
    /\ http' = "draining"
    /\ UNCHANGED <<vars, proc, handler>>

\* server.Shutdown returns when no request is left, or after ten seconds.
Drain ==
    /\ http = "draining"
    /\ http' \in {"drained", "expired"}
    /\ http' = "drained" => ~handler
    /\ UNCHANGED <<vars, proc, handler>>

\* service.Shutdown runs under what is left of the same ten seconds.
ShutService ==
    /\ http \in {"drained", "expired"}
    /\ Shutdown \/ ShutdownProceeds \/ ShutdownExpires
    /\ UNCHANGED procVars

\* ListenAndServe returned as soon as the listener was closed; main closes the
\* pool, which waits for statements in flight and defeats later ones, and
\* returns: the process ends whatever its goroutines are doing.
MainReturns ==
    /\ http # "listening"
    /\ proc' = "exited"
    /\ UNCHANGED <<vars, http, handler>>

Crash ==
    /\ proc' = "crashed"
    /\ UNCHANGED <<vars, http, handler>>

\* A new process starts as in Init, and the runs the old one was carrying are
\* lost; the ledger and the snapshot are Boot's.
NewProcess ==
    /\ proc # "up"
    /\ proc' = "up"
    /\ http' = "listening"
    /\ handler' = FALSE
    /\ running' = FALSE
    /\ cancelOf' = NoRun /\ doneOf' = NoRun /\ last' = NoRun
    /\ notifyWG' = 0
    /\ stopping' = FALSE
    /\ metrics' = [started |-> 0, completed |-> 0, errors |-> 0]
    /\ at' = [r \in Runs |-> IF at[r] \in {"idle", "settled"} THEN at[r]
                             ELSE "lost"]
    /\ parentDone' = FALSE
    /\ sd' = "idle" /\ sdDone' = NoRun /\ sdRuns' = {}
    /\ UNCHANGED <<trigger, ctxDone, eng>>

\* Not part of the model: a row whose engine was done is finished at start-up.
BadBootFinishes ==
    /\ NewProcess
    /\ progress' = ZeroProgress
    /\ row' = [r \in Runs |->
                  IF row[r].status = RunRunning /\ eng[r].stage = "closed"
                  THEN [row[r] EXCEPT !.status = eng[r].status,
                                      !.failed = eng[r].failed]
                  ELSE row[r]]

\* Nothing at start-up looks at the rows that still say "running".
Boot == NewProcess /\ progress' = ZeroProgress /\ UNCHANGED row

Carrying == (\E r \in Runs : Carry(r)) /\ UNCHANGED procVars

Alive ==
    /\ proc = "up"
    /\ \/ Arrive
       \/ Handle
       \/ TimerFires
       \/ Carrying
       \/ Signal
       \/ CloseListener
       \/ Drain
       \/ ShutService
       \/ MainReturns
       \/ Crash

ServerNext == Alive \/ Boot

ServerSpec == ServerInit /\ [][ServerNext]_allVars

----------------------------------------------------------------------------
(***************************************************************************)
(* Properties.  OneRun, SnapshotFaithful, LedgerAgrees and ResultsKept of  *)
(* SyncService are checked again here, across crashes and restarts.        *)
(***************************************************************************)

\* When the HTTP server drained in time, no run slips in behind Shutdown: the
\* handlers are gone and the scheduler's context is cancelled before Shutdown
\* takes the mutex, though begin itself never looks at stopping
\* (main.go:247-256, service.go:111-117).
NoRunBehindShutdown ==
    proc = "up" /\ http = "drained" /\ sd # "idle" =>
        \A r \in Runs : at[r] \notin {"idle", "lost"} => r \in sdRuns

\* A stop that ran to its end stopped everything: the server drained, Shutdown
\* returned nil, and nothing of any run is left to do.
CleanStop ==
    proc = "up" /\ http = "drained" /\ sd = "nil" =>
        \A r \in Runs : at[r] \in {"idle", "lost", "settled"}

(***************************************************************************)
(* What the invariants above need to be inductive: the listener closes     *)
(* after the scheduler's context is cancelled, Shutdown comes after the    *)
(* drain, and a drain that ended in time leaves no handler.                *)
(***************************************************************************)
StopInOrder ==
    /\ http \in {"listening", "draining", "drained", "expired"}
    /\ http # "listening" => parentDone
    /\ http = "drained" => ~handler
    /\ sd # "idle" => http \in {"drained", "expired"}
    /\ http = "drained" /\ sd # "idle" =>
          \A r \in Runs : at[r] \notin {"idle", "lost"} => r \in sdRuns

\* The invariant the proofs induct on, across signals, crashes and restarts
\* (main.go:109-268, service.go:90-319).
ServerInv == ServiceInv /\ StopInOrder
=============================================================================
