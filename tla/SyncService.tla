----------------------------- MODULE SyncService ----------------------------
(***************************************************************************)
(* The sync service of one guild (sync/service.go): who may start a run,   *)
(* the goroutine that carries it from begin to its notification, and the   *)
(* concurrent Cancel, Shutdown and progress reads.                         *)
(*                                                                         *)
(* Every critical section of s.mu is one action.  begin holds the mutex    *)
(* across the INSERT, so the INSERT belongs to its action.  Between the    *)
(* sections any other goroutine may run; at[r] says where the goroutine    *)
(* of run r is:                                                            *)
(*   "idle"      there is no such run                                      *)
(*   "begun"     begin has unlocked the mutex                              *)
(*   "engine"    inside the engine, at the stage eng[r].stage of the       *)
(*               engine's contract (RunContract, which SyncEngine keeps)   *)
(*   "completed" complete has unlocked the mutex                           *)
(*   "notifying" complete has closed the run's done channel and spawned    *)
(*               the goroutine that notifies                               *)
(*   "settled"   that goroutine has ended                                  *)
(*   "lost"      the process ended before that (ServerProcess)             *)
(***************************************************************************)
EXTENDS SyncDomain, FiniteSets

CONSTANTS
    Runs,          \* ids of sync_runs rows
    NoRun,         \* no id, a nil cancel or done
    MaxTotal,      \* no roster is longer
    Triggers,      \* the kinds of run that are asked for
    NotifyResults, \* what a delivery attempt reports: sent, skipped, failed
    NotNotified,   \* a NULL notify_status
    StoreFaults    \* whether a write to the ledger may fail by itself

ASSUME RunsAssumption == IsFiniteSet(Runs) /\ NoRun \notin Runs
ASSUME MaxTotalAssumption == MaxTotal \in Nat
ASSUME TriggersAssumption ==
    Triggers \subseteq {"scheduled", "manual", "dry-run", "retry"}
ASSUME NotNotifiedAssumption == NotNotified \notin NotifyResults
ASSUME StoreFaultsAssumption == StoreFaults \in BOOLEAN

VARIABLES
    \* the fields of Service
    running, cancelOf, doneOf, last, progress, notifyWG, stopping,
    metrics,     \* the counters of Metrics
    \* the run each id stands for
    at, trigger, ctxDone, eng,
    row,         \* the table sync_runs
    parentDone,  \* the scheduler's context is cancelled
    sd, sdDone,  \* Shutdown: where its caller is, the channel it waits on
    sdRuns       \* history: the process's runs when Shutdown took the mutex

service  == <<running, cancelOf, doneOf, last, progress, notifyWG>>
shutdown == <<stopping, sd, sdDone, sdRuns>>
vars == <<service, metrics, at, trigger, ctxDone, eng, row,
          parentDone, shutdown>>

\* A goroutine holds the run between begin and complete.
Live(r) == at[r] \in {"begun", "engine"}

\* The run's done channel is closed.
DoneClosed(r) == at[r] \in {"notifying", "settled"}

\* The run is over and its notification is not.
Finishing(r) == at[r] \in {"completed", "notifying"}

ZeroProgress ==
    [active |-> FALSE, run |-> NoRun, status |-> "none", phase |-> "none",
     total |-> 0, updated |-> 0, failed |-> 0, dryRun |-> FALSE]

NewEngine ==
    [stage |-> "open", total |-> 0, updated |-> 0, failed |-> 0,
     status |-> RunRunning, detail |-> FALSE]

NoRow == [status |-> "absent", failed |-> 0, detail |-> FALSE,
          notify |-> NotNotified]

OpenRow == [NoRow EXCEPT !.status = RunRunning]

Init ==
    /\ running = FALSE
    /\ cancelOf = NoRun /\ doneOf = NoRun /\ last = NoRun
    /\ progress = ZeroProgress
    /\ notifyWG = 0
    /\ stopping = FALSE
    /\ metrics = [started |-> 0, completed |-> 0, errors |-> 0]
    /\ at = [r \in Runs |-> "idle"]
    /\ trigger = [r \in Runs |-> "none"]
    /\ ctxDone = [r \in Runs |-> FALSE]
    /\ eng = [r \in Runs |-> NewEngine]
    /\ row = [r \in Runs |-> NoRow]
    /\ parentDone = FALSE
    /\ sd = "idle" /\ sdDone = NoRun /\ sdRuns = {}

----------------------------------------------------------------------------
(***************************************************************************)
(* Definitions named Bad... are not part of the model: each is the action  *)
(* that follows it with a plausible mistake, to see that the properties    *)
(* below would notice.                                                     *)
(***************************************************************************)

(***************************************************************************)
(* Admission.                                                              *)
(***************************************************************************)

\* begin admits run r.  It does not look at stopping.  A scheduled run is
\* created under the scheduler's context, so not once that is cancelled.
Begin(r, t) ==
    /\ t \in Triggers
    /\ CanStart(running)
    /\ row[r].status = "absent"
    /\ t = "scheduled" => ~parentDone
    /\ running' = TRUE
    /\ cancelOf' = r
    /\ doneOf' = r
    /\ progress' = [ZeroProgress EXCEPT !.active = TRUE, !.run = r,
                                        !.status = RunRunning,
                                        !.phase = PhaseQueued]
    /\ row' = [row EXCEPT ![r] = OpenRow]
    /\ at' = [at EXCEPT ![r] = "begun"]
    /\ trigger' = [trigger EXCEPT ![r] = t]
    /\ UNCHANGED <<last, notifyWG, metrics, ctxDone, eng, parentDone,
                   shutdown>>

Start(r) == Begin(r, "scheduled")
StartManual(r) == Begin(r, "manual")
StartDryRun(r) == Begin(r, "dry-run")

\* A retry needs a finished run that recorded its failures.
Retryable(src) ==
    /\ row[src].status \in Terminal
    /\ row[src].failed > 0
    /\ row[src].detail

StartRetry(r, src) == Retryable(src) /\ Begin(r, "retry")

\* The INSERT fails: the request's context ended, or the database did.  It may
\* have been committed all the same.
BeginFails ==
    /\ CanStart(running)
    /\ progress' = ZeroProgress
    /\ \/ UNCHANGED row
       \/ \E r \in Runs : /\ row[r].status = "absent"
                          /\ row' = [row EXCEPT ![r] = OpenRow]
    /\ UNCHANGED <<running, cancelOf, doneOf, last, notifyWG, metrics, at,
                   trigger, ctxDone, eng, parentDone, shutdown>>

\* A run admitted behind Shutdown is dropped without completing it.
BadLaunchUnlessStopping(r) ==
    /\ at[r] = "begun"
    /\ ~stopping
    /\ at' = [at EXCEPT ![r] = "engine"]
    /\ metrics' = [metrics EXCEPT !.started = @ + 1]
    /\ progress' = [progress EXCEPT !.dryRun = (trigger[r] = "dry-run")]
    /\ UNCHANGED <<running, cancelOf, doneOf, last, notifyWG, trigger, ctxDone,
                   eng, row, parentDone, shutdown>>

\* begin counts the run and returns; startAsync marks the snapshot and spawns
\* the engine, Start calls it.
Launch(r) ==
    /\ at[r] = "begun"
    /\ at' = [at EXCEPT ![r] = "engine"]
    /\ metrics' = [metrics EXCEPT !.started = @ + 1]
    /\ progress' = IF trigger[r] = "scheduled" THEN progress
                   ELSE [progress EXCEPT !.dryRun = (trigger[r] = "dry-run")]
    /\ UNCHANGED <<running, cancelOf, doneOf, last, notifyWG, trigger, ctxDone,
                   eng, row, parentDone, shutdown>>

----------------------------------------------------------------------------
(***************************************************************************)
(* The engine of run r, at the grain of its contract.                      *)
(***************************************************************************)

InEngine(r, stage) == at[r] = "engine" /\ eng[r].stage = stage

\* ReportProgress: ignored when no run is on, whoever reports.
ReportProgress(phase, e) ==
    progress' = IF ~running THEN progress
                ELSE [progress EXCEPT !.phase = phase, !.total = e.total,
                                      !.updated = e.updated,
                                      !.failed = e.failed]

EngineStep(r, e) ==
    /\ eng' = [eng EXCEPT ![r] = e]
    /\ UNCHANGED <<running, cancelOf, doneOf, last, notifyWG, metrics, at,
                   trigger, ctxDone, row, parentDone, shutdown>>

EngineRefuses(r) ==
    /\ InEngine(r, "open")
    /\ LET e == [eng[r] EXCEPT !.stage = "settled", !.status = RunFailed]
       IN  EngineStep(r, e) /\ ReportProgress(PhaseFinalizing, e)

\* The reports of the roster and of the tier anchor are overtaken by the third.
EngineEnumerates(r, n) ==
    /\ InEngine(r, "open")
    /\ LET e == [eng[r] EXCEPT !.stage = "counting", !.total = n]
       IN  EngineStep(r, e) /\ ReportProgress(PhaseCharacters, e)

EngineCounts(r) ==
    /\ InEngine(r, "counting")
    /\ eng[r].updated + eng[r].failed < eng[r].total
    /\ \E e \in {[eng[r] EXCEPT !.updated = @ + 1],
                 [eng[r] EXCEPT !.failed = @ + 1]} :
          EngineStep(r, e) /\ ReportProgress(PhaseCharacters, e)

\* The failures are recorded unless the context is cancelled, now or before
\* the engine's next look at it.
EngineSettles(r) ==
    /\ InEngine(r, "counting")
    /\ \E verdict \in Terminal, d \in BOOLEAN :
          /\ \/ ctxDone[r] /\ verdict = RunFailed
             \/ /\ ~ctxDone[r]
                /\ eng[r].updated + eng[r].failed = eng[r].total
                /\ verdict = Outcome(eng[r].updated, eng[r].failed)
          /\ d => eng[r].failed > 0 /\ ~ctxDone[r]
          /\ LET e == [eng[r] EXCEPT !.stage = "settled", !.status = verdict,
                                     !.detail = d]
             IN  EngineStep(r, e) /\ ReportProgress(PhaseFinalizing, e)

\* Finish, which a cancelled context or the database may defeat.
EngineCloses(r) ==
    /\ InEngine(r, "settled")
    /\ eng' = [eng EXCEPT ![r].stage = "closed"]
    /\ \/ row' = [row EXCEPT ![r].status = eng[r].status,
                             ![r].failed = eng[r].failed,
                             ![r].detail = eng[r].detail]
       \/ (StoreFaults \/ ctxDone[r]) /\ UNCHANGED row
    /\ UNCHANGED <<service, metrics, at, trigger, ctxDone, parentDone,
                   shutdown>>

----------------------------------------------------------------------------
(***************************************************************************)
(* Completion and notification.                                            *)
(***************************************************************************)

\* The old run's cancel stays.
BadCompleteKeepsCancel(r) ==
    /\ InEngine(r, "closed")
    /\ at' = [at EXCEPT ![r] = "completed"]
    /\ running' = FALSE
    /\ doneOf' = NoRun
    /\ last' = r
    /\ notifyWG' = notifyWG + 1
    /\ progress' = [progress EXCEPT !.active = FALSE,
                                    !.status = eng[r].status,
                                    !.phase = PhaseFinalizing,
                                    !.total = eng[r].total,
                                    !.updated = eng[r].updated,
                                    !.failed = eng[r].failed]
    /\ UNCHANGED <<cancelOf, metrics, trigger, ctxDone, eng, row, parentDone,
                   shutdown>>

Complete(r) ==
    /\ InEngine(r, "closed")
    /\ at' = [at EXCEPT ![r] = "completed"]
    /\ running' = FALSE
    /\ cancelOf' = NoRun
    /\ doneOf' = NoRun
    /\ last' = r
    /\ notifyWG' = notifyWG + 1
    /\ progress' = [progress EXCEPT !.active = FALSE,
                                    !.status = eng[r].status,
                                    !.phase = PhaseFinalizing,
                                    !.total = eng[r].total,
                                    !.updated = eng[r].updated,
                                    !.failed = eng[r].failed]
    /\ UNCHANGED <<metrics, trigger, ctxDone, eng, row, parentDone,
                   shutdown>>

\* The rest of complete: done is closed, the run is counted, and the goroutine
\* that notifies is spawned.
Announce(r) ==
    /\ at[r] = "completed"
    /\ at' = [at EXCEPT ![r] = "notifying"]
    /\ metrics' = [metrics EXCEPT
           !.completed = @ + 1,
           !.errors = @ + IF eng[r].failed > 0 \/ eng[r].status = RunFailed
                          THEN 1 ELSE 0]
    /\ UNCHANGED <<service, trigger, ctxDone, eng, row, parentDone, shutdown>>

\* The deferred Done is missing.
BadNotifyHoldsCount(r) ==
    /\ at[r] = "notifying"
    /\ at' = [at EXCEPT ![r] = "settled"]
    /\ \/ \E o \in NotifyResults : row' = [row EXCEPT ![r].notify = o]
       \/ StoreFaults /\ UNCHANGED row
    /\ UNCHANGED <<service, metrics, trigger, ctxDone, eng, parentDone, shutdown>>

\* One delivery attempt, and a best-effort write of what it reports.
Notify(r) ==
    /\ at[r] = "notifying"
    /\ at' = [at EXCEPT ![r] = "settled"]
    /\ \/ \E o \in NotifyResults : row' = [row EXCEPT ![r].notify = o]
       \/ StoreFaults /\ UNCHANGED row
    /\ notifyWG' = notifyWG - 1
    /\ UNCHANGED <<running, cancelOf, doneOf, last, progress, metrics, trigger,
                   ctxDone, eng, parentDone, shutdown>>

----------------------------------------------------------------------------
(***************************************************************************)
(* Cancellation and shutdown.                                              *)
(***************************************************************************)

Cancel ==
    /\ running
    /\ cancelOf # NoRun
    /\ ctxDone' = [ctxDone EXCEPT ![cancelOf] = TRUE]
    /\ UNCHANGED <<service, metrics, at, trigger, eng, row,
                   parentDone, shutdown>>

\* The scheduler's context ends; the contexts of its runs are its children.
ParentDone ==
    /\ ~parentDone
    /\ parentDone' = TRUE
    /\ ctxDone' = [r \in Runs |->
                      ctxDone[r] \/ (Live(r) /\ trigger[r] = "scheduled")]
    /\ UNCHANGED <<service, metrics, at, trigger, eng, row, shutdown>>

\* The channel is read after it was cleared.
BadShutdown ==
    /\ sd = "idle"
    /\ sd' = "done?"
    /\ stopping' = TRUE
    /\ sdDone' = NoRun
    /\ sdRuns' = {r \in Runs : at[r] \notin {"idle", "lost"}}
    /\ ctxDone' = IF cancelOf = NoRun THEN ctxDone
                  ELSE [ctxDone EXCEPT ![cancelOf] = TRUE]
    /\ UNCHANGED <<service, metrics, at, trigger, eng, row,
                   parentDone>>

Shutdown ==
    /\ sd = "idle"
    /\ sd' = "done?"
    /\ stopping' = TRUE
    /\ sdDone' = doneOf
    /\ sdRuns' = {r \in Runs : at[r] \notin {"idle", "lost"}}
    /\ ctxDone' = IF cancelOf = NoRun THEN ctxDone
                  ELSE [ctxDone EXCEPT ![cancelOf] = TRUE]
    /\ UNCHANGED <<service, metrics, at, trigger, eng, row,
                   parentDone>>

ShutdownSeesDone ==
    /\ sd = "done?"
    /\ sdDone # NoRun => DoneClosed(sdDone)
    /\ sd' = "notified?"
    /\ UNCHANGED <<service, metrics, at, trigger, ctxDone, eng, row,
                   parentDone, stopping, sdDone, sdRuns>>

\* Nobody waits for the notifications.
BadShutdownSeesNotified ==
    /\ sd = "notified?"
    /\ sd' = "nil"
    /\ UNCHANGED <<service, metrics, at, trigger, ctxDone, eng, row,
                   parentDone, stopping, sdDone, sdRuns>>

ShutdownSeesNotified ==
    /\ sd = "notified?"
    /\ notifyWG = 0
    /\ sd' = "nil"
    /\ UNCHANGED <<service, metrics, at, trigger, ctxDone, eng, row,
                   parentDone, stopping, sdDone, sdRuns>>

\* Shutdown's own context ends first.
ShutdownExpires ==
    /\ \/ sd = "done?" /\ sdDone # NoRun
       \/ sd = "notified?"
    /\ sd' = "expired"
    /\ UNCHANGED <<service, metrics, at, trigger, ctxDone, eng, row,
                   parentDone, stopping, sdDone, sdRuns>>

----------------------------------------------------------------------------

\* What the goroutine of run r does once the run is admitted.
Carry(r) ==
    \/ Launch(r)
    \/ EngineRefuses(r)
    \/ \E n \in 0..MaxTotal : EngineEnumerates(r, n)
    \/ EngineCounts(r)
    \/ EngineSettles(r)
    \/ EngineCloses(r)
    \/ Complete(r)
    \/ Announce(r)
    \/ Notify(r)

Request ==
    \/ \E r \in Runs : \/ StartManual(r)
                       \/ StartDryRun(r)
                       \/ \E src \in Runs : StartRetry(r, src)
    \/ BeginFails
    \/ Cancel

ShutdownProceeds == ShutdownSeesDone \/ ShutdownSeesNotified

Next ==
    \/ \E r \in Runs : Start(r) \/ Carry(r)
    \/ Request
    \/ ParentDone
    \/ Shutdown
    \/ ShutdownProceeds
    \/ ShutdownExpires

(***************************************************************************)
(* Goroutines that can run do run, engine calls end (SyncEngine shows it   *)
(* for the engine), and a delivery is bounded by its 10 s client timeout.  *)
(* Nobody has to start, cancel or stop anything.                           *)
(***************************************************************************)
Fairness == WF_vars(ShutdownProceeds) /\ \A r \in Runs : WF_vars(Carry(r))

Spec == Init /\ [][Next]_vars
FairSpec == Spec /\ Fairness

----------------------------------------------------------------------------
(***************************************************************************)
(* Properties.                                                             *)
(***************************************************************************)

Place == {"idle", "begun", "engine", "completed", "notifying", "settled",
          "lost"}

ProgressType ==
    [active : BOOLEAN, run : Runs \cup {NoRun},
     status : RunStatus \cup {"none"}, phase : Phase \cup {"none"},
     total : 0..MaxTotal, updated : 0..MaxTotal, failed : 0..MaxTotal,
     dryRun : BOOLEAN]

EngineType ==
    [stage : {"open", "counting", "settled", "closed"}, total : 0..MaxTotal,
     updated : 0..MaxTotal, failed : 0..MaxTotal, status : RunStatus,
     detail : BOOLEAN]

RowType ==
    [status : RunStatus \cup {"absent"}, failed : 0..MaxTotal,
     detail : BOOLEAN, notify : NotifyResults \cup {NotNotified}]

\* Every variable has its type.
TypeOK ==
    /\ running \in BOOLEAN
    /\ cancelOf \in Runs \cup {NoRun}
    /\ doneOf \in Runs \cup {NoRun}
    /\ last \in Runs \cup {NoRun}
    /\ progress \in ProgressType
    /\ notifyWG \in Nat
    /\ stopping \in BOOLEAN
    /\ metrics \in [started : Nat, completed : Nat, errors : Nat]
    /\ at \in [Runs -> Place]
    /\ trigger \in [Runs -> Triggers \cup {"none"}]
    /\ ctxDone \in [Runs -> BOOLEAN]
    /\ eng \in [Runs -> EngineType]
    /\ row \in [Runs -> RowType]
    /\ parentDone \in BOOLEAN
    /\ sd \in {"idle", "done?", "notified?", "nil", "expired"}
    /\ sdDone \in Runs \cup {NoRun}
    /\ sdRuns \in SUBSET Runs

\* README.md:67: "Only one run is admitted at a time".  A goroutine that holds
\* a run between begin and complete is the only one, and Cancel, Shutdown's
\* wait and the running flag all speak of that very run (service.go:111-137,
\* 171-191).
OneRun ==
    /\ \A r \in Runs : Live(r) <=> running /\ doneOf = r
    /\ cancelOf = doneOf
    /\ running <=> doneOf # NoRun

\* The snapshot an officer polls never mixes two runs: while a run is active it
\* shows that run with the counts its engine last reached and, once launched,
\* labels a dry run and only a dry run; afterwards it shows the result of the
\* last run to complete until another is begun (service.go:129-160, 183-190).
SnapshotFaithful ==
    /\ progress.active <=> running
    /\ running =>
          LET r == doneOf IN
          /\ progress.run = r
          /\ progress.status = RunRunning
          /\ progress.total = eng[r].total
          /\ progress.updated = eng[r].updated
          /\ progress.failed = eng[r].failed
          /\ at[r] = "engine" => (progress.dryRun <=> trigger[r] = "dry-run")
    /\ ~running /\ progress.run # NoRun =>
          LET r == progress.run IN
          /\ r = last
          /\ progress.status = eng[r].status
          /\ progress.updated = eng[r].updated
          /\ progress.failed = eng[r].failed
          /\ progress.dryRun <=> trigger[r] = "dry-run"

\* The notification WaitGroup holds one count for every completed run whose
\* notification has not ended (service.go:178-180, 228-231).
NotifyCountExact ==
    notifyWG = Cardinality({r \in Runs : Finishing(r)})

\* When Shutdown returns nil, every run admitted before it took the mutex has
\* completed and ended its notification, in whatever gap between two critical
\* sections Shutdown found it (service.go:296-319).
ShutdownDrains == sd = "nil" => \A r \in sdRuns : at[r] = "settled"

\* The ledger never contradicts the run it records, and a row a retry was
\* started from is a finished one: a terminal row carries the status its
\* engine settled on, and its notification came after (service.go:70-88,
\* 239-257; goal-1.md:8 "Preserve the original run").
LedgerAgrees ==
    \A r \in Runs :
       /\ row[r].status \in Terminal => /\ eng[r].stage = "closed"
                                        /\ row[r].status = eng[r].status
                                        /\ row[r].failed = eng[r].failed
       /\ row[r].notify # NotNotified => at[r] = "settled"

\* A row's result changes at most twice, when the row is opened and when the
\* run it belongs to, still in progress, finishes it.  Notifying, retrying and
\* further runs leave it alone (service.go:235-238: "neither the delivery nor
\* the bookkeeping may change the run's stored status or result"), and so does
\* a new process: a row whose run was lost stays "running".
ResultsKept ==
    [][\A r \in Runs :
          LET was == row[r]  is == row'[r] IN
          \/ <<is.status, is.failed, is.detail>>
                = <<was.status, was.failed, was.detail>>
          \/ was.status = "absent" /\ is = OpenRow
          \/ Live(r) /\ Transition(was.status, is.status)
      ]_row

\* Cancel and Shutdown stop the run in progress or nobody: no step cancels the
\* context of a run that has not begun or has already completed, so that a
\* request aimed at one run can never reach the next (service.go:284-302).
CancelHitsLiveRun ==
    [][\A r \in Runs : ctxDone'[r] /\ ~ctxDone[r] => Live(r)]_ctxDone

\* Every admitted run completes and ends its notification, cancelled or not.
RunsSettle == \A r \in Runs : at[r] = "begun" ~> at[r] = "settled"

\* Shutdown returns even if its context never expires, for every run it waits
\* on ends by itself (the ids bound how many runs can be begun behind it).
ShutdownReturns == sd = "done?" ~> sd \in {"nil", "expired"}

(***************************************************************************)
(* What the invariants above need to be inductive.                         *)
(***************************************************************************)

\* An id without a row has never been used, and a run that has not reached the
\* engine has counted nobody.
FreshIds ==
    \A r \in Runs :
       /\ row[r].status = "absent" => at[r] = "idle"
       /\ at[r] \in {"idle", "begun"} => eng[r] = NewEngine

\* While Shutdown waits for one run's channel, every other run it answers for
\* already has its notification counted or over; then that run has, too.
ShutdownKnows ==
    /\ sd = "done?" => \A r \in sdRuns : r # sdDone =>
                          Finishing(r) \/ at[r] = "settled"
    /\ sd = "notified?" => \A r \in sdRuns : Finishing(r) \/ at[r] = "settled"

\* A run that has only begun is not yet labelled a dry run.
LabelPending == running /\ at[doneOf] = "begun" => ~progress.dryRun

\* Until its engine closes, a run's row says "running"; a settled engine has
\* made up its mind.
RowAwaitsEngine ==
    \A r \in Runs :
       /\ Live(r) /\ eng[r].stage # "closed" => row[r].status = RunRunning
       /\ eng[r].stage = "settled" => eng[r].status \in Terminal

\* The invariant the proofs induct on: the mutex's state, the snapshot, the rows
\* and the runs tell one story in every gap of begin, complete, the
\* notifications and Shutdown (service.go:90-319).
ServiceInv ==
    /\ TypeOK
    /\ FreshIds
    /\ OneRun
    /\ LabelPending
    /\ SnapshotFaithful
    /\ RowAwaitsEngine
    /\ LedgerAgrees
    /\ NotifyCountExact
    /\ ShutdownKnows
    /\ ShutdownDrains

(***************************************************************************)
(* Refinements.                                                            *)
(***************************************************************************)
Ledger == INSTANCE RunLedger WITH
    active <- doneOf, ledger <- [r \in Runs |-> row[r].status]

\* The service keeps the ledger's promise: one active run, and a row that
\* leaves "running" once, while its run is active.
KeepsLedger == Ledger!Spec

Contract(r) == INSTANCE RunContract WITH
    stage <- eng[r].stage, cancelled <- ctxDone[r], total <- eng[r].total,
    updated <- eng[r].updated, failed <- eng[r].failed,
    status <- eng[r].status,
    row <- IF row[r].status = "absent" THEN RunRunning ELSE row[r].status

\* What the service assumes of each run's engine is what SyncEngine delivers.
EnginesKeepContract ==
    /\ \A r \in Runs : Contract(r)!Init
    /\ [][\A r \in Runs : [Contract(r)!Next]_(Contract(r)!vars)]_vars

=============================================================================
