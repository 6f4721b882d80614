------------------------------ MODULE SyncEngine ----------------------------
(***************************************************************************)
(* One call of Engine.RunGuildSyncWithOptions (sync/engine.go:122-242):    *)
(* the calling goroutine fetches and filters the roster, starts a pool of  *)
(* worker goroutines on an unbuffered channel, hands every member to a     *)
(* worker, waits for the WaitGroup, settles the run's status and writes    *)
(* its ledger row.  Its context may be cancelled between any two steps.    *)
(*                                                                         *)
(* pc names the caller's next step.  A worker is "off" before it is        *)
(* started, "idle" while it receives from the channel, "busy" inside       *)
(* syncCharacter, "ok" or "erred" when that call has returned and the      *)
(* counter mutex is still to be taken, "counted" between the counters and  *)
(* the deferred wg.Done, and "exited" when the channel is closed.          *)
(***************************************************************************)
EXTENDS SyncDomain, Integers, FiniteSets

CONSTANTS
    Members,     \* the entries a guild roster may hold
    Names,       \* character names; two members may share one
    NameOf,      \* the name of each member
    Workers,     \* the worker goroutines
    NoMember,    \* the job of a worker that has none
    StoreFaults  \* whether the ledger write may fail under a live context

ASSUME MembersAssumption == IsFiniteSet(Members)
ASSUME WorkersAssumption == IsFiniteSet(Workers) /\ Workers # {}
ASSUME NameOfAssumption == NameOf \in [Members -> Names]
ASSUME NoMemberAssumption == NoMember \notin Members
ASSUME StoreFaultsAssumption == StoreFaults \in BOOLEAN

VARIABLES
    pc,          \* where the calling goroutine is
    cancelled,   \* ctx.Err() # nil
    only,        \* opt.Names; empty means everybody
    roster,      \* roster.Members after the filter; run.Total is its size
    pending,     \* the members not sent yet
    closed,      \* close(jobs) was called
    worker, job, \* each worker's position and the member it holds
    wg,          \* the WaitGroup's counter
    updated, failed, details,  \* run.Updated, run.Failed, keys of details
    status, summary,           \* run.Status, run.ErrorSummary
    detail,      \* the names in run.Detail; ByID reads none and {} alike
    detached,    \* finish got the detached context
    row,         \* the run's row in sync_runs
    reported     \* what the Progress hook was last told

pool     == <<closed, worker, job, wg>>
counters == <<updated, failed, details>>
result   == <<status, summary, detail>>
vars == <<pc, cancelled, only, roster, pending, pool, counters, result,
          detached, row, reported>>

Total == Cardinality(roster)

\* Where the caller is before the pool, inside it, and after wg.Wait.
Before == {"fetch", "anchor", "start"}
During == {"dispatch", "release", "close", "wait"}
After  == {"settle", "detail", "choose", "finish", "returned"}

WorkerState == {"off", "idle", "busy", "ok", "erred", "counted", "exited"}

\* Workers that hold a member not yet counted, and those that owe wg.Done.
Holding == {w \in Workers : worker[w] \in {"busy", "ok", "erred"}}
Owing   == {w \in Workers : worker[w] \in {"busy", "ok", "erred", "counted"}}

Summaries == {"none", "cancelled", "fetch error", "some failed"}

Report(phase, u, f, t) ==
    reported' = [phase |-> phase, updated |-> u, failed |-> f, total |-> t]

\* What Finish would write.
Outcomes == [status |-> status, total |-> Total, updated |-> updated,
             failed |-> failed, summary |-> summary, detail |-> detail]

OpenRow == [status |-> RunRunning, total |-> 0, updated |-> 0, failed |-> 0,
            summary |-> "none", detail |-> {}]

Init ==
    /\ pc = "fetch"
    /\ cancelled \in BOOLEAN
    /\ only \in SUBSET Names
    /\ roster = {}
    /\ pending = {}
    /\ closed = FALSE
    /\ worker = [w \in Workers |-> "off"]
    /\ job = [w \in Workers |-> NoMember]
    /\ wg = 0
    /\ updated = 0 /\ failed = 0 /\ details = {}
    /\ status = RunRunning /\ summary = "none" /\ detail = {}
    /\ detached = FALSE
    /\ row = OpenRow
    /\ reported = [phase |-> PhaseQueued, updated |-> 0, failed |-> 0,
                   total |-> 0]

----------------------------------------------------------------------------
(***************************************************************************)
(* Definitions named Bad... are not part of the model: each is the action  *)
(* that follows it with a plausible mistake, to see that the properties    *)
(* below would notice.                                                     *)
(***************************************************************************)

(***************************************************************************)
(* The calling goroutine up to the pool.                                   *)
(***************************************************************************)

\* The members a run works on: everybody, or the named ones of a retry.
Selected(fetched) ==
    {m \in fetched : only = {} \/ NameOf[m] \in only}

FetchRoster(fetched) ==
    /\ pc = "fetch"
    /\ pc' = "anchor"
    /\ roster' = Selected(fetched)
    /\ pending' = Selected(fetched)
    /\ Report(PhaseRoster, 0, 0, Cardinality(Selected(fetched)))
    /\ UNCHANGED <<cancelled, only, pool, counters, result, detached, row>>

\* No roster: the run has failed, and only its row is left to write.
FetchFails ==
    /\ pc = "fetch"
    /\ pc' = "choose"
    /\ status' = RunFailed
    /\ summary' = IF cancelled THEN "cancelled" ELSE "fetch error"
    /\ UNCHANGED <<cancelled, only, roster, pending, pool, counters, detail,
                   detached, row, reported>>

\* The total is not carried over from the roster's report.
BadResolveTierAnchor ==
    /\ pc = "anchor"
    /\ pc' = "start"
    /\ Report(PhaseTierAnchor, 0, 0, 0)
    /\ UNCHANGED <<cancelled, only, roster, pending, pool, counters, result,
                   detached, row>>

\* The tier anchor is best effort: whatever it finds, the run goes on.
ResolveTierAnchor ==
    /\ pc = "anchor"
    /\ pc' = "start"
    /\ Report(PhaseTierAnchor, 0, 0, Total)
    /\ UNCHANGED <<cancelled, only, roster, pending, pool, counters, result,
                   detached, row>>

StartWorkers ==
    /\ pc = "start"
    /\ pc' = "dispatch"
    /\ worker' = [w \in Workers |-> "idle"]
    /\ wg' = wg + Total
    /\ Report(PhaseCharacters, 0, 0, Total)
    /\ UNCHANGED <<cancelled, only, roster, pending, closed, job, counters,
                   result, detached, row>>

(***************************************************************************)
(* The dispatch loop.  The channel is unbuffered: a send is the receive of *)
(* an idle worker.  Once the context is cancelled Go picks either branch   *)
(* of the select that is ready.                                            *)
(***************************************************************************)
Dispatch(w, m) ==
    /\ pc = "dispatch"
    /\ m \in pending
    /\ worker[w] = "idle"
    /\ pending' = pending \ {m}
    /\ worker' = [worker EXCEPT ![w] = "busy"]
    /\ job' = [job EXCEPT ![w] = m]
    /\ UNCHANGED <<pc, cancelled, only, roster, closed, wg, counters, result,
                   detached, row, reported>>

LeaveDispatch ==
    /\ pc = "dispatch"
    /\ pending = {} \/ cancelled
    /\ pc' = "release"
    /\ UNCHANGED <<cancelled, only, roster, pending, pool, counters, result,
                   detached, row, reported>>

\* One unsent member is not released.
BadReleaseUnsent ==
    /\ pc = "release"
    /\ pc' = "close"
    /\ wg' = IF pending = {} THEN wg ELSE wg - (Cardinality(pending) - 1)
    /\ UNCHANGED <<cancelled, only, roster, pending, closed, worker, job,
                   counters, result, detached, row, reported>>

\* Members never handed to a worker still own a WaitGroup count.
ReleaseUnsent ==
    /\ pc = "release"
    /\ pc' = "close"
    /\ wg' = wg - Cardinality(pending)
    /\ UNCHANGED <<cancelled, only, roster, pending, closed, worker, job,
                   counters, result, detached, row, reported>>

CloseJobs ==
    /\ pc = "close"
    /\ pc' = "wait"
    /\ closed' = TRUE
    /\ UNCHANGED <<cancelled, only, roster, pending, worker, job, wg,
                   counters, result, detached, row, reported>>

Wait ==
    /\ pc = "wait"
    /\ wg = 0
    /\ pc' = "settle"
    /\ UNCHANGED <<cancelled, only, roster, pending, pool, counters, result,
                   detached, row, reported>>

----------------------------------------------------------------------------
(***************************************************************************)
(* The workers.                                                            *)
(***************************************************************************)

SyncCharacter(w) ==
    /\ worker[w] = "busy"
    /\ \E outcome \in {"ok", "erred"} :
          worker' = [worker EXCEPT ![w] = outcome]
    /\ UNCHANGED <<pc, cancelled, only, roster, pending, closed, job, wg,
                   counters, result, detached, row, reported>>

\* The counter mutex is held from the counts to the report.
CountUpdated(w) ==
    /\ worker[w] = "ok"
    /\ worker' = [worker EXCEPT ![w] = "counted"]
    /\ updated' = updated + 1
    /\ Report(PhaseCharacters, updated + 1, failed, Total)
    /\ UNCHANGED <<pc, cancelled, only, roster, pending, closed, job, wg,
                   failed, details, result, detached, row>>

CountFailed(w) ==
    /\ worker[w] = "erred"
    /\ worker' = [worker EXCEPT ![w] = "counted"]
    /\ failed' = failed + 1
    /\ details' = details \cup {NameOf[job[w]]}
    /\ Report(PhaseCharacters, updated, failed + 1, Total)
    /\ UNCHANGED <<pc, cancelled, only, roster, pending, closed, job, wg,
                   updated, result, detached, row>>

WorkerDone(w) ==
    /\ worker[w] = "counted"
    /\ worker' = [worker EXCEPT ![w] = "idle"]
    /\ job' = [job EXCEPT ![w] = NoMember]
    /\ wg' = wg - 1
    /\ UNCHANGED <<pc, cancelled, only, roster, pending, closed, counters,
                   result, detached, row, reported>>

\* The range over jobs ends when the channel is closed.
WorkerExit(w) ==
    /\ worker[w] = "idle"
    /\ closed
    /\ worker' = [worker EXCEPT ![w] = "exited"]
    /\ UNCHANGED <<pc, cancelled, only, roster, pending, closed, job, wg,
                   counters, result, detached, row, reported>>

----------------------------------------------------------------------------
(***************************************************************************)
(* The calling goroutine after the pool.  It asks ctx.Err() three times,   *)
(* once in each of Settle, RecordDetail and ChooseContext, and the context *)
(* may be cancelled in between.                                            *)
(***************************************************************************)

Settle ==
    /\ pc = "settle"
    /\ pc' = "detail"
    /\ IF cancelled
       THEN status' = RunFailed /\ summary' = "cancelled"
       ELSE status' = Outcome(updated, failed) /\ summary' = summary
    /\ UNCHANGED <<cancelled, only, roster, pending, pool, counters, detail,
                   detached, row, reported>>

\* The summary without the names.
BadRecordDetail ==
    /\ pc = "detail"
    /\ pc' = "choose"
    /\ summary' = IF failed > 0 /\ ~cancelled THEN "some failed" ELSE summary
    /\ UNCHANGED <<cancelled, only, roster, pending, pool, counters, status,
                   detail, detached, row, reported>>

RecordDetail ==
    /\ pc = "detail"
    /\ pc' = "choose"
    /\ IF failed > 0 /\ ~cancelled
       THEN summary' = "some failed" /\ detail' = details
       ELSE UNCHANGED <<summary, detail>>
    /\ UNCHANGED <<cancelled, only, roster, pending, pool, counters, status,
                   detached, row, reported>>

\* A cancelled run gets a detached context for its last write.
ChooseContext ==
    /\ pc = "choose"
    /\ pc' = "finish"
    /\ detached' = cancelled
    /\ Report(PhaseFinalizing, updated, failed, Total)
    /\ UNCHANGED <<cancelled, only, roster, pending, pool, counters, result,
                   row>>

\* The UPDATE is lost when its context is cancelled before it commits.
MayLoseWrite == StoreFaults \/ (cancelled /\ ~detached)

\* The row gets the status that the counts alone would justify.
BadFinishRecounts ==
    /\ pc = "finish"
    /\ pc' = "returned"
    /\ \/ row' = [Outcomes EXCEPT !.status = Outcome(updated, failed)]
       \/ MayLoseWrite /\ row' = row
    /\ UNCHANGED <<cancelled, only, roster, pending, pool, counters, result,
                   detached, reported>>

\* A write that failed is tried again for ever, with one context or the other.
BadFinishRetries ==
    /\ pc = "finish"
    /\ \/ pc' = "returned" /\ row' = Outcomes /\ UNCHANGED detached
       \/ MayLoseWrite /\ detached' = ~detached /\ UNCHANGED <<pc, row>>
    /\ UNCHANGED <<cancelled, only, roster, pending, pool, counters, result,
                   reported>>

Finish ==
    /\ pc = "finish"
    /\ pc' = "returned"
    /\ \/ row' = Outcomes
       \/ MayLoseWrite /\ row' = row
    /\ UNCHANGED <<cancelled, only, roster, pending, pool, counters, result,
                   detached, reported>>

----------------------------------------------------------------------------

\* Service.Cancel or Service.Shutdown, or the end of the parent context.
Cancel ==
    /\ ~cancelled
    /\ cancelled' = TRUE
    /\ UNCHANGED <<pc, only, roster, pending, pool, counters, result,
                   detached, row, reported>>

Worker(w) ==
    \/ \E m \in Members : Dispatch(w, m)
    \/ SyncCharacter(w)
    \/ CountUpdated(w)
    \/ CountFailed(w)
    \/ WorkerDone(w)
    \/ WorkerExit(w)

Caller ==
    \/ \E fetched \in SUBSET Members : FetchRoster(fetched)
    \/ FetchFails
    \/ ResolveTierAnchor
    \/ StartWorkers
    \/ LeaveDispatch
    \/ ReleaseUnsent
    \/ CloseJobs
    \/ Wait
    \/ Settle
    \/ RecordDetail
    \/ ChooseContext
    \/ Finish

\* The call has returned and no goroutine of it is left.
Returned ==
    /\ pc = "returned"
    /\ \A w \in Workers : worker[w] \in {"off", "exited"}
    /\ UNCHANGED vars

Next == Caller \/ (\E w \in Workers : Worker(w)) \/ Cancel \/ Returned

(***************************************************************************)
(* The Go runtime runs every goroutine that can run, and every call out    *)
(* returns: Blizzard requests have a 20 s client timeout and at most five  *)
(* attempts, and the ledger write ends with its context or the database.   *)
(* Nobody has to cancel.                                                   *)
(***************************************************************************)
Fairness == WF_vars(Caller) /\ \A w \in Workers : WF_vars(Worker(w))

Spec == Init /\ [][Next]_vars
FairSpec == Spec /\ Fairness
----------------------------------------------------------------------------
(***************************************************************************)
(* Properties.                                                             *)
(***************************************************************************)

ReportType == [phase : Phase, updated : Nat, failed : Nat, total : Nat]

RowType == [status : RunStatus, total : Nat, updated : Nat, failed : Nat,
            summary : Summaries, detail : SUBSET Names]

\* Every variable has its type; wg is an Int so that a count below zero,
\* which panics in Go, can be told.
TypeOK ==
    /\ pc \in Before \cup During \cup After
    /\ cancelled \in BOOLEAN
    /\ only \in SUBSET Names
    /\ roster \in SUBSET Members
    /\ pending \in SUBSET Members
    /\ closed \in BOOLEAN
    /\ worker \in [Workers -> WorkerState]
    /\ job \in [Workers -> Members \cup {NoMember}]
    /\ wg \in Int
    /\ updated \in Nat /\ failed \in Nat
    /\ details \in SUBSET Names
    /\ status \in RunStatus
    /\ summary \in Summaries
    /\ detail \in SUBSET Names
    /\ detached \in BOOLEAN
    /\ row \in RowType
    /\ reported \in ReportType

\* The WaitGroup always holds one count for every member a worker has not
\* finished with and, until the unsent ones are released, one for every member
\* still in the queue: it never goes negative, which would panic, and reaches
\* zero no sooner than the last worker is done (engine.go:196-213).
WaitGroupExact ==
    wg = Cardinality(Owing)
         + IF pc \in {"dispatch", "release"} THEN Cardinality(pending) ELSE 0

\* No member is lost or counted twice: at every moment the counted, the held
\* and the unsent members make up the roster (engine.go:170-188).
MembersAccounted ==
    updated + failed + Cardinality(Holding) + Cardinality(pending) = Total

\* When the caller reads the counters after wg.Wait no worker can still write
\* them, and the result it settles is final (engine.go:213-224).
QuiescentAfterWait == pc \in After => Owing = {}

\* A run that calls itself a success updated everybody on its roster, a
\* partial one failed somebody, updated somebody and left nobody out: a member
\* skipped by a cancellation is never hidden behind either (engine.go:214-219).
HonestOutcome ==
    pc \in After =>
       /\ status = RunSuccess => updated = Total
       /\ status = RunPartial =>
             updated > 0 /\ failed > 0 /\ updated + failed = Total

\* A run that says some characters failed carries a list a retry can act on: it
\* names at least one of them, no more than failed (two of one name share an
\* entry), and only names on the roster.  A row that calls its run partial holds
\* such a list too, unless the run was cancelled: the status and the detail are
\* chosen by two looks at ctx.Err() (engine.go:177,214-223; service.go:75-82).
DetailRetryable ==
    /\ summary = "some failed" => detail # {}
    /\ Cardinality(detail) <= failed
    /\ detail \subseteq {NameOf[m] : m \in roster}
    /\ row.status = RunPartial => row.detail # {} \/ cancelled

\* The hook never goes back: phases follow each other, counts only grow and
\* the total does not change once the roster is known (engine.go:134-224).
ReportsAdvance ==
    [][ /\ PhaseRank(reported'.phase) >= PhaseRank(reported.phase)
        /\ reported'.updated >= reported.updated
        /\ reported'.failed >= reported.failed
        /\ reported.phase # PhaseQueued => reported'.total = reported.total
      ]_reported

\* Every call returns and leaves no worker behind, cancelled or not: the unsent
\* members are released "so cancellation cannot deadlock" (engine.go:207-208).
EngineSettles ==
    <>(pc = "returned" /\ \A w \in Workers : worker[w] \in {"off", "exited"})

(***************************************************************************)
(* What TypeOK, WaitGroupExact, MembersAccounted, QuiescentAfterWait and   *)
(* HonestOutcome need to be inductive.                                     *)
(***************************************************************************)

\* Nothing is on the roster before it is fetched, and before StartWorkers
\* nothing has left the queue and no worker exists, so a failed fetch leaves a
\* quiescent pool behind.
PoolUnstarted ==
    /\ pc = "fetch" => roster = {}
    /\ pc \in Before => pending = roster
    /\ pc \in Before => \A w \in Workers : worker[w] = "off"

\* What a worker holds is on the roster, was taken out of the queue, and is in
\* no other worker's hands (engine.go:189-206).
HeldOnRoster ==
    /\ pending \subseteq roster
    /\ \A w \in Holding : job[w] \in roster \ pending
    /\ \A v, w \in Holding : job[v] = job[w] => v = w

\* The dispatch loop leaves members unsent only when it saw a cancellation,
\* which nothing takes back (engine.go:199-206).
SkippedMeansCancelled ==
    pc \in {"release", "close", "wait", "settle"} /\ pending # {} => cancelled

\* The run object says "running" until Settle or a failed fetch.
Unsettled ==
    pc \in Before \cup During \cup {"settle"} => status = RunRunning

\* The invariant the proofs induct on: the pool's bookkeeping from the queue to
\* the settled result, whatever step a cancellation falls on (engine.go:161-224).
IInv ==
    /\ TypeOK
    /\ WaitGroupExact
    /\ MembersAccounted
    /\ QuiescentAfterWait
    /\ HonestOutcome
    /\ PoolUnstarted
    /\ HeldOnRoster
    /\ SkippedMeansCancelled
    /\ Unsettled

(***************************************************************************)
(* The engine keeps the contract of a run.                                 *)
(***************************************************************************)
Stage ==
    CASE pc = "fetch"                                        -> "open"
      [] pc \in {"anchor", "start", "settle"} \cup During    -> "counting"
      [] pc \in {"detail", "choose", "finish"}               -> "settled"
      [] OTHER                                               -> "closed"

Contract == INSTANCE RunContract WITH
    MaxTotal <- Cardinality(Members), stage <- Stage, total <- Total,
    row <- row.status

\* One call of the engine is a run of RunContract: whatever the interleaving
\* of workers and cancellation, each step counts one member, settles the status
\* the counts justify, or writes that status (engine.go:122-242).
KeepsContract == Contract!Spec
=============================================================================
