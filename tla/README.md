# ApeKeeper: TLA+ models, checks and proofs

This directory holds formal models of ApeKeeper, the guild-roster service in
this repository: a Go backend that synchronises World of Warcraft guild data
from the Blizzard API into PostgreSQL, an HTTP API over it, and a Svelte
single-page application. Its core is the life of a *sync run*, from the request
that admits it to the last write about it, under cancellation, shutdown, failing
writes and crashes. Around it are models of one character's sync, the upstream
client, the scheduler, sign-in, memberships, the officers' transactions, the
request limits, the history that is read back, and the page that watches a run.

## The system

| Part | State it keeps | Operations | What makes it correct |
| --- | --- | --- | --- |
| Sync engine (`internal/sync/engine.go`) | a run object, a job channel, a `WaitGroup`, two counters and a failure map under a mutex | one call per run: fetch the roster, resolve the tier anchor, run the worker pool, settle, write the row | every member counted once, no worker left behind, an honest final status, a partial run that can be retried |
| Character sync (`engine.go:243`, `snapshots.go`, `domain/snapshot.go`) | rows of a character, its progression and snapshots | fetch five resources, upsert, replace, capture | a dry run writes nothing, a failed fetch does not erase good data, a snapshot after every real change |
| Sync service (`internal/sync/service.go`) | running flag, cancel function, done channel, last run, progress snapshot, notification `WaitGroup` under `s.mu` | Start, StartManual, StartDryRun, StartRetry, ReportProgress, complete, recordNotification, Cancel, Progress, Shutdown | one run at a time, a snapshot of one run, Cancel hits the run in progress, Shutdown drains |
| Run ledger (`internal/store/syncruns.go`) | table `sync_runs` | Create, Finish, SetNotifyStatus, ByID, History | a row leaves "running" once and is never rewritten |
| Server process (`cmd/apekeeper/main.go`) | signal context, HTTP server, services, background goroutines | start, serve, signal, drain, exit | an orderly stop leaves nothing running; a new process starts clean |
| Scheduler, sweeper (`internal/sched`) | timers, a trigger channel, a ticker, readiness counters | fire daily, fire when triggered, sweep, stop | no instant lost or served twice, dead loops reported, everything stops |
| Blizzard client (`internal/blizzard`) | token bucket, cached app token and its mutex | request with retries, Wait, appToken | bounded and paid attempts, one token fetch at a time, every call returns |
| Sign-in (`internal/auth`, `store/users.go`) | OAuth states, identities, users, sessions | login, callback, logout, session lookup, sweep | a state is used once and in time, one user per account, somebody administers |
| Memberships (`store/memberships.go`, `httpapi/api.go`) | roles per guild | invite, change, remove, and the insert that every request makes | nobody rises above the one who grants, a removal lasts |
| Officer workflow (`store/officer.go`) | tags, notes, reviews, activity | bulk tags, complete, update; queue, activity | all or nothing, every change logged, notes have the right author |
| Snapshots and history (`store/progression.go`, `characters.go`) | `progression_snapshots` | insert, last, sweep; history, notable changes, trends | what is shown is what was captured |
| HTTP API (`internal/httpapi`) | request lists per bucket and client | routes over the stores and the service | limits per window, no refusal too early |
| Sync view (`frontend/src/routes/Sync.svelte`) | generation, polling flag, snapshot, newest row | load, poll, trigger, cancel, reload | a stale answer is dropped, polling ends, the end is announced |
| Discord, configuration, logging, migrations | none after start-up | one bounded delivery per run; the rest is plumbing | delivery never changes a run |

How they interact. The scheduler's goroutine and HTTP handlers call the
service. `begin` takes `s.mu`, inserts a ledger row while holding it, and
installs a cancel function and a done channel; the engine then runs on the
scheduler's goroutine or on one of its own and calls back into
`ReportProgress`. Each of the engine's workers makes its requests through the one
Blizzard client and writes one character through the stores. `complete` clears
the running state in one critical section and, after it, closes the done channel
and spawns the goroutine that notifies and writes `notify_status`. `Cancel` and
`Shutdown` come from other goroutines at any time. All the parties share the
database, which is all that a new process finds: it has no table of its own for
locks or leases, so what two handlers may do to each other is decided by single
statements at READ COMMITTED.

The hard behaviours are therefore interleavings of critical sections and of
statements, a context that is looked at several times and cancelled in between,
writes that fail or whose answer is lost, answers that arrive out of order, and
the end of the process at any step. `PROJECT.json` lists each of these hazards at
its line.

## Modules

| Module | Models | Kind |
| --- | --- | --- |
| `SyncDomain` | statuses, phases, `Outcome`, `Transition`, `CanStart` of `domain/sync.go` | constants and pure rules |
| `RunContract` | what one engine call promises | abstract specification |
| `SyncEngine` | the worker pool and the caller of `RunGuildSyncWithOptions`, step by step | detailed, implements `RunContract` |
| `RunLedger` | what the service promises of the ledger | abstract specification |
| `SyncService` | `service.go`, one action per critical section of `s.mu` | detailed, implements `RunLedger` and, for each run, `RunContract` |
| `ServerProcess` | `main.go` around one service: signal, drain, exit, crash, restart | composition, extends `SyncService`, implements `RunLedger` |
| `CharacterSync` | one character: `syncCharacter`, `capture`, the tier anchor, the sweep | state machine |
| `BlizzardClient` | limiter, retries and app token under concurrent callers | state machine, fair |
| `Scheduler` | the daily loops, the sweeper, the readiness check | state machine, fair |
| `SignIn` | OAuth states, callbacks, users, sessions | state machine |
| `Membership` | roles in guilds and the handlers that change them | state machine |
| `OfficerWorkflow` | the officers' transactions under READ COMMITTED | state machine, fair |
| `RateLimiter` | the sliding-window request limits | state machine |
| `SnapshotHistory` | captures, the sweeper, and the queries over snapshots | state machine and pure operators |
| `SyncView` | `Sync.svelte` over the service and the ledger | state machine, fair |
| `NightlySyncs`, `SyncPage`, `Progression` | what one may rely on of `Scheduler`, `SyncView` and `SnapshotHistory`, which each brings in by `INSTANCE`, so that proofs can have them beside other modules | assumptions and properties |
| `SyncEngineProofs`, `BlizzardClientProofs`, `SignInProofs`, `MembershipProofs`, `OfficerWorkflowProofs`, `RateLimiterProofs` | theorems about the modules they are named after | proofs |
| `SyncServiceProofs` | theorems about `SyncService` and `ServerProcess`, then about `NightlySyncs` and `SyncPage` | proofs |
| `CharacterSyncProofs` | theorems about `CharacterSync`, then about `Progression` | proofs |
| `MC...` | the instance of each for TLC | model checking |

Operators whose name starts with `Bad` are not part of any model. Each is the
definition after it with a plausible mistake; they show that the properties would
notice (`PROJECT.json`, "mutants").

### SyncEngine

`pc` is the position of the calling goroutine between `GuildRoster` and the
return; `worker[w]` the position of each pool goroutine, `job[w]` the member it
holds, `wg` the `WaitGroup`, `pending` the members not yet sent on the
unbuffered channel. A send on that channel *is* the receive of an idle worker,
so `Dispatch` moves both. `LeaveDispatch` is enabled by an empty queue or by a
cancelled context, while `Dispatch` stays enabled: Go's `select` picks either
ready branch. `CountUpdated` and `CountFailed` are the critical section of the
counter mutex with the report made inside it. The caller's three looks at
`ctx.Err()` after the pool are three actions (`Settle`, `RecordDetail`,
`ChooseContext`), and `Cancel` may fall between any two. `Finish` writes the
row, or loses the write when the store fails (`StoreFaults`) or when the chosen
context was the live one and is cancelled by now.

Abstracted: `syncCharacter` is one step that succeeds or fails (`CharacterSync`
has its inside); error texts are the failing member's name; names are values of a
set, and two members may share one, because the failure map is keyed by name
without the realm.

### SyncService

`running`, `cancelOf`, `doneOf`, `last`, `progress`, `notifyWG` and `stopping`
are the fields of `Service`; a cancel function or a done channel is named by
the run it belongs to. `at[r]` is the position of the goroutine that carries
run `r`, `ctxDone[r]` whether its context is cancelled, `row[r]` its ledger
row. `Begin` includes the INSERT, because `begin` holds the mutex across it;
`BeginFails` includes the INSERT that was committed although its answer was
lost. `Launch` is the second critical section of `startAsync`. Inside the
engine the run moves by the actions of `RunContract`; that the real engine
does the same is proved separately (below), and `EnginesKeepContract` says
that this account adds nothing to the contract. `Complete` is the critical
section of `complete`, `Announce` what follows it, `Notify` the delivery and
its best-effort write, `Shutdown`, `ShutdownSeesDone`, `ShutdownSeesNotified`
and `ShutdownExpires` the four ways through `Shutdown`. `metrics` counts as
`Metrics` does; `sdRuns` is a history variable, the runs admitted before
`Shutdown` took the mutex.

`main` always installs a notifier, so `complete` always adds to the
`WaitGroup`; a disabled webhook is a delivery that reports "skipped".

### ServerProcess

`http` is the state of the HTTP server, `handler` whether a request is being
served, `proc` whether the process is up. `Signal` cancels the scheduler's
context; `CloseListener` is the start of `server.Shutdown`; `Drain` its return,
in time or at the shared ten-second deadline; `MainReturns` is possible as soon
as the listener is closed, because `ListenAndServe` returns then. `Crash` may
happen at any step. `Boot` resets everything but `row`, and marks as lost the
runs that were being carried. Several guilds have a service each, with no state
in common but the deadline of `Shutdown`; one service is modelled, with one
request in flight at a time.

### CharacterSync

`pc` is the resource that comes next, `job` the local variables of
`syncCharacter`, `upstream` what Blizzard knows during this run, and the rest the
character's rows. One action is one resource, the request and the statement that
stores its answer: nobody else writes these rows meanwhile, because a guild has
one run and a run has each character once. Every request may succeed, fail or
find nothing (404), every statement may fail or be committed with its answer
lost. `Numeric` is what a `numeric(8,2)` column keeps of a rating and `ReadBack`
what a `jsonb` column gives back of the raid payload: the comparison that decides
about a snapshot compares the two, so neither may be the identity. `Journal` holds
Blizzard's entries by name, so the "Current Season" one may share its id with an
expansion; the sweep removes the oldest rows. `job.trouble`
is a history variable, the steps that went wrong.

### BlizzardClient

`bucket` is the limiter's channel, `holder` the app token's mutex, `left` the
lifetime of the cached token, and `call[w]` the state of caller `w`. A request
takes a limiter token (`TakeToken`), then asks for the app token (`UseCached` or
`FetchToken`), which may make it a token request *inside* the api request, with
its own limiter token and retries, while `holder` keeps the others waiting.
`Elapse` is a unit of time: no attempt outlives the HTTP client's timeout.
Abstracted: URLs, bodies, and the length of a backoff.

### Scheduler

Time is the time of day and goes round for ever. `timer[g]` counts what is left
of a loop's wait on the monotonic clock, so `SetClock`, which moves the wall clock,
leaves it alone, except for a loop between its two readings of the clock
(`arming`), which `time.Until` makes a negative or longer wait. The branches of
`Run`'s select are `TimerFires`, `TakeTrigger` and `SeeDone`, all enabled at
once. `trigger[g]` and `tick` are channels of one. `owed`, `asked` and `early`
are history variables for the properties. `Trigger` has no caller in the program,
only in the tests of the package; it is modelled because it is part of the
loop's select.

### SignIn and Membership

A handler is a sequence of statements, one action each. In `SignIn` the upsert of
a user is two actions, because its CTE reads a snapshot when it starts and
commits later: two first sign-ins may both find `users` empty. `Restart` brings
another set of configured super admins. Rows are named by the state that created
them. In `Membership` every request starts with the insert of `SessionUser`
(`Boot`), then chooses its guild (`ChosenGuild`, from a cookie that may name a
guild the user has left), reads the actor's role, the target's role, writes, and
audits, in five statements between which everybody else moves. `disturbed` is a
history variable: a row of the handler's actor or target has changed meanwhile.
There are no configured guilds but those of the installation at hand (`Worlds`).

### OfficerWorkflow

`rows` and `activity` are what is committed, `lock[c]` the transaction that has
written row `c`, `tx[r]` the request with its uncommitted writes. A SELECT reads
committed rows without waiting; an upsert waits for the row's lock and works on
the version that is committed then; a cycle of waits is aborted by the database
(`Abort`). The answer to COMMIT may be lost.

### RateLimiter

A handler reads the clock (`Arrive`), then takes the bucket's mutex (`Allow`), so
hits may be appended out of the order of their stamps; `MaxDelay` bounds the wait
between the two. `hits` is the list for each bucket and client; `in` is a history
variable, the time at which the mutex was held. `IInv` is the invariant of the
proof.

### SnapshotHistory

`Capture` reads the last snapshot, `InsertSnapshot` inserts if it differs; the sweeper
and the clock move in between. A snapshot's progress is one number, a rating in
thousandths, of which the `numeric(8,2)` column keeps the hundredths (`Numeric`): what
is compared is the rating as fetched with the one that was rounded. That a payload
with raids never equals the stored one is taken from `CharacterSync`. A tick is
coarser than the stamps, which are unique for a character; captures of one tick are
told apart by their ids. `seen` is a history variable, what each capture saw and the
least id of a row after it. `History`, `Comparison`, `Notable` and `Representatives`
are the queries, as operators over the rows, and the properties hold for every range
and limit the handler accepts.

### SyncView

`calls` are the page's requests in flight, each `sent`, then `answered` with the
server's state of that moment, then continued by the page, in any order. `fresh`
is `request = generation` in the source: `load` starts a new generation. The
service is reduced to what `SyncService` is proved to do: the row and the live
snapshot appear together, and the row is finished before the snapshot, unless it
is an orphan that nobody finishes.

## Runs

Each run checks conjunctions of named parts; the parts are defined, with a
comment each, at the end of the module. For `SnapshotHistory`, `Scheduler` and
`SyncView` the conjunctions, and the assumptions on their constants, are in
`Progression`, `NightlySyncs` and `SyncPage`.

| Run | Instance | Shows |
| --- | --- | --- |
| `EngineLive` | 3 members of 2 names, 2 workers, every filter, failing store | the inductive invariant (type, WaitGroup, accounting, quiescence, honest outcome), a partial run can be retried unless it was cancelled, reports only advance, every call returns with no worker left, `RunContract` is implemented |
| `ServiceLive` | 2 runs started by request, fair | the service's inductive invariant (one run, a faithful snapshot, a Shutdown that drained), cancellation reaches the live run only, every run settles, Shutdown returns |
| `ServerRestart` | 2 runs, scheduled and manual, an empty roster, failing store, any number of crashes | the invariants across restarts, nothing slips in behind an orderly Shutdown, a clean stop leaves nothing, `RunLedger` is implemented throughout |
| `CharacterStored` | 2 syncs of one character, 2 item levels, 3 ratings of which 2 are stored alike, 3 raid answers | failures reported, success complete up to what a column rounds off, a dry run writes nothing, good data kept |
| `ClientLive` | 2 callers, burst 2, 2 attempts, fair | one token fetch at a time, paid and bounded attempts, the token outlives its attempt, every call returns |
| `SignInSafety` | 2 states, 2 callbacks, 2 accounts, configurations that change | states used once and in time, one user per account, somebody administers, roles only rise, sessions last until logout or expiry |
| `MembersSafety` | 3 users of 3 platform roles, a new guild or two settled ones, 2 handlers | entitlement at the moment of the write, removals and roles left to the handlers |
| `LimiterSafety` | 4 requests, 2 clients, 5 kinds of route, a delay at the mutex | never above the limit in a window, never refused too early (part of `IInv`) |
| `OfficerLive` | 2 requests of 14 kinds over 5 targets, 2 guilds, fair | all or nothing, tags bounded, changes attributed, every request answered |
| `HistoryOfOne` | 3 snapshots of one character over 5 ticks, 3 ratings of which 2 are stored alike | a snapshot is what all captures until the next one saw (`RowsAreSightings`; `CaptureKnows` makes it inductive), every history is in order and complete up to its limit, the default comparison is one step of it, notable changes and trends are of the last capture |
| `SchedulerLive` | 2 guilds, one with a schedule that does not parse, a cyclic day of 3 ticks, one setting of the clock, fair | no instant lost or served twice (the inductive `InstantsServed`), nothing stalls, everything stops and dead loops are reported |
| `ViewLive` | 2 runs, 3 requests in flight, 1 failure, 1 click, 1 orphan, fair | the panel is live and clicks are one at a time (the inductive `ViewInv`), polling stops, the end of a run is shown |

### The bounds

Engine: three members and two workers give a member in each worker's hands and one
still unsent when the cancellation comes, a worker that is used twice, two members
that share a name, and counts that are all updated, mixed and all failed. Service and
process: two run ids give a run and its retry, an orphan row followed by a run, a run
that begins while the previous one is still notifying, a run behind Shutdown, and a
run in each of two processes. `MaxTotal = 1` is enough for what the service's run
asks; the partial outcome needs two members and is the engine's. `ServerRestart` takes
an empty roster: what a crash leaves behind does not depend on the counts, a run may
still succeed or be refused, and the room goes to a store that fails. Character: two
syncs are a first snapshot and a comparison with it; of the three ratings 20 and 24
are stored alike, one as it is and one without its thousandths, and 30 is a change; a
third expansion is the journal's pseudo tier. Client: with two callers one waits for
the other's token request; two attempts are one retry. The token's life of three units
is the least above the margin, so it expires while attempts are in flight. Sign-in:
two callbacks may bring one state, or race for the first user or for one account; the
clock runs past the expiry of a state and of a session. Members: two handlers are the
race; the third user is the target of both. Limiter: four requests of which two fit
the widest limit, and time for hits to expire out of the order of their stamps.
Officers: two transactions are the deadlock, with batches of the same rows in opposite
orders. History: three snapshots are a first, a middle and a last one around a deleted
one, in days of two ticks; with the same three ratings a capture may repeat a row (24
after 24), be taken for the row it rounds to (20 after 24), or change. Scheduler: a
day of three ticks distinguishes before, at and after the instant; two guilds show
that a loop that ended is counted. View: three requests are two polls and a load; the
second run shows that the first is not mistaken for it.

Symmetry is used where no liveness is checked: over run ids, over states
and callbacks, over handlers, and over requests and clients.

Deadlock is checked in the runs of the engine, the service, the process, the
client, the members, sign-in, the officers and the scheduler. It is switched off
where a bound ends the behaviour and not the system: the character's number of
syncs, the clock and the snapshots of the history, the limiter's requests, and the
page's runs and clicks.

### Fairness

Engine, service, process: `WF` on the caller, on each worker, on each run's
goroutine and on Shutdown's wait says that the Go scheduler runs what can run and
that calls out return. The code bounds them: a Blizzard request has a 20 s client
timeout and at most five attempts, a webhook delivery a 10 s timeout, the notify
write 5 s. The one delay without a bound is a `Retry-After` header the client
obeys; it is assumed finite. Nobody is assumed to start, cancel or stop anything,
and the dispatch loop is given no fairness towards the cancelled branch.

Client: `SF` on `TakeToken`, because the receivers that block on a channel are
served in order, and on `Lock`, because a goroutine that starves for a mutex is
handed it; `WF` on the limiter's ticker, on answers and on the end of a backoff.

Officers: `WF` on the next step of every handler, the database's abort of a cycle
of waits included. Scheduler: `SF` on the branches of `Run`'s and the sweeper's
select, because Go chooses at random among the ready ones, and `WF` on time, on the
goroutines and on the end of a sweep and of a run. View: `WF` on the end of a run, on
the interval, on answers and on what the page does with them. Clicks, signals,
triggers, failures, crashes and cancellations are never assumed.

## Where the code and its documents disagree

The properties say what the code does; where a document, a comment or a test says
more, the exception is part of the property, so that the run shows that it is the
only one. These are the places.

1. *A cancelled run may stay "running" in the ledger* (`engine.go:225-230`). If
   the context is cancelled after the last look at `ctx.Err()` and before the
   UPDATE, the write is made under the cancelled context and lost, over a
   healthy database. Nothing ever settles the row, although `service.go:38` says
   that Finish records the outcome. `KeepsContract` lets a contract end unwritten.
2. *A partial run may lose its failures* (`engine.go:214-223`). If the context
   is cancelled between the look for the status and the look for the detail,
   the row says "partial" with no names, and `StartRetry` refuses it, although
   `README.md:67` offers to retry the recorded failures. `DetailRetryable` holds but
   for cancelled runs.
3. *The process does not wait* (`main.go:247-268`). `ListenAndServe` returns as
   soon as the listener is closed; `main` returns while the goroutine that
   drains the services is still at work. `README.md:67` says that shutdown waits
   for its work to settle. `CleanStop` is about a stop that ran to its end.
4. *A run may slip in behind Shutdown* (`service.go:111-117`). `begin` does not
   look at `stopping`; a handler that outlived the HTTP drain starts a run that
   Shutdown does not wait for. `NoRunBehindShutdown` needs a drain in time.
5. *An unchanged character gets snapshots* (`domain/snapshot.go:22-24`). The raid
   payload is compared with the text that `jsonb` gives back, which differs whenever
   the raids were fetched, and the rating with one that lost its thousandths;
   `domain_test.go:25` asserts the opposite for equal states. So a history may repeat
   itself, and `ComparisonIsOneStep` claims no difference between its rows; on
   the other hand, a rating that only falls to what it was rounded to gets no new row,
   and `RowsAreSightings` speaks of hundredths.
6. *A failed season request stores a zero rating in a snapshot*
   (`engine.go:449`), beside a `mythic_plus` row that keeps the real one;
   `engine.go:369` says that it must never do so to stored data. `RatingNeverWiped`
   is about the row.
7. *Two first sign-ins may both become administrators* (`users.go:95`), although
   `users.go:80` speaks of the first user. `SomebodyAdministers` is what holds.
8. *Logout answers 204 when the session could not be deleted* (`auth.go:257`);
   `docs/security.md:10` says that it revokes the session.
9. *A removed member of the only guild comes back with the next request*
   (`users.go:137`). The tests of a revoked membership use two guilds.
   `RevokedStaysOut` has this exception and pins the role.
10. *An admin may demote someone who was made an owner meanwhile*
    (`api.go:519`): the target's role is checked in one statement and written in
    another. `AuthorizedIfUndisturbed` says when the check is good.
11. *A membership change may stay without its audit event* (`api.go:528`), which is
    a statement of its own after the commit; `docs/security.md:22` promises one.
12. *Bulk tags may lose another officer's edit* (`officer.go:109`): the tags are
    read without a lock and rewritten later. `TagsBounded` holds all the same, since
    what is written was computed within the limit.
13. *The averages of a day leave out members without a snapshot on that day*
    (`characters.go:306`), although the comment says that they remain.
    `TrendEndsCurrent` is about the days that have one.
14. *A poll that is answered after a failed one may reopen the panel*
    (`Sync.svelte:81`), and *a row that nobody finishes keeps the page polling*
    (`Sync.svelte:49`). `PanelIsLive`, `PollingStops` and `FinishedRowTakesOver` say
    which failures it takes.

## Proofs

`SyncEngineProofs` proves, for every finite roster, any names and any non-empty
finite set of workers:

- `Invariance`, `TypeCorrect`, `WaitGroupCorrect`, `NobodyLost`, `Quiescence` and
  `OutcomeIsHonest`: `IInv` and the safety invariants it is made of;
- `PartialRunsNameSomebody`: a row that says "partial" names a failed member unless
  the run was cancelled;
- `HookAdvances`: the progress hook never reports less than before;
- `EngineKeepsContract`: the worker pool implements `RunContract`.

The argument is one inductive invariant, `IInv`. None of the four properties is
inductive alone. The counts need to know that no two workers hold the same
member and that what they hold has left the queue (`HeldOnRoster`), else
counting one could change two terms; that nobody is settled early needs
`WaitGroupExact`, because `Wait` only sees `wg = 0`, and `wg` is then the number
of workers still at it; that members may be skipped only by a cancelled run
needs `SkippedMeansCancelled`; and the failed fetch, which jumps over the pool,
needs `PoolUnstarted`. Lemmas `CardinalityEnter` and `CardinalityLeave` say how a
worker's step moves it in and out of the two sets that are counted; `TypeStep`,
`PoolStep` and `OutcomeStep` prove the parts action by action, and `ContractStep`
maps every action to one of `RunContract` or to a stutter. `PartialRunsNameSomebody`
rests on `IInv` and two more invariants: `NamesKept`, that the failure map names
only members that were counted as failed and somebody as soon as one was, and
`PartialNamed`, that a settled partial result carries those names to the row unless
the context was cancelled. `HookAdvances` rests on `ReportCurrent`: the last report is
what was counted when the mutex was last released, so the next one is only more.
Assumptions: the named `ASSUME`s of `SyncEngine`,
evaluated by TLC in every run.

`SyncServiceProofs` proves, for any finite set of run ids, any length of roster,
any triggers and notification outcomes, and with or without failing writes:

- `Invariance`, `TypeCorrect`, `OnlyOneRun`, `SnapshotIsFaithful`, `LedgerIsHonest`,
  `NotifyCountCorrect` and `ShutdownIsComplete`: `ServiceInv` and its parts;
- `CancelIsAimed` and `ResultsAreKept`: what a step may never do;
- `ServiceKeepsLedger` and `EnginesAreContracted`: the service implements
  `RunLedger`, and each run in it stays within `RunContract`.

The inductive invariant is `ServiceInv`: the invariants above and four facts
they lean on. `FreshIds`: a run that begins has an engine with no counts, so the
zero snapshot that `begin` installs is faithful. `LabelPending`: a run
that has only begun is not yet labelled a dry run, so the scheduled path, which
never writes the label, need not clear it.
`RowAwaitsEngine`: the row of a live run still says "running" until its engine
closes, so that the closing write is a step out of "running" and nothing else.
`ShutdownKnows`: what Shutdown has learnt at each of its two waits; the first wait
covers one run, the one whose channel it read, and every other run it answers for
must by then be counted in the notification `WaitGroup`. That is what holds because
`complete` adds to the `WaitGroup` in the same critical section that clears
`s.done`. One lemma per action (`BeginKeeps` to `ShutdownKeeps`) shows that it
keeps the invariant; `RunsUntouched`, `NotifyUntouched` and `ShutdownUntouched`
dispose of what an action leaves alone. Assumptions: finitely many run ids, `NoRun`
not among them, and `MaxTotal` a natural number.

The second part of the module carries these results over signals, crashes and
restarts. `ServerInv` is `ServiceInv` and `StopInOrder`: the listener closes after
the scheduler's context is cancelled, Shutdown comes after the drain, and a drain in
time leaves no handler; the last is why `begin`, which never looks at `stopping`,
still admits nothing behind Shutdown. Every action of the service keeps
`ServiceInv` by the lemmas above; `Crash` and `Boot` need the fact
that lost runs are nobody's. `StopsAreClean`, `NothingSlipsIn`, `RestartsAreSafe`,
`ResultsSurviveRestarts` and `RestartsKeepLedger` follow.

`RateLimiterProofs` proves, for every limit, window, delay and finite number of
requests, `LimiterInvariant` and from it `LimitKept` and `RefusalsJustified`. A list is
no longer than its limit, so `LimitKept` needs that everything let through in the
shortened window is still in it: `Remembered` says that what left a list has a stamp a
window old, and `Stamped` that the stamp is at most `MaxDelay` older than the
admission. `RefusalsJustified` needs `InOrder`: lists are in the order of admission, so
if the first hit that stays is young, all of them were admitted since.

`CharacterSyncProofs` proves, for every answer of Blizzard, any number of syncs,
failures, crashes and sweeps, `ReportIsHonest`, `DryRunIsDry` and `GoodDataIsKept`.
Its inductive invariant is `HonestReport`, what the sync may claim of the rows and
three facts that it leans on. `Fetched`: what the local variables hold between the
requests, an error exactly when something failed. `Kept`: the rows between two
resources are up to date as far as nothing has failed. `InTurn`: `capture` compares
with the newest snapshot unless the sweeper has taken them all, and no snapshot is of
this run before it inserts one. The sweep removes a prefix (`SweepKeepsTheNewest`), so
it never takes the newest before the others. The conversions have lemmas of their own:
`AnchorIsReal` (the anchor is the largest expansion and never the pseudo tier),
`RoundedOnce` and `StoredIsRounded` (what the column gives back is a fixed point of
the rounding), `NeverTheSameText` (a payload with raids never reads back as it was
written, a cause of repeated snapshots). Assumption: the journal is finite.

Its second part is about `SnapshotHistory`, as `Progression` brings it in; the
assumption is `HistoryAssumption`, evaluated by TLC in `HistoryOfOne`.
`HistoryInvariance` proves `SnapshotsInv`: `RowsAreSightings`, that a row is what every
capture from its own to the next row saw, and `CaptureKnows`, which makes it inductive:
a capture inserts behind all that is there, and what it found last still is the last
row if any row is left, because a sweep removes the newest only with all others. A
capture that inserts nothing found its rating, unrounded, in the last row;
`StoredValues` (rounding is idempotent) says that it then is what the row shows.
`EndsOfRows` shows that the order of the queries is total on a character's rows; from
it `SummariesAreCurrent` follows. `HistoriesAreFaithful` proves `HistoryFaithful` for
every range and limit. Two things are needed. That sorting and limiting do what they
should is a matter of counting: `PlacesOfRows` shows that the number of rows behind a
row is a place that every row has to itself and that none is left free, so
`OldestFirstSorts` (a history holds each row once, in order) and `LimitLeavesTheNewest`
(a limit cuts at one point of the order) follow with no induction over the rows. That
the default comparison is one step (`ComparisonsAreSteps`) then is `RowsAreSightings` of
its first row: two neighbours of a history are neighbours of the whole table, so every
capture between them is a sighting of the first. It is not claimed that the two differ:
they need not (item 5 above).

`BlizzardClientProofs` proves, for any number of callers, attempts and limiter tokens,
`ClientInvariance` and `TokensOutlive`. `ClientInv` adds to the properties what they
need: `PaidExactly` (the limiter tokens that a call has paid, by where it is),
`SentSoFar` (how much of its allowance the attempts before this one have used, those
of token requests included), and `LifetimeLeft` (what is left of the token that an
attempt carries, and the age of the attempt, are together more than the margin).
Every conjunct is about one call, so a step is a matter of the call that moves
(`OneCallKeeps`). Assumptions: the HTTP client's timeout (20 s, `client.go:56`) is
shorter than the margin of `appToken` (60 s, `oauth.go:34`), and the margin than the
life Blizzard gives a token. The second is about Blizzard: the code takes `expires_in`
from the answer unchecked (`oauth.go:47`), and an attempt that carries a token issued
for less may outlive it.

`SignInProofs` proves, for any states, accounts, callbacks and configurations,
`SignInInvariance`, `RolesRise` and `ExpiriesAreHonoured`. `SignInInv` adds
`UnusedStatesAreFresh` and `CallbackOwnsState` to the properties (a state brought
twice is found by one callback only, and what a callback holds is gone from the
table), and `KnowledgeHolds`: what a callback has read is outdated in one direction
only. An identity that it saw stays, nobody who saw users takes himself for the first,
and what it stored is still there, which is why somebody administers whoever races.

`MembershipProofs` proves, for any worlds of guilds, users and handlers,
`MembershipInvariance` and `HandlersDecide` (`HandlersDecideAlone`). What a handler
knows ages while it works: `ChecksHold` ties each of its five positions to the rows it
has read, unless `disturbed`, and `AuthorizedIfUndisturbed` follows;
`AuditsAreOfChanges` counts the handlers that still have to write their entry.
Assumptions: finitely many handlers, and roles as the column allows them.

`OfficerWorkflowProofs` proves, for any officers, requests, targets and tags,
`OfficerInvariance` and `ChangesHaveAuthors`. `OfficerInv` adds `InBatch` (how far a
batch has come, and that it never leaves its own targets), `LocksHeld` (who has written
a row holds its lock, and the version written differs from the stored row in this
transaction's columns only) and `EntriesTrue` (an entry of the activity log is of the
request that made it). A commit
is then a function of the transaction alone (`CommitStores`, `CommitLogs`).
Assumption: finitely many tags.

The third and fourth parts of `SyncServiceProofs` are about `Scheduler` and
`SyncView`, as `NightlySyncs` and `SyncPage` bring them in, with the assumptions
stated there. `EveryInstantIsServed` proves `InstantsServed` for any guilds and any
length of the day. What makes it inductive is `TimersAim`: while the wall clock is
left alone, a running timer ends at the guild's next instant, today's or tomorrow's,
and one that has expired has not fired since, so it cannot fire twice for one instant;
`ModuloDay` and `UntilNextAims` are the arithmetic of `next`. It also shows how far a
clock set between the two readings can lengthen a wait: to less than two days.
`ViewInvariance` proves `ViewInv`. `PanelIsLive` needs `PollsAreWanted`, that a poll
of the current generation finds the polling still on unless a poll has failed, and the
type of `busy` needs `OneClick`, that there is one click at a time; `SendFills` and
`LoadingIs` say what a new request and a new generation do to those in flight.

The modules fit together at `RunContract`. `EngineKeepsContract` says the
detailed engine implements it and `EnginesAreContracted` that the service
assumes no engine that does more. That the pair, run side by side, behaves like
`SyncService` alone follows by reading the mapping, and is not itself a theorem.

Only model-checked: liveness, which is out of the proof system's reach (`EngineSettles`,
the client's `CallsReturn`, `RunsSettle`, `ShutdownReturns`, `EveryRequestAnswered`,
`KeepsGoing`, `EndsAndTells`, `PollingStops`, `EndIsShown`). Every invariant and every
action property that a run checks is stated by a theorem.

## Not modelled

Listed with reasons in `PROJECT.json`. Read-only queries over the roster (paging,
filters, averages), the officers' review queue, CSV export, query plans, the
expansion of raids in SQL: text and arithmetic with no state of their own. The CSRF
check, security headers, body limits and the routing table: a request's own data
decides, and nothing is kept. Discord's messages, log lines, configuration,
migrations: plumbing, modelled only by the outcome of a delivery and by the
configurations that a restart may bring. The rest of the frontend renders what the
API returns. The stores' reads matter only where a decision is made on them (`ByID`
for a retry, the roles of an actor, the last snapshot). Time is measured only where
the code compares it: in a process that stops, a timeout is a step that may be taken
at any moment the code could take it.

Limits of what is modelled. How long `begin` holds `s.mu` across its INSERT
(`service.go:118`), while the progress poll waits for it, is left to the caller's
context: the mutex makes it one action. `LimiterSafety` has a window of two ticks and
a delay of one, and `ViewLive` one click; what they leave open is proved for every
window, delay and number of clicks (`LimitKept`, `ViewInvariance`). `OnceAnInstant`
claims nothing once the wall clock has been set: a clock set back meets the same
instant again, and is served twice. `SyncEngine` and `CharacterSync` meet at one step,
`SyncCharacter(w)`, and at `GuildRoster`'s names; that the one implements the other's
step is read off, not checked.

## Plan

In place: every part of the system that decides something, each with the runs above
and, but for liveness, with its proofs. What is left, most
important first:

1. *Composition.* `CharacterSync` inside a worker of `SyncEngine`, `SyncEngine` inside a
   run of `SyncService` (that the pair implements the service alone, which the two
   refinements of `RunContract` suggest), and `BlizzardClient` under both.
2. *The restart of a process* under `SignIn` and `Scheduler` together with
   `ServerProcess`: each has its own account of it.
3. *The review queue* as a query over rows whose stamps are those of the
   transactions' beginnings, and the roster's paging.
