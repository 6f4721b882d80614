----------------------------- MODULE Scheduler -----------------------------
(***************************************************************************)
(* The background goroutines of the process (internal/sched/scheduler.go   *)
(* and cmd/apekeeper/main.go): one scheduler loop per guild, which starts  *)
(* a sync every day at the guild's time and when it is triggered, the      *)
(* sweeper, and the readiness check that watches the loops.  Time is the   *)
(* time of day and goes round for ever; timers run on the monotonic clock, *)
(* so they do not notice when the wall clock is set.                       *)
(***************************************************************************)
EXTENDS Integers, FiniteSets

CONSTANTS Guilds,
          Day,       \* ticks in a day
          At,        \* each guild's schedule: a time of day, or Invalid
          Invalid,   \* what time.Parse rejects
          Interval,  \* of the sweeper
          MaxSets    \* how often the wall clock is set

\* What is assumed of them, by NightlySyncs.
SchedulerAssumption ==
    /\ IsFiniteSet(Guilds)
    /\ Day \in Nat \ {0} /\ Interval \in Nat /\ MaxSets \in Nat
    /\ At \in [Guilds -> 0..Day - 1 \cup {Invalid}]

VARIABLES
    wall,     \* time of day
    sets,     \* how often the wall clock has been set
    ctxDone,  \* main's context
    pc,       \* each loop: "new", "arming", "waiting", "running", "returned", "stopped"
    timer,    \* ticks until the loop's timer fires
    trigger,  \* TriggerNow, a channel of one
    started, stopped,           \* schedulerHealth
    sweeper,  \* "first" sweep, "sweeping", "waiting" or "stopped"
    ticker, tick,               \* ticks until the ticker fires; its channel of one
    owed,     \* history: an instant has passed outside fn since fn last began
    asked,    \* history: Trigger was called since one was last taken
    early     \* history: the timer has fired since an instant last passed

loops == <<pc, timer, trigger, started, stopped, owed, asked, early>>
sweep == <<sweeper, ticker, tick>>
env   == <<wall, sets, ctxDone>>
vars  == <<env, loops, sweep>>

Init ==
    /\ wall \in 0..Day - 1 /\ sets = 0 /\ ctxDone = FALSE
    /\ pc = [g \in Guilds |-> "new"]
    /\ timer = [g \in Guilds |-> 0]
    /\ started = 0 /\ stopped = 0
    /\ sweeper = IF Interval = 0 THEN "stopped" ELSE "first"
    /\ ticker = 0 /\ tick = FALSE
    /\ trigger = [g \in Guilds |-> FALSE]
    /\ owed = [g \in Guilds |-> FALSE]
    /\ asked = [g \in Guilds |-> FALSE]
    /\ early = [g \in Guilds |-> FALSE]

-----------------------------------------------------------------------------
(* Scheduler.                                                              *)

\* next: how long until the schedule's time, strictly after now.
BadUntilNext(g) == (At[g] - wall + Day) % Day
UntilNext(g) == ((At[g] - wall + Day - 1) % Day) + 1

\* The head of Run's loop: reads the clock, or gives up on the schedule.
Head(g) ==
    IF At[g] = Invalid
    THEN pc' = [pc EXCEPT ![g] = "returned"] /\ UNCHANGED timer
    ELSE pc' = [pc EXCEPT ![g] = "arming"] /\ timer' = [timer EXCEPT ![g] = UntilNext(g)]

Launch(g) ==
    /\ pc[g] = "new"
    /\ started' = started + 1
    /\ Head(g)
    /\ UNCHANGED <<trigger, stopped, owed, asked, early, sweep, env>>

\* time.Until reads the clock again; what is left of the wait is a timer.
Arm(g) ==
    /\ pc[g] = "arming"
    /\ pc' = [pc EXCEPT ![g] = "waiting"]
    /\ UNCHANGED <<timer, trigger, started, stopped, owed, asked, early, sweep, env>>

\* fn begins.
Begin(g) ==
    /\ pc' = [pc EXCEPT ![g] = "running"]
    /\ owed' = [owed EXCEPT ![g] = FALSE]
    /\ UNCHANGED <<started, stopped, sweep, env>>

\* The select of Run: a branch that is ready is chosen at random.
TimerFires(g) ==
    /\ pc[g] = "waiting" /\ timer[g] = 0
    /\ Begin(g)
    /\ early' = [early EXCEPT ![g] = TRUE]
    /\ UNCHANGED <<timer, trigger, asked>>

TakeTrigger(g) ==
    /\ pc[g] = "waiting" /\ trigger[g]
    /\ trigger' = [trigger EXCEPT ![g] = FALSE]
    /\ timer' = [timer EXCEPT ![g] = 0]
    /\ asked' = [asked EXCEPT ![g] = FALSE]
    /\ Begin(g)
    /\ UNCHANGED early

SeeDone(g) ==
    /\ pc[g] = "waiting" /\ ctxDone
    /\ pc' = [pc EXCEPT ![g] = "returned"]
    /\ timer' = [timer EXCEPT ![g] = 0]
    /\ UNCHANGED <<trigger, started, stopped, owed, asked, early, sweep, env>>

\* fn, service.Start, carries a run to its end or is refused; then the loop's head.
Return(g) ==
    /\ pc[g] = "running"
    /\ Head(g)
    /\ UNCHANGED <<trigger, started, stopped, owed, asked, early, sweep, env>>

\* main's deferred stopped.Add.
CountStopped(g) ==
    /\ pc[g] = "returned"
    /\ pc' = [pc EXCEPT ![g] = "stopped"]
    /\ stopped' = stopped + 1
    /\ UNCHANGED <<timer, trigger, started, owed, asked, early, sweep, env>>

\* Trigger drops what does not fit: a run that begins later is already due.
BadTrigger(g) ==
    /\ trigger' = [trigger EXCEPT ![g] = pc[g] = "waiting"]
    /\ asked' = [asked EXCEPT ![g] = TRUE]
    /\ UNCHANGED <<pc, timer, started, stopped, owed, early, sweep, env>>
Trigger(g) ==
    /\ trigger' = [trigger EXCEPT ![g] = TRUE]
    /\ asked' = [asked EXCEPT ![g] = TRUE]
    /\ UNCHANGED <<pc, timer, started, stopped, owed, early, sweep, env>>

\* schedulerHealth.check
Healthy == ~ctxDone /\ started = Cardinality(Guilds) /\ stopped = 0
-----------------------------------------------------------------------------
(* Sweeper.                                                                *)

\* The ticker is made after the first sweep.
SweepEnds ==
    /\ sweeper \in {"first", "sweeping"}
    /\ sweeper' = "waiting"
    /\ ticker' = IF sweeper = "first" THEN Interval ELSE ticker
    /\ UNCHANGED <<tick, loops, env>>

SweepBegins ==
    /\ sweeper = "waiting" /\ tick
    /\ sweeper' = "sweeping" /\ tick' = FALSE
    /\ UNCHANGED <<ticker, loops, env>>

BadSweeperStops ==
    /\ sweeper = "waiting" /\ ctxDone
    /\ tick' = FALSE /\ UNCHANGED <<sweeper, ticker, loops, env>>
SweeperStops ==
    /\ sweeper = "waiting" /\ ctxDone
    /\ sweeper' = "stopped" /\ tick' = FALSE /\ ticker' = 0
    /\ UNCHANGED <<loops, env>>
-----------------------------------------------------------------------------
(* Time and the signal.                                                    *)

\* A tick reaches the channel unless one is still in it.
RunTicker ==
    /\ ticker' = IF ticker = 0 THEN 0 ELSE IF ticker = 1 THEN Interval ELSE ticker - 1
    /\ tick' = (tick \/ ticker = 1)

Pass ==
    /\ wall' = (wall + 1) % Day
    /\ timer' = [g \in Guilds |-> IF timer[g] > 0 THEN timer[g] - 1 ELSE 0]
    /\ owed' = [g \in Guilds |-> owed[g] \/ (At[g] = wall' /\ pc[g] \in {"arming", "waiting"})]
    /\ early' = [g \in Guilds |-> early[g] /\ At[g] # wall']
    /\ RunTicker
    /\ UNCHANGED <<sets, ctxDone, pc, trigger, started, stopped, asked, sweeper>>

\* The wall clock is set, within its day.  A running timer does not notice; a
\* loop that has yet to read the clock again will.
SetClock(t) ==
    /\ sets < MaxSets /\ sets' = sets + 1
    /\ wall' = t
    /\ LET left(g) == timer[g] - (t - wall)
       IN  timer' = [g \in Guilds |-> IF pc[g] # "arming" THEN timer[g]
                                      ELSE IF left(g) > 0 THEN left(g) ELSE 0]
    /\ UNCHANGED <<ctxDone, pc, trigger, started, stopped, owed, asked, early, sweep>>

Signal ==
    /\ ~ctxDone /\ ctxDone' = TRUE
    /\ UNCHANGED <<wall, sets, loops, sweep>>

Goroutine(g) == Launch(g) \/ Arm(g) \/ TimerFires(g) \/ Return(g) \/ CountStopped(g)

Next ==
    \/ \E g \in Guilds : Goroutine(g) \/ TakeTrigger(g) \/ SeeDone(g) \/ Trigger(g)
    \/ SweepEnds \/ SweepBegins \/ SweeperStops
    \/ Pass \/ Signal
    \/ \E t \in 0..Day - 1 : SetClock(t)

Spec == Init /\ [][Next]_vars

\* Goroutines run, service.Start returns, time passes; a select chooses at random
\* among the branches that are ready, so none is passed over for ever.
Fairness ==
    /\ WF_vars(Pass) /\ WF_vars(SweepEnds)
    /\ SF_vars(SweepBegins) /\ SF_vars(SweeperStops)
    /\ \A g \in Guilds : WF_vars(Goroutine(g)) /\ SF_vars(TakeTrigger(g)) /\ SF_vars(SeeDone(g))

FairSpec == Spec /\ Fairness
-----------------------------------------------------------------------------
(* Properties.                                                             *)

\* Values of their types; the counters of the readiness check count the loops that
\* were launched and that ended (main.go:47-58,119-127).
TypeOK ==
    /\ wall \in 0..Day - 1 /\ sets \in 0..MaxSets /\ ctxDone \in BOOLEAN
    /\ pc \in [Guilds -> {"new", "arming", "waiting", "running", "returned", "stopped"}]
    /\ timer \in [Guilds -> 0..2 * Day - 1]
    /\ {trigger, owed, asked, early} \subseteq [Guilds -> BOOLEAN]
    /\ started = Cardinality({g \in Guilds : pc[g] # "new"})
    /\ stopped = Cardinality({g \in Guilds : pc[g] = "stopped"})
    /\ sweeper \in {"first", "sweeping", "waiting", "stopped"}
    /\ ticker \in 0..Interval /\ tick \in BOOLEAN

\* While the wall clock is left alone, a timer that runs has the guild's next
\* instant for its end, and one that has expired has not fired since that instant;
\* only a valid schedule is waited for.
TimersAim ==
    \A g \in Guilds :
        /\ pc[g] \in {"arming", "waiting", "running"} => At[g] # Invalid
        /\ pc[g] \in {"new", "running"} => ~owed[g]
        /\ pc[g] = "arming" => wall + timer[g] < 2 * Day
        /\ sets = 0 /\ pc[g] \in {"arming", "waiting"} =>
              \/ timer[g] = 0 /\ ~early[g]
              \/ timer[g] \in 1..Day /\ wall + timer[g] \in {At[g], At[g] + Day}

\* No night is lost between two runs: while the wall clock is left alone, an
\* instant of the schedule that passed while the loop was not carrying a run has
\* its timer expired, also when it passed between the two readings of the clock.
OwedFires ==
    \A g \in Guilds :
        owed[g] /\ sets = 0 /\ pc[g] \in {"arming", "waiting"} => timer[g] = 0

\* No instant is served twice: a run as short as a refusal ends within the very
\* minute it was due and must not be due again.  It is when the clock is set back.
OnceAnInstant ==
    \A g \in Guilds : pc[g] = "waiting" /\ timer[g] = 0 => sets > 0 \/ ~early[g]

\* Whatever is done to the clock, a guild with a valid schedule is synced again
\* and again until the process is told to stop.
KeepsSyncing ==
    \A g \in Guilds : At[g] # Invalid => []<>(pc[g] = "running" \/ ctxDone)

\* Sweeps of any length do not end the sweeping.
KeepsSweeping == Interval > 0 => []<>(sweeper \in {"first", "sweeping"} \/ ctxDone)

\* A trigger, also one that comes while a run is carried or is dropped because the
\* channel is full, is followed by a triggered run: it never waits for the schedule.
TriggerServed ==
    \A g \in Guilds :
        At[g] # Invalid => (asked[g] ~> (~asked[g] \/ ctxDone))

\* A loop that ended is reported by the readiness check, and for good.
DeadLoopReported == \A g \in Guilds : pc[g] = "returned" ~> []~Healthy

\* A signal ends every loop and the sweeper, although one that is ready may go
\* round again under the cancelled context.
AllStop == ctxDone ~> (sweeper = "stopped" /\ \A g \in Guilds : pc[g] = "stopped")
=============================================================================
