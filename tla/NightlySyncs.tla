---------------------------- MODULE NightlySyncs ----------------------------
(***************************************************************************)
(* What Scheduler promises whoever runs one: the schedules of the guilds   *)
(* are served and the sweeping goes on.  The scheduler is brought in under *)
(* names of its own, wake for its trigger and mainDone for the context of  *)
(* main, so that it can stand beside the service that it wakes.            *)
(***************************************************************************)
CONSTANTS Guilds, Day, At, Invalid, Interval, MaxSets

VARIABLES wall, sets, mainDone, pc, timer, wake, started, stopped, sweeper, ticker, tick,
          owed, asked, early

Sched == INSTANCE Scheduler WITH trigger <- wake, ctxDone <- mainDone

ASSUME GuildsAssumption == Sched!SchedulerAssumption

NightlySpec == Sched!FairSpec

\* Every instant of the schedule is served, and once: of two runs in a row the
\* second is neither for an instant that had its run nor does one pass between them
\* unnoticed (sched/scheduler.go:25-58).  TimersAim makes it inductive.
InstantsServed ==
    Sched!TypeOK /\ Sched!TimersAim /\ Sched!OwedFires /\ Sched!OnceAnInstant

\* Until the signal nothing stalls: neither the schedule, nor a trigger, nor the
\* sweeper.
KeepsGoing == Sched!KeepsSyncing /\ Sched!TriggerServed /\ Sched!KeepsSweeping

\* Loops end when they are told to, and those that end are noticed.
EndsAndTells == Sched!AllStop /\ Sched!DeadLoopReported
=============================================================================
