------------------------------ MODULE SyncView ------------------------------
(***************************************************************************)
(* The sync page (src/frontend/src/routes/Sync.svelte, lib/sync.ts) of an  *)
(* administrator over the service's live snapshot and the ledger's newest  *)
(* row.  Requests take any time and are answered in any order; a poll is   *)
(* sent every 1.5 seconds whether or not the one before has been answered. *)
(* The service is as SyncService proves it: a run's row and its live       *)
(* snapshot appear together, and the row is finished before the snapshot.  *)
(***************************************************************************)
EXTENDS Integers, FiniteSets

CONSTANTS MaxRuns,      \* runs of the service
          MaxCalls,     \* requests of the page in flight
          MaxFailures,  \* requests that fail
          MaxClicks,    \* of the administrator
          MaxOrphans    \* runs whose row is never finished: Finish fails, or a crash

\* What is assumed of them, by SyncPage.
SyncViewAssumption ==
    {MaxRuns, MaxFailures, MaxClicks, MaxOrphans} \subseteq Nat /\ MaxCalls \in Nat \ {0}

Runs   == 1..MaxRuns
NoRun  == [run |-> 0, status |-> "none"]
Calls  == 1..MaxCalls

VARIABLES
    row,      \* the newest row of the ledger
    live,     \* Service.Progress
    runs,     \* the newest row that the page shows
    progress, \* the snapshot that the page shows, or null (NoRun)
    polling, busy,
    error,    \* the page shows an error
    calls,    \* requests in flight, and what the page does with the answer
    failures, orphans, clicks,
    mine,     \* history: runs that this page has started
    announced \* history: the newest run whose end was announced

server  == <<row, live, orphans>>
page    == <<runs, progress, polling, busy, error, announced>>
bounds  == <<failures, clicks>>
vars    == <<server, page, calls, bounds, mine>>

\* "fresh" is request = generation: Load takes a new one.
NoCall == [kind |-> "none", fresh |-> FALSE, polls |-> FALSE, is |-> "none", data |-> NoRun]
Call(k, polls) == [NoCall EXCEPT !.kind = k, !.fresh = TRUE, !.polls = polls, !.is = "sent"]

Init ==
    /\ row = NoRun /\ live = NoRun
    /\ runs = NoRun /\ progress = NoRun /\ polling = FALSE /\ busy = FALSE /\ error = FALSE
    /\ calls = [i \in Calls |-> IF i = 1 THEN Call("runs", FALSE) ELSE NoCall]
    /\ failures = 0 /\ orphans = 0 /\ clicks = 0 /\ mine = {} /\ announced = 0

-----------------------------------------------------------------------------
(* The service.                                                            *)

\* begin; and progressActive, of the service and of what the page has.
Begun == [run |-> row.run + 1, status |-> "running"]
Active(p) == p.status = "running"
CanBegin == ~Active(live) /\ row.run < MaxRuns

Scheduled ==
    /\ CanBegin
    /\ row' = Begun /\ live' = Begun
    /\ UNCHANGED <<orphans, page, calls, bounds, mine>>

Finish ==
    /\ Active(live) /\ Active(row)
    /\ row' = [row EXCEPT !.status = "over"]
    /\ UNCHANGED <<live, orphans, page, calls, bounds, mine>>

Complete ==
    /\ Active(live) /\ ~Active(row)
    /\ live' = [live EXCEPT !.status = "over"]
    /\ UNCHANGED <<row, orphans, page, calls, bounds, mine>>

\* The row keeps "running": Finish failed, or the process is a new one, whose
\* first snapshot is the zero one.
Orphan ==
    /\ Active(live) /\ Active(row) /\ orphans < MaxOrphans
    /\ orphans' = orphans + 1
    /\ live' \in {[live EXCEPT !.status = "over"], NoRun}
    /\ UNCHANGED <<row, page, calls, bounds, mine>>
-----------------------------------------------------------------------------
(* The page.                                                               *)

Free == {i \in Calls : calls[i] = NoCall}
Slot(cs) == CHOOSE i \in Calls : cs[i] = NoCall
Send(cs, c) == [cs EXCEPT ![Slot(cs)] = c]
Without(i) == [calls EXCEPT ![i] = NoCall]

\* load: what is in flight is not of its generation.
BadLoading(cs, polls) == Send(cs, Call("runs", polls))
Loading(cs, polls) ==
    Send([i \in Calls |-> IF cs[i] = NoCall THEN NoCall ELSE [cs[i] EXCEPT !.fresh = FALSE]],
         Call("runs", polls))

\* The interval, and the effect's first poll.
Poll ==
    /\ polling /\ Cardinality(Free) > 1
    /\ calls' = Send(calls, Call("progress", FALSE))
    /\ UNCHANGED <<server, page, bounds, mine>>

\* A click on a button; error is cleared.
Click == clicks < MaxClicks /\ clicks' = clicks + 1

\* trigger, dryRun and retry differ in the request.
Trigger ==
    /\ ~busy /\ Free # {}
    /\ Click /\ busy' = TRUE /\ error' = FALSE
    /\ calls' = Send(calls, Call("start", TRUE))
    /\ UNCHANGED <<server, runs, progress, polling, announced, failures, mine>>

\* The button is there while the page shows a run in progress.
Cancel ==
    /\ ~busy /\ Active(progress) /\ Free # {}
    /\ Click /\ busy' = TRUE /\ error' = FALSE
    /\ calls' = Send(calls, Call("cancel", FALSE))
    /\ UNCHANGED <<server, runs, progress, polling, announced, failures, mine>>

\* The server answers: a snapshot, a row, a start or a refusal.  What a cancelled
\* run does is Finish and Complete.
Answer(i) ==
    /\ calls[i].is = "sent"
    /\ LET Starts == calls[i].kind = "start" /\ CanBegin
           Refuses == \/ calls[i].kind = "start" /\ ~CanBegin
                      \/ calls[i].kind = "cancel" /\ ~Active(live)
       IN  /\ row' = IF Starts THEN Begun ELSE row
           /\ live' = IF Starts THEN Begun ELSE live
           /\ mine' = IF Starts THEN mine \cup {Begun.run} ELSE mine
           /\ calls' = [calls EXCEPT ![i].is = IF Refuses THEN "failed" ELSE "answered",
                                    ![i].data = IF calls[i].kind = "runs" THEN row ELSE live]
    /\ UNCHANGED <<orphans, page, bounds>>

\* Nothing reaches the server, or its answer is lost.
Fail(i) ==
    /\ calls[i].is \in {"sent", "answered"}
    /\ failures < MaxFailures /\ failures' = failures + 1
    /\ calls' = [calls EXCEPT ![i].is = "failed"]
    /\ UNCHANGED <<server, page, clicks, mine>>

\* The rest of load, and what its caller does after it, whatever came of it.
Got(i, kind) == calls[i].kind = kind /\ calls[i].is = "answered"
Failed(i, kind) == calls[i].kind = kind /\ calls[i].is = "failed"
Loaded(i) ==
    /\ Got(i, "runs") \/ Failed(i, "runs")
    /\ LET new == Got(i, "runs") /\ calls[i].fresh IN
       /\ runs' = IF new THEN calls[i].data ELSE runs
       /\ polling' = (polling \/ calls[i].polls \/ (new /\ Active(calls[i].data)))
    /\ calls' = Without(i)
    /\ busy' = (busy /\ ~calls[i].polls)
    /\ error' = (error \/ (Failed(i, "runs") /\ calls[i].fresh))
    /\ UNCHANGED <<server, progress, announced, bounds, mine>>

\* poll: a failure stops the polling, of whatever generation it is.
PollFailed(i) ==
    /\ Failed(i, "progress")
    /\ polling' = FALSE /\ progress' = NoRun
    /\ calls' = Without(i)
    /\ UNCHANGED <<server, runs, busy, error, announced, bounds, mine>>

PollStale(i) ==
    /\ Got(i, "progress") /\ ~calls[i].fresh
    /\ calls' = Without(i)
    /\ UNCHANGED <<server, page, bounds, mine>>

PollActive(i) ==
    /\ Got(i, "progress") /\ calls[i].fresh
    /\ Active(calls[i].data)
    /\ progress' = calls[i].data
    /\ calls' = Without(i)
    /\ UNCHANGED <<server, runs, polling, busy, error, announced, bounds, mine>>

\* Not part of the model: stopPolling is forgotten.
BadPollGoesOn(i) ==
    /\ Got(i, "progress") /\ calls[i].fresh
    /\ ~Active(calls[i].data)
    /\ progress' = calls[i].data
    /\ announced' = calls[i].data.run
    /\ calls' = Loading(Without(i), FALSE)
    /\ error' = FALSE
    /\ UNCHANGED <<server, runs, polling, busy, bounds, mine>>
\* Not part of the model: the finished row is left to the next visit.
BadPollOver(i) ==
    /\ Got(i, "progress") /\ calls[i].fresh
    /\ ~Active(calls[i].data)
    /\ polling' = FALSE /\ progress' = NoRun
    /\ announced' = calls[i].data.run
    /\ calls' = [k \in Calls |-> IF k = i \/ calls[k] = NoCall THEN NoCall
                                 ELSE [calls[k] EXCEPT !.fresh = FALSE]]
    /\ error' = FALSE
    /\ UNCHANGED <<server, runs, busy, bounds, mine>>
PollOver(i) ==
    /\ Got(i, "progress") /\ calls[i].fresh
    /\ ~Active(calls[i].data)
    /\ polling' = FALSE /\ progress' = NoRun
    /\ announced' = calls[i].data.run
    /\ calls' = Loading(Without(i), FALSE)
    /\ error' = FALSE
    /\ UNCHANGED <<server, runs, busy, bounds, mine>>

Started(i) ==
    /\ Got(i, "start")
    /\ calls' = Loading(Without(i), TRUE)
    /\ error' = FALSE
    /\ UNCHANGED <<server, runs, progress, polling, busy, announced, bounds, mine>>

Cancelled(i) ==
    /\ Got(i, "cancel")
    /\ calls' = Without(i)
    /\ polling' = TRUE /\ busy' = FALSE
    /\ UNCHANGED <<server, runs, progress, error, announced, bounds, mine>>

Refused(i) ==
    /\ Failed(i, "start") \/ Failed(i, "cancel")
    /\ calls' = Without(i)
    /\ busy' = FALSE
    /\ error' = TRUE
    /\ UNCHANGED <<server, runs, progress, polling, announced, bounds, mine>>

\* "Retry sync history", offered while an error is shown.
Reload ==
    /\ error /\ Free # {}
    /\ Click /\ error' = FALSE
    /\ calls' = Loading(calls, FALSE)
    /\ UNCHANGED <<server, runs, progress, polling, busy, announced, failures, mine>>

Continue(i) == Loaded(i) \/ PollFailed(i) \/ PollStale(i) \/ PollActive(i) \/ PollOver(i)
                 \/ Started(i) \/ Cancelled(i) \/ Refused(i)

Service == Scheduled \/ Finish \/ Complete \/ Orphan

Next ==
    \/ Service
    \/ Poll \/ Trigger \/ Cancel \/ Reload
    \/ \E i \in Calls : Answer(i) \/ Fail(i) \/ Continue(i)

Spec == Init /\ [][Next]_vars

\* Runs end, the interval goes on, requests are answered and answers handled.
Fairness ==
    /\ WF_vars(Finish) /\ WF_vars(Complete) /\ WF_vars(Poll)
    /\ \A i \in Calls : WF_vars(Answer(i)) /\ WF_vars(Continue(i))

FairSpec == Spec /\ Fairness
-----------------------------------------------------------------------------
(* Properties.                                                             *)

Views == [run : 0..MaxRuns, status : {"none", "running", "over"}]
CallType == [kind : {"none", "runs", "progress", "start", "cancel"}, fresh : BOOLEAN,
             polls : BOOLEAN, is : {"none", "sent", "answered", "failed"}, data : Views]
Clicked(c) == c.kind \in {"start", "cancel"} \/ c.polls

\* Values of their types; the buttons are disabled exactly while a click is being
\* worked on (Sync.svelte:85-123).
TypeOK ==
    /\ {row, live, runs, progress} \subseteq Views
    /\ {polling, busy, error} \subseteq BOOLEAN
    /\ calls \in [Calls -> CallType]
    /\ failures \in 0..MaxFailures /\ orphans \in 0..MaxOrphans /\ clicks \in 0..MaxClicks
    /\ mine \subseteq Runs /\ announced \in 0..MaxRuns
    /\ busy = \E i \in Calls : Clicked(calls[i])

\* One click is worked on at a time, until the load that follows it.
OneClick == \A i, k \in Calls : Clicked(calls[i]) /\ Clicked(calls[k]) => i = k

\* What a poll finds when its answer comes: if no generation has been taken since, the
\* polling has not been stopped either, other than by a poll that failed.
PollsAreWanted ==
    \A i \in Calls : calls[i].kind = "progress" =>
        /\ ~calls[i].polls
        /\ calls[i].fresh => polling \/ failures > 0
        /\ calls[i].is = "failed" => failures > 0

\* A live panel is one that is kept up to date: "a failed poll ends the live view
\* quietly" (the comment in poll), and so does a terminal snapshot.  With a poll
\* every 1.5 seconds, an older one may be answered after the one that ended it.
\* Only after a failed request may one reopen it: a failed poll takes no new
\* generation, so those in flight still count.
PanelIsLive == Active(progress) => polling \/ failures > 0

\* "Live progress polls while a run is in flight and stops on its own once the
\* snapshot goes terminal" (the comment at the effect), if the newest row is
\* finished too: one that says "running" for ever starts the polling again.
PollingStops == <>[]~Active(live) /\ <>[]~Active(row) => <>[]~polling

\* "The finished row takes over" (the same comment): a row that the page shows as
\* running is replaced, unless a request fails or nobody finishes the row.
FinishedRowTakesOver == Active(runs) ~> (~Active(runs) \/ failures > 0 \/ orphans > 0)

\* The end of a run started on the page is announced, or that of a later one,
\* whatever else the page polled for at the time, unless a request fails or the
\* process is replaced.
EndAnnounced ==
    \A r \in Runs : r \in mine ~> (announced >= r \/ failures > 0 \/ orphans > 0)
=============================================================================
