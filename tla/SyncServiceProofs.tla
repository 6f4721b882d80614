-------------------------- MODULE SyncServiceProofs -------------------------
(***************************************************************************)
(* The service's safety for any number of runs, any rosters and every      *)
(* interleaving of requests, engines, notifications, Cancel and Shutdown;  *)
(* then the same through the signals, crashes and restarts of the process  *)
(* that carries it.                                                        *)
(***************************************************************************)
EXTENDS ServerProcess, NightlySyncs, SyncPage, FiniteSetTheorems, TLAPS

LEMMA RecordTypes ==
    /\ ZeroProgress \in ProgressType
    /\ NewEngine \in EngineType
    /\ NoRow \in RowType
    /\ OpenRow \in RowType
<1>1. 0 \in 0..MaxTotal
  BY MaxTotalAssumption
<1>2. ZeroProgress \in ProgressType /\ NewEngine \in EngineType
  BY <1>1 DEF ZeroProgress, NewEngine, ProgressType, EngineType, RunStatus
<1>3. NoRow \in RowType
  BY <1>1 DEF NoRow, RowType
<1> QED
  BY <1>2, <1>3 DEF OpenRow, RowType, RunStatus

LEMMA InitServiceInv == Init => ServiceInv
<1> SUFFICES ASSUME Init PROVE ServiceInv
  OBVIOUS
<1> USE DEF Init
<1>1. TypeOK
  BY RecordTypes DEF TypeOK, Place
<1>2. NotifyCountExact
  <2>1. {r \in Runs : Finishing(r)} = {}
    BY DEF Finishing
  <2> QED
    BY <2>1, FS_EmptySet DEF NotifyCountExact
<1>3. SnapshotFaithful
  BY DEF SnapshotFaithful, ZeroProgress
<1>4. RowAwaitsEngine
  BY DEF RowAwaitsEngine, Live, NewEngine
<1>5. LedgerAgrees
  BY DEF LedgerAgrees, NoRow, Terminal, RunSuccess, RunPartial, RunFailed
<1>6. FreshIds /\ OneRun /\ LabelPending
  BY RunsAssumption DEF FreshIds, OneRun, LabelPending, Live
<1>7. ShutdownKnows /\ ShutdownDrains
  BY DEF ShutdownKnows, ShutdownDrains
<1> QED
  BY <1>1, <1>2, <1>3, <1>4, <1>5, <1>6, <1>7 DEF ServiceInv

\* No step breaks a type.
LEMMA TypeStep == TypeOK /\ NotifyCountExact /\ [Next]_vars => TypeOK'
<1> SUFFICES ASSUME TypeOK, NotifyCountExact, [Next]_vars PROVE TypeOK'
  OBVIOUS
<1> USE DEF TypeOK, service, shutdown
<1>1. ASSUME NEW r \in Runs, NEW t, Begin(r, t) PROVE TypeOK'
  <2>1. progress' \in ProgressType
    BY <1>1, RecordTypes
    DEF Begin, ZeroProgress, ProgressType, RunStatus, Phase
  <2>2. row' \in [Runs -> RowType] /\ at' \in [Runs -> Place]
    BY <1>1, RecordTypes DEF Begin, Place
  <2> QED
    BY <1>1, <2>1, <2>2 DEF Begin
<1>2. CASE BeginFails
  <2>1. row' \in [Runs -> RowType] /\ progress' \in ProgressType
    BY <1>2, RecordTypes DEF BeginFails
  <2> QED
    BY <1>2, <2>1 DEF BeginFails
<1>3. ASSUME NEW r \in Runs, Launch(r) PROVE TypeOK'
  <2>1. progress' \in ProgressType
    BY <1>3 DEF Launch, ProgressType
  <2> QED
    BY <1>3, <2>1 DEF Launch, Place
<1>4. ASSUME NEW r \in Runs, NEW e \in EngineType, NEW p \in Phase,
             EngineStep(r, e), ReportProgress(p, e)
      PROVE  TypeOK'
  <2>1. progress' \in ProgressType
    BY <1>4 DEF ReportProgress, ProgressType, EngineType
  <2> QED
    BY <1>4, <2>1 DEF EngineStep
<1>5. ASSUME NEW r \in Runs, EngineRefuses(r) PROVE TypeOK'
  <2> DEFINE e == [eng[r] EXCEPT !.stage = "settled", !.status = RunFailed]
  <2>1. eng[r] \in EngineType
    OBVIOUS
  <2>2. e \in EngineType
    BY <2>1 DEF EngineType, RunStatus, Terminal
  <2>3. EngineStep(r, e) /\ ReportProgress(PhaseFinalizing, e)
    BY <1>5 DEF EngineRefuses
  <2> HIDE DEF e
  <2> QED
    BY <1>4, <2>2, <2>3 DEF Phase
<1>6. ASSUME NEW r \in Runs, NEW n \in 0..MaxTotal, EngineEnumerates(r, n)
      PROVE  TypeOK'
  <2> DEFINE e == [eng[r] EXCEPT !.stage = "counting", !.total = n]
  <2>1. eng[r] \in EngineType
    OBVIOUS
  <2>2. e \in EngineType
    BY <2>1 DEF EngineType
  <2>3. EngineStep(r, e) /\ ReportProgress(PhaseCharacters, e)
    BY <1>6 DEF EngineEnumerates
  <2> HIDE DEF e
  <2> QED
    BY <1>4, <2>2, <2>3 DEF Phase
<1>7. ASSUME NEW r \in Runs, EngineCounts(r) PROVE TypeOK'
  <2>1. PICK e \in {[eng[r] EXCEPT !.updated = @ + 1],
                    [eng[r] EXCEPT !.failed = @ + 1]} :
           EngineStep(r, e) /\ ReportProgress(PhaseCharacters, e)
    BY <1>7 DEF EngineCounts
  <2>2. eng[r] \in EngineType /\ eng[r].updated + eng[r].failed < eng[r].total
    BY <1>7 DEF EngineCounts
  <2>3. e \in EngineType
    <3>1. CASE e = [eng[r] EXCEPT !.updated = @ + 1]
      BY <2>2, <3>1, MaxTotalAssumption DEF EngineType
    <3>2. CASE e = [eng[r] EXCEPT !.failed = @ + 1]
      BY <2>2, <3>2, MaxTotalAssumption DEF EngineType
    <3> QED
      BY <3>1, <3>2
  <2> QED
    BY <1>4, <2>1, <2>3 DEF Phase
<1>8. ASSUME NEW r \in Runs, EngineSettles(r) PROVE TypeOK'
  <2>1. PICK verdict \in Terminal, d \in BOOLEAN :
           LET e == [eng[r] EXCEPT !.stage = "settled", !.status = verdict,
                                   !.detail = d]
           IN  EngineStep(r, e) /\ ReportProgress(PhaseFinalizing, e)
    BY <1>8 DEF EngineSettles
  <2>2. [eng[r] EXCEPT !.stage = "settled", !.status = verdict, !.detail = d]
           \in EngineType
    <3>1. eng[r] \in EngineType
      OBVIOUS
    <3> QED
      BY <3>1 DEF EngineType, RunStatus
  <2> QED
    BY <1>4, <2>1, <2>2 DEF Phase
<1>9. ASSUME NEW r \in Runs, EngineCloses(r) PROVE TypeOK'
  <2>1. eng' \in [Runs -> EngineType]
    BY <1>9 DEF EngineCloses, EngineType
  <2>2. row' \in [Runs -> RowType]
    <3> DEFINE written == [row[r] EXCEPT !.status = eng[r].status,
                                         !.failed = eng[r].failed,
                                         !.detail = eng[r].detail]
    <3>1. eng[r] \in EngineType /\ row[r] \in RowType
      OBVIOUS
    <3>2. written \in RowType
      BY <3>1 DEF EngineType, RowType
    <3>3. UNCHANGED row \/ row' = [row EXCEPT ![r] = written]
      BY <1>9 DEF EngineCloses
    <3> HIDE DEF written
    <3> QED
      BY <3>2, <3>3
  <2> QED
    BY <1>9, <2>1, <2>2 DEF EngineCloses
<1>10. ASSUME NEW r \in Runs, Complete(r) PROVE TypeOK'
  <2>1. progress' \in ProgressType
    BY <1>10 DEF Complete, ProgressType, EngineType, Phase
  <2>2. at' \in [Runs -> Place]
    BY <1>10 DEF Complete, Place
  <2>3. notifyWG' \in Nat
    BY <1>10 DEF Complete
  <2> QED
    BY <1>10, <2>1, <2>2, <2>3 DEF Complete
<1>11. ASSUME NEW r \in Runs, Announce(r) PROVE TypeOK'
  <2>1. at' \in [Runs -> Place]
    BY <1>11 DEF Announce, Place
  <2>2. metrics' \in [started : Nat, completed : Nat, errors : Nat]
    <3>1. PICK k \in {0, 1} : metrics' = [metrics EXCEPT
             !.completed = @ + 1, !.errors = @ + k]
      BY <1>11, Zenon DEF Announce
    <3>2. metrics \in [started : Nat, completed : Nat, errors : Nat]
      OBVIOUS
    <3>3. k \in Nat
      OBVIOUS
    <3>4. metrics' = [started |-> metrics.started,
                      completed |-> metrics.completed + 1,
                      errors |-> metrics.errors + k]
      BY <3>1, <3>2
    <3>5. /\ metrics.started \in Nat
          /\ metrics.completed + 1 \in Nat
          /\ metrics.errors + k \in Nat
      BY <3>2, <3>3
    <3> QED
      BY <3>4, <3>5
  <2> QED
    BY <1>11, <2>1, <2>2 DEF Announce
<1>12. ASSUME NEW r \in Runs, Notify(r) PROVE TypeOK'
  <2>1. row' \in [Runs -> RowType]
    <3>1. CASE UNCHANGED row
      BY <3>1
    <3>2. ASSUME NEW o \in NotifyResults, row' = [row EXCEPT ![r].notify = o]
          PROVE  row' \in [Runs -> RowType]
      <4>1. [row[r] EXCEPT !.notify = o] \in RowType
        BY DEF RowType
      <4> QED
        BY <3>2, <4>1
    <3> QED
      BY <1>12, <3>1, <3>2 DEF Notify
  <2>2. notifyWG' \in Nat
    <3>1. IsFiniteSet({q \in Runs : Finishing(q)})
      BY RunsAssumption, FS_Subset
    <3>2. r \in {q \in Runs : Finishing(q)}
      BY <1>12 DEF Notify, Finishing
    <3>3. notifyWG # 0
      BY <3>1, <3>2, FS_EmptySet DEF NotifyCountExact
    <3> QED
      BY <1>12, <3>3 DEF Notify
  <2> QED
    BY <1>12, <2>1, <2>2 DEF Notify, Place
<1>13. CASE Cancel
  BY <1>13 DEF Cancel
<1>14. CASE ParentDone
  <2>1. ctxDone' \in [Runs -> BOOLEAN]
    BY <1>14, Zenon DEF ParentDone, Live
  <2> QED
    BY <1>14, <2>1 DEF ParentDone
<1>15. CASE Shutdown
  BY <1>15 DEF Shutdown
<1>16. CASE ShutdownSeesDone
  BY <1>16 DEF ShutdownSeesDone
<1>17. CASE ShutdownSeesNotified
  BY <1>17 DEF ShutdownSeesNotified
<1>18. CASE ShutdownExpires
  BY <1>18 DEF ShutdownExpires
<1>19. CASE UNCHANGED vars
  BY <1>19 DEF vars
<1> QED
  BY <1>1, <1>2, <1>3, <1>5, <1>6, <1>7, <1>8, <1>9, <1>10, <1>11, <1>12,
     <1>13, <1>14, <1>15, <1>16, <1>17, <1>18, <1>19
  DEF Next, Carry, Request, ShutdownProceeds, Start, StartManual, StartDryRun,
      StartRetry

(***************************************************************************)
(* The invariant, one lemma for each kind of step.                         *)
(***************************************************************************)

\* What every conjunct but those about Shutdown reads.
runState == <<running, cancelOf, doneOf, last, progress, notifyWG, at, trigger,
              eng, row>>

\* The run is over and counted for notification, or its notification is over.
Over(r) == Finishing(r) \/ at[r] = "settled"

\* Steps of Cancel, Shutdown and the scheduler's context leave the runs alone.
LEMMA RunsUntouched ==
    ASSUME ServiceInv, UNCHANGED runState
    PROVE  /\ FreshIds' /\ OneRun' /\ LabelPending'
           /\ SnapshotFaithful' /\ RowAwaitsEngine' /\ LedgerAgrees'
           /\ NotifyCountExact'
           /\ \A r \in Runs : Over(r) <=> Over(r)'
           /\ \A r \in Runs : at[r] = "settled" <=> at'[r] = "settled"
<1> USE DEF ServiceInv, runState
<1>1. FreshIds' /\ OneRun' /\ LabelPending'
  BY DEF FreshIds, OneRun, LabelPending, Live
<1>2. SnapshotFaithful'
  BY DEF SnapshotFaithful
<1>3. RowAwaitsEngine' /\ LedgerAgrees'
  BY DEF RowAwaitsEngine, LedgerAgrees, Live
<1>4. NotifyCountExact'
  BY DEF NotifyCountExact, Finishing
<1> QED
  BY <1>1, <1>2, <1>3, <1>4 DEF Over, Finishing

\* A step that does not touch the notifications keeps their count exact.
LEMMA NotifyUntouched ==
    ASSUME NotifyCountExact, UNCHANGED notifyWG,
           \A r \in Runs : Finishing(r)' <=> Finishing(r)
    PROVE  NotifyCountExact'
<1>1. {r \in Runs : Finishing(r)}' = {r \in Runs : Finishing(r)}
  OBVIOUS
<1> QED
  BY <1>1 DEF NotifyCountExact

\* What Shutdown knows stays true while it does nothing, for a run that is over
\* stays over.
LEMMA ShutdownUntouched ==
    ASSUME ShutdownKnows, ShutdownDrains, UNCHANGED shutdown,
           \A r \in Runs : Over(r) => Over(r)',
           \A r \in Runs : at[r] = "settled" => at'[r] = "settled",
           sdRuns \in SUBSET Runs
    PROVE  ShutdownKnows' /\ ShutdownDrains'
  BY DEF ShutdownKnows, ShutdownDrains, shutdown, Over

\* A step that moves run r from one place to another, neither of them the last,
\* leaves every other run where it is.
LEMMA Moves ==
    ASSUME TypeOK, NEW r \in Runs, NEW place,
           at' = [at EXCEPT ![r] = place]
    PROVE  at'[r] = place /\ \A q \in Runs : q # r => at'[q] = at[q]
  BY DEF TypeOK

LEMMA BeginKeeps ==
    ASSUME ServiceInv, TypeOK', NEW r \in Runs, NEW t, Begin(r, t)
    PROVE  ServiceInv'
<1> USE DEF ServiceInv
<1>1. /\ ~running /\ at[r] = "idle" /\ eng[r] = NewEngine
      /\ \A q \in Runs : ~Live(q)
  BY DEF Begin, CanStart, FreshIds, OneRun
<1>2. at'[r] = "begun" /\ \A q \in Runs : q # r => at'[q] = at[q]
  BY Moves DEF Begin
<1>3. row'[r] = OpenRow /\ \A q \in Runs : q # r => row'[q] = row[q]
  BY DEF Begin, TypeOK
<1>4. OpenRow.status = "running" /\ OpenRow.notify = NotNotified
  BY DEF OpenRow, NoRow, RunRunning
<1>5. FreshIds'
  BY <1>1, <1>2, <1>3, <1>4 DEF FreshIds, Begin
<1>6. OneRun'
  BY <1>1, <1>2, RunsAssumption DEF OneRun, Live, Begin
<1>7. LabelPending'
  BY <1>2 DEF LabelPending, Begin, ZeroProgress
<1>8. SnapshotFaithful'
  BY <1>1, <1>2 DEF SnapshotFaithful, Begin, ZeroProgress, NewEngine
<1>9. RowAwaitsEngine'
  BY <1>1, <1>2, <1>3, <1>4
  DEF RowAwaitsEngine, Live, Begin, NewEngine, RunRunning
<1>10. LedgerAgrees'
  BY <1>1, <1>2, <1>3, <1>4
  DEF LedgerAgrees, Begin, Terminal, RunSuccess, RunPartial, RunFailed
<1>11. \A q \in Runs : Finishing(q)' <=> Finishing(q)
  BY <1>1, <1>2 DEF Finishing
<1>12. NotifyCountExact'
  BY <1>11, NotifyUntouched DEF Begin
<1>13. ShutdownKnows' /\ ShutdownDrains'
  BY <1>1, <1>2, <1>11, ShutdownUntouched DEF Over, Begin, TypeOK
<1> QED
  BY <1>5, <1>6, <1>7, <1>8, <1>9, <1>10, <1>12, <1>13

LEMMA BeginFailsKeeps ==
    ASSUME ServiceInv, TypeOK', BeginFails
    PROVE  ServiceInv'
<1> USE DEF ServiceInv
<1>1. /\ ~running /\ UNCHANGED <<at, eng, trigger>>
      /\ UNCHANGED <<running, cancelOf, doneOf, last, notifyWG, shutdown>>
      /\ progress' = ZeroProgress
  BY DEF BeginFails, CanStart
<1>2. \A q \in Runs : \/ row'[q] = row[q]
                      \/ row[q].status = "absent" /\ row'[q] = OpenRow
  BY DEF BeginFails, TypeOK
<1>3. OpenRow.status = "running" /\ OpenRow.notify = NotNotified
  BY DEF OpenRow, NoRow, RunRunning
<1>4. FreshIds' /\ OneRun' /\ LabelPending'
  BY <1>1, <1>2, <1>3
  DEF FreshIds, OneRun, Live, LabelPending, ZeroProgress
<1>5. SnapshotFaithful'
  BY <1>1 DEF SnapshotFaithful, ZeroProgress
<1>6. RowAwaitsEngine'
  BY <1>1, <1>2, <1>3 DEF RowAwaitsEngine, Live, RunRunning
<1>7. LedgerAgrees'
  BY <1>1, <1>2, <1>3
  DEF LedgerAgrees, Terminal, RunSuccess, RunPartial, RunFailed
<1>8. NotifyCountExact'
  BY <1>1, NotifyUntouched DEF Finishing
<1>9. ShutdownKnows' /\ ShutdownDrains'
  BY <1>1, ShutdownUntouched DEF Over, Finishing, TypeOK
<1> QED
  BY <1>4, <1>5, <1>6, <1>7, <1>8, <1>9

LEMMA LaunchKeeps ==
    ASSUME ServiceInv, TypeOK', NEW r \in Runs, Launch(r)
    PROVE  ServiceInv'
<1> USE DEF ServiceInv
<1>1. at[r] = "begun" /\ running /\ doneOf = r /\ ~progress.dryRun
  BY DEF Launch, OneRun, Live, LabelPending
<1>2. at'[r] = "engine" /\ \A q \in Runs : q # r => at'[q] = at[q]
  BY Moves DEF Launch
<1>3. FreshIds'
  BY <1>1, <1>2 DEF FreshIds, Launch
<1>4. OneRun'
  BY <1>1, <1>2 DEF OneRun, Live, Launch
<1>5. LabelPending'
  BY <1>1, <1>2 DEF LabelPending, Launch
<1>6. SnapshotFaithful'
  BY <1>1, <1>2 DEF SnapshotFaithful, Launch, TypeOK, ProgressType
<1>7. RowAwaitsEngine' /\ LedgerAgrees'
  BY <1>1, <1>2 DEF RowAwaitsEngine, LedgerAgrees, Live, Launch
<1>8. \A q \in Runs : Finishing(q)' <=> Finishing(q)
  BY <1>1, <1>2 DEF Finishing
<1>9. NotifyCountExact'
  BY <1>8, NotifyUntouched DEF Launch
<1>10. ShutdownKnows' /\ ShutdownDrains'
  BY <1>1, <1>2, <1>8, ShutdownUntouched DEF Over, Launch, TypeOK
<1> QED
  BY <1>3, <1>4, <1>5, <1>6, <1>7, <1>9, <1>10

\* Every step of an engine but its last write.
LEMMA EngineKeeps ==
    ASSUME ServiceInv, TypeOK', NEW r \in Runs, NEW e \in EngineType, NEW p,
           at[r] = "engine", eng[r].stage # "closed",
           e.stage # "closed", e.stage = "settled" => e.status \in Terminal,
           EngineStep(r, e), ReportProgress(p, e)
    PROVE  ServiceInv'
<1> USE DEF ServiceInv
<1>1. running /\ doneOf = r
  BY DEF OneRun, Live
<1>2. eng'[r] = e /\ \A q \in Runs : q # r => eng'[q] = eng[q]
  BY DEF EngineStep, TypeOK
<1>3. UNCHANGED <<running, cancelOf, doneOf, last, notifyWG, at, trigger, row,
                  shutdown>>
  BY DEF EngineStep
<1>4. FreshIds' /\ OneRun'
  BY <1>2, <1>3 DEF FreshIds, OneRun, Live
<1>5. LabelPending'
  BY <1>1, <1>3 DEF LabelPending
<1>6. SnapshotFaithful'
  BY <1>1, <1>2, <1>3
  DEF SnapshotFaithful, ReportProgress, TypeOK, ProgressType
<1>7. RowAwaitsEngine'
  BY <1>2, <1>3 DEF RowAwaitsEngine, Live
<1>8. LedgerAgrees'
  BY <1>2, <1>3 DEF LedgerAgrees
<1>9. NotifyCountExact'
  BY <1>3, NotifyUntouched DEF Finishing
<1>10. ShutdownKnows' /\ ShutdownDrains'
  BY <1>3, ShutdownUntouched DEF Over, Finishing, TypeOK
<1> QED
  BY <1>4, <1>5, <1>6, <1>7, <1>8, <1>9, <1>10

\* The engine's last write, or its loss.
LEMMA EngineClosesKeeps ==
    ASSUME ServiceInv, TypeOK', NEW r \in Runs, EngineCloses(r)
    PROVE  ServiceInv'
<1> USE DEF ServiceInv
<1>1. at[r] = "engine" /\ eng[r].stage = "settled" /\ running /\ doneOf = r
  BY DEF EngineCloses, InEngine, OneRun, Live
<1>2. /\ eng'[r] = [eng[r] EXCEPT !.stage = "closed"]
      /\ \A q \in Runs : q # r => eng'[q] = eng[q] /\ row'[q] = row[q]
  BY DEF EngineCloses, TypeOK
<1>3. /\ eng'[r].stage = "closed"
      /\ eng'[r].total = eng[r].total /\ eng'[r].updated = eng[r].updated
      /\ eng'[r].failed = eng[r].failed /\ eng'[r].status = eng[r].status
  BY <1>2 DEF TypeOK, EngineType
<1>4. /\ row'[r].notify = row[r].notify
      /\ row'[r].status \in {row[r].status, eng[r].status}
      /\ row'[r].status # row[r].status => row'[r].failed = eng[r].failed
  <2>1. CASE UNCHANGED row
    BY <2>1
  <2>2. CASE row' = [row EXCEPT ![r].status = eng[r].status,
                                ![r].failed = eng[r].failed,
                                ![r].detail = eng[r].detail]
    BY <2>2 DEF TypeOK, RowType
  <2> QED
    BY <2>1, <2>2 DEF EngineCloses
<1>5. UNCHANGED <<running, cancelOf, doneOf, last, progress, notifyWG, at,
                  trigger, shutdown>>
  BY DEF EngineCloses, service
<1>6. row[r].status = RunRunning /\ eng[r].status \in Terminal
  BY <1>1 DEF RowAwaitsEngine, Live
<1>7. FreshIds'
  BY <1>1, <1>2, <1>4, <1>5, <1>6
  DEF FreshIds, Terminal, RunRunning, RunSuccess, RunPartial, RunFailed
<1>8. OneRun' /\ LabelPending'
  BY <1>5 DEF OneRun, Live, LabelPending
<1>9. SnapshotFaithful'
  BY <1>1, <1>2, <1>3, <1>5 DEF SnapshotFaithful
<1>10. RowAwaitsEngine'
  BY <1>1, <1>2, <1>3, <1>5 DEF RowAwaitsEngine, Live
<1>11. LedgerAgrees'
  <2>1. ~(RunRunning \in Terminal)
    BY DEF Terminal, RunRunning, RunSuccess, RunPartial, RunFailed
  <2>2. ASSUME NEW q \in Runs, row'[q].status \in Terminal
        PROVE  /\ eng'[q].stage = "closed"
               /\ row'[q].status = eng'[q].status
               /\ row'[q].failed = eng'[q].failed
    <3>1. CASE q = r
      BY <1>3, <1>4, <1>6, <2>1, <2>2, <3>1
    <3>2. CASE q # r
      BY <1>2, <2>2, <3>2 DEF LedgerAgrees
    <3> QED
      BY <3>1, <3>2
  <2>3. ASSUME NEW q \in Runs, row'[q].notify # NotNotified
        PROVE  at'[q] = "settled"
    BY <1>2, <1>4, <1>5, <2>3 DEF LedgerAgrees
  <2> QED
    BY <2>2, <2>3 DEF LedgerAgrees
<1>12. NotifyCountExact'
  BY <1>5, NotifyUntouched DEF Finishing
<1>13. ShutdownKnows' /\ ShutdownDrains'
  BY <1>5, ShutdownUntouched DEF Over, Finishing, TypeOK
<1> QED
  BY <1>7, <1>8, <1>9, <1>10, <1>11, <1>12, <1>13

LEMMA CompleteKeeps ==
    ASSUME ServiceInv, TypeOK', NEW r \in Runs, Complete(r)
    PROVE  ServiceInv'
<1> USE DEF ServiceInv
<1>1. at[r] = "engine" /\ eng[r].stage = "closed" /\ running /\ doneOf = r
  BY DEF Complete, InEngine, OneRun, Live
<1>2. at'[r] = "completed" /\ \A q \in Runs : q # r => at'[q] = at[q]
  BY Moves DEF Complete
<1>3. \A q \in Runs : ~Live(q)'
  BY <1>1, <1>2 DEF Live, OneRun
<1>4. FreshIds'
  BY <1>1, <1>2 DEF FreshIds, Complete
<1>5. OneRun'
  BY <1>3, RunsAssumption DEF OneRun, Complete
<1>6. LabelPending'
  BY <1>2 DEF LabelPending, Complete
<1>7. SnapshotFaithful'
  BY <1>1 DEF SnapshotFaithful, Complete, TypeOK, ProgressType
<1>8. RowAwaitsEngine' /\ LedgerAgrees'
  BY <1>1, <1>2, <1>3 DEF RowAwaitsEngine, LedgerAgrees, Complete
<1>9. NotifyCountExact'
  <2> DEFINE S == {q \in Runs : Finishing(q)}
  <2>1. IsFiniteSet(S) /\ r \notin S
    BY <1>1, RunsAssumption, FS_Subset DEF Finishing
  <2>2. S' = S \cup {r}
    BY <1>1, <1>2 DEF Finishing
  <2>3. Cardinality(S') = Cardinality(S) + 1
    BY <2>1, <2>2, FS_AddElement
  <2> QED
    BY <2>3 DEF NotifyCountExact, Complete
<1>10. ShutdownKnows' /\ ShutdownDrains'
  BY <1>1, <1>2, ShutdownUntouched DEF Over, Finishing, Complete, TypeOK
<1> QED
  BY <1>4, <1>5, <1>6, <1>7, <1>8, <1>9, <1>10

LEMMA AnnounceKeeps ==
    ASSUME ServiceInv, TypeOK', NEW r \in Runs, Announce(r)
    PROVE  ServiceInv'
<1> USE DEF ServiceInv
<1>1. at[r] = "completed"
  BY DEF Announce
<1>2. at'[r] = "notifying" /\ \A q \in Runs : q # r => at'[q] = at[q]
  BY Moves DEF Announce
<1>3. UNCHANGED <<running, cancelOf, doneOf, last, progress, notifyWG, trigger,
                  eng, row, shutdown>>
  BY DEF Announce, service
<1>4. \A q \in Runs : Live(q)' <=> Live(q)
  BY <1>1, <1>2 DEF Live
<1>5. FreshIds' /\ OneRun'
  BY <1>1, <1>2, <1>3, <1>4 DEF FreshIds, OneRun
<1>6. running => at'[doneOf] = at[doneOf]
  BY <1>1, <1>2 DEF OneRun, Live, TypeOK
<1>7. LabelPending' /\ SnapshotFaithful'
  BY <1>2, <1>3, <1>6 DEF LabelPending, SnapshotFaithful
<1>8. RowAwaitsEngine' /\ LedgerAgrees'
  BY <1>1, <1>2, <1>3, <1>4 DEF RowAwaitsEngine, LedgerAgrees
<1>9. \A q \in Runs : Finishing(q)' <=> Finishing(q)
  BY <1>1, <1>2 DEF Finishing
<1>10. NotifyCountExact'
  BY <1>3, <1>9, NotifyUntouched
<1>11. ShutdownKnows' /\ ShutdownDrains'
  BY <1>1, <1>2, <1>3, <1>9, ShutdownUntouched DEF Over, TypeOK
<1> QED
  BY <1>5, <1>7, <1>8, <1>10, <1>11

LEMMA NotifyKeeps ==
    ASSUME ServiceInv, TypeOK', NEW r \in Runs, Notify(r)
    PROVE  ServiceInv'
<1> USE DEF ServiceInv
<1>1. at[r] = "notifying"
  BY DEF Notify
<1>2. at'[r] = "settled" /\ \A q \in Runs : q # r => at'[q] = at[q]
  BY Moves DEF Notify
<1>3. UNCHANGED <<running, cancelOf, doneOf, last, progress, trigger, eng,
                  shutdown>>
  BY DEF Notify
<1>4. /\ \A q \in Runs : q # r => row'[q] = row[q]
      /\ row'[r].status = row[r].status
      /\ row'[r].failed = row[r].failed
  <2>1. CASE UNCHANGED row
    BY <2>1
  <2>2. ASSUME NEW o \in NotifyResults, row' = [row EXCEPT ![r].notify = o]
        PROVE  <1>4!1 /\ <1>4!2 /\ <1>4!3
    BY <2>2 DEF TypeOK, RowType
  <2> QED
    BY <2>1, <2>2 DEF Notify
<1>5. \A q \in Runs : Live(q)' <=> Live(q)
  BY <1>1, <1>2 DEF Live
<1>6. FreshIds' /\ OneRun'
  BY <1>1, <1>2, <1>3, <1>4, <1>5 DEF FreshIds, OneRun
<1>7. running => at'[doneOf] = at[doneOf]
  BY <1>1, <1>2 DEF OneRun, Live, TypeOK
<1>8. LabelPending' /\ SnapshotFaithful'
  BY <1>2, <1>3, <1>7 DEF LabelPending, SnapshotFaithful
<1>9. RowAwaitsEngine' /\ LedgerAgrees'
  BY <1>1, <1>2, <1>3, <1>4, <1>5 DEF RowAwaitsEngine, LedgerAgrees
<1>10. NotifyCountExact'
  <2> DEFINE S == {q \in Runs : Finishing(q)}
  <2>1. IsFiniteSet(S) /\ r \in S
    BY <1>1, RunsAssumption, FS_Subset DEF Finishing
  <2>2. S' = S \ {r}
    BY <1>1, <1>2 DEF Finishing
  <2>3. Cardinality(S') = Cardinality(S) - 1
    BY <2>1, <2>2, FS_RemoveElement
  <2> QED
    BY <2>3 DEF NotifyCountExact, Notify
<1>11. ShutdownKnows' /\ ShutdownDrains'
  BY <1>1, <1>2, <1>3, ShutdownUntouched DEF Over, Finishing, TypeOK
<1> QED
  BY <1>6, <1>8, <1>9, <1>10, <1>11

\* The four ways through Shutdown.
LEMMA ShutdownKeeps ==
    ASSUME ServiceInv, TypeOK',
           Shutdown \/ ShutdownSeesDone \/ ShutdownSeesNotified
              \/ ShutdownExpires
    PROVE  ServiceInv'
<1> USE DEF ServiceInv
<1>1. UNCHANGED runState
  BY DEF Shutdown, ShutdownSeesDone, ShutdownSeesNotified, ShutdownExpires,
         service, runState
<1>2. /\ \A r \in Runs : Over(r) <=> Over(r)'
      /\ \A r \in Runs : at[r] = "settled" <=> at'[r] = "settled"
  BY <1>1, RunsUntouched
<1>3. CASE Shutdown
  <2>1. \A r \in sdRuns' : r # sdDone' => Over(r)
    BY <1>3
    DEF Shutdown, Over, Finishing, OneRun, Live, LabelPending, TypeOK,
        Place
  <2> QED
    BY <1>1, <1>2, <1>3, <2>1, RunsUntouched
    DEF Shutdown, ShutdownKnows, ShutdownDrains, Over, TypeOK
<1>4. CASE ShutdownSeesDone
  <2>1. \A r \in sdRuns : Over(r)
    BY <1>4, RunsAssumption
    DEF ShutdownSeesDone, ShutdownKnows, DoneClosed, Over, Finishing, TypeOK
  <2> QED
    BY <1>1, <1>2, <1>4, <2>1, RunsUntouched
    DEF ShutdownSeesDone, ShutdownKnows, ShutdownDrains, Over, TypeOK
<1>5. CASE ShutdownSeesNotified
  <2>1. \A r \in Runs : ~Finishing(r)
    <3>1. IsFiniteSet({r \in Runs : Finishing(r)})
      BY RunsAssumption, FS_Subset
    <3>2. {r \in Runs : Finishing(r)} = {}
      BY <1>5, <3>1, FS_EmptySet DEF ShutdownSeesNotified, NotifyCountExact
    <3> QED
      BY <3>2
  <2>2. \A r \in sdRuns : at[r] = "settled"
    BY <1>5, <2>1 DEF ShutdownSeesNotified, ShutdownKnows, TypeOK
  <2> QED
    BY <1>1, <1>2, <1>5, <2>2, RunsUntouched
    DEF ShutdownSeesNotified, ShutdownKnows, ShutdownDrains, TypeOK
<1>6. CASE ShutdownExpires
  BY <1>1, <1>6, RunsUntouched
  DEF ShutdownExpires, ShutdownKnows, ShutdownDrains
<1> QED
  BY <1>3, <1>4, <1>5, <1>6

\* A step that changes nothing but contexts.
LEMMA ContextKeeps ==
    ASSUME ServiceInv, TypeOK', UNCHANGED <<runState, shutdown>>
    PROVE  ServiceInv'
<1>1. ShutdownKnows' /\ ShutdownDrains'
  BY RunsUntouched, ShutdownUntouched DEF ServiceInv, TypeOK
<1> QED
  BY <1>1, RunsUntouched DEF ServiceInv

LEMMA Inductive == ServiceInv /\ [Next]_vars => ServiceInv'
<1> SUFFICES ASSUME ServiceInv, [Next]_vars PROVE ServiceInv'
  OBVIOUS
<1>1. TypeOK'
  BY TypeStep DEF ServiceInv
<1>2. ASSUME NEW r \in Runs, NEW t, Begin(r, t) PROVE ServiceInv'
  BY <1>1, <1>2, BeginKeeps
<1>3. ASSUME NEW r \in Runs, EngineRefuses(r) PROVE ServiceInv'
  <2> DEFINE e == [eng[r] EXCEPT !.stage = "settled", !.status = RunFailed]
  <2>1. /\ e \in EngineType /\ e.stage = "settled" /\ e.status = RunFailed
        /\ at[r] = "engine" /\ eng[r].stage = "open"
    BY <1>3
    DEF EngineRefuses, InEngine, ServiceInv, TypeOK, EngineType, RunStatus,
        Terminal
  <2>2. EngineStep(r, e) /\ ReportProgress(PhaseFinalizing, e)
    BY <1>3 DEF EngineRefuses
  <2> HIDE DEF e
  <2> QED
    BY <1>1, <2>1, <2>2, EngineKeeps DEF Terminal
<1>4. ASSUME NEW r \in Runs, NEW n \in 0..MaxTotal, EngineEnumerates(r, n)
      PROVE  ServiceInv'
  <2> DEFINE e == [eng[r] EXCEPT !.stage = "counting", !.total = n]
  <2>1. /\ e \in EngineType /\ e.stage = "counting"
        /\ at[r] = "engine" /\ eng[r].stage = "open"
    BY <1>4 DEF EngineEnumerates, InEngine, ServiceInv, TypeOK, EngineType
  <2>2. EngineStep(r, e) /\ ReportProgress(PhaseCharacters, e)
    BY <1>4 DEF EngineEnumerates
  <2> HIDE DEF e
  <2> QED
    BY <1>1, <2>1, <2>2, EngineKeeps
<1>5. ASSUME NEW r \in Runs, EngineCounts(r) PROVE ServiceInv'
  <2>1. PICK e \in {[eng[r] EXCEPT !.updated = @ + 1],
                    [eng[r] EXCEPT !.failed = @ + 1]} :
           EngineStep(r, e) /\ ReportProgress(PhaseCharacters, e)
    BY <1>5 DEF EngineCounts
  <2>2. /\ at[r] = "engine" /\ eng[r].stage = "counting"
        /\ eng[r] \in EngineType
        /\ eng[r].updated + eng[r].failed < eng[r].total
    BY <1>5 DEF EngineCounts, InEngine, ServiceInv, TypeOK
  <2>3. e \in EngineType /\ e.stage = "counting"
    BY <2>2, MaxTotalAssumption DEF EngineType
  <2> QED
    BY <1>1, <2>1, <2>2, <2>3, EngineKeeps
<1>6. ASSUME NEW r \in Runs, EngineSettles(r) PROVE ServiceInv'
  <2>1. PICK verdict \in Terminal, d \in BOOLEAN :
           LET e == [eng[r] EXCEPT !.stage = "settled", !.status = verdict,
                                   !.detail = d]
           IN  EngineStep(r, e) /\ ReportProgress(PhaseFinalizing, e)
    BY <1>6 DEF EngineSettles
  <2> DEFINE e == [eng[r] EXCEPT !.stage = "settled", !.status = verdict,
                                 !.detail = d]
  <2>2. at[r] = "engine" /\ eng[r].stage = "counting" /\ eng[r] \in EngineType
    BY <1>6 DEF EngineSettles, InEngine, ServiceInv, TypeOK
  <2>3. e \in EngineType /\ e.stage = "settled" /\ e.status = verdict
    BY <2>2 DEF EngineType, RunStatus
  <2>4. EngineStep(r, e) /\ ReportProgress(PhaseFinalizing, e)
    BY <2>1
  <2> HIDE DEF e
  <2> QED
    BY <1>1, <2>2, <2>3, <2>4, EngineKeeps
<1>7. ASSUME Cancel \/ ParentDone \/ UNCHANGED vars PROVE ServiceInv'
  <2>1. UNCHANGED <<runState, shutdown>>
    BY <1>7 DEF Cancel, ParentDone, vars, service, runState
  <2> QED
    BY <1>1, <2>1, ContextKeeps
<1> QED
  BY <1>1, <1>2, <1>3, <1>4, <1>5, <1>6, <1>7, BeginFailsKeeps, LaunchKeeps,
     EngineClosesKeeps, CompleteKeeps, AnnounceKeeps, NotifyKeeps,
     ShutdownKeeps
  DEF Next, Carry, Request, ShutdownProceeds, Start, StartManual, StartDryRun,
      StartRetry

(***************************************************************************)
(* The theorems.                                                           *)
(***************************************************************************)

\* ServiceInv holds in every state of every service (service.go:111-319).
THEOREM Invariance == Spec => []ServiceInv
  BY InitServiceInv, Inductive, PTL DEF Spec

\* Every variable keeps its type; in particular the notification count is a
\* natural number, so that its Done never panics (service.go:229).
THEOREM TypeCorrect == Spec => []TypeOK
<1>1. ServiceInv => TypeOK
  BY DEF ServiceInv
<1> QED
  BY <1>1, Invariance, PTL

\* At most one run is between begin and complete, and Cancel and Shutdown speak
\* of that one (service.go:111-191).
THEOREM OnlyOneRun == Spec => []OneRun
<1>1. ServiceInv => OneRun
  BY DEF ServiceInv
<1> QED
  BY <1>1, Invariance, PTL

\* The polled snapshot is one run's (service.go:129-160, 183-190).
THEOREM SnapshotIsFaithful == Spec => []SnapshotFaithful
<1>1. ServiceInv => SnapshotFaithful
  BY DEF ServiceInv
<1> QED
  BY <1>1, Invariance, PTL

\* The notification WaitGroup counts the completed runs whose notification has
\* not ended, so its Done never takes it below zero (service.go:178-231).
THEOREM NotifyCountCorrect == Spec => []NotifyCountExact
<1>1. ServiceInv => NotifyCountExact
  BY DEF ServiceInv
<1> QED
  BY <1>1, Invariance, PTL

\* A row never contradicts its run (service.go:171-257, engine.go:225-242).
THEOREM LedgerIsHonest == Spec => []LedgerAgrees
<1>1. ServiceInv => LedgerAgrees
  BY DEF ServiceInv
<1> QED
  BY <1>1, Invariance, PTL

\* A Shutdown that returns nil has waited for every run admitted before it
\* (service.go:296-319).
THEOREM ShutdownIsComplete == Spec => []ShutdownDrains
<1>1. ServiceInv => ShutdownDrains
  BY DEF ServiceInv
<1> QED
  BY <1>1, Invariance, PTL

\* Whoever cancels, cancels the run in progress (service.go:284-303).
THEOREM CancelIsAimed == Spec => CancelHitsLiveRun
<1>1. ServiceInv /\ [Next]_vars
        => [\A r \in Runs : ctxDone'[r] /\ ~ctxDone[r] => Live(r)]_ctxDone
  <2> SUFFICES ASSUME ServiceInv, [Next]_vars, NEW r \in Runs,
                      ctxDone'[r], ~ctxDone[r]
               PROVE  Live(r)
    OBVIOUS
  <2>1. CASE Cancel \/ Shutdown
    <3>1. r = cancelOf
      BY <2>1 DEF Cancel, Shutdown, ServiceInv, TypeOK
    <3> QED
      BY <3>1, RunsAssumption DEF ServiceInv, OneRun
  <2>2. CASE ParentDone
    BY <2>2 DEF ParentDone
  <2>3. CASE UNCHANGED ctxDone
    BY <2>3
  <2>4. Cancel \/ Shutdown \/ ParentDone \/ UNCHANGED ctxDone
    <3>1. \A q \in Runs : Carry(q) => UNCHANGED ctxDone
      BY DEF Carry, Launch, EngineRefuses, EngineEnumerates, EngineCounts,
             EngineSettles, EngineStep, EngineCloses, Complete, Announce, Notify
    <3>2. \A q \in Runs : Start(q) => UNCHANGED ctxDone
      BY DEF Start, Begin
    <3>3. Request => Cancel \/ UNCHANGED ctxDone
      BY DEF Request, StartManual, StartDryRun, StartRetry, Begin, BeginFails
    <3>4. ShutdownProceeds \/ ShutdownExpires => UNCHANGED ctxDone
      BY DEF ShutdownProceeds, ShutdownSeesDone, ShutdownSeesNotified,
             ShutdownExpires
    <3> QED
      BY <3>1, <3>2, <3>3, <3>4 DEF Next, vars
  <2> QED
    BY <2>1, <2>2, <2>3, <2>4
<1> QED
  BY <1>1, Invariance, PTL DEF Spec, CancelHitsLiveRun

\* The steps that write a row, and what they write.
LEMMA RowSteps ==
    ASSUME ServiceInv, [Next]_vars
    PROVE  \/ UNCHANGED row
           \/ \E r \in Runs, t \in Triggers : Begin(r, t)
           \/ BeginFails
           \/ \E r \in Runs : EngineCloses(r) \/ Notify(r)
<1> QED
  BY DEF Next, Carry, Request, ShutdownProceeds, Start, StartManual,
         StartDryRun, StartRetry, Begin, Launch, EngineRefuses,
         EngineEnumerates, EngineCounts, EngineSettles, EngineStep, Complete,
         Announce, Cancel, ParentDone, Shutdown, ShutdownSeesDone,
         ShutdownSeesNotified, ShutdownExpires, vars

\* An engine that closes is the live one, and what it writes ends the row's
\* "running".
LEMMA ClosingIsTransition ==
    ASSUME ServiceInv, NEW r \in Runs, EngineCloses(r)
    PROVE  /\ Live(r) /\ doneOf = r
           /\ Transition(row[r].status, eng[r].status)
<1> QED
  BY DEF EngineCloses, InEngine, Live, ServiceInv, OneRun, RowAwaitsEngine,
         Transition

\* What a step may do to the result in a row: nothing, open the row, or finish
\* it for the run in progress.
Kept(r) ==
    \/ <<row'[r].status, row'[r].failed, row'[r].detail>>
          = <<row[r].status, row[r].failed, row[r].detail>>
    \/ row[r].status = "absent" /\ row'[r] = OpenRow
    \/ Live(r) /\ Transition(row[r].status, row'[r].status)

ResultKeptStep == \A r \in Runs : Kept(r)

LEMMA KeptStep == ServiceInv /\ [Next]_vars => [ResultKeptStep]_row
<1> SUFFICES ASSUME ServiceInv, [Next]_vars, NEW r \in Runs, row' # row
             PROVE  Kept(r)
  BY DEF ResultKeptStep
<1> USE DEF Kept
<1>1. row \in [Runs -> RowType]
  BY DEF ServiceInv, TypeOK
<1>2. ASSUME NEW q \in Runs, NEW t, Begin(q, t) PROVE Kept(r)
  BY <1>1, <1>2 DEF Begin
<1>3. CASE BeginFails
  BY <1>1, <1>3 DEF BeginFails
<1>4. ASSUME NEW q \in Runs, EngineCloses(q) PROVE Kept(r)
  <2>1. CASE q = r
    <3>1. Live(r) /\ Transition(row[r].status, eng[r].status)
      BY <1>4, <2>1, ClosingIsTransition
    <3>2. row'[r].status = eng[r].status \/ row' = row
      BY <1>1, <1>4, <2>1 DEF EngineCloses, RowType
    <3> QED
      BY <3>1, <3>2
  <2>2. CASE q # r
    BY <1>1, <1>4, <2>2 DEF EngineCloses
  <2> QED
    BY <2>1, <2>2
<1>5. ASSUME NEW q \in Runs, Notify(q) PROVE Kept(r)
  BY <1>1, <1>5 DEF Notify, RowType
<1> QED
  BY <1>2, <1>3, <1>4, <1>5, RowSteps

\* A row's result changes when it is opened and when its run finishes it, and
\* never again (service.go:111-137, 235-257; engine.go:225-242).
THEOREM ResultsAreKept == Spec => ResultsKept
<1>1. ServiceInv /\ [Next]_vars => [ResultKeptStep]_row
  BY KeptStep
<1> QED
  BY <1>1, Invariance, PTL DEF Spec, ResultsKept, ResultKeptStep, Kept

LEMMA LedgerStep == ServiceInv /\ [Next]_vars => [Ledger!Next]_(Ledger!vars)
<1> DEFINE statuses == [r \in Runs |-> row[r].status]
<1> SUFFICES ASSUME ServiceInv, [Next]_vars
             PROVE  [Ledger!Next]_(Ledger!vars)
  OBVIOUS
<1>0. \/ UNCHANGED <<row, doneOf>>
      \/ \E q \in Runs : \E t : Begin(q, t)
      \/ BeginFails
      \/ \E q \in Runs : EngineCloses(q) \/ Notify(q) \/ Complete(q)
  <2>1. ASSUME NEW q \in Runs, Carry(q)
        PROVE  \/ UNCHANGED <<row, doneOf>>
               \/ EngineCloses(q) \/ Notify(q) \/ Complete(q)
    BY <2>1 DEF Carry, Launch, EngineRefuses, EngineEnumerates, EngineCounts,
                EngineSettles, EngineStep, Announce, service
  <2>2. ASSUME NEW q \in Runs, Start(q)
        PROVE  \E t : Begin(q, t)
    BY <2>2 DEF Start
  <2>3. ASSUME Request
        PROVE  \/ UNCHANGED <<row, doneOf>>
               \/ \E q \in Runs : \E t : Begin(q, t)
               \/ BeginFails
    BY <2>3 DEF Request, StartManual, StartDryRun, StartRetry, Cancel,
                service
  <2>4. ParentDone \/ Shutdown => UNCHANGED <<row, doneOf>>
    BY DEF ParentDone, Shutdown, service
  <2>5. ShutdownProceeds \/ ShutdownExpires => UNCHANGED <<row, doneOf>>
    BY DEF ShutdownProceeds, ShutdownSeesDone, ShutdownSeesNotified,
           ShutdownExpires, service
  <2> QED
    BY <2>1, <2>2, <2>3, <2>4, <2>5 DEF Next, vars, service
<1> USE DEF Ledger!Next, Ledger!vars
<1>1. ASSUME NEW q \in Runs, NEW s \in Ledger!Terminal,
             Ledger!Record(q, s)
      PROVE  Ledger!Next
  BY <1>1
<1> USE DEF Ledger!CanStart, Ledger!RunRunning, RunRunning, Ledger!Transition,
            Transition, Ledger!Terminal, Terminal, Ledger!RunSuccess,
            RunSuccess, Ledger!RunPartial, RunPartial, Ledger!RunFailed,
            RunFailed
<1>2. row \in [Runs -> RowType] /\ doneOf \in Runs \cup {NoRun}
  BY DEF ServiceInv, TypeOK
<1>3. CASE UNCHANGED <<row, doneOf>>
  BY <1>3
<1>4. ASSUME NEW q \in Runs, NEW t, Begin(q, t) PROVE Ledger!Open(q)
  <2>1. doneOf = NoRun /\ doneOf' = q /\ row[q].status = "absent"
    BY <1>4 DEF Begin, CanStart, ServiceInv, OneRun
  <2>2. statuses' = [statuses EXCEPT ![q] = RunRunning]
    BY <1>2, <1>4 DEF Begin, OpenRow, NoRow
  <2> QED
    BY <2>1, <2>2 DEF Ledger!Open, CanStart
<1>5. CASE BeginFails
  <2>1. doneOf = NoRun /\ doneOf' = doneOf
    BY <1>5 DEF BeginFails, CanStart, ServiceInv, OneRun
  <2>2. ASSUME NEW q \in Runs, row[q].status = "absent",
               row' = [row EXCEPT ![q] = OpenRow]
        PROVE  Ledger!Orphan(q)
    <3>1. statuses' = [statuses EXCEPT ![q] = RunRunning]
      BY <1>2, <2>2 DEF OpenRow, NoRow
    <3> QED
      BY <2>1, <2>2, <3>1 DEF Ledger!Orphan, CanStart
  <2> QED
    BY <1>5, <2>1, <2>2 DEF BeginFails
<1>6. ASSUME NEW q \in Runs, EngineCloses(q)
      PROVE  Ledger!Next \/ UNCHANGED Ledger!vars
  <2>1. doneOf = q /\ doneOf' = doneOf
        /\ Transition(row[q].status, eng[q].status)
    BY <1>6, ClosingIsTransition DEF EngineCloses, service
  <2>2. CASE UNCHANGED row
    BY <2>1, <2>2
  <2>3. CASE row' # row
    <3>1. statuses' = [statuses EXCEPT ![q] = eng[q].status]
      <4>1. /\ row'[q].status = eng[q].status
            /\ \A r \in Runs \ {q} : row'[r].status = row[r].status
        BY <1>2, <1>6, <2>3 DEF EngineCloses, RowType
      <4> QED
        BY <4>1
    <3>2. PICK s \in Ledger!Terminal : s = eng[q].status
      BY <2>1
    <3>3. Ledger!Record(q, s)
      BY <2>1, <3>1, <3>2 DEF Ledger!Record
    <3> QED
      BY <1>1, <3>3
  <2> QED
    BY <2>2, <2>3
<1>7. ASSUME NEW q \in Runs, Notify(q) PROVE UNCHANGED Ledger!vars
  <2>1. \A r \in Runs : row'[r].status = row[r].status
    BY <1>2, <1>7 DEF Notify, RowType
  <2> QED
    BY <1>7, <2>1 DEF Notify
<1>8. ASSUME NEW q \in Runs, Complete(q) PROVE Ledger!Settle
  <2>1. doneOf = q
    BY <1>8 DEF Complete, InEngine, Live, ServiceInv, OneRun
  <2> QED
    BY <1>8, <2>1, RunsAssumption DEF Complete, Ledger!Settle
<1> QED
  BY <1>3, <1>4, <1>5, <1>6, <1>7, <1>8, <1>0

\* The service implements RunLedger: whatever the interleaving, an observer of
\* the table and of the run in progress sees one run at a time and rows that
\* are finished once (service.go:111-257).
THEOREM ServiceKeepsLedger == Spec => KeepsLedger
<1>1. Init => Ledger!Init
  BY DEF Init, Ledger!Init, NoRow
<1> QED
  BY <1>1, LedgerStep, Invariance, PTL DEF Spec, KeepsLedger, Ledger!Spec

\* A run whose engine, context and status column are left alone keeps its
\* contract; so does one whose context is only cancelled.
LEMMA UntouchedKeepsContract ==
    ASSUME ServiceInv, NEW q \in Runs, UNCHANGED eng[q],
           UNCHANGED row[q].status \/ row'[q].status = RunRunning,
           row[q].status \in {"absent", RunRunning} \/ UNCHANGED row[q].status,
           UNCHANGED ctxDone[q] \/ ctxDone'[q] = TRUE
    PROVE  [Contract(q)!Next]_(Contract(q)!vars)
<1> USE DEF Contract!vars, Contract!Next, RunRunning
<1>1. UNCHANGED IF row[q].status = "absent" THEN RunRunning ELSE row[q].status
  OBVIOUS
<1>2. CASE UNCHANGED ctxDone[q]
  BY <1>1, <1>2
<1>3. CASE ctxDone'[q] = TRUE
  BY <1>1, <1>3 DEF Contract!Cancel, Contract!counts
<1> QED
  BY <1>2, <1>3

\* What the service lets each run's engine do is what RunContract allows, so
\* that nothing above rests on an engine other than the one that
\* SyncEngineProofs shows to keep that contract (engine.go:88-242).
THEOREM EnginesAreContracted == Spec => EnginesKeepContract
<1> USE DEF Contract!RunRunning, RunRunning
<1>1. Init => \A r \in Runs : Contract(r)!Init
  BY DEF Init, Contract!Init, NewEngine, NoRow
<1>2. ServiceInv /\ [Next]_vars
        => [\A r \in Runs : [Contract(r)!Next]_(Contract(r)!vars)]_vars
  <2> SUFFICES ASSUME ServiceInv, [Next]_vars, NEW q \in Runs
               PROVE  [Contract(q)!Next]_(Contract(q)!vars)
    OBVIOUS
  <2>0. OpenRow.status = RunRunning
    BY DEF OpenRow, NoRow
  <2>1. /\ row \in [Runs -> RowType] /\ eng \in [Runs -> EngineType]
        /\ ctxDone \in [Runs -> BOOLEAN]
        /\ cancelOf \in Runs \cup {NoRun}
    BY DEF ServiceInv, TypeOK
  <2>2. CASE UNCHANGED <<eng, row>>
             /\ (Cancel \/ Shutdown \/ ParentDone \/ UNCHANGED ctxDone)
    <3>1. UNCHANGED ctxDone[q] \/ ctxDone'[q] = TRUE
      BY <2>1, <2>2 DEF Cancel, Shutdown, ParentDone
    <3> QED
      BY <2>2, <3>1, UntouchedKeepsContract
  <2>3. ASSUME NEW r \in Runs, NEW t, Begin(r, t)
        PROVE  [Contract(q)!Next]_(Contract(q)!vars)
    <3>1. UNCHANGED <<eng, ctxDone>>
          /\ \/ UNCHANGED row[q]
             \/ row[q].status = "absent" /\ row'[q].status = RunRunning
      BY <2>0, <2>1, <2>3 DEF Begin
    <3> QED
      BY <3>1, UntouchedKeepsContract
  <2>4. CASE BeginFails
    <3>1. UNCHANGED <<eng, ctxDone>>
          /\ \/ UNCHANGED row[q]
             \/ row[q].status = "absent" /\ row'[q].status = RunRunning
      BY <2>0, <2>1, <2>4 DEF BeginFails
    <3> QED
      BY <3>1, UntouchedKeepsContract
  <2>5. ASSUME NEW r \in Runs, Notify(r)
        PROVE  [Contract(q)!Next]_(Contract(q)!vars)
    <3>1. UNCHANGED <<eng, ctxDone>> /\ row'[q].status = row[q].status
      BY <2>1, <2>5 DEF Notify, RowType
    <3> QED
      BY <3>1, UntouchedKeepsContract
  <2>6. ASSUME NEW r \in Runs, EngineCloses(r)
        PROVE  [Contract(q)!Next]_(Contract(q)!vars)
    <3>1. CASE r # q
      <4>1. UNCHANGED <<eng[q], ctxDone, row[q]>>
        BY <2>1, <2>6, <3>1 DEF EngineCloses
      <4> QED
        BY <4>1, UntouchedKeepsContract
    <3>2. CASE r = q
      <4>1. row[q].status = RunRunning /\ eng[q].status \in Terminal
        BY <2>6, <3>2, ClosingIsTransition DEF Transition
      <4>2. row'[q].status \in {row[q].status, eng[q].status}
        BY <2>1, <2>6, <3>2 DEF EngineCloses, RowType
      <4>3. /\ eng[q].stage = "settled" /\ eng'[q].stage = "closed"
            /\ UNCHANGED <<eng[q].total, eng[q].updated, eng[q].failed,
                           eng[q].status, ctxDone[q]>>
        BY <2>1, <2>6, <3>2 DEF EngineCloses, InEngine, EngineType
      <4>4. Contract(q)!Close
        BY <4>1, <4>2, <4>3
        DEF Contract!Close, Contract!counts, Terminal, RunSuccess, RunPartial,
            RunFailed
      <4> QED
        BY <4>4 DEF Contract!Next
    <3> QED
      BY <3>1, <3>2
  <2>7. ASSUME NEW r \in Runs, NEW e, EngineStep(r, e), r # q
        PROVE  [Contract(q)!Next]_(Contract(q)!vars)
    <3>1. UNCHANGED <<eng[q], row, ctxDone>>
      BY <2>1, <2>7 DEF EngineStep
    <3> QED
      BY <3>1, UntouchedKeepsContract
  <2>8. CASE EngineRefuses(q)
    <3>1. /\ eng[q].stage = "open" /\ eng[q] \in EngineType
          /\ eng'[q] = [eng[q] EXCEPT !.stage = "settled",
                                      !.status = RunFailed]
          /\ UNCHANGED <<row, ctxDone>>
      BY <2>1, <2>8 DEF EngineRefuses, InEngine, EngineStep
    <3>2. Contract(q)!Refuse
      BY <3>1
      DEF EngineType, Contract!Refuse, Contract!counts, RunFailed,
          Contract!RunFailed
    <3> QED
      BY <3>2 DEF Contract!Next
  <2>9. ASSUME NEW n \in 0..MaxTotal, EngineEnumerates(q, n)
         PROVE  [Contract(q)!Next]_(Contract(q)!vars)
    <3>1. /\ eng[q].stage = "open" /\ eng[q] \in EngineType
          /\ eng'[q] = [eng[q] EXCEPT !.stage = "counting", !.total = n]
          /\ UNCHANGED <<row, ctxDone>>
      BY <2>1, <2>9 DEF EngineEnumerates, InEngine, EngineStep
    <3>2. Contract(q)!Enumerate
      BY <3>1 DEF EngineType, Contract!Enumerate
    <3> QED
      BY <3>2 DEF Contract!Next
  <2>10. CASE EngineCounts(q)
    <3>1. /\ eng[q].stage = "counting" /\ eng[q] \in EngineType
          /\ eng[q].updated + eng[q].failed < eng[q].total
          /\ eng'[q] \in {[eng[q] EXCEPT !.updated = @ + 1],
                         [eng[q] EXCEPT !.failed = @ + 1]}
          /\ UNCHANGED <<row, ctxDone>>
      BY <2>1, <2>10 DEF EngineCounts, InEngine, EngineStep
    <3>2. Contract(q)!CountUpdated \/ Contract(q)!CountFailed
      BY <3>1 DEF EngineType, Contract!CountUpdated, Contract!CountFailed
    <3> QED
      BY <3>2 DEF Contract!Next
  <2>11. CASE EngineSettles(q)
    <3>1. /\ eng[q].stage = "counting" /\ eng[q] \in EngineType
          /\ UNCHANGED <<row, ctxDone>>
      BY <2>1, <2>11 DEF EngineSettles, InEngine, EngineStep
    <3>2. PICK verdict \in Terminal, d \in BOOLEAN :
             /\ \/ ctxDone[q] /\ verdict = RunFailed
                \/ /\ ~ctxDone[q]
                   /\ eng[q].updated + eng[q].failed = eng[q].total
                   /\ verdict = Outcome(eng[q].updated, eng[q].failed)
             /\ eng'[q] = [eng[q] EXCEPT !.stage = "settled",
                                         !.status = verdict, !.detail = d]
      BY <2>1, <2>11 DEF EngineSettles, EngineStep
    <3>3. Contract(q)!Settle
      BY <3>1, <3>2
      DEF EngineType, Contract!Settle, Contract!counts, Outcome,
          Contract!Outcome, RunSuccess, Contract!RunSuccess, RunPartial,
          Contract!RunPartial, RunFailed, Contract!RunFailed
    <3> QED
      BY <3>3 DEF Contract!Next
  <2>12. \/ UNCHANGED <<eng, row>>
            /\ (Cancel \/ Shutdown \/ ParentDone \/ UNCHANGED ctxDone)
         \/ \E r \in Runs, t \in Triggers : Begin(r, t)
         \/ BeginFails
         \/ \E r \in Runs :
               \/ Notify(r) \/ EngineCloses(r) \/ EngineRefuses(r)
               \/ \E n \in 0..MaxTotal : EngineEnumerates(r, n)
               \/ EngineCounts(r) \/ EngineSettles(r)
    BY DEF Next, Carry, Request, ShutdownProceeds, Start, StartManual,
           StartDryRun, StartRetry, Begin, Launch, Complete, Announce, Cancel,
           ParentDone, Shutdown, ShutdownSeesDone, ShutdownSeesNotified,
           ShutdownExpires, vars
  <2>13. ASSUME NEW r \in Runs, r # q,
                \/ EngineRefuses(r)
                \/ \E n \in 0..MaxTotal : EngineEnumerates(r, n)
                \/ EngineCounts(r) \/ EngineSettles(r)
         PROVE  \E e : EngineStep(r, e)
    BY <2>13
    DEF EngineRefuses, EngineEnumerates, EngineCounts, EngineSettles
  <2> QED
    BY <2>2, <2>3, <2>4, <2>5, <2>6, <2>7, <2>8, <2>9, <2>10, <2>11, <2>12,
       <2>13
<1> QED
  BY <1>1, <1>2, Invariance, PTL DEF Spec, EnginesKeepContract
-----------------------------------------------------------------------------
(***************************************************************************)
(* The process around the service, for any number of runs, requests,       *)
(* crashes and restarts.  Every step of a living process is a step of the  *)
(* service or leaves it alone, so its invariant needs one more lemma: that *)
(* a new process, which keeps only the ledger, starts inside it.           *)
(***************************************************************************)

\* A living process does to its service what the service does.
LEMMA AliveServes == Alive => [Next]_vars
  BY DEF Alive, Arrive, Handle, TimerFires, Carrying, Signal, CloseListener,
         Drain, ShutService, MainReturns, Crash, Next, Request

LEMMA BootKeeps ==
    ASSUME ServiceInv, Boot
    PROVE  ServiceInv'
<1> USE DEF ServiceInv, Boot, NewProcess
<1>1. \A r \in Runs : /\ at[r] \in {"idle", "settled"} => at'[r] = at[r]
                      /\ at[r] \notin {"idle", "settled"} => at'[r] = "lost"
  OBVIOUS
<1>2. TypeOK'
  <2>1. at' \in [Runs -> Place]
    BY DEF TypeOK, Place
  <2>2. progress' \in ProgressType
    BY RecordTypes
  <2> QED
    BY <2>1, <2>2 DEF TypeOK
<1>3. FreshIds'
  BY <1>1 DEF FreshIds
<1>4. OneRun' /\ LabelPending'
  BY <1>1, RunsAssumption DEF OneRun, Live, LabelPending
<1>5. SnapshotFaithful'
  BY DEF SnapshotFaithful, ZeroProgress
<1>6. RowAwaitsEngine' /\ LedgerAgrees'
  BY <1>1 DEF RowAwaitsEngine, LedgerAgrees, Live
<1>7. NotifyCountExact'
  <2>1. {r \in Runs : Finishing(r)}' = {}
    BY <1>1 DEF Finishing
  <2> QED
    BY <2>1, FS_EmptySet DEF NotifyCountExact
<1>8. ShutdownKnows' /\ ShutdownDrains'
  BY DEF ShutdownKnows, ShutdownDrains
<1> QED
  BY <1>2, <1>3, <1>4, <1>5, <1>6, <1>7, <1>8

(***************************************************************************)
(* The order of a stop.                                                    *)
(***************************************************************************)

\* No step of a run that is under way is the first one of a run.
LEMMA CarryStarts ==
    ASSUME TypeOK, NEW r \in Runs, Carry(r)
    PROVE  /\ \A q \in Runs : at'[q] \notin {"idle", "lost"}
                                => at[q] \notin {"idle", "lost"}
           /\ UNCHANGED <<parentDone, shutdown>>
<1>1. at[r] \in {"begun", "engine", "completed", "notifying"}
  BY DEF Carry, Launch, EngineRefuses, EngineEnumerates, EngineCounts,
         EngineSettles, EngineCloses, Complete, Announce, Notify, InEngine
<1>2. \A q \in Runs : q # r => at'[q] = at[q]
  BY DEF TypeOK, Carry, Launch, EngineRefuses, EngineEnumerates, EngineCounts,
         EngineSettles, EngineStep, EngineCloses, Complete, Announce, Notify
<1>3. UNCHANGED <<parentDone, shutdown>>
  BY DEF Carry, Launch, EngineRefuses, EngineEnumerates, EngineCounts,
         EngineSettles, EngineStep, EngineCloses, Complete, Announce, Notify
<1> QED
  BY <1>1, <1>2, <1>3

LEMMA StopInOrderStep ==
    ServiceInv /\ StopInOrder /\ [ServerNext]_allVars => StopInOrder'
<1> SUFFICES ASSUME ServiceInv, StopInOrder, [ServerNext]_allVars
             PROVE  StopInOrder'
  OBVIOUS
<1> USE DEF StopInOrder, procVars
<1>1. CASE Arrive \/ CloseListener \/ Drain \/ MainReturns \/ Crash
  BY <1>1
  DEF Arrive, CloseListener, Drain, MainReturns, Crash, vars, shutdown
<1>2. CASE Handle
  <2>1. handler /\ http # "drained" /\ handler' = FALSE /\ UNCHANGED http
    BY <1>2 DEF Handle
  <2>2. UNCHANGED <<parentDone, shutdown>>
    BY <1>2
    DEF Handle, Request, StartManual, StartDryRun, StartRetry, Begin,
        BeginFails, Cancel, vars
  <2> QED
    BY <2>1, <2>2 DEF shutdown
<1>3. CASE TimerFires
  <2>1. UNCHANGED <<http, handler, parentDone, shutdown>>
    BY <1>3 DEF TimerFires, Start, Begin, BeginFails
  <2>2. parentDone => UNCHANGED at
    BY <1>3 DEF TimerFires, Start, Begin, BeginFails
  <2> QED
    BY <2>1, <2>2 DEF shutdown
<1>4. CASE Carrying
  BY <1>4, CarryStarts DEF Carrying, ServiceInv, shutdown
<1>5. CASE Signal
  BY <1>5 DEF Signal, ParentDone, shutdown
<1>6. CASE ShutService
  BY <1>6
  DEF ShutService, Shutdown, ShutdownProceeds, ShutdownSeesDone,
      ShutdownSeesNotified, ShutdownExpires
<1>7. CASE Boot
  BY <1>7 DEF Boot, NewProcess
<1>8. CASE UNCHANGED allVars
  BY <1>8 DEF allVars, vars, shutdown
<1> QED
  BY <1>1, <1>2, <1>3, <1>4, <1>5, <1>6, <1>7, <1>8 DEF ServerNext, Alive

LEMMA ServerStep == ServerInv /\ [ServerNext]_allVars => ServerInv'
<1> SUFFICES ASSUME ServerInv, [ServerNext]_allVars PROVE ServerInv'
  OBVIOUS
<1>1. ServiceInv'
  <2>1. CASE Alive \/ UNCHANGED allVars
    BY <2>1, AliveServes, Inductive DEF ServerInv, allVars
  <2>2. CASE Boot
    BY <2>2, BootKeeps DEF ServerInv
  <2> QED
    BY <2>1, <2>2 DEF ServerNext
<1>2. StopInOrder'
  BY StopInOrderStep DEF ServerInv
<1> QED
  BY <1>1, <1>2 DEF ServerInv

\* The service's invariant and the order of a stop, across any number of
\* signals, crashes and restarts (main.go:205-270).
THEOREM ServerInvariance == ServerSpec => []ServerInv
<1>1. ServerInit => ServerInv
  BY InitServiceInv DEF ServerInit, ServerInv, StopInOrder, Init
<1> QED
  BY <1>1, ServerStep, PTL DEF ServerSpec

\* A new process admits one run at a time whatever the old one left behind, its
\* snapshot is one run's, and no row contradicts its run (service.go:111-257).
THEOREM RestartsAreSafe ==
    ServerSpec => [](OneRun /\ SnapshotFaithful /\ LedgerAgrees)
<1>1. ServerInv => OneRun /\ SnapshotFaithful /\ LedgerAgrees
  BY DEF ServerInv, ServiceInv
<1> QED
  BY <1>1, ServerInvariance, PTL

\* When the requests drained in time, Shutdown answers for every run of the
\* process, though begin never looks at stopping (main.go:247-256,
\* service.go:111-117).
THEOREM NothingSlipsIn == ServerSpec => []NoRunBehindShutdown
<1>1. ServerInv => NoRunBehindShutdown
  BY DEF ServerInv, StopInOrder, NoRunBehindShutdown
<1> QED
  BY <1>1, ServerInvariance, PTL

\* A drain in time followed by a Shutdown that returned nil left nothing of any
\* run to do (main.go:247-256, service.go:296-319).
THEOREM StopsAreClean == ServerSpec => []CleanStop
<1>1. ServerInv => CleanStop
  BY DEF ServerInv, StopInOrder, ServiceInv, ShutdownDrains, CleanStop
<1> QED
  BY <1>1, ServerInvariance, PTL

\* No crash and no new process rewrites a row: its result changes when it is
\* opened and when its run, in the process that carries it, finishes it
\* (service.go:235-257).
THEOREM ResultsSurviveRestarts == ServerSpec => ResultsKept
<1>1. ServerInv /\ [ServerNext]_allVars => [ResultKeptStep]_row
  <2>1. Boot => UNCHANGED row
    BY DEF Boot
  <2>2. UNCHANGED allVars => UNCHANGED row
    BY DEF allVars, vars
  <2> QED
    BY <2>1, <2>2, AliveServes, KeptStep DEF ServerNext, ServerInv
<1> QED
  BY <1>1, ServerInvariance, PTL DEF ServerSpec, ResultsKept, ResultKeptStep, Kept

\* Across restarts, too, an observer of the table and of the run in progress
\* sees the promise of RunLedger: what a crash does to a run is what losing its
\* last write does (service.go:111-257).
THEOREM RestartsKeepLedger == ServerSpec => KeepsLedger
<1>1. ServerInit => Ledger!Init
  BY DEF ServerInit, Init, Ledger!Init, NoRow
<1>2. ServerInv /\ [ServerNext]_allVars => [Ledger!Next]_(Ledger!vars)
  <2> SUFFICES ASSUME ServerInv, [ServerNext]_allVars
               PROVE  [Ledger!Next]_(Ledger!vars)
    OBVIOUS
  <2>1. CASE Alive \/ UNCHANGED allVars
    BY <2>1, AliveServes, LedgerStep DEF ServerInv, allVars
  <2>2. CASE Boot
    <3>1. row' = row /\ doneOf' = NoRun
      BY <2>2 DEF Boot, NewProcess
    <3>2. CASE doneOf = NoRun
      BY <3>1, <3>2 DEF Ledger!vars
    <3>3. CASE doneOf # NoRun
      <4>1. Ledger!Settle
        BY <3>1, <3>3 DEF Ledger!Settle
      <4> QED
        BY <4>1 DEF Ledger!Next
    <3> QED
      BY <3>2, <3>3
  <2> QED
    BY <2>1, <2>2 DEF ServerNext
<1> QED
  BY <1>1, <1>2, ServerInvariance, PTL DEF ServerSpec, KeepsLedger, Ledger!Spec

-----------------------------------------------------------------------------
(***************************************************************************)
(* The scheduler's loops, which ask the service for a run every day:       *)
(* NightlySyncs, for any guilds, schedules and length of the day.          *)
(***************************************************************************)

\* What % does to numbers of two days at most.
LEMMA ModuloDay ==
    ASSUME NEW d \in Nat \ {0}
    PROVE  /\ \A x \in 0..d - 1 : x % d = x
           /\ \A x \in d..2 * d - 1 : x % d = x - d
<1>1. ASSUME NEW x \in 0..d - 1
      PROVE  x % d = x
  OBVIOUS
<1>2. ASSUME NEW x \in d..2 * d - 1
      PROVE  x % d = x - d
  OBVIOUS
<1> QED
  BY <1>1, <1>2

Phases == {"new", "arming", "waiting", "running", "returned", "stopped"}

\* TimersAim and OwedFires, of one guild: its schedule, the clock and how often it
\* was set, and the guild's loop.
Aims(due, w, n, p, t, missed, fired) ==
    /\ p \in {"arming", "waiting", "running"} => due # Invalid
    /\ p \in {"new", "running"} => ~missed
    /\ p = "arming" => w + t < 2 * Day
    /\ n = 0 /\ p \in {"arming", "waiting"} =>
          \/ t = 0 /\ ~fired
          \/ t \in 1..Day /\ w + t \in {due, due + Day} /\ ~missed

AllAim == \A g \in Guilds : Aims(At[g], wall, sets, pc[g], timer[g], owed[g], early[g])

LEMMA AimsOfEach ==
    ASSUME Sched!SchedulerAssumption, Sched!TypeOK
    PROVE  Sched!TimersAim /\ Sched!OwedFires <=> AllAim
<1>1. \A g \in Guilds : timer[g] \in Nat /\ Day \in Nat
  BY DEF Sched!SchedulerAssumption, Sched!TypeOK
<1>2. \A g \in Guilds : timer[g] \in 1..Day => timer[g] # 0
  BY <1>1
<1> QED
  BY <1>1, <1>2 DEF Sched!TimersAim, Sched!OwedFires, AllAim, Aims

SchedInv == Sched!TypeOK /\ AllAim

\* The two ways the module's sets of loops are counted.
LEMMA SameCount == \A S : Sched!Cardinality(S) = Cardinality(S)
  BY DEF Sched!Cardinality, Cardinality

\* What next returns: the wait for the guild's next instant, of a day at most.
LEMMA UntilNextAims ==
    ASSUME Sched!SchedulerAssumption, wall \in 0..Day - 1, NEW g \in Guilds, At[g] # Invalid
    PROVE  /\ Sched!UntilNext(g) \in 1..Day
           /\ wall + Sched!UntilNext(g) \in {At[g], At[g] + Day}
<1> DEFINE x == At[g] - wall + Day - 1
<1>1. Day \in Nat \ {0} /\ At[g] \in 0..Day - 1
  BY DEF Sched!SchedulerAssumption
<1>2. x \in 0..2 * Day - 2
  BY <1>1
<1>3. Sched!UntilNext(g) = (x % Day) + 1
  BY DEF Sched!UntilNext
<1>4. CASE x < Day
  <2>1. x % Day = x
    BY <1>1, <1>2, <1>4, ModuloDay
  <2>2. Sched!UntilNext(g) = At[g] - wall + Day
    BY <1>1, <1>3, <2>1
  <2> QED
    BY <1>1, <1>2, <1>4, <2>2
<1>5. CASE x >= Day
  <2>1. x % Day = x - Day
    BY <1>1, <1>2, <1>5, ModuloDay
  <2> QED
    BY <1>1, <1>2, <1>3, <1>5, <2>1
<1> QED
  BY <1>1, <1>2, <1>4, <1>5

\* The loops that the counters count.
Entered == {x \in Guilds : pc[x] # "new"}
Ended == {x \in Guilds : pc[x] = "stopped"}

LEMMA LoopsCounted ==
    ASSUME Sched!SchedulerAssumption, Sched!TypeOK
    PROVE  /\ IsFiniteSet(Entered) /\ IsFiniteSet(Ended)
           /\ started = Cardinality(Entered) /\ stopped = Cardinality(Ended)
           /\ Cardinality(Entered) \in Nat /\ Cardinality(Ended) \in Nat
<1>1. IsFiniteSet(Guilds)
  BY DEF Sched!SchedulerAssumption, Sched!IsFiniteSet, IsFiniteSet
<1>2. IsFiniteSet(Entered) /\ IsFiniteSet(Ended)
  BY <1>1, FS_Subset DEF Entered, Ended
<1>3. Cardinality(Entered) \in Nat /\ Cardinality(Ended) \in Nat
  BY <1>2, FS_CardinalityType
<1> QED
  BY <1>2, <1>3, SameCount DEF Sched!TypeOK, Entered, Ended

\* A step of one loop: what matters is what becomes of it, and the two counts.
LEMMA LoopKeeps ==
    ASSUME Sched!SchedulerAssumption, SchedInv, NEW g \in Guilds,
           NEW q \in Phases, NEW t \in 0..2 * Day - 1,
           pc' = [pc EXCEPT ![g] = q], timer' = [timer EXCEPT ![g] = t],
           {wake', owed', asked', early'} \subseteq [Guilds -> BOOLEAN],
           \A x \in Guilds \ {g} : owed'[x] = owed[x] /\ early'[x] = early[x],
           UNCHANGED <<wall, sets, mainDone, sweeper, ticker, tick>>,
           Aims(At[g], wall, sets, q, t, owed'[g], early'[g]),
           q # "new",
           started' = started + (IF pc[g] = "new" THEN 1 ELSE 0),
           pc[g] # "stopped", stopped' = stopped + (IF q = "stopped" THEN 1 ELSE 0)
    PROVE  SchedInv'
<1>1. /\ pc' \in [Guilds -> Phases]
      /\ \A x \in Guilds : pc'[x] = IF x = g THEN q ELSE pc[x]
  BY DEF SchedInv, Sched!TypeOK, Phases
<1>2. /\ timer' \in [Guilds -> 0..2 * Day - 1]
      /\ \A x \in Guilds : timer'[x] = IF x = g THEN t ELSE timer[x]
  BY DEF SchedInv, Sched!TypeOK
<1>3. /\ IsFiniteSet(Entered) /\ IsFiniteSet(Ended)
      /\ started = Cardinality(Entered) /\ stopped = Cardinality(Ended)
      /\ Cardinality(Entered) \in Nat /\ Cardinality(Ended) \in Nat
  BY LoopsCounted DEF SchedInv
<1>4. started' = Cardinality(Entered')
  <2>1. Entered' = Entered \cup {g} /\ (g \in Entered <=> pc[g] # "new")
    BY <1>1 DEF Entered
  <2>2. Cardinality(Entered \cup {g}) = IF g \in Entered THEN Cardinality(Entered)
                                      ELSE Cardinality(Entered) + 1
    BY <1>3, FS_AddElement
  <2>3. CASE g \in Entered
    BY <1>3, <2>1, <2>2, <2>3
  <2>4. CASE g \notin Entered
    BY <1>3, <2>1, <2>2, <2>4
  <2> QED
    BY <2>3, <2>4
<1>5. stopped' = Cardinality(Ended')
  <2>1. CASE q = "stopped"
    <3>1. Ended' = Ended \cup {g} /\ g \notin Ended
      BY <1>1, <2>1 DEF Ended
    <3>2. Cardinality(Ended \cup {g}) = Cardinality(Ended) + 1
      BY <1>3, <3>1, FS_AddElement
    <3> QED
      BY <1>3, <2>1, <3>1, <3>2
  <2>2. CASE q # "stopped"
    <3>1. Ended' = Ended
      BY <1>1, <2>2 DEF Ended
    <3> QED
      BY <1>3, <2>2, <3>1
  <2> QED
    BY <2>1, <2>2
<1>6. Sched!TypeOK'
  BY <1>1, <1>2, <1>4, <1>5, SameCount DEF SchedInv, Sched!TypeOK, Phases, Entered, Ended
<1>7. AllAim'
  BY <1>1, <1>2 DEF SchedInv, AllAim
<1> QED
  BY <1>6, <1>7 DEF SchedInv

\* Launch and Return are a step of the loop's head.
LEMMA HeadKeeps ==
    ASSUME Sched!SchedulerAssumption, SchedInv, NEW g \in Guilds, Sched!Head(g),
           pc[g] \in {"new", "running"},
           started' = started + (IF pc[g] = "new" THEN 1 ELSE 0),
           UNCHANGED <<stopped, wake, owed, asked, early, Sched!sweep, Sched!env>>
    PROVE  SchedInv'
<1>1. wall \in 0..Day - 1 /\ Day \in Nat \ {0} /\ timer[g] \in 0..2 * Day - 1
      /\ stopped \in Int
  BY LoopsCounted DEF SchedInv, Sched!TypeOK, Sched!SchedulerAssumption
<1>2. /\ {wake', owed', asked', early'} \subseteq [Guilds -> BOOLEAN]
      /\ \A x \in Guilds : owed'[x] = owed[x] /\ early'[x] = early[x]
      /\ UNCHANGED <<wall, sets, mainDone, sweeper, ticker, tick>>
      /\ pc[g] # "stopped"
  BY DEF SchedInv, Sched!TypeOK, Sched!sweep, Sched!env
<1>3. ~owed[g]
  BY DEF SchedInv, AllAim, Aims
<1>4. CASE At[g] = Invalid
  <2>1. pc' = [pc EXCEPT ![g] = "returned"] /\ timer' = timer
    BY <1>4 DEF Sched!Head
  <2>2. timer' = [timer EXCEPT ![g] = timer[g]]
    BY <2>1 DEF SchedInv, Sched!TypeOK
  <2>3. Aims(At[g], wall, sets, "returned", timer[g], owed'[g], early'[g])
    BY DEF Aims
  <2>4. "returned" \in Phases /\ "returned" # "new"
        /\ stopped' = stopped + (IF "returned" = "stopped" THEN 1 ELSE 0)
    BY <1>1 DEF Phases
  <2> QED
    BY <1>1, <1>2, <2>1, <2>2, <2>3, <2>4, LoopKeeps
<1>5. CASE At[g] # Invalid
  <2> DEFINE t == Sched!UntilNext(g)
  <2>1. pc' = [pc EXCEPT ![g] = "arming"] /\ timer' = [timer EXCEPT ![g] = t]
    BY <1>5 DEF Sched!Head
  <2>2. /\ t \in 1..Day /\ wall + t \in {At[g], At[g] + Day}
        /\ t \in 0..2 * Day - 1 /\ wall + t < 2 * Day
    <3>1. t \in 1..Day /\ wall + t \in {At[g], At[g] + Day}
      BY <1>1, <1>5, UntilNextAims
    <3> QED
      BY <1>1, <3>1
  <2> HIDE DEF t
  <2>3. Aims(At[g], wall, sets, "arming", t, owed'[g], early'[g])
    BY <1>2, <1>3, <1>5, <2>2 DEF Aims
  <2>4. "arming" \in Phases /\ "arming" # "new"
        /\ stopped' = stopped + (IF "arming" = "stopped" THEN 1 ELSE 0)
    BY <1>1 DEF Phases
  <2> QED
    BY <1>1, <1>2, <2>1, <2>2, <2>3, <2>4, LoopKeeps
<1> QED
  BY <1>4, <1>5

\* The steps of a loop between two heads.
LEMMA WaitKeeps ==
    ASSUME Sched!SchedulerAssumption, SchedInv, NEW g \in Guilds,
           \/ Sched!Arm(g) \/ Sched!TimerFires(g) \/ Sched!TakeTrigger(g)
           \/ Sched!SeeDone(g) \/ Sched!CountStopped(g)
    PROVE  SchedInv'
<1> USE DEF Sched!sweep, Sched!env
<1>1. /\ timer[g] \in 0..2 * Day - 1 /\ 0 \in 0..2 * Day - 1
      /\ {wake, owed, asked, early} \subseteq [Guilds -> BOOLEAN]
      /\ started \in Nat /\ stopped \in Nat
      /\ Aims(At[g], wall, sets, pc[g], timer[g], owed[g], early[g])
  BY LoopsCounted DEF SchedInv, AllAim, Sched!TypeOK, Sched!SchedulerAssumption
<1>2. started + 0 = started /\ stopped + 0 = stopped
  BY <1>1
<1>3. timer = [timer EXCEPT ![g] = timer[g]]
  BY DEF SchedInv, Sched!TypeOK
<1>4. CASE Sched!Arm(g)
  <2>1. pc[g] = "arming" /\ pc' = [pc EXCEPT ![g] = "waiting"]
        /\ UNCHANGED <<timer, wake, started, stopped, owed, asked, early, sweeper, ticker, tick,
                       wall, sets, mainDone>>
    BY <1>4 DEF Sched!Arm
  <2>2. Aims(At[g], wall, sets, "waiting", timer[g], owed'[g], early'[g])
    BY <1>1, <2>1 DEF Aims
  <2> QED
    BY <1>1, <1>2, <1>3, <2>1, <2>2, LoopKeeps DEF Phases
<1>5. CASE Sched!TimerFires(g)
  <2>1. /\ pc[g] = "waiting" /\ pc' = [pc EXCEPT ![g] = "running"]
        /\ owed' = [owed EXCEPT ![g] = FALSE] /\ early' = [early EXCEPT ![g] = TRUE]
        /\ UNCHANGED <<timer, wake, started, stopped, asked, sweeper, ticker, tick,
                       wall, sets, mainDone>>
    BY <1>5 DEF Sched!TimerFires, Sched!Begin
  <2>2. {owed', early'} \subseteq [Guilds -> BOOLEAN] /\ ~owed'[g]
        /\ \A x \in Guilds \ {g} : owed'[x] = owed[x] /\ early'[x] = early[x]
    BY <1>1, <2>1
  <2>3. Aims(At[g], wall, sets, "running", timer[g], owed'[g], early'[g])
    BY <1>1, <2>1, <2>2 DEF Aims
  <2>4. {wake', owed', asked', early'} \subseteq [Guilds -> BOOLEAN]
        /\ timer' = [timer EXCEPT ![g] = timer[g]]
    BY <1>1, <1>3, <2>1, <2>2
  <2>5. started' = started + 0 /\ stopped' = stopped + 0
    BY <1>2, <2>1
  <2> QED
    BY <1>1, <2>1, <2>2, <2>3, <2>4, <2>5, LoopKeeps DEF Phases
<1>6. CASE Sched!TakeTrigger(g)
  <2>1. /\ pc[g] = "waiting" /\ pc' = [pc EXCEPT ![g] = "running"]
        /\ wake' = [wake EXCEPT ![g] = FALSE] /\ timer' = [timer EXCEPT ![g] = 0]
        /\ asked' = [asked EXCEPT ![g] = FALSE] /\ owed' = [owed EXCEPT ![g] = FALSE]
        /\ UNCHANGED <<early, started, stopped, sweeper, ticker, tick, wall, sets, mainDone>>
    BY <1>6 DEF Sched!TakeTrigger, Sched!Begin
  <2>2. {wake', asked', owed'} \subseteq [Guilds -> BOOLEAN] /\ ~owed'[g]
        /\ \A x \in Guilds \ {g} : owed'[x] = owed[x] /\ early'[x] = early[x]
    BY <1>1, <2>1
  <2>3. Aims(At[g], wall, sets, "running", 0, owed'[g], early'[g])
    BY <1>1, <2>1, <2>2 DEF Aims
  <2>4. {wake', owed', asked', early'} \subseteq [Guilds -> BOOLEAN]
    BY <1>1, <2>1, <2>2
  <2>5. started' = started + 0 /\ stopped' = stopped + 0
    BY <1>2, <2>1
  <2> QED
    BY <1>1, <2>1, <2>2, <2>3, <2>4, <2>5, LoopKeeps DEF Phases
<1>7. CASE Sched!SeeDone(g)
  <2>1. /\ pc[g] = "waiting" /\ pc' = [pc EXCEPT ![g] = "returned"]
        /\ timer' = [timer EXCEPT ![g] = 0]
        /\ UNCHANGED <<wake, started, stopped, owed, asked, early, sweeper, ticker, tick,
                       wall, sets, mainDone>>
    BY <1>7 DEF Sched!SeeDone
  <2>2. Aims(At[g], wall, sets, "returned", 0, owed'[g], early'[g])
    BY DEF Aims
  <2> QED
    BY <1>1, <1>2, <2>1, <2>2, LoopKeeps DEF Phases
<1>8. CASE Sched!CountStopped(g)
  <2>1. /\ pc[g] = "returned" /\ pc' = [pc EXCEPT ![g] = "stopped"] /\ stopped' = stopped + 1
        /\ UNCHANGED <<timer, wake, started, owed, asked, early, sweeper, ticker, tick,
                       wall, sets, mainDone>>
    BY <1>8 DEF Sched!CountStopped
  <2>2. Aims(At[g], wall, sets, "stopped", timer[g], owed'[g], early'[g])
    BY DEF Aims
  <2> QED
    BY <1>1, <1>2, <1>3, <2>1, <2>2, LoopKeeps DEF Phases
<1> QED
  BY <1>4, <1>5, <1>6, <1>7, <1>8

\* The clock: what runs out at an instant is the timer that was set to it.
LEMMA PassKeeps ==
    ASSUME Sched!SchedulerAssumption, SchedInv, Sched!Pass
    PROVE  SchedInv'
<1>1. /\ Day \in Nat \ {0} /\ Interval \in Nat /\ wall \in 0..Day - 1
      /\ At \in [Guilds -> 0..Day - 1 \cup {Invalid}]
      /\ timer \in [Guilds -> 0..2 * Day - 1] /\ ticker \in 0..Interval /\ tick \in BOOLEAN
      /\ owed \in [Guilds -> BOOLEAN] /\ early \in [Guilds -> BOOLEAN]
  BY DEF SchedInv, Sched!TypeOK, Sched!SchedulerAssumption
<1>2. /\ wall' = IF wall = Day - 1 THEN 0 ELSE wall + 1
      /\ wall' \in 0..Day - 1
  <2>1. wall' = (wall + 1) % Day
    BY DEF Sched!Pass
  <2>2. CASE wall = Day - 1
    <3>1. wall + 1 = Day /\ Day \in Day..2 * Day - 1
      BY <1>1, <2>2
    <3>2. Day % Day = Day - Day
      BY <1>1, <3>1, ModuloDay
    <3> QED
      BY <1>1, <2>1, <2>2, <3>1, <3>2
  <2>3. CASE wall # Day - 1
    <3>1. wall + 1 \in 0..Day - 1
      BY <1>1, <2>3
    <3> QED
      BY <1>1, <2>1, <2>3, <3>1, ModuloDay
  <2> QED
    BY <2>2, <2>3
<1>3. /\ \A g \in Guilds : timer'[g] = IF timer[g] > 0 THEN timer[g] - 1 ELSE 0
      /\ timer' \in [Guilds -> 0..2 * Day - 1]
  BY <1>1 DEF Sched!Pass
<1>4. /\ \A g \in Guilds : owed'[g] = (owed[g] \/ (At[g] = wall' /\ pc[g] \in {"arming", "waiting"}))
      /\ owed' \in [Guilds -> BOOLEAN]
  BY <1>1 DEF Sched!Pass
<1>5. /\ \A g \in Guilds : early'[g] = (early[g] /\ At[g] # wall')
      /\ early' \in [Guilds -> BOOLEAN]
  BY <1>1 DEF Sched!Pass
<1>6. UNCHANGED <<sets, mainDone, pc, wake, started, stopped, asked, sweeper>>
  BY DEF Sched!Pass
<1>7. ticker' \in 0..Interval /\ tick' \in BOOLEAN
  BY <1>1 DEF Sched!Pass, Sched!RunTicker
<1>8. Sched!TypeOK'
  BY <1>2, <1>3, <1>4, <1>5, <1>6, <1>7 DEF SchedInv, Sched!TypeOK, Sched!Cardinality
<1>9. ASSUME NEW g \in Guilds
      PROVE  Aims(At[g], wall, sets, pc[g], timer[g], owed[g], early[g])'
  <2>1. Aims(At[g], wall, sets, pc[g], timer[g], owed[g], early[g])
    BY DEF SchedInv, AllAim
  <2>2. timer[g] \in 0..2 * Day - 1 /\ (At[g] # Invalid => At[g] \in 0..Day - 1)
    BY <1>1
  <2>3. pc[g] = "arming" => wall' + timer'[g] < 2 * Day
    BY <1>1, <1>2, <1>3, <2>1, <2>2 DEF Aims
  <2>4. ASSUME sets = 0, pc[g] \in {"arming", "waiting"}
        PROVE  \/ timer'[g] = 0 /\ ~early'[g]
               \/ timer'[g] \in 1..Day /\ wall' + timer'[g] \in {At[g], At[g] + Day} /\ ~owed'[g]
    <3>1. At[g] \in 0..Day - 1
      BY <2>1, <2>2, <2>4 DEF Aims
    <3>2. CASE timer[g] = 0
      <4>1. ~early[g]
        BY <2>1, <2>4, <3>2 DEF Aims
      <4> QED
        BY <1>3, <1>5, <3>2, <4>1
    <3>3. CASE timer[g] = 1
      <4>1. wall + 1 \in {At[g], At[g] + Day}
        BY <2>1, <2>4, <3>3 DEF Aims
      <4>2. wall' = At[g]
        BY <1>1, <1>2, <3>1, <4>1
      <4> QED
        BY <1>3, <1>5, <3>3, <4>2
    <3>4. CASE timer[g] > 1
      <4>1. timer[g] \in 1..Day /\ wall + timer[g] \in {At[g], At[g] + Day} /\ ~owed[g]
        BY <2>1, <2>2, <2>4, <3>4 DEF Aims
      <4>2. timer'[g] = timer[g] - 1 /\ timer'[g] \in 1..Day
        BY <1>1, <1>3, <2>2, <3>4, <4>1
      <4>3. wall' + timer'[g] \in {At[g], At[g] + Day} /\ wall' # At[g]
        BY <1>1, <1>2, <2>2, <3>1, <3>4, <4>1, <4>2
      <4> QED
        BY <1>4, <4>1, <4>2, <4>3
    <3> QED
      BY <2>2, <3>2, <3>3, <3>4
  <2>5. pc[g] \in {"new", "running"} => ~owed'[g]
    BY <1>4, <2>1 DEF Aims
  <2> QED
    BY <1>6, <2>1, <2>3, <2>4, <2>5 DEF Aims
<1> QED
  BY <1>8, <1>9 DEF SchedInv, AllAim

\* Setting the clock ends what is claimed of timers; one that is armed against it
\* still runs for less than two days.
LEMMA SetClockKeeps ==
    ASSUME Sched!SchedulerAssumption, SchedInv, NEW t \in 0..Day - 1, Sched!SetClock(t)
    PROVE  SchedInv'
<1>1. /\ Day \in Nat \ {0} /\ wall \in 0..Day - 1 /\ sets \in Nat
      /\ timer \in [Guilds -> 0..2 * Day - 1] /\ MaxSets \in Nat
  BY DEF SchedInv, Sched!TypeOK, Sched!SchedulerAssumption
<1>2. /\ sets' = sets + 1 /\ sets' \in 0..MaxSets /\ wall' = t
      /\ UNCHANGED <<mainDone, pc, wake, started, stopped, owed, asked, early, Sched!sweep>>
  BY <1>1 DEF Sched!SetClock
<1>3. \A g \in Guilds : LET left == timer[g] - (t - wall) IN
         timer'[g] = IF pc[g] # "arming" THEN timer[g] ELSE IF left > 0 THEN left ELSE 0
  BY DEF Sched!SetClock
<1>4. ASSUME NEW g \in Guilds
      PROVE  /\ timer'[g] \in 0..2 * Day - 1
             /\ Aims(At[g], wall, sets, pc[g], timer[g], owed[g], early[g])'
  <2>1. Aims(At[g], wall, sets, pc[g], timer[g], owed[g], early[g])
    BY DEF SchedInv, AllAim
  <2>2. timer[g] \in 0..2 * Day - 1
    BY <1>1
  <2>3. pc[g] = "arming" => wall + timer[g] < 2 * Day
    BY <2>1 DEF Aims
  <2>4. timer'[g] \in 0..2 * Day - 1 /\ (pc[g] = "arming" => t + timer'[g] < 2 * Day)
    BY <1>1, <1>3, <2>2, <2>3
  <2>5. sets' # 0
    BY <1>1, <1>2
  <2> QED
    BY <1>2, <2>1, <2>4, <2>5 DEF Aims
<1>5. timer' \in [Guilds -> 0..2 * Day - 1]
  <2>1. timer' = [g \in Guilds |-> timer'[g]]
    BY DEF Sched!SetClock
  <2> QED
    BY <1>4, <2>1
<1> QED
  BY <1>1, <1>2, <1>4, <1>5 DEF SchedInv, AllAim, Sched!TypeOK, Sched!sweep, Sched!Cardinality

\* What no timer depends on.
LEMMA QuietKeeps ==
    ASSUME Sched!SchedulerAssumption, SchedInv,
           \/ \E g \in Guilds : Sched!Trigger(g)
           \/ Sched!SweepEnds \/ Sched!SweepBegins \/ Sched!SweeperStops \/ Sched!Signal
           \/ UNCHANGED Sched!vars
    PROVE  SchedInv'
<1>1. UNCHANGED <<wall, sets, pc, timer, started, stopped, owed, early>>
  BY DEF Sched!Trigger, Sched!SweepEnds, Sched!SweepBegins, Sched!SweeperStops, Sched!Signal,
         Sched!vars, Sched!env, Sched!loops, Sched!sweep
<1>2. /\ mainDone' \in BOOLEAN /\ {wake', asked'} \subseteq [Guilds -> BOOLEAN]
      /\ sweeper' \in {"first", "sweeping", "waiting", "stopped"}
      /\ ticker' \in 0..Interval /\ tick' \in BOOLEAN
  <2>1. /\ mainDone \in BOOLEAN /\ {wake, asked} \subseteq [Guilds -> BOOLEAN]
        /\ sweeper \in {"first", "sweeping", "waiting", "stopped"}
        /\ ticker \in 0..Interval /\ tick \in BOOLEAN /\ Interval \in 0..Interval
    BY DEF SchedInv, Sched!TypeOK, Sched!SchedulerAssumption
  <2>2. CASE \E g \in Guilds : Sched!Trigger(g)
    BY <2>1, <2>2 DEF Sched!Trigger, Sched!env, Sched!sweep
  <2>3. CASE Sched!SweepEnds
    BY <2>1, <2>3 DEF Sched!SweepEnds, Sched!env, Sched!loops
  <2>4. CASE Sched!SweepBegins \/ Sched!SweeperStops
    <3>1. 0 \in 0..Interval
      BY DEF Sched!SchedulerAssumption
    <3> QED
      BY <2>1, <2>4, <3>1 DEF Sched!SweepBegins, Sched!SweeperStops, Sched!env, Sched!loops
  <2>5. CASE Sched!Signal
    BY <2>1, <2>5 DEF Sched!Signal, Sched!loops, Sched!sweep
  <2>6. CASE UNCHANGED Sched!vars
    BY <2>1, <2>6 DEF Sched!vars, Sched!env, Sched!loops, Sched!sweep
  <2> QED
    BY <2>2, <2>3, <2>4, <2>5, <2>6
<1> QED
  BY <1>1, <1>2 DEF SchedInv, AllAim, Sched!TypeOK, Sched!Cardinality

LEMMA SchedInit ==
    ASSUME Sched!SchedulerAssumption, Sched!Init
    PROVE  SchedInv
<1>1. {g \in Guilds : pc[g] # "new"} = {} /\ {g \in Guilds : pc[g] = "stopped"} = {}
  BY DEF Sched!Init
<1>2. Sched!Cardinality({}) = 0
  BY SameCount, FS_EmptySet
<1>3. 0 \in 0..2 * Day - 1 /\ 0 \in 0..MaxSets /\ 0 \in 0..Interval
  BY DEF Sched!SchedulerAssumption
<1>4. Sched!TypeOK
  BY <1>1, <1>2, <1>3 DEF Sched!TypeOK, Sched!Init
<1>5. AllAim
  BY DEF AllAim, Aims, Sched!Init
<1> QED
  BY <1>4, <1>5 DEF SchedInv

LEMMA SchedStep ==
    ASSUME Sched!SchedulerAssumption, SchedInv, [Sched!Next]_Sched!vars
    PROVE  SchedInv'
<1>1. ASSUME NEW g \in Guilds, Sched!Launch(g) \/ Sched!Return(g)
      PROVE  SchedInv'
  <2>1. /\ pc[g] \in {"new", "running"} /\ Sched!Head(g)
        /\ UNCHANGED <<stopped, wake, owed, asked, early, Sched!sweep, Sched!env>>
    BY <1>1 DEF Sched!Launch, Sched!Return
  <2>2. started' = started + (IF pc[g] = "new" THEN 1 ELSE 0)
    <3>1. started \in Nat
      BY LoopsCounted DEF SchedInv
    <3> QED
      BY <1>1, <3>1 DEF Sched!Launch, Sched!Return
  <2> QED
    BY <2>1, <2>2, HeadKeeps
<1> QED
  BY <1>1, WaitKeeps, PassKeeps, SetClockKeeps, QuietKeeps DEF Sched!Next, Sched!Goroutine

\* Every instant of every schedule is served, and once, for any number of guilds and
\* any day: between two runs none is lost, and a run that ends within the minute it
\* was due is not due again.
THEOREM EveryInstantIsServed == Sched!Spec => []InstantsServed
<1>1. Sched!Init => SchedInv
  BY GuildsAssumption, SchedInit
<1>2. SchedInv /\ [Sched!Next]_Sched!vars => SchedInv'
  BY GuildsAssumption, SchedStep
<1>3. SchedInv => InstantsServed
  <2> SUFFICES ASSUME SchedInv
               PROVE  InstantsServed
    OBVIOUS
  <2>1. Sched!TypeOK /\ Sched!TimersAim /\ Sched!OwedFires
    BY GuildsAssumption, AimsOfEach DEF SchedInv
  <2>2. sets \in Nat
    BY <2>1, GuildsAssumption DEF Sched!TypeOK, Sched!SchedulerAssumption
  <2>3. Sched!OnceAnInstant
    BY <2>1, <2>2 DEF Sched!OnceAnInstant, Sched!TimersAim
  <2> QED
    BY <2>1, <2>3 DEF InstantsServed
<1> QED
  BY <1>1, <1>2, <1>3, PTL DEF Sched!Spec

-----------------------------------------------------------------------------
(***************************************************************************)
(* The page that shows the service: SyncPage, for any number of runs,      *)
(* requests and failures.                                                  *)
(***************************************************************************)

\* The values of the page.
LEMMA ViewTypes ==
    ASSUME View!SyncViewAssumption
    PROVE  /\ View!NoRun \in View!Views /\ View!NoCall \in View!CallType
           /\ \A k \in {"runs", "progress", "start", "cancel"}, p \in BOOLEAN :
                 /\ View!Call(k, p) \in View!CallType
                 /\ View!Call(k, p).kind = k /\ View!Call(k, p).polls = p
                 /\ View!Call(k, p).fresh /\ View!Call(k, p).is = "sent"
           /\ View!NoCall.kind = "none" /\ ~View!NoCall.polls /\ ~View!Clicked(View!NoCall)
<1>1. View!NoRun \in View!Views
  BY DEF View!NoRun, View!Views, View!SyncViewAssumption
<1>2. View!NoCall \in View!CallType
  BY <1>1 DEF View!NoCall, View!CallType
<1>3. View!NoCall.kind = "none" /\ ~View!NoCall.polls /\ ~View!Clicked(View!NoCall)
  BY DEF View!NoCall, View!Clicked
<1>4. ASSUME NEW k \in {"runs", "progress", "start", "cancel"}, NEW p \in BOOLEAN
      PROVE  /\ View!Call(k, p) \in View!CallType
             /\ View!Call(k, p).kind = k /\ View!Call(k, p).polls = p
             /\ View!Call(k, p).fresh /\ View!Call(k, p).is = "sent"
  <2> DEFINE n == View!NoCall
  <2>1. View!Call(k, p) = [n EXCEPT !.kind = k, !.fresh = TRUE, !.polls = p, !.is = "sent"]
    BY DEF View!Call
  <2>2. n \in View!CallType
    BY <1>2
  <2> HIDE DEF n
  <2>3. ASSUME NEW c \in View!CallType,
               NEW d, d = [c EXCEPT !.kind = k, !.fresh = TRUE, !.polls = p, !.is = "sent"]
        PROVE  d \in View!CallType /\ d.kind = k /\ d.polls = p /\ d.fresh /\ d.is = "sent"
    BY <2>3 DEF View!CallType
  <2> QED
    BY <2>1, <2>2, <2>3
<1> QED
  BY <1>1, <1>2, <1>3, <1>4

\* What an answer leaves of a call.
Same(c, d) == d.kind = c.kind /\ d.polls = c.polls /\ d.is = c.is

\* A request is sent on a call that was free.
LEMMA SendFills ==
    ASSUME NEW cs \in [View!Calls -> View!CallType], NEW i \in View!Calls, cs[i] = View!NoCall,
           NEW c \in View!CallType
    PROVE  /\ View!Send(cs, c) \in [View!Calls -> View!CallType]
           /\ \E k \in View!Calls :
                 /\ cs[k] = View!NoCall
                 /\ \A x \in View!Calls : View!Send(cs, c)[x] = IF x = k THEN c ELSE cs[x]
<1> DEFINE k == View!Slot(cs)
<1>1. k \in View!Calls /\ cs[k] = View!NoCall
  BY DEF View!Slot
<1> HIDE DEF k
<1>2. View!Send(cs, c) = [cs EXCEPT ![k] = c]
  BY DEF View!Send, k
<1> QED
  BY <1>1, <1>2

\* load: a call that no click waits for, and all others are stale.
LEMMA LoadingIs ==
    ASSUME View!SyncViewAssumption, NEW cs \in [View!Calls -> View!CallType],
           NEW i \in View!Calls, cs[i] = View!NoCall, NEW p \in BOOLEAN
    PROVE  /\ View!Loading(cs, p) \in [View!Calls -> View!CallType]
           /\ \E k \in View!Calls :
                 /\ cs[k].kind = "none" /\ ~cs[k].polls
                 /\ View!Loading(cs, p)[k] = View!Call("runs", p)
                 /\ \A x \in View!Calls \ {k} :
                       Same(cs[x], View!Loading(cs, p)[x]) /\ ~View!Loading(cs, p)[x].fresh
<1> DEFINE st == [x \in View!Calls |-> IF cs[x] = View!NoCall THEN View!NoCall
                                       ELSE [cs[x] EXCEPT !.fresh = FALSE]]
<1>1. \A c \in View!CallType : /\ [c EXCEPT !.fresh = FALSE] \in View!CallType
                               /\ Same(c, [c EXCEPT !.fresh = FALSE])
                               /\ ~[c EXCEPT !.fresh = FALSE].fresh
  <2> SUFFICES ASSUME NEW c \in View!CallType
               PROVE  /\ [c EXCEPT !.fresh = FALSE] \in View!CallType
                      /\ Same(c, [c EXCEPT !.fresh = FALSE])
                      /\ ~[c EXCEPT !.fresh = FALSE].fresh
    OBVIOUS
  <2> QED
    BY DEF View!CallType, Same
<1>2. Same(View!NoCall, View!NoCall) /\ ~View!NoCall.fresh
  BY DEF Same, View!NoCall
<1>3. \A x \in View!Calls : st[x] \in View!CallType /\ Same(cs[x], st[x]) /\ ~st[x].fresh
  BY <1>1, <1>2, ViewTypes
<1>4. st \in [View!Calls -> View!CallType] /\ st[i] = View!NoCall
  BY <1>3
<1>5. View!Loading(cs, p) = View!Send(st, View!Call("runs", p))
  BY DEF View!Loading
<1> HIDE DEF st
<1>6. View!Call("runs", p) \in View!CallType
  BY ViewTypes
<1>7. PICK k \in View!Calls :
         /\ st[k] = View!NoCall
         /\ \A x \in View!Calls : View!Send(st, View!Call("runs", p))[x]
                                     = IF x = k THEN View!Call("runs", p) ELSE st[x]
  BY <1>4, <1>6, SendFills
<1>8. cs[k].kind = "none" /\ ~cs[k].polls
  BY <1>3, <1>7, ViewTypes DEF Same
<1>9. View!Loading(cs, p) \in [View!Calls -> View!CallType]
  <2>1. View!Send(st, View!Call("runs", p)) \in [View!Calls -> View!CallType]
    BY <1>4, <1>6, SendFills
  <2> QED
    BY <1>5, <2>1
<1> QED
  BY <1>3, <1>5, <1>7, <1>8, <1>9

\* TypeOK without the calls, and PollsAreWanted of one call.
PageOK ==
    /\ {newest, live, runs, shown} \subseteq View!Views
    /\ {polling, busy, error} \subseteq BOOLEAN
    /\ failures \in 0..MaxFailures /\ orphans \in 0..MaxOrphans /\ clicks \in 0..MaxClicks
    /\ mine \subseteq View!Runs /\ announced \in 0..MaxRuns

Wanted(c, p, f) ==
    c.kind = "progress" =>
        /\ ~c.polls
        /\ c.fresh => p \/ f > 0
        /\ c.is = "failed" => f > 0

LEMMA ViewOfEach ==
    ViewInv <=>
        /\ PageOK /\ calls \in [View!Calls -> View!CallType]
        /\ busy = (\E i \in View!Calls : View!Clicked(calls[i]))
        /\ View!PanelIsLive /\ View!OneClick
        /\ \A i \in View!Calls : Wanted(calls[i], polling, failures)
  BY DEF ViewInv, View!TypeOK, PageOK, View!PollsAreWanted, Wanted

LEMMA ViewOfEachNext ==
    ViewInv' <=>
        /\ PageOK' /\ calls' \in [View!Calls -> View!CallType]
        /\ busy' = (\E i \in View!Calls : View!Clicked(calls'[i]))
        /\ View!PanelIsLive' /\ View!OneClick'
        /\ \A i \in View!Calls : Wanted(calls'[i], polling', failures')
  BY DEF ViewInv, View!TypeOK, PageOK, View!PollsAreWanted, Wanted, View!Views,
     View!CallType, View!Calls, View!Runs, View!Clicked

\* A step that sends one request, or moves or ends one.
LEMMA OneCallMoves ==
    ASSUME ViewInv, NEW i \in View!Calls, NEW d \in View!CallType,
           calls' = [calls EXCEPT ![i] = d], PageOK',
           View!Clicked(d) => View!Clicked(calls[i]) \/ ~busy,
           busy' <=> View!Clicked(d) \/ (busy /\ ~View!Clicked(calls[i])),
           Wanted(d, polling', failures'), failures' >= failures,
           polling \/ failures > 0 => polling' \/ failures' > 0,
           View!Active(shown') => polling' \/ failures' > 0
    PROVE  ViewInv'
<1>1. /\ PageOK /\ calls \in [View!Calls -> View!CallType]
      /\ busy <=> (\E x \in View!Calls : View!Clicked(calls[x]))
      /\ View!OneClick
      /\ \A x \in View!Calls : Wanted(calls[x], polling, failures)
  BY ViewOfEach
<1>2. /\ calls' \in [View!Calls -> View!CallType]
      /\ \A x \in View!Calls : calls'[x] = IF x = i THEN d ELSE calls[x]
  BY <1>1
<1>3. \A x \in View!Calls : Wanted(calls'[x], polling', failures')
  <2>1. failures > 0 => failures' > 0
    BY <1>1 DEF PageOK
  <2> QED
    BY <1>1, <1>2, <2>1 DEF Wanted
<1>4. View!OneClick'
  <2>1. ASSUME NEW x \in View!Calls, NEW y \in View!Calls,
               View!Clicked(calls'[x]), View!Clicked(calls'[y])
        PROVE  x = y
    BY <1>1, <1>2, <2>1 DEF View!OneClick
  <2> QED
    BY <2>1 DEF View!OneClick, View!Clicked, View!Calls
<1>5. busy' <=> (\E x \in View!Calls : View!Clicked(calls'[x]))
  BY <1>1, <1>2 DEF View!OneClick
<1>6. View!PanelIsLive'
  BY DEF View!PanelIsLive, View!Active
<1>7. busy' \in BOOLEAN
  BY DEF PageOK
<1>8. busy' = (\E x \in View!Calls : View!Clicked(calls'[x]))
  BY <1>5, <1>7
<1> QED
  BY <1>2, <1>3, <1>4, <1>6, <1>8, ViewOfEachNext

\* A step that ends in load, for which the call i is free.
LEMMA LoadKeeps ==
    ASSUME View!SyncViewAssumption, ViewInv, NEW i \in View!Calls, NEW p \in BOOLEAN,
           NEW cs \in [View!Calls -> View!CallType], cs = [calls EXCEPT ![i] = View!NoCall],
           calls' = View!Loading(cs, p), PageOK',
           p => View!Clicked(calls[i]) \/ ~busy,
           busy' <=> p \/ (busy /\ ~View!Clicked(calls[i])), failures' >= failures,
           View!Active(shown') => polling' \/ failures' > 0
    PROVE  ViewInv'
<1>1. /\ PageOK /\ calls \in [View!Calls -> View!CallType]
      /\ busy <=> (\E x \in View!Calls : View!Clicked(calls[x]))
      /\ View!OneClick
      /\ \A x \in View!Calls : Wanted(calls[x], polling, failures)
  BY ViewOfEach
<1>2. \A x \in View!Calls : cs[x] = IF x = i THEN View!NoCall ELSE calls[x]
  BY <1>1
<1>3. calls' \in [View!Calls -> View!CallType]
  <2>1. View!Loading(cs, p) \in [View!Calls -> View!CallType]
    BY <1>2, LoadingIs
  <2> QED
    BY <2>1
<1>4. PICK k \in View!Calls :
         /\ cs[k].kind = "none" /\ ~cs[k].polls
         /\ calls'[k] = View!Call("runs", p)
         /\ \A x \in View!Calls \ {k} : Same(cs[x], calls'[x]) /\ ~calls'[x].fresh
  <2> DEFINE now == View!Loading(cs, p)
  <2>1. \E k \in View!Calls :
           /\ cs[k].kind = "none" /\ ~cs[k].polls
           /\ now[k] = View!Call("runs", p)
           /\ \A x \in View!Calls \ {k} : Same(cs[x], now[x]) /\ ~now[x].fresh
    <3>1. cs[i] = View!NoCall
      BY <1>2
    <3>2. p \in BOOLEAN /\ cs \in [View!Calls -> View!CallType]
      OBVIOUS
    <3> QED
      BY ONLY View!SyncViewAssumption, i \in View!Calls, <3>1, <3>2, LoadingIs
  <2>2. calls' = now
    OBVIOUS
  <2> HIDE DEF now
  <2> QED
    BY <2>1, <2>2
<1>5. calls'[k].kind = "runs" /\ calls'[k].polls = p
  BY <1>4, ViewTypes
<1>6. \A x \in View!Calls : Wanted(calls'[x], polling', failures')
  <2>1. failures > 0 => failures' > 0
    BY <1>1 DEF PageOK
  <2>2. ASSUME NEW x \in View!Calls, x # k
        PROVE  Wanted(calls'[x], polling', failures')
    <3>1. Wanted(cs[x], polling, failures)
      BY <1>1, <1>2, ViewTypes DEF Wanted
    <3> QED
      BY <1>4, <2>1, <2>2, <3>1 DEF Wanted, Same
  <2>3. Wanted(calls'[k], polling', failures')
    BY <1>5 DEF Wanted
  <2> QED
    BY <2>2, <2>3
<1>7. \A x \in View!Calls : View!Clicked(calls'[x]) <=> IF x = k THEN p ELSE View!Clicked(cs[x])
  BY <1>4, <1>5 DEF View!Clicked, Same
<1>8. \A x \in View!Calls : View!Clicked(cs[x]) <=> x # i /\ View!Clicked(calls[x])
  BY <1>2, ViewTypes
<1>9. ~View!Clicked(cs[k])
  BY <1>4 DEF View!Clicked
<1>10. View!OneClick'
  <2>1. ASSUME NEW x \in View!Calls, NEW y \in View!Calls,
               View!Clicked(calls'[x]), View!Clicked(calls'[y])
        PROVE  x = y
    BY <1>1, <1>7, <1>8, <1>9, <2>1 DEF View!OneClick
  <2> QED
    BY <2>1 DEF View!OneClick, View!Clicked, View!Calls
<1>11. busy' <=> (\E x \in View!Calls : View!Clicked(calls'[x]))
  BY <1>1, <1>7, <1>8, <1>9 DEF View!OneClick
<1>12. View!PanelIsLive'
  BY DEF View!PanelIsLive, View!Active
<1>13. busy' = (\E x \in View!Calls : View!Clicked(calls'[x]))
  BY <1>11 DEF PageOK
<1> QED
  BY <1>3, <1>6, <1>10, <1>12, <1>13, ViewOfEachNext

\* The service moves; the page does not notice.
LEMMA ServiceKeeps ==
    ASSUME View!SyncViewAssumption, ViewInv, View!Service \/ UNCHANGED View!vars
    PROVE  ViewInv'
<1> DEFINE page == <<runs, shown, polling, busy, error, announced, calls, failures, clicks, mine>>
<1>1. PageOK /\ View!NoRun \in View!Views
  BY ViewOfEach, ViewTypes
<1>2. \A v \in View!Views, u \in {"none", "running", "over"} : [v EXCEPT !.status = u] \in View!Views
  BY DEF View!Views
<1>3. UNCHANGED page /\ {newest', live'} \subseteq View!Views /\ orphans' \in 0..MaxOrphans
  <2>1. CASE View!Scheduled
    <3>1. View!Begun \in View!Views
      <4>1. newest.run \in 0..MaxRuns /\ newest.run < MaxRuns
        BY <1>1, <2>1 DEF View!Scheduled, View!CanBegin, PageOK, View!Views
      <4>2. newest.run + 1 \in 0..MaxRuns
        BY <4>1 DEF View!SyncViewAssumption
      <4> QED
        BY <4>2 DEF View!Begun, View!Views
    <3> QED
      BY <1>1, <2>1, <3>1 DEF View!Scheduled, PageOK, View!page, View!bounds
  <2>2. CASE View!Finish
    BY <1>1, <1>2, <2>2 DEF View!Finish, PageOK, View!page, View!bounds
  <2>3. CASE View!Complete
    BY <1>1, <1>2, <2>3 DEF View!Complete, PageOK, View!page, View!bounds
  <2>4. CASE View!Orphan
    <3>1. live' \in View!Views
      BY <1>1, <1>2, <2>4 DEF View!Orphan, PageOK
    <3>2. orphans' \in 0..MaxOrphans
      BY <1>1, <2>4 DEF View!Orphan, PageOK, View!SyncViewAssumption
    <3> QED
      BY <1>1, <2>4, <3>1, <3>2 DEF View!Orphan, PageOK, View!page, View!bounds
  <2>5. CASE UNCHANGED View!vars
    BY <1>1, <2>5 DEF PageOK, View!vars, View!server, View!page, View!bounds
  <2> QED
    BY <2>1, <2>2, <2>3, <2>4, <2>5 DEF View!Service
<1>4. PageOK'
  BY <1>1, <1>3 DEF PageOK, View!Views, View!Runs
<1> QED
  BY <1>3, <1>4, ViewOfEach, ViewOfEachNext
     DEF View!PanelIsLive, View!OneClick, View!Active, View!Clicked, View!Calls

\* A free call, where the page looks for one.
LEMMA SomeFree ==
    ASSUME View!Free # {} \/ View!Cardinality(View!Free) > 1
    PROVE  \E i \in View!Calls : calls[i] = View!NoCall
<1>1. View!Cardinality({}) = 0
  <2>1. View!Cardinality({}) = Cardinality({})
    BY DEF View!Cardinality, Cardinality
  <2> QED
    BY <2>1, FS_EmptySet
<1>2. View!Free # {}
  BY <1>1
<1> QED
  BY <1>2 DEF View!Free

LEMMA ClickCounts ==
    ASSUME View!SyncViewAssumption, clicks \in 0..MaxClicks, clicks < MaxClicks
    PROVE  clicks + 1 \in 0..MaxClicks
  BY DEF View!SyncViewAssumption

\* The requests that the page sends outside load.
LEMMA AskKeeps ==
    ASSUME View!SyncViewAssumption, ViewInv, View!Poll \/ View!Trigger \/ View!Cancel
    PROVE  ViewInv'
<1>1. PageOK /\ calls \in [View!Calls -> View!CallType] /\ View!PanelIsLive
  BY ViewOfEach
<1>2. PICK j \in View!Calls : calls[j] = View!NoCall
  BY SomeFree DEF View!Poll, View!Trigger, View!Cancel
<1>3. ASSUME NEW k \in {"progress", "start", "cancel"}, NEW p \in BOOLEAN,
             calls' = View!Send(calls, View!Call(k, p)), PageOK',
             View!Clicked(View!Call(k, p)) => ~busy,
             busy' <=> View!Clicked(View!Call(k, p)) \/ busy,
             k = "progress" => polling /\ ~p,
             UNCHANGED <<polling, failures, shown>>
      PROVE  ViewInv'
  <2> DEFINE d == View!Call(k, p)
  <2>1. /\ d \in View!CallType /\ d.kind = k /\ d.polls = p /\ d.is = "sent"
    BY ViewTypes
  <2>2. PICK i \in View!Calls : /\ calls[i] = View!NoCall
                                /\ \A x \in View!Calls : calls'[x] = IF x = i THEN d ELSE calls[x]
    <3> DEFINE now == View!Send(calls, d)
    <3>1. \E i \in View!Calls : /\ calls[i] = View!NoCall
                                /\ \A x \in View!Calls : now[x] = IF x = i THEN d ELSE calls[x]
      BY <1>1, <1>2, <2>1, SendFills
    <3>2. calls' = now
      BY <1>3
    <3> HIDE DEF now
    <3> QED
      BY <3>1, <3>2
  <2>3. calls' = [calls EXCEPT ![i] = d]
    <3>1. calls' \in [View!Calls -> View!CallType]
      <4>1. View!Send(calls, d) \in [View!Calls -> View!CallType]
        BY <1>1, <1>2, <2>1, SendFills
      <4> QED
        BY <1>3, <4>1
    <3> QED
      BY <1>1, <2>2, <3>1
  <2>4. Wanted(d, polling', failures')
    BY <1>3, <2>1 DEF Wanted
  <2>5. ~View!Clicked(calls[i])
    BY <2>2, ViewTypes
  <2>6. failures' >= failures
    BY <1>1, <1>3 DEF PageOK
  <2>7. View!Active(shown') => polling' \/ failures' > 0
    BY <1>1, <1>3 DEF View!PanelIsLive
  <2> HIDE DEF d
  <2>8. View!Clicked(d) => View!Clicked(calls[i]) \/ ~busy
    BY <1>3 DEF d
  <2>9. busy' <=> View!Clicked(d) \/ (busy /\ ~View!Clicked(calls[i]))
    BY <1>3, <2>5 DEF d
  <2> QED
    BY <1>3, <2>1, <2>3, <2>4, <2>6, <2>7, <2>8, <2>9, OneCallMoves
<1>4. CASE View!Poll
  <2>1. ~View!Clicked(View!Call("progress", FALSE))
    BY ViewTypes DEF View!Clicked
  <2>2. PageOK'
    BY <1>1, <1>4 DEF View!Poll, PageOK, View!server, View!page, View!bounds, View!Views, View!Runs
  <2> QED
    BY <1>3, <1>4, <2>1, <2>2 DEF View!Poll, View!page, View!bounds
<1>5. CASE View!Trigger
  <2>1. View!Clicked(View!Call("start", TRUE))
    BY ViewTypes DEF View!Clicked
  <2>2. PageOK'
    <3>1. /\ UNCHANGED <<View!server, runs, shown, polling, announced, failures, mine>>
          /\ busy' = TRUE /\ error' = FALSE /\ clicks < MaxClicks /\ clicks' = clicks + 1
      BY <1>5 DEF View!Trigger, View!Click
    <3> QED
      BY <1>1, <3>1, ClickCounts DEF PageOK, View!server, View!Views, View!Runs
  <2> QED
    BY <1>3, <1>5, <2>1, <2>2 DEF View!Trigger
<1>6. CASE View!Cancel
  <2>1. View!Clicked(View!Call("cancel", FALSE))
    BY ViewTypes DEF View!Clicked
  <2>2. PageOK'
    <3>1. /\ UNCHANGED <<View!server, runs, shown, polling, announced, failures, mine>>
          /\ busy' = TRUE /\ error' = FALSE /\ clicks < MaxClicks /\ clicks' = clicks + 1
      BY <1>6 DEF View!Cancel, View!Click
    <3> QED
      BY <1>1, <3>1, ClickCounts DEF PageOK, View!server, View!Views, View!Runs
  <2> QED
    BY <1>3, <1>6, <2>1, <2>2 DEF View!Cancel
<1> QED
  BY <1>4, <1>5, <1>6

\* What the network does with a request.
LEMMA WireKeeps ==
    ASSUME View!SyncViewAssumption, ViewInv, NEW i \in View!Calls,
           View!Answer(i) \/ View!Fail(i)
    PROVE  ViewInv'
<1> DEFINE c == calls[i]
<1>1. PageOK /\ c \in View!CallType /\ View!PanelIsLive /\ Wanted(c, polling, failures)
      /\ calls \in [View!Calls -> View!CallType]
      /\ (View!Clicked(c) => busy)
  BY ViewOfEach
<1>2. ASSUME NEW d \in View!CallType, calls' = [calls EXCEPT ![i] = d], PageOK',
             d.kind = c.kind, d.polls = c.polls, d.fresh = c.fresh,
             c.kind = "progress" /\ d.is = "failed" => failures' > 0,
             UNCHANGED <<polling, busy, shown>>, failures' >= failures
      PROVE  ViewInv'
  <2>1. View!Clicked(d) <=> View!Clicked(c)
    BY <1>2 DEF View!Clicked
  <2>2. failures > 0 => failures' > 0
    BY <1>1, <1>2 DEF PageOK
  <2>3. Wanted(d, polling', failures')
    BY <1>1, <1>2, <2>2 DEF Wanted
  <2>4. polling \/ failures > 0 => polling' \/ failures' > 0
    BY <1>2, <2>2
  <2>5. View!Active(shown') => polling' \/ failures' > 0
    BY <1>1, <1>2, <2>2 DEF View!PanelIsLive
  <2>6. busy' <=> View!Clicked(d) \/ (busy /\ ~View!Clicked(calls[i]))
    BY <1>1, <1>2, <2>1
  <2> QED
    BY <1>2, <2>1, <2>3, <2>4, <2>5, <2>6, OneCallMoves
<1>3. CASE View!Answer(i)
  <2> DEFINE Starts == c.kind = "start" /\ View!CanBegin
             Refuses == (c.kind = "start" /\ ~View!CanBegin) \/ (c.kind = "cancel" /\ ~View!Active(live))
             out == IF Refuses THEN "failed" ELSE "answered"
             v == IF c.kind = "runs" THEN newest ELSE live
             d == [c EXCEPT !.is = out, !.data = v]
  <2>1. /\ newest' = (IF Starts THEN View!Begun ELSE newest)
        /\ live' = (IF Starts THEN View!Begun ELSE live)
        /\ mine' = (IF Starts THEN mine \cup {View!Begun.run} ELSE mine)
        /\ calls' = [calls EXCEPT ![i].is = out, ![i].data = v]
        /\ UNCHANGED <<orphans, runs, shown, polling, busy, error, announced, failures, clicks>>
    BY <1>3 DEF View!Answer, View!page, View!bounds
  <2>2. calls' = [calls EXCEPT ![i] = d]
    BY <1>1, <2>1
  <2>3. v \in View!Views /\ out \in {"failed", "answered"} /\ (c.kind = "progress" => out = "answered")
    BY <1>1 DEF PageOK
  <2>4. Starts => View!Begun \in View!Views /\ View!Begun.run \in View!Runs
    <3>1. ASSUME View!CanBegin
          PROVE  newest.run + 1 \in 1..MaxRuns /\ newest.run + 1 \in 0..MaxRuns
      <4>1. newest.run \in 0..MaxRuns /\ newest.run < MaxRuns
        BY <1>1, <3>1 DEF View!CanBegin, PageOK, View!Views
      <4> QED
        BY <4>1 DEF View!SyncViewAssumption
    <3> QED
      BY <3>1 DEF View!Begun, View!Views, View!Runs
  <2> HIDE DEF Starts, out, v
  <2>5. PageOK'
    BY <1>1, <2>1, <2>4 DEF PageOK, View!Views, View!Runs
  <2>6. /\ d \in View!CallType
        /\ d.kind = c.kind /\ d.polls = c.polls /\ d.fresh = c.fresh /\ d.is = out
    BY <1>1, <2>3 DEF View!CallType
  <2> HIDE DEF d, c
  <2>7. c.kind = "progress" /\ d.is = "failed" => failures' > 0
    BY <2>3, <2>6
  <2>8. failures' >= failures
    BY <1>1, <2>1 DEF PageOK
  <2> QED
    BY <1>2, <2>1, <2>2, <2>5, <2>6, <2>7, <2>8
<1>4. CASE View!Fail(i)
  <2> DEFINE d == [c EXCEPT !.is = "failed"]
  <2>1. /\ failures < MaxFailures /\ failures' = failures + 1
        /\ calls' = [calls EXCEPT ![i].is = "failed"]
        /\ UNCHANGED <<newest, live, orphans, runs, shown, polling, busy, error, announced,
                       clicks, mine>>
    BY <1>4 DEF View!Fail, View!server, View!page
  <2>2. calls' = [calls EXCEPT ![i] = d]
    BY <1>1, <2>1
  <2>3. failures' \in 0..MaxFailures /\ failures' > 0 /\ failures' >= failures
    BY <1>1, <2>1 DEF PageOK, View!SyncViewAssumption
  <2>4. PageOK'
    BY <1>1, <2>1, <2>3 DEF PageOK, View!Views, View!Runs
  <2>5. /\ d \in View!CallType
        /\ d.kind = c.kind /\ d.polls = c.polls /\ d.fresh = c.fresh
    BY <1>1 DEF View!CallType
  <2> HIDE DEF d, c
  <2> QED
    BY <1>2, <2>1, <2>2, <2>3, <2>4, <2>5
<1> QED
  BY <1>3, <1>4

\* What the page does with an answer, other than to load.
LEMMA EndKeeps ==
    ASSUME View!SyncViewAssumption, ViewInv, NEW i \in View!Calls,
           \/ View!Loaded(i) \/ View!PollFailed(i) \/ View!PollStale(i) \/ View!PollActive(i)
           \/ View!Cancelled(i) \/ View!Refused(i)
    PROVE  ViewInv'
<1> DEFINE c == calls[i]
<1>1. PageOK /\ c \in View!CallType /\ View!PanelIsLive /\ Wanted(c, polling, failures)
      /\ calls \in [View!Calls -> View!CallType] /\ View!NoRun \in View!Views
  BY ViewOfEach, ViewTypes
<1>2. /\ failures' = failures /\ calls' = [calls EXCEPT ![i] = View!NoCall]
      /\ UNCHANGED <<newest, live, orphans, announced, clicks, mine>>
  BY DEF View!Loaded, View!PollFailed, View!PollStale, View!PollActive, View!Cancelled,
         View!Refused, View!Without, View!server, View!page, View!bounds
<1>3. ASSUME busy' <=> busy /\ ~View!Clicked(c),
             polling \/ failures > 0 => polling' \/ failures > 0,
             View!Active(shown') => polling' \/ failures > 0,
             {runs', shown'} \subseteq View!Views, {polling', busy', error'} \subseteq BOOLEAN
      PROVE  ViewInv'
  <2>1. View!NoCall \in View!CallType /\ ~View!Clicked(View!NoCall)
        /\ Wanted(View!NoCall, polling', failures')
    BY ViewTypes DEF Wanted
  <2>2. PageOK'
    BY <1>1, <1>2, <1>3 DEF PageOK, View!Views, View!Runs
  <2>3. failures' >= failures
    BY <1>1, <1>2 DEF PageOK
  <2> QED
    BY <1>2, <1>3, <2>1, <2>2, <2>3, OneCallMoves
<1>4. c.polls \in BOOLEAN /\ c.data \in View!Views
  BY <1>1 DEF View!CallType
<1>5. CASE View!Loaded(i)
  <2>1. c.kind = "runs" /\ (View!Clicked(c) <=> c.polls)
    BY <1>5 DEF View!Loaded, View!Got, View!Failed, View!Clicked
  <2>2. /\ busy' = (busy /\ ~c.polls) /\ shown' = shown /\ runs' \in {c.data, runs}
        /\ error' \in BOOLEAN /\ polling' \in BOOLEAN /\ (polling => polling')
    BY <1>1, <1>5 DEF View!Loaded, PageOK
  <2> HIDE DEF c
  <2> QED
    BY <1>1, <1>3, <1>4, <2>1, <2>2 DEF PageOK, View!PanelIsLive
<1>6. CASE View!PollFailed(i)
  <2>1. /\ c.kind = "progress" /\ c.is = "failed"
        /\ polling' = FALSE /\ shown' = View!NoRun /\ UNCHANGED <<runs, busy, error>>
    BY <1>6 DEF View!PollFailed, View!Failed
  <2>2. failures > 0 /\ ~View!Clicked(c)
    BY <1>1, <2>1 DEF Wanted, View!Clicked
  <2> HIDE DEF c
  <2> QED
    BY <1>1, <1>3, <2>1, <2>2 DEF PageOK
<1>7. CASE View!PollStale(i)
  <2>1. c.kind = "progress" /\ UNCHANGED <<runs, shown, polling, busy, error>>
    BY <1>7 DEF View!PollStale, View!Got, View!page
  <2>2. ~View!Clicked(c)
    BY <1>1, <2>1 DEF Wanted, View!Clicked
  <2> HIDE DEF c
  <2> QED
    BY <1>1, <1>3, <2>1, <2>2 DEF PageOK, View!PanelIsLive
<1>8. CASE View!PollActive(i)
  <2>1. /\ c.kind = "progress" /\ c.fresh /\ shown' = c.data
        /\ UNCHANGED <<runs, polling, busy, error>>
    BY <1>8 DEF View!PollActive, View!Got
  <2>2. ~View!Clicked(c) /\ (polling \/ failures > 0)
    BY <1>1, <2>1 DEF Wanted, View!Clicked
  <2> HIDE DEF c
  <2> QED
    BY <1>1, <1>3, <1>4, <2>1, <2>2 DEF PageOK
<1>9. CASE View!Cancelled(i)
  <2>1. c.kind = "cancel" /\ polling' = TRUE /\ busy' = FALSE /\ UNCHANGED <<runs, shown, error>>
    BY <1>9 DEF View!Cancelled, View!Got
  <2>2. View!Clicked(c)
    BY <2>1 DEF View!Clicked
  <2> HIDE DEF c
  <2> QED
    BY <1>1, <1>3, <2>1, <2>2 DEF PageOK
<1>10. CASE View!Refused(i)
  <2>1. /\ c.kind \in {"start", "cancel"} /\ busy' = FALSE /\ error' = TRUE
        /\ UNCHANGED <<runs, shown, polling>>
    BY <1>10 DEF View!Refused, View!Failed
  <2>2. View!Clicked(c)
    BY <2>1 DEF View!Clicked
  <2> HIDE DEF c
  <2> QED
    BY <1>1, <1>3, <2>1, <2>2 DEF PageOK, View!PanelIsLive
<1> QED
  BY <1>5, <1>6, <1>7, <1>8, <1>9, <1>10

\* What the page does with an answer when it loads.
LEMMA ReloadKeeps ==
    ASSUME View!SyncViewAssumption, ViewInv,
           View!Reload \/ \E i \in View!Calls : View!PollOver(i) \/ View!Started(i)
    PROVE  ViewInv'
<1>1. PageOK /\ View!PanelIsLive /\ calls \in [View!Calls -> View!CallType]
      /\ View!NoRun \in View!Views /\ View!NoCall \in View!CallType
      /\ ~View!Active(View!NoRun)
  BY ViewOfEach, ViewTypes DEF View!Active, View!NoRun
<1>2. \A i \in View!Calls : /\ View!Without(i) \in [View!Calls -> View!CallType]
                            /\ View!Without(i) = [calls EXCEPT ![i] = View!NoCall]
                            /\ Wanted(calls[i], polling, failures)
                            /\ (View!Clicked(calls[i]) => busy)
                            /\ calls[i] \in View!CallType
  BY <1>1, ViewOfEach DEF View!Without
<1>3. failures >= failures
  BY <1>1 DEF PageOK
<1>4. CASE View!Reload
  <2>1. PICK i \in View!Calls : calls[i] = View!NoCall
    BY <1>4, SomeFree DEF View!Reload
  <2>2. calls = [calls EXCEPT ![i] = View!NoCall] /\ ~View!Clicked(calls[i])
    BY <1>1, <2>1, ViewTypes
  <2>3. /\ calls' = View!Loading(calls, FALSE) /\ error' = FALSE
        /\ clicks < MaxClicks /\ clicks' = clicks + 1
        /\ UNCHANGED <<newest, live, orphans, runs, shown, polling, busy, announced, failures, mine>>
    BY <1>4 DEF View!Reload, View!Click, View!server
  <2>4. PageOK'
    BY <1>1, <2>3, ClickCounts DEF PageOK, View!Views, View!Runs
  <2> QED
    BY <1>1, <1>3, <2>1, <2>2, <2>3, <2>4, LoadKeeps DEF View!PanelIsLive
<1>5. ASSUME NEW i \in View!Calls, View!PollOver(i)
      PROVE  ViewInv'
  <2>1. /\ calls[i].kind = "progress" /\ calls' = View!Loading(View!Without(i), FALSE)
        /\ polling' = FALSE /\ shown' = View!NoRun /\ error' = FALSE
        /\ announced' = calls[i].data.run
        /\ UNCHANGED <<newest, live, orphans, runs, busy, failures, clicks, mine>>
    BY <1>5 DEF View!PollOver, View!Got, View!server, View!bounds
  <2>2. ~View!Clicked(calls[i])
    BY <1>2, <2>1 DEF Wanted, View!Clicked
  <2>3. calls[i].data.run \in 0..MaxRuns
    BY <1>2 DEF View!CallType, View!Views
  <2>4. PageOK'
    BY <1>1, <2>1, <2>3 DEF PageOK, View!Views, View!Runs
  <2> QED
    BY <1>1, <1>2, <1>3, <2>1, <2>2, <2>4, LoadKeeps
<1>6. ASSUME NEW i \in View!Calls, View!Started(i)
      PROVE  ViewInv'
  <2>1. /\ calls[i].kind = "start" /\ calls' = View!Loading(View!Without(i), TRUE)
        /\ error' = FALSE
        /\ UNCHANGED <<newest, live, orphans, runs, shown, polling, busy, announced, failures,
                       clicks, mine>>
    BY <1>6 DEF View!Started, View!Got, View!server, View!bounds
  <2>2. View!Clicked(calls[i])
    BY <2>1 DEF View!Clicked
  <2>3. PageOK'
    BY <1>1, <2>1 DEF PageOK, View!Views, View!Runs
  <2>4. busy
    BY <1>2, <2>2
  <2> QED
    BY <1>1, <1>2, <1>3, <2>1, <2>2, <2>3, <2>4, LoadKeeps DEF View!PanelIsLive
<1> QED
  BY <1>4, <1>5, <1>6

LEMMA ViewInit ==
    ASSUME View!SyncViewAssumption, View!Init
    PROVE  ViewInv
<1>1. /\ calls = [i \in View!Calls |-> IF i = 1 THEN View!Call("runs", FALSE) ELSE View!NoCall]
      /\ View!Call("runs", FALSE) \in View!CallType /\ View!NoCall \in View!CallType
      /\ View!NoRun \in View!Views
      /\ View!Call("runs", FALSE).kind = "runs" /\ ~View!Call("runs", FALSE).polls
      /\ View!NoCall.kind = "none" /\ ~View!NoCall.polls
  BY ViewTypes DEF View!Init
<1>2. \A i \in View!Calls : /\ calls[i] \in View!CallType /\ calls[i].kind \in {"runs", "none"}
                            /\ ~calls[i].polls
  BY <1>1
<1>3. \A i \in View!Calls : ~View!Clicked(calls[i]) /\ Wanted(calls[i], polling, failures)
  BY <1>2 DEF View!Clicked, Wanted
<1>4. PageOK /\ busy = FALSE
  <2>1. \A n \in {MaxRuns, MaxFailures, MaxClicks, MaxOrphans} : 0 \in 0..n
    BY DEF View!SyncViewAssumption
  <2> QED
    BY <1>1, <2>1 DEF View!Init, PageOK
<1>5. View!PanelIsLive /\ View!OneClick
  BY <1>3 DEF View!PanelIsLive, View!OneClick, View!Init, View!Active, View!NoRun
<1> QED
  BY <1>1, <1>3, <1>4, <1>5, ViewOfEach

\* Whatever comes late or fails, the page works on one click at a time, and a live
\* panel on it is one that is polled for, unless a poll has failed.
THEOREM ViewInvariance == View!Spec => []ViewInv
<1>1. View!Init => ViewInv
  BY PageAssumption, ViewInit
<1>2. ViewInv /\ [View!Next]_View!vars => ViewInv'
  BY PageAssumption, ServiceKeeps, AskKeeps, WireKeeps, EndKeeps, ReloadKeeps
  DEF View!Next, View!Continue
<1> QED
  BY <1>1, <1>2, PTL DEF View!Spec
=============================================================================
