-------------------------- MODULE SyncEngineProofs --------------------------
(***************************************************************************)
(* The engine's safety for every roster, every pool of workers and every   *)
(* interleaving of them with a cancellation.                               *)
(***************************************************************************)
EXTENDS SyncEngine, FiniteSetTheorems, TLAPS

\* Every set the counters speak of is finite.
LEMMA FiniteParts ==
    ASSUME TypeOK
    PROVE  /\ IsFiniteSet(Owing) /\ Cardinality(Owing) \in Nat
           /\ IsFiniteSet(Holding) /\ Cardinality(Holding) \in Nat
           /\ IsFiniteSet(pending) /\ Cardinality(pending) \in Nat
           /\ IsFiniteSet(roster) /\ Total \in Nat
           /\ Total <= Cardinality(Members)
           /\ Cardinality(Members) \in Nat
<1>1. Owing \in SUBSET Workers /\ Holding \in SUBSET Workers
  BY DEF Owing, Holding
<1>2. IsFiniteSet(Owing) /\ IsFiniteSet(Holding)
  BY <1>1, WorkersAssumption, FS_Subset
<1>3. /\ IsFiniteSet(pending)
      /\ IsFiniteSet(roster)
      /\ Cardinality(roster) <= Cardinality(Members)
  BY MembersAssumption, FS_Subset DEF TypeOK
<1> QED
  BY <1>2, <1>3, MembersAssumption, FS_CardinalityType DEF Total

\* A worker that enters a set of workers adds one to its size.
LEMMA CardinalityEnter ==
    ASSUME NEW S, NEW T, NEW x, IsFiniteSet(S), x \notin S, T = S \cup {x}
    PROVE  Cardinality(T) = Cardinality(S) + 1
  BY FS_AddElement

\* A worker that leaves a set of workers takes one from its size.
LEMMA CardinalityLeave ==
    ASSUME NEW S, NEW T, NEW x, IsFiniteSet(S), x \in S, T = S \ {x}
    PROVE  Cardinality(T) = Cardinality(S) - 1
  BY FS_RemoveElement

LEMMA InitIInv == Init => IInv
<1> SUFFICES ASSUME Init PROVE IInv
  OBVIOUS
<1> USE DEF Init
<1>1. TypeOK
  <2>1. row \in RowType
    BY DEF RowType, OpenRow, RunStatus, Summaries
  <2>2. reported \in ReportType
    BY DEF ReportType, Phase
  <2>3. status \in RunStatus /\ summary \in Summaries
    BY DEF RunStatus, Summaries
  <2>4. /\ worker \in [Workers -> WorkerState]
        /\ job \in [Workers -> Members \cup {NoMember}]
    BY DEF WorkerState
  <2>5. wg \in Int /\ updated \in Nat /\ failed \in Nat
    OBVIOUS
  <2> QED
    BY <2>1, <2>2, <2>3, <2>4, <2>5, Zenon DEF TypeOK, Before
<1>2. Owing = {} /\ Holding = {}
  BY DEF Owing, Holding
<1>3. WaitGroupExact /\ MembersAccounted
  BY <1>2, FS_EmptySet DEF WaitGroupExact, MembersAccounted, Total
<1> QED
  BY <1>1, <1>2, <1>3
  DEF IInv, QuiescentAfterWait, HonestOutcome, After, PoolUnstarted,
      HeldOnRoster, SkippedMeansCancelled, Unsettled, Before

\* No step of the caller, of a worker or of a canceller breaks a type.
LEMMA TypeStep == TypeOK /\ HeldOnRoster /\ [Next]_vars => TypeOK'
<1> SUFFICES ASSUME TypeOK, HeldOnRoster, [Next]_vars PROVE TypeOK'
  OBVIOUS
<1> USE DEF TypeOK, result, counters, pool
<1>1. ASSUME NEW fetched \in SUBSET Members, FetchRoster(fetched)
      PROVE  TypeOK'
  <2>1. Selected(fetched) \in SUBSET Members
    BY DEF Selected
  <2>2. Cardinality(Selected(fetched)) \in Nat
    BY <2>1, MembersAssumption, FS_Subset, FS_CardinalityType
  <2>3. reported' \in ReportType
    BY <1>1, <2>2 DEF FetchRoster, Report, ReportType, Phase
  <2> QED
    BY <1>1, <2>1, <2>3 DEF FetchRoster, Before
<1>2. CASE FetchFails
  BY <1>2 DEF FetchFails, After, RunStatus, Terminal, Summaries
<1>3. CASE ResolveTierAnchor
  <2>1. reported' \in ReportType
    BY <1>3, FiniteParts DEF ResolveTierAnchor, Report, ReportType, Phase
  <2> QED
    BY <1>3, <2>1 DEF ResolveTierAnchor, Before
<1>4. CASE StartWorkers
  <2>1. reported' \in ReportType /\ wg' \in Int
    BY <1>4, FiniteParts DEF StartWorkers, Report, ReportType, Phase
  <2> QED
    BY <1>4, <2>1 DEF StartWorkers, During, WorkerState
<1>5. CASE LeaveDispatch
  BY <1>5 DEF LeaveDispatch, During
<1>6. CASE ReleaseUnsent
  BY <1>6, FiniteParts DEF ReleaseUnsent, During
<1>7. CASE CloseJobs
  BY <1>7 DEF CloseJobs, During
<1>8. CASE Wait
  BY <1>8 DEF Wait, After
<1>9. CASE Settle
  BY <1>9 DEF Settle, After, Outcome, RunStatus, Terminal, Summaries
<1>10. CASE RecordDetail
  BY <1>10 DEF RecordDetail, After, Summaries
<1>11. CASE ChooseContext
  <2>1. reported' \in ReportType
    BY <1>11, FiniteParts DEF ChooseContext, Report, ReportType, Phase
  <2> QED
    BY <1>11, <2>1 DEF ChooseContext, After
<1>12. CASE Finish
  <2>1. Outcomes \in RowType
    BY FiniteParts DEF Outcomes, RowType
  <2> QED
    BY <1>12, <2>1 DEF Finish, After
<1>13. ASSUME NEW w \in Workers, NEW m \in Members, Dispatch(w, m)
       PROVE  TypeOK'
  BY <1>13 DEF Dispatch, WorkerState
<1>14. ASSUME NEW w \in Workers, SyncCharacter(w)
       PROVE  TypeOK'
  BY <1>14 DEF SyncCharacter, WorkerState
<1>15. ASSUME NEW w \in Workers, CountUpdated(w)
       PROVE  TypeOK'
  <2>1. reported' \in ReportType
    BY <1>15, FiniteParts DEF CountUpdated, Report, ReportType, Phase
  <2> QED
    BY <1>15, <2>1 DEF CountUpdated, WorkerState
<1>16. ASSUME NEW w \in Workers, CountFailed(w)
       PROVE  TypeOK'
  <2>1. reported' \in ReportType
    BY <1>16, FiniteParts DEF CountFailed, Report, ReportType, Phase
  <2>2. details' \in SUBSET Names
    BY <1>16, NameOfAssumption DEF CountFailed, HeldOnRoster, Holding
  <2> QED
    BY <1>16, <2>1, <2>2 DEF CountFailed, WorkerState
<1>17. ASSUME NEW w \in Workers, WorkerDone(w)
       PROVE  TypeOK'
  BY <1>17 DEF WorkerDone, WorkerState
<1>18. ASSUME NEW w \in Workers, WorkerExit(w)
       PROVE  TypeOK'
  BY <1>18 DEF WorkerExit, WorkerState
<1>19. CASE Cancel
  BY <1>19 DEF Cancel
<1>20. CASE Returned \/ UNCHANGED vars
  BY <1>20 DEF Returned, vars
<1> QED
  BY <1>1, <1>2, <1>3, <1>4, <1>5, <1>6, <1>7, <1>8, <1>9, <1>10, <1>11,
     <1>12, <1>13, <1>14, <1>15, <1>16, <1>17, <1>18, <1>19, <1>20
  DEF Next, Caller, Worker

\* What a step does to the pool: the WaitGroup, the account of members and the
\* members held.
PoolInv ==
    /\ WaitGroupExact
    /\ MembersAccounted
    /\ QuiescentAfterWait
    /\ PoolUnstarted
    /\ HeldOnRoster

\* The caller's steps that touch neither a worker nor a count.
LEMMA PoolUntouched ==
    ASSUME IInv, TypeOK',
           UNCHANGED <<roster, pending, worker, job, wg, updated, failed>>,
           pc' \in Before => pc \in Before,
           pc' = "fetch" => pc = "fetch",
           pc' \in {"dispatch", "release"} <=> pc \in {"dispatch", "release"},
           pc' \in After => pc \in After \/ Owing = {}
    PROVE  PoolInv'
<1>1. Owing' = Owing /\ Holding' = Holding /\ Total' = Total
  BY DEF Owing, Holding, Total
<1>2. WaitGroupExact'
  BY <1>1 DEF IInv, WaitGroupExact
<1>3. MembersAccounted'
  BY <1>1 DEF IInv, MembersAccounted
<1>4. QuiescentAfterWait'
  BY <1>1 DEF IInv, QuiescentAfterWait
<1>5. PoolUnstarted' /\ HeldOnRoster'
  BY <1>1 DEF IInv, PoolUnstarted, HeldOnRoster
<1> QED
  BY <1>2, <1>3, <1>4, <1>5 DEF PoolInv

LEMMA PoolStep == IInv /\ TypeOK' /\ [Next]_vars => PoolInv'
<1> SUFFICES ASSUME IInv, TypeOK', [Next]_vars PROVE PoolInv'
  OBVIOUS
<1>a. TypeOK /\ PoolInv
  BY DEF IInv, PoolInv
<1>b. /\ IsFiniteSet(Owing) /\ Cardinality(Owing) \in Nat
      /\ IsFiniteSet(Holding) /\ Cardinality(Holding) \in Nat
      /\ IsFiniteSet(pending) /\ Cardinality(pending) \in Nat
      /\ Total \in Nat
  BY <1>a, FiniteParts
<1>c. wg \in Int /\ updated \in Nat /\ failed \in Nat
  BY <1>a DEF TypeOK
<1>d. ASSUME pc \in Before
      PROVE  Owing = {} /\ Holding = {}
  BY <1>a, <1>d DEF PoolInv, PoolUnstarted, Owing, Holding
<1>1. ASSUME NEW fetched \in SUBSET Members, FetchRoster(fetched)
      PROVE  PoolInv'
  <2>1. /\ pc = "fetch" /\ pc' = "anchor" /\ pc \in Before
        /\ UNCHANGED <<worker, job, wg, updated, failed>>
        /\ roster' = pending'
    BY <1>1 DEF FetchRoster, pool, counters, Before
  <2>2. Owing' = {} /\ Holding' = {} /\ Owing = {} /\ Holding = {}
    BY <1>d, <2>1 DEF Owing, Holding
  <2>3. roster = {} /\ pending = {}
    BY <1>a, <2>1 DEF PoolInv, PoolUnstarted, HeldOnRoster
  <2>4. wg = 0 /\ updated + failed = 0
    BY <1>a, <1>c, <2>1, <2>2, <2>3, FS_EmptySet
    DEF PoolInv, WaitGroupExact, MembersAccounted, Total
  <2>5. Cardinality(pending') = Total' /\ Total' \in Nat
    BY <2>1, MembersAssumption, FS_Subset, FS_CardinalityType DEF TypeOK, Total
  <2>6. WaitGroupExact'
    BY <2>1, <2>2, <2>4, FS_EmptySet DEF WaitGroupExact
  <2>7. MembersAccounted'
    BY <2>1, <2>2, <2>4, <2>5, <1>c, FS_EmptySet DEF MembersAccounted
  <2>8. QuiescentAfterWait' /\ PoolUnstarted' /\ HeldOnRoster'
    BY <1>a, <2>1, <2>2
    DEF PoolInv, QuiescentAfterWait, PoolUnstarted, HeldOnRoster, After, Before
  <2> QED
    BY <2>6, <2>7, <2>8 DEF PoolInv
<1>2. CASE FetchFails
  BY <1>2, <1>d, PoolUntouched
  DEF FetchFails, pool, counters, Before, During, After
<1>3. CASE ResolveTierAnchor
  BY <1>3, PoolUntouched
  DEF ResolveTierAnchor, pool, counters, Before, During, After
<1>4. CASE StartWorkers
  <2>1. /\ pc = "start" /\ pc' = "dispatch" /\ pc \in Before
        /\ worker' = [w \in Workers |-> "idle"]
        /\ wg' = wg + Total
        /\ UNCHANGED <<roster, pending, updated, failed>>
    BY <1>4 DEF StartWorkers, counters, Before
  <2>2. Owing' = {} /\ Holding' = {} /\ Owing = {} /\ Holding = {}
    BY <1>d, <2>1 DEF Owing, Holding
  <2>3. Total' = Total /\ Cardinality(pending) = Total /\ pending = roster
    BY <1>a, <2>1 DEF Total, PoolInv, PoolUnstarted
  <2>4. wg = 0
    BY <1>a, <2>1, <2>2, FS_EmptySet DEF PoolInv, WaitGroupExact
  <2>5. WaitGroupExact'
    BY <1>b, <2>1, <2>2, <2>3, <2>4, FS_EmptySet DEF WaitGroupExact
  <2>6. MembersAccounted'
    BY <1>a, <2>1, <2>2, <2>3, FS_EmptySet DEF PoolInv, MembersAccounted
  <2>7. QuiescentAfterWait' /\ PoolUnstarted' /\ HeldOnRoster'
    BY <2>1, <2>2, <2>3
    DEF QuiescentAfterWait, PoolUnstarted, HeldOnRoster, After, Before
  <2> QED
    BY <2>5, <2>6, <2>7 DEF PoolInv
<1>5. CASE LeaveDispatch
  BY <1>5, PoolUntouched
  DEF LeaveDispatch, pool, counters, Before, During, After
<1>6. CASE ReleaseUnsent
  <2>1. /\ pc = "release" /\ pc' = "close"
        /\ wg' = wg - Cardinality(pending)
        /\ UNCHANGED <<roster, pending, worker, job, updated, failed>>
    BY <1>6 DEF ReleaseUnsent, counters
  <2>2. Owing' = Owing /\ Holding' = Holding /\ Total' = Total
    BY <2>1 DEF Owing, Holding, Total
  <2>3. WaitGroupExact'
    BY <1>a, <1>b, <1>c, <2>1, <2>2 DEF PoolInv, WaitGroupExact
  <2> QED
    BY <1>a, <2>1, <2>2, <2>3
    DEF PoolInv, MembersAccounted, QuiescentAfterWait, PoolUnstarted,
        HeldOnRoster, Before, After
<1>7. CASE CloseJobs
  BY <1>7, PoolUntouched
  DEF CloseJobs, pool, counters, Before, During, After
<1>8. CASE Wait
  <2>1. Cardinality(Owing) = 0
    BY <1>8, <1>a, <1>b DEF Wait, PoolInv, WaitGroupExact
  <2>2. Owing = {}
    BY <1>b, <2>1, FS_EmptySet
  <2> QED
    BY <1>8, <2>2, PoolUntouched
    DEF Wait, pool, counters, Before, During, After
<1>9. CASE Settle \/ RecordDetail \/ ChooseContext \/ Finish
  BY <1>9, PoolUntouched
  DEF Settle, RecordDetail, ChooseContext, Finish, pool, counters, Before,
      During, After
<1>10. CASE Cancel \/ Returned \/ UNCHANGED vars
  BY <1>10, PoolUntouched
  DEF Cancel, Returned, vars, pool, counters
<1>e. ASSUME NEW w \in Workers, worker[w] # "off"
      PROVE  pc \notin Before
  BY <1>a, <1>e DEF PoolInv, PoolUnstarted
<1>11. ASSUME NEW w \in Workers, NEW m \in Members, Dispatch(w, m)
       PROVE  PoolInv'
  <2>1. /\ pc = "dispatch" /\ m \in pending /\ worker[w] = "idle"
        /\ pending' = pending \ {m}
        /\ worker' = [worker EXCEPT ![w] = "busy"]
        /\ job' = [job EXCEPT ![w] = m]
        /\ UNCHANGED <<pc, roster, wg, updated, failed>>
    BY <1>11 DEF Dispatch, counters
  <2>2. w \notin Owing /\ w \notin Holding
    BY <2>1 DEF Owing, Holding
  <2>3. Owing' = Owing \cup {w} /\ Holding' = Holding \cup {w}
    BY <1>a, <2>1 DEF TypeOK, Owing, Holding
  <2>4. /\ Cardinality(Owing') = Cardinality(Owing) + 1
        /\ Cardinality(Holding') = Cardinality(Holding) + 1
        /\ Cardinality(pending') = Cardinality(pending) - 1
    BY <1>b, <2>1, <2>2, <2>3, CardinalityEnter, CardinalityLeave
  <2>5. WaitGroupExact'
    BY <1>a, <1>b, <2>1, <2>4 DEF PoolInv, WaitGroupExact
  <2>6. MembersAccounted'
    BY <1>a, <1>b, <1>c, <2>1, <2>4 DEF PoolInv, MembersAccounted, Total
  <2>7. QuiescentAfterWait' /\ PoolUnstarted'
    BY <2>1 DEF QuiescentAfterWait, PoolUnstarted, After, Before
  <2>8. HeldOnRoster'
    <3>1. \A v \in Holding : job'[v] = job[v] /\ job[v] # m
      BY <1>a, <2>1, <2>2 DEF PoolInv, HeldOnRoster
    <3>2. job'[w] = m /\ m \in roster'
      BY <1>a, <2>1 DEF TypeOK, PoolInv, HeldOnRoster
    <3> QED
      BY <1>a, <2>1, <2>3, <3>1, <3>2 DEF PoolInv, HeldOnRoster
  <2> QED
    BY <2>5, <2>6, <2>7, <2>8 DEF PoolInv
<1>12. ASSUME NEW w \in Workers, SyncCharacter(w)
       PROVE  PoolInv'
  <2>1. Owing' = Owing /\ Holding' = Holding
    BY <1>12, <1>a DEF SyncCharacter, TypeOK, Owing, Holding
  <2>2. /\ UNCHANGED <<pc, roster, pending, job, wg, updated, failed>>
        /\ pc \notin Before
    BY <1>12, <1>e DEF SyncCharacter, counters
  <2> QED
    BY <1>a, <2>1, <2>2
    DEF PoolInv, WaitGroupExact, MembersAccounted, QuiescentAfterWait,
        PoolUnstarted, HeldOnRoster, Total, Before
<1>13. ASSUME NEW w \in Workers, CountUpdated(w) \/ CountFailed(w)
       PROVE  PoolInv'
  <2>1. /\ worker[w] \in {"ok", "erred"}
        /\ worker' = [worker EXCEPT ![w] = "counted"]
        /\ UNCHANGED <<pc, roster, pending, job, wg>>
        /\ updated' + failed' = updated + failed + 1
    BY <1>13, <1>c DEF CountUpdated, CountFailed
  <2>2. Owing' = Owing /\ Holding' = Holding \ {w} /\ w \in Holding
    BY <1>a, <2>1 DEF TypeOK, Owing, Holding
  <2>3. Cardinality(Holding') = Cardinality(Holding) - 1
    BY <1>b, <2>2, CardinalityLeave
  <2>4. MembersAccounted'
    BY <1>a, <1>b, <1>c, <2>1, <2>3 DEF PoolInv, MembersAccounted, Total
  <2>5. pc \notin Before
    BY <1>e, <2>1
  <2> QED
    BY <1>a, <2>1, <2>2, <2>4, <2>5
    DEF PoolInv, WaitGroupExact, QuiescentAfterWait, PoolUnstarted,
        HeldOnRoster, Before
<1>14. ASSUME NEW w \in Workers, WorkerDone(w)
       PROVE  PoolInv'
  <2>1. /\ worker[w] = "counted"
        /\ worker' = [worker EXCEPT ![w] = "idle"]
        /\ job' = [job EXCEPT ![w] = NoMember]
        /\ wg' = wg - 1
        /\ UNCHANGED <<pc, roster, pending, updated, failed>>
    BY <1>14 DEF WorkerDone, counters
  <2>2. /\ Owing' = Owing \ {w} /\ w \in Owing
        /\ Holding' = Holding /\ w \notin Holding
    BY <1>a, <2>1 DEF TypeOK, Owing, Holding
  <2>3. Cardinality(Owing') = Cardinality(Owing) - 1
    BY <1>b, <2>2, CardinalityLeave
  <2>4. WaitGroupExact'
    BY <1>a, <1>b, <1>c, <2>1, <2>3 DEF PoolInv, WaitGroupExact
  <2>5. pc \notin Before
    BY <1>e, <2>1
  <2> QED
    BY <1>a, <2>1, <2>2, <2>4, <2>5
    DEF PoolInv, MembersAccounted, QuiescentAfterWait, PoolUnstarted,
        HeldOnRoster, Total, Before
<1>15. ASSUME NEW w \in Workers, WorkerExit(w)
       PROVE  PoolInv'
  <2>1. Owing' = Owing /\ Holding' = Holding
    BY <1>15, <1>a DEF WorkerExit, TypeOK, Owing, Holding
  <2>2. /\ UNCHANGED <<pc, roster, pending, job, wg, updated, failed>>
        /\ pc \notin Before
    BY <1>15, <1>e DEF WorkerExit, counters
  <2> QED
    BY <1>a, <2>1, <2>2
    DEF PoolInv, WaitGroupExact, MembersAccounted, QuiescentAfterWait,
        PoolUnstarted, HeldOnRoster, Total, Before
<1> QED
  BY <1>1, <1>2, <1>3, <1>4, <1>5, <1>6, <1>7, <1>8, <1>9, <1>10, <1>11,
     <1>12, <1>13, <1>14, <1>15
  DEF Next, Caller, Worker

\* What a step does to the verdict on the run.
OutcomeInv == HonestOutcome /\ SkippedMeansCancelled /\ Unsettled

LEMMA OutcomeStep == IInv /\ [Next]_vars => OutcomeInv'
<1> SUFFICES ASSUME IInv, [Next]_vars PROVE OutcomeInv'
  OBVIOUS
<1>a. TypeOK /\ OutcomeInv /\ QuiescentAfterWait
  BY DEF IInv, OutcomeInv
<1> USE DEF OutcomeInv, HonestOutcome, SkippedMeansCancelled, Unsettled,
            Before, During, After
<1>1. ASSUME NEW fetched \in SUBSET Members, FetchRoster(fetched)
      PROVE  OutcomeInv'
  BY <1>1, <1>a DEF FetchRoster, result
<1>2. CASE FetchFails
  BY <1>2, <1>a DEF FetchFails, RunFailed, RunSuccess, RunPartial
<1>3. CASE ResolveTierAnchor \/ StartWorkers \/ ReleaseUnsent \/ CloseJobs
  BY <1>3, <1>a
  DEF ResolveTierAnchor, StartWorkers, ReleaseUnsent, CloseJobs, result
<1>4. CASE LeaveDispatch
  BY <1>4, <1>a DEF LeaveDispatch, result
<1>5. CASE Wait
  BY <1>5, <1>a DEF Wait, result, RunRunning, RunSuccess, RunPartial
<1>6. CASE Settle
  <2>1. /\ pc = "settle" /\ pc' = "detail"
        /\ UNCHANGED <<roster, updated, failed>>
    BY <1>6 DEF Settle, counters
  <2>2. CASE cancelled
    BY <1>6, <2>1, <2>2 DEF Settle, RunFailed, RunSuccess, RunPartial
  <2>3. CASE ~cancelled
    <3>1. Owing = {} /\ pending = {}
      BY <1>a, <2>1, <2>3 DEF QuiescentAfterWait
    <3>2. Holding = {}
      BY <3>1 DEF Owing, Holding
    <3>3. updated + failed = Total
      BY <1>a, <3>1, <3>2, FS_EmptySet DEF IInv, MembersAccounted, TypeOK
    <3>4. status' = Outcome(updated, failed)
      BY <1>6, <2>3 DEF Settle
    <3>5. updated \in Nat /\ failed \in Nat /\ Total' = Total
      BY <1>a, <2>1 DEF TypeOK, Total
    <3> QED
      BY <2>1, <3>3, <3>4, <3>5
      DEF Outcome, RunFailed, RunSuccess, RunPartial
  <2> QED
    BY <2>2, <2>3
<1>7. CASE RecordDetail \/ ChooseContext \/ Finish
  BY <1>7, <1>a
  DEF RecordDetail, ChooseContext, Finish, result, counters, Total
<1>8. ASSUME NEW w \in Workers, NEW m \in Members, Dispatch(w, m)
      PROVE  OutcomeInv'
  BY <1>8, <1>a DEF Dispatch, result
<1>9. ASSUME NEW w \in Workers,
             SyncCharacter(w) \/ WorkerDone(w) \/ WorkerExit(w)
      PROVE  OutcomeInv'
  BY <1>9, <1>a
  DEF SyncCharacter, WorkerDone, WorkerExit, result, counters, Total
<1>10. ASSUME NEW w \in Workers, CountUpdated(w) \/ CountFailed(w)
       PROVE  OutcomeInv'
  <2>1. w \in Owing
    BY <1>10 DEF CountUpdated, CountFailed, Owing
  <2>2. pc \notin After
    BY <1>a, <2>1 DEF QuiescentAfterWait
  <2> QED
    BY <1>10, <1>a, <2>2 DEF CountUpdated, CountFailed, result
<1>11. CASE Cancel \/ Returned \/ UNCHANGED vars
  BY <1>11, <1>a DEF Cancel, Returned, vars, result, counters, Total
<1> QED
  BY <1>1, <1>2, <1>3, <1>4, <1>5, <1>6, <1>7, <1>8, <1>9, <1>10, <1>11
  DEF Next, Caller, Worker

----------------------------------------------------------------------------

LEMMA Inductive == IInv /\ [Next]_vars => IInv'
  BY TypeStep, PoolStep, OutcomeStep DEF IInv, PoolInv, OutcomeInv

\* The strengthened invariant holds in every state of every run.
THEOREM Invariance == Spec => []IInv
  BY InitIInv, Inductive, PTL DEF Spec

\* Types, for every roster and pool.
THEOREM TypeCorrect == Spec => []TypeOK
<1>1. IInv => TypeOK
  BY DEF IInv
<1> QED
  BY <1>1, Invariance, PTL

\* The WaitGroup's counter is never wrong, so it never goes negative and
\* wg.Wait never returns early (engine.go:196-213).
THEOREM WaitGroupCorrect == Spec => [](WaitGroupExact /\ wg >= 0)
<1>1. IInv => WaitGroupExact /\ wg >= 0
  BY FiniteParts DEF IInv, WaitGroupExact
<1> QED
  BY <1>1, Invariance, PTL

\* Every member of the roster is unsent, held or counted, exactly once
\* (engine.go:170-206).
THEOREM NobodyLost == Spec => []MembersAccounted
<1>1. IInv => MembersAccounted
  BY DEF IInv
<1> QED
  BY <1>1, Invariance, PTL

\* The counters are final when the caller reads them (engine.go:213-224).
THEOREM Quiescence == Spec => []QuiescentAfterWait
<1>1. IInv => QuiescentAfterWait
  BY DEF IInv
<1> QED
  BY <1>1, Invariance, PTL

\* No cancellation, at whatever step it lands, makes a run that left members
\* out look like a success or a partial one (engine.go:214-219).
THEOREM OutcomeIsHonest == Spec => []HonestOutcome
<1>1. IInv => HonestOutcome
  BY DEF IInv
<1> QED
  BY <1>1, Invariance, PTL

----------------------------------------------------------------------------
(***************************************************************************)
(* The names of a partial run.                                             *)
(***************************************************************************)

\* The failure map holds names of the roster, at most one for each failure and
\* one at least; what is recorded of it is recorded once nobody adds to it.
NamesKept ==
    /\ IsFiniteSet(details)
    /\ details \subseteq {NameOf[m] : m \in roster}
    /\ Cardinality(details) <= failed
    /\ failed > 0 => details # {}
    /\ pc \in Before => details = {}
    /\ detail # {} => pc \in After /\ detail = details
    /\ summary = "some failed" => detail # {}

LEMMA InitNames == Init => NamesKept
  BY FS_EmptySet DEF Init, NamesKept

LEMMA NamesUntouched ==
    ASSUME NamesKept, pc' \in Before => pc \in Before, pc \in After => pc' \in After,
           UNCHANGED <<roster, failed, details, summary, detail>>
    PROVE  NamesKept'
  BY DEF NamesKept

LEMMA CountFailedNames ==
    ASSUME IInv, NamesKept, NEW w \in Workers, CountFailed(w)
    PROVE  NamesKept'
<1> DEFINE name == NameOf[job[w]]
<1>1. /\ worker[w] = "erred" /\ pc' = pc /\ roster' = roster
      /\ failed' = failed + 1 /\ details' = details \cup {name}
      /\ summary' = summary /\ detail' = detail
  BY DEF CountFailed, result
<1>2. w \in Holding /\ w \in Owing
  BY <1>1 DEF Holding, Owing
<1>3. job[w] \in roster
  BY <1>2 DEF IInv, HeldOnRoster
<1>4. pc \notin After
  BY <1>2 DEF IInv, QuiescentAfterWait
<1>5. pc \notin Before
  BY <1>1 DEF IInv, PoolUnstarted
<1>6. failed \in Nat
  BY DEF IInv, TypeOK
<1> HIDE DEF name
<1>7. IsFiniteSet(details) /\ Cardinality(details) <= failed
  BY DEF NamesKept
<1>8. Cardinality(details) \in Nat
  BY <1>7, FS_CardinalityType
<1>9. /\ IsFiniteSet(details')
      /\ \/ Cardinality(details') = Cardinality(details)
         \/ Cardinality(details') = Cardinality(details) + 1
  BY <1>1, <1>7, FS_AddElement
<1>11. Cardinality(details') <= failed'
  BY <1>1, <1>6, <1>7, <1>8, <1>9
<1>10. details' \subseteq {NameOf[m] : m \in roster'}
  BY <1>1, <1>3 DEF NamesKept, name
<1>12. details' # {} /\ pc' \notin Before /\ summary' # "some failed" /\ detail' = {}
  BY <1>1, <1>4, <1>5 DEF NamesKept
<1> QED
  BY <1>9, <1>10, <1>11, <1>12 DEF NamesKept

LEMMA NamesStep == IInv /\ NamesKept /\ [Next]_vars => NamesKept'
<1> SUFFICES ASSUME IInv, NamesKept, [Next]_vars PROVE NamesKept'
  OBVIOUS
<1> USE DEF Before, During, After
<1>1. ASSUME NEW fetched \in SUBSET Members, FetchRoster(fetched)
      PROVE  NamesKept'
  BY <1>1 DEF FetchRoster, NamesKept, counters, result
<1>2. CASE FetchFails
  BY <1>2 DEF FetchFails, NamesKept, counters
<1>3. CASE ResolveTierAnchor \/ StartWorkers \/ LeaveDispatch \/ ReleaseUnsent
           \/ CloseJobs \/ Wait \/ ChooseContext \/ Finish
  BY <1>3, NamesUntouched
  DEF ResolveTierAnchor, StartWorkers, LeaveDispatch, ReleaseUnsent, CloseJobs,
      Wait, ChooseContext, Finish, counters, result
<1>4. CASE Settle
  BY <1>4 DEF Settle, NamesKept, counters
<1>5. CASE RecordDetail
  BY <1>5 DEF RecordDetail, NamesKept, counters
<1>6. ASSUME NEW w \in Workers, NEW m \in Members, Dispatch(w, m)
      PROVE  NamesKept'
  BY <1>6, NamesUntouched DEF Dispatch, counters, result
<1>7. ASSUME NEW w \in Workers,
             SyncCharacter(w) \/ WorkerDone(w) \/ WorkerExit(w) \/ CountUpdated(w)
      PROVE  NamesKept'
  BY <1>7, NamesUntouched
  DEF SyncCharacter, WorkerDone, WorkerExit, CountUpdated, counters, result
<1>8. ASSUME NEW w \in Workers, CountFailed(w) PROVE NamesKept'
  BY <1>8, CountFailedNames
<1>9. CASE Cancel \/ Returned \/ UNCHANGED vars
  BY <1>9, NamesUntouched DEF Cancel, Returned, vars, counters, result
<1> QED
  BY <1>1, <1>2, <1>3, <1>4, <1>5, <1>6, <1>7, <1>8, <1>9
  DEF Next, Caller, Worker

\* A partial result has its names once RecordDetail is behind it, unless the
\* second look at ctx.Err() saw a cancellation that the first did not.
PartialNamed ==
    /\ pc \in {"choose", "finish", "returned"} /\ status = RunPartial
          => detail # {} \/ cancelled
    /\ row.status = RunPartial => row.detail # {} \/ cancelled

LEMMA InitPartial == Init => PartialNamed
  BY DEF Init, PartialNamed, OpenRow, RunRunning, RunPartial

LEMMA PartialStep == IInv /\ NamesKept /\ PartialNamed /\ [Next]_vars => PartialNamed'
<1> SUFFICES ASSUME IInv, NamesKept, PartialNamed, [Next]_vars PROVE PartialNamed'
  OBVIOUS
<1>1. CASE RecordDetail
  <2>1. status = RunPartial => failed > 0
    BY <1>1 DEF RecordDetail, IInv, HonestOutcome, After
  <2>2. failed > 0 => details # {}
    BY DEF NamesKept
  <2> QED
    BY <1>1, <2>1, <2>2 DEF RecordDetail, PartialNamed
<1>2. CASE Finish
  BY <1>2 DEF Finish, Outcomes, PartialNamed, result
<1>3. CASE FetchFails
  BY <1>3 DEF FetchFails, PartialNamed, RunFailed, RunPartial
<1>4. CASE Settle
  BY <1>4 DEF Settle, PartialNamed
<1>5. CASE ChooseContext
  BY <1>5 DEF ChooseContext, PartialNamed, result
<1>6. ASSUME NEW fetched \in SUBSET Members, FetchRoster(fetched)
      PROVE  PartialNamed'
  BY <1>6 DEF FetchRoster, PartialNamed, result
<1>7. CASE ResolveTierAnchor \/ StartWorkers \/ LeaveDispatch \/ ReleaseUnsent
           \/ CloseJobs \/ Wait
  BY <1>7 DEF ResolveTierAnchor, StartWorkers, LeaveDispatch, ReleaseUnsent,
              CloseJobs, Wait, PartialNamed, result
<1>8. ASSUME NEW w \in Workers, Worker(w) PROVE PartialNamed'
  BY <1>8 DEF Worker, Dispatch, SyncCharacter, CountUpdated, CountFailed,
              WorkerDone, WorkerExit, PartialNamed, result
<1>9. CASE Cancel \/ Returned \/ UNCHANGED vars
  BY <1>9 DEF Cancel, Returned, vars, PartialNamed, result
<1> QED
  BY <1>1, <1>2, <1>3, <1>4, <1>5, <1>6, <1>7, <1>8, <1>9 DEF Next, Caller

\* A run that says some characters failed can be retried, wherever its
\* cancellation falls: its detail names somebody, nobody who is not on the
\* roster, and no more than failed (engine.go:177,220-223; service.go:75-82).
THEOREM PartialRunsNameSomebody == Spec => []DetailRetryable
<1>1. IInv /\ NamesKept /\ PartialNamed => DetailRetryable
  <2> SUFFICES ASSUME IInv, NamesKept, PartialNamed PROVE DetailRetryable
    OBVIOUS
  <2>1. failed \in Nat
    BY DEF IInv, TypeOK
  <2>2. Cardinality(detail) <= failed
    <3>1. CASE detail = {}
      BY <2>1, <3>1, FS_EmptySet
    <3>2. CASE detail # {}
      BY <3>2 DEF NamesKept
    <3> QED
      BY <3>1, <3>2
  <2>3. detail \subseteq {NameOf[m] : m \in roster}
    BY DEF NamesKept
  <2>4. summary = "some failed" => detail # {}
    BY DEF NamesKept
  <2> QED
    BY <2>2, <2>3, <2>4 DEF DetailRetryable, PartialNamed
<1>2. Spec => []NamesKept
  BY InitNames, NamesStep, Invariance, PTL DEF Spec
<1> QED
  BY <1>1, <1>2, InitPartial, PartialStep, Invariance, PTL DEF Spec

----------------------------------------------------------------------------
(***************************************************************************)
(* The progress hook.                                                      *)
(***************************************************************************)

\* What the hook was last told is what the counts are, and its phase is that of
\* the caller; a run whose fetch failed stays queued until it is finalized.
ReportCurrent ==
    /\ reported.updated = updated /\ reported.failed = failed
    /\ pc \in Before => updated = 0 /\ failed = 0
    /\ reported.phase # PhaseQueued => reported.total = Total
    /\ pc = "fetch" => reported.phase = PhaseQueued
    /\ pc = "anchor" => reported.phase = PhaseRoster
    /\ pc = "start" => reported.phase = PhaseTierAnchor
    /\ pc \in During => reported.phase = PhaseCharacters
    /\ pc \in {"settle", "detail", "choose"} => reported.phase \in {PhaseQueued, PhaseCharacters}

\* One report after another.
Advances ==
    /\ PhaseRank(reported'.phase) >= PhaseRank(reported.phase)
    /\ reported'.updated >= reported.updated
    /\ reported'.failed >= reported.failed
    /\ reported.phase # PhaseQueued => reported'.total = reported.total

LEMMA InitReport == Init => ReportCurrent
  BY DEF Init, ReportCurrent, Before, During, PhaseQueued, Total

LEMMA ReportUntouched ==
    ASSUME ReportCurrent, UNCHANGED <<roster, updated, failed, reported>>,
           \/ pc' = pc
           \/ pc \in During /\ pc' \in During \cup {"settle"}
           \/ pc \in {"settle", "detail"} /\ pc' \in {"detail", "choose"}
           \/ pc = "finish" /\ pc' = "returned"
    PROVE  ReportCurrent' /\ [Advances]_reported
  BY DEF ReportCurrent, Total, Before, During

LEMMA CountReports ==
    ASSUME IInv, ReportCurrent, NEW w \in Workers, CountUpdated(w) \/ CountFailed(w)
    PROVE  ReportCurrent' /\ Advances
<1>1. /\ w \in Holding /\ w \in Owing /\ pc' = pc /\ roster' = roster
      /\ reported' = [phase |-> PhaseCharacters, updated |-> updated',
                      failed |-> failed', total |-> Total]
      /\ \/ updated' = updated + 1 /\ failed' = failed
         \/ updated' = updated /\ failed' = failed + 1
  BY DEF CountUpdated, CountFailed, Holding, Owing, Report
<1>2. pc \in During
  <2>1. pc \notin After
    BY <1>1 DEF IInv, QuiescentAfterWait
  <2>2. pc \notin Before
    BY <1>1 DEF IInv, PoolUnstarted, Holding
  <2> QED
    BY <2>1, <2>2 DEF IInv, TypeOK
<1>3. updated \in Nat /\ failed \in Nat
  BY DEF IInv, TypeOK
<1>4. /\ reported.phase = PhaseCharacters /\ reported.total = Total
      /\ reported.updated = updated /\ reported.failed = failed
  BY <1>2 DEF ReportCurrent, PhaseCharacters, PhaseQueued
<1>5. Advances
  BY <1>1, <1>3, <1>4 DEF Advances, PhaseRank, PhaseCharacters, PhaseQueued, PhaseRoster,
                          PhaseTierAnchor
<1>6. ReportCurrent'
  BY <1>1, <1>2 DEF ReportCurrent, Before, During, Total
<1> QED
  BY <1>5, <1>6

LEMMA ReportStep == IInv /\ ReportCurrent /\ [Next]_vars => ReportCurrent' /\ [Advances]_reported
<1> SUFFICES ASSUME IInv, ReportCurrent, [Next]_vars
             PROVE  ReportCurrent' /\ [Advances]_reported
  OBVIOUS
<1> USE DEF Before, During, PhaseQueued, PhaseRoster, PhaseTierAnchor, PhaseCharacters,
            PhaseFinalizing
<1>1. ASSUME NEW fetched \in SUBSET Members, FetchRoster(fetched)
      PROVE  ReportCurrent' /\ Advances
  <2>1. Cardinality(Selected(fetched)) = Total'
    BY <1>1 DEF FetchRoster, Total
  <2> QED
    BY <1>1, <2>1 DEF FetchRoster, Report, counters, ReportCurrent, Advances, PhaseRank
<1>2. CASE FetchFails
  BY <1>2 DEF FetchFails, counters, ReportCurrent
<1>3. CASE ResolveTierAnchor \/ StartWorkers
  BY <1>3 DEF ResolveTierAnchor, StartWorkers, Report, counters, ReportCurrent, Advances,
              PhaseRank, Total
<1>4. CASE LeaveDispatch \/ ReleaseUnsent \/ CloseJobs \/ Wait \/ Settle \/ RecordDetail \/ Finish
  BY <1>4, ReportUntouched
  DEF LeaveDispatch, ReleaseUnsent, CloseJobs, Wait, Settle, RecordDetail, Finish, counters
<1>5. CASE ChooseContext
  <2>1. updated \in Nat /\ failed \in Nat
    BY DEF IInv, TypeOK
  <2> QED
    BY <1>5, <2>1 DEF ChooseContext, Report, counters, ReportCurrent, Advances, PhaseRank, Total
<1>6. ASSUME NEW w \in Workers,
             \/ \E m \in Members : Dispatch(w, m)
             \/ SyncCharacter(w) \/ WorkerDone(w) \/ WorkerExit(w)
      PROVE  ReportCurrent' /\ [Advances]_reported
  BY <1>6, ReportUntouched DEF Dispatch, SyncCharacter, WorkerDone, WorkerExit, counters
<1>7. CASE Cancel \/ Returned \/ UNCHANGED vars
  BY <1>7, ReportUntouched DEF Cancel, Returned, vars, counters
<1> QED
  BY <1>1, <1>2, <1>3, <1>4, <1>5, <1>6, <1>7, CountReports DEF Next, Caller, Worker

\* The hook never goes back, whoever reports: the caller, or a worker under the
\* counter mutex (engine.go:134-224).
THEOREM HookAdvances == Spec => ReportsAdvance
<1>1. Spec => [][Advances]_reported
  BY InitReport, ReportStep, Invariance, PTL DEF Spec
<1> QED
  BY <1>1 DEF ReportsAdvance, Advances

----------------------------------------------------------------------------
(***************************************************************************)
(* The refinement.  Dispatch, syncCharacter, wg.Done, the release of the   *)
(* unsent and the choice of a context are stutters of the contract.        *)
(***************************************************************************)

LEMMA ContractInit == Init => Contract!Init
<1> SUFFICES ASSUME Init PROVE Contract!Init
  OBVIOUS
<1>1. Stage = "open"
  BY DEF Init, Stage, During
<1>2. cancelled \in BOOLEAN /\ roster = {}
  BY DEF Init
<1>3. /\ updated = 0 /\ failed = 0 /\ status = Contract!RunRunning
      /\ row.status = Contract!RunRunning
  BY DEF Init, OpenRow, RunRunning, Contract!RunRunning
<1> QED
  BY <1>1, <1>2, <1>3, FS_EmptySet, Zenon DEF Contract!Init, Total

\* A step that moves no stage, no count, no status and no row is a stutter.
LEMMA ContractStutter ==
    ASSUME UNCHANGED <<cancelled, roster, updated, failed, status, row>>,
           Stage' = Stage
    PROVE  UNCHANGED Contract!vars
  BY DEF Contract!vars, Total

LEMMA ContractStep ==
    IInv /\ IInv' /\ [Next]_vars => [Contract!Next]_(Contract!vars)
<1> SUFFICES ASSUME IInv, IInv', [Next]_vars
             PROVE  [Contract!Next]_(Contract!vars)
  OBVIOUS
<1>a. TypeOK /\ TypeOK' /\ WaitGroupExact /\ MembersAccounted
  BY DEF IInv
<1> USE DEF Stage, Before, During, After
<1>1. ASSUME NEW fetched \in SUBSET Members, FetchRoster(fetched)
      PROVE  Contract!Enumerate
  <2>1. Total' \in 0..Cardinality(Members)
    BY <1>a, MembersAssumption, FS_Subset, FS_CardinalityType DEF TypeOK, Total
  <2> QED
    BY <1>1, <2>1 DEF FetchRoster, counters, result, Contract!Enumerate
<1>2. CASE FetchFails
  BY <1>2
  DEF FetchFails, counters, Total, RunFailed, Contract!Next, Contract!Refuse,
      Contract!counts, Contract!RunFailed
<1>3. CASE \/ ResolveTierAnchor \/ StartWorkers \/ LeaveDispatch
           \/ ReleaseUnsent \/ CloseJobs \/ Wait \/ RecordDetail
           \/ ChooseContext
  BY <1>3, ContractStutter
  DEF ResolveTierAnchor, StartWorkers, LeaveDispatch, ReleaseUnsent,
      CloseJobs, Wait, RecordDetail, ChooseContext, counters, result
<1>4. CASE Settle
  <2>1. ASSUME ~cancelled
        PROVE  updated + failed = Total
    <3>1. Owing = {} /\ pending = {}
      BY <1>4, <2>1
      DEF IInv, QuiescentAfterWait, SkippedMeansCancelled, Settle
    <3>2. Holding = {}
      BY <3>1 DEF Owing, Holding
    <3> QED
      BY <1>a, <3>1, <3>2, FS_EmptySet DEF MembersAccounted, TypeOK
  <2>2. /\ Stage = "counting" /\ Stage' = "settled"
        /\ UNCHANGED <<cancelled, Contract!counts, row>>
    BY <1>4 DEF Settle, counters, Contract!counts, Total
  <2>3. CASE cancelled
    BY <1>4, <2>2, <2>3
    DEF Settle, Contract!Next, Contract!Settle, RunFailed, Contract!RunFailed
  <2>4. CASE ~cancelled
    <3>1. status' = Contract!Outcome(updated, failed)
      BY <1>4, <2>4
      DEF Settle, Outcome, Contract!Outcome, RunSuccess, RunPartial, RunFailed,
          Contract!RunSuccess, Contract!RunPartial, Contract!RunFailed
    <3> QED
      BY <2>1, <2>2, <2>4, <3>1 DEF Contract!Next, Contract!Settle
  <2> QED
    BY <2>3, <2>4
<1>5. CASE Finish
  BY <1>5
  DEF Finish, Outcomes, counters, result, Total, Contract!Next,
      Contract!Close, Contract!counts
<1>6. ASSUME NEW w \in Workers, CountUpdated(w) \/ CountFailed(w)
      PROVE  Contract!CountUpdated \/ Contract!CountFailed
  <2>1. w \in Holding /\ pc \notin After
    BY <1>6
    DEF CountUpdated, CountFailed, Holding, Owing, IInv, QuiescentAfterWait
  <2>2. pc \notin Before
    BY <2>1 DEF IInv, PoolUnstarted, Holding
  <2>3. Stage = "counting" /\ Stage' = "counting"
    BY <1>6, <1>a, <2>1, <2>2 DEF TypeOK, CountUpdated, CountFailed
  <2>4. Cardinality(Holding) > 0
    BY <1>a, <2>1, FiniteParts, FS_EmptySet
  <2>5. updated + failed < Total
    BY <1>a, <2>4, FiniteParts DEF MembersAccounted, TypeOK
  <2> QED
    BY <1>6, <2>3, <2>5
    DEF CountUpdated, CountFailed, result, Contract!CountUpdated,
        Contract!CountFailed, Total
<1>7. ASSUME NEW w \in Workers,
             \/ \E m \in Members : Dispatch(w, m)
             \/ SyncCharacter(w) \/ WorkerDone(w) \/ WorkerExit(w)
      PROVE  UNCHANGED Contract!vars
  BY <1>7, ContractStutter
  DEF Dispatch, SyncCharacter, WorkerDone, WorkerExit, counters, result
<1>8. CASE Cancel
  BY <1>8
  DEF Cancel, counters, result, Total, Contract!Next, Contract!Cancel,
      Contract!counts
<1>9. CASE Returned \/ UNCHANGED vars
  BY <1>9, ContractStutter DEF Returned, vars, counters, result
<1> QED
  BY <1>1, <1>2, <1>3, <1>4, <1>5, <1>6, <1>7, <1>8, <1>9
  DEF Next, Caller, Worker, Contract!Next

\* The engine implements RunContract: its initial states map to the contract's,
\* and each of its steps to one of the contract's or to a stutter.
THEOREM EngineKeepsContract == Spec => KeepsContract
  BY ContractInit, ContractStep, Invariance, PTL
  DEF Spec, KeepsContract, Contract!Spec
=============================================================================
