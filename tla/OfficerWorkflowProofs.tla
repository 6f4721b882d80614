----------------------- MODULE OfficerWorkflowProofs -----------------------
(***************************************************************************)
(* OfficerWorkflow for any number of requests, targets and officers.  The  *)
(* invariant speaks of each request on its own but for the rows and the    *)
(* log, which only a commit changes, and only in rows that its own         *)
(* transaction has locked.                                                 *)
(***************************************************************************)
EXTENDS OfficerWorkflow, FiniteSetTheorems, TLAPS

\* The part of AllOrNothing that is about one request.
Done(r) == {e.target : e \in {x \in activity : x.request = r}}
Whole(r) ==
    /\ Done(r) \in {{}, Batch(r)}
    /\ tx[r].pc \in {"audit", "ok", "unaudited"} => Done(r) = Batch(r)
    /\ \A c \in Done(r) : GuildOf[c] = tx[r].guild

LEMMA WholeOfEach == AllOrNothing <=> \A r \in Requests : Whole(r)
  BY DEF AllOrNothing, Whole, Done

LEMMA WholeOfEachNext == AllOrNothing' <=> \A r \in Requests : Whole(r)'
  BY DEF AllOrNothing, Whole, Done

\* Tags are counted.
LEMMA TagsCounted ==
    ASSUME NEW S \in SUBSET Tags
    PROVE  IsFiniteSet(S) /\ Cardinality(S) \in Nat
  BY OfficerWorkflowAssumption, FS_Subset, FS_CardinalityType

\* What an accepted request asks for.
LEMMA AskType ==
    ASSUME NEW a \in Asks
    PROVE  /\ a \in Ask /\ a.ids \in Seq(Targets) /\ a.add \in SUBSET Tags
           /\ a.note \in Notes /\ a.status \in Statuses
           /\ a.op \in {"bulk_tags", "review_complete", "character_update"}
  BY OfficerWorkflowAssumption DEF Ask

\* Nothing written.
LEMMA NothingWritten ==
    /\ <<>> \in Seq(RowType) /\ Len(<<>>) = 0 /\ DOMAIN <<>> = {}
    /\ NoRow \in RowType /\ Cardinality(NoRow.tags) <= MaxTags
<1>1. <<>> \in Seq(RowType) /\ Len(<<>>) = 0 /\ DOMAIN <<>> = {}
  OBVIOUS
<1>2. Empty \in Notes /\ Empty \in Statuses /\ MaxTags \in Nat
  BY OfficerWorkflowAssumption
<1>3. NoRow \in RowType /\ NoRow.tags = {}
  BY <1>2 DEF NoRow, RowType
<1>4. Cardinality({}) = 0
  BY FS_EmptySet
<1>5. Cardinality(NoRow.tags) <= MaxTags
  <2>1. Cardinality(NoRow.tags) = 0
    BY <1>3, <1>4
  <2> QED
    BY <1>2, <2>1
<1> QED
  BY <1>1, <1>3, <1>5

LEMMA InitInv == Init => OfficerInv
<1> SUFFICES ASSUME Init PROVE OfficerInv
  OBVIOUS
<1>1. /\ rows = [c \in Targets |-> NoRow] /\ lock = [c \in Targets |-> None]
      /\ activity = {} /\ tx = [r \in Requests |-> NotMade]
  BY DEF Init
<1>2. TypeOK
  <2>1. NotMade \in TxType
    BY NothingWritten DEF TxType, NotMade
  <2> QED
    BY <1>1, <2>1, NothingWritten DEF TypeOK
<1>3. \A r \in Requests : tx[r] = NotMade /\ tx[r].pc = "new" /\ tx[r].wrote = <<>>
  BY <1>1 DEF NotMade
<1>4. InBatch
  BY <1>1, <1>3 DEF InBatch, KeepsToBatch, Running
<1>5. LocksHeld
  BY <1>3, NothingWritten DEF LocksHeld, HoldsRows
<1>6. EntriesTrue /\ AllOrNothing
  BY <1>1, <1>3 DEF EntriesTrue, AllOrNothing
<1>7. TagsBounded
  BY <1>1, NothingWritten DEF TagsBounded
<1> QED
  BY <1>2, <1>4, <1>5, <1>6, <1>7 DEF OfficerInv

\* Another request's step leaves alone what is known of this one, so long as it
\* spares the rows that this one holds and its entries in the log.
LEMMA OthersKeep ==
    ASSUME OfficerInv, NEW q \in Requests, tx'[q] = tx[q],
           \A c \in Targets : lock[c] = q => lock'[c] = q /\ rows'[c] = rows[c],
           \A e : e.request = q => (e \in activity' <=> e \in activity)
    PROVE  KeepsToBatch(q)' /\ HoldsRows(q)' /\ Whole(q)'
<1>1. Batch(q)' = Batch(q) /\ (Running(q)' <=> Running(q)) /\ (ValidTargets(q)' <=> ValidTargets(q))
      /\ (TooMany(q, tx[q].before)' <=> TooMany(q, tx[q].before))
  BY DEF Batch, Running, ValidTargets, TooMany, BulkTags
<1>2. KeepsToBatch(q)'
  <2>1. KeepsToBatch(q)
    BY DEF OfficerInv, InBatch
  <2>2. (\A e \in activity' : e.request # q) <=> \A e \in activity : e.request # q
    OBVIOUS
  <2> QED
    BY <1>1, <2>1, <2>2 DEF KeepsToBatch
<1>3. HoldsRows(q)'
  <2> SUFFICES ASSUME NEW i \in DOMAIN tx[q].wrote
               PROVE  LET c == tx[q].ask.ids[i]  new == tx[q].wrote[i] IN
                      /\ lock'[c] = q
                      /\ Cardinality(new.tags) <= MaxTags
                      /\ IF tx[q].ask.op = "character_update"
                         THEN new.note = tx[q].ask.note /\ new.author = Author(q, rows[c])'
                         ELSE new.note = rows'[c].note /\ new.author = rows'[c].author
    BY DEF HoldsRows
  <2> DEFINE c == tx[q].ask.ids[i]
  <2>1. c \in Targets /\ lock[c] = q
    <3>1. Running(q) /\ Len(tx[q].wrote) <= Len(tx[q].ask.ids) /\ tx[q].ask \in Asks
      BY DEF OfficerInv, InBatch, KeepsToBatch, Running, TypeOK, TxType
    <3>2. DOMAIN tx[q].wrote \subseteq DOMAIN tx[q].ask.ids
      BY <3>1, AskType DEF OfficerInv, TypeOK, TxType
    <3> QED
      BY <3>1, <3>2, AskType DEF OfficerInv, LocksHeld, HoldsRows
  <2>2. rows'[c] = rows[c] /\ lock'[c] = q
    BY <2>1
  <2>3. Author(q, rows[c])' = Author(q, rows[c])
    BY <2>2 DEF Author
  <2> QED
    BY <2>2, <2>3 DEF OfficerInv, LocksHeld, HoldsRows
<1>4. Whole(q)'
  <2>1. Done(q)' = Done(q)
    BY DEF Done
  <2> QED
    BY <1>1, <2>1, WholeOfEach DEF OfficerInv, Whole
<1> QED
  BY <1>2, <1>3, <1>4

\* A step of a request that writes no row: it comes in, reads, is audited, or ends
\* and gives its rows back.
LEMMA OwnStepKeeps ==
    ASSUME OfficerInv, NEW r \in Requests, NEW t \in TxType,
           tx' = [tx EXCEPT ![r] = t], UNCHANGED <<rows, activity>>,
           \/ t.wrote = <<>> /\ lock' \in {lock, RolledBack(r)}
           \/ t.wrote = tx[r].wrote /\ lock' = lock /\ tx[r].pc # "new",
           tx[r].pc # "new" => t.ask = tx[r].ask /\ t.actor = tx[r].actor /\ t.guild = tx[r].guild,
           t.pc \in {"audit", "ok", "unaudited"} => tx[r].pc = "audit",
           KeepsToBatch(r)'
    PROVE  OfficerInv'
<1>1. tx'[r] = t /\ \A q \in Requests \ {r} : tx'[q] = tx[q]
  BY DEF OfficerInv, TypeOK
<1>2. /\ lock' \in [Targets -> Requests \cup {None}]
      /\ \A c \in Targets : lock[c] # r => lock'[c] = lock[c]
  BY DEF RolledBack, OfficerInv, TypeOK
<1>3. TypeOK'
  BY <1>2 DEF OfficerInv, TypeOK
<1>4. tx[r].pc = "new" => Batch(r) = {} /\ Done(r) = {}
  <2> SUFFICES ASSUME tx[r].pc = "new" PROVE Batch(r) = {} /\ Done(r) = {}
    OBVIOUS
  <2>1. tx[r] = NotMade /\ \A e \in activity : e.request # r
    BY DEF OfficerInv, InBatch, KeepsToBatch
  <2>2. tx[r].ask.ids = <<>>
    <3>1. NotMade.ask = NoAsk /\ NoAsk.ids = <<>>
      BY DEF NotMade, NoAsk
    <3> QED
      BY <2>1, <3>1
  <2> QED
    BY <2>1, <2>2, NothingWritten DEF Batch, Done
<1>5. \A q \in Requests \ {r} : KeepsToBatch(q)' /\ HoldsRows(q)' /\ Whole(q)'
  BY <1>1, <1>2, OthersKeep
<1>6. HoldsRows(r)'
  <2>1. CASE t.wrote = <<>>
    BY <1>1, <2>1, NothingWritten DEF HoldsRows
  <2>2. CASE t.wrote = tx[r].wrote /\ lock' = lock /\ tx[r].pc # "new"
    <3>1. /\ tx'[r].wrote = tx[r].wrote /\ tx'[r].ask = tx[r].ask /\ tx'[r].actor = tx[r].actor
          /\ lock' = lock /\ rows' = rows
      BY <1>1, <2>2
    <3>2. \A c : Author(r, rows[c])' = Author(r, rows[c])
      BY <3>1 DEF Author
    <3>3. HoldsRows(r)
      BY DEF OfficerInv, LocksHeld
    <3> QED
      BY <3>1, <3>2, <3>3 DEF HoldsRows
  <2> QED
    BY <2>1, <2>2
<1>7. Whole(r)'
  <2>1. Done(r)' = Done(r)
    BY DEF Done
  <2>2. CASE tx[r].pc = "new"
    BY <1>1, <1>4, <2>1, <2>2 DEF Whole
  <2>3. CASE tx[r].pc # "new"
    <3>1. Batch(r)' = Batch(r)
      <4>1. tx'[r].ask = tx[r].ask
        BY <1>1, <2>3
      <4> QED
        BY <4>1 DEF Batch
    <3> QED
      BY <1>1, <2>1, <2>3, <3>1, WholeOfEach DEF Whole, OfficerInv
  <2> QED
    BY <2>2, <2>3
<1>8. EntriesTrue'
  <2> SUFFICES ASSUME NEW e \in activity
               PROVE  /\ e.request \in Requests /\ e.target \in Batch(e.request)'
                      /\ e = Activity(e.request, e.target)'
    BY DEF EntriesTrue
  <2>1. /\ e.request \in Requests /\ e.target \in Batch(e.request)
        /\ e = Activity(e.request, e.target)
    BY DEF EntriesTrue, OfficerInv
  <2>2. tx[e.request].pc # "new"
    BY <2>1 DEF OfficerInv, InBatch, KeepsToBatch
  <2>3. /\ tx'[e.request].ask = tx[e.request].ask /\ tx'[e.request].actor = tx[e.request].actor
        /\ tx'[e.request].guild = tx[e.request].guild
    BY <1>1, <2>1, <2>2
  <2> QED
    BY <2>1, <2>3 DEF Batch, Activity
<1>9. TagsBounded'
  BY DEF TagsBounded, OfficerInv
<1> QED
  BY <1>3, <1>5, <1>6, <1>7, <1>8, <1>9, WholeOfEachNext DEF OfficerInv, InBatch, LocksHeld

\* A request that is refused leaves nothing behind.
LEMMA RejectKeeps ==
    ASSUME OfficerInv, NEW r \in Requests, Running(r), Reject(r)
    PROVE  OfficerInv'
<1> DEFINE t == [tx[r] EXCEPT !.pc = "rejected", !.wrote = <<>>]
<1>1. tx[r] \in TxType /\ KeepsToBatch(r) /\ tx[r].pc # "new"
  BY DEF OfficerInv, TypeOK, InBatch, Running
<1>2. t \in TxType /\ t.pc = "rejected" /\ t.wrote = <<>>
      /\ t.ask = tx[r].ask /\ t.actor = tx[r].actor /\ t.guild = tx[r].guild
  <2>1. <<>> \in Seq(RowType)
    OBVIOUS
  <2> QED
    BY <1>1, <2>1 DEF TxType
<1>3. tx' = [tx EXCEPT ![r] = t]
  BY DEF Reject, OfficerInv, TypeOK
<1> HIDE DEF t
<1>4. tx'[r] = t
  BY <1>3 DEF OfficerInv, TypeOK
<1>5. KeepsToBatch(r)'
  BY <1>1, <1>2, <1>4 DEF KeepsToBatch, Running
<1> QED
  BY <1>1, <1>2, <1>3, <1>5, OwnStepKeeps DEF Reject

\* A request comes in.
LEMMA BeginKeeps ==
    ASSUME OfficerInv, NEW r \in Requests,
           NEW u \in Officers, NEW g \in Guilds, NEW a \in Asks, Begin(r, u, g, a)
    PROVE  OfficerInv'
<1> DEFINE t == [NotMade EXCEPT !.pc = IF Accepted(a) THEN "validate" ELSE "rejected",
                                !.actor = u, !.guild = g, !.ask = a, !.k = 1]
<1>1. /\ t \in TxType /\ t.wrote = <<>> /\ t.ask = a /\ t.actor = u /\ t.guild = g /\ t.k = 1
      /\ t.pc = IF Accepted(a) THEN "validate" ELSE "rejected"
  BY NothingWritten DEF TxType, NotMade
<1>2. tx' = [tx EXCEPT ![r] = t] /\ tx[r] = NotMade /\ activity' = activity
  BY DEF Begin
<1> HIDE DEF t
<1>3. tx'[r] = t /\ tx[r].pc = "new" /\ \A e \in activity : e.request # r
  <2>1. tx'[r] = t /\ tx[r].pc = "new"
    BY <1>2 DEF OfficerInv, TypeOK, NotMade
  <2> QED
    BY <2>1 DEF OfficerInv, InBatch, KeepsToBatch
<1>4. Accepted(a) => 1 \in 1..Len(a.ids)
  <2>1. a.ids \in Seq(Targets)
    BY AskType
  <2> QED
    BY <2>1 DEF Accepted, ValidOfficerIDs
<1>5. KeepsToBatch(r)'
  <2>1. Accepted(t.ask)' <=> Accepted(a)
    BY <1>1 DEF Accepted
  <2> QED
    BY <1>1, <1>2, <1>3, <1>4, NothingWritten DEF KeepsToBatch, Running
<1> QED
  BY <1>1, <1>2, <1>3, <1>5, OwnStepKeeps DEF Begin

\* The targets are checked, a row is read, or the audit event is recorded.
LEMMA ReadsKeep ==
    ASSUME OfficerInv, NEW r \in Requests, Validate(r) \/ Read(r) \/ Audit(r)
    PROVE  OfficerInv'
<1>0. tx[r] \in TxType /\ KeepsToBatch(r)
  BY DEF OfficerInv, TypeOK, InBatch
<1>1. CASE Running(r) /\ Reject(r)
  BY <1>1, RejectKeeps
<1>2. ASSUME NEW p \in {"read", "write"}, NEW b \in RowType,
             tx[r].pc \in {"validate", "read"}, ValidTargets(r),
             p = "write" => ~TooMany(r, b),
             tx' = [tx EXCEPT ![r] = [tx[r] EXCEPT !.pc = p, !.before = b]],
             UNCHANGED <<rows, lock, activity>>
      PROVE  OfficerInv'
  <2> DEFINE t == [tx[r] EXCEPT !.pc = p, !.before = b]
  <2>1. /\ t \in TxType /\ t.pc = p /\ t.before = b /\ t.wrote = tx[r].wrote /\ t.k = tx[r].k
        /\ t.ask = tx[r].ask /\ t.actor = tx[r].actor /\ t.guild = tx[r].guild
    BY <1>0, <1>2 DEF TxType
  <2>2. tx' = [tx EXCEPT ![r] = t]
    BY <1>2
  <2> HIDE DEF t
  <2>3. tx'[r] = t
    BY <2>2 DEF OfficerInv, TypeOK
  <2>4. /\ ValidTargets(r)' <=> ValidTargets(r)
        /\ TooMany(r, tx[r].before)' <=> TooMany(r, b)
    BY <2>1, <2>3 DEF ValidTargets, Batch, TooMany, BulkTags
  <2>5. KeepsToBatch(r)'
    BY <1>0, <1>2, <2>1, <2>3, <2>4 DEF KeepsToBatch, Running
  <2> QED
    BY <1>2, <2>1, <2>2, <2>5, OwnStepKeeps
<1>3. CASE Validate(r) /\ ValidTargets(r)
  <2> DEFINE p == IF tx[r].ask.op = "review_complete" THEN "write" ELSE "read"
  <2>1. tx' = [tx EXCEPT ![r] = [tx[r] EXCEPT !.pc = p, !.before = tx[r].before]]
    BY <1>0, <1>3 DEF Validate, OfficerInv, TypeOK, TxType
  <2>2. p = "write" => ~TooMany(r, tx[r].before)
    BY DEF TooMany
  <2>3. p \in {"read", "write"} /\ tx[r].before \in RowType
    BY <1>0 DEF TxType
  <2> HIDE DEF p
  <2> QED
    BY <1>2, <1>3, <2>1, <2>2, <2>3 DEF Validate
<1>4. CASE Read(r) /\ ~TooMany(r, rows[Target(r)])
  <2>1. Target(r) \in Targets
    BY <1>0, <1>4, AskType DEF Read, KeepsToBatch, Target
  <2>2. rows[Target(r)] \in RowType /\ ValidTargets(r)
    BY <1>0, <1>4, <2>1 DEF Read, KeepsToBatch, OfficerInv, TypeOK
  <2>3. tx' = [tx EXCEPT ![r] = [tx[r] EXCEPT !.pc = "write", !.before = rows[Target(r)]]]
    BY <1>4 DEF Read, OfficerInv, TypeOK
  <2> QED
    BY <1>2, <1>4, <2>2, <2>3 DEF Read
<1>5. CASE Audit(r)
  <2> PICK p \in {"ok", "unaudited"} : tx' = [tx EXCEPT ![r].pc = p]
    BY <1>5 DEF Audit
  <2> DEFINE t == [tx[r] EXCEPT !.pc = p]
  <2>1. /\ t \in TxType /\ t.pc = p /\ t.wrote = tx[r].wrote
        /\ t.ask = tx[r].ask /\ t.actor = tx[r].actor /\ t.guild = tx[r].guild
    BY <1>0 DEF TxType
  <2>2. tx' = [tx EXCEPT ![r] = t]
    BY DEF OfficerInv, TypeOK
  <2> HIDE DEF t
  <2>3. tx'[r] = t /\ tx[r].pc = "audit"
    BY <1>5, <2>2 DEF OfficerInv, TypeOK, Audit
  <2>4. KeepsToBatch(r)'
    BY <1>0, <1>5, <2>1, <2>3 DEF KeepsToBatch, Running
  <2> QED
    BY <1>5, <2>1, <2>2, <2>3, <2>4, OwnStepKeeps DEF Audit
<1> QED
  BY <1>1, <1>3, <1>4, <1>5 DEF Validate, Read, Running

\* What an upsert makes of a stored row: a row, within the limit of tags, that
\* differs in the columns of its operation.
LEMMA UpsertedRow ==
    ASSUME OfficerInv, NEW r \in Requests, tx[r].pc = "write", NEW c \in Targets
    PROVE  LET new == Upserted(r, rows[c]) IN
           /\ new \in RowType
           /\ Cardinality(new.tags) <= MaxTags
           /\ IF tx[r].ask.op = "character_update"
              THEN new.note = tx[r].ask.note /\ new.author = Author(r, rows[c])
              ELSE new.note = rows[c].note /\ new.author = rows[c].author
<1>1. /\ rows[c] \in RowType /\ Cardinality(rows[c].tags) <= MaxTags
      /\ tx[r].ask \in Asks /\ tx[r].actor \in Officers /\ tx[r].before \in RowType
      /\ Accepted(tx[r].ask) /\ ~TooMany(r, tx[r].before)
  BY DEF OfficerInv, TypeOK, TxType, InBatch, KeepsToBatch, TagsBounded
<1>2. MaxTags \in Nat
  BY OfficerWorkflowAssumption
<1>3. CASE tx[r].ask.op = "bulk_tags"
  <2>1. BulkTags(r, tx[r].before) \in SUBSET Tags
    BY <1>1, AskType DEF BulkTags, RowType
  <2>2. Cardinality(BulkTags(r, tx[r].before)) <= MaxTags
    BY <1>1, <1>2, <1>3, <2>1, TagsCounted DEF TooMany
  <2>3. Upserted(r, rows[c]) = [rows[c] EXCEPT !.tags = BulkTags(r, tx[r].before)]
    BY <1>3 DEF Upserted
  <2> QED
    BY <1>1, <1>3, <2>1, <2>2, <2>3 DEF RowType
<1>4. CASE tx[r].ask.op = "review_complete"
  BY <1>1, <1>4 DEF Upserted, RowType
<1>5. CASE tx[r].ask.op = "character_update"
  <2> DEFINE new == [rows[c] EXCEPT !.note = tx[r].ask.note, !.author = Author(r, rows[c]),
                                    !.status = tx[r].ask.status, !.tags = tx[r].ask.add]
  <2>1. Author(r, rows[c]) \in Officers \cup {None}
    BY <1>1 DEF Author, RowType
  <2>2. Cardinality(tx[r].ask.add) <= MaxTags
    BY <1>1 DEF Accepted, CleanTags
  <2>3. /\ new \in RowType /\ new.tags = tx[r].ask.add
        /\ new.note = tx[r].ask.note /\ new.author = Author(r, rows[c])
    BY <1>1, <2>1, AskType DEF RowType
  <2>4. Upserted(r, rows[c]) = new
    BY <1>5 DEF Upserted
  <2> HIDE DEF new
  <2> QED
    BY <1>5, <2>2, <2>3, <2>4
<1> QED
  BY <1>1, <1>3, <1>4, <1>5, AskType

\* An upsert takes the lock of a row that nobody holds.
LEMMA WriteKeeps ==
    ASSUME OfficerInv, NEW r \in Requests, Write(r)
    PROVE  OfficerInv'
<1>0. tx[r] \in TxType /\ KeepsToBatch(r) /\ HoldsRows(r) /\ Whole(r) /\ tx[r].pc = "write"
  BY WholeOfEach DEF OfficerInv, TypeOK, InBatch, LocksHeld, Write
<1>1. PICK ids \in Seq(Targets), k \in Nat :
        /\ k \in 1..Len(ids) /\ tx[r].ask.ids = ids /\ tx[r].k = k /\ tx[r].ask \in Asks
        /\ Len(tx[r].wrote) = k - 1 /\ tx[r].wrote \in Seq(RowType)
  BY <1>0, AskType DEF KeepsToBatch, TxType
<1> DEFINE c == ids[k]
           new == Upserted(r, rows[c])
           more == k < Len(ids)
           p == IF ~more THEN "commit"
                ELSE IF tx[r].ask.op = "bulk_tags" THEN "read" ELSE "write"
           t == [tx[r] EXCEPT !.wrote = Append(@, new), !.before = NoRow,
                              !.k = IF more THEN @ + 1 ELSE @, !.pc = p]
<1>2. c \in Targets /\ c = Target(r)
  BY <1>1 DEF Target
<1>3. /\ new \in RowType
      /\ Cardinality(new.tags) <= MaxTags
      /\ IF tx[r].ask.op = "character_update"
         THEN new.note = tx[r].ask.note /\ new.author = Author(r, rows[c])
         ELSE new.note = rows[c].note /\ new.author = rows[c].author
  BY <1>0, <1>2, UpsertedRow
<1>4. lock[c] = None /\ lock' = [lock EXCEPT ![c] = r] /\ UNCHANGED <<rows, activity>>
  BY <1>2 DEF Write
<1>5. tx' = [tx EXCEPT ![r] = t]
  <2>1. (IF tx[r].k = Len(ids) THEN "commit"
         ELSE IF tx[r].ask.op = "bulk_tags" THEN "read" ELSE tx[r].pc) = p
    BY <1>0, <1>1
  <2> QED
    BY <1>1, <1>2, <2>1 DEF Write, OfficerInv, TypeOK
<1> HIDE DEF c, new
<1>6. Append(tx[r].wrote, new) \in Seq(RowType)
      /\ Len(Append(tx[r].wrote, new)) = k
      /\ Append(tx[r].wrote, new)[k] = new
      /\ \A i \in 1..k - 1 : Append(tx[r].wrote, new)[i] = tx[r].wrote[i]
  BY <1>1, <1>3
<1>7. p \in {"commit", "read", "write"} /\ (p = "commit" <=> k = Len(ids))
  BY <1>1
<1> HIDE DEF p
<1>8. /\ t \in TxType /\ t.pc = p /\ t.wrote = Append(tx[r].wrote, new) /\ t.before = NoRow
      /\ t.k = (IF more THEN k + 1 ELSE k)
      /\ t.ask = tx[r].ask /\ t.actor = tx[r].actor /\ t.guild = tx[r].guild
  <2>1. (IF more THEN k + 1 ELSE k) \in Nat
    BY <1>1
  <2>2. p \in {"commit", "read", "write"} /\ NoRow \in RowType
    BY <1>7, NothingWritten
  <2>3. (IF more THEN tx[r].k + 1 ELSE tx[r].k) = IF more THEN k + 1 ELSE k
    BY <1>1
  <2> HIDE DEF more
  <2>4. t \in TxType
    BY ONLY <1>0, <1>6, <2>1, <2>2, <2>3 DEF TxType, t
  <2> QED
    BY ONLY <1>0, <2>3, <2>4 DEF TxType, t
<1> HIDE DEF t
<1>9. tx'[r] = t /\ \A q \in Requests \ {r} : tx'[q] = tx[q]
  BY <1>5 DEF OfficerInv, TypeOK
<1>10. TypeOK'
  BY <1>2, <1>4, <1>5, <1>8 DEF OfficerInv, TypeOK
<1>11. \A q \in Requests \ {r} : KeepsToBatch(q)' /\ HoldsRows(q)' /\ Whole(q)'
  <2> SUFFICES ASSUME NEW q \in Requests \ {r}
               PROVE  KeepsToBatch(q)' /\ HoldsRows(q)' /\ Whole(q)'
    OBVIOUS
  <2>1. \A d \in Targets : lock[d] = q => lock'[d] = q /\ rows'[d] = rows[d]
    BY <1>2, <1>4, OfficerWorkflowAssumption DEF OfficerInv, TypeOK
  <2> QED
    BY <1>4, <1>9, <2>1, OthersKeep
<1>12. KeepsToBatch(r)'
  <2>1. /\ ValidTargets(r)' <=> ValidTargets(r)
        /\ ~(p = "write" /\ TooMany(r, tx[r].before)')
    <3>1. ValidTargets(r)' <=> ValidTargets(r)
      BY <1>8, <1>9 DEF ValidTargets, Batch
    <3>2. p = "write" => tx'[r].ask.op # "bulk_tags"
      BY <1>8, <1>9 DEF p
    <3> QED
      BY <3>1, <3>2 DEF TooMany
  <2>2. p # "commit" => t.k \in 1..Len(ids) /\ Len(t.wrote) = t.k - 1
    BY <1>1, <1>6, <1>7, <1>8
  <2>3. p = "commit" => Len(t.wrote) = Len(ids)
    BY <1>1, <1>6, <1>7, <1>8
  <2> QED
    BY <1>0, <1>1, <1>4, <1>7, <1>8, <1>9, <2>1, <2>2, <2>3 DEF KeepsToBatch, Running
<1>13. HoldsRows(r)'
  <2>1. \A d : Author(r, rows[d])' = Author(r, rows[d])
    BY <1>4, <1>8, <1>9 DEF Author
  <2> SUFFICES ASSUME NEW i \in 1..k
               PROVE  LET d == ids[i]  row == t.wrote[i] IN
                      /\ lock'[d] = r
                      /\ Cardinality(row.tags) <= MaxTags
                      /\ IF tx[r].ask.op = "character_update"
                         THEN row.note = tx[r].ask.note /\ row.author = Author(r, rows[d])
                         ELSE row.note = rows[d].note /\ row.author = rows[d].author
    <3>1. DOMAIN t.wrote = 1..k
      BY <1>1, <1>6, <1>8
    <3> QED
      <4>1. /\ tx'[r].wrote = t.wrote /\ tx'[r].ask = tx[r].ask /\ tx[r].ask.ids = ids
            /\ rows' = rows
        BY <1>1, <1>4, <1>8, <1>9
      <4> QED
        BY <2>1, <3>1, <4>1 DEF HoldsRows
  <2>2. CASE i = k
    <3>1. lock'[c] = r
      BY <1>2, <1>4 DEF OfficerInv, TypeOK
    <3> QED
      BY <1>3, <1>6, <1>8, <2>2, <3>1 DEF c
  <2>3. CASE i # k
    <3>1. i \in 1..k - 1 /\ i \in DOMAIN tx[r].wrote /\ t.wrote[i] = tx[r].wrote[i]
      BY <1>1, <1>6, <1>8, <2>3
    <3>2. ids[i] \in Targets
      BY <1>1
    <3>3. lock'[ids[i]] = r
      BY <1>0, <1>1, <1>2, <1>4, <3>1, <3>2 DEF HoldsRows, OfficerInv, TypeOK
    <3> QED
      BY <1>0, <1>1, <3>1, <3>3 DEF HoldsRows
  <2> QED
    BY <2>2, <2>3
<1>14. Whole(r)'
  <2>1. Done(r)' = Done(r) /\ Batch(r)' = Batch(r)
    BY <1>4, <1>8, <1>9 DEF Done, Batch
  <2> QED
    BY <1>0, <1>7, <1>8, <1>9, <2>1 DEF Whole
<1>15. EntriesTrue'
  <2>1. \A q \in Requests : /\ tx'[q].ask = tx[q].ask /\ tx'[q].actor = tx[q].actor
                            /\ tx'[q].guild = tx[q].guild
    BY <1>8, <1>9
  <2>2. \A q \in Requests : Batch(q)' = Batch(q) /\ \A d : Activity(q, d)' = Activity(q, d)
    BY <2>1 DEF Batch, Activity
  <2> QED
    BY <1>4, <2>2 DEF EntriesTrue, OfficerInv
<1>16. TagsBounded'
  BY <1>4 DEF TagsBounded, OfficerInv
<1> QED
  BY <1>10, <1>11, <1>12, <1>13, <1>14, <1>15, <1>16, WholeOfEachNext
  DEF OfficerInv, InBatch, LocksHeld

\* What a commit stores: in each of its rows what the upsert made of it, and it has
\* held every one of them since.
LEMMA CommitStores ==
    ASSUME OfficerInv, NEW r \in Requests, Commit(r), NEW c \in Targets
    PROVE  /\ c \notin Batch(r) => rows'[c] = rows[c]
           /\ c \in Batch(r) =>
                 /\ lock[c] = r /\ GuildOf[c] = tx[r].guild
                 /\ rows'[c] \in RowType
                 /\ Cardinality(rows'[c].tags) <= MaxTags
                 /\ IF tx[r].ask.op = "character_update"
                    THEN rows'[c].note = tx[r].ask.note /\ rows'[c].author = Author(r, rows[c])
                    ELSE rows'[c].note = rows[c].note /\ rows'[c].author = rows[c].author
<1>1. /\ tx[r] \in TxType /\ KeepsToBatch(r) /\ HoldsRows(r) /\ tx[r].pc = "commit"
      /\ rows' = Stored(r)
  BY DEF OfficerInv, TypeOK, InBatch, LocksHeld, Commit
<1>2. c \notin Batch(r) => rows'[c] = rows[c]
  BY <1>1 DEF Stored
<1>3. ASSUME c \in Batch(r)
      PROVE  \E i \in DOMAIN tx[r].wrote : tx[r].ask.ids[i] = c /\ rows'[c] = tx[r].wrote[i]
  <2>1. tx[r].ask.ids \in Seq(Targets) /\ Len(tx[r].wrote) = Len(tx[r].ask.ids)
        /\ tx[r].wrote \in Seq(RowType)
    BY <1>1, AskType DEF KeepsToBatch, TxType
  <2>2. DOMAIN tx[r].wrote = DOMAIN tx[r].ask.ids
    BY <2>1
  <2> DEFINE i == CHOOSE j \in DOMAIN tx[r].ask.ids : tx[r].ask.ids[j] = c
  <2>3. i \in DOMAIN tx[r].ask.ids /\ tx[r].ask.ids[i] = c
    BY <1>3 DEF Batch
  <2>4. rows'[c] = tx[r].wrote[i]
    BY <1>1, <1>3 DEF Stored
  <2> HIDE DEF i
  <2> QED
    BY <2>2, <2>3, <2>4
<1>4. ASSUME c \in Batch(r)
      PROVE  lock[c] = r /\ GuildOf[c] = tx[r].guild /\ rows'[c] \in RowType
  BY <1>1, <1>3, <1>4 DEF HoldsRows, KeepsToBatch, ValidTargets, TxType
<1>5. ASSUME c \in Batch(r)
      PROVE  /\ Cardinality(rows'[c].tags) <= MaxTags
             /\ IF tx[r].ask.op = "character_update"
                THEN rows'[c].note = tx[r].ask.note /\ rows'[c].author = Author(r, rows[c])
                ELSE rows'[c].note = rows[c].note /\ rows'[c].author = rows[c].author
  BY <1>1, <1>3, <1>5 DEF HoldsRows
<1> QED
  BY <1>2, <1>4, <1>5

\* The commit logs its batch, for the first time.
LEMMA CommitLogs ==
    ASSUME OfficerInv, NEW r \in Requests, Commit(r)
    PROVE  /\ Batch(r) \subseteq Targets
           /\ activity' = activity \cup {Activity(r, c) : c \in Batch(r)}
           /\ \A e \in activity : e.request # r
           /\ \A c : Activity(r, c).request = r /\ Activity(r, c).target = c
           /\ Done(r) = {}
<1>1. tx[r] \in TxType /\ KeepsToBatch(r) /\ tx[r].pc = "commit" /\ activity' = Logged(r)
  BY DEF OfficerInv, TypeOK, InBatch, Commit
<1>2. tx[r].ask.ids \in Seq(Targets)
  BY <1>1, AskType DEF KeepsToBatch
<1>3. Batch(r) \subseteq Targets
  BY <1>2 DEF Batch
<1>4. \A e \in activity : e.request # r
  BY <1>1 DEF KeepsToBatch, Running
<1> QED
  BY <1>1, <1>3, <1>4 DEF Logged, Activity, Done

\* A commit stores what its locks have kept current, and logs all of it.
LEMMA CommitKeeps ==
    ASSUME OfficerInv, NEW r \in Requests, Commit(r)
    PROVE  OfficerInv'
<1>0. tx[r] \in TxType /\ KeepsToBatch(r) /\ tx[r].pc = "commit"
  BY DEF OfficerInv, TypeOK, InBatch, Commit
<1> PICK p \in {"audit", "rejected"} : tx' = [tx EXCEPT ![r].pc = p, ![r].wrote = <<>>]
  BY DEF Commit
<1> DEFINE t == [tx[r] EXCEPT !.pc = p, !.wrote = <<>>]
<1>1. /\ t \in TxType /\ t.pc = p /\ t.wrote = <<>>
      /\ t.ask = tx[r].ask /\ t.actor = tx[r].actor /\ t.guild = tx[r].guild
  BY <1>0, NothingWritten DEF TxType
<1>2. tx' = [tx EXCEPT ![r] = t]
  BY DEF OfficerInv, TypeOK
<1> HIDE DEF t
<1>3. tx'[r] = t /\ \A q \in Requests \ {r} : tx'[q] = tx[q]
  BY <1>2 DEF OfficerInv, TypeOK
<1>4. \A q \in Requests : Batch(q)' = Batch(q) /\ \A c : Activity(q, c)' = Activity(q, c)
  <2>1. \A q \in Requests : /\ tx'[q].ask = tx[q].ask /\ tx'[q].actor = tx[q].actor
                            /\ tx'[q].guild = tx[q].guild
    BY <1>1, <1>3
  <2> QED
    BY ONLY <2>1 DEF Batch, Activity
<1>5. /\ lock' \in [Targets -> Requests \cup {None}]
      /\ \A c \in Targets : lock[c] # r => lock'[c] = lock[c]
  BY DEF Commit, RolledBack, OfficerInv, TypeOK
<1>6. TypeOK'
  <2>1. \A c \in Targets : rows'[c] \in RowType
    BY CommitStores DEF OfficerInv, TypeOK
  <2>2. rows' = [c \in Targets |-> rows'[c]]
    BY DEF Commit, Stored
  <2>3. rows' \in [Targets -> RowType]
    BY <2>1, <2>2
  <2>4. tx' \in [Requests -> TxType]
    BY <1>1, <1>2 DEF OfficerInv, TypeOK
  <2> QED
    BY <1>5, <2>3, <2>4 DEF TypeOK
<1>7. \A q \in Requests \ {r} : KeepsToBatch(q)' /\ HoldsRows(q)' /\ Whole(q)'
  <2> SUFFICES ASSUME NEW q \in Requests \ {r}
               PROVE  KeepsToBatch(q)' /\ HoldsRows(q)' /\ Whole(q)'
    OBVIOUS
  <2>1. \A c \in Targets : lock[c] = q => lock'[c] = q /\ rows'[c] = rows[c]
    BY <1>5, CommitStores
  <2>2. \A e : e.request = q => (e \in activity' <=> e \in activity)
    BY CommitLogs
  <2> QED
    BY <1>3, <2>1, <2>2, OthersKeep
<1>8. KeepsToBatch(r)'
  BY <1>0, <1>1, <1>3 DEF KeepsToBatch, Running
<1>9. HoldsRows(r)'
  BY <1>1, <1>3, NothingWritten DEF HoldsRows
<1>10. Whole(r)'
  <2>1. Done(r)' = Batch(r)
    BY CommitLogs DEF Done
  <2>2. \A c \in Batch(r) : GuildOf[c] = tx[r].guild
    BY CommitStores, CommitLogs
  <2> QED
    BY <1>1, <1>3, <1>4, <2>1, <2>2 DEF Whole
<1>11. EntriesTrue'
  <2> SUFFICES ASSUME NEW e \in activity'
               PROVE  /\ e.request \in Requests /\ e.target \in Batch(e.request)
                      /\ e = Activity(e.request, e.target)
    BY <1>4 DEF EntriesTrue
  <2>1. CASE e \in activity
    BY <2>1 DEF OfficerInv, EntriesTrue
  <2>2. CASE e \notin activity
    BY <2>2, CommitLogs
  <2> QED
    BY <2>1, <2>2
<1>12. TagsBounded'
  BY CommitStores DEF OfficerInv, TagsBounded
<1> QED
  BY <1>6, <1>7, <1>8, <1>9, <1>10, <1>11, <1>12, WholeOfEachNext
  DEF OfficerInv, InBatch, LocksHeld

\* However requests interleave, fail, wait for each other or are aborted: batches
\* are whole, in the log as in the rows, and no character has too many tags.
THEOREM OfficerInvariance == Spec => []OfficerInv
<1>1. OfficerInv /\ [Next]_vars => OfficerInv'
  <2> SUFFICES ASSUME OfficerInv, [Next]_vars PROVE OfficerInv'
    OBVIOUS
  <2>1. ASSUME NEW r \in Requests, Abort(r)
        PROVE  OfficerInv'
    BY <2>1, RejectKeeps DEF Abort, Deadlocked, Blocked, Running
  <2>2. ASSUME NEW r \in Requests, Fail(r)
        PROVE  OfficerInv'
    BY <2>2, RejectKeeps DEF Fail
  <2>3. CASE UNCHANGED vars
    <3>1. UNCHANGED <<rows, lock, activity, tx>>
      BY <2>3 DEF vars
    <3>2. TypeOK' /\ TagsBounded'
      BY <3>1 DEF OfficerInv, TypeOK, TagsBounded
    <3>3. \A q \in Requests : KeepsToBatch(q)' /\ HoldsRows(q)' /\ Whole(q)'
      BY <3>1, OthersKeep
    <3>4. EntriesTrue'
      BY <3>1 DEF OfficerInv, EntriesTrue, Batch, Activity
    <3> QED
      BY <3>2, <3>3, <3>4, WholeOfEachNext DEF OfficerInv, InBatch, LocksHeld
  <2> QED
    BY <2>1, <2>2, <2>3, BeginKeeps, ReadsKeep, WriteKeeps, CommitKeeps
    DEF Next, Step, Ended
<1> QED
  BY InitInv, <1>1, PTL DEF Spec

\* Only a commit changes rows.
LEMMA CommitsChangeRows ==
    ASSUME OfficerInv, [Next]_vars, rows' # rows
    PROVE  \E r \in Requests : Commit(r)
  BY DEF Next, Step, Begin, Validate, Read, Write, Abort, Fail, Audit, Reject, Ended, vars

\* Every change of a row comes with its entry in the activity log, and the author
\* shown with a note is the officer of the entry with which its text last changed,
\* although the statement that decides it ran before others' commits.
THEOREM ChangesHaveAuthors == Spec => ChangesAttributed
<1>1. ASSUME OfficerInv, [Next]_vars, NEW c \in Targets, rows'[c] # rows[c]
      PROVE  \E e \in activity' \ activity : e.target = c /\ e.guild = GuildOf[c]
  <2> PICK r \in Requests : Commit(r)
    BY <1>1, CommitsChangeRows
  <2>1. c \in Batch(r) /\ GuildOf[c] = tx[r].guild
    BY <1>1, CommitStores
  <2>2. Activity(r, c) \in activity' \ activity /\ Activity(r, c).target = c
    BY <1>1, <2>1, CommitLogs
  <2>3. Activity(r, c).guild = tx[r].guild
    BY DEF Activity
  <2> QED
    BY <2>1, <2>2, <2>3
<1>2. ASSUME OfficerInv, [Next]_vars, NEW c \in Targets
      PROVE  IF rows'[c].note = rows[c].note THEN rows'[c].author = rows[c].author
             ELSE \E e \in activity' \ activity :
                    /\ tx[e.request].ask.op = "character_update"
                    /\ rows'[c].author = IF rows'[c].note = Empty THEN None ELSE e.actor
  <2>1. CASE rows'[c] = rows[c]
    BY <2>1
  <2>2. CASE rows'[c] # rows[c]
    <3> PICK r \in Requests : Commit(r)
      BY <1>2, <2>2, CommitsChangeRows
    <3>1. c \in Batch(r)
      BY <1>2, <2>2, CommitStores
    <3>2. IF tx[r].ask.op = "character_update"
          THEN rows'[c].note = tx[r].ask.note /\ rows'[c].author = Author(r, rows[c])
          ELSE rows'[c].note = rows[c].note /\ rows'[c].author = rows[c].author
      BY <1>2, <3>1, CommitStores
    <3>3. Activity(r, c) \in activity' \ activity /\ Activity(r, c).request = r
      BY <1>2, <3>1, CommitLogs
    <3>4. Activity(r, c).actor = tx[r].actor
      BY DEF Activity
    <3>5. CASE tx[r].ask.op # "character_update"
      BY <3>2, <3>5
    <3>6. CASE tx[r].ask.op = "character_update"
      BY <3>2, <3>3, <3>4, <3>6 DEF Author
    <3> QED
      BY <3>5, <3>6
  <2> QED
    BY <2>1, <2>2
<1>3. OfficerInv /\ [Next]_vars =>
        [\A c \in Targets : rows'[c] # rows[c] =>
            \E e \in activity' \ activity : e.target = c /\ e.guild = GuildOf[c]]_vars
  BY <1>1
<1>4. OfficerInv /\ [Next]_vars =>
        [\A c \in Targets :
            IF rows'[c].note = rows[c].note THEN rows'[c].author = rows[c].author
            ELSE \E e \in activity' \ activity :
                    /\ tx[e.request].ask.op = "character_update"
                    /\ rows'[c].author = IF rows'[c].note = Empty THEN None ELSE e.actor]_vars
  BY <1>2
<1> QED
  BY OfficerInvariance, <1>3, <1>4, PTL
  DEF Spec, ChangesAttributed, ChangesLogged, NoteAuthored
=============================================================================
