-------------------------- MODULE OfficerWorkflow --------------------------
(***************************************************************************)
(* The officers' notes, tags and reviews: the transactions of              *)
(* src/backend/internal/store/officer.go and the handlers around them, one *)
(* statement at a time.  The database runs them READ COMMITTED: a SELECT   *)
(* reads what is committed, an upsert waits for the lock of the row it     *)
(* writes and then works on its committed version, and a cycle of waits    *)
(* ends with one transaction aborted.                                      *)
(***************************************************************************)
EXTENDS Naturals, Sequences, FiniteSets

CONSTANTS Requests,    \* requests, each made once
          Officers,
          Targets,     \* ids of characters and of sync runs
          Guilds,
          GuildOf,     \* the guild of a target, or None if nothing has that id
          Tags, Notes, Statuses,
          Asks,        \* what may be asked for
          MaxTags,     \* OfficerTagsMax
          MaxBatch,    \* OfficerBatchMax
          None

Empty == ""   \* of a note or a status: there is none

Ask == [op : {"bulk_tags", "review_complete", "character_update"}, ids : Seq(Targets),
        add : SUBSET Tags, remove : SUBSET Tags, note : Notes, status : Statuses]

ASSUME OfficerWorkflowAssumption ==
    /\ GuildOf \in [Targets -> Guilds \cup {None}] /\ None \notin Guilds \cup Officers \cup Requests
    /\ MaxTags \in Nat /\ MaxBatch \in Nat /\ Empty \in Notes \cap Statuses
    /\ IsFiniteSet(Tags)   \* officerTagName: of 32 characters at most
    /\ Asks \subseteq Ask
    /\ \A a \in Asks : a.op = "character_update" => Len(a.ids) = 1 /\ a.remove = {}

VARIABLES
    rows,      \* officer_character_state and officer_sync_run_review, committed
    lock,      \* the transaction that has written a row and not ended
    activity,  \* officer_activity, committed
    tx         \* what each request is doing, with its uncommitted writes

vars == <<rows, lock, activity, tx>>

\* A row that does not exist reads as an empty one.
NoRow == [note |-> Empty, author |-> None, status |-> Empty, tags |-> {}, reviewed |-> None]
NoAsk == [op |-> "none", ids |-> <<>>, add |-> {}, remove |-> {},
          note |-> Empty, status |-> Empty]
NotMade == [pc |-> "new", actor |-> None, guild |-> None, ask |-> NoAsk, k |-> 0,
            before |-> NoRow, wrote |-> <<>>]

Init ==
    /\ rows = [c \in Targets |-> NoRow]
    /\ lock = [c \in Targets |-> None]
    /\ activity = {}
    /\ tx = [r \in Requests |-> NotMade]

Running(r) == tx[r].pc \in {"validate", "read", "write", "commit"}
Target(r) == tx[r].ask.ids[tx[r].k]
Batch(r) == {tx[r].ask.ids[i] : i \in DOMAIN tx[r].ask.ids}

\* validOfficerIDs and cleanTags: distinct ids, not too many, nor too many tags.
ValidOfficerIDs(ids) ==
    /\ ids # <<>> /\ Len(ids) <= MaxBatch
    /\ \A i, j \in DOMAIN ids : i # j => ids[i] # ids[j]
CleanTags(tags) == Cardinality(tags) <= MaxTags
Accepted(a) ==
    /\ ValidOfficerIDs(a.ids) /\ CleanTags(a.add) /\ CleanTags(a.remove)
    /\ a.op = "bulk_tags" => a.add \cup a.remove # {}

\* A request comes in; what the input rules refuse never opens a transaction.
Begin(r, u, g, a) ==
    /\ tx[r] = NotMade
    /\ tx' = [tx EXCEPT ![r] = [NotMade EXCEPT !.pc = IF Accepted(a) THEN "validate" ELSE "rejected",
                                               !.actor = u, !.guild = g, !.ask = a, !.k = 1]]
    /\ UNCHANGED <<rows, lock, activity>>

\* Rollback, and the answer 400.
BadRolledBack(r) == lock
RolledBack(r) == [c \in Targets |-> IF lock[c] = r THEN None ELSE lock[c]]
Reject(r) ==
    /\ tx' = [tx EXCEPT ![r].pc = "rejected", ![r].wrote = <<>>]
    /\ lock' = RolledBack(r)
    /\ UNCHANGED <<rows, activity>>

\* One missing or foreign target refuses the whole batch.
BadValidTargets(r) == \E c \in Batch(r) : GuildOf[c] = tx[r].guild
ValidTargets(r) == \A c \in Batch(r) : GuildOf[c] = tx[r].guild
Validate(r) ==
    /\ tx[r].pc = "validate"
    /\ IF ValidTargets(r)
       THEN /\ tx' = [tx EXCEPT ![r].pc = IF tx[r].ask.op = "review_complete"
                                          THEN "write" ELSE "read"]
            /\ UNCHANGED <<rows, lock, activity>>
       ELSE Reject(r)

\* The SELECT of what an edit replaces; bulk edits compute the new tags from it.
BulkTags(r, before) == (before.tags \cup tx[r].ask.add) \ tx[r].ask.remove
TooMany(r, before) ==
    tx[r].ask.op = "bulk_tags" /\ Cardinality(BulkTags(r, before)) > MaxTags
Read(r) ==
    LET before == rows[Target(r)] IN
    /\ tx[r].pc = "read"
    /\ IF TooMany(r, before)
       THEN Reject(r)
       ELSE /\ tx' = [tx EXCEPT ![r].pc = "write", ![r].before = before]
            /\ UNCHANGED <<rows, lock, activity>>

\* The upserts: each sets its own columns of the committed row.  The author of
\* the note changes where the note that is stored at that moment does.
BadAuthor(r, row) ==
    IF tx[r].before.note = tx[r].ask.note THEN row.author
    ELSE IF tx[r].ask.note = Empty THEN None ELSE tx[r].actor
Author(r, row) ==
    IF row.note = tx[r].ask.note THEN row.author
    ELSE IF tx[r].ask.note = Empty THEN None ELSE tx[r].actor
Upserted(r, row) ==
    CASE tx[r].ask.op = "bulk_tags" -> [row EXCEPT !.tags = BulkTags(r, tx[r].before)]
      [] tx[r].ask.op = "review_complete" -> [row EXCEPT !.reviewed = r]
      [] tx[r].ask.op = "character_update" ->
            [row EXCEPT !.note = tx[r].ask.note, !.author = Author(r, row),
                        !.status = tx[r].ask.status, !.tags = tx[r].ask.add]

\* The activity entry that the same transaction inserts with every write.
Activity(r, c) == [request |-> r, actor |-> tx[r].actor, guild |-> tx[r].guild, target |-> c]

Write(r) ==
    LET c == Target(r) IN
    /\ tx[r].pc = "write"
    /\ lock[c] = None
    /\ lock' = [lock EXCEPT ![c] = r]
    /\ tx' = [tx EXCEPT
                ![r].wrote = Append(@, Upserted(r, rows[c])),
                ![r].before = NoRow,
                ![r].k = IF @ < Len(tx[r].ask.ids) THEN @ + 1 ELSE @,
                ![r].pc = IF tx[r].k = Len(tx[r].ask.ids) THEN "commit"
                          ELSE IF tx[r].ask.op = "bulk_tags" THEN "read" ELSE @]
    /\ UNCHANGED <<rows, activity>>

\* Two transactions, or more, that each wait for a row of the next: the database
\* aborts one of them.
Blocked(r) == tx[r].pc = "write" /\ lock[Target(r)] \notin {None, r}
Deadlocked(r) ==
    \E S \in SUBSET {x \in Requests : Blocked(x)} :
        r \in S /\ {lock[Target(x)] : x \in S} = S
Abort(r) == Deadlocked(r) /\ Reject(r)

\* A statement or the whole transaction fails, or the client goes away.
Fail(r) == Running(r) /\ Reject(r)

\* COMMIT; its answer may be lost, and the handler then reports a rejection.
Stored(r) ==
    [c \in Targets |->
        IF c \in Batch(r)
        THEN tx[r].wrote[CHOOSE i \in DOMAIN tx[r].ask.ids : tx[r].ask.ids[i] = c]
        ELSE rows[c]]
Logged(r) == activity \cup {Activity(r, c) : c \in Batch(r)}
Commit(r) ==
    /\ tx[r].pc = "commit"
    /\ rows' = Stored(r)
    /\ activity' = Logged(r)
    /\ lock' = RolledBack(r)
    /\ \E pc \in {"audit", "rejected"} : tx' = [tx EXCEPT ![r].pc = pc, ![r].wrote = <<>>]

\* audited: the audit event is a statement of its own, after the commit.
Audit(r) ==
    /\ tx[r].pc = "audit"
    /\ \E pc \in {"ok", "unaudited"} : tx' = [tx EXCEPT ![r].pc = pc]
    /\ UNCHANGED <<rows, lock, activity>>

Step(r) == Validate(r) \/ Read(r) \/ Write(r) \/ Abort(r) \/ Commit(r) \/ Audit(r)
Ended == (\A r \in Requests : tx[r].pc \in {"ok", "rejected", "unaudited"}) /\ UNCHANGED vars

Next ==
    \/ \E r \in Requests :
          \/ \E u \in Officers, g \in Guilds, a \in Asks : Begin(r, u, g, a)
          \/ Step(r)
          \/ Fail(r)
    \/ Ended

Spec == Init /\ [][Next]_vars
\* Every handler goes on, and the database breaks cycles of waits.
FairSpec == Spec /\ \A r \in Requests : WF_vars(Step(r))
-----------------------------------------------------------------------------
(* Properties.                                                             *)

RowType == [note : Notes, author : Officers \cup {None}, status : Statuses,
            tags : SUBSET Tags, reviewed : Requests \cup {None}]
TxType ==
    [pc : {"new", "validate", "read", "write", "commit", "audit", "ok", "rejected", "unaudited"},
     actor : Officers \cup {None}, guild : Guilds \cup {None}, ask : Asks \cup {NoAsk},
     k : Nat, before : RowType, wrote : Seq(RowType)]

\* The stored rows, and the ones that open transactions are to store, are what
\* the columns hold (officer.go:60-180).
TypeOK ==
    /\ rows \in [Targets -> RowType]
    /\ lock \in [Targets -> Requests \cup {None}]
    /\ tx \in [Requests -> TxType]

\* Whatever edits overlap, no character ends up with more tags than are allowed.
TagsBounded == \A c \in Targets : Cardinality(rows[c].tags) <= MaxTags

\* A request changes all of its targets or none, a refused target refuses them
\* all, and a request that was answered 200 has an activity entry for each.
AllOrNothing ==
    \A r \in Requests :
        LET done == {e.target : e \in {x \in activity : x.request = r}} IN
        /\ done \in {{}, Batch(r)}
        /\ tx[r].pc \in {"audit", "ok", "unaudited"} => done = Batch(r)
        /\ \A c \in done : GuildOf[c] = tx[r].guild

\* Nothing changes without an activity entry of the same transaction.
ChangesLogged ==
    [][\A c \in Targets : rows'[c] # rows[c] =>
          \E e \in activity' \ activity : e.target = c /\ e.guild = GuildOf[c]]_vars

\* The author shown with a note is the officer whose edit last changed its text,
\* however edits of the same note overlap; tags and reviews leave both alone.
NoteAuthored ==
    [][\A c \in Targets :
          IF rows'[c].note = rows[c].note THEN rows'[c].author = rows[c].author
          ELSE \E e \in activity' \ activity :
                  /\ tx[e.request].ask.op = "character_update"
                  /\ rows'[c].author = IF rows'[c].note = Empty THEN None ELSE e.actor]_vars

\* Every request is answered, also when batches lock rows in opposite orders.
EveryRequestAnswered ==
    \A r \in Requests : tx[r].pc = "validate" ~> tx[r].pc \in {"ok", "rejected", "unaudited"}

\* A transaction works through an accepted batch in order, writes to targets of
\* its own guild only, and has logged nothing before its commit.
KeepsToBatch(r) ==
    LET t == tx[r] IN
    /\ t.pc = "new" => t = NotMade
    /\ t.pc # "new" => t.ask \in Asks /\ t.actor \in Officers /\ t.guild \in Guilds
    /\ t.pc \notin {"new", "rejected"} => Accepted(t.ask)
    /\ t.pc \in {"validate", "read", "write"} =>
          t.k \in 1..Len(t.ask.ids) /\ Len(t.wrote) = t.k - 1
    /\ t.pc = "commit" => Len(t.wrote) = Len(t.ask.ids)
    /\ ~Running(r) => t.wrote = <<>>
    /\ t.pc \in {"read", "write", "commit"} => ValidTargets(r)
    /\ t.pc = "write" => ~TooMany(r, t.before)
    /\ Running(r) \/ t.pc = "new" => \A e \in activity : e.request # r
InBatch == \A r \in Requests : KeepsToBatch(r)

\* Whoever has written a row holds it, so that what is to be committed still
\* differs from the stored row by this transaction's columns alone.
HoldsRows(r) ==
    \A i \in DOMAIN tx[r].wrote :
        LET c == tx[r].ask.ids[i]  new == tx[r].wrote[i] IN
        /\ lock[c] = r
        /\ Cardinality(new.tags) <= MaxTags
        /\ IF tx[r].ask.op = "character_update"
           THEN new.note = tx[r].ask.note /\ new.author = Author(r, rows[c])
           ELSE new.note = rows[c].note /\ new.author = rows[c].author
LocksHeld == \A r \in Requests : HoldsRows(r)

\* An entry of the activity log is of the request that made it.
EntriesTrue ==
    \A e \in activity :
        e.request \in Requests /\ e.target \in Batch(e.request) /\ e = Activity(e.request, e.target)

\* The committed state: batches are whole, tags within their limit.  The others
\* make it inductive.
OfficerInv ==
    /\ TypeOK /\ InBatch /\ LocksHeld /\ EntriesTrue
    /\ AllOrNothing /\ TagsBounded

\* Every change can be traced to the officer who made it: the activity entry of
\* its transaction, and the author shown with the note.
ChangesAttributed == ChangesLogged /\ NoteAuthored
=============================================================================
