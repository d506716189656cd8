------------------------------- MODULE Batch -------------------------------
(***************************************************************************)
(* One oxpull batch: callers add members and seal it, reconcilers complete *)
(* it and enqueue its callbacks, and a reader asks for its progress, while *)
(* workers, operators, the reaper and ox_prune move the members' rows.     *)
(*                                                                         *)
(* A statement is a step.  What a transaction wrote is in tx until it      *)
(* commits; it holds the batch row's lock once it has written that row.    *)
(***************************************************************************)
EXTENDS Naturals, FiniteSets, FiniteSetsExt

CONSTANTS
  Callers,      \* the processes that add members and seal
  Ambient,      \* those that do it inside a transaction they opened
  Reconcilers,  \* ticks of the reconciler that may run at one time
  Tasks,        \* the ids of tasks that may become members
  Engines,      \* of "current", "stale", "manual", "refuses"; see InSnapshot, Refused
                \* and Manual
  MAX_SERIALIZATION_ATTEMPTS,
  MaxMishaps,   \* bound, per engine: retries, crashes, callers' roll backs, failed enqueues
  None

\* What the parameters are.
Parameters ==
  /\ Ambient \subseteq Callers /\ Callers \cap Reconcilers = {}
  /\ IsFiniteSet(Tasks) /\ None \notin Nat
  /\ Engines \subseteq {"current", "stale", "manual", "refuses"}
  /\ MAX_SERIALIZATION_ATTEMPTS \in Nat \ {0}
  /\ MaxMishaps \in [Engines -> Nat]

VARIABLES
  engine,   \* the database of this behaviour
  watched,  \* whether it is one in which progress() is called, see Init
  batch,    \* the committed batch row and the callback tasks in the table
  members,  \* the committed membership rows
  task,     \* the committed task rows
  call,     \* per process, where it is
  tx,       \* per process, its transaction
  report,   \* a call of progress()
  mishaps,  \* how many there were
  \* No part of the code, and read by no action:
  settledOnce,     \* tasks whose rows have ever been settled
  succeeded,       \* tasks whose rows have ever been SUCCESSFUL
  reopened         \* per reconciler, tasks retried since it read the counts

rows == <<batch, members, task>>
ghosts == <<settledOnce, succeeded, reopened>>
vars == <<engine, watched, batch, members, task, call, tx, report, mishaps,
          settledOnce, succeeded, reopened>>
-----------------------------------------------------------------------------
\* "lost" is LOST or DISCARDED, which are told apart nowhere; gone is pruned.
Settled == {"successful", "failed", "lost"}
Unattributed == {"lost"}
TaskStatuses == {"absent", "pending", "gone"} \cup Settled

Processes == Callers \cup Reconcilers
Counts == 0 .. Cardinality(Tasks)

\* unseen is no part of the code: the members that the sealer's snapshot predates, where
\* it counted in one.
BatchRow == [status    : {"open", "sealed", "complete"},
             total     : Counts \cup {None},
             unseen    : SUBSET Tasks,
             completes : 0 .. 2,    \* on_complete tasks enqueued, up to 2
             successes : 0 .. 2]    \* on_success tasks enqueued, up to 2

\* _member_task_counts, as far as they are told apart: whether a member is
\* pending, whether one FAILED, and how many rows have an outcome on record.
Tally == [pending : BOOLEAN, failed : BOOLEAN, counted : Counts]
NoTally == [pending |-> FALSE, failed |-> FALSE, counted |-> 0]

\* What a snapshot keeps.  Callers count no tasks.
Database == [batch : BatchRow, members : SUBSET Tasks, tally : Tally]

\* member: the task an add() is about; fresh: this add() created its row.
Call == [at     : {"idle", "claiming", "inserting", "sealing", "counting",
                   "retrying", "asking", "winning", "recounting", "enqueueing"},
         member : Tasks \cup {None},
         fresh  : BOOLEAN,
         tries  : 0 .. MAX_SERIALIZATION_ATTEMPTS - 1,
         clean  : BOOLEAN]

\* row: the batch row as this transaction left it, if it wrote (and locked) it.
\* view: its snapshot; changed: the batch row was committed anew since.
Transaction == [open    : BOOLEAN,
                row     : SUBSET BatchRow,
                members : SUBSET Tasks,
                tasks   : SUBSET Tasks,
                view    : SUBSET Database,
                changed : BOOLEAN]

NoCall == [at |-> "idle", member |-> None, fresh |-> FALSE, tries |-> 0, clean |-> FALSE]
NoTx == [open |-> FALSE, row |-> {}, members |-> {}, tasks |-> {}, view |-> {},
         changed |-> FALSE]
NoReport == [at |-> "idle", total |-> None, members |-> 0, pending |-> 0, rows |-> 0]

TypeOK ==
  /\ engine \in Engines /\ watched \in BOOLEAN
  /\ batch \in BatchRow
  /\ members \in SUBSET Tasks
  /\ task \in [Tasks -> TaskStatuses]
  /\ call \in [Processes -> Call]
  /\ tx \in [Processes -> Transaction]
  /\ report \in [at : {"idle", "members", "tasks", "answered"}, total : Counts \cup {None},
                 members : Counts, pending : Counts, rows : Counts]
  /\ mishaps \in 0 .. MaxMishaps[engine]
  /\ settledOnce \in SUBSET Tasks /\ succeeded \in SUBSET Tasks
  /\ reopened \in [Reconcilers -> SUBSET Tasks]
-----------------------------------------------------------------------------
(* What a transaction sees, and what it waits for.                         *)

Holding(kinds) == {t \in members : task[t] \in kinds}
Pending == Holding(TaskStatuses \ (Settled \cup {"gone"}))

\* Nothing else of a tally is looked at when a member is pending.
MemberTaskCounts ==
  IF Pending # {} THEN [NoTally EXCEPT !.pending = TRUE]
  ELSE [NoTally EXCEPT !.failed  = Holding({"failed"}) # {},
                       !.counted = Cardinality(Holding(Settled \ Unattributed))]

Committed(p) == [batch |-> batch, members |-> members,
                 tally |-> IF p \in Callers THEN NoTally ELSE MemberTaskCounts]

\* REPEATABLE READ: plain reads of a transaction answer from its snapshot.
InSnapshot == engine \in {"stale", "manual", "refuses"}

\* PostgreSQL takes the snapshot at the first statement; InnoDB at the first
\* plain read, which in the transactions modelled here sees what it should.
Snapshot(p) == IF engine = "refuses" THEN {Committed(p)} ELSE {}

Sees(p) == IF tx[p].view = {} THEN Committed(p) ELSE CHOOSE db \in tx[p].view : TRUE

\* The batch row that p's UPDATE finds: its own, else as of now, except that
\* PostgreSQL looks for it in the snapshot first.
RowFor(p) ==
  IF tx[p].row # {} THEN CHOOSE r \in tx[p].row : TRUE
  ELSE IF engine = "refuses" THEN Sees(p).batch ELSE batch

Owned(p) == p \notin Ambient

\* "manual" is "stale" where callers open their transaction by turning autocommit off,
\* which is no atomic block; nothing else tells the two from each other.
Manual(p) == engine = "manual" /\ p \in Ambient

Free(p) == \A q \in Processes \ {p} : tx[q].row = {}

\* A serialization failure: the row was committed anew since the snapshot.
Refused(p) == engine = "refuses" /\ tx[p].changed /\ tx[p].row = {}

\* Nobody changes a row that p has locked.
Writes(p, r) == tx' = [tx EXCEPT ![p].row = {r}, ![p].changed = FALSE]

Goes(p, step) == call' = [call EXCEPT ![p].at = step]

Ends(p) == call' = [call EXCEPT ![p] = NoCall]

\* PostgreSQL's open snapshots are behind when the batch row is written anew.
Behind(q) == [tx[q] EXCEPT !.changed = @ \/ (engine = "refuses" /\ tx[q].view # {})]

\* p's transaction commits the batch row as r.
CommitRow(p, r) ==
  /\ batch' = r
  /\ tx' = [q \in Processes |-> IF q = p THEN NoTx ELSE Behind(q)]

\* p's transaction commits, with what it inserted.
Commit(p) ==
  /\ IF tx[p].row = {} THEN batch' = batch /\ tx' = [tx EXCEPT ![p] = NoTx]
     ELSE CommitRow(p, RowFor(p))
  /\ task' = [t \in Tasks |-> IF t \in tx[p].tasks THEN "pending" ELSE task[t]]

RollsBack(p) == tx' = [tx EXCEPT ![p] = NoTx]

\* _reissue: again from the top while attempts are left; the caller of an
\* ambient transaction gets the error, and its transaction is gone.
AttemptsLeft(p) == call[p].tries + 1 < MAX_SERIALIZATION_ATTEMPTS

Reissue(p, step) ==
  /\ RollsBack(p)
  /\ IF Owned(p) /\ AttemptsLeft(p)
     THEN call' = [call EXCEPT ![p].at = step, ![p].tries = @ + 1]
     ELSE Ends(p)
-----------------------------------------------------------------------------
(* Callers: create() was called once, before; then add() and seal().       *)

\* A caller opens its own transaction, and reads something in it.
Begin(c) ==
  /\ c \in Ambient /\ ~tx[c].open
  /\ batch.status = "open"
  /\ tx' = [tx EXCEPT ![c].open = TRUE, ![c].view = IF InSnapshot THEN {Committed(c)} ELSE {}]
  /\ UNCHANGED <<engine, watched, rows, call, report, mishaps, ghosts>>

\* Bound: nobody calls add() or seal() after a batch is sealed, to no effect.
Ready(c) ==
  /\ call[c].at = "idle"
  /\ IF Owned(c) THEN batch.status = "open" ELSE tx[c].open

\* add(): the enqueue.  A deduplicated unique enqueue answers with a pending
\* task that exists already.  (Owned, its transaction begins here.)
Enqueue(c, t) ==
  /\ Ready(c) \/ (call[c].at = "retrying" /\ call[c].member = t)
  /\ \/ task[t] = "absent" /\ \A p \in Callers : t \notin tx[p].tasks
     \/ task[t] = "pending"
     \/ t \in tx[c].tasks
  /\ LET fresh == task[t] = "absent" /\ t \notin tx[c].tasks IN
       /\ call' = [call EXCEPT ![c].at = "claiming", ![c].member = t, ![c].fresh = fresh]
       /\ tx' = [tx EXCEPT ![c].open = TRUE,
                           ![c].tasks = IF fresh THEN @ \cup {t} ELSE @,
                           ![c].view = IF @ = {} THEN Snapshot(c) ELSE @]
  /\ UNCHANGED <<engine, watched, rows, report, mishaps, ghosts>>

\* add() raises: its block rolls back, to the savepoint in a caller's transaction.
AddRaises(c) ==
  /\ Ends(c)
  /\ IF Owned(c) THEN RollsBack(c)
     ELSE tx' = [tx EXCEPT ![c].tasks = IF call[c].fresh THEN @ \ {call[c].member} ELSE @]

\* The no-op UPDATE under OPEN, which locks the batch row; else BatchSealed.
ClaimOpen(c) ==
  /\ call[c].at = "claiming"
  /\ Free(c)
  /\ IF RowFor(c).status = "open" /\ Refused(c) THEN Reissue(c, "retrying")
     ELSE IF RowFor(c).status = "open" THEN /\ Writes(c, RowFor(c))
          /\ call' = [call EXCEPT ![c].at = "inserting", ![c].tries = 0]
     ELSE AddRaises(c)
  /\ UNCHANGED <<engine, watched, rows, report, mishaps, ghosts>>

\* The membership INSERT; a task that is a member already is refused by the
\* unique index.  The transaction commits here, unless it is the caller's.
Insert(c) ==
  /\ call[c].at = "inserting"
  /\ LET t == call[c].member IN
       IF t \in members \cup tx[c].members
       THEN AddRaises(c) /\ UNCHANGED <<rows, ghosts>>
       ELSE IF Owned(c)
       THEN /\ Commit(c) /\ Ends(c)
            /\ members' = members \cup {t}
            /\ UNCHANGED ghosts
       ELSE /\ tx' = [tx EXCEPT ![c].members = @ \cup {t}]
            /\ Ends(c)
            /\ UNCHANGED <<rows, ghosts>>
  /\ UNCHANGED <<engine, watched, report, mishaps>>

\* seal(): its first statement is issued.
Seal(c) ==
  /\ Ready(c)
  /\ Goes(c, "sealing")
  /\ tx' = [tx EXCEPT ![c].open = TRUE, ![c].view = IF @ = {} THEN Snapshot(c) ELSE @]
  /\ UNCHANGED <<engine, watched, rows, report, mishaps, ghosts>>

\* The status write locks the row; seal() is not reissued.  A refusal because
\* nothing schedules the reconciler rolls the write back.
WriteSealed(c) ==
  /\ call[c].at = "sealing"
  /\ Free(c)
  /\ \/ /\ RowFor(c).status = "open" /\ ~Refused(c)
        /\ Writes(c, [RowFor(c) EXCEPT !.status = "sealed"])
        /\ Goes(c, "counting")
     \/ /\ RowFor(c).status = "open" /\ Refused(c)
        /\ RollsBack(c) /\ Ends(c)
     \/ /\ RowFor(c).status # "open" \/ ~Refused(c)  \* BatchSealed, or the refusal
        /\ IF Owned(c) THEN RollsBack(c) ELSE UNCHANGED tx
        /\ Ends(c)
  /\ UNCHANGED <<engine, watched, rows, report, mishaps, ghosts>>

\* _count_members: a current read, plain where nothing was read before and locking
\* in an atomic block of the caller's.  PostgreSQL's answers from the snapshot; so does
\* the plain one of a caller that turned autocommit off, and has read before.
MembersSeen_Plain(c) == Sees(c).members
MembersSeen(c) == IF engine = "refuses" \/ Manual(c) THEN Sees(c).members ELSE members

Unseen(c) == IF Manual(c) THEN members \ (Sees(c).members \cup tx[c].members) ELSE {}

CountMembers(c) ==
  /\ call[c].at = "counting"
  /\ LET total == Cardinality(MembersSeen(c) \cup tx[c].members)
         row   == [RowFor(c) EXCEPT !.total = total, !.unseen = Unseen(c)]
     IN  IF Owned(c) THEN CommitRow(c, row) ELSE Writes(c, row) /\ UNCHANGED batch
  /\ Ends(c)
  /\ UNCHANGED <<engine, watched, members, task, report, mishaps, ghosts>>

\* A caller commits its own transaction.
CallerCommits(c) ==
  /\ c \in Ambient /\ tx[c].open /\ call[c].at = "idle"
  /\ Commit(c)
  /\ members' = members \cup tx[c].members
  /\ UNCHANGED <<engine, watched, call, report, mishaps, ghosts>>

\* A process dies, its task times out, or a caller rolls back.
Dies(p) ==
  /\ tx[p].open \/ call[p].at # "idle"
  /\ mishaps < MaxMishaps[engine] /\ mishaps' = mishaps + 1
  /\ RollsBack(p) /\ Ends(p)
  /\ UNCHANGED <<engine, watched, rows, report, ghosts>>

\* An UPDATE by hand finishes an abandoned build: SEALED, and no total.
SealByHand ==
  /\ batch.status = "open"
  /\ \A q \in Processes : tx[q].row = {}
  /\ batch' = [batch EXCEPT !.status = "sealed"]
  /\ tx' = [q \in Processes |-> Behind(q)]
  /\ UNCHANGED <<engine, watched, members, task, call, report, mishaps, ghosts>>
-----------------------------------------------------------------------------
(* The reconciler: _reconcile and _complete_if_finished.                   *)

\* The cheap filter, outside any transaction.
Filter(r) ==
  /\ call[r].at = "idle" /\ ~watched
  /\ batch.status = "sealed"
  /\ ~MemberTaskCounts.pending
  /\ Goes(r, "asking")
  /\ UNCHANGED <<engine, watched, rows, tx, report, mishaps, ghosts>>

\* The compare-and-set is issued, and its snapshot taken.
Ask(r) ==
  /\ call[r].at = "asking"
  /\ Goes(r, "winning")
  /\ tx' = [tx EXCEPT ![r].open = TRUE, ![r].view = Snapshot(r)]
  /\ reopened' = [reopened EXCEPT ![r] = {}]
  /\ UNCHANGED <<engine, watched, rows, report, mishaps, settledOnce, succeeded>>

\* SEALED to COMPLETE, once the row's lock is free.
Won(r) == RowFor(r).status = "sealed"

Win(r) ==
  /\ call[r].at = "winning"
  /\ Free(r)
  /\ IF ~Won(r) THEN RollsBack(r) /\ Ends(r)
     ELSE IF Refused(r) THEN Reissue(r, "asking")
     ELSE /\ Writes(r, [RowFor(r) EXCEPT !.status = "complete"])
          /\ call' = [call EXCEPT ![r].at = "recounting", ![r].tries = 0]
  /\ UNCHANGED <<engine, watched, rows, report, mishaps, ghosts>>

\* Members whose outcome nobody recorded, against the frozen total.
Shortfall(total, counted) == IF total > counted THEN total - counted ELSE 0

\* The authoritative counts, read under the row's lock.
StillPending_Unread(tally) == FALSE
StillPending(tally) == tally.pending

Recount(r) ==
  /\ call[r].at = "recounting"
  /\ LET seen  == Sees(r)
         row   == RowFor(r)
         total == IF row.total = None THEN Cardinality(seen.members) ELSE row.total
     IN  IF StillPending(seen.tally)
         THEN RollsBack(r) /\ Ends(r)
         ELSE /\ tx' = [tx EXCEPT ![r].row = {[row EXCEPT !.total = total]}, ![r].view = {}]
              /\ call' = [call EXCEPT ![r].at = "enqueueing", ![r].clean =
                            ~seen.tally.failed /\ Shortfall(total, seen.tally.counted) = 0]
  /\ reopened' = IF engine = "refuses" THEN reopened ELSE [reopened EXCEPT ![r] = {}]
  /\ UNCHANGED <<engine, watched, rows, report, mishaps, settledOnce, succeeded>>

\* The callbacks are enqueued in the same transaction, which commits; or one
\* of them cannot be, and the completion is undone.
UpTo2(n) == IF n = 2 THEN 2 ELSE n + 1

EnqueueCallbacks(r) ==
  /\ call[r].at = "enqueueing"
  /\ CommitRow(r, [RowFor(r) EXCEPT !.completes = UpTo2(@),
                                    !.successes = IF call[r].clean THEN UpTo2(@) ELSE @])
  /\ Ends(r)
  /\ UNCHANGED <<engine, watched, members, task, report, mishaps, ghosts>>

CallbackFails(r) == call[r].at = "enqueueing" /\ Dies(r)
-----------------------------------------------------------------------------
(* The members' rows meanwhile, and progress().                            *)

Moves(t, status) ==
  /\ task' = [task EXCEPT ![t] = status]
  /\ settledOnce' = IF watched /\ status \in Settled THEN settledOnce \cup {t} ELSE settledOnce
  /\ succeeded' = IF status = "successful" THEN succeeded \cup {t} ELSE succeeded
  /\ reopened' = IF status # "pending" THEN reopened
                 ELSE [r \in Reconcilers |-> IF call[r].at \in {"winning", "recounting", "enqueueing"}
                                              THEN reopened[r] \cup {t} ELSE {}]
  /\ UNCHANGED <<engine, watched, batch, members, call, tx, report>>

\* A worker's verdict, the reaper's, or an operator's discard.
Settles(t) ==
  /\ task[t] = "pending"
  /\ \E status \in Settled : Moves(t, status)
  /\ UNCHANGED mishaps

\* A straggler's verdict on a row that is LOST; an operator's discard.
Resolves(t) ==
  /\ \/ task[t] = "lost" /\ \E status \in {"successful", "failed"} : Moves(t, status)
     \/ task[t] = "failed" /\ Moves(t, "lost")
  /\ UNCHANGED mishaps

Retries(t) ==
  /\ task[t] \in {"failed", "lost"}
  /\ mishaps < MaxMishaps[engine] /\ mishaps' = mishaps + 1
  /\ Moves(t, "pending")

Prunes(t) ==
  /\ task[t] \in Settled
  /\ Moves(t, "gone")
  /\ UNCHANGED mishaps

\* progress(): the row, its members while it has no total, their tasks.
ReadRow ==
  /\ report.at = "idle" /\ watched
  /\ report' = [NoReport EXCEPT !.at = IF batch.total = None THEN "members" ELSE "tasks",
                                !.total = batch.total]
  /\ UNCHANGED <<engine, watched, rows, call, tx, mishaps, ghosts>>

ReadMembers ==
  /\ report.at = "members"
  /\ report' = [report EXCEPT !.at = "tasks", !.members = Cardinality(members)]
  /\ UNCHANGED <<engine, watched, rows, call, tx, mishaps, ghosts>>

ReadTasks ==
  /\ report.at = "tasks"
  /\ report' = [report EXCEPT !.at = "answered",
                    !.pending = Cardinality(Pending),
                    !.rows = Cardinality({t \in members : task[t] # "gone"})]
  /\ UNCHANGED <<engine, watched, rows, call, tx, mishaps, ghosts>>

\* BatchProgress.finished.
Denominator(answer) ==
  IF answer.total # None THEN answer.total
  ELSE IF answer.members > answer.rows THEN answer.members ELSE answer.rows
Finished == Denominator(report) - report.pending

Answered ==
  /\ report.at = "answered"
  /\ report' = NoReport
  /\ UNCHANGED <<engine, watched, rows, call, tx, mishaps, ghosts>>
-----------------------------------------------------------------------------
Init ==
  /\ engine \in Engines
  \* Reconcilers rest where progress() is called, which reads nothing of theirs,
  \* each time in a transaction of its own.
  /\ watched \in BOOLEAN /\ (watched => engine = "current")
  /\ batch = [status |-> "open", total |-> None, unseen |-> {}, completes |-> 0, successes |-> 0]
  /\ members = {}
  /\ task = [t \in Tasks |-> "absent"]
  /\ call = [p \in Processes |-> NoCall]
  /\ tx = [p \in Processes |-> NoTx]
  /\ report = NoReport
  /\ mishaps = 0
  /\ settledOnce = {} /\ succeeded = {}
  /\ reopened = [r \in Reconcilers |-> {}]

CallerStep(c) ==
  \/ \E t \in Tasks : Enqueue(c, t)
  \/ ClaimOpen(c) \/ Insert(c)
  \/ Seal(c) \/ WriteSealed(c) \/ CountMembers(c)
  \/ Begin(c) \/ CallerCommits(c)

ReconcilerStep(r) ==
  Filter(r) \/ Ask(r) \/ Win(r) \/ Recount(r) \/ EnqueueCallbacks(r) \/ CallbackFails(r)

Next ==
  \/ \E c \in Callers : CallerStep(c)
  \/ SealByHand
  \/ \E r \in Reconcilers : ReconcilerStep(r)
  \/ \E p \in Processes : Dies(p)
  \/ \E t \in Tasks : Settles(t) \/ Resolves(t) \/ Retries(t) \/ Prunes(t)
  \/ ReadRow \/ ReadMembers \/ ReadTasks \/ Answered

Spec == Init /\ [][Next]_vars
-----------------------------------------------------------------------------
(* Properties.                                                             *)

\* What seal() stored is the membership, whatever add()s were in flight and however
\* old its caller's snapshot was (seal, _claim_open, _count_members).  The exception: a
\* caller that turned autocommit off, on MySQL at REPEATABLE READ, misses those added
\* since it first read, and no others.
TotalIsTheMembership ==
  batch.total # None =>
    /\ batch.status # "open"
    /\ batch.total = Cardinality(members \ batch.unseen)
    /\ batch.unseen # {} => engine = "manual"

\* Racing reconcilers, reissues, crashes and failed enqueues leave one
\* on_complete task, and at most one on_success, with a COMPLETE row and none
\* without (_complete_once).
CallbacksAreEnqueuedOnce ==
  /\ batch.completes = IF batch.status = "complete" THEN 1 ELSE 0
  /\ batch.successes <= batch.completes

\* A batch completes over a pending member only when an operator retried it after
\* the counts under the row's lock were read (_complete_if_finished).  on_success
\* goes out only if every member has been SUCCESSFUL: a LOST, discarded or pruned
\* row is not a success, whoever sealed the batch.  As many as seal() did not see may be
\* missing: it takes that many outcomes for granted.
EarnsItsCompletion ==
  batch.status # "complete" /\ batch'.status = "complete" =>
    /\ \E r \in Reconcilers :
         call[r].at = "enqueueing" /\ Pending \subseteq reopened[r]
    /\ batch'.successes > 0 =>
         Cardinality(members' \ succeeded') <= Cardinality(batch'.unseen)

CompletionIsEarned == [][EarnsItsCompletion]_vars

\* progress() counts no member as finished that has never been settled, though
\* it reads members and their tasks in different statements (Batch.progress).
ProgressNeverRunsAhead ==
  report.at = "answered" => Finished <= Cardinality(settledOnce \cap members)

\* The numbers that callers are told are those of the membership, and the callbacks
\* go out once.
BatchTellsTheTruth ==
  TotalIsTheMembership /\ ProgressNeverRunsAhead /\ CallbacksAreEnqueuedOnce
=============================================================================
