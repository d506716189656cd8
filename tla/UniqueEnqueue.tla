---------------------------- MODULE UniqueEnqueue ----------------------------
(***************************************************************************)
(* oxpull's unique enqueue, for one uniqueness key: the callers of         *)
(* OxpullBackend._enqueue_unique, the row of OxpullUniqueLock they compete *)
(* for, and the tasks it has named, which workers, operators and ox_prune  *)
(* move meanwhile.  The primary key decides who inserts; a loser returns   *)
(* the pending holder's result, or releases the lock of a holder that is   *)
(* no longer pending and tries again.                                      *)
(*                                                                         *)
(* A caller enqueues in transactions of its own or inside one that it      *)
(* opened before (Ambient).  Where the engine reads from snapshots, plain  *)
(* reads of a transaction answer from what was committed at its first one. *)
(***************************************************************************)
EXTENDS Naturals

CONSTANTS
  Callers,      \* the processes that enqueue the key
  Ambient,      \* those that do it inside a transaction they opened
  Tasks,        \* the ids a task row of this key may have
  Engines,      \* the databases, as records [vendor, snapshots]
  MAX_UNIQUE_ATTEMPTS,
  None,         \* no lock row
  Unnamed,      \* a lock row with no task id yet
  Same          \* a transaction has not written the lock row

ASSUME UniqueAssumption ==
  /\ Ambient \subseteq Callers
  /\ Engines \subseteq [vendor : {"postgresql", "mysql", "sqlite"}, snapshots : BOOLEAN]
  /\ MAX_UNIQUE_ATTEMPTS \in Nat \ {0}
  /\ {None, Unnamed, Same} \cap Tasks = {}
  /\ None # Unnamed /\ None # Same /\ Unnamed # Same

VARIABLES
  engine,    \* the database of this behaviour
  lock,      \* the committed lock row: the task it names, or None
  status,    \* the committed task rows
  call,      \* per caller, its call to enqueue
  tx,        \* per caller, what its transaction has read, written and locked
  \* No part of the code, and read by no action:
  retried,   \* pending tasks that an operator retried
  reopened,  \* those retried when the lock did not name them
  live,      \* per caller, the tasks that were pending during its call
  disturbed, \* callers that something got in the way of, in this pass
  calm       \* per caller, the passes it has just lost undisturbed, up to 2

rows == <<lock, status>>
vars == <<engine, lock, status, call, tx, retried, reopened, live, disturbed, calm>>
-----------------------------------------------------------------------------
Statuses == {"absent", "pending", "settled", "gone"}

\* pending is READY or RUNNING; gone is pruned.
Database == [lock : Tasks \cup {None}, status : [Tasks -> Statuses]]

Call == [at     : {"idle", "inserting", "enqueueing", "reading", "deciding", "checking",
                   "asking", "locking", "deleting", "answered", "raced", "gave up"},
         tries  : 0 .. MAX_UNIQUE_ATTEMPTS,
         holder : Tasks \cup {None}]

\* key: what it made of the lock row.  A task id there is a task it inserted.
\* view: its snapshot, once it has one; changed and keyChanged: the rows that
\* were committed anew since.  writer: it is SQLite's one writer.
Transaction == [key        : Tasks \cup {None, Unnamed, Same},
                rows       : SUBSET Tasks,
                writer     : BOOLEAN,
                view       : SUBSET Database,
                changed    : SUBSET Tasks,
                keyChanged : BOOLEAN]

NoCall == [at |-> "idle", tries |-> 0, holder |-> None]
NoTx == [key |-> Same, rows |-> {}, writer |-> FALSE, view |-> {},
         changed |-> {}, keyChanged |-> FALSE]

TypeOK ==
  /\ engine \in Engines
  /\ lock \in Tasks \cup {None}
  /\ status \in [Tasks -> Statuses]
  /\ call \in [Callers -> Call]
  /\ tx \in [Callers -> Transaction]
  /\ retried \in SUBSET Tasks
  /\ reopened \in SUBSET Tasks
  /\ live \in [Callers -> SUBSET Tasks]
  /\ disturbed \in SUBSET Callers
  /\ calm \in [Callers -> 0 .. 2]
-----------------------------------------------------------------------------
(* What a transaction reads, and what waits for it.                        *)

Committed == [lock |-> lock, status |-> status]

RowLocks == engine.vendor # "sqlite"

\* Plain reads of c answer from a snapshot older than the statement.
InSnapshot(c) == c \in Ambient /\ engine.snapshots

\* PostgreSQL refuses to lock or delete a row changed since the snapshot.
Refuses == engine.vendor = "postgresql" /\ engine.snapshots

ReadsFrom(c) == IF tx[c].view = {} THEN {Committed} ELSE tx[c].view

KeyIn(c, db) == IF tx[c].key = Same THEN db.lock ELSE tx[c].key
StatusIn(c, db, t) == IF tx[c].key = t THEN "pending" ELSE db.status[t]

\* c's next statement waits: for another's uncommitted lock row, for a row
\* another has locked, or for SQLite's writer.
Waits(c) ==
  \E u \in Callers \ {c} :
    \/ call[c].at \in {"inserting", "deleting"} /\ (tx[u].key # Same \/ tx[u].writer)
    \/ call[c].at = "locking" /\ call[c].holder \in tx[u].rows

\* Nothing keeps a worker, an operator or ox_prune from writing the row of t.
Writable(t) == \A c \in Callers : t \notin tx[c].rows /\ ~tx[c].writer

\* SQLITE_BUSY_SNAPSHOT: a reader asks to write after others have written.
BusySnapshot(c) ==
  /\ engine.vendor = "sqlite"
  /\ call[c].at \in {"inserting", "deleting"}
  /\ ~tx[c].writer
  /\ tx[c].keyChanged \/ tx[c].changed # {}

\* An open snapshot is behind on the rows committed now.  InnoDB does not mind.
Behind(u, ts, key) ==
  IF tx[u].view = {} \/ engine.vendor = "mysql" THEN tx[u]
  ELSE [tx[u] EXCEPT !.changed = @ \cup ts, !.keyChanged = @ \/ key]

\* c's transaction commits, and goes on as next.
Commits(c, next, ts, key) ==
  tx' = [u \in Callers |-> IF u = c THEN next ELSE Behind(u, ts, key)]

CommitsRow(t) == tx' = [u \in Callers |-> Behind(u, {t}, FALSE)]
-----------------------------------------------------------------------------
(* A call.                                                                 *)

Goes(c, step) == call' = [call EXCEPT ![c].at = step]

\* A transaction of the call's own ends with the block; a caller's stays.
Kept(c) == IF c \in Ambient THEN tx[c] ELSE NoTx
BlockEnds(c) == tx' = [tx EXCEPT ![c] = Kept(c)]

\* The loop's next pass, if there is one.
NextPass(c) ==
  call' = [call EXCEPT ![c] =
             [at |-> IF call[c].tries + 1 = MAX_UNIQUE_ATTEMPTS THEN "gave up"
                     ELSE "inserting",
              tries |-> call[c].tries + 1,
              holder |-> None]]

Answer(c) == Goes(c, "answered")

\* UniqueEnqueueRace.  The way back to the savepoint may give up the lock on
\* the holder's row; PostgreSQL's does, unless the caller had it before.
Race(c) ==
  /\ call' = [call EXCEPT ![c].at = "raced", ![c].holder = None]
  /\ \E locked \in {tx[c].rows, tx[c].rows \ {call[c].holder}} :
       tx' = [tx EXCEPT ![c] = IF c \in Ambient THEN [@ EXCEPT !.rows = locked] ELSE NoTx]
  /\ UNCHANGED <<engine, rows>>

\* SQLSTATE 40001: the snapshot is a caller's to retry, or this call's own.
SerializationFailure(c) ==
  /\ IF c \in Ambient THEN Race(c)
     ELSE NextPass(c) /\ BlockEnds(c) /\ UNCHANGED <<engine, rows>>

\* The caller's transaction, before the enqueue: it has read something.
CallerReads(c) ==
  /\ c \in Ambient
  /\ call[c].at = "idle"
  /\ tx[c] = NoTx
  /\ engine.snapshots \/ ~RowLocks
  /\ tx' = [tx EXCEPT ![c].view = {Committed}]
  /\ UNCHANGED <<engine, rows, call>>

\* PostgreSQL's snapshot begins with the first statement, MySQL's with the
\* first plain read.
Begin(c) ==
  /\ call[c].at = "idle"
  /\ Goes(c, "inserting")
  /\ tx' = [tx EXCEPT ![c].view = IF InSnapshot(c) /\ Refuses THEN ReadsFrom(c) ELSE @]
  /\ UNCHANGED <<engine, rows>>

\* The INSERT of the lock row, under its savepoint.
Insert(c) ==
  /\ call[c].at = "inserting"
  /\ ~Waits(c)
  /\ ~BusySnapshot(c)
  /\ IF KeyIn(c, Committed) = None
     THEN /\ Goes(c, "enqueueing")
          /\ tx' = [tx EXCEPT ![c].key = Unnamed, ![c].writer = ~RowLocks]
     ELSE /\ Goes(c, "reading")
          /\ tx' = [tx EXCEPT ![c] = [Kept(c) EXCEPT !.writer = ~RowLocks /\ c \in Ambient]]
  /\ UNCHANGED <<engine, rows>>

\* The task row, and the lock row named for it.  In a transaction of the
\* call's own they commit.

Enqueue(c) ==
  /\ call[c].at = "enqueueing"
  /\ \E t \in Tasks :
       /\ status[t] = "absent"
       /\ \A u \in Callers : tx[u].key # t
       /\ IF c \in Ambient
          THEN tx' = [tx EXCEPT ![c].key = t] /\ UNCHANGED rows
          ELSE /\ lock' = t
               /\ status' = [status EXCEPT ![t] = "pending"]
               /\ Commits(c, NoTx, {t}, TRUE)
  /\ call' = [call EXCEPT ![c] = NoCall]
  /\ UNCHANGED engine

\* The lock row is read first, its task second.
ReadLock(c) ==
  /\ call[c].at = "reading"
  /\ \E db \in ReadsFrom(c) :
       LET next == IF engine.snapshots /\ RowLocks THEN [tx[c] EXCEPT !.view = {db}]
                   ELSE tx[c]
       IN  IF KeyIn(c, db) = None
           THEN /\ NextPass(c)
                /\ tx' = [tx EXCEPT ![c] = IF c \in Ambient THEN next ELSE NoTx]
           ELSE /\ call' = [call EXCEPT ![c].at = "deciding", ![c].holder = KeyIn(c, db)]
                /\ tx' = [tx EXCEPT ![c] = next]
  /\ UNCHANGED <<engine, rows>>

\* Fault: the holder is read with a lock whether or not it is live.
ReadHolder_Locking(c) ==
  /\ call[c].at = "deciding"
  /\ Goes(c, IF RowLocks THEN "locking" ELSE "deleting")
  /\ UNCHANGED <<engine, rows, tx>>

\* Fault: what a snapshot says is believed.
ReadHolder_Unchecked(c) ==
  /\ call[c].at = "deciding"
  /\ \E db \in ReadsFrom(c) :
       LET found == StatusIn(c, db, call[c].holder)
       IN  IF found = "pending"
           THEN Answer(c) /\ BlockEnds(c)
           ELSE /\ Goes(c, IF RowLocks /\ found # "gone" THEN "locking" ELSE "deleting")
                /\ UNCHANGED tx
  /\ UNCHANGED <<engine, rows>>

\* A live holder is read without a lock, and answers the call unless the read
\* is from a caller's snapshot.
ReadHolder(c) ==
  /\ call[c].at = "deciding"
  /\ \E db \in ReadsFrom(c) :
       LET found == StatusIn(c, db, call[c].holder)
       IN  IF found = "pending"
           THEN IF InSnapshot(c) /\ RowLocks
                THEN /\ Goes(c, IF Refuses THEN "checking" ELSE "asking")
                     /\ UNCHANGED tx
                ELSE Answer(c) /\ BlockEnds(c)
           ELSE /\ Goes(c, IF RowLocks /\ found # "gone" THEN "locking" ELSE "deleting")
                /\ UNCHANGED tx
  /\ UNCHANGED <<engine, rows>>

\* PostgreSQL's FOR SHARE NOWAIT, rolled back at once: a row changed since the
\* snapshot is refused.  Granted, or held by another who has not committed,
\* the row the snapshot shows is the last committed one.
CheckHolder(c) ==
  /\ call[c].at = "checking"
  /\ IF call[c].holder \in tx[c].changed THEN Goes(c, "asking") ELSE Answer(c)
  /\ UNCHANGED <<engine, rows, tx>>

\* PostgreSQL: the holder and the key's lock, read once on a connection of
\* their own.  That connection may fail.
ReadFresh(c) ==
  /\ call[c].at = "asking"
  /\ Refuses
  /\ \/ status[call[c].holder] = "pending" /\ lock = call[c].holder /\ Answer(c)
     \/ Goes(c, "raced")
  /\ UNCHANGED <<engine, rows, tx>>

\* MySQL: the committed status, read on a connection of its own, which sees no
\* row this transaction inserted.
ReadCommitted(c) ==
  /\ call[c].at = "asking"
  /\ ~Refuses
  /\ IF status[call[c].holder] = "pending" THEN Answer(c) ELSE Goes(c, "locking")
  /\ UNCHANGED <<engine, rows, tx>>

\* The release path's FOR UPDATE, a read of the committed row.
LockHolder(c) ==
  LET t == call[c].holder
      found == StatusIn(c, Committed, t)
  IN
  /\ call[c].at = "locking"
  /\ ~Waits(c)
  /\ IF Refuses /\ t \in tx[c].changed
     THEN SerializationFailure(c)
     ELSE /\ IF found = "pending" THEN Answer(c) ELSE Goes(c, "deleting")
          /\ tx' = [tx EXCEPT ![c] =
                      IF found = "pending" /\ c \notin Ambient THEN NoTx
                      ELSE IF found = "gone" THEN tx[c]
                      ELSE [tx[c] EXCEPT !.rows = tx[c].rows \cup {t}]]
          /\ UNCHANGED <<engine, rows>>

\* Fault: the lock row goes whatever it names by now.
Released_Unpinned(c) == KeyIn(c, Committed) # None

\* The DELETE is pinned to the generation inspected and to its task's status.
Released(c) ==
  /\ KeyIn(c, Committed) = call[c].holder
  /\ StatusIn(c, Committed, call[c].holder) # "pending"

DeleteLock(c) ==
  /\ call[c].at = "deleting"
  /\ ~Waits(c)
  /\ ~BusySnapshot(c)
  /\ IF Refuses /\ tx[c].keyChanged
     THEN SerializationFailure(c)
     ELSE /\ NextPass(c)
          /\ IF Released(c) /\ c \notin Ambient
             THEN lock' = None /\ Commits(c, NoTx, {}, TRUE)
             ELSE /\ tx' = [tx EXCEPT ![c] =
                              IF Released(c) THEN [@ EXCEPT !.key = None] ELSE Kept(c)]
                  /\ UNCHANGED lock
          /\ UNCHANGED <<engine, status>>

\* The database stops waiting, or SQLite will not make a writer of a reader.
GivesUpWaiting(c) ==
  /\ Waits(c) \/ BusySnapshot(c)
  /\ Race(c)

\* MySQL rolls back a deadlock victim, or PostgreSQL's SERIALIZABLE refuses
\* the lock's UPDATE: a transaction of the call's own is reissued.
Reissue(c) ==
  /\ c \notin Ambient
  /\ \/ engine.vendor = "mysql" /\ call[c].at \in {"inserting", "enqueueing", "locking", "deleting"}
     \/ Refuses /\ call[c].at = "enqueueing"
  /\ NextPass(c)
  /\ BlockEnds(c)
  /\ UNCHANGED <<engine, rows>>

\* The same refusal inside a caller's transaction, which goes back to the
\* savepoint: a lock row it deleted stays deleted.
RefusedUpdate(c) ==
  /\ c \in Ambient
  /\ Refuses
  /\ call[c].at = "enqueueing"
  /\ Goes(c, "raced")
  /\ tx' = [tx EXCEPT ![c].key = IF lock = None THEN Same ELSE None]
  /\ UNCHANGED <<engine, rows>>

\* The caller has the result, or the exception.
End(c) ==
  /\ call[c].at \in {"answered", "raced", "gave up"}
  /\ call' = [call EXCEPT ![c] = NoCall]
  /\ UNCHANGED <<engine, rows, tx>>

\* The caller's transaction commits, with what its enqueue wrote.
CallerCommits(c) ==
  /\ c \in Ambient
  /\ call[c].at = "idle"
  /\ tx[c] # NoTx
  /\ lock' = KeyIn(c, Committed)
  /\ status' = [t \in Tasks |-> StatusIn(c, Committed, t)]
  /\ Commits(c, NoTx, {tx[c].key} \cap Tasks, tx[c].key # Same)
  /\ UNCHANGED <<engine, call>>

\* The transaction rolls back and the call, if there is one, raises: another
\* error, the caller's own choice, or the death of its process.
Abort(c) ==
  /\ call[c].at # "idle" \/ tx[c] # NoTx
  /\ call' = [call EXCEPT ![c] = NoCall]
  /\ tx' = [tx EXCEPT ![c] = NoTx]
  /\ UNCHANGED <<engine, rows>>
-----------------------------------------------------------------------------
(* Everybody else.                                                         *)

\* A claim, a renewal, a requeue: another version of the row.
Touch(t) ==
  /\ status[t] \in {"pending", "settled"}
  /\ Writable(t)
  /\ CommitsRow(t)
  /\ UNCHANGED <<engine, rows, call, retried, reopened>>

\* An outcome, a discard, or the reaper's LOST.
Settle(t) ==
  /\ status[t] = "pending"
  /\ Writable(t)
  /\ status' = [status EXCEPT ![t] = "settled"]
  /\ retried' = retried \ {t}
  /\ reopened' = reopened \ {t}
  /\ CommitsRow(t)
  /\ UNCHANGED <<engine, lock, call>>

\* An operator retries a settled task; no enqueue, so no lock row.
Retry(t) ==
  /\ status[t] = "settled"
  /\ Writable(t)
  /\ status' = [status EXCEPT ![t] = "pending"]
  /\ retried' = retried \cup {t}
  /\ reopened' = IF lock = t THEN reopened ELSE reopened \cup {t}
  /\ CommitsRow(t)
  /\ UNCHANGED <<engine, lock, call>>

\* ox_prune.
PruneTask(t) ==
  /\ status[t] = "settled"
  /\ Writable(t)
  /\ status' = [status EXCEPT ![t] = "gone"]
  /\ CommitsRow(t)
  /\ UNCHANGED <<engine, lock, call, retried, reopened>>

\* oxpull_prune, whose DELETE asks again whether the lock is stale.
PruneLock ==
  /\ lock # None
  /\ status[lock] # "pending"
  /\ \A c \in Callers : tx[c].key = Same /\ ~tx[c].writer
  /\ lock' = None
  /\ tx' = [u \in Callers |-> Behind(u, {}, TRUE)]
  /\ UNCHANGED <<engine, status, call, retried, reopened>>
-----------------------------------------------------------------------------
Init ==
  /\ engine \in Engines
  /\ lock = None
  /\ status = [t \in Tasks |-> "absent"]
  /\ call = [c \in Callers |-> NoCall]
  /\ tx = [c \in Callers |-> NoTx]
  /\ retried = {}
  /\ reopened = {}
  /\ live = [c \in Callers |-> {}]
  /\ disturbed = {}
  /\ calm = [c \in Callers |-> 0]

CallStep(c) ==
  \/ CallerReads(c) \/ Begin(c) \/ Insert(c) \/ Enqueue(c)
  \/ ReadLock(c) \/ ReadHolder(c) \/ CheckHolder(c) \/ ReadFresh(c) \/ ReadCommitted(c)
  \/ LockHolder(c) \/ DeleteLock(c) \/ GivesUpWaiting(c) \/ RefusedUpdate(c)
  \/ End(c) \/ CallerCommits(c) \/ Abort(c)

\* What the properties remember of a step, while the call goes on.  The passes of
\* a call in an older snapshot, which reads the same lock again, are not counted.
Remembers(inTheWay) ==
  LET open == {c \in Callers : call'[c].at \notin {"idle", "raced", "gave up"}}
      lost == {c \in Callers : call'[c].tries > call[c].tries}
      upset == {c \in disturbed \cup inTheWay : call[c].at # "idle" /\ ~InSnapshot(c)}
  IN  /\ live' = [c \in Callers |->
                    IF c \in open THEN live[c] \cup {t \in Tasks : status'[t] = "pending"}
                    ELSE {}]
      /\ disturbed' = {c \in upset \ lost : c \in open /\ call'[c].at # "answered"}
      /\ calm' = [c \in Callers |->
                    IF call'[c].at = "idle" \/ (c \in lost /\ c \in upset) THEN 0
                    ELSE IF c \in lost /\ calm[c] < 2 /\ ~InSnapshot(c) THEN calm[c] + 1
                    ELSE calm[c]]

Next ==
  \/ \E c \in Callers :
       /\ CallStep(c)
       /\ UNCHANGED <<retried, reopened>>
       /\ Remembers(IF lock' = lock THEN {} ELSE Callers \ {c})
  \/ \E c \in Callers :
       Reissue(c) /\ UNCHANGED <<retried, reopened>> /\ Remembers({c})
  \/ \E t \in Tasks :
       /\ Touch(t) \/ Settle(t) \/ PruneTask(t)
       /\ Remembers({c \in Callers : call[c].holder = t})
  \/ (PruneLock \/ \E t \in Tasks : Retry(t)) /\ Remembers(Callers)

Spec == Init /\ [][Next]_vars
-----------------------------------------------------------------------------
(* Properties.                                                             *)

\* The key is held while its task is READY or RUNNING: a pending task is the
\* one the lock names, and so the only one, unless an operator retried it
\* after its lock was released.  A retry that comes before the release keeps it.
PendingTasksHoldTheKey ==
  \A t \in Tasks : status[t] = "pending" /\ t \notin reopened => lock = t

\* A duplicate is never handed the result of a task that had finished when the
\* enqueue began, however old the snapshot it reads from: the task was pending
\* at some moment of the call, or this very transaction enqueued it.
AnswersWerePending ==
  \A c \in Callers :
    call[c].at = "answered" => call[c].holder \in live[c] \cup {tx[c].key}

\* Both: a key names the task that is pending under it, and whoever asks is told so.
KeyIsThePendingTask == PendingTasksHoldTheKey /\ AnswersWerePending

\* But for calls inside a snapshot older than them, no two passes in a row come
\* to nothing unless another call took or released the lock, an operator retried a
\* task, the holder's row changed under the pass, or the server rolled it back.
\* A stale lock costs the call that meets it one pass, and not UniqueEnqueueRace.
LostPassesWereDisturbed ==
  \A c \in Callers : calm[c] < 2

\* An enqueue keeps no worker waiting for a live holder's row, but for one a
\* retry has just brought back.
LiveHoldersAreNotLocked ==
  \A c \in Callers : \A t \in tx[c].rows : status[t] = "pending" => t \in retried

\* Both: a call costs neither itself nor a worker more than the race it met.
CallsAreNotHeldUp == LostPassesWereDisturbed /\ LiveHoldersAreNotLocked
=============================================================================
