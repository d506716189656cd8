------------------------- MODULE UniqueEnqueueProofs -------------------------
(***************************************************************************)
(* What the key of a unique enqueue promises, proved for any callers,      *)
(* tasks and databases.  A transaction that has written the lock row keeps *)
(* everybody else from it, and keeps the task it names as it found it; a   *)
(* snapshot knows which rows it is behind on; and a pass that nothing got  *)
(* in the way of still finds the key as it read it.                        *)
(***************************************************************************)
EXTENDS UniqueEnqueue, TLAPS

\* The steps of a call that know a holder.
Holding == {"deciding", "checking", "asking", "locking", "deleting", "answered"}

\* A transaction that has written the lock row: what the row names is not pending and
\* does not become so, and a task it enqueued is not there for the others yet.
KeyOK(c) ==
  /\ tx[c].key # Same =>
       \/ lock = None
       \/ /\ status[lock] # "pending"
          /\ status[lock] = "gone" \/ lock \in tx[c].rows \/ tx[c].writer
  /\ tx[c].key \in Tasks => status[tx[c].key] = "absent"
  /\ tx[c].key = None => lock # None
  /\ tx[c].key = Unnamed <=> call[c].at = "enqueueing"
  /\ c \notin Ambient => tx[c].key \in {Same, Unnamed}

\* SQLite's writer read nothing that has changed since.
WriterOK(c) ==
  /\ tx[c].writer => ~RowLocks /\ tx[c].changed = {} /\ ~tx[c].keyChanged
  /\ ~RowLocks /\ tx[c].key # Same => tx[c].writer
  /\ ~RowLocks /\ c \in Ambient /\ call[c].at \in {"reading", "deciding", "deleting"} =>
       tx[c].writer

\* The holder of a call: a task that is there, or the one its own transaction enqueued.
HolderOK(c) ==
  /\ call[c].at \in {"idle", "inserting", "enqueueing", "reading"} => call[c].holder = None
  /\ call[c].at \in Holding =>
       /\ call[c].holder \in Tasks
       /\ tx[c].key # Same => call[c].holder = tx[c].key
       /\ status[call[c].holder] # "absent" \/ call[c].holder = tx[c].key
  /\ call[c].at = "deciding" =>
       /\ engine.snapshots /\ RowLocks => tx[c].view # {}
       /\ \A db \in tx[c].view : call[c].holder = KeyIn(c, db)
  /\ call[c].at \in {"checking", "asking"} => InSnapshot(c) /\ RowLocks
  /\ call[c].at = "checking" =>
       /\ Refuses /\ tx[c].view # {}
       /\ \A db \in tx[c].view : StatusIn(c, db, call[c].holder) = "pending"
  /\ call[c].at = "locking" =>
       /\ RowLocks
       /\ \/ call[c].holder = tx[c].key
          \/ status[call[c].holder] = "pending" => call[c].holder \in retried
  /\ call[c].at = "deleting" /\ RowLocks =>
       \/ status[call[c].holder] = "gone"
       \/ call[c].holder \in tx[c].rows

\* The rows a transaction has locked: nobody makes a task pending behind it.
RowsOK(c) ==
  \A t \in tx[c].rows :
    /\ status[t] = "pending" => t \in retried
    /\ status[t] # "absent" \/ tx[c].key = t

\* A snapshot is one, and was the database once; it is behind on what it knows to
\* have changed.
ViewOK(c) ==
  /\ tx[c].view = {} => tx[c].changed = {} /\ ~tx[c].keyChanged
  /\ tx[c].view # {} => engine.snapshots \/ ~RowLocks
  /\ c \notin Ambient /\ tx[c].view # {} =>
       RowLocks /\ call[c].at \in {"deciding", "locking", "deleting"}
  /\ c \notin Ambient /\ tx[c].writer => call[c].at = "enqueueing"
  /\ \A db, other \in tx[c].view : db = other
  /\ \A db \in tx[c].view :
       /\ db.lock # None => db.status[db.lock] # "absent"
       /\ \A t \in Tasks : /\ db.status[t] # "absent" => status[t] # "absent"
                           /\ db.status[t] = "gone" => status[t] = "gone"
                           /\ db.status[t] = "settled" /\ status[t] = "pending" => t \in retried
       /\ engine.vendor # "mysql" =>
            /\ \A t \in Tasks \ tx[c].changed : db.status[t] = status[t]
            /\ tx[c].keyChanged \/ db.lock = lock

\* A call that goes on has a pass left.
PassOK(c) ==
  call[c].at \notin {"answered", "raced", "gave up"} => call[c].tries < MAX_UNIQUE_ATTEMPTS

Local(c) == KeyOK(c) /\ WriterOK(c) /\ HolderOK(c) /\ RowsOK(c) /\ ViewOK(c)

\* One transaction at a time has written the lock row, or is SQLite's writer.
Excludes(c, u) ==
  tx[c].key # Same \/ tx[c].writer => tx[u].key = Same /\ ~tx[u].writer

DataInv ==
  /\ TypeOK
  /\ \A c \in Callers : Local(c) /\ PassOK(c)
  /\ \A c, u \in Callers : c # u => Excludes(c, u)
  /\ lock # None => status[lock] # "absent"
  /\ PendingTasksHoldTheKey

\* What a call remembers of tasks that were pending.
LiveOK(c) ==
  /\ call[c].at = "answered" => call[c].holder \in live[c] \cup {tx[c].key}
  /\ c \notin Ambient =>
       \A db \in tx[c].view : \A t \in Tasks : db.status[t] = "pending" => t \in live[c]

\* Nothing got in the way of the pass, and its call is not in an older snapshot.
Undisturbed(c) == c \notin disturbed /\ ~InSnapshot(c)

\* What c would make of the lock row now.
KeyNow(c) == KeyIn(c, Committed)

\* The key is as the pass read it.
KeyIsAsRead(c) ==
  /\ call[c].at = "reading" => KeyNow(c) # None
  /\ call[c].at \in {"deciding", "locking", "deleting"} =>
       /\ call[c].holder = KeyNow(c)
       /\ call[c].holder \notin tx[c].changed \/ c \in Ambient
       /\ ~tx[c].keyChanged \/ c \in Ambient
  /\ call[c].at = "deleting" => StatusIn(c, Committed, call[c].holder) # "pending"

\* So it is for an undisturbed pass, and one that was lost left the key free.
CalmOK(c) ==
  /\ calm[c] < 2
  /\ InSnapshot(c) => calm[c] = 0
  /\ calm[c] = 1 => call[c].at # "idle"
  /\ Undisturbed(c) =>
       /\ KeyIsAsRead(c)
       /\ calm[c] = 1 =>
            \/ call[c].at \in {"enqueueing", "answered", "raced", "gave up"}
            \/ call[c].at = "inserting" /\ KeyNow(c) = None

IInv ==
  /\ DataInv
  /\ \A c \in Callers : LiveOK(c) /\ CalmOK(c)
-----------------------------------------------------------------------------
(* Types.                                                                  *)

\* A transaction later on: the same, and behind on the rows that were committed.
Later(x, y, ts, key) ==
  /\ y \in Transaction
  /\ y.key = x.key /\ y.rows = x.rows /\ y.writer = x.writer /\ y.view = x.view
  /\ x.changed \subseteq y.changed /\ y.changed \subseteq x.changed \cup ts
  /\ x.keyChanged => y.keyChanged
  /\ y.keyChanged => x.keyChanged \/ key
  /\ x.view = {} => y.changed = x.changed /\ y.keyChanged = x.keyChanged
  /\ x.view # {} /\ engine.vendor # "mysql" =>
       ts \subseteq y.changed /\ (key => y.keyChanged)

LEMMA BehindIsLater ==
  ASSUME TypeOK, NEW u \in Callers, NEW ts \in SUBSET Tasks, NEW key \in BOOLEAN
  PROVE  Later(tx[u], Behind(u, ts, key), ts, key)
<1>1. tx[u] \in Transaction
  BY DEF TypeOK
<1>2. PICK x : x = tx[u]
  OBVIOUS
<1>3. x \in Transaction
  BY <1>1, <1>2
<1>4. CASE x.view = {} \/ engine.vendor = "mysql"
  <2>1. Behind(u, ts, key) = x
    BY <1>2, <1>4 DEF Behind
  <2> QED
    BY <1>2, <1>3, <1>4, <2>1 DEF Later
<1>5. CASE ~(x.view = {} \/ engine.vendor = "mysql")
  <2>1. PICK y : y = [x EXCEPT !.changed = x.changed \cup ts, !.keyChanged = x.keyChanged \/ key]
    OBVIOUS
  <2>2. Behind(u, ts, key) = y
    BY <1>2, <1>5, <2>1 DEF Behind
  <2>3. /\ y \in Transaction
        /\ y.key = x.key /\ y.rows = x.rows /\ y.writer = x.writer /\ y.view = x.view
        /\ y.changed = x.changed \cup ts /\ y.keyChanged = (x.keyChanged \/ key)
    BY <1>3, <2>1 DEF Transaction
  <2> QED
    BY <1>2, <1>5, <2>2, <2>3 DEF Later
<1> QED
  BY <1>4, <1>5

LEMMA NoTxIs ==
  /\ NoTx \in Transaction
  /\ NoTx.key = Same /\ NoTx.rows = {} /\ NoTx.writer = FALSE /\ NoTx.view = {}
  /\ NoTx.changed = {} /\ NoTx.keyChanged = FALSE
BY DEF NoTx, Transaction

LEMMA NoCallIs ==
  NoCall \in Call /\ NoCall.at = "idle" /\ NoCall.tries = 0 /\ NoCall.holder = None
BY UniqueAssumption DEF NoCall, Call

LEMMA Types ==
  ASSUME TypeOK, NEW c \in Callers
  PROVE  /\ call[c] \in Call /\ tx[c] \in Transaction
         /\ Committed \in Database
         /\ ReadsFrom(c) \subseteq Database
         /\ Kept(c) \in Transaction
BY NoTxIs DEF TypeOK, Committed, Database, ReadsFrom, Kept, Transaction
-----------------------------------------------------------------------------
(* A caller that does not take the step.                                   *)

\* What another's step may do to the database, and to the transaction of u.
Env(u) ==
  /\ engine' = engine
  /\ call'[u] = call[u]
  /\ \E ts \in SUBSET Tasks, key \in BOOLEAN :
       /\ Later(tx[u], tx'[u], ts, key)
       /\ \A t \in Tasks : status'[t] # status[t] => t \in ts
       /\ lock' # lock => key
       /\ tx[u].writer => ts = {} /\ ~key
  /\ \A t \in Tasks : /\ status[t] # "absent" => status'[t] # "absent"
                      /\ status[t] = "gone" => status'[t] = "gone"
                      /\ status'[t] = "pending" =>
                           \/ status[t] = "absent" \/ t \in retried'
                           \/ status[t] = "pending" /\ t \notin retried
  /\ \A t \in tx[u].rows : status'[t] = status[t]
  /\ tx[u].key # Same => lock' = lock
  /\ tx[u].key \in Tasks => status'[tx[u].key] = status[tx[u].key]

LEMMA EnvLocal ==
  ASSUME DataInv, NEW u \in Callers, Env(u)
  PROVE  Local(u)'
<1>1. PICK x, y : x = tx[u] /\ y = tx'[u]
  OBVIOUS
<1>2. PICK k : k = call[u] /\ k = call'[u]
  BY DEF Env
<1>3. /\ x \in Transaction /\ y \in Transaction /\ k \in Call
      /\ lock \in Tasks \cup {None} /\ (lock # None => status[lock] # "absent")
  BY <1>1, <1>2, Types DEF Env, Later, DataInv, TypeOK
<1>4. PICK ts \in SUBSET Tasks, key \in BOOLEAN :
        /\ Later(x, y, ts, key)
        /\ \A t \in Tasks : status'[t] # status[t] => t \in ts
        /\ lock' # lock => key
        /\ x.writer => ts = {} /\ ~key
  BY <1>1 DEF Env
<1>5. /\ engine' = engine
      /\ \A t \in Tasks : /\ status[t] # "absent" => status'[t] # "absent"
                          /\ status[t] = "gone" => status'[t] = "gone"
                          /\ status'[t] = "pending" =>
                               \/ status[t] = "absent" \/ t \in retried'
                               \/ status[t] = "pending" /\ t \notin retried
      /\ \A t \in x.rows : status'[t] = status[t]
      /\ x.key # Same => lock' = lock
      /\ x.key \in Tasks => status'[x.key] = status[x.key]
  BY <1>1 DEF Env
<1>6. KeyOK(u) /\ WriterOK(u) /\ HolderOK(u) /\ RowsOK(u) /\ ViewOK(u)
  BY DEF DataInv, Local
<1>7. KeyOK(u)'
  <2>1. x.key # Same =>
          \/ lock' = None
          \/ /\ status'[lock'] # "pending"
             /\ status'[lock'] = "gone" \/ lock' \in y.rows \/ y.writer
    <3>1. SUFFICES ASSUME x.key # Same, lock # None
                   PROVE  /\ status'[lock] # "pending"
                          /\ status'[lock] = "gone" \/ lock \in x.rows \/ x.writer
      BY <1>4, <1>5 DEF Later
    <3>2. /\ lock \in Tasks /\ status[lock] # "pending"
          /\ status[lock] = "gone" \/ lock \in x.rows \/ x.writer
      BY <1>1, <1>3, <1>6, <3>1 DEF KeyOK
    <3> QED
      BY <1>4, <1>5, <3>2
  <2>2. y.key \in Tasks => status'[y.key] = "absent"
    BY <1>1, <1>4, <1>5, <1>6 DEF KeyOK, Later
  <2>3. /\ y.key = None => lock' # None
        /\ y.key = Unnamed <=> k.at = "enqueueing"
        /\ u \notin Ambient => y.key \in {Same, Unnamed}
    BY <1>1, <1>2, <1>4, <1>5, <1>6, UniqueAssumption DEF KeyOK, Later
  <2>4. y.key = x.key
    BY <1>4 DEF Later
  <2> QED
    BY <1>1, <1>2, <2>1, <2>2, <2>3, <2>4 DEF KeyOK
<1>8. WriterOK(u)'
  BY <1>1, <1>2, <1>3, <1>4, <1>5, <1>6 DEF WriterOK, Later, Transaction, RowLocks
<1>9. HolderOK(u)'
  <2>1. y.key = x.key /\ y.rows = x.rows /\ y.view = x.view
    BY <1>4 DEF Later
  <2>2. /\ RowLocks' = RowLocks /\ Refuses' = Refuses /\ InSnapshot(u)' = InSnapshot(u)
    BY <1>5 DEF RowLocks, Refuses, InSnapshot
  <2>3. k.at \in Holding =>
          /\ k.holder \in Tasks
          /\ x.key # Same => k.holder = x.key
          /\ status[k.holder] # "absent" \/ k.holder = x.key
    BY <1>1, <1>2, <1>6 DEF HolderOK
  <2>4. k.at \in Holding => status'[k.holder] # "absent" \/ k.holder = x.key
    BY <1>5, <2>3
  <2>5. k.at = "locking" =>
          \/ k.holder = x.key
          \/ status'[k.holder] = "pending" => k.holder \in retried'
    BY <1>1, <1>2, <1>5, <1>6, <2>3 DEF HolderOK, Holding
  <2>6. k.at = "deleting" /\ RowLocks => status'[k.holder] = "gone" \/ k.holder \in x.rows
    BY <1>1, <1>2, <1>5, <1>6, <2>3 DEF HolderOK, Holding
  <2>7. x.view \subseteq Database
    BY <1>3 DEF Transaction
  <2>8. k.at = "deciding" =>
          /\ engine'.snapshots /\ RowLocks' => y.view # {}
          /\ \A db \in y.view : k.holder = IF y.key = Same THEN db.lock ELSE y.key
    BY <1>1, <1>2, <1>5, <1>6, <2>1, <2>2, <2>7 DEF HolderOK, KeyIn
  <2>9. k.at = "checking" =>
          /\ Refuses' /\ y.view # {}
          /\ \A db \in y.view : "pending" = IF y.key = k.holder THEN "pending"
                                            ELSE db.status[k.holder]
    BY <1>1, <1>2, <1>6, <2>1, <2>2, <2>3, <2>7 DEF HolderOK, Holding, StatusIn
  <2>10. /\ k.at \in {"idle", "inserting", "enqueueing", "reading"} => k.holder = None
         /\ k.at \in {"checking", "asking"} => InSnapshot(u)' /\ RowLocks'
         /\ k.at = "locking" => RowLocks'
    BY <1>1, <1>2, <1>6, <2>2 DEF HolderOK
  <2> QED
    BY <1>1, <1>2, <2>1, <2>2, <2>3, <2>4, <2>5, <2>6, <2>8, <2>9, <2>10
    DEF HolderOK, KeyIn, StatusIn
<1>10. RowsOK(u)'
  BY <1>1, <1>2, <1>3, <1>4, <1>5, <1>6 DEF RowsOK, Later, Transaction
<1>11. ViewOK(u)'
  BY <1>1, <1>2, <1>3, <1>4, <1>5, <1>6
  DEF ViewOK, Later, Transaction, Database, RowLocks
<1> QED
  BY <1>7, <1>8, <1>9, <1>10, <1>11 DEF Local
-----------------------------------------------------------------------------
(* What the steps of a call do to everybody else.                          *)

\* The step commits nothing: it is nobody else's business.
Private(c) ==
  /\ lock' = lock /\ status' = status
  /\ \A u \in Callers \ {c} : tx'[u] = tx[u]

\* The steps that commit: the lock row is taken, released, or what a caller made of it.
Takes(c, t) ==
  /\ c \notin Ambient /\ call[c].at = "enqueueing"
  /\ t \in Tasks /\ status[t] = "absent" /\ \A u \in Callers : tx[u].key # t
  /\ lock' = t /\ status' = [status EXCEPT ![t] = "pending"]
  /\ Commits(c, NoTx, {t}, TRUE)

Releases(c) ==
  /\ c \notin Ambient /\ call[c].at = "deleting" /\ ~Waits(c) /\ Released(c)
  /\ ~(Refuses /\ tx[c].keyChanged)
  /\ NextPass(c) /\ lock' = None /\ UNCHANGED status
  /\ Commits(c, NoTx, {}, TRUE)

LEMMA CallMoves ==
  ASSUME TypeOK, NEW c \in Callers, CallStep(c) \/ Reissue(c)
  PROVE  /\ engine' = engine
         /\ \A u \in Callers \ {c} : call'[u] = call[u]
         /\ \/ Private(c)
            \/ \E t \in Tasks : Enqueue(c) /\ Takes(c, t)
            \/ Releases(c)
            \/ CallerCommits(c)
<1>1. call \in [Callers -> Call] /\ tx \in [Callers -> Transaction]
  BY DEF TypeOK
<1>2. CASE CallerReads(c) \/ Begin(c) \/ Insert(c)
  BY <1>1, <1>2 DEF CallerReads, Begin, Insert, Goes, Private, rows
<1>3. CASE Enqueue(c)
  <2>1. PICK t \in Tasks :
          /\ status[t] = "absent"
          /\ \A u \in Callers : tx[u].key # t
          /\ IF c \in Ambient
             THEN tx' = [tx EXCEPT ![c].key = t] /\ UNCHANGED rows
             ELSE /\ lock' = t
                  /\ status' = [status EXCEPT ![t] = "pending"]
                  /\ Commits(c, NoTx, {t}, TRUE)
    BY <1>3 DEF Enqueue
  <2>2. c \in Ambient => Private(c)
    BY <1>1, <2>1 DEF Private, rows
  <2>3. c \notin Ambient => Takes(c, t)
    BY <1>3, <2>1 DEF Enqueue, Takes
  <2> QED
    BY <1>1, <1>3, <2>2, <2>3 DEF Enqueue
<1>4. CASE ReadLock(c)
  BY <1>1, <1>4 DEF ReadLock, NextPass, Private, rows
<1>5. CASE ReadHolder(c) \/ CheckHolder(c) \/ ReadFresh(c) \/ ReadCommitted(c)
  BY <1>1, <1>5
  DEF ReadHolder, CheckHolder, ReadFresh, ReadCommitted, Goes, Answer, BlockEnds, Private, rows
<1>6. Race(c) => engine' = engine /\ (\A u \in Callers \ {c} : call'[u] = call[u]) /\ Private(c)
  BY <1>1 DEF Race, Private, rows
<1>7. SerializationFailure(c) =>
        engine' = engine /\ (\A u \in Callers \ {c} : call'[u] = call[u]) /\ Private(c)
  BY <1>1, <1>6 DEF SerializationFailure, NextPass, BlockEnds, Private, rows
<1>8. CASE LockHolder(c)
  BY <1>1, <1>7, <1>8 DEF LockHolder, Answer, Goes, Private, rows
<1>9. CASE DeleteLock(c)
  <2>1. CASE Refuses /\ tx[c].keyChanged
    BY <1>7, <1>9, <2>1 DEF DeleteLock
  <2>2. CASE ~(Refuses /\ tx[c].keyChanged)
    <3>1. NextPass(c) /\ UNCHANGED <<engine, status>> /\ ~Waits(c) /\ call[c].at = "deleting"
      BY <1>9, <2>2 DEF DeleteLock
    <3>2. engine' = engine /\ \A u \in Callers \ {c} : call'[u] = call[u]
      BY <1>1, <3>1 DEF NextPass
    <3>3. CASE Released(c) /\ c \notin Ambient
      BY <1>9, <2>2, <3>1, <3>2, <3>3 DEF DeleteLock, Releases
    <3>4. CASE ~(Released(c) /\ c \notin Ambient)
      BY <1>1, <1>9, <2>2, <3>1, <3>2, <3>4 DEF DeleteLock, Private
    <3> QED
      BY <3>3, <3>4
  <2> QED
    BY <2>1, <2>2
<1>10. CASE GivesUpWaiting(c)
  BY <1>6, <1>10 DEF GivesUpWaiting
<1>11. CASE RefusedUpdate(c) \/ End(c) \/ Abort(c)
  BY <1>1, <1>11 DEF RefusedUpdate, End, Abort, Goes, Private, rows
<1>12. CASE CallerCommits(c)
  BY <1>12 DEF CallerCommits
<1>13. CASE Reissue(c)
  BY <1>1, <1>13 DEF Reissue, NextPass, BlockEnds, Private, rows
<1> QED
  BY <1>2, <1>3, <1>4, <1>5, <1>8, <1>9, <1>10, <1>11, <1>12, <1>13 DEF CallStep

LEMMA PrivateEnv ==
  ASSUME DataInv, NEW u \in Callers, engine' = engine, call'[u] = call[u], tx'[u] = tx[u],
         lock' = lock, status' = status, retried' = retried
  PROVE  Env(u)
<1>1. Later(tx[u], tx'[u], {}, FALSE)
  BY Types DEF DataInv, Later
<1> QED
  BY <1>1 DEF Env

LEMMA CommitEnv ==
  ASSUME DataInv, NEW c \in Callers, NEW u \in Callers \ {c}, CallStep(c), retried' = retried,
         NEW ts \in SUBSET Tasks, NEW key \in BOOLEAN, Commits(c, NoTx, ts, key),
         \A t \in Tasks : status'[t] # status[t] =>
           t \in ts /\ status[t] = "absent" /\ status'[t] = "pending",
         \A t \in ts : status[t] = "absent" /\ tx[u].key # t,
         ts # {} \/ lock' # lock => tx[u].key = Same,
         ts # {} \/ key => ~tx[u].writer,
         lock' # lock => key
  PROVE  Env(u)
<1>1. TypeOK /\ RowsOK(u)
  BY DEF DataInv, Local
<1>2. engine' = engine /\ call'[u] = call[u]
  BY <1>1, CallMoves
<1>3. tx'[u] = Behind(u, ts, key)
  BY DEF Commits
<1>4. Later(tx[u], tx'[u], ts, key)
  BY <1>1, <1>3, BehindIsLater
<1>5. \A t \in tx[u].rows : status'[t] = status[t]
  BY <1>1, Types DEF RowsOK, Transaction
<1> QED
  BY <1>1, <1>2, <1>4, <1>5 DEF Env

LEMMA CallEnv ==
  ASSUME DataInv, NEW c \in Callers, NEW u \in Callers \ {c}, CallStep(c) \/ Reissue(c),
         retried' = retried
  PROVE  Env(u)
<1>1. TypeOK /\ KeyOK(c) /\ WriterOK(c) /\ Excludes(c, u)
  BY DEF DataInv, Local
<1>2. engine' = engine /\ call'[u] = call[u]
  BY <1>1, CallMoves
<1>3. CASE Private(c)
  BY <1>2, <1>3, PrivateEnv DEF Private
<1>4. ASSUME NEW t \in Tasks, Enqueue(c), Takes(c, t)
      PROVE  Env(u)
  <2>1. tx[u].key = Same /\ ~tx[u].writer
    BY <1>1, <1>4, UniqueAssumption DEF KeyOK, Excludes, Takes
  <2>2. Commits(c, NoTx, {t}, TRUE) /\ CallStep(c)
    BY <1>4 DEF Takes, CallStep
  <2>3. \A s \in Tasks : status'[s] # status[s] =>
          s \in {t} /\ status[s] = "absent" /\ status'[s] = "pending"
    BY <1>1, <1>4 DEF Takes, TypeOK
  <2> QED
    BY <1>4, <2>1, <2>2, <2>3, CommitEnv DEF Takes
<1>5. CASE Releases(c)
  <2>1. tx[u].key = Same /\ ~tx[u].writer
    BY <1>5 DEF Releases, Waits
  <2>2. TypeOK /\ engine' = engine /\ status' = status /\ lock' = None
    BY <1>1, <1>2, <1>5 DEF Releases
  <2>3. tx'[u] = Behind(u, {}, TRUE)
    BY <1>5 DEF Releases, Commits
  <2>4. Later(tx[u], tx'[u], {}, TRUE)
    BY <2>2, <2>3, BehindIsLater
  <2> QED
    BY <1>2, <2>1, <2>2, <2>4 DEF Env
<1>6. CASE CallerCommits(c)
  <2>1. PICK k : k = tx[c].key
    OBVIOUS
  <2>2. /\ c \in Ambient /\ call[c].at = "idle"
        /\ lock' = IF k = Same THEN lock ELSE k
        /\ status' = [t \in Tasks |-> IF k = t THEN "pending" ELSE status[t]]
        /\ Commits(c, NoTx, {k} \cap Tasks, k # Same)
    BY <1>6, <2>1 DEF CallerCommits, KeyIn, StatusIn, Committed
  <2>3. /\ k \in Tasks \cup {None, Unnamed, Same}
        /\ k \in Tasks => status[k] = "absent"
        /\ k # Same => tx[u].key = Same /\ ~tx[u].writer
    BY <1>1, <2>1, Types DEF KeyOK, Excludes, Transaction
  <2>4. \A t \in Tasks : status'[t] # status[t] =>
          t \in {k} \cap Tasks /\ status[t] = "absent" /\ status'[t] = "pending"
    BY <2>2, <2>3
  <2>5. \A t \in {k} \cap Tasks : status[t] = "absent" /\ tx[u].key # t
    BY <2>3, UniqueAssumption
  <2>6. /\ {k} \cap Tasks # {} \/ lock' # lock => tx[u].key = Same
        /\ {k} \cap Tasks # {} \/ k # Same => ~tx[u].writer
        /\ lock' # lock => k # Same
    BY <2>2, <2>3, UniqueAssumption
  <2>7. CallStep(c) /\ {k} \cap Tasks \in SUBSET Tasks /\ (k # Same) \in BOOLEAN
    BY <1>6 DEF CallStep
  <2> QED
    BY <2>2, <2>4, <2>5, <2>6, <2>7, CommitEnv
<1> QED
  BY <1>1, <1>3, <1>4, <1>5, <1>6, CallMoves
-----------------------------------------------------------------------------
(* The steps of workers, operators and the prunes.                         *)

RestStep(t) == Touch(t) \/ Settle(t) \/ PruneTask(t) \/ Retry(t)

\* A row is moved by its step alone, and only where nobody keeps it.
LEMMA RestMoves ==
  ASSUME TypeOK, NEW t \in Tasks, RestStep(t)
  PROVE  /\ engine' = engine /\ lock' = lock /\ call' = call
         /\ Writable(t) /\ CommitsRow(t)
         /\ status[t] \notin {"absent", "gone"} /\ status'[t] \notin {"absent"}
         /\ \A s \in Tasks \ {t} : status'[s] = status[s] /\ (s \in retried <=> s \in retried')
         /\ status' \in [Tasks -> Statuses] /\ retried' \in SUBSET Tasks
         /\ reopened' \in SUBSET Tasks
         /\ status'[t] = "pending" =>
              \/ status[t] = "pending" /\ retried' = retried
              \/ t \in retried'
BY DEF TypeOK, RestStep, Touch, Settle, PruneTask, Retry, rows, Statuses

LEMMA RestEnv ==
  ASSUME DataInv, NEW u \in Callers, NEW t \in Tasks, RestStep(t)
  PROVE  Env(u)
<1>1. TypeOK /\ KeyOK(u) /\ RowsOK(u)
  BY DEF DataInv, Local
<1>2. /\ engine' = engine /\ lock' = lock /\ call' = call
      /\ Writable(t) /\ CommitsRow(t)
      /\ status[t] \notin {"absent", "gone"} /\ status'[t] \notin {"absent"}
      /\ \A s \in Tasks \ {t} : status'[s] = status[s] /\ (s \in retried <=> s \in retried')
      /\ status'[t] = "pending" =>
           \/ status[t] = "pending" /\ retried' = retried
           \/ t \in retried'
  BY <1>1, RestMoves
<1>3. Later(tx[u], tx'[u], {t}, FALSE)
  BY <1>1, <1>2, BehindIsLater DEF CommitsRow
<1>4. ~tx[u].writer /\ t \notin tx[u].rows
  BY <1>2 DEF Writable
<1>5. tx[u].rows \subseteq Tasks
  BY <1>1, Types DEF Transaction
<1>6. tx[u].key \in Tasks => tx[u].key # t
  BY <1>1, <1>2 DEF KeyOK
<1>7. \A s \in Tasks : /\ status[s] # "absent" => status'[s] # "absent"
                       /\ status[s] = "gone" => status'[s] = "gone"
                       /\ status'[s] = "pending" =>
                            \/ status[s] = "absent" \/ s \in retried'
                            \/ status[s] = "pending" /\ s \notin retried
  BY <1>2
<1> QED
  BY <1>2, <1>3, <1>4, <1>5, <1>6, <1>7 DEF Env

LEMMA PruneEnv ==
  ASSUME DataInv, NEW u \in Callers, PruneLock
  PROVE  Env(u)
<1>1. TypeOK
  BY DEF DataInv
<1>2. Later(tx[u], tx'[u], {}, TRUE)
  BY <1>1, BehindIsLater DEF PruneLock
<1> QED
  BY <1>2 DEF Env, PruneLock
-----------------------------------------------------------------------------
(* The caller that takes the step.                                         *)

\* A transaction of the call's own that is over, or has not begun.
Fresh(y) ==
  /\ y.key = Same /\ y.rows = {} /\ y.writer = FALSE /\ y.view = {}
  /\ y.changed = {} /\ y.keyChanged = FALSE

LEMMA FreshLocal ==
  ASSUME NEW c \in Callers, Fresh(tx'[c]), call'[c] \in Call,
         call'[c].at \in {"idle", "inserting", "reading", "answered", "raced", "gave up"},
         call'[c].at \in {"idle", "inserting", "reading"} => call'[c].holder = None,
         call'[c].at = "reading" => c \notin Ambient,
         call'[c].at = "answered" =>
           call'[c].holder \in Tasks /\ status'[call'[c].holder] # "absent"
  PROVE  Local(c)'
<1>1. PICK y : y = tx'[c]
  OBVIOUS
<1>2. /\ y.key = Same /\ y.rows = {} /\ y.writer = FALSE /\ y.view = {}
      /\ y.changed = {} /\ y.keyChanged = FALSE
  BY <1>1 DEF Fresh
<1>3. KeyOK(c)'
  BY <1>1, <1>2, UniqueAssumption DEF KeyOK
<1>4. WriterOK(c)'
  BY <1>1, <1>2 DEF WriterOK
<1>5. HolderOK(c)'
  BY <1>1, <1>2 DEF HolderOK, Holding
<1>6. RowsOK(c)'
  BY <1>1, <1>2 DEF RowsOK
<1>7. ViewOK(c)'
  BY <1>1, <1>2 DEF ViewOK
<1> QED
  BY <1>3, <1>4, <1>5, <1>6, <1>7 DEF Local

\* A snapshot stays what it was, and one that is taken is the database.
LEMMA ViewKept ==
  ASSUME NEW c \in Callers, ViewOK(c), engine' = engine, lock' = lock, status' = status,
         retried' = retried,
         tx'[c].view = tx[c].view, tx'[c].changed = tx[c].changed,
         tx'[c].keyChanged = tx[c].keyChanged,
         c \notin Ambient /\ tx[c].view # {} =>
           call'[c].at \in {"deciding", "locking", "deleting"},
         c \notin Ambient /\ tx'[c].writer => call'[c].at = "enqueueing"
  PROVE  ViewOK(c)'
<1>1. PICK x : x = tx[c]
  OBVIOUS
<1>2. RowLocks' = RowLocks
  BY DEF RowLocks
<1>3. /\ x.view = {} => x.changed = {} /\ ~x.keyChanged
      /\ x.view # {} => engine.snapshots \/ ~RowLocks
      /\ c \notin Ambient /\ x.view # {} => RowLocks
      /\ \A db, other \in x.view : db = other
  BY <1>1 DEF ViewOK
<1>4. ASSUME NEW db \in x.view
      PROVE  /\ db.lock # None => db.status[db.lock] # "absent"
             /\ \A t \in Tasks :
                  /\ db.status[t] # "absent" => status'[t] # "absent"
                  /\ db.status[t] = "gone" => status'[t] = "gone"
                  /\ db.status[t] = "settled" /\ status'[t] = "pending" => t \in retried'
             /\ engine'.vendor # "mysql" =>
                  /\ \A t \in Tasks \ x.changed : db.status[t] = status'[t]
                  /\ x.keyChanged \/ db.lock = lock'
  BY <1>1, <1>4 DEF ViewOK
<1>5. tx'[c].view = x.view /\ tx'[c].changed = x.changed /\ tx'[c].keyChanged = x.keyChanged
  BY <1>1
<1>6. /\ tx'[c].view = {} => tx'[c].changed = {} /\ ~tx'[c].keyChanged
      /\ tx'[c].view # {} => engine'.snapshots \/ ~RowLocks'
      /\ \A db, other \in tx'[c].view : db = other
  BY <1>2, <1>3, <1>5
<1>7. c \notin Ambient /\ tx'[c].view # {} =>
        RowLocks' /\ call'[c].at \in {"deciding", "locking", "deleting"}
  BY <1>1, <1>2, <1>3, <1>5
<1>8. \A db \in tx'[c].view :
        /\ db.lock # None => db.status[db.lock] # "absent"
        /\ \A t \in Tasks :
             /\ db.status[t] # "absent" => status'[t] # "absent"
             /\ db.status[t] = "gone" => status'[t] = "gone"
             /\ db.status[t] = "settled" /\ status'[t] = "pending" => t \in retried'
        /\ engine'.vendor # "mysql" =>
             /\ \A t \in Tasks \ tx'[c].changed : db.status[t] = status'[t]
             /\ tx'[c].keyChanged \/ db.lock = lock'
  BY <1>4, <1>5
<1> QED
  BY <1>6, <1>7, <1>8 DEF ViewOK

LEMMA ViewTaken ==
  ASSUME NEW c \in Callers, DataInv, engine' = engine, lock' = lock, status' = status,
         retried' = retried,
         tx'[c].view = {Committed}, tx'[c].changed = {}, tx'[c].keyChanged = FALSE,
         engine.snapshots \/ ~RowLocks,
         c \notin Ambient =>
           RowLocks /\ call'[c].at \in {"deciding", "locking", "deleting"} /\ ~tx'[c].writer
  PROVE  ViewOK(c)'
<1>1. RowLocks' = RowLocks
  BY DEF RowLocks
<1>2. Committed.lock = lock /\ Committed.status = status
  BY DEF Committed
<1>3. lock # None => status[lock] # "absent"
  BY DEF DataInv
<1>4. \A db \in tx'[c].view : db.lock = lock /\ db.status = status
  BY <1>2
<1>5. \A db \in tx'[c].view :
        /\ db.lock # None => db.status[db.lock] # "absent"
        /\ \A t \in Tasks :
             /\ db.status[t] # "absent" => status'[t] # "absent"
             /\ db.status[t] = "gone" => status'[t] = "gone"
             /\ db.status[t] = "settled" /\ status'[t] = "pending" => t \in retried'
        /\ engine'.vendor # "mysql" =>
             /\ \A t \in Tasks \ tx'[c].changed : db.status[t] = status'[t]
             /\ tx'[c].keyChanged \/ db.lock = lock'
  BY <1>3, <1>4
<1>6. /\ tx'[c].view # {}
      /\ engine'.snapshots \/ ~RowLocks'
      /\ \A db, other \in tx'[c].view : db = other
      /\ c \notin Ambient =>
           RowLocks' /\ call'[c].at \in {"deciding", "locking", "deleting"} /\ ~tx'[c].writer
  BY <1>1
<1> QED
  BY <1>5, <1>6 DEF ViewOK

\* A caller's transaction stays as it is while its call goes to its next pass or ends.
LEMMA KeptLocal ==
  ASSUME DataInv, NEW c \in Callers, tx'[c] = tx[c], call'[c] \in Call, engine' = engine,
         lock' = lock, status' = status, retried' = retried,
         call[c].at # "enqueueing",
         call'[c].at \in {"idle", "inserting", "raced", "gave up"},
         call'[c].at \in {"idle", "inserting"} => call'[c].holder = None,
         c \notin Ambient => tx[c].view = {} /\ ~tx[c].writer
  PROVE  Local(c)'
<1>1. PICK x : x = tx[c]
  OBVIOUS
<1>2. PICK m : m = call'[c]
  OBVIOUS
<1>3. KeyOK(c) /\ WriterOK(c) /\ RowsOK(c) /\ ViewOK(c)
  BY DEF DataInv, Local
<1>4. KeyOK(c)'
  BY <1>1, <1>2, <1>3 DEF KeyOK
<1>5. WriterOK(c)'
  BY <1>1, <1>2, <1>3 DEF WriterOK, RowLocks
<1>6. HolderOK(c)'
  BY <1>1, <1>2, <1>3 DEF HolderOK, Holding
<1>7. RowsOK(c)'
  BY <1>1, <1>2, <1>3 DEF RowsOK
<1>8. ViewOK(c)'
  BY <1>3, ViewKept
<1> QED
  BY <1>4, <1>5, <1>6, <1>7, <1>8 DEF Local

\* The next pass, or none: what NextPass makes of the call.
LEMMA NextPassIs ==
  ASSUME TypeOK, NEW c \in Callers, NextPass(c), call[c].tries < MAX_UNIQUE_ATTEMPTS
  PROVE  /\ call'[c] \in Call /\ call'[c].holder = None
         /\ call'[c].at \in {"inserting", "gave up"}
         /\ PassOK(c)'
         /\ call'[c].tries = call[c].tries + 1
         /\ \A u \in Callers \ {c} : call'[u] = call[u]
<1>1. call[c] \in Call /\ call \in [Callers -> Call]
  BY DEF TypeOK
<1>2. PICK n : n = call[c].tries
  OBVIOUS
<1>5. n \in Nat /\ n < MAX_UNIQUE_ATTEMPTS
  <2>1. MAX_UNIQUE_ATTEMPTS \in Nat
    BY UniqueAssumption
  <2>2. n \in 0 .. MAX_UNIQUE_ATTEMPTS
    BY <1>1, <1>2 DEF Call
  <2> QED
    BY <1>2, <2>1, <2>2
<1>3. call'[c] = [at |-> IF n + 1 = MAX_UNIQUE_ATTEMPTS THEN "gave up" ELSE "inserting",
                  tries |-> n + 1, holder |-> None]
  BY <1>1, <1>2 DEF NextPass
<1>4. n + 1 \in 0 .. MAX_UNIQUE_ATTEMPTS
  BY <1>5, UniqueAssumption
<1>6. n + 1 # MAX_UNIQUE_ATTEMPTS => n + 1 < MAX_UNIQUE_ATTEMPTS
  BY <1>5, UniqueAssumption
<1> QED
  BY <1>1, <1>2, <1>3, <1>4, <1>6 DEF NextPass, PassOK, Call
-----------------------------------------------------------------------------
(* The steps of a call, for the caller itself.                             *)

\* Its invariant holds again, with the types that belong to it.
Acts(c) == Local(c)' /\ PassOK(c)' /\ call'[c] \in Call /\ tx'[c] \in Transaction

LEMMA CallerReadsActs ==
  ASSUME DataInv, NEW c \in Callers, CallerReads(c), retried' = retried
  PROVE  Acts(c)
<1>1. PICK y : y = tx'[c]
  OBVIOUS
<1>2. /\ c \in Ambient /\ call[c].at = "idle" /\ (engine.snapshots \/ ~RowLocks)
      /\ engine' = engine /\ lock' = lock /\ status' = status /\ call' = call
      /\ TypeOK /\ tx[c] = NoTx
  BY DEF CallerReads, rows, DataInv
<1>3. Committed \in Database
  BY <1>2, Types
<1>4. PICK n : n = NoTx
  OBVIOUS
<1>5. /\ n \in Transaction /\ n.key = Same /\ n.rows = {} /\ n.writer = FALSE
      /\ n.changed = {} /\ n.keyChanged = FALSE
  BY <1>4, NoTxIs
<1>6. y = [n EXCEPT !.view = {Committed}]
  BY <1>1, <1>2, <1>4 DEF CallerReads, TypeOK
<1>7. /\ y \in Transaction /\ y.key = Same /\ y.rows = {} /\ y.writer = FALSE
      /\ y.view = {Committed} /\ y.changed = {} /\ y.keyChanged = FALSE
  BY <1>3, <1>5, <1>6 DEF Transaction
<1>8. HolderOK(c) /\ PassOK(c) /\ call[c] \in Call
  BY <1>2, Types DEF DataInv, Local
<1>9. KeyOK(c)'
  BY <1>1, <1>2, <1>7, UniqueAssumption DEF KeyOK
<1>10. WriterOK(c)'
  BY <1>1, <1>2, <1>7 DEF WriterOK
<1>11. HolderOK(c)'
  BY <1>1, <1>2, <1>8 DEF HolderOK, Holding
<1>12. RowsOK(c)'
  BY <1>1, <1>7 DEF RowsOK
<1>13. ViewOK(c)'
  BY <1>1, <1>2, <1>7, ViewTaken
<1> QED
  BY <1>1, <1>2, <1>7, <1>8, <1>9, <1>10, <1>11, <1>12, <1>13 DEF Local, Acts, PassOK

LEMMA BeginActs ==
  ASSUME DataInv, NEW c \in Callers, Begin(c), retried' = retried
  PROVE  Acts(c)
<1>1. PICK x, y : x = tx[c] /\ y = tx'[c]
  OBVIOUS
<1>2. PICK k, m : k = call[c] /\ m = call'[c]
  OBVIOUS
<1>3. /\ TypeOK /\ engine' = engine /\ lock' = lock /\ status' = status
      /\ x \in Transaction /\ k \in Call /\ k.at = "idle"
      /\ ReadsFrom(c) \in SUBSET Database
  BY <1>1, <1>2, Types DEF Begin, rows, DataInv
<1>4. m = [k EXCEPT !.at = "inserting"]
  BY <1>2, <1>3 DEF Begin, Goes, TypeOK
<1>5. m \in Call /\ m.at = "inserting" /\ m.holder = k.holder /\ m.tries = k.tries
  BY <1>3, <1>4 DEF Call
<1>6. y = [x EXCEPT !.view = IF InSnapshot(c) /\ Refuses THEN ReadsFrom(c) ELSE x.view]
  BY <1>1, <1>3 DEF Begin, TypeOK
<1>7. PICK v : v = IF InSnapshot(c) /\ Refuses THEN ReadsFrom(c) ELSE x.view
  OBVIOUS
<1>8. v \in SUBSET Database
  BY <1>3, <1>7 DEF Transaction
<1>9. /\ y \in Transaction /\ y.key = x.key /\ y.rows = x.rows /\ y.writer = x.writer
      /\ y.view = v /\ y.changed = x.changed /\ y.keyChanged = x.keyChanged
  BY <1>3, <1>6, <1>7, <1>8 DEF Transaction
<1>10. KeyOK(c) /\ WriterOK(c) /\ HolderOK(c) /\ RowsOK(c) /\ ViewOK(c) /\ PassOK(c)
  BY DEF DataInv, Local
<1>11. KeyOK(c)'
  BY <1>1, <1>2, <1>3, <1>5, <1>9, <1>10 DEF KeyOK
<1>12. WriterOK(c)'
  BY <1>1, <1>2, <1>3, <1>5, <1>9, <1>10 DEF WriterOK, RowLocks
<1>13. HolderOK(c)'
  BY <1>1, <1>2, <1>3, <1>5, <1>9, <1>10 DEF HolderOK, Holding
<1>14. RowsOK(c)'
  BY <1>1, <1>2, <1>3, <1>9, <1>10 DEF RowsOK
<1>15. ViewOK(c)'
  <2>1. c \notin Ambient => x.view = {} /\ ~x.writer
    BY <1>1, <1>2, <1>3, <1>10 DEF ViewOK
  <2>2. CASE v = x.view
    BY <1>1, <1>3, <1>9, <1>10, <2>1, <2>2, ViewKept
  <2>3. CASE v # x.view
    <3>1. c \in Ambient /\ engine.snapshots /\ v = {Committed} /\ x.view = {}
      BY <1>1, <1>7, <2>3 DEF InSnapshot, ReadsFrom
    <3>2. x.changed = {} /\ x.keyChanged = FALSE
      BY <1>1, <1>3, <1>10, <3>1 DEF ViewOK, Transaction
    <3> QED
      BY <1>1, <1>3, <1>9, <3>1, <3>2, ViewTaken
  <2> QED
    BY <2>2, <2>3
<1>16. PassOK(c)'
  BY <1>2, <1>3, <1>5, <1>10 DEF PassOK
<1> QED
  BY <1>1, <1>2, <1>5, <1>9, <1>11, <1>12, <1>13, <1>14, <1>15, <1>16 DEF Local, Acts

LEMMA InsertActs ==
  ASSUME DataInv, NEW c \in Callers, Insert(c), retried' = retried
  PROVE  Acts(c)
<1>1. PICK x, y : x = tx[c] /\ y = tx'[c]
  OBVIOUS
<1>2. PICK k, m : k = call[c] /\ m = call'[c]
  OBVIOUS
<1>3. /\ TypeOK /\ engine' = engine /\ lock' = lock /\ status' = status
      /\ x \in Transaction /\ k \in Call /\ k.at = "inserting"
  BY <1>1, <1>2, Types DEF Insert, rows, DataInv
<1>4. KeyOK(c) /\ WriterOK(c) /\ HolderOK(c) /\ RowsOK(c) /\ ViewOK(c) /\ PassOK(c)
  BY DEF DataInv, Local
<1>5. k.holder = None
  BY <1>2, <1>3, <1>4 DEF HolderOK
<1>6. c \notin Ambient => x.view = {} /\ ~x.writer
  BY <1>1, <1>2, <1>3, <1>4 DEF ViewOK
<1>7. ~RowLocks => x.changed = {} /\ ~x.keyChanged
  <2>1. ~BusySnapshot(c)
    BY DEF Insert
  <2> QED
    BY <1>1, <1>2, <1>3, <1>4, <2>1 DEF BusySnapshot, WriterOK, RowLocks
<1>8. RowLocks \in BOOLEAN
  BY DEF RowLocks
<1>9. CASE KeyIn(c, Committed) = None
  <2>1. m = [k EXCEPT !.at = "enqueueing"]
    BY <1>2, <1>3, <1>9 DEF Insert, Goes, TypeOK
  <2>2. m \in Call /\ m.at = "enqueueing" /\ m.holder = None /\ m.tries = k.tries
    BY <1>3, <1>5, <2>1 DEF Call
  <2>3. y = [x EXCEPT !.key = Unnamed, !.writer = ~RowLocks]
    BY <1>1, <1>3, <1>9 DEF Insert, TypeOK
  <2>4. /\ y \in Transaction /\ y.key = Unnamed /\ y.rows = x.rows /\ y.writer = ~RowLocks
        /\ y.view = x.view /\ y.changed = x.changed /\ y.keyChanged = x.keyChanged
    BY <1>3, <1>8, <2>3 DEF Transaction
  <2>5. x.key = None \/ (x.key = Same /\ lock = None)
    BY <1>1, <1>9 DEF KeyIn, Committed
  <2>6. KeyOK(c)'
    <3>1. x.writer => y.writer
      BY <1>1, <1>4, <2>4 DEF WriterOK
    <3> QED
      BY <1>1, <1>2, <1>3, <1>4, <2>2, <2>4, <2>5, <3>1, UniqueAssumption DEF KeyOK
  <2>7. WriterOK(c)'
    BY <1>1, <1>2, <1>3, <1>7, <2>2, <2>4 DEF WriterOK, RowLocks
  <2>8. HolderOK(c)'
    BY <1>2, <2>2 DEF HolderOK, Holding
  <2>9. RowsOK(c)'
    BY <1>1, <1>2, <1>3, <1>4, <2>4, <2>5, UniqueAssumption DEF RowsOK, KeyOK, Transaction
  <2>10. ViewOK(c)'
    BY <1>1, <1>2, <1>3, <1>4, <1>6, <2>2, <2>4, ViewKept
  <2> QED
    BY <1>1, <1>2, <1>3, <1>4, <2>2, <2>4, <2>6, <2>7, <2>8, <2>9, <2>10
    DEF Local, Acts, PassOK
<1>10. CASE KeyIn(c, Committed) # None
  <2>1. m = [k EXCEPT !.at = "reading"]
    BY <1>2, <1>3, <1>10 DEF Insert, Goes, TypeOK
  <2>2. m \in Call /\ m.at = "reading" /\ m.holder = None /\ m.tries = k.tries
    BY <1>3, <1>5, <2>1 DEF Call
  <2>3. PICK z : z = Kept(c)
    OBVIOUS
  <2>4. y = [z EXCEPT !.writer = ~RowLocks /\ c \in Ambient]
    BY <1>1, <1>3, <1>10, <2>3 DEF Insert, TypeOK
  <2>5. CASE c \notin Ambient
    <3>1. z = NoTx
      BY <2>3, <2>5 DEF Kept
    <3>2. y \in Transaction /\ Fresh(y)
      BY <2>4, <2>5, <3>1, NoTxIs DEF Fresh, Transaction
    <3>3. Local(c)'
      BY <1>1, <1>2, <2>2, <2>5, <3>2, FreshLocal
    <3> QED
      BY <1>1, <1>2, <1>3, <1>4, <2>2, <3>2, <3>3 DEF Acts, PassOK
  <2>6. CASE c \in Ambient
    <3>1. z = x
      BY <1>1, <2>3, <2>6 DEF Kept
    <3>2. /\ y \in Transaction /\ y.key = x.key /\ y.rows = x.rows /\ y.writer = ~RowLocks
          /\ y.view = x.view /\ y.changed = x.changed /\ y.keyChanged = x.keyChanged
      BY <1>3, <1>8, <2>4, <2>6, <3>1 DEF Transaction
    <3>3. KeyOK(c)'
      <4>1. x.writer => y.writer
        BY <1>1, <1>4, <3>2 DEF WriterOK
      <4> QED
        BY <1>1, <1>2, <1>3, <1>4, <2>2, <3>2, <4>1 DEF KeyOK
    <3>4. WriterOK(c)'
      BY <1>1, <1>2, <1>3, <1>7, <2>2, <3>2 DEF WriterOK, RowLocks
    <3>5. HolderOK(c)'
      BY <1>2, <2>2 DEF HolderOK, Holding
    <3>6. RowsOK(c)'
      BY <1>1, <1>3, <1>4, <3>2 DEF RowsOK
    <3>7. ViewOK(c)'
      BY <1>1, <1>3, <1>4, <2>6, <3>2, ViewKept
    <3> QED
      BY <1>1, <1>2, <1>3, <1>4, <2>2, <3>2, <3>3, <3>4, <3>5, <3>6, <3>7
      DEF Local, Acts, PassOK
  <2> QED
    BY <2>5, <2>6
<1> QED
  BY <1>9, <1>10

LEMMA EnqueueActs ==
  ASSUME DataInv, NEW c \in Callers, Enqueue(c), retried' = retried
  PROVE  Acts(c)
<1>1. PICK x, y : x = tx[c] /\ y = tx'[c]
  OBVIOUS
<1>2. PICK k, m : k = call[c] /\ m = call'[c]
  OBVIOUS
<1>3. /\ TypeOK /\ engine' = engine /\ x \in Transaction /\ k \in Call /\ k.at = "enqueueing"
      /\ m = NoCall
  BY <1>1, <1>2, Types DEF Enqueue, DataInv, TypeOK
<1>4. m \in Call /\ m.at = "idle" /\ m.holder = None /\ m.tries = 0
  BY <1>3, NoCallIs
<1>5. PassOK(c)'
  BY <1>2, <1>4, UniqueAssumption DEF PassOK
<1>6. PICK t \in Tasks :
        /\ status[t] = "absent"
        /\ IF c \in Ambient
           THEN tx' = [tx EXCEPT ![c].key = t] /\ UNCHANGED rows
           ELSE Commits(c, NoTx, {t}, TRUE)
  BY DEF Enqueue
<1>7. CASE c \notin Ambient
  <2>1. tx'[c] = NoTx
    BY <1>6, <1>7 DEF Commits
  <2> QED
    BY <1>2, <1>4, <1>5, <2>1, NoTxIs, FreshLocal DEF Fresh, Acts
<1>8. CASE c \in Ambient
  <2>1. y = [x EXCEPT !.key = t] /\ lock' = lock /\ status' = status
    BY <1>1, <1>3, <1>6, <1>8 DEF TypeOK, rows
  <2>2. /\ y \in Transaction /\ y.key = t /\ y.rows = x.rows /\ y.writer = x.writer
        /\ y.view = x.view /\ y.changed = x.changed /\ y.keyChanged = x.keyChanged
    BY <1>3, <2>1 DEF Transaction
  <2>3. KeyOK(c) /\ WriterOK(c) /\ RowsOK(c) /\ ViewOK(c)
    BY DEF DataInv, Local
  <2>4. x.key = Unnamed
    BY <1>1, <1>2, <1>3, <2>3 DEF KeyOK
  <2>5. t # None /\ t # Same /\ t # Unnamed
    BY UniqueAssumption
  <2>6. KeyOK(c)'
    BY <1>1, <1>2, <1>4, <1>6, <1>8, <2>1, <2>2, <2>3, <2>4, <2>5, UniqueAssumption DEF KeyOK
  <2>7. WriterOK(c)'
    BY <1>1, <1>2, <1>3, <1>4, <2>2, <2>3, <2>4, UniqueAssumption DEF WriterOK, RowLocks
  <2>8. HolderOK(c)'
    BY <1>2, <1>4 DEF HolderOK, Holding
  <2>9. RowsOK(c)'
    BY <1>1, <1>3, <2>1, <2>2, <2>3, <2>4, UniqueAssumption DEF RowsOK, Transaction
  <2>10. ViewOK(c)'
    BY <1>1, <1>3, <1>8, <2>1, <2>2, <2>3, ViewKept
  <2> QED
    BY <1>1, <1>2, <1>4, <1>5, <2>2, <2>6, <2>7, <2>8, <2>9, <2>10 DEF Local, Acts
<1> QED
  BY <1>7, <1>8

\* The ends of a transaction, with the call or without it.
LEMMA OverActs ==
  ASSUME DataInv, NEW c \in Callers, Abort(c) \/ CallerCommits(c) \/ End(c), retried' = retried
  PROVE  Acts(c)
<1>1. TypeOK /\ HolderOK(c) /\ PassOK(c) /\ call[c] \in Call /\ tx[c] \in Transaction
  BY Types DEF DataInv, Local
<1>2. CASE Abort(c)
  <2>1. call'[c] = NoCall /\ tx'[c] = NoTx
    BY <1>1, <1>2 DEF Abort, TypeOK
  <2>2. Local(c)'
    BY <2>1, NoCallIs, NoTxIs, FreshLocal DEF Fresh
  <2> QED
    BY <2>1, <2>2, NoCallIs, NoTxIs, UniqueAssumption DEF Acts, PassOK
<1>3. CASE CallerCommits(c)
  <2>1. call'[c] = call[c] /\ tx'[c] = NoTx /\ call[c].at = "idle"
    BY <1>3 DEF CallerCommits, Commits
  <2>2. call[c].holder = None
    BY <1>1, <2>1 DEF HolderOK
  <2>3. Local(c)'
    BY <1>1, <2>1, <2>2, NoTxIs, FreshLocal DEF Fresh
  <2> QED
    BY <1>1, <2>1, <2>3, NoTxIs DEF Acts, PassOK
<1>4. CASE End(c)
  <2>1. /\ call'[c] = NoCall /\ tx'[c] = tx[c]
        /\ call[c].at \in {"answered", "raced", "gave up"}
        /\ engine' = engine /\ lock' = lock /\ status' = status
    BY <1>1, <1>4 DEF End, TypeOK, rows
  <2>2. ViewOK(c)
    BY DEF DataInv, Local
  <2>3. c \notin Ambient => tx[c].view = {} /\ ~tx[c].writer
    BY <2>1, <2>2 DEF ViewOK
  <2>4. Local(c)'
    BY <2>1, <2>3, NoCallIs, KeptLocal
  <2>5. 0 < MAX_UNIQUE_ATTEMPTS
    BY UniqueAssumption
  <2>6. PassOK(c)'
    BY <2>1, <2>5, NoCallIs DEF PassOK
  <2> QED
    BY <1>1, <2>1, <2>4, <2>6, NoCallIs DEF Acts
<1> QED
  BY <1>2, <1>3, <1>4

\* A pass is over.
LEMMA PassActs ==
  ASSUME DataInv, NEW c \in Callers, NextPass(c), engine' = engine,
         call[c].at \notin {"idle", "answered", "raced", "gave up"},
         \/ Fresh(tx'[c]) /\ tx'[c] \in Transaction
         \/ /\ c \in Ambient /\ call[c].at # "enqueueing"
            /\ tx'[c] = tx[c] /\ lock' = lock /\ status' = status /\ retried' = retried
  PROVE  Acts(c)
<1>1. TypeOK /\ PassOK(c) /\ tx[c] \in Transaction
  BY Types DEF DataInv
<1>2. call[c].tries < MAX_UNIQUE_ATTEMPTS
  BY <1>1 DEF PassOK
<1>3. /\ call'[c] \in Call /\ call'[c].holder = None /\ call'[c].at \in {"inserting", "gave up"}
      /\ PassOK(c)'
  BY <1>1, <1>2, NextPassIs
<1>4. Local(c)'
  BY <1>3, FreshLocal, KeptLocal
<1> QED
  BY <1>1, <1>3, <1>4 DEF Acts

LEMMA RaceActs ==
  ASSUME DataInv, NEW c \in Callers, Race(c), retried' = retried,
         call[c].at \in {"inserting", "locking", "deleting"}
  PROVE  Acts(c)
<1>1. PICK x, y : x = tx[c] /\ y = tx'[c]
  OBVIOUS
<1>2. PICK k, m : k = call[c] /\ m = call'[c]
  OBVIOUS
<1>3. /\ TypeOK /\ engine' = engine /\ lock' = lock /\ status' = status
      /\ x \in Transaction /\ k \in Call /\ k.at \in {"inserting", "locking", "deleting"}
  BY <1>1, <1>2, Types DEF Race, rows, DataInv
<1>4. KeyOK(c) /\ WriterOK(c) /\ HolderOK(c) /\ RowsOK(c) /\ ViewOK(c)
  BY DEF DataInv, Local
<1>5. m = [k EXCEPT !.at = "raced", !.holder = None]
  BY <1>2, <1>3 DEF Race, TypeOK
<1>6. m \in Call /\ m.at = "raced" /\ m.holder = None
  BY <1>3, <1>5 DEF Call
<1>7. PICK locked \in {x.rows, x.rows \ {k.holder}} :
        tx' = [tx EXCEPT ![c] = IF c \in Ambient THEN [@ EXCEPT !.rows = locked] ELSE NoTx]
  BY <1>1, <1>2 DEF Race
<1>8. PassOK(c)'
  BY <1>2, <1>6 DEF PassOK
<1>9. CASE c \notin Ambient
  <2>1. tx'[c] = NoTx
    BY <1>3, <1>7, <1>9 DEF TypeOK
  <2> QED
    BY <1>2, <1>6, <1>8, <2>1, NoTxIs, FreshLocal DEF Fresh, Acts
<1>10. CASE c \in Ambient
  <2>1. y = [x EXCEPT !.rows = locked] /\ locked \in SUBSET Tasks
    BY <1>1, <1>3, <1>7, <1>10 DEF TypeOK, Transaction
  <2>2. /\ y \in Transaction /\ y.key = x.key /\ y.rows = locked /\ y.writer = x.writer
        /\ y.view = x.view /\ y.changed = x.changed /\ y.keyChanged = x.keyChanged
    BY <1>3, <2>1 DEF Transaction
  <2>3. x.key # Same /\ lock # None => k.holder # lock
    <3>1. x.key # Same /\ k.holder \in Tasks => status[k.holder] = "absent"
      BY <1>1, <1>2, <1>3, <1>4, UniqueAssumption DEF KeyOK, HolderOK, Holding
    <3>2. lock # None => status[lock] # "absent" /\ lock \in Tasks
      BY <1>3 DEF DataInv, TypeOK
    <3> QED
      BY <3>1, <3>2
  <2>4. KeyOK(c)'
    BY <1>1, <1>2, <1>3, <1>4, <1>6, <1>7, <1>10, <2>2, <2>3 DEF KeyOK
  <2>5. WriterOK(c)'
    BY <1>1, <1>2, <1>3, <1>4, <1>6, <2>2 DEF WriterOK, RowLocks
  <2>6. HolderOK(c)'
    BY <1>2, <1>6 DEF HolderOK, Holding
  <2>7. RowsOK(c)'
    BY <1>1, <1>3, <1>4, <1>7, <2>2 DEF RowsOK
  <2>8. ViewOK(c)'
    BY <1>1, <1>3, <1>4, <1>10, <2>2, ViewKept
  <2> QED
    BY <1>1, <1>2, <1>6, <1>8, <2>2, <2>4, <2>5, <2>6, <2>7, <2>8 DEF Local, Acts
<1> QED
  BY <1>9, <1>10

LEMMA RefusalActs ==
  ASSUME DataInv, NEW c \in Callers, SerializationFailure(c), retried' = retried,
         call[c].at \in {"locking", "deleting"}
  PROVE  Acts(c)
<1>1. CASE c \in Ambient
  BY <1>1, RaceActs DEF SerializationFailure
<1>2. CASE c \notin Ambient
  <2>1. NextPass(c) /\ engine' = engine /\ tx'[c] = NoTx
    BY <1>2 DEF SerializationFailure, BlockEnds, Kept, DataInv, TypeOK
  <2> QED
    BY <2>1, NoTxIs, PassActs DEF Fresh
<1> QED
  BY <1>1, <1>2

LEMMA FailureActs ==
  ASSUME DataInv, NEW c \in Callers, retried' = retried,
         GivesUpWaiting(c) \/ Reissue(c) \/ RefusedUpdate(c)
  PROVE  Acts(c)
<1>1. CASE GivesUpWaiting(c)
  <2>1. call[c].at \in {"inserting", "locking", "deleting"}
    BY <1>1 DEF GivesUpWaiting, Waits, BusySnapshot
  <2> QED
    BY <1>1, <2>1, RaceActs DEF GivesUpWaiting
<1>2. CASE Reissue(c)
  <2>1. /\ NextPass(c) /\ engine' = engine /\ tx'[c] = NoTx
        /\ call[c].at \notin {"idle", "answered", "raced", "gave up"}
    BY <1>2 DEF Reissue, BlockEnds, Kept, DataInv, TypeOK
  <2> QED
    BY <2>1, NoTxIs, PassActs DEF Fresh
<1>3. CASE RefusedUpdate(c)
  <2>1. PICK x, y : x = tx[c] /\ y = tx'[c]
    OBVIOUS
  <2>2. PICK k, m : k = call[c] /\ m = call'[c]
    OBVIOUS
  <2>3. /\ TypeOK /\ engine' = engine /\ lock' = lock /\ status' = status
        /\ x \in Transaction /\ k \in Call /\ k.at = "enqueueing" /\ c \in Ambient /\ Refuses
    BY <1>3, <2>1, <2>2, Types DEF RefusedUpdate, rows, DataInv
  <2>4. KeyOK(c) /\ WriterOK(c) /\ HolderOK(c) /\ RowsOK(c) /\ ViewOK(c)
    BY DEF DataInv, Local
  <2>5. m = [k EXCEPT !.at = "raced"]
    BY <1>3, <2>2, <2>3 DEF RefusedUpdate, Goes, TypeOK
  <2>6. m \in Call /\ m.at = "raced"
    BY <2>3, <2>5 DEF Call
  <2>7. y = [x EXCEPT !.key = IF lock = None THEN Same ELSE None]
    BY <1>3, <2>1, <2>3 DEF RefusedUpdate, TypeOK
  <2>8. PICK n : n = IF lock = None THEN Same ELSE None
    OBVIOUS
  <2>9. /\ y \in Transaction /\ y.key = n /\ y.rows = x.rows /\ y.writer = x.writer
        /\ y.view = x.view /\ y.changed = x.changed /\ y.keyChanged = x.keyChanged
    BY <2>3, <2>7, <2>8 DEF Transaction
  <2>10. x.key = Unnamed
    BY <2>1, <2>2, <2>3, <2>4 DEF KeyOK
  <2>11. n \notin Tasks /\ n # Unnamed /\ (n = None => lock # None)
    BY <2>8, UniqueAssumption
  <2>12. KeyOK(c)'
    BY <2>1, <2>2, <2>3, <2>4, <2>6, <2>9, <2>10, <2>11, UniqueAssumption DEF KeyOK
  <2>13. WriterOK(c)'
    BY <2>1, <2>2, <2>3, <2>4, <2>6, <2>9 DEF WriterOK, RowLocks, Refuses
  <2>14. HolderOK(c)'
    BY <2>2, <2>6 DEF HolderOK, Holding
  <2>15. RowsOK(c)'
    BY <2>1, <2>3, <2>4, <2>9, <2>10, UniqueAssumption DEF RowsOK, Transaction
  <2>16. ViewOK(c)'
    BY <2>1, <2>3, <2>4, <2>9, ViewKept
  <2>17. PassOK(c)'
    BY <2>2, <2>6 DEF PassOK
  <2> QED
    BY <2>1, <2>2, <2>6, <2>9, <2>12, <2>13, <2>14, <2>15, <2>16, <2>17 DEF Local, Acts
<1> QED
  BY <1>1, <1>2, <1>3

\* What a plain read finds: the snapshot, or the database, of which holds what holds
\* of a snapshot.
LEMMA ReadsAreSeen ==
  ASSUME DataInv, NEW c \in Callers, NEW db \in ReadsFrom(c)
  PROVE  /\ db \in Database
         /\ db.lock # None => db.status[db.lock] # "absent"
         /\ \A t \in Tasks : /\ db.status[t] # "absent" => status[t] # "absent"
                             /\ db.status[t] = "gone" => status[t] = "gone"
                             /\ db.status[t] = "settled" /\ status[t] = "pending" => t \in retried
         /\ \/ tx[c].view = {} /\ db = Committed
            \/ tx[c].view = {db}
<1>1. TypeOK /\ ViewOK(c)
  BY DEF DataInv, Local
<1>2. db \in Database /\ tx[c] \in Transaction
  BY <1>1, Types
<1>3. CASE tx[c].view = {}
  <2>1. db = Committed
    BY <1>3 DEF ReadsFrom
  <2>2. db.lock = lock /\ db.status = status
    BY <2>1 DEF Committed
  <2>3. lock # None => status[lock] # "absent"
    BY DEF DataInv
  <2> QED
    BY <1>2, <1>3, <2>1, <2>2, <2>3
<1>4. CASE tx[c].view # {}
  <2>1. db \in tx[c].view
    BY <1>4 DEF ReadsFrom
  <2>2. tx[c].view = {db}
    BY <1>1, <2>1 DEF ViewOK
  <2> QED
    BY <1>1, <1>2, <2>1, <2>2 DEF ViewOK
<1> QED
  BY <1>3, <1>4

LEMMA ReadLockActs ==
  ASSUME DataInv, NEW c \in Callers, ReadLock(c), retried' = retried
  PROVE  Acts(c)
<1>1. PICK x, y : x = tx[c] /\ y = tx'[c]
  OBVIOUS
<1>2. PICK k, m : k = call[c] /\ m = call'[c]
  OBVIOUS
<1>3. /\ TypeOK /\ engine' = engine /\ lock' = lock /\ status' = status
      /\ x \in Transaction /\ k \in Call /\ k.at = "reading"
  BY <1>1, <1>2, Types DEF ReadLock, rows, DataInv
<1>4. KeyOK(c) /\ WriterOK(c) /\ HolderOK(c) /\ RowsOK(c) /\ ViewOK(c) /\ PassOK(c)
  BY DEF DataInv, Local
<1>5. PICK db \in ReadsFrom(c) :
        LET next == IF engine.snapshots /\ RowLocks THEN [tx[c] EXCEPT !.view = {db}]
                    ELSE tx[c]
        IN  IF KeyIn(c, db) = None
            THEN /\ NextPass(c)
                 /\ tx' = [tx EXCEPT ![c] = IF c \in Ambient THEN next ELSE NoTx]
            ELSE /\ call' = [call EXCEPT ![c].at = "deciding", ![c].holder = KeyIn(c, db)]
                 /\ tx' = [tx EXCEPT ![c] = next]
  BY DEF ReadLock
<1>6. PICK z : z = IF engine.snapshots /\ RowLocks THEN [x EXCEPT !.view = {db}] ELSE x
  OBVIOUS
<1>7. /\ KeyIn(c, db) = None =>
           NextPass(c) /\ tx' = [tx EXCEPT ![c] = IF c \in Ambient THEN z ELSE NoTx]
      /\ KeyIn(c, db) # None =>
           /\ call' = [call EXCEPT ![c].at = "deciding", ![c].holder = KeyIn(c, db)]
           /\ tx' = [tx EXCEPT ![c] = z]
  BY <1>1, <1>5, <1>6
<1>8. /\ db \in Database
      /\ db.lock # None => db.status[db.lock] # "absent"
      /\ \A t \in Tasks : db.status[t] # "absent" => status[t] # "absent"
      /\ \/ x.view = {} /\ db = Committed
         \/ x.view = {db}
  BY <1>1, ReadsAreSeen
<1>9. /\ z \in Transaction /\ z.key = x.key /\ z.rows = x.rows /\ z.writer = x.writer
      /\ z.view = IF engine.snapshots /\ RowLocks THEN {db} ELSE x.view
      /\ z.changed = x.changed /\ z.keyChanged = x.keyChanged
  BY <1>3, <1>6, <1>8 DEF Transaction
<1>10. c \notin Ambient => x.view = {} /\ ~x.writer
  BY <1>1, <1>2, <1>3, <1>4 DEF ViewOK
<1>11. x.view = {} => x.changed = {} /\ x.keyChanged = FALSE
  BY <1>1, <1>3, <1>4 DEF ViewOK, Transaction
\* What the view is, it is a snapshot of the database as before, or as it is now.
<1>12. ASSUME y = z, c \notin Ambient => m.at = "deciding"
       PROVE  ViewOK(c)'
  <2>1. CASE y.view = x.view
    BY <1>1, <1>2, <1>3, <1>4, <1>9, <1>10, <1>12, <2>1, ViewKept
  <2>2. CASE y.view # x.view
    <3>1. engine.snapshots /\ RowLocks /\ y.view = {Committed} /\ x.view = {}
      BY <1>8, <1>9, <1>12, <2>2
    <3> QED
      BY <1>1, <1>2, <1>3, <1>9, <1>10, <1>11, <1>12, <3>1, ViewTaken
  <2> QED
    BY <2>1, <2>2
<1>13. CASE KeyIn(c, db) = None
  <2>1. CASE c \notin Ambient
    <3>1. tx'[c] = NoTx
      BY <1>3, <1>7, <1>13, <2>1 DEF TypeOK
    <3> QED
      BY <1>2, <1>3, <1>7, <1>13, <3>1, NoTxIs, PassActs DEF Fresh
  <2>2. CASE c \in Ambient
    <3>1. y = z
      BY <1>1, <1>3, <1>7, <1>13, <2>2 DEF TypeOK
    <3>2. k.tries < MAX_UNIQUE_ATTEMPTS
      BY <1>2, <1>3, <1>4 DEF PassOK
    <3>3. m \in Call /\ m.holder = None /\ m.at \in {"inserting", "gave up"} /\ PassOK(c)'
      BY <1>2, <1>3, <1>7, <1>13, <3>2, NextPassIs
    <3>4. KeyOK(c)'
      BY <1>1, <1>2, <1>3, <1>4, <1>9, <3>1, <3>3, <2>2 DEF KeyOK
    <3>5. WriterOK(c)'
      BY <1>1, <1>2, <1>3, <1>4, <1>9, <3>1, <3>3 DEF WriterOK, RowLocks
    <3>6. HolderOK(c)'
      BY <1>2, <3>3 DEF HolderOK, Holding
    <3>7. RowsOK(c)'
      BY <1>1, <1>3, <1>4, <1>9, <3>1 DEF RowsOK
    <3> QED
      BY <1>1, <1>2, <1>9, <1>12, <2>2, <3>1, <3>3, <3>4, <3>5, <3>6, <3>7 DEF Local, Acts
  <2> QED
    BY <2>1, <2>2
<1>14. CASE KeyIn(c, db) # None
  <2>1. PICK h : h = KeyIn(c, db)
    OBVIOUS
  <2>2. m = [k EXCEPT !.at = "deciding", !.holder = h]
    BY <1>2, <1>3, <1>7, <1>14, <2>1 DEF TypeOK
  <2>3. x.key # Unnamed
    BY <1>1, <1>2, <1>3, <1>4 DEF KeyOK
  <2>4. /\ h \in Tasks
        /\ h = IF x.key = Same THEN db.lock ELSE x.key
    BY <1>1, <1>3, <1>8, <1>14, <2>1, <2>3 DEF KeyIn, Transaction, Database
  <2>5. m \in Call /\ m.at = "deciding" /\ m.holder = h /\ m.tries = k.tries
    BY <1>3, <2>2, <2>4 DEF Call
  <2>6. y = z
    BY <1>1, <1>3, <1>7, <1>14 DEF TypeOK
  <2>7. KeyOK(c)'
    BY <1>1, <1>2, <1>3, <1>4, <1>9, <2>5, <2>6 DEF KeyOK
  <2>8. WriterOK(c)'
    BY <1>1, <1>2, <1>3, <1>4, <1>9, <2>5, <2>6 DEF WriterOK, RowLocks
  <2>9. HolderOK(c)'
    <3>1. x.key # Same => h = x.key
      BY <2>4
    <3>2. status[h] # "absent" \/ h = x.key
      BY <1>8, <2>4, UniqueAssumption
    <3>3. \A d \in z.view : d = db
      BY <1>8, <1>9
    <3>4. engine.snapshots /\ RowLocks => z.view # {}
      BY <1>9
    <3> QED
      BY <1>1, <1>2, <1>3, <1>9, <2>4, <2>5, <2>6, <3>1, <3>2, <3>3, <3>4
      DEF HolderOK, Holding, KeyIn, RowLocks
  <2>10. RowsOK(c)'
    BY <1>1, <1>3, <1>4, <1>9, <2>6 DEF RowsOK
  <2>11. PassOK(c)'
    BY <1>2, <1>3, <1>4, <2>5 DEF PassOK
  <2> QED
    BY <1>1, <1>2, <1>9, <1>12, <2>5, <2>6, <2>7, <2>8, <2>9, <2>10, <2>11 DEF Local, Acts
<1> QED
  BY <1>13, <1>14

\* The steps that leave the transaction alone and only move the call on.
LEMMA GoesOnActs ==
  ASSUME DataInv, NEW c \in Callers, NEW step, Goes(c, step), tx'[c] = tx[c],
         engine' = engine, lock' = lock, status' = status, retried' = retried,
         call[c].at \in {"deciding", "checking", "asking"},
         step \in {"checking", "asking", "locking", "deleting", "answered", "raced"},
         \/ c \in Ambient
         \/ call[c].at = "deciding" /\ step \in {"locking", "deleting"}
         \/ tx[c].view = {},
         step \in {"checking", "asking"} => InSnapshot(c) /\ RowLocks,
         step = "checking" =>
           /\ Refuses /\ tx[c].view # {}
           /\ \A db \in tx[c].view : StatusIn(c, db, call[c].holder) = "pending",
         step = "locking" =>
           /\ RowLocks
           /\ \/ call[c].holder = tx[c].key
              \/ status[call[c].holder] = "pending" => call[c].holder \in retried,
         step = "deleting" => \/ ~RowLocks /\ call[c].at = "deciding"
                              \/ status[call[c].holder] = "gone"
  PROVE  Acts(c)
<1>1. PICK x : x = tx[c]
  OBVIOUS
<1>2. PICK k, m : k = call[c] /\ m = call'[c]
  OBVIOUS
<1>3. TypeOK /\ x \in Transaction /\ k \in Call
  BY <1>1, <1>2, Types DEF DataInv
<1>4. KeyOK(c) /\ WriterOK(c) /\ HolderOK(c) /\ RowsOK(c) /\ ViewOK(c) /\ PassOK(c)
  BY DEF DataInv, Local
<1>5. m = [k EXCEPT !.at = step]
  BY <1>2, <1>3 DEF Goes, TypeOK
<1>6. m \in Call /\ m.at = step /\ m.holder = k.holder /\ m.tries = k.tries
  BY <1>3, <1>5 DEF Call
<1>7. tx'[c] = x
  BY <1>1
<1>8. KeyOK(c)'
  BY <1>1, <1>2, <1>4, <1>6, <1>7 DEF KeyOK
<1>9. WriterOK(c)'
  <2>1. ~RowLocks => k.at = "deciding"
    BY <1>2, <1>4 DEF HolderOK
  <2> QED
    BY <1>1, <1>2, <1>4, <1>6, <1>7, <2>1 DEF WriterOK, RowLocks
<1>10. /\ k.holder \in Tasks
       /\ x.key # Same => k.holder = x.key
       /\ status[k.holder] # "absent" \/ k.holder = x.key
  BY <1>1, <1>2, <1>4 DEF HolderOK, Holding
<1>11. HolderOK(c)'
  <2>1. PICK h : h = k.holder
    OBVIOUS
  <2>2. m.at = "locking" => \/ h = x.key
                            \/ status[h] = "pending" => h \in retried
    BY <1>1, <1>2, <1>6, <2>1
  <2>3. m.at = "checking" =>
          /\ Refuses /\ x.view # {}
          /\ \A db \in x.view : "pending" = IF x.key = h THEN "pending" ELSE db.status[h]
    BY <1>1, <1>2, <1>6, <2>1 DEF StatusIn
  <2>4. m.at = "deleting" => ~RowLocks \/ status[h] = "gone"
    BY <1>2, <1>6, <2>1
  <2>5. RowLocks' = RowLocks /\ Refuses' = Refuses /\ InSnapshot(c)' = InSnapshot(c)
    BY DEF RowLocks, Refuses, InSnapshot
  <2> QED
    BY <1>1, <1>2, <1>6, <1>7, <1>10, <2>1, <2>2, <2>3, <2>4, <2>5 DEF HolderOK, Holding, StatusIn
<1>12. RowsOK(c)'
  BY <1>1, <1>4, <1>7 DEF RowsOK
<1>13. ViewOK(c)'
  <2>1. c \notin Ambient => ~x.writer
    BY <1>1, <1>2, <1>4 DEF ViewOK
  <2> QED
    BY <1>1, <1>2, <1>4, <1>6, <1>7, <2>1, ViewKept
<1>14. PassOK(c)'
  BY <1>2, <1>4, <1>6 DEF PassOK
<1> QED
  BY <1>2, <1>3, <1>6, <1>7, <1>8, <1>9, <1>11, <1>12, <1>13, <1>14 DEF Local, Acts

\* A call of its own transaction that has its answer.
LEMMA AnswerActs ==
  ASSUME DataInv, NEW c \in Callers, Answer(c), Fresh(tx'[c]), tx'[c] \in Transaction,
         engine' = engine, lock' = lock, status' = status, retried' = retried,
         c \notin Ambient, call[c].at \in {"deciding", "locking"}
  PROVE  Acts(c)
<1>1. PICK k, m : k = call[c] /\ m = call'[c]
  OBVIOUS
<1>2. TypeOK /\ k \in Call /\ tx[c] \in Transaction /\ KeyOK(c) /\ HolderOK(c)
  BY <1>1, Types DEF DataInv, Local
<1>3. m = [k EXCEPT !.at = "answered"]
  BY <1>1, <1>2 DEF Answer, Goes, TypeOK
<1>4. m \in Call /\ m.at = "answered" /\ m.holder = k.holder
  BY <1>2, <1>3 DEF Call
<1>5. k.holder \in Tasks /\ (status[k.holder] # "absent" \/ k.holder = tx[c].key)
  BY <1>1, <1>2 DEF HolderOK, Holding
<1>6. tx[c].key \notin Tasks
  BY <1>2, UniqueAssumption DEF KeyOK
<1>7. Local(c)'
  BY <1>1, <1>4, <1>5, <1>6, FreshLocal
<1> QED
  BY <1>1, <1>4, <1>7 DEF Acts, PassOK

LEMMA ReadHolderActs ==
  ASSUME DataInv, NEW c \in Callers, ReadHolder(c), retried' = retried
  PROVE  Acts(c)
<1>1. PICK h : h = call[c].holder
  OBVIOUS
<1>2. /\ TypeOK /\ engine' = engine /\ lock' = lock /\ status' = status
      /\ tx[c] \in Transaction /\ call[c] \in Call /\ call[c].at = "deciding"
  BY Types DEF ReadHolder, rows, DataInv
<1>3. KeyOK(c) /\ WriterOK(c) /\ HolderOK(c) /\ RowsOK(c) /\ ViewOK(c)
  BY DEF DataInv, Local
<1>4. PICK db \in ReadsFrom(c) :
        LET found == StatusIn(c, db, call[c].holder)
        IN  IF found = "pending"
            THEN IF InSnapshot(c) /\ RowLocks
                 THEN /\ Goes(c, IF Refuses THEN "checking" ELSE "asking")
                      /\ UNCHANGED tx
                 ELSE Answer(c) /\ BlockEnds(c)
            ELSE /\ Goes(c, IF RowLocks /\ found # "gone" THEN "locking" ELSE "deleting")
                 /\ UNCHANGED tx
  BY DEF ReadHolder
<1>5. PICK found : found = IF tx[c].key = h THEN "pending" ELSE db.status[h]
  OBVIOUS
<1>6. /\ found = "pending" /\ InSnapshot(c) /\ RowLocks =>
           Goes(c, IF Refuses THEN "checking" ELSE "asking") /\ tx' = tx
      /\ found = "pending" /\ ~(InSnapshot(c) /\ RowLocks) => Answer(c) /\ BlockEnds(c)
      /\ found # "pending" =>
           Goes(c, IF RowLocks /\ found # "gone" THEN "locking" ELSE "deleting") /\ tx' = tx
  BY <1>1, <1>4, <1>5 DEF StatusIn
<1>7. /\ h \in Tasks
      /\ tx[c].key # Same => h = tx[c].key
      /\ status[h] # "absent" \/ h = tx[c].key
      /\ engine.snapshots /\ RowLocks => tx[c].view # {}
      /\ \A d \in tx[c].view : h = KeyIn(c, d)
  BY <1>1, <1>2, <1>3 DEF HolderOK, Holding
<1>8. /\ db \in Database
      /\ db.lock # None => db.status[db.lock] # "absent"
      /\ \A t \in Tasks : /\ db.status[t] = "gone" => status[t] = "gone"
                          /\ db.status[t] = "settled" /\ status[t] = "pending" => t \in retried
      /\ \/ tx[c].view = {} /\ db = Committed
         \/ tx[c].view = {db}
  BY ReadsAreSeen
<1>9. CASE found = "pending" /\ InSnapshot(c) /\ RowLocks
  <2>1. tx[c].view # {} /\ c \in Ambient
    BY <1>7, <1>9 DEF InSnapshot
  <2>2. \A d \in tx[c].view : StatusIn(c, d, call[c].holder) = "pending"
    BY <1>1, <1>5, <1>8, <1>9, <2>1 DEF StatusIn
  <2>3. CASE Refuses
    BY <1>2, <1>6, <1>9, <2>1, <2>2, <2>3, GoesOnActs
  <2>4. CASE ~Refuses
    BY <1>2, <1>6, <1>9, <2>1, <2>4, GoesOnActs
  <2> QED
    BY <2>3, <2>4
<1>10. CASE found = "pending" /\ ~(InSnapshot(c) /\ RowLocks)
  <2>1. CASE c \in Ambient
    <3>1. Goes(c, "answered") /\ tx'[c] = tx[c]
      BY <1>2, <1>6, <1>10, <2>1 DEF Answer, BlockEnds, Kept, TypeOK
    <3> QED
      BY <1>2, <2>1, <3>1, GoesOnActs
  <2>2. CASE c \notin Ambient
    <3>1. Answer(c) /\ tx'[c] = NoTx
      BY <1>2, <1>6, <1>10, <2>2 DEF BlockEnds, Kept, TypeOK
    <3> QED
      BY <1>2, <2>2, <3>1, NoTxIs, AnswerActs DEF Fresh
  <2> QED
    BY <2>1, <2>2
<1>11. CASE found # "pending"
  <2>1. tx[c].key = Same /\ found = db.status[h] /\ h # tx[c].key
    BY <1>5, <1>7, <1>11
  <2>2. db.status[h] # "absent"
    <3>1. CASE tx[c].view = {}
      BY <1>7, <1>8, <2>1, <3>1 DEF Committed
    <3>2. CASE tx[c].view = {db}
      BY <1>7, <1>8, <2>1, <3>2, UniqueAssumption DEF KeyIn
    <3> QED
      BY <1>8, <3>1, <3>2
  <2>3. db.status[h] \in Statuses
    BY <1>7, <1>8 DEF Database
  <2>4. CASE RowLocks /\ found # "gone"
    <3>1. status[h] = "pending" => h \in retried
      BY <1>7, <1>8, <1>11, <2>1, <2>2, <2>3, <2>4 DEF Statuses
    <3>2. Goes(c, "locking") /\ tx'[c] = tx[c]
      BY <1>6, <1>11, <2>4
    <3> QED
      BY <1>1, <1>2, <2>4, <3>1, <3>2, GoesOnActs
  <2>5. CASE ~(RowLocks /\ found # "gone")
    <3>1. ~RowLocks \/ status[h] = "gone"
      BY <1>7, <1>8, <2>1, <2>5
    <3>2. Goes(c, "deleting") /\ tx'[c] = tx[c]
      BY <1>6, <1>11, <2>5
    <3> QED
      BY <1>1, <1>2, <3>1, <3>2, GoesOnActs
  <2> QED
    BY <2>4, <2>5
<1> QED
  BY <1>9, <1>10, <1>11

LEMMA AskingActs ==
  ASSUME DataInv, NEW c \in Callers, CheckHolder(c) \/ ReadFresh(c) \/ ReadCommitted(c),
         retried' = retried
  PROVE  Acts(c)
<1>1. /\ TypeOK /\ engine' = engine /\ lock' = lock /\ status' = status /\ tx' = tx
      /\ call[c].at \in {"checking", "asking"}
  BY DEF CheckHolder, ReadFresh, ReadCommitted, rows, DataInv
<1>2. InSnapshot(c) /\ RowLocks /\ c \in Ambient
  BY <1>1 DEF DataInv, Local, HolderOK, InSnapshot
<1>3. CASE CheckHolder(c)
  BY <1>1, <1>2, <1>3, GoesOnActs DEF CheckHolder, Answer
<1>4. CASE ReadFresh(c)
  BY <1>1, <1>2, <1>4, GoesOnActs DEF ReadFresh, Answer
<1>5. CASE ReadCommitted(c)
  <2>1. CASE status[call[c].holder] = "pending"
    BY <1>1, <1>2, <1>5, <2>1, GoesOnActs DEF ReadCommitted, Answer
  <2>2. CASE status[call[c].holder] # "pending"
    BY <1>1, <1>2, <1>5, <2>2, GoesOnActs DEF ReadCommitted
  <2> QED
    BY <2>1, <2>2
<1> QED
  BY <1>3, <1>4, <1>5

LEMMA LockHolderActs ==
  ASSUME DataInv, NEW c \in Callers, LockHolder(c), retried' = retried
  PROVE  Acts(c)
<1>1. PICK x, y : x = tx[c] /\ y = tx'[c]
  OBVIOUS
<1>2. PICK k, m : k = call[c] /\ m = call'[c]
  OBVIOUS
<1>3. TypeOK /\ x \in Transaction /\ k \in Call /\ k.at = "locking"
  BY <1>1, <1>2, Types DEF LockHolder, DataInv
<1>4. KeyOK(c) /\ WriterOK(c) /\ HolderOK(c) /\ RowsOK(c) /\ ViewOK(c) /\ PassOK(c)
  BY DEF DataInv, Local
<1>5. CASE Refuses /\ k.holder \in x.changed
  <2>1. SerializationFailure(c)
    BY <1>1, <1>2, <1>5 DEF LockHolder
  <2> QED
    BY <1>2, <1>3, <2>1, RefusalActs
<1>6. CASE ~(Refuses /\ k.holder \in x.changed)
  <2>1. PICK t : t = k.holder
    OBVIOUS
  <2>2. PICK found : found = IF x.key = t THEN "pending" ELSE status[t]
    OBVIOUS
  <2>3. /\ IF found = "pending" THEN Answer(c) ELSE Goes(c, "deleting")
        /\ tx' = [tx EXCEPT ![c] = IF found = "pending" /\ c \notin Ambient THEN NoTx
                                   ELSE IF found = "gone" THEN x
                                   ELSE [x EXCEPT !.rows = x.rows \cup {t}]]
        /\ engine' = engine /\ lock' = lock /\ status' = status
    BY <1>1, <1>2, <1>6, <2>1, <2>2 DEF LockHolder, StatusIn, Committed, rows
  <2>4. /\ t \in Tasks
        /\ x.key # Same => t = x.key
        /\ status[t] # "absent" \/ t = x.key
        /\ RowLocks
        /\ \/ t = x.key
           \/ status[t] = "pending" => t \in retried
    BY <1>1, <1>2, <1>3, <1>4, <2>1 DEF HolderOK, Holding
  <2>5. CASE found = "pending" /\ c \notin Ambient
    <3>1. Answer(c) /\ tx'[c] = NoTx
      BY <1>3, <2>3, <2>5 DEF TypeOK
    <3> QED
      BY <1>2, <1>3, <2>3, <2>5, <3>1, NoTxIs, AnswerActs DEF Fresh
  <2>6. CASE ~(found = "pending" /\ c \notin Ambient)
    <3>1. PICK step : step = IF found = "pending" THEN "answered" ELSE "deleting"
      OBVIOUS
    <3>2. m = [k EXCEPT !.at = step]
      BY <1>2, <1>3, <2>3, <3>1 DEF Answer, Goes, TypeOK
    <3>3. m \in Call /\ m.at = step /\ m.holder = t /\ m.tries = k.tries
      BY <1>3, <2>1, <3>1, <3>2 DEF Call
    <3>4. PICK locked : locked = IF found = "gone" THEN x.rows ELSE x.rows \cup {t}
      OBVIOUS
    <3>5. /\ y \in Transaction /\ y.key = x.key /\ y.rows = locked /\ y.writer = x.writer
          /\ y.view = x.view /\ y.changed = x.changed /\ y.keyChanged = x.keyChanged
      <4>1. CASE found = "gone"
        BY <1>1, <1>3, <2>3, <2>6, <3>4, <4>1 DEF TypeOK
      <4>2. CASE found # "gone"
        <5>1. locked = x.rows \cup {t} /\ locked \in SUBSET Tasks
          BY <1>3, <2>4, <3>4, <4>2 DEF Transaction
        <5>2. y = [x EXCEPT !.rows = locked]
          BY <1>1, <1>3, <2>3, <2>6, <4>2, <5>1 DEF TypeOK
        <5> QED
          BY <1>3, <5>1, <5>2 DEF Transaction
      <4> QED
        BY <4>1, <4>2
    <3>6. step = "answered" => c \in Ambient
      BY <2>6, <3>1
    <3>7. x.key = Same \/ x.key \in Tasks
      BY <2>4
    <3>8. KeyOK(c)'
      BY <1>1, <1>2, <1>3, <1>4, <2>3, <3>1, <3>3, <3>4, <3>5 DEF KeyOK
    <3>9. WriterOK(c)'
      BY <1>1, <1>2, <1>3, <1>4, <2>3, <2>4, <3>5 DEF WriterOK, RowLocks
    <3>10. HolderOK(c)'
      <4>1. step = "deleting" => status[t] = "gone" \/ t \in locked
        BY <2>2, <3>1, <3>4
      <4> QED
        BY <1>1, <1>2, <2>3, <2>4, <3>1, <3>3, <3>5, <4>1 DEF HolderOK, Holding
    <3>11. RowsOK(c)'
      <4>1. status[t] = "pending" => t \in retried \/ found = "gone" \/ x.key = t
        BY <2>4
      <4>2. x.key = t => status[t] = "absent"
        BY <1>1, <1>4, <2>4 DEF KeyOK
      <4>3. \A s \in locked : /\ status[s] = "pending" => s \in retried
                              /\ status[s] # "absent" \/ x.key = s
        BY <1>1, <1>4, <2>4, <3>4, <4>2 DEF RowsOK
      <4> QED
        BY <1>1, <2>3, <3>5, <4>3 DEF RowsOK
    <3>12. ViewOK(c)'
      <4>1. c \notin Ambient => ~x.writer
        BY <1>1, <1>2, <1>3, <1>4 DEF ViewOK
      <4> QED
        BY <1>1, <1>2, <1>3, <1>4, <2>3, <3>1, <3>3, <3>5, <3>6, <4>1, ViewKept
    <3>13. PassOK(c)'
      BY <1>2, <1>3, <1>4, <3>3 DEF PassOK
    <3> QED
      BY <1>1, <1>2, <3>3, <3>5, <3>8, <3>9, <3>10, <3>11, <3>12, <3>13 DEF Local, Acts
  <2> QED
    BY <2>5, <2>6
<1> QED
  BY <1>5, <1>6

LEMMA DeleteLockActs ==
  ASSUME DataInv, NEW c \in Callers, DeleteLock(c), retried' = retried
  PROVE  Acts(c)
<1>1. PICK x, y : x = tx[c] /\ y = tx'[c]
  OBVIOUS
<1>2. PICK k, m : k = call[c] /\ m = call'[c]
  OBVIOUS
<1>3. TypeOK /\ x \in Transaction /\ k \in Call /\ k.at = "deleting"
  BY <1>1, <1>2, Types DEF DeleteLock, DataInv
<1>4. KeyOK(c) /\ WriterOK(c) /\ HolderOK(c) /\ RowsOK(c) /\ ViewOK(c) /\ PassOK(c)
  BY DEF DataInv, Local
<1>5. CASE Refuses /\ x.keyChanged
  <2>1. SerializationFailure(c)
    BY <1>1, <1>5 DEF DeleteLock
  <2> QED
    BY <1>2, <1>3, <2>1, RefusalActs
<1>6. CASE ~(Refuses /\ x.keyChanged)
  <2>1. /\ NextPass(c) /\ engine' = engine /\ status' = status
        /\ IF Released(c) /\ c \notin Ambient
           THEN lock' = None /\ Commits(c, NoTx, {}, TRUE)
           ELSE /\ tx' = [tx EXCEPT ![c] =
                            IF Released(c) THEN [@ EXCEPT !.key = None] ELSE Kept(c)]
                /\ lock' = lock
    BY <1>1, <1>6 DEF DeleteLock
  <2>2. CASE c \notin Ambient
    <3>1. tx'[c] = NoTx
      BY <1>3, <2>1, <2>2 DEF Commits, Kept, TypeOK
    <3> QED
      BY <1>2, <1>3, <2>1, <3>1, NoTxIs, PassActs DEF Fresh
  <2>3. CASE c \in Ambient /\ ~Released(c)
    <3>1. tx'[c] = tx[c]
      BY <1>3, <2>1, <2>3 DEF Kept, TypeOK
    <3> QED
      BY <1>2, <1>3, <2>1, <2>3, <3>1, PassActs
  <2>4. CASE c \in Ambient /\ Released(c)
    <3>1. y = [x EXCEPT !.key = None] /\ lock' = lock
      BY <1>1, <1>3, <2>1, <2>4 DEF TypeOK
    <3>2. /\ y \in Transaction /\ y.key = None /\ y.rows = x.rows /\ y.writer = x.writer
          /\ y.view = x.view /\ y.changed = x.changed /\ y.keyChanged = x.keyChanged
      BY <1>3, <3>1 DEF Transaction
    <3>3. k.tries < MAX_UNIQUE_ATTEMPTS
      BY <1>2, <1>3, <1>4 DEF PassOK
    <3>4. m \in Call /\ m.holder = None /\ m.at \in {"inserting", "gave up"} /\ PassOK(c)'
      BY <1>2, <1>3, <2>1, <3>3, NextPassIs
    <3>5. k.holder \in Tasks
      BY <1>2, <1>3, <1>4 DEF HolderOK, Holding
    <3>6. /\ x.key = Same => lock = k.holder
          /\ x.key # Same => x.key = k.holder
          /\ x.key # k.holder /\ status[k.holder] # "pending"
      BY <1>1, <1>2, <2>4 DEF Released, KeyIn, StatusIn, Committed
    <3>7. x.key = Same /\ lock = k.holder /\ status[lock] # "pending"
      BY <3>6
    <3>8. status[lock] = "gone" \/ lock \in x.rows \/ x.writer
      BY <1>1, <1>2, <1>3, <1>4, <2>4, <3>7 DEF HolderOK, WriterOK
    <3>9. KeyOK(c)'
      BY <1>1, <1>2, <2>1, <2>4, <3>1, <3>2, <3>4, <3>5, <3>7, <3>8, UniqueAssumption DEF KeyOK
    <3>10. WriterOK(c)'
      BY <1>1, <1>2, <1>3, <1>4, <2>1, <2>4, <3>2, <3>4 DEF WriterOK, RowLocks
    <3>11. HolderOK(c)'
      BY <1>2, <3>4 DEF HolderOK, Holding
    <3>12. RowsOK(c)'
      BY <1>1, <1>3, <1>4, <2>1, <3>2, <3>7, UniqueAssumption DEF RowsOK, Transaction
    <3>13. ViewOK(c)'
      BY <1>1, <1>3, <1>4, <2>1, <2>4, <3>1, <3>2, ViewKept
    <3> QED
      BY <1>1, <1>2, <3>2, <3>4, <3>9, <3>10, <3>11, <3>12, <3>13 DEF Local, Acts
  <2> QED
    BY <2>2, <2>3, <2>4
<1> QED
  BY <1>5, <1>6

LEMMA CallActs ==
  ASSUME DataInv, NEW c \in Callers, CallStep(c) \/ Reissue(c), retried' = retried
  PROVE  Acts(c)
BY CallerReadsActs, BeginActs, InsertActs, EnqueueActs, ReadLockActs, ReadHolderActs, AskingActs,
   LockHolderActs, DeleteLockActs, FailureActs, OverActs DEF CallStep
-----------------------------------------------------------------------------
(* The key, and the invariant of the database.                             *)

\* Who comes to hold the lock row found nobody else at it.
LEMMA HoldsAlone ==
  ASSUME DataInv, NEW c \in Callers, CallStep(c) \/ Reissue(c),
         tx'[c].key # Same \/ tx'[c].writer
  PROVE  \/ tx[c].key # Same \/ tx[c].writer
         \/ \A u \in Callers \ {c} : tx[u].key = Same /\ ~tx[u].writer
<1>1. TypeOK /\ tx[c] \in Transaction
  BY Types DEF DataInv
<1>2. PICK x : x = tx[c]
  OBVIOUS
<1>3. CASE call[c].at \in {"inserting", "deleting"} /\ ~Waits(c)
  BY <1>3 DEF Waits
<1>4. ~(call[c].at \in {"inserting", "deleting"} /\ ~Waits(c)) =>
        \/ Fresh(tx'[c])
        \/ tx'[c].key = x.key /\ tx'[c].writer = x.writer
        \/ x.key # Same
  <2>1. SUFFICES ASSUME ~(call[c].at \in {"inserting", "deleting"} /\ ~Waits(c))
                 PROVE  \/ Fresh(tx'[c])
                        \/ tx'[c].key = x.key /\ tx'[c].writer = x.writer
                        \/ x.key # Same
    OBVIOUS
  <2>2. Fresh(NoTx)
    BY NoTxIs DEF Fresh
  <2>3. Race(c) => \/ Fresh(tx'[c])
                   \/ tx'[c].key = x.key /\ tx'[c].writer = x.writer
    BY <1>1, <1>2, <2>2 DEF Race, TypeOK, Transaction
  <2>4. SerializationFailure(c) => \/ Fresh(tx'[c])
                                   \/ tx'[c].key = x.key /\ tx'[c].writer = x.writer
    BY <1>1, <1>2, <2>2, <2>3 DEF SerializationFailure, BlockEnds, Kept, TypeOK
  <2>5. CASE CallerReads(c) \/ Begin(c)
    BY <1>1, <1>2, <2>5 DEF CallerReads, Begin, TypeOK, Transaction
  <2>6. CASE Insert(c) \/ DeleteLock(c)
    BY <2>1, <2>6 DEF Insert, DeleteLock
  <2>7. CASE Enqueue(c) \/ RefusedUpdate(c)
    BY <1>2, <2>7, UniqueAssumption DEF Enqueue, RefusedUpdate, DataInv, Local, KeyOK
  <2>8. CASE ReadLock(c)
    <3>1. PICK next : /\ next.key = x.key /\ next.writer = x.writer
                      /\ tx'[c] = next \/ tx'[c] = NoTx
      BY <1>1, <1>2, <2>8 DEF ReadLock, TypeOK, Transaction
    <3> QED
      BY <2>2, <3>1
  <2>9. CASE ReadHolder(c)
    BY <1>1, <1>2, <2>2, <2>9 DEF ReadHolder, BlockEnds, Kept, TypeOK
  <2>10. CASE CheckHolder(c) \/ ReadFresh(c) \/ ReadCommitted(c) \/ End(c)
    BY <1>1, <1>2, <2>10 DEF CheckHolder, ReadFresh, ReadCommitted, End, TypeOK
  <2>11. CASE LockHolder(c)
    BY <1>1, <1>2, <2>2, <2>4, <2>11 DEF LockHolder, TypeOK, Transaction
  <2>12. CASE GivesUpWaiting(c)
    BY <2>3, <2>12 DEF GivesUpWaiting
  <2>13. CASE CallerCommits(c) \/ Abort(c) \/ Reissue(c)
    BY <1>1, <2>2, <2>13
    DEF CallerCommits, Abort, Reissue, BlockEnds, Kept, Commits, TypeOK
  <2> QED
    BY <2>5, <2>6, <2>7, <2>8, <2>9, <2>10, <2>11, <2>12, <2>13 DEF CallStep
<1> QED
  BY <1>2, <1>3, <1>4 DEF Fresh

\* The calls and transactions stay functions of the callers.
LEMMA Functional ==
  ASSUME TypeOK, NEW c \in Callers, CallStep(c) \/ Reissue(c)
  PROVE  /\ call' = [u \in Callers |-> call'[u]]
         /\ tx' = [u \in Callers |-> tx'[u]]
<1>1. /\ call = [u \in Callers |-> call[u]] /\ tx = [u \in Callers |-> tx[u]]
      /\ DOMAIN call = Callers /\ DOMAIN tx = Callers
  BY DEF TypeOK
<1>2. NextPass(c) => call' = [u \in Callers |-> call'[u]]
  BY <1>1 DEF NextPass
<1>3. \A step : Goes(c, step) => call' = [u \in Callers |-> call'[u]]
  BY <1>1 DEF Goes
<1>4. BlockEnds(c) => tx' = [u \in Callers |-> tx'[u]]
  BY <1>1 DEF BlockEnds
<1>5. Race(c) => /\ call' = [u \in Callers |-> call'[u]]
                 /\ tx' = [u \in Callers |-> tx'[u]]
  BY <1>1 DEF Race
<1>6. SerializationFailure(c) => /\ call' = [u \in Callers |-> call'[u]]
                                 /\ tx' = [u \in Callers |-> tx'[u]]
  BY <1>2, <1>4, <1>5 DEF SerializationFailure
<1>7. \A ts, key : Commits(c, NoTx, ts, key) => tx' = [u \in Callers |-> tx'[u]]
  BY DEF Commits
<1>8. CASE CallerReads(c) \/ Begin(c) \/ Insert(c)
  BY <1>1, <1>3, <1>8 DEF CallerReads, Begin, Insert
<1>9. CASE Enqueue(c)
  BY <1>1, <1>7, <1>9 DEF Enqueue
<1>10. CASE ReadLock(c)
  BY <1>1, <1>2, <1>10 DEF ReadLock
<1>11. CASE ReadHolder(c) \/ CheckHolder(c) \/ ReadFresh(c) \/ ReadCommitted(c)
  BY <1>1, <1>3, <1>4, <1>11 DEF ReadHolder, CheckHolder, ReadFresh, ReadCommitted, Answer
<1>12. CASE LockHolder(c)
  BY <1>1, <1>3, <1>6, <1>12 DEF LockHolder, Answer
<1>13. CASE DeleteLock(c)
  BY <1>1, <1>2, <1>6, <1>7, <1>13 DEF DeleteLock
<1>14. CASE GivesUpWaiting(c) \/ Reissue(c)
  BY <1>2, <1>4, <1>5, <1>14 DEF GivesUpWaiting, Reissue
<1>15. CASE RefusedUpdate(c) \/ End(c) \/ Abort(c) \/ CallerCommits(c)
  BY <1>1, <1>3, <1>7, <1>15 DEF RefusedUpdate, End, Abort, CallerCommits
<1> QED
  BY <1>8, <1>9, <1>10, <1>11, <1>12, <1>13, <1>14, <1>15 DEF CallStep

\* What the key and the rows are after the step of a call.
LEMMA RowsMove ==
  ASSUME DataInv, NEW c \in Callers, CallStep(c) \/ Reissue(c)
  PROVE  /\ lock' \in Tasks \cup {None} /\ status' \in [Tasks -> Statuses]
         /\ lock' # None => status'[lock'] # "absent"
         /\ \A t \in Tasks : status'[t] = "pending" /\ t \notin reopened => lock' = t
<1>1. /\ TypeOK /\ PendingTasksHoldTheKey /\ KeyOK(c) /\ tx[c] \in Transaction
      /\ lock # None => status[lock] # "absent"
  BY Types DEF DataInv, Local
<1>2. lock \in Tasks \cup {None} /\ status \in [Tasks -> Statuses]
  BY <1>1 DEF TypeOK
<1>3. CASE Private(c)
  BY <1>1, <1>2, <1>3 DEF Private, PendingTasksHoldTheKey
<1>4. ASSUME NEW t \in Tasks, Takes(c, t)
      PROVE  /\ lock' \in Tasks \cup {None} /\ status' \in [Tasks -> Statuses]
             /\ lock' # None => status'[lock'] # "absent"
             /\ \A s \in Tasks : status'[s] = "pending" /\ s \notin reopened => lock' = s
  <2>1. lock' = t /\ status' = [status EXCEPT ![t] = "pending"] /\ tx[c].key = Unnamed
    BY <1>1, <1>4 DEF Takes, KeyOK
  <2>2. lock = None \/ status[lock] # "pending"
    BY <1>1, <2>1, UniqueAssumption DEF KeyOK
  <2> QED
    BY <1>1, <1>2, <2>1, <2>2, UniqueAssumption DEF PendingTasksHoldTheKey, Statuses
<1>5. CASE Releases(c)
  <2>1. lock' = None /\ status' = status
    BY <1>5 DEF Releases
  <2>2. tx[c].key = Same
    BY <1>1, <1>5 DEF Releases, KeyOK
  <2>3. lock = call[c].holder /\ status[call[c].holder] # "pending"
    BY <1>5, <2>2 DEF Releases, Released, KeyIn, StatusIn, Committed
  <2> QED
    BY <1>1, <1>2, <2>1, <2>3 DEF PendingTasksHoldTheKey
<1>6. CASE CallerCommits(c)
  <2>1. PICK k : k = tx[c].key
    OBVIOUS
  <2>2. /\ call[c].at = "idle"
        /\ lock' = IF k = Same THEN lock ELSE k
        /\ status' = [t \in Tasks |-> IF k = t THEN "pending" ELSE status[t]]
    BY <1>6, <2>1 DEF CallerCommits, KeyIn, StatusIn, Committed
  <2>3. /\ k \in Tasks \cup {None, Same}
        /\ k # Same => lock = None \/ status[lock] # "pending"
    BY <1>1, <2>1, <2>2 DEF KeyOK, Transaction
  <2> QED
    BY <1>1, <1>2, <2>2, <2>3, UniqueAssumption DEF PendingTasksHoldTheKey, Statuses
<1> QED
  BY <1>1, <1>3, <1>4, <1>5, <1>6, CallMoves

\* What the properties remember keeps its type.
LEMMA RemembersTypes ==
  ASSUME TypeOK, NEW inTheWay, Remembers(inTheWay)
  PROVE  /\ live' \in [Callers -> SUBSET Tasks]
         /\ disturbed' \in SUBSET Callers
         /\ calm' \in [Callers -> 0 .. 2]
<1>1. live' \in [Callers -> SUBSET Tasks] /\ disturbed' \in SUBSET Callers
  BY DEF Remembers, TypeOK
<1>2. \A c \in Callers : calm[c] \in 0 .. 2 /\ (calm[c] < 2 => calm[c] + 1 \in 0 .. 2)
  BY DEF TypeOK
<1>3. calm' \in [Callers -> 0 .. 2]
  <2>1. ASSUME NEW c \in Callers
        PROVE  calm'[c] \in 0 .. 2
    <3>1. PICK n : n = calm[c]
      OBVIOUS
    <3>2. n \in 0 .. 2 /\ (n < 2 => n + 1 \in 0 .. 2)
      BY <1>2, <3>1
    <3>3. calm'[c] = 0 \/ (calm[c] < 2 /\ calm'[c] = calm[c] + 1) \/ calm'[c] = calm[c]
      BY DEF Remembers
    <3> QED
      BY <3>1, <3>2, <3>3
  <2>2. calm' = [c \in Callers |-> calm'[c]]
    BY DEF Remembers
  <2> QED
    BY <2>1, <2>2
<1> QED
  BY <1>1, <1>3

LEMMA CallData ==
  ASSUME DataInv, NEW c \in Callers, CallStep(c) \/ Reissue(c),
         UNCHANGED <<retried, reopened>>, NEW inTheWay, Remembers(inTheWay)
  PROVE  DataInv'
<1>1. TypeOK
  BY DEF DataInv
<1>2. \A u \in Callers \ {c} : Env(u)
  BY CallEnv
<1>3. Acts(c)
  BY CallActs
<1>4. TypeOK'
  <2>1. \A u \in Callers \ {c} : call'[u] \in Call /\ tx'[u] \in Transaction
    BY <1>1, <1>2, Types DEF Env, Later
  <2>2. call' \in [Callers -> Call] /\ tx' \in [Callers -> Transaction]
    BY <1>1, <1>3, <2>1, Functional DEF Acts
  <2>3. engine' = engine
    BY <1>1, CallMoves
  <2> QED
    BY <1>1, <2>2, <2>3, RowsMove, RemembersTypes DEF TypeOK
<1>5. \A u \in Callers : Local(u)' /\ PassOK(u)'
  <2>1. \A u \in Callers \ {c} : Local(u)'
    BY <1>2, EnvLocal
  <2>2. ASSUME NEW u \in Callers \ {c}
        PROVE  PassOK(u)'
    BY <1>2 DEF Env, DataInv, PassOK
  <2> QED
    BY <1>3, <2>1, <2>2 DEF Acts
<1>6. \A v, u \in Callers : v # u => Excludes(v, u)'
  <2>1. ASSUME NEW v \in Callers, NEW u \in Callers, v # u
        PROVE  Excludes(v, u)'
    <3>1. Excludes(v, u) /\ Excludes(u, v)
      BY <2>1 DEF DataInv
    <3>2. \A w \in Callers \ {c} : tx'[w].key = tx[w].key /\ tx'[w].writer = tx[w].writer
      BY <1>2 DEF Env, Later
    <3>3. CASE v # c /\ u # c
      BY <2>1, <3>1, <3>2, <3>3 DEF Excludes
    <3>4. CASE v = c
      BY <2>1, <3>1, <3>2, <3>4, HoldsAlone DEF Excludes
    <3>5. CASE u = c
      <4>1. tx'[v].key # Same \/ tx'[v].writer => ~(tx'[c].key # Same \/ tx'[c].writer)
        BY <2>1, <3>1, <3>2, <3>5, HoldsAlone DEF Excludes
      <4> QED
        BY <3>5, <4>1 DEF Excludes
    <3> QED
      BY <3>3, <3>4, <3>5
  <2> QED
    BY <2>1
<1>7. (lock # None => status[lock] # "absent")'
  BY RowsMove
<1>8. PendingTasksHoldTheKey'
  BY RowsMove DEF PendingTasksHoldTheKey
<1> QED
  BY <1>4, <1>5, <1>6, <1>7, <1>8 DEF DataInv

\* Workers, operators and the prunes.
LEMMA RestData ==
  ASSUME DataInv, PruneLock \/ \E t \in Tasks : RestStep(t),
         NEW inTheWay, Remembers(inTheWay)
  PROVE  DataInv'
<1>1. TypeOK /\ PendingTasksHoldTheKey /\ (lock # None => status[lock] # "absent")
  BY DEF DataInv
<1>2. \A u \in Callers : Env(u)
  BY RestEnv, PruneEnv
<1>3. \A u \in Callers : Local(u)'
  BY <1>2, EnvLocal
<1>4. \A u \in Callers : PassOK(u)'
  <2>1. ASSUME NEW u \in Callers
        PROVE  PassOK(u)'
    BY <1>2 DEF Env, DataInv, PassOK
  <2> QED
    BY <2>1
<1>5. \A v, u \in Callers : v # u => Excludes(v, u)'
  <2>1. \A w \in Callers : tx'[w].key = tx[w].key /\ tx'[w].writer = tx[w].writer
    BY <1>2 DEF Env, Later
  <2>2. \A v, u \in Callers : v # u => Excludes(v, u)
    BY DEF DataInv
  <2> QED
    BY <2>1, <2>2 DEF Excludes
<1>6. tx' \in [Callers -> Transaction]
  <2>1. tx' = [u \in Callers |-> tx'[u]]
    BY <1>1, RestMoves DEF PruneLock, CommitsRow
  <2>2. \A u \in Callers : tx'[u] \in Transaction
    BY <1>2 DEF Env, Later
  <2> QED
    BY <2>1, <2>2
<1>7. CASE PruneLock
  <2>1. /\ lock' = None /\ status' = status /\ lock # None /\ status[lock] # "pending"
        /\ engine' = engine /\ call' = call /\ retried' = retried /\ reopened' = reopened
    BY <1>7 DEF PruneLock
  <2>2. TypeOK'
    BY <1>1, <1>6, <2>1, RemembersTypes DEF TypeOK
  <2>3. PendingTasksHoldTheKey'
    BY <1>1, <2>1 DEF PendingTasksHoldTheKey
  <2> QED
    BY <1>3, <1>4, <1>5, <2>1, <2>2, <2>3 DEF DataInv
<1>8. ASSUME NEW t \in Tasks, RestStep(t)
      PROVE  DataInv'
  <2>1. /\ engine' = engine /\ lock' = lock /\ call' = call
        /\ status[t] \notin {"absent", "gone"} /\ status'[t] \notin {"absent"}
        /\ \A s \in Tasks \ {t} : status'[s] = status[s]
        /\ status' \in [Tasks -> Statuses] /\ retried' \in SUBSET Tasks
        /\ reopened' \in SUBSET Tasks
    BY <1>1, <1>8, RestMoves
  <2>2. TypeOK'
    BY <1>1, <1>6, <2>1, RemembersTypes DEF TypeOK
  <2>3. /\ \A s \in Tasks \ {t} : s \in reopened <=> s \in reopened'
        /\ status'[t] = "pending" =>
             \/ status[t] = "pending" /\ reopened' = reopened
             \/ t \in reopened' \/ lock = t
    BY <1>1, <1>8 DEF RestStep, Touch, Settle, PruneTask, Retry, rows, TypeOK
  <2>4. PendingTasksHoldTheKey'
    BY <1>1, <2>1, <2>3 DEF PendingTasksHoldTheKey
  <2>5. (lock # None => status[lock] # "absent")'
    BY <1>1, <2>1 DEF TypeOK
  <2> QED
    BY <1>3, <1>4, <1>5, <2>2, <2>4, <2>5 DEF DataInv
<1> QED
  BY <1>7, <1>8

LEMMA InitData == Init => DataInv
<1> SUFFICES ASSUME Init
             PROVE  DataInv
  OBVIOUS
<1>1. \A c \in Callers : call[c] = NoCall /\ tx[c] = NoTx
  BY DEF Init
<1>2. TypeOK
  BY NoCallIs, NoTxIs DEF Init, TypeOK, Statuses
<1>3. ASSUME NEW c \in Callers
      PROVE  Local(c) /\ PassOK(c)
  <2>1. PICK x : x = tx[c]
    OBVIOUS
  <2>2. PICK k : k = call[c]
    OBVIOUS
  <2>3. /\ x.key = Same /\ x.rows = {} /\ x.writer = FALSE /\ x.view = {}
        /\ x.changed = {} /\ x.keyChanged = FALSE
        /\ k.at = "idle" /\ k.tries = 0 /\ k.holder = None
    BY <1>1, <2>1, <2>2, NoCallIs, NoTxIs
  <2>4. KeyOK(c) /\ RowsOK(c)
    BY <2>1, <2>2, <2>3, UniqueAssumption DEF KeyOK, RowsOK
  <2>5. WriterOK(c) /\ HolderOK(c) /\ ViewOK(c)
    BY <2>1, <2>2, <2>3 DEF WriterOK, HolderOK, ViewOK, Holding
  <2>6. PassOK(c)
    BY <2>2, <2>3, UniqueAssumption DEF PassOK
  <2> QED
    BY <2>4, <2>5, <2>6 DEF Local
<1>4. \A c, u \in Callers : c # u => Excludes(c, u)
  BY <1>1, NoTxIs DEF Excludes
<1>5. lock = None /\ \A t \in Tasks : status[t] = "absent"
  BY DEF Init
<1> QED
  BY <1>2, <1>3, <1>4, <1>5 DEF DataInv, PendingTasksHoldTheKey

\* The database's part of the invariant, of every step.
LEMMA NextData ==
  ASSUME DataInv, [Next]_vars
  PROVE  DataInv'
<1>1. CASE Next
  <2>1. ASSUME NEW c \in Callers, CallStep(c) \/ Reissue(c), UNCHANGED <<retried, reopened>>,
               NEW w, Remembers(w)
        PROVE  DataInv'
    BY <2>1, CallData
  <2>2. ASSUME PruneLock \/ \E t \in Tasks : RestStep(t), NEW w, Remembers(w)
        PROVE  DataInv'
    BY <2>2, RestData
  <2> QED
    BY <1>1, <2>1, <2>2 DEF Next, RestStep
<1>2. CASE UNCHANGED vars
  <2>1. \A u \in Callers : Local(u)'
    BY <1>2, PrivateEnv, EnvLocal DEF vars
  <2> QED
    BY <1>2, <2>1
    DEF vars, DataInv, TypeOK, PassOK, Excludes, PendingTasksHoldTheKey
<1> QED
  BY <1>1, <1>2
-----------------------------------------------------------------------------
(* What the properties remember.                                           *)

LEMMA RemembersIs ==
  ASSUME TypeOK, NEW w, Remembers(w), NEW c \in Callers
  PROVE  /\ live'[c] = IF call'[c].at \notin {"idle", "raced", "gave up"}
                       THEN live[c] \cup {t \in Tasks : status'[t] = "pending"} ELSE {}
         /\ c \in disturbed' <=>
              /\ c \in disturbed \cup w
              /\ call[c].at # "idle" /\ ~InSnapshot(c)
              /\ ~(call'[c].tries > call[c].tries)
              /\ call'[c].at \notin {"idle", "raced", "gave up", "answered"}
         /\ calm'[c] =
              IF call'[c].at = "idle"
                 \/ (call'[c].tries > call[c].tries /\ c \in disturbed \cup w
                     /\ call[c].at # "idle" /\ ~InSnapshot(c))
              THEN 0
              ELSE IF call'[c].tries > call[c].tries /\ calm[c] < 2 /\ ~InSnapshot(c)
              THEN calm[c] + 1 ELSE calm[c]
BY DEF Remembers

LEMMA LessIsNot ==
  ASSUME NEW k \in Call
  PROVE  k.tries \in Nat /\ ~(k.tries > k.tries)
<1>1. MAX_UNIQUE_ATTEMPTS \in Nat
  BY UniqueAssumption
<1>2. k.tries \in 0 .. MAX_UNIQUE_ATTEMPTS
  BY DEF Call
<1>3. PICK n : n = k.tries
  OBVIOUS
<1>4. n \in Nat
  BY <1>1, <1>2, <1>3
<1> QED
  BY <1>3, <1>4

\* The pass of a caller that does not take the step.
LEMMA CalmEnv ==
  ASSUME DataInv, NEW c \in Callers, CalmOK(c), Env(c), NEW w, Remembers(w),
         c \notin w =>
           /\ lock' = lock
           /\ tx'[c].keyChanged = tx[c].keyChanged
           /\ call[c].holder \in tx'[c].changed => call[c].holder \in tx[c].changed
           /\ call[c].holder \in Tasks /\ status'[call[c].holder] = "pending" =>
                status[call[c].holder] = "pending"
  PROVE  CalmOK(c)'
<1>1. PICK x, y : x = tx[c] /\ y = tx'[c]
  OBVIOUS
<1>2. PICK k : k = call[c] /\ k = call'[c]
  BY DEF Env
<1>3. PICK h : h = k.holder
  OBVIOUS
<1>4. /\ TypeOK /\ k \in Call /\ x.key = y.key
      /\ k.at \in {"deciding", "locking", "deleting"} => h \in Tasks
  BY <1>1, <1>2, <1>3, Types DEF Env, Later, DataInv, Local, HolderOK, Holding
<1>5. ~(k.tries > k.tries)
  BY <1>4, LessIsNot
<1>6. /\ c \in disturbed' <=> /\ c \in disturbed \cup w
                              /\ k.at # "idle" /\ ~InSnapshot(c)
                              /\ k.at \notin {"idle", "raced", "gave up", "answered"}
      /\ calm'[c] = IF k.at = "idle" THEN 0 ELSE calm[c]
  <2>1. ~(call'[c].tries > call[c].tries) /\ call'[c].at = k.at /\ call[c].at = k.at
    BY <1>2, <1>5
  <2> QED
    BY <1>4, <2>1, RemembersIs
<1>7. InSnapshot(c)' = InSnapshot(c)
  BY DEF Env, InSnapshot
<1>8. PICK n : n = calm[c]
  OBVIOUS
<1>9. /\ n \in 0 .. 2 /\ n < 2
      /\ InSnapshot(c) => n = 0
      /\ n = 1 => k.at # "idle"
  BY <1>2, <1>4, <1>8 DEF CalmOK, TypeOK
<1>10. /\ calm'[c] < 2
       /\ InSnapshot(c) => calm'[c] = 0
       /\ calm'[c] = 1 => k.at # "idle" /\ n = 1
  <2>1. CASE k.at = "idle"
    BY <1>6, <2>1
  <2>2. CASE k.at # "idle"
    BY <1>6, <1>8, <1>9, <2>2
  <2> QED
    BY <2>1, <2>2
<1>11. ASSUME c \notin disturbed', ~InSnapshot(c)
       PROVE  /\ k.at = "reading" => KeyNow(c)' # None
              /\ k.at \in {"deciding", "locking", "deleting"} =>
                   /\ h = KeyNow(c)'
                   /\ h \notin y.changed \/ c \in Ambient
                   /\ ~y.keyChanged \/ c \in Ambient
              /\ k.at = "deleting" => StatusIn(c, Committed, h)' # "pending"
              /\ n = 1 =>
                   \/ k.at \in {"enqueueing", "answered", "raced", "gave up"}
                   \/ k.at = "inserting" /\ KeyNow(c)' = None
  <2>1. CASE k.at \in {"idle", "raced", "gave up", "answered"}
    BY <1>9, <2>1
  <2>2. CASE k.at \notin {"idle", "raced", "gave up", "answered"}
    <3>1. c \notin disturbed /\ c \notin w
      BY <1>6, <1>11, <2>2
    <3>2. Undisturbed(c)
      BY <1>11, <3>1 DEF Undisturbed
    <3>3. /\ k.at = "reading" => KeyNow(c) # None
          /\ k.at \in {"deciding", "locking", "deleting"} =>
               /\ h = KeyNow(c)
               /\ h \notin x.changed \/ c \in Ambient
               /\ ~x.keyChanged \/ c \in Ambient
          /\ k.at = "deleting" => StatusIn(c, Committed, h) # "pending"
          /\ n = 1 =>
               \/ k.at \in {"enqueueing", "answered", "raced", "gave up"}
               \/ k.at = "inserting" /\ KeyNow(c) = None
      BY <1>1, <1>2, <1>3, <1>8, <3>2 DEF CalmOK, KeyIsAsRead
    <3>4. /\ lock' = lock /\ y.keyChanged = x.keyChanged
          /\ h \in y.changed => h \in x.changed
          /\ h \in Tasks /\ status'[h] = "pending" => status[h] = "pending"
      BY <1>1, <1>2, <1>3, <3>1
    <3>5. KeyNow(c)' = KeyNow(c)
      BY <1>1, <1>4, <3>4 DEF KeyNow, KeyIn, Committed
    <3>6. k.at = "deleting" => StatusIn(c, Committed, h)' # "pending"
      BY <1>1, <1>4, <3>3, <3>4 DEF StatusIn, Committed
    <3> QED
      BY <3>3, <3>4, <3>5, <3>6
  <2> QED
    BY <2>1, <2>2
<1> QED
  BY <1>1, <1>2, <1>3, <1>7, <1>10, <1>11 DEF CalmOK, Undisturbed, KeyIsAsRead

\* What a caller remembers of the tasks is what it knew and what is pending now.
LEMMA LiveEnv ==
  ASSUME DataInv, NEW c \in Callers, LiveOK(c), Env(c), NEW w, Remembers(w)
  PROVE  LiveOK(c)'
<1>1. /\ call'[c] = call[c] /\ tx'[c].view = tx[c].view /\ tx'[c].key = tx[c].key
      /\ TypeOK /\ ViewOK(c)
  BY DEF Env, Later, DataInv, Local
<1>2. call[c].at \notin {"idle", "raced", "gave up"} => live[c] \subseteq live'[c]
  <2>1. live'[c] = IF call'[c].at \notin {"idle", "raced", "gave up"}
                   THEN live[c] \cup {t \in Tasks : status'[t] = "pending"} ELSE {}
    BY <1>1, RemembersIs
  <2> QED
    BY <1>1, <2>1
<1>3. c \notin Ambient /\ tx[c].view # {} => call[c].at \in {"deciding", "locking", "deleting"}
  BY <1>1 DEF ViewOK
<1> QED
  BY <1>1, <1>2, <1>3 DEF LiveOK

\* The snapshot of a call's own transaction is the database as it was during the call.
LEMMA ViewMoves ==
  ASSUME DataInv, NEW c \in Callers, CallStep(c) \/ Reissue(c), c \notin Ambient,
         NEW db \in tx'[c].view
  PROVE  db \in tx[c].view \/ (db = Committed /\ status' = status)
<1>1. TypeOK /\ tx[c] \in Transaction /\ tx \in [Callers -> Transaction]
  BY Types DEF DataInv, TypeOK
<1>2. PICK x, y : x = tx[c] /\ y = tx'[c]
  OBVIOUS
<1>3. NoTx.view = {}
  BY NoTxIs
<1>4. Race(c) => y = NoTx
  BY <1>1, <1>2 DEF Race
<1>5. SerializationFailure(c) => y = NoTx
  BY <1>1, <1>2, <1>4 DEF SerializationFailure, BlockEnds, Kept
<1>6. CASE y = NoTx \/ y = x \/ y.view = x.view
  BY <1>2, <1>3, <1>6
<1>7. CASE Begin(c)
  BY <1>1, <1>2, <1>6, <1>7 DEF Begin, InSnapshot, Transaction
<1>8. CASE Insert(c)
  <2>1. CASE KeyIn(c, Committed) = None
    <3>1. y = [x EXCEPT !.key = Unnamed, !.writer = ~RowLocks]
      BY <1>1, <1>2, <1>8, <2>1 DEF Insert
    <3> QED
      BY <1>1, <1>2, <1>6, <3>1 DEF Transaction
  <2>2. CASE KeyIn(c, Committed) # None
    <3>1. PICK n : n = NoTx
      OBVIOUS
    <3>2. y = [n EXCEPT !.writer = ~RowLocks /\ c \in Ambient]
      BY <1>1, <1>2, <1>8, <2>2, <3>1 DEF Insert, Kept
    <3>3. y.view = {}
      BY <3>1, <3>2, NoTxIs DEF Transaction
    <3> QED
      BY <1>2, <3>3
  <2> QED
    BY <2>1, <2>2
<1>9. CASE ReadLock(c)
  <2>1. PICK d \in ReadsFrom(c) :
          \/ y = NoTx
          \/ y = x
          \/ y = [x EXCEPT !.view = {d}]
    BY <1>1, <1>2, <1>9 DEF ReadLock
  <2>2. status' = status
    BY <1>9 DEF ReadLock, rows
  <2>3. CASE y = [x EXCEPT !.view = {d}]
    <3>1. y.view = {d}
      BY <1>1, <1>2, <2>3 DEF Transaction
    <3>2. d = Committed \/ d \in x.view
      BY <1>2, <2>1 DEF ReadsFrom
    <3> QED
      BY <1>2, <2>2, <3>1, <3>2
  <2> QED
    BY <1>6, <2>1, <2>3
<1>10. CASE Enqueue(c)
  BY <1>1, <1>2, <1>6, <1>10 DEF Enqueue, Commits
<1>11. CASE ReadHolder(c)
  BY <1>1, <1>2, <1>6, <1>11 DEF ReadHolder, BlockEnds, Kept
<1>12. CASE LockHolder(c)
  <2>1. \/ SerializationFailure(c)
        \/ y = NoTx
        \/ y = x
        \/ y = [x EXCEPT !.rows = x.rows \cup {call[c].holder}]
    BY <1>1, <1>2, <1>12 DEF LockHolder
  <2>2. CASE y = [x EXCEPT !.rows = x.rows \cup {call[c].holder}]
    BY <1>1, <1>2, <1>6, <2>2 DEF Transaction
  <2> QED
    BY <1>5, <1>6, <2>1, <2>2
<1>13. CASE DeleteLock(c)
  BY <1>1, <1>2, <1>5, <1>6, <1>13 DEF DeleteLock, Commits, Kept
<1>14. CASE CheckHolder(c) \/ ReadFresh(c) \/ ReadCommitted(c) \/ End(c)
  BY <1>2, <1>6, <1>14 DEF CheckHolder, ReadFresh, ReadCommitted, End
<1>15. CASE GivesUpWaiting(c) \/ Abort(c) \/ Reissue(c)
  BY <1>1, <1>2, <1>4, <1>6, <1>15 DEF GivesUpWaiting, Abort, Reissue, BlockEnds, Kept
<1>16. ~(CallerReads(c) \/ RefusedUpdate(c) \/ CallerCommits(c))
  BY DEF CallerReads, RefusedUpdate, CallerCommits
<1> QED
  BY <1>7, <1>8, <1>9, <1>10, <1>11, <1>12, <1>13, <1>14, <1>15, <1>16 DEF CallStep

\* What answers a call is pending, was at its snapshot, or is its transaction's own.
LEMMA AnswersAreSeen ==
  ASSUME DataInv, NEW c \in Callers, LiveOK(c), CallStep(c) \/ Reissue(c),
         call'[c].at = "answered", call[c].at # "answered"
  PROVE  \/ call'[c].holder = tx'[c].key
         \/ call'[c].holder \in live[c]
         \/ call'[c].holder \in Tasks /\ status'[call'[c].holder] = "pending"
<1>1. /\ TypeOK /\ call[c] \in Call /\ tx[c] \in Transaction
      /\ call \in [Callers -> Call] /\ tx \in [Callers -> Transaction]
  BY Types DEF DataInv, TypeOK
<1>2. KeyOK(c) /\ WriterOK(c) /\ HolderOK(c) /\ ViewOK(c) /\ PassOK(c)
  BY DEF DataInv, Local
<1>3. PICK k, m : k = call[c] /\ m = call'[c]
  OBVIOUS
<1>4. PICK h : h = k.holder
  OBVIOUS
<1>5. NextPass(c) => m.at # "answered"
  <2>1. SUFFICES ASSUME NextPass(c)
                 PROVE  m.at # "answered"
    OBVIOUS
  <2>2. PICK n : n = k.tries + 1
    OBVIOUS
  <2>3. PICK step : step = IF n = MAX_UNIQUE_ATTEMPTS THEN "gave up" ELSE "inserting"
    OBVIOUS
  <2>4. step # "answered"
    BY <2>3
  <2>5. m = [at |-> step, tries |-> n, holder |-> None]
    BY <1>1, <1>3, <2>1, <2>2, <2>3 DEF NextPass
  <2>6. m.at = step
    BY <2>5
  <2> QED
    BY <2>4, <2>6
<1>6. Race(c) => m.at # "answered"
  <2>1. Race(c) => m = [k EXCEPT !.at = "raced", !.holder = None]
    BY <1>1, <1>3 DEF Race
  <2> QED
    BY <1>1, <1>3, <2>1 DEF Call
<1>7. SerializationFailure(c) => m.at # "answered"
  BY <1>5, <1>6 DEF SerializationFailure
<1>8. ASSUME NEW step, Goes(c, step)
      PROVE  m.at = step /\ m.holder = h
  <2>1. m = [k EXCEPT !.at = step]
    BY <1>1, <1>3, <1>8 DEF Goes
  <2> QED
    BY <1>1, <1>3, <1>4, <2>1 DEF Call
<1>9. /\ k.at \in Holding => h \in Tasks
      /\ tx[c].key = h /\ k.at \in Holding => c \in Ambient
  BY <1>2, <1>3, <1>4, UniqueAssumption DEF HolderOK, KeyOK, Holding
<1>10. CASE ReadHolder(c)
  <2>1. k.at = "deciding" /\ status' = status
    BY <1>3, <1>10 DEF ReadHolder, rows
  <2>2. PICK db \in ReadsFrom(c) :
          /\ StatusIn(c, db, h) = "pending" /\ ~(InSnapshot(c) /\ RowLocks)
          /\ Answer(c) /\ BlockEnds(c)
    <3>1. PICK db \in ReadsFrom(c) :
            LET found == StatusIn(c, db, call[c].holder)
            IN  IF found = "pending"
                THEN IF InSnapshot(c) /\ RowLocks
                     THEN /\ Goes(c, IF Refuses THEN "checking" ELSE "asking")
                          /\ UNCHANGED tx
                     ELSE Answer(c) /\ BlockEnds(c)
                ELSE /\ Goes(c, IF RowLocks /\ found # "gone" THEN "locking" ELSE "deleting")
                     /\ UNCHANGED tx
      BY <1>10 DEF ReadHolder
    <3>2. m.at = "answered"
      BY <1>3
    <3> QED
      BY <1>3, <1>4, <1>8, <3>1, <3>2
  <2>3. m.holder = h
    BY <1>8, <2>2 DEF Answer
  <2>4. CASE tx[c].key = h
    <3>1. tx'[c] = tx[c]
      BY <1>1, <1>9, <2>1, <2>2, <2>4 DEF BlockEnds, Kept, Holding
    <3> QED
      BY <1>3, <2>3, <2>4, <3>1
  <2>5. CASE tx[c].key # h
    <3>1. db.status[h] = "pending" /\ h \in Tasks
      BY <1>9, <2>1, <2>2, <2>5 DEF StatusIn, Holding
    <3>2. CASE tx[c].view = {}
      BY <1>3, <2>1, <2>2, <2>3, <3>1, <3>2 DEF ReadsFrom, Committed
    <3>3. CASE tx[c].view # {} /\ c \notin Ambient
      BY <1>3, <2>2, <2>3, <3>1, <3>3 DEF ReadsFrom, LiveOK
    <3>4. CASE tx[c].view # {} /\ c \in Ambient
      <4>1. ~RowLocks
        BY <1>2, <2>2, <3>4 DEF ViewOK, InSnapshot
      <4>2. tx[c].changed = {}
        BY <1>2, <1>3, <2>1, <3>4, <4>1 DEF WriterOK
      <4>3. db.status[h] = status[h]
        BY <1>2, <2>2, <3>1, <3>4, <4>1, <4>2 DEF ViewOK, ReadsFrom, RowLocks
      <4> QED
        BY <1>3, <2>1, <2>3, <3>1, <4>3
    <3> QED
      BY <3>2, <3>3, <3>4
  <2> QED
    BY <2>4, <2>5
<1>11. CASE CheckHolder(c)
  <2>1. k.at = "checking" /\ status' = status /\ tx' = tx /\ m.holder = h
        /\ h \notin tx[c].changed
    BY <1>3, <1>4, <1>8, <1>11 DEF CheckHolder, Answer, rows
  <2>2. /\ Refuses /\ h \in Tasks
        /\ \E db \in tx[c].view : StatusIn(c, db, h) = "pending"
    BY <1>2, <1>3, <1>4, <1>9, <2>1 DEF HolderOK, Holding
  <2>3. CASE tx[c].key = h
    BY <1>3, <2>1, <2>3
  <2>4. CASE tx[c].key # h
    BY <1>2, <1>3, <2>1, <2>2, <2>4 DEF ViewOK, StatusIn, Refuses
  <2> QED
    BY <2>3, <2>4
<1>12. CASE ReadFresh(c) \/ ReadCommitted(c)
  <2>1. k.at = "asking" /\ status' = status
    BY <1>3, <1>12 DEF ReadFresh, ReadCommitted, rows
  <2>2. status[h] = "pending" /\ m.holder = h
    BY <1>3, <1>4, <1>8, <1>12 DEF ReadFresh, ReadCommitted, Answer
  <2> QED
    BY <1>3, <1>9, <2>1, <2>2 DEF Holding
<1>13. CASE LockHolder(c)
  <2>1. k.at = "locking"
    BY <1>3, <1>13 DEF LockHolder
  <2>2. PICK found : found = StatusIn(c, Committed, h)
    OBVIOUS
  <2>3. /\ IF found = "pending" THEN Answer(c) ELSE Goes(c, "deleting")
        /\ tx' = [tx EXCEPT ![c] =
                    IF found = "pending" /\ c \notin Ambient THEN NoTx
                    ELSE IF found = "gone" THEN tx[c]
                    ELSE [tx[c] EXCEPT !.rows = tx[c].rows \cup {h}]]
        /\ status' = status
    BY <1>3, <1>4, <1>7, <1>13, <2>2 DEF LockHolder, rows
  <2>4. found = "pending" /\ m.holder = h
    BY <1>3, <1>8, <2>3 DEF Answer
  <2>5. CASE tx[c].key = h
    <3>1. PICK x : x = tx[c]
      OBVIOUS
    <3>2. tx'[c] = [x EXCEPT !.rows = x.rows \cup {h}]
      BY <1>1, <1>9, <2>1, <2>3, <2>4, <2>5, <3>1 DEF Holding
    <3>3. tx'[c].key = x.key
      BY <1>1, <3>1, <3>2 DEF Transaction
    <3> QED
      BY <1>3, <2>4, <2>5, <3>1, <3>3
  <2>6. CASE tx[c].key # h
    BY <1>3, <1>9, <2>1, <2>2, <2>3, <2>4, <2>6 DEF StatusIn, Committed, Holding
  <2> QED
    BY <2>5, <2>6
<1>14. ~(CallerReads(c) \/ Begin(c) \/ Insert(c) \/ Enqueue(c) \/ ReadLock(c) \/ DeleteLock(c)
         \/ GivesUpWaiting(c) \/ RefusedUpdate(c) \/ End(c) \/ CallerCommits(c) \/ Abort(c)
         \/ Reissue(c))
  <2>1. ~NextPass(c) /\ ~Race(c) /\ ~SerializationFailure(c)
    BY <1>3, <1>5, <1>6, <1>7
  <2>2. \A step : Goes(c, step) => step = "answered"
    BY <1>3, <1>8
  <2>3. ~(CallerReads(c) \/ CallerCommits(c))
    BY <1>3 DEF CallerReads, CallerCommits
  <2>4. ~(End(c) \/ Abort(c) \/ Enqueue(c))
    BY <1>1, NoCallIs DEF End, Abort, Enqueue
  <2>5. ~(Begin(c) \/ Insert(c) \/ RefusedUpdate(c))
    BY <2>2 DEF Begin, Insert, RefusedUpdate
  <2>6. ~ReadLock(c)
    <3>1. ReadLock(c) => NextPass(c) \/ \E v : m = [k EXCEPT !.at = "deciding", !.holder = v]
      BY <1>1, <1>3 DEF ReadLock
    <3>2. \A v : [k EXCEPT !.at = "deciding", !.holder = v].at # "answered"
      BY <1>1, <1>3 DEF Call
    <3> QED
      BY <1>3, <2>1, <3>1, <3>2
  <2>7. ~(DeleteLock(c) \/ GivesUpWaiting(c) \/ Reissue(c))
    BY <2>1 DEF DeleteLock, GivesUpWaiting, Reissue
  <2> QED
    BY <2>3, <2>4, <2>5, <2>6, <2>7
<1> QED
  BY <1>10, <1>11, <1>12, <1>13, <1>14 DEF CallStep

LEMMA LiveActs ==
  ASSUME DataInv, NEW c \in Callers, LiveOK(c), CallStep(c) \/ Reissue(c), retried' = retried,
         NEW w, Remembers(w)
  PROVE  LiveOK(c)'
<1>1. TypeOK /\ ViewOK(c)'
  BY CallActs DEF DataInv, Acts, Local
<1>2. live'[c] = IF call'[c].at \notin {"idle", "raced", "gave up"}
                 THEN live[c] \cup {t \in Tasks : status'[t] = "pending"} ELSE {}
  BY <1>1, RemembersIs
<1>3. call'[c].at = "answered" => call'[c].holder \in live'[c] \cup {tx'[c].key}
  <2>1. CASE call[c].at = "answered"
    <3>1. call'[c].at = "idle"
      <4>1. CASE End(c) \/ Abort(c)
        BY <4>1, <1>1, NoCallIs DEF End, Abort, TypeOK
      <4> QED
        BY <2>1, <4>1
        DEF CallStep, CallerReads, Begin, Insert, Enqueue, ReadLock, ReadHolder, CheckHolder,
            ReadFresh, ReadCommitted, LockHolder, DeleteLock, GivesUpWaiting, Waits, BusySnapshot,
            RefusedUpdate, CallerCommits, Reissue
    <3> QED
      BY <3>1
  <2>2. CASE call[c].at # "answered"
    BY <1>2, <2>2, AnswersAreSeen
  <2> QED
    BY <2>1, <2>2
<1>4. ASSUME c \notin Ambient, NEW db \in tx'[c].view, NEW t \in Tasks, db.status[t] = "pending"
      PROVE  t \in live'[c]
  <2>1. call'[c].at \in {"deciding", "locking", "deleting"}
    BY <1>1, <1>4 DEF ViewOK
  <2>2. CASE db \in tx[c].view
    BY <1>2, <1>4, <2>1, <2>2 DEF LiveOK
  <2>3. CASE db = Committed /\ status' = status
    BY <1>2, <1>4, <2>1, <2>3 DEF Committed
  <2> QED
    BY <1>4, <2>2, <2>3, ViewMoves
<1> QED
  BY <1>3, <1>4 DEF LiveOK

\* Who does not read from an older snapshot reads the key that is there.
LEMMA ReadsTheKey ==
  ASSUME DataInv, NEW c \in Callers, ~InSnapshot(c), call[c].at = "reading",
         NEW db \in ReadsFrom(c)
  PROVE  KeyIn(c, db) = KeyIn(c, Committed)
<1>1. WriterOK(c) /\ ViewOK(c)
  BY DEF DataInv, Local
<1>2. CASE tx[c].view = {}
  BY <1>2 DEF ReadsFrom
<1>3. CASE tx[c].view # {}
  <2>1. c \in Ambient /\ ~engine.snapshots
    BY <1>1, <1>3 DEF ViewOK, InSnapshot
  <2>2. ~RowLocks
    BY <1>1, <1>3, <2>1 DEF ViewOK
  <2>3. ~tx[c].keyChanged
    BY <1>1, <2>1, <2>2 DEF WriterOK
  <2>4. db.lock = lock
    BY <1>1, <1>3, <2>2, <2>3 DEF ViewOK, ReadsFrom, RowLocks
  <2> QED
    BY <2>4 DEF KeyIn, Committed
<1> QED
  BY <1>2, <1>3

\* A holder that such a call finds settled or pruned is not pending.
LEMMA ReadsTheHolder ==
  ASSUME DataInv, NEW c \in Callers, ~InSnapshot(c), call[c].at = "deciding",
         NEW db \in ReadsFrom(c), StatusIn(c, db, call[c].holder) # "pending",
         ~(RowLocks /\ StatusIn(c, db, call[c].holder) # "gone")
  PROVE  StatusIn(c, Committed, call[c].holder) # "pending"
<1>1. WriterOK(c) /\ ViewOK(c) /\ HolderOK(c)
  BY DEF DataInv, Local
<1>2. PICK h : h = call[c].holder
  OBVIOUS
<1>3. h \in Tasks /\ tx[c].key # h /\ db.status[h] # "pending"
  BY <1>1, <1>2 DEF HolderOK, Holding, StatusIn
<1>4. CASE db.status[h] = "gone"
  <2>1. status[h] = "gone"
    BY <1>3, <1>4, ReadsAreSeen
  <2> QED
    BY <1>2, <1>3, <2>1 DEF StatusIn, Committed
<1>5. CASE ~RowLocks
  <2>1. CASE tx[c].view = {}
    BY <2>1 DEF ReadsFrom
  <2>2. CASE tx[c].view # {}
    <3>1. c \in Ambient /\ tx[c].changed = {}
      BY <1>1, <1>5, <2>2 DEF ViewOK, WriterOK
    <3>2. db.status[h] = status[h]
      BY <1>1, <1>3, <1>5, <2>2, <3>1 DEF ViewOK, ReadsFrom, RowLocks
    <3> QED
      BY <1>2, <1>3, <3>2 DEF StatusIn, Committed
  <2> QED
    BY <2>1, <2>2
<1> QED
  BY <1>2, <1>3, <1>4, <1>5 DEF StatusIn

\* The pass goes on, and the key is as it reads it.
LEMMA PassGoesOn ==
  ASSUME DataInv, NEW c \in Callers, CalmOK(c), ~InSnapshot(c), engine' = engine,
         NEW w, Remembers(w), c \notin w,
         call'[c].at # "idle", call'[c].tries = call[c].tries,
         Undisturbed(c) \/ call[c].at = "idle" =>
           /\ KeyIsAsRead(c)'
           /\ calm[c] = 1 => call'[c].at \in {"enqueueing", "answered", "raced", "gave up"}
  PROVE  CalmOK(c)'
<1>1. TypeOK /\ call[c] \in Call
  BY Types DEF DataInv
<1>2. ~(call'[c].tries > call[c].tries)
  <2>1. PICK k : k = call[c]
    OBVIOUS
  <2> QED
    BY <1>1, <2>1, LessIsNot
<1>3. /\ c \in disturbed' <=> /\ c \in disturbed /\ call[c].at # "idle"
                              /\ call'[c].at \notin {"idle", "raced", "gave up", "answered"}
      /\ calm'[c] = calm[c]
  BY <1>1, <1>2, RemembersIs
<1>4. InSnapshot(c)' = InSnapshot(c)
  BY DEF InSnapshot
<1>5. calm'[c] < 2
  BY <1>3 DEF CalmOK
<1>6. ASSUME c \notin disturbed'
      PROVE  /\ KeyIsAsRead(c)'
             /\ calm'[c] = 1 => call'[c].at \in {"enqueueing", "answered", "raced", "gave up"}
  <2>1. CASE call'[c].at \in {"raced", "gave up", "answered"}
    BY <2>1 DEF KeyIsAsRead
  <2>2. CASE call'[c].at \notin {"raced", "gave up", "answered"}
    BY <1>3, <1>6, <2>2 DEF Undisturbed
  <2> QED
    BY <2>1, <2>2
<1> QED
  BY <1>3, <1>4, <1>5, <1>6 DEF CalmOK, Undisturbed

\* Between its first statement and its answer.
Passing(c) == call[c].at \notin {"idle", "answered", "raced", "gave up"}

LEMMA Small ==
  /\ \A n : n = 0 => n < 2 /\ n # 1 /\ n + 1 = 1
  /\ \A n : n = 1 => n < 2 /\ n # 0
  /\ \A n \in Nat : n + 1 > n
OBVIOUS

\* The call is over, or is in a snapshot older than itself: its passes do not count.
LEMMA PassesDoNotCount ==
  ASSUME DataInv, NEW c \in Callers, CalmOK(c), engine' = engine, NEW w, Remembers(w),
         call'[c].at = "idle" \/ InSnapshot(c)
  PROVE  CalmOK(c)'
<1>1. TypeOK
  BY DEF DataInv
<1>2. InSnapshot(c)' = InSnapshot(c)
  BY DEF InSnapshot
<1>3. calm'[c] = 0
  BY <1>1, RemembersIs DEF CalmOK
<1>4. calm'[c] < 2 /\ calm'[c] # 1
  BY <1>3, Small
<1>5. call'[c].at = "idle" => KeyIsAsRead(c)'
  BY DEF KeyIsAsRead
<1> QED
  BY <1>2, <1>3, <1>4, <1>5 DEF CalmOK, Undisturbed

\* A pass that came to nothing: something was in its way, or it left the key free.
LEMMA PassIsLost ==
  ASSUME DataInv, NEW c \in Callers, CalmOK(c), ~InSnapshot(c), engine' = engine,
         NEW w, Remembers(w), NextPass(c),
         Passing(c),
         c \in w \/ (Undisturbed(c) => calm[c] = 0 /\ KeyNow(c)' = None)
  PROVE  CalmOK(c)'
<1>1. TypeOK /\ call[c] \in Call /\ PassOK(c)
  BY Types DEF DataInv
<1>2. /\ call'[c].at \in {"inserting", "gave up"}
      /\ call'[c].tries = call[c].tries + 1
  BY <1>1, NextPassIs DEF PassOK, Passing
<1>3. call'[c].tries > call[c].tries
  <2>1. PICK k : k = call[c]
    OBVIOUS
  <2>2. PICK n : n = k.tries
    OBVIOUS
  <2>3. n \in Nat
    BY <1>1, <2>1, <2>2, LessIsNot
  <2>4. n + 1 > n
    BY <2>3, Small
  <2> QED
    BY <1>2, <2>1, <2>2, <2>4
<1>4. calm'[c] = IF c \in disturbed \cup w THEN 0
                 ELSE IF calm[c] < 2 THEN calm[c] + 1 ELSE calm[c]
  BY <1>1, <1>2, <1>3, RemembersIs DEF Passing
<1>5. InSnapshot(c)' = InSnapshot(c)
  BY DEF InSnapshot
<1>6. KeyIsAsRead(c)'
  BY <1>2 DEF KeyIsAsRead
<1>7. CASE c \in disturbed \cup w
  <2>1. calm'[c] = 0 /\ calm'[c] < 2 /\ calm'[c] # 1
    BY <1>4, <1>7, Small
  <2> QED
    BY <1>6, <2>1 DEF CalmOK
<1>8. CASE c \notin disturbed \cup w
  <2>1. calm[c] = 0 /\ KeyNow(c)' = None
    BY <1>8 DEF Undisturbed
  <2>2. calm'[c] = 1
    <3>1. calm[c] < 2 /\ calm[c] + 1 = 1
      BY <2>1, Small
    <3> QED
      BY <1>4, <1>8, <3>1
  <2>3. calm'[c] < 2
    BY <2>2, Small
  <2> QED
    BY <1>2, <1>5, <1>6, <2>1, <2>2, <2>3 DEF CalmOK
<1> QED
  BY <1>7, <1>8

\* What Goes and Race leave of the call.
LEMMA GoesIs ==
  ASSUME TypeOK, NEW c \in Callers, NEW step, Goes(c, step)
  PROVE  /\ call'[c].at = step /\ call'[c].tries = call[c].tries
         /\ call'[c].holder = call[c].holder
<1>1. PICK k : k = call[c]
  OBVIOUS
<1>2. k \in Call /\ call'[c] = [k EXCEPT !.at = step]
  BY <1>1 DEF Goes, TypeOK
<1> QED
  BY <1>1, <1>2 DEF Call

LEMMA RaceCalm ==
  ASSUME DataInv, NEW c \in Callers, CalmOK(c), ~InSnapshot(c), Race(c),
         NEW w, Remembers(w), c \notin w
  PROVE  CalmOK(c)'
<1>1. PICK k : k = call[c]
  OBVIOUS
<1>2. k \in Call /\ call'[c] = [k EXCEPT !.at = "raced", !.holder = None] /\ engine' = engine
  BY <1>1 DEF Race, DataInv, TypeOK
<1>3. call'[c].at = "raced" /\ call'[c].tries = call[c].tries
  BY <1>1, <1>2 DEF Call
<1>4. KeyIsAsRead(c)'
  BY <1>3 DEF KeyIsAsRead
<1> QED
  BY <1>2, <1>3, <1>4, PassGoesOn

LEMMA BeginsCalm ==
  ASSUME DataInv, NEW c \in Callers, CalmOK(c), ~InSnapshot(c), Begin(c),
         NEW w, Remembers(w), c \notin w
  PROVE  CalmOK(c)'
<1>1. TypeOK /\ engine' = engine /\ call[c].at = "idle"
  BY DEF Begin, rows, DataInv
<1>2. call'[c].at = "inserting" /\ call'[c].tries = call[c].tries
  BY <1>1, GoesIs DEF Begin
<1>3. KeyIsAsRead(c)' /\ calm[c] # 1
  BY <1>1, <1>2 DEF KeyIsAsRead, CalmOK
<1> QED
  BY <1>1, <1>2, <1>3, PassGoesOn

LEMMA InsertsCalm ==
  ASSUME DataInv, NEW c \in Callers, CalmOK(c), ~InSnapshot(c), Insert(c),
         NEW w, Remembers(w), c \notin w
  PROVE  CalmOK(c)'
<1>1. /\ TypeOK /\ engine' = engine /\ lock' = lock /\ call[c].at = "inserting"
      /\ tx[c] \in Transaction /\ KeyOK(c)
  BY Types DEF Insert, rows, DataInv, Local
<1>2. CASE KeyIn(c, Committed) = None
  <2>1. call'[c].at = "enqueueing" /\ call'[c].tries = call[c].tries
    BY <1>1, <1>2, GoesIs DEF Insert
  <2>2. KeyIsAsRead(c)'
    BY <2>1 DEF KeyIsAsRead
  <2> QED
    BY <1>1, <2>1, <2>2, PassGoesOn
<1>3. CASE KeyIn(c, Committed) # None
  <2>1. call'[c].at = "reading" /\ call'[c].tries = call[c].tries
    BY <1>1, <1>3, GoesIs DEF Insert
  <2>2. PICK z : z = Kept(c)
    OBVIOUS
  <2>3. z \in Transaction /\ z.key = tx[c].key
    BY <1>1, <2>2, NoTxIs DEF Kept, KeyOK
  <2>4. tx'[c] = [z EXCEPT !.writer = ~RowLocks /\ c \in Ambient]
    BY <1>1, <1>3, <2>2 DEF Insert, TypeOK
  <2>5. tx'[c].key = tx[c].key
    BY <2>3, <2>4 DEF Transaction
  <2>6. KeyNow(c)' # None
    BY <1>1, <1>3, <2>5 DEF KeyNow, KeyIn, Committed
  <2>7. KeyIsAsRead(c)'
    BY <2>1, <2>6 DEF KeyIsAsRead
  <2>8. Undisturbed(c) => calm[c] # 1
    BY <1>1, <1>3 DEF CalmOK, KeyNow
  <2> QED
    BY <1>1, <2>1, <2>7, <2>8, PassGoesOn
<1> QED
  BY <1>2, <1>3

LEMMA ReadsCalm ==
  ASSUME DataInv, NEW c \in Callers, CalmOK(c), ~InSnapshot(c), ReadLock(c),
         NEW w, Remembers(w), c \notin w
  PROVE  CalmOK(c)'
<1>1. PICK x, y : x = tx[c] /\ y = tx'[c]
  OBVIOUS
<1>2. PICK k, m : k = call[c] /\ m = call'[c]
  OBVIOUS
<1>3. /\ TypeOK /\ engine' = engine /\ lock' = lock /\ k.at = "reading"
      /\ x \in Transaction /\ k \in Call /\ ViewOK(c)
  BY <1>1, <1>2, Types DEF ReadLock, rows, DataInv, Local
<1>4. PICK db \in ReadsFrom(c) :
        LET next == IF engine.snapshots /\ RowLocks THEN [x EXCEPT !.view = {db}] ELSE x
        IN  IF KeyIn(c, db) = None
            THEN NextPass(c)
            ELSE /\ call' = [call EXCEPT ![c].at = "deciding", ![c].holder = KeyIn(c, db)]
                 /\ tx' = [tx EXCEPT ![c] = next]
  BY <1>1 DEF ReadLock
<1>5. KeyIn(c, db) = KeyNow(c)
  BY <1>2, <1>3, <1>4, ReadsTheKey DEF KeyNow
<1>6. Undisturbed(c) => KeyNow(c) # None /\ calm[c] # 1
  BY <1>2, <1>3 DEF CalmOK, KeyIsAsRead
<1>7. CASE KeyIn(c, db) = None
  <2>1. NextPass(c) /\ Passing(c) /\ ~Undisturbed(c)
    BY <1>2, <1>3, <1>4, <1>5, <1>6, <1>7 DEF Passing
  <2> QED
    BY <1>3, <2>1, PassIsLost
<1>8. CASE KeyIn(c, db) # None
  <2>1. m = [k EXCEPT !.at = "deciding", !.holder = KeyNow(c)]
    BY <1>2, <1>3, <1>4, <1>5, <1>8 DEF TypeOK
  <2>2. m.at = "deciding" /\ m.tries = k.tries /\ m.holder = KeyNow(c)
    BY <1>3, <2>1 DEF Call
  <2>3. y = x \/ y = [x EXCEPT !.view = {db}]
    BY <1>1, <1>3, <1>4, <1>8 DEF TypeOK
  <2>4. y.key = x.key /\ y.changed = x.changed /\ y.keyChanged = x.keyChanged
    BY <1>3, <2>3 DEF Transaction
  <2>5. KeyNow(c)' = KeyNow(c)
    BY <1>1, <1>3, <2>4 DEF KeyNow, KeyIn, Committed
  <2>6. c \notin Ambient => x.changed = {} /\ ~x.keyChanged
    BY <1>1, <1>2, <1>3 DEF ViewOK
  <2>7. KeyIsAsRead(c)'
    BY <1>1, <1>2, <2>2, <2>4, <2>5, <2>6 DEF KeyIsAsRead
  <2> QED
    BY <1>2, <1>3, <1>6, <2>2, <2>7, PassGoesOn
<1> QED
  BY <1>7, <1>8

LEMMA DecidesCalm ==
  ASSUME DataInv, NEW c \in Callers, CalmOK(c), ~InSnapshot(c), ReadHolder(c),
         NEW w, Remembers(w), c \notin w
  PROVE  CalmOK(c)'
<1>1. PICK h : h = call[c].holder
  OBVIOUS
<1>2. /\ TypeOK /\ engine' = engine /\ lock' = lock /\ status' = status
      /\ call[c].at = "deciding"
  BY DEF ReadHolder, rows, DataInv
<1>3. Undisturbed(c) =>
        /\ h = KeyNow(c) /\ calm[c] # 1
        /\ h \notin tx[c].changed \/ c \in Ambient
        /\ ~tx[c].keyChanged \/ c \in Ambient
  BY <1>1, <1>2 DEF CalmOK, KeyIsAsRead
<1>4. PICK db \in ReadsFrom(c) :
        LET found == StatusIn(c, db, h)
        IN  IF found = "pending"
            THEN Answer(c)
            ELSE /\ Goes(c, IF RowLocks /\ found # "gone" THEN "locking" ELSE "deleting")
                 /\ UNCHANGED tx
  BY <1>1 DEF ReadHolder
<1>5. CASE StatusIn(c, db, h) = "pending"
  <2>1. call'[c].at = "answered" /\ call'[c].tries = call[c].tries
    BY <1>2, <1>4, <1>5, GoesIs DEF Answer
  <2>2. KeyIsAsRead(c)'
    BY <2>1 DEF KeyIsAsRead
  <2> QED
    BY <1>2, <2>1, <2>2, PassGoesOn
<1>6. CASE StatusIn(c, db, h) # "pending"
  <2>1. PICK step : step = IF RowLocks /\ StatusIn(c, db, h) # "gone"
                           THEN "locking" ELSE "deleting"
    OBVIOUS
  <2>2. Goes(c, step) /\ tx' = tx
    BY <1>4, <1>6, <2>1
  <2>3. call'[c].at = step /\ call'[c].tries = call[c].tries /\ call'[c].holder = h
    BY <1>1, <1>2, <2>2, GoesIs
  <2>4. step = "deleting" => StatusIn(c, Committed, h) # "pending"
    BY <1>1, <1>2, <1>4, <1>6, <2>1, ReadsTheHolder
  <2>5. KeyNow(c)' = KeyNow(c)
    BY <1>2, <2>2 DEF KeyNow, KeyIn, Committed
  <2>6. step = "deleting" => StatusIn(c, Committed, call[c].holder)' # "pending"
    BY <1>2, <2>2, <2>3, <2>4 DEF StatusIn, Committed
  <2>7. Undisturbed(c) => KeyIsAsRead(c)'
    BY <1>3, <2>1, <2>2, <2>3, <2>5, <2>6 DEF KeyIsAsRead
  <2> QED
    BY <1>2, <1>3, <2>1, <2>3, <2>7, PassGoesOn
<1> QED
  BY <1>5, <1>6

LEMMA LocksCalm ==
  ASSUME DataInv, NEW c \in Callers, CalmOK(c), ~InSnapshot(c), LockHolder(c),
         NEW w, Remembers(w), c \notin w
  PROVE  CalmOK(c)'
<1>1. PICK x : x = tx[c]
  OBVIOUS
<1>2. PICK h : h = call[c].holder
  OBVIOUS
<1>3. TypeOK /\ x \in Transaction /\ call[c].at = "locking"
  BY <1>1, Types DEF LockHolder, DataInv
<1>4. Undisturbed(c) =>
        /\ h = KeyNow(c) /\ calm[c] # 1
        /\ h \notin x.changed \/ c \in Ambient
        /\ ~x.keyChanged \/ c \in Ambient
  BY <1>1, <1>2, <1>3 DEF CalmOK, KeyIsAsRead
<1>5. CASE Refuses /\ h \in x.changed
  <2>1. SerializationFailure(c)
    BY <1>1, <1>2, <1>5 DEF LockHolder
  <2>2. c \notin Ambient
    BY <1>5 DEF Refuses, InSnapshot
  <2>3. NextPass(c) /\ engine' = engine /\ Passing(c) /\ ~Undisturbed(c)
    BY <1>3, <1>4, <1>5, <2>1, <2>2 DEF SerializationFailure, Passing
  <2> QED
    BY <2>3, PassIsLost
<1>6. CASE ~(Refuses /\ h \in x.changed)
  <2>1. PICK found : found = StatusIn(c, Committed, h)
    OBVIOUS
  <2>2. /\ IF found = "pending" THEN Answer(c) ELSE Goes(c, "deleting")
        /\ tx' = [tx EXCEPT ![c] =
                    IF found = "pending" /\ c \notin Ambient THEN NoTx
                    ELSE IF found = "gone" THEN x
                    ELSE [x EXCEPT !.rows = x.rows \cup {h}]]
        /\ engine' = engine /\ lock' = lock /\ status' = status
    BY <1>1, <1>2, <1>6, <2>1 DEF LockHolder, rows
  <2>3. CASE found = "pending"
    <3>1. call'[c].at = "answered" /\ call'[c].tries = call[c].tries
      BY <1>3, <2>2, <2>3, GoesIs DEF Answer
    <3>2. KeyIsAsRead(c)'
      BY <3>1 DEF KeyIsAsRead
    <3> QED
      BY <2>2, <3>1, <3>2, PassGoesOn
  <2>4. CASE found # "pending"
    <3>1. /\ call'[c].at = "deleting" /\ call'[c].tries = call[c].tries
          /\ call'[c].holder = h
      BY <1>2, <1>3, <2>2, <2>4, GoesIs
    <3>2. tx'[c] = x \/ tx'[c] = [x EXCEPT !.rows = x.rows \cup {h}]
      BY <1>3, <2>2, <2>4 DEF TypeOK
    <3>3. /\ tx'[c].key = x.key /\ tx'[c].changed = x.changed
          /\ tx'[c].keyChanged = x.keyChanged
      BY <1>3, <3>2 DEF Transaction
    <3>4. KeyNow(c)' = KeyNow(c)
      BY <1>1, <2>2, <3>3 DEF KeyNow, KeyIn, Committed
    <3>5. StatusIn(c, Committed, call[c].holder)' # "pending"
      BY <1>1, <2>1, <2>2, <2>4, <3>1, <3>3 DEF StatusIn, Committed
    <3>6. Undisturbed(c) => KeyIsAsRead(c)'
      BY <1>4, <3>1, <3>3, <3>4, <3>5 DEF KeyIsAsRead
    <3> QED
      BY <1>3, <1>4, <2>2, <3>1, <3>6, PassGoesOn
  <2> QED
    BY <2>3, <2>4
<1> QED
  BY <1>5, <1>6

LEMMA DeletesCalm ==
  ASSUME DataInv, NEW c \in Callers, CalmOK(c), ~InSnapshot(c), DeleteLock(c),
         NEW w, Remembers(w), c \notin w
  PROVE  CalmOK(c)'
<1>1. PICK x : x = tx[c]
  OBVIOUS
<1>2. /\ TypeOK /\ x \in Transaction /\ call[c].at = "deleting"
      /\ Passing(c) /\ KeyOK(c)
  BY <1>1, Types DEF DeleteLock, DataInv, Local, Passing
<1>3. calm[c] < 2 /\ calm[c] \in 0 .. 2
  BY <1>2 DEF CalmOK, TypeOK
<1>4. Undisturbed(c) =>
        /\ call[c].holder = KeyNow(c) /\ calm[c] # 1
        /\ ~x.keyChanged \/ c \in Ambient
        /\ StatusIn(c, Committed, call[c].holder) # "pending"
  BY <1>1, <1>2 DEF CalmOK, KeyIsAsRead
<1>5. CASE Refuses /\ x.keyChanged
  <2>1. SerializationFailure(c)
    BY <1>1, <1>5 DEF DeleteLock
  <2>2. c \notin Ambient
    BY <1>5 DEF Refuses, InSnapshot
  <2>3. NextPass(c) /\ engine' = engine /\ ~Undisturbed(c)
    BY <1>4, <1>5, <2>1, <2>2 DEF SerializationFailure
  <2> QED
    BY <1>2, <2>3, PassIsLost
<1>6. CASE ~(Refuses /\ x.keyChanged)
  <2>1. /\ NextPass(c) /\ engine' = engine
        /\ IF Released(c) /\ c \notin Ambient
           THEN lock' = None /\ Commits(c, NoTx, {}, TRUE)
           ELSE /\ tx' = [tx EXCEPT ![c] =
                            IF Released(c) THEN [@ EXCEPT !.key = None] ELSE Kept(c)]
                /\ UNCHANGED lock
    BY <1>1, <1>6 DEF DeleteLock
  <2>2. CASE ~Undisturbed(c)
    BY <1>2, <2>1, <2>2, PassIsLost
  <2>3. CASE Undisturbed(c)
    <3>1. Released(c)
      BY <1>4, <2>3 DEF Released, KeyNow
    <3>2. ASSUME c \notin Ambient
          PROVE  KeyNow(c)' = None
      <4>1. lock' = None /\ tx'[c] = NoTx
        BY <2>1, <3>1, <3>2 DEF Commits
      <4> QED
        BY <4>1, NoTxIs DEF KeyNow, KeyIn, Committed
    <3>3. ASSUME c \in Ambient
          PROVE  KeyNow(c)' = None
      <4>1. tx'[c] = [x EXCEPT !.key = None]
        BY <1>1, <1>2, <2>1, <3>1, <3>3 DEF TypeOK
      <4>2. tx'[c].key = None
        BY <1>2, <4>1 DEF Transaction
      <4> QED
        BY <4>2, UniqueAssumption DEF KeyNow, KeyIn
    <3>4. KeyNow(c)' = None
      BY <3>2, <3>3
    <3>5. calm[c] = 0
      BY <1>3, <1>4, <2>3
    <3> QED
      BY <1>2, <2>1, <3>4, <3>5, PassIsLost
  <2> QED
    BY <2>2, <2>3
<1> QED
  BY <1>5, <1>6

\* The pass of the caller that takes the step.
LEMMA CalmActs ==
  ASSUME DataInv, NEW c \in Callers, CalmOK(c), CallStep(c), NEW w, Remembers(w), c \notin w
  PROVE  CalmOK(c)'
<1>1. TypeOK /\ engine' = engine
  BY CallMoves DEF DataInv
<1>2. CASE call'[c].at = "idle" \/ InSnapshot(c)
  BY <1>1, <1>2, PassesDoNotCount
<1>3. CASE call'[c].at # "idle" /\ ~InSnapshot(c)
  <2>1. ~(Enqueue(c) \/ End(c) \/ Abort(c))
    BY <1>1, <1>3, NoCallIs DEF Enqueue, End, Abort, TypeOK
  <2>2. ~(CallerReads(c) \/ CallerCommits(c))
    BY <1>3 DEF CallerReads, CallerCommits
  <2>3. ~(CheckHolder(c) \/ ReadFresh(c) \/ ReadCommitted(c))
    BY <1>3 DEF CheckHolder, ReadFresh, ReadCommitted, DataInv, Local, HolderOK
  <2>4. ~RefusedUpdate(c)
    BY <1>3 DEF RefusedUpdate, Refuses, InSnapshot
  <2>5. CASE GivesUpWaiting(c)
    BY <1>3, <2>5, RaceCalm DEF GivesUpWaiting
  <2> QED
    BY <1>3, <2>1, <2>2, <2>3, <2>4, <2>5, BeginsCalm, InsertsCalm, ReadsCalm, DecidesCalm,
       LocksCalm, DeletesCalm DEF CallStep
<1> QED
  BY <1>2, <1>3

\* A transaction of a call's own that the server rolled back.
LEMMA ReissueCalm ==
  ASSUME DataInv, NEW c \in Callers, CalmOK(c), Reissue(c), NEW w, Remembers(w), c \in w
  PROVE  CalmOK(c)'
<1>1. NextPass(c) /\ engine' = engine /\ Passing(c) /\ ~InSnapshot(c)
  BY DEF Reissue, Passing, InSnapshot
<1> QED
  BY <1>1, PassIsLost
-----------------------------------------------------------------------------
(* The invariant.                                                          *)

\* While the key stays, another's step does nothing to a call's holder.
LEMMA OthersKeepTheHolder ==
  ASSUME DataInv, NEW u \in Callers, NEW c \in Callers \ {u}, CallStep(u) \/ Reissue(u),
         lock' = lock
  PROVE  status' = status /\ (tx'[c] = tx[c] \/ Later(tx[c], tx'[c], {}, FALSE))
<1>1. /\ TypeOK /\ KeyOK(u) /\ tx[u] \in Transaction
      /\ lock # None => status[lock] # "absent"
  BY Types DEF DataInv, Local
<1>2. CASE Private(u)
  BY <1>2 DEF Private
<1>3. ASSUME NEW t \in Tasks, Takes(u, t)
      PROVE  FALSE
  BY <1>1, <1>3, UniqueAssumption DEF Takes
<1>4. ~Releases(u)
  <2>1. SUFFICES ASSUME Releases(u)
                 PROVE  FALSE
    OBVIOUS
  <2>2. tx[u].key = Same /\ lock' = None
    BY <1>1, <2>1 DEF Releases, KeyOK
  <2>3. lock = call[u].holder /\ call[u].holder \in Tasks
    BY <2>1, <2>2 DEF Releases, Released, KeyIn, Committed, DataInv, Local, HolderOK, Holding
  <2> QED
    BY <2>2, <2>3, UniqueAssumption
<1>5. CASE CallerCommits(u)
  <2>1. PICK k : k = tx[u].key
    OBVIOUS
  <2>2. /\ call[u].at = "idle"
        /\ lock' = IF k = Same THEN lock ELSE k
        /\ status' = [t \in Tasks |-> IF k = t THEN "pending" ELSE status[t]]
        /\ Commits(u, NoTx, {k} \cap Tasks, k # Same)
    BY <1>5, <2>1 DEF CallerCommits, KeyIn, StatusIn, Committed
  <2>3. k = Same
    BY <1>1, <2>1, <2>2, UniqueAssumption DEF KeyOK, Transaction
  <2>4. status' = status
    BY <1>1, <2>2, <2>3, UniqueAssumption DEF TypeOK
  <2>5. {k} \cap Tasks = {} /\ (k # Same) = FALSE
    BY <2>3, UniqueAssumption
  <2>6. tx'[c] = Behind(c, {}, FALSE)
    BY <2>2, <2>5 DEF Commits
  <2> QED
    BY <1>1, <2>4, <2>6, BehindIsLater
<1> QED
  BY <1>1, <1>2, <1>3, <1>4, <1>5, CallMoves

LEMMA CallOthers ==
  ASSUME DataInv, NEW u \in Callers, NEW c \in Callers \ {u}, LiveOK(c), CalmOK(c),
         CallStep(u) \/ Reissue(u), retried' = retried, NEW w, Remembers(w),
         c \notin w => lock' = lock
  PROVE  LiveOK(c)' /\ CalmOK(c)'
<1>1. Env(c)
  BY CallEnv
<1>2. LiveOK(c)'
  BY <1>1, LiveEnv
<1>3. ASSUME c \notin w
      PROVE  /\ lock' = lock
             /\ tx'[c].keyChanged = tx[c].keyChanged
             /\ tx'[c].changed = tx[c].changed
             /\ status' = status
  <2>1. lock' = lock
    BY <1>3
  <2>2. tx[c] \in Transaction
    BY Types DEF DataInv
  <2> QED
    BY <2>1, <2>2, OthersKeepTheHolder DEF Later, Transaction
<1>4. CalmOK(c)'
  BY <1>1, <1>3, CalmEnv
<1> QED
  BY <1>2, <1>4

LEMMA RestOthers ==
  ASSUME DataInv, NEW c \in Callers, LiveOK(c), CalmOK(c), NEW w, Remembers(w),
         \/ w = Callers /\ (PruneLock \/ \E t \in Tasks : RestStep(t))
         \/ \E t \in Tasks : RestStep(t) /\ w = {u \in Callers : call[u].holder = t}
  PROVE  LiveOK(c)' /\ CalmOK(c)'
<1>1. Env(c) /\ TypeOK /\ tx[c] \in Transaction
  BY RestEnv, PruneEnv, Types DEF DataInv
<1>2. LiveOK(c)'
  BY <1>1, LiveEnv
<1>3. ASSUME c \notin w
      PROVE  /\ lock' = lock
             /\ tx'[c].keyChanged = tx[c].keyChanged
             /\ call[c].holder \in tx'[c].changed => call[c].holder \in tx[c].changed
             /\ call[c].holder \in Tasks => status'[call[c].holder] = status[call[c].holder]
  <2>1. PICK t \in Tasks : RestStep(t) /\ call[c].holder # t
    BY <1>3
  <2>2. /\ lock' = lock /\ CommitsRow(t)
        /\ \A s \in Tasks \ {t} : status'[s] = status[s]
    BY <1>1, <2>1, RestMoves
  <2>3. Later(tx[c], tx'[c], {t}, FALSE)
    BY <1>1, <2>2, BehindIsLater DEF CommitsRow
  <2> QED
    BY <1>1, <2>1, <2>2, <2>3 DEF Later, Transaction
<1>4. CalmOK(c)'
  BY <1>1, <1>3, CalmEnv
<1> QED
  BY <1>2, <1>4

LEMMA InitInv == Init => IInv
<1> SUFFICES ASSUME Init
             PROVE  IInv
  OBVIOUS
<1>1. ASSUME NEW c \in Callers
      PROVE  LiveOK(c) /\ CalmOK(c)
  <2>1. call[c] = NoCall /\ tx[c] = NoTx /\ calm[c] = 0
    BY DEF Init
  <2>2. call[c].at = "idle" /\ tx[c].view = {}
    BY <2>1, NoCallIs, NoTxIs
  <2>3. calm[c] < 2 /\ calm[c] # 1
    BY <2>1, Small
  <2>4. KeyIsAsRead(c)
    BY <2>2 DEF KeyIsAsRead
  <2> QED
    BY <2>1, <2>2, <2>3, <2>4 DEF LiveOK, CalmOK
<1> QED
  BY <1>1, InitData DEF IInv

LEMMA NextInv ==
  ASSUME IInv, [Next]_vars
  PROVE  IInv'
<1>1. DataInv /\ DataInv' /\ \A c \in Callers : LiveOK(c) /\ CalmOK(c)
  BY NextData DEF IInv
<1>2. ASSUME NEW u \in Callers, CallStep(u), UNCHANGED <<retried, reopened>>,
             Remembers(IF lock' = lock THEN {} ELSE Callers \ {u}),
             NEW c \in Callers
      PROVE  LiveOK(c)' /\ CalmOK(c)'
  <2>1. PICK w : w = IF lock' = lock THEN {} ELSE Callers \ {u}
    OBVIOUS
  <2>2. Remembers(w)
    BY <1>2, <2>1
  <2>3. CASE c = u
    <3>1. c \notin w
      BY <2>1, <2>3
    <3> QED
      BY <1>1, <1>2, <2>2, <2>3, <3>1, LiveActs, CalmActs
  <2>4. CASE c # u
    <3>1. c \notin w => lock' = lock
      BY <2>1, <2>4
    <3> QED
      BY <1>1, <1>2, <2>2, <2>4, <3>1, CallOthers
  <2> QED
    BY <2>3, <2>4
<1>3. ASSUME NEW u \in Callers, Reissue(u), UNCHANGED <<retried, reopened>>, Remembers({u}),
             NEW c \in Callers
      PROVE  LiveOK(c)' /\ CalmOK(c)'
  <2>1. CASE c = u
    BY <1>1, <1>3, <2>1, LiveActs, ReissueCalm
  <2>2. CASE c # u
    <3>1. lock' = lock
      BY <1>3 DEF Reissue, rows
    <3> QED
      BY <1>1, <1>3, <2>2, <3>1, CallOthers
  <2> QED
    BY <2>1, <2>2
<1>4. ASSUME NEW t \in Tasks, Touch(t) \/ Settle(t) \/ PruneTask(t),
             Remembers({u \in Callers : call[u].holder = t}), NEW c \in Callers
      PROVE  LiveOK(c)' /\ CalmOK(c)'
  <2>1. PICK w : w = {u \in Callers : call[u].holder = t}
    OBVIOUS
  <2>2. RestStep(t) /\ Remembers(w)
    BY <1>4, <2>1 DEF RestStep
  <2> QED
    BY <1>1, <2>1, <2>2, RestOthers
<1>5. ASSUME PruneLock \/ \E t \in Tasks : Retry(t), Remembers(Callers), NEW c \in Callers
      PROVE  LiveOK(c)' /\ CalmOK(c)'
  BY <1>1, <1>5, RestOthers DEF RestStep
<1>6. ASSUME UNCHANGED vars, NEW c \in Callers
      PROVE  LiveOK(c)' /\ CalmOK(c)'
  BY <1>1, <1>6
  DEF vars, LiveOK, CalmOK, Undisturbed, KeyIsAsRead, KeyNow, KeyIn, StatusIn, Committed,
      InSnapshot
<1>7. \A c \in Callers : LiveOK(c)' /\ CalmOK(c)'
  <2>1. SUFFICES ASSUME NEW c \in Callers
                 PROVE  LiveOK(c)' /\ CalmOK(c)'
    OBVIOUS
  <2> QED
    BY <1>2, <1>3, <1>4, <1>5, <1>6 DEF Next
<1> QED
  BY <1>1, <1>7 DEF IInv

\* The inductive invariant: what every transaction, snapshot and pass may count on,
\* whatever the engine.
THEOREM Invariant == Spec => []IInv
<1>1. Init => IInv
  BY InitInv
<1>2. IInv /\ [Next]_vars => IInv'
  BY NextInv
<1> QED
  BY <1>1, <1>2, PTL DEF Spec

\* The variables keep their types: a lock row that is committed names its task, never
\* a holder yet to come, and no call makes more passes than MAX_UNIQUE_ATTEMPTS.
THEOREM TypeCorrect == Spec => []TypeOK
<1>1. IInv => TypeOK
  BY DEF IInv, DataInv
<1> QED
  BY <1>1, Invariant, PTL

\* The key names the task that is READY or RUNNING under it, and _enqueue_unique gives
\* a duplicate the result of a task that was pending during the call.
THEOREM KeyNamesThePending == Spec => []KeyIsThePendingTask
<1>1. IInv => KeyIsThePendingTask
  BY DEF IInv, DataInv, LiveOK, KeyIsThePendingTask, AnswersWerePending
<1> QED
  BY <1>1, Invariant, PTL

\* No two passes of the loop in a row are lost unless something got in their way, and no
\* enqueue keeps a worker from the row of a task that stayed pending.
THEOREM CallsAreFree == Spec => []CallsAreNotHeldUp
<1>1. IInv => CallsAreNotHeldUp
  BY DEF IInv, DataInv, Local, RowsOK, CalmOK, CallsAreNotHeldUp, LostPassesWereDisturbed,
         LiveHoldersAreNotLocked
<1> QED
  BY <1>1, Invariant, PTL
=============================================================================
