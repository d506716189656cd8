--------------------------- MODULE WorkerProcessProofs ---------------------------
(***************************************************************************)
(* The timeouts and the end of a worker process, proved for any number of  *)
(* threads, any tasks and any ways to run it.  The watchdog and a thread   *)
(* meet in two places: the table of deadlines, which says of a thread what *)
(* may still be raised inside it, and the futures of the loop, which hold  *)
(* every task that a thread is at.  A thread is known by where it is.      *)
(***************************************************************************)
EXTENDS WorkerProcess, FunctionTheorems, FiniteSetTheorems, TLAPS

\* What a thread is, by where it is, with its deadline and what is pending inside it.
\* A deadline fires once an attempt: what it raised is gone before the thread is past
\* its flush, and nothing is raised in a thread that deregisters again.
Shape(t) ==
  /\ thread[t].at = "free" <=> thread[t].task = None
  /\ thread[t].at \in {"free", "starting", "body"} =>
       ~thread[t].returned /\ thread[t].verdict = "own"
  /\ thread[t].verdict = "timeout" => ~thread[t].returned
  /\ watch[t] = "armed" =>
       thread[t].at \in {"body", "disarm", "locked"} /\ t \notin pending /\ Timed(t)
  /\ watch[t] = "fired" =>
       thread[t].at \in {"body", "disarm", "locked", "again", "locked again"} /\ Timed(t)
  /\ t \in pending => thread[t].at \in {"body", "disarm", "locked", "flush"} /\ Timed(t)

\* The row of a task that was claimed.
Claimed(task) == status[task] \in {"running", "done"}

\* The task of a thread is claimed, in the futures, and no other thread's.
TaskOK(t) ==
  thread[t].at # "free" =>
    /\ Claimed(thread[t].task)
    /\ thread[t].task \in loop.futures
    /\ \A u \in Threads : thread[u].at # "free" /\ thread[u].task = thread[t].task => u = t

\* The attempts the watchdog is at: it found their threads inside them.
DogOK ==
  /\ dog.at \in {"asking", "recycling"} => dog.now \in Threads \X Tasks
  /\ \A s \in dog.stuck : Claimed(s[2])

\* What the loop knows of the tick, of its pass, of the queue and, in the drain, of
\* what still runs.
DueOK == due => loop.owed /\ status[FollowUp] = "absent" /\ mode.later = "by a tick"

PassOK ==
  /\ loop.idle => loop.at \in {"claiming", "ending"}
  /\ loop.at \in {"head", "claiming"} => ~loop.found
  /\ loop.idle /\ ~loop.claimed => Busy = {}

EmptyOK ==
  loop.at = "ending" /\ loop.found /\ loop.idle /\ ~loop.claimed =>
    \A task \in Tasks : status[task] # "ready"

CountOK == loop.at = "counting" => Undone \subseteq loop.counted /\ IsFiniteSet(loop.counted)

LoopOK == DueOK /\ PassOK /\ EmptyOK /\ CountOK

IInv ==
  /\ TypeOK
  /\ \A t \in Threads : Shape(t) /\ TaskOK(t)
  /\ DogOK
  /\ LoopOK
-----------------------------------------------------------------------------
(* Types.                                                                  *)

LEMMA Types ==
  ASSUME TypeOK
  PROVE  /\ thread \in [Threads -> Thread] /\ watch \in [Threads -> {"none", "armed", "fired"}]
         /\ pending \subseteq Threads /\ status \in [Tasks -> {"absent", "ready", "running", "done"}]
         /\ loop \in Loop /\ dog \in Watchdog /\ stuck \in [Threads -> Tasks \cup {None}]
         /\ mode \in Modes /\ mode.events \in Nat /\ mode.limit \in Nat
         /\ events \in 0 .. mode.events /\ loop.claims \in Nat
         /\ loop.futures \subseteq Tasks /\ loop.counted \subseteq Tasks
         /\ \A t \in Threads : /\ thread[t].task \in Tasks \cup {None}
                               /\ thread[t] \in Thread
BY WorkerAssumption DEF TypeOK, Loop, Thread

\* A thread with a task is busy with it.
LEMMA TaskTypes ==
  ASSUME IInv, NEW t \in Threads
  PROVE  /\ thread[t].at # "free" => thread[t].task \in Tasks
         /\ thread[t].at = "free" => thread[t] = Free
<1>1. Shape(t) /\ thread[t] \in Thread
  BY Types DEF IInv
<1> QED
  BY <1>1 DEF Shape, Thread, Free

LEMMA Undones ==
  ASSUME TypeOK, \A t \in Threads : Shape(t)
  PROVE  Undone \subseteq Tasks /\ (\A t \in Busy : thread[t].task \in Undone)
BY Types DEF Undone, Busy, Shape

\* Where a thread goes, in one of its own steps.
Goes(t, at, returned, verdict) ==
  /\ thread' \in [Threads -> Thread]
  /\ \A u \in Threads \ {t} : thread'[u] = thread[u]
  /\ thread'[t].at = at /\ thread'[t].task = thread[t].task
  /\ thread'[t].returned = returned /\ thread'[t].verdict = verdict

Places == {"starting", "body", "disarm", "locked", "flush", "again", "locked again",
           "recording", "ended"}

LEMMA GoesTo ==
  ASSUME TypeOK, NEW t \in Threads, NEW at \in Places,
         thread' = [thread EXCEPT ![t].at = at]
  PROVE  Goes(t, at, thread[t].returned, thread[t].verdict)
BY Types DEF Goes, Thread, Places

LEMMA GoesReturned ==
  ASSUME TypeOK, NEW t \in Threads, NEW at \in Places,
         thread' = [thread EXCEPT ![t].at = at, ![t].returned = TRUE]
  PROVE  Goes(t, at, TRUE, thread[t].verdict)
BY Types DEF Goes, Thread, Places

LEMMA GoesTimedOut ==
  ASSUME TypeOK, NEW t \in Threads,
         thread' = [thread EXCEPT ![t].at = "disarm", ![t].verdict = "timeout"]
  PROVE  Goes(t, "disarm", thread[t].returned, "timeout")
BY Types DEF Goes, Thread
-----------------------------------------------------------------------------
(* The threads.                                                            *)

\* What no step of another changes.
Others(t) ==
  /\ watch' \in [Threads -> {"none", "armed", "fired"}] /\ pending' \subseteq Threads
  /\ \A u \in Threads \ {t} : /\ thread'[u] = thread[u] /\ watch'[u] = watch[u]
                              /\ u \in pending' <=> u \in pending

\* The task of a thread is the one it had, or the thread is free.
Keeps(t) ==
  thread'[t].at # "free" => thread[t].at # "free" /\ thread'[t].task = thread[t].task

Shaped(t) ==
  /\ thread' \in [Threads -> Thread] /\ mode' = mode
  /\ Others(t) /\ Shape(t)' /\ Keeps(t)

\* The thread's own steps.
LEMMA ThreadShapes ==
  ASSUME IInv, NEW t \in Threads,
         ThreadStep(t) \/ EnqueueFollowUp(t) \/ EndBody(t) \/ DeliverInBody(t)
  PROVE  Shaped(t)
<1>1. /\ TypeOK /\ Shape(t) /\ thread \in [Threads -> Thread]
      /\ watch \in [Threads -> {"none", "armed", "fired"}] /\ pending \subseteq Threads
      /\ thread[t] \in Thread
  BY Types DEF IInv
<1>2. ASSUME UNCHANGED <<thread, watch, pending, mode>>
      PROVE  Shaped(t)
  BY <1>1, <1>2 DEF Shaped, Others, Shape, Keeps, Timed
<1>3. CASE Start(t)
  <2>1. Goes(t, "body", thread[t].returned, thread[t].verdict)
    BY <1>1, <1>3, GoesTo DEF Start, Places
  <2>2. /\ thread[t].at = "starting" /\ pending' = pending /\ mode' = mode
        /\ watch' = [watch EXCEPT ![t] = IF Timed(t) THEN "armed" ELSE "none"]
    BY <1>3 DEF Start
  <2> QED
    BY <1>1, <2>1, <2>2 DEF Shaped, Others, Shape, Keeps, Timed, Goes
<1>4. CASE EnqueueFollowUp(t)
  BY <1>2, <1>4 DEF EnqueueFollowUp
<1>5. CASE EndBody(t)
  <2>1. Goes(t, IF Timed(t) THEN "disarm" ELSE "recording", TRUE, thread[t].verdict)
    BY <1>1, <1>5, GoesReturned DEF EndBody, Places
  <2>2. thread[t].at = "body" /\ UNCHANGED <<watch, pending, mode>>
    BY <1>5 DEF EndBody
  <2> QED
    BY <1>1, <2>1, <2>2 DEF Shaped, Others, Shape, Keeps, Timed, Goes
<1>6. CASE DeliverInBody(t)
  <2>1. \/ thread' = thread
        \/ Goes(t, "disarm", thread[t].returned, "timeout")
    BY <1>1, <1>6, GoesTimedOut DEF DeliverInBody
  <2>2. /\ thread[t].at = "body" /\ t \in pending /\ pending' = pending \ {t}
        /\ UNCHANGED <<watch, mode>>
    BY <1>6 DEF DeliverInBody
  <2> QED
    BY <1>1, <2>1, <2>2 DEF Shaped, Others, Shape, Keeps, Timed, Goes
<1>7. ASSUME Absorbed(t), thread[t].at \in {"disarm", "locked", "flush"}, t \in pending,
             UNCHANGED <<watch, mode>>
      PROVE  Shaped(t)
  <2>1. Goes(t, "again", thread[t].returned, thread[t].verdict)
    BY <1>1, <1>7, GoesTo DEF Absorbed, Places
  <2>2. pending' = pending \ {t}
    BY <1>7 DEF Absorbed
  <2> QED
    BY <1>1, <1>7, <2>1, <2>2 DEF Shaped, Others, Shape, Keeps, Timed, Goes
<1>8. CASE DeliverInDisarm(t)
  BY <1>7, <1>8 DEF DeliverInDisarm
<1>9. CASE Acquire(t)
  <2>1. Goes(t, IF thread[t].at = "disarm" THEN "locked" ELSE "locked again",
             thread[t].returned, thread[t].verdict)
    BY <1>1, <1>9, GoesTo DEF Acquire, Acquires, Begins, Places
  <2>2. thread[t].at \in {"disarm", "again"} /\ UNCHANGED <<watch, pending, mode>>
    BY <1>9 DEF Acquire, Acquires
  <2> QED
    BY <1>1, <2>1, <2>2 DEF Shaped, Others, Shape, Keeps, Timed, Goes
<1>10. CASE Deregister(t)
  <2>1. Goes(t, IF thread[t].at = "locked" THEN "flush" ELSE "recording",
             thread[t].returned, thread[t].verdict)
    BY <1>1, <1>10, GoesTo DEF Deregister, Begins, Places
  <2>2. /\ thread[t].at \in {"locked", "locked again"} /\ UNCHANGED <<pending, mode>>
        /\ watch' = [watch EXCEPT ![t] = "none"]
    BY <1>10 DEF Deregister
  <2> QED
    BY <1>1, <2>1, <2>2 DEF Shaped, Others, Shape, Keeps, Timed, Goes
<1>11. CASE FlushPending(t)
  <2>1. CASE t \in pending
    BY <1>7, <1>11, <2>1 DEF FlushPending, Flush
  <2>2. CASE t \notin pending
    <3>1. Goes(t, "recording", thread[t].returned, thread[t].verdict)
      BY <1>1, <1>11, <2>2, GoesTo DEF FlushPending, Flush, Begins, Places
    <3>2. thread[t].at = "flush" /\ UNCHANGED <<watch, pending, mode>>
      BY <1>11, <2>2 DEF FlushPending, Flush
    <3> QED
      BY <1>1, <2>2, <3>1, <3>2 DEF Shaped, Others, Shape, Keeps, Timed, Goes
  <2> QED
    BY <2>1, <2>2
<1>12. CASE RecordOutcome(t)
  <2>1. Goes(t, "ended", thread[t].returned, thread[t].verdict)
    BY <1>1, <1>12, GoesTo DEF RecordOutcome, Begins, Places
  <2>2. thread[t].at = "recording" /\ UNCHANGED <<watch, pending, mode>>
    BY <1>12 DEF RecordOutcome
  <2> QED
    BY <1>1, <2>1, <2>2 DEF Shaped, Others, Shape, Keeps, Timed, Goes
<1>13. CASE EndThread(t)
  <2>1. /\ thread' = [thread EXCEPT ![t] = Free] /\ thread[t].at = "ended"
        /\ UNCHANGED <<watch, pending, mode>>
    BY <1>13 DEF EndThread
  <2>2. /\ Free \in Thread /\ Free.at = "free" /\ Free.task = None /\ ~Free.returned
        /\ Free.verdict = "own"
    BY DEF Free, Thread
  <2>3. thread' \in [Threads -> Thread] /\ thread'[t] = Free
    BY <1>1, <2>1, <2>2
  <2> QED
    BY <1>1, <2>1, <2>2, <2>3 DEF Shaped, Others, Shape, Keeps, Timed
<1> QED
  BY <1>3, <1>4, <1>5, <1>6, <1>8, <1>9, <1>10, <1>11, <1>12, <1>13 DEF ThreadStep

\* A claim gives a free thread a task that was ready.
LEMMA ClaimShapes ==
  ASSUME IInv, NEW t \in Threads, NEW task \in Tasks, Claim(t, task)
  PROVE  /\ thread' \in [Threads -> Thread] /\ mode' = mode /\ Others(t) /\ Shape(t)'
         /\ thread[t].at = "free" /\ thread'[t].at # "free" /\ thread'[t].task = task
<1>1. /\ TypeOK /\ Shape(t) /\ thread \in [Threads -> Thread]
      /\ watch \in [Threads -> {"none", "armed", "fired"}] /\ pending \subseteq Threads
  BY Types DEF IInv
<1>2. t \in Threads \ Busy
  <2>1. Threads \ Busy # {} /\ t = CHOOSE u \in Threads \ Busy : TRUE
    BY DEF Claim, Busy
  <2> QED
    BY <2>1
<1>3. thread[t].at = "free"
  BY <1>2 DEF Busy
<1>4. /\ thread' = [thread EXCEPT ![t].at = "starting", ![t].task = task]
      /\ UNCHANGED <<watch, pending, mode>>
  BY DEF Claim
<1>5. /\ thread' \in [Threads -> Thread]
      /\ thread'[t].at = "starting" /\ thread'[t].task = task
      /\ thread'[t].returned = thread[t].returned /\ thread'[t].verdict = thread[t].verdict
      /\ \A u \in Threads \ {t} : thread'[u] = thread[u]
  BY <1>1, <1>4 DEF Thread
<1> QED
  BY <1>1, <1>3, <1>4, <1>5, WorkerAssumption DEF Others, Shape, Timed

\* The watchdog takes a deadline out of the table, or raises in the thread.
LEMMA WatchShapes ==
  ASSUME IInv, WatchdogStep
  PROVE  /\ UNCHANGED <<thread, mode>> /\ watch' \in [Threads -> {"none", "armed", "fired"}]
         /\ pending' \subseteq Threads /\ \A t \in Threads : Shape(t)'
<1>1. /\ TypeOK /\ \A t \in Threads : Shape(t)
      /\ watch \in [Threads -> {"none", "armed", "fired"}] /\ pending \subseteq Threads
  BY Types DEF IInv
<1>2. ASSUME NEW t \in Threads, FireDeadline(t)
      PROVE  /\ UNCHANGED <<thread, mode>> /\ watch' \in [Threads -> {"none", "armed", "fired"}]
             /\ pending' \subseteq Threads /\ \A u \in Threads : Shape(u)'
  <2>1. /\ watch[t] = "armed" /\ watch' = [watch EXCEPT ![t] = "fired"]
        /\ pending' = pending \/ pending' = pending \cup {t}
        /\ UNCHANGED <<thread, mode>>
    BY <1>2 DEF FireDeadline, Watches
  <2> QED
    BY <1>1, <2>1 DEF Shape, Timed
<1>3. ASSUME NEW found \in SUBSET Threads, FindStuck(found)
      PROVE  /\ UNCHANGED <<thread, mode>> /\ watch' \in [Threads -> {"none", "armed", "fired"}]
             /\ pending' \subseteq Threads /\ \A u \in Threads : Shape(u)'
  <2>1. /\ watch' = [t \in Threads |-> IF t \in found THEN "none" ELSE watch[t]]
        /\ UNCHANGED <<thread, pending, mode>>
    BY <1>3 DEF FindStuck
  <2> QED
    BY <1>1, <2>1 DEF Shape, Timed
<1>4. ASSUME UNCHANGED <<thread, watch, pending, mode>>
      PROVE  /\ watch' \in [Threads -> {"none", "armed", "fired"}]
             /\ pending' \subseteq Threads /\ \A u \in Threads : Shape(u)'
  BY <1>1, <1>4 DEF Shape, Timed
<1> QED
  BY <1>2, <1>3, <1>4 DEF WatchdogStep, RecordStuck, AskThread, Recycle

\* Every thread keeps its shape.
LEMMA ShapesStep ==
  ASSUME IInv, [Next]_vars
  PROVE  /\ thread' \in [Threads -> Thread] /\ watch' \in [Threads -> {"none", "armed", "fired"}]
         /\ pending' \subseteq Threads /\ mode' = mode
         /\ \A t \in Threads : Shape(t)'
<1>1. /\ TypeOK /\ \A t \in Threads : Shape(t)
      /\ thread \in [Threads -> Thread] /\ watch \in [Threads -> {"none", "armed", "fired"}]
      /\ pending \subseteq Threads
  BY Types DEF IInv
<1>2. ASSUME NEW t \in Threads, thread' \in [Threads -> Thread], mode' = mode, Others(t),
             Shape(t)'
      PROVE  \A u \in Threads : Shape(u)'
  <2>1. ASSUME NEW u \in Threads \ {t}
        PROVE  Shape(u)'
    <3>1. /\ thread'[u] = thread[u] /\ watch'[u] = watch[u] /\ Shape(u)
          /\ u \in pending' <=> u \in pending
      BY <1>1, <1>2, <2>1 DEF Others
    <3> QED
      BY <1>2, <3>1 DEF Shape, Timed
  <2> QED
    BY <1>2, <2>1
<1>3. CASE UNCHANGED <<thread, watch, pending, mode>>
  BY <1>1, <1>3 DEF Shape, Timed
<1>4. CASE WatchdogStep
  BY <1>1, <1>4, WatchShapes
<1>5. ASSUME NEW t \in Threads,
             ThreadStep(t) \/ EnqueueFollowUp(t) \/ EndBody(t) \/ DeliverInBody(t)
      PROVE  /\ thread' \in [Threads -> Thread] /\ mode' = mode /\ Others(t) /\ Shape(t)'
  BY <1>5, ThreadShapes DEF Shaped
<1>6. CASE \E t \in Threads, task \in Tasks : Claim(t, task)
  BY <1>2, <1>6, ClaimShapes DEF Others
<1>7. CASE \E t \in Threads :
             ThreadStep(t) \/ EnqueueFollowUp(t) \/ EndBody(t) \/ DeliverInBody(t)
  BY <1>2, <1>5, <1>7 DEF Others
<1>8. CASE RequestStop \/ LoopStep \/ AbandonDrain \/ UNCHANGED vars
  BY <1>3, <1>6, <1>8
  DEF LoopStep, RequestStop, Dispatch, BeginClaims, EndClaims, PassFails, EndPass, BeginDrain,
      CountPending, DecideDrain, AbandonDrain, Leaves, vars
<1> QED
  BY <1>4, <1>7, <1>8 DEF Next
-----------------------------------------------------------------------------
(* The rows.                                                               *)

\* A thread gets a task by a claim, and in no other way.
LEMMA TasksKept ==
  ASSUME IInv, [Next]_vars
  PROVE  \/ \A t \in Threads : Keeps(t)
         \/ \E t \in Threads, task \in Tasks : Claim(t, task)
<1>1. TypeOK
  BY DEF IInv
<1>2. CASE UNCHANGED thread
  BY <1>2 DEF Keeps
<1>3. CASE WatchdogStep
  BY <1>2, <1>3, WatchShapes
<1>4. ASSUME NEW t \in Threads,
             ThreadStep(t) \/ EnqueueFollowUp(t) \/ EndBody(t) \/ DeliverInBody(t)
      PROVE  \A u \in Threads : Keeps(u)
  <2>1. Shaped(t)
    BY <1>4, ThreadShapes
  <2> QED
    BY <2>1 DEF Shaped, Others, Keeps
<1>5. CASE RequestStop \/ LoopStep \/ AbandonDrain \/ UNCHANGED vars
  BY <1>2, <1>5
  DEF LoopStep, RequestStop, Dispatch, BeginClaims, EndClaims, PassFails, EndPass, BeginDrain,
      CountPending, DecideDrain, AbandonDrain, Leaves, vars
<1> QED
  BY <1>3, <1>4, <1>5 DEF Next

\* What a step makes of the row of a task.  One appears when a due tick is
\* dispatched, or from inside another task.
RowMoves(task) ==
  \/ status'[task] = status[task]
  \/ status[task] # "absent" /\ Claimed(task)'
  \/ /\ task = FollowUp /\ status[task] = "absent" /\ status'[task] = "ready"
     /\ \/ loop.at = "head" /\ due /\ ~due'
        \/ mode.later = "by a task" /\ Busy # {}

LEMMA RowsMove ==
  ASSUME IInv, [Next]_vars
  PROVE  /\ status' \in [Tasks -> {"absent", "ready", "running", "done"}]
         /\ \A task \in Tasks : RowMoves(task)
<1> DEFINE Goal == /\ status' \in [Tasks -> {"absent", "ready", "running", "done"}]
                   /\ \A task \in Tasks : RowMoves(task)
<1>1. status \in [Tasks -> {"absent", "ready", "running", "done"}]
  BY Types DEF IInv
<1>2. CASE UNCHANGED status
  BY <1>1, <1>2 DEF RowMoves
<1>3. CASE Dispatch
  <2>1. \/ UNCHANGED status
        \/ /\ loop.at = "head" /\ due /\ ~due'
           /\ status' = [status EXCEPT ![FollowUp] = "ready"]
    BY <1>3 DEF Dispatch
  <2>2. due => status[FollowUp] = "absent"
    BY DEF IInv, LoopOK, DueOK
  <2> QED
    BY <1>1, <1>2, <2>1, <2>2, WorkerAssumption DEF RowMoves
<1>4. ASSUME NEW t \in Threads, NEW task \in Tasks, Claim(t, task)
      PROVE  Goal
  <2>1. status[task] = "ready" /\ status' = [status EXCEPT ![task] = "running"]
    BY <1>4 DEF Claim
  <2> QED
    BY <1>1, <2>1 DEF RowMoves, Claimed
<1>5. ASSUME NEW t \in Threads, EnqueueFollowUp(t)
      PROVE  Goal
  <2>1. /\ status[FollowUp] = "absent" /\ status' = [status EXCEPT ![FollowUp] = "ready"]
        /\ mode.later = "by a task" /\ t \in Busy
    BY <1>5 DEF EnqueueFollowUp, Busy
  <2> QED
    BY <1>1, <2>1, WorkerAssumption DEF RowMoves
<1>6. ASSUME NEW task \in Tasks, Claimed(task), status' = [status EXCEPT ![task] = "done"]
      PROVE  Goal
  BY <1>1, <1>6 DEF RowMoves, Claimed
<1>7. ASSUME NEW t \in Threads, RecordOutcome(t)
      PROVE  Goal
  <2>1. thread[t].at = "recording" /\ status' = [status EXCEPT ![thread[t].task] = "done"]
    BY <1>7 DEF RecordOutcome
  <2>2. Claimed(thread[t].task) /\ thread[t].task \in Tasks
    BY <2>1, TaskTypes DEF IInv, TaskOK
  <2> QED
    BY <1>6, <2>1, <2>2
<1>8. CASE RecordStuck
  <2>1. \/ UNCHANGED status
        \/ \E s \in dog.stuck : status' = [status EXCEPT ![s[2]] = "done"]
    BY <1>8 DEF RecordStuck
  <2>2. \A s \in dog.stuck : Claimed(s[2]) /\ s[2] \in Tasks
    BY DEF IInv, DogOK, TypeOK, Watchdog
  <2> QED
    BY <1>2, <1>6, <2>1, <2>2
<1>9. ASSUME NEW t \in Threads,
             ThreadStep(t) \/ EnqueueFollowUp(t) \/ EndBody(t) \/ DeliverInBody(t)
      PROVE  Goal
  BY <1>2, <1>5, <1>7, <1>9
  DEF ThreadStep, Start, DeliverInDisarm, Acquire, Deregister, FlushPending, EndThread, EndBody,
      DeliverInBody
<1>10. CASE WatchdogStep
  BY <1>2, <1>8, <1>10 DEF WatchdogStep, FireDeadline, FindStuck, AskThread, Recycle
<1>11. CASE RequestStop \/ LoopStep \/ AbandonDrain \/ UNCHANGED vars
  BY <1>2, <1>3, <1>4, <1>11
  DEF LoopStep, RequestStop, BeginClaims, EndClaims, PassFails, EndPass, BeginDrain,
      CountPending, DecideDrain, AbandonDrain, Leaves, vars
<1> QED
  BY <1>9, <1>10, <1>11 DEF Next

\* What was claimed stays so.
LEMMA ClaimsStay ==
  ASSUME IInv, [Next]_vars, NEW task \in Tasks, Claimed(task)
  PROVE  Claimed(task)'
BY RowsMove DEF RowMoves, Claimed
-----------------------------------------------------------------------------
(* The loop.                                                               *)

\* The steps of the others leave the loop as it is.
LEMMA LoopRests ==
  ASSUME [Next]_vars
  PROVE  \/ UNCHANGED loop
         \/ /\ LoopStep \/ AbandonDrain
            /\ UNCHANGED <<thread, status>> \/ Dispatch
                 \/ \E t \in Threads, task \in Tasks : Claim(t, task)
<1>1. ASSUME NEW t \in Threads,
             ThreadStep(t) \/ EnqueueFollowUp(t) \/ EndBody(t) \/ DeliverInBody(t)
      PROVE  UNCHANGED loop
  BY <1>1
  DEF ThreadStep, Start, DeliverInDisarm, Acquire, Deregister, FlushPending, RecordOutcome,
      EndThread, EndBody, DeliverInBody, EnqueueFollowUp
<1>2. CASE WatchdogStep \/ RequestStop \/ UNCHANGED vars
  BY <1>2
  DEF WatchdogStep, FireDeadline, FindStuck, RecordStuck, AskThread, Recycle, RequestStop, vars
<1>3. CASE LoopStep \/ AbandonDrain
  BY <1>3
  DEF LoopStep, BeginClaims, EndClaims, PassFails, EndPass, BeginDrain, CountPending,
      DecideDrain, AbandonDrain, Leaves
<1> QED
  BY <1>1, <1>2, <1>3 DEF Next

\* What the loop's record is, where its steps change it.
LEMMA LoopMoves ==
  ASSUME TypeOK, LoopStep \/ AbandonDrain
  PROVE  /\ loop' \in Loop
         /\ ~BeginClaims => loop.futures \subseteq loop'.futures
<1>1. loop \in Loop /\ loop.claims \in Nat /\ loop.futures \subseteq Tasks
  BY DEF TypeOK, Loop
<1>2. CASE Dispatch
  BY <1>1, <1>2 DEF Dispatch, Loop
<1>3. CASE BeginClaims
  BY <1>1, <1>3 DEF BeginClaims, Loop
<1>4. ASSUME NEW t \in Threads, NEW task \in Tasks, Claim(t, task)
      PROVE  loop' \in Loop /\ loop.futures \subseteq loop'.futures
  <2>1. loop' = [loop EXCEPT !.futures = @ \cup {task}, !.claims = @ + 1, !.claimed = TRUE]
    BY <1>4 DEF Claim
  <2>2. /\ loop.futures \cup {task} \in SUBSET Tasks /\ loop.claims + 1 \in Nat
    BY <1>1
  <2>3. loop'.futures = loop.futures \cup {task}
    BY <1>1, <2>1 DEF Loop
  <2> QED
    BY <1>1, <2>1, <2>2, <2>3 DEF Loop
<1>5. CASE EndClaims
  BY <1>1, <1>5 DEF EndClaims, Loop
<1>6. CASE PassFails \/ EndPass
  <2>1. loop' = NewPass(loop)
    BY <1>6 DEF PassFails, EndPass
  <2> QED
    BY <1>1, <2>1 DEF NewPass, Loop
<1>7. CASE BeginDrain
  BY <1>1, <1>7 DEF BeginDrain, Loop
<1>8. CASE CountPending
  <2>1. \/ loop' = [loop EXCEPT !.at = "gone"]
        \/ loop' = [loop EXCEPT !.at = "counting", !.counted = loop.futures \cap Undone]
    BY <1>8 DEF CountPending, Leaves
  <2> QED
    BY <1>1, <2>1 DEF Loop
<1>9. CASE DecideDrain
  <2>1. \/ loop' = [loop EXCEPT !.at = "gone"]
        \/ loop' = [loop EXCEPT !.at = "draining", !.counted = {}]
    BY <1>9 DEF DecideDrain, Leaves
  <2> QED
    BY <1>1, <2>1 DEF Loop
<1>10. CASE AbandonDrain
  <2>1. loop' = [[loop EXCEPT !.abandons = TRUE] EXCEPT !.at = "gone"]
    BY <1>10 DEF AbandonDrain, Leaves
  <2> QED
    BY <1>1, <2>1 DEF Loop
<1> QED
  BY <1>2, <1>3, <1>4, <1>5, <1>6, <1>7, <1>8, <1>9, <1>10 DEF LoopStep

\* A future leaves the loop's once its thread is free.
LEMMA FuturesKept ==
  ASSUME IInv, [Next]_vars, NEW t \in Threads, thread[t].at # "free"
  PROVE  thread[t].task \in loop'.futures
<1>1. TypeOK /\ thread[t].task \in loop.futures /\ thread[t].task \in Undone
  BY DEF IInv, TaskOK, Undone, Busy
<1>2. CASE UNCHANGED loop
  BY <1>1, <1>2
<1>3. CASE BeginClaims
  <2>1. loop'.futures = loop.futures \cap Undone
    BY <1>1, <1>3 DEF BeginClaims, Loop, TypeOK
  <2> QED
    BY <1>1, <2>1
<1> QED
  BY <1>1, <1>2, <1>3, LoopRests, LoopMoves

LEMMA TasksStep ==
  ASSUME IInv, [Next]_vars, NEW t \in Threads
  PROVE  TaskOK(t)'
<1> SUFFICES ASSUME thread'[t].at # "free"
             PROVE  /\ status'[thread'[t].task] \in {"running", "done"} /\ thread'[t].task \in loop'.futures
                    /\ \A u \in Threads :
                         thread'[u].at # "free" /\ thread'[u].task = thread'[t].task => u = t
  BY DEF TaskOK, Claimed
<1>1. \A u \in Threads : /\ TaskOK(u)
                         /\ thread[u].at # "free" => thread[u].task \in Tasks
  BY TaskTypes DEF IInv
<1>2. CASE \A u \in Threads : Keeps(u)
  <2>1. thread[t].at # "free" /\ thread'[t].task = thread[t].task
    BY <1>2 DEF Keeps
  <2>2. status'[thread[t].task] \in {"running", "done"} /\ thread[t].task \in loop'.futures
    <3>1. Claimed(thread[t].task) /\ thread[t].task \in Tasks
      BY <1>1, <2>1 DEF TaskOK
    <3>2. PICK task \in Tasks : task = thread[t].task
      BY <3>1
    <3>3. Claimed(task)'
      BY <3>1, <3>2, ClaimsStay
    <3> QED
      BY <2>1, <3>2, <3>3, FuturesKept DEF Claimed
  <2>3. ASSUME NEW u \in Threads, thread'[u].at # "free", thread'[u].task = thread'[t].task
        PROVE  u = t
    BY <1>1, <1>2, <2>1, <2>3 DEF Keeps, TaskOK
  <2> QED
    BY <2>1, <2>2, <2>3 DEF Claimed
<1>3. ASSUME NEW w \in Threads, NEW task \in Tasks, Claim(w, task)
      PROVE  /\ status'[thread'[t].task] \in {"running", "done"} /\ thread'[t].task \in loop'.futures
             /\ \A u \in Threads :
                  thread'[u].at # "free" /\ thread'[u].task = thread'[t].task => u = t
  <2>1. /\ thread'[w].task = task
        /\ \A u \in Threads \ {w} : thread'[u] = thread[u]
    BY <1>3, ClaimShapes DEF Others
  <2>2. status[task] = "ready" /\ Claimed(task)' /\ task \in loop'.futures
    <3>1. /\ status[task] = "ready" /\ status' = [status EXCEPT ![task] = "running"]
          /\ loop' = [loop EXCEPT !.futures = @ \cup {task}, !.claims = @ + 1,
                                  !.claimed = TRUE]
      BY <1>3 DEF Claim
    <3>2. loop \in Loop /\ status \in [Tasks -> {"absent", "ready", "running", "done"}]
      BY Types DEF IInv
    <3>3. loop'.futures = loop.futures \cup {task}
      BY <3>1, <3>2 DEF Loop
    <3> QED
      BY <3>1, <3>2, <3>3 DEF Claimed
  <2>3. ASSUME NEW u \in Threads \ {w}, thread'[u].at # "free"
        PROVE  /\ thread[u].at # "free" /\ thread'[u].task = thread[u].task
               /\ Claimed(thread[u].task) /\ thread[u].task # task /\ thread[u].task \in Tasks
               /\ thread[u].task \in loop'.futures
    <3>1. thread[u].at # "free" /\ thread'[u].task = thread[u].task
      BY <2>1, <2>3
    <3>2. Claimed(thread[u].task) /\ thread[u].task \in Tasks
      BY <1>1, <3>1 DEF TaskOK
    <3> QED
      BY <2>2, <3>1, <3>2, FuturesKept DEF Claimed
  <2>4. CASE t = w
    BY <2>1, <2>2, <2>3, <2>4 DEF Claimed
  <2>5. CASE t # w
    <3>1. PICK mine \in Tasks : mine = thread[t].task
      BY <2>3, <2>5
    <3>2. Claimed(mine)'
      BY <2>3, <2>5, <3>1, ClaimsStay
    <3>3. ASSUME NEW u \in Threads, thread'[u].at # "free", thread'[u].task = thread'[t].task
          PROVE  u = t
      BY <1>1, <2>1, <2>3, <2>5, <3>3 DEF TaskOK
    <3> QED
      BY <2>3, <2>5, <3>1, <3>2, <3>3 DEF Claimed
  <2> QED
    BY <2>4, <2>5
<1> QED
  BY <1>2, <1>3, TasksKept
-----------------------------------------------------------------------------
(* The watchdog.                                                           *)

LEMMA DogStep ==
  ASSUME IInv, [Next]_vars
  PROVE  /\ dog' \in Watchdog /\ DogOK' /\ stuck' \in [Threads -> Tasks \cup {None}]
<1>1. /\ dog \in Watchdog /\ stuck \in [Threads -> Tasks \cup {None}] /\ DogOK
      /\ dog.stuck \subseteq Threads \X Tasks
  BY DEF IInv, TypeOK, Watchdog
<1>2. \A s \in Threads \X Tasks : Claimed(s[2]) => Claimed(s[2])'
  BY ClaimsStay
<1>3. CASE UNCHANGED <<dog, stuck>>
  BY <1>1, <1>2, <1>3 DEF DogOK, Claimed
<1>4. ASSUME NEW found \in SUBSET Threads, FindStuck(found)
      PROVE  dog' \in Watchdog /\ DogOK' /\ UNCHANGED stuck
  <2> DEFINE batch == {<<t, thread[t].task>> : t \in found}
  <2>1. \A t \in found : watch[t] = "fired" /\ Shape(t) /\ TaskOK(t)
    BY <1>4 DEF FindStuck, Watches, IInv
  <2>2. \A t \in found : Claimed(thread[t].task) /\ thread[t].task \in Tasks
    BY <2>1, TaskTypes DEF Shape, TaskOK
  <2>3. batch \subseteq Threads \X Tasks /\ \A s \in batch : Claimed(s[2])
    BY <2>2
  <2>4. /\ dog' = [Watching EXCEPT !.at = "recording", !.stuck = batch]
        /\ UNCHANGED <<stuck, status>>
    BY <1>4 DEF FindStuck
  <2> HIDE DEF batch
  <2>5. dog' \in Watchdog /\ dog'.at = "recording" /\ dog'.stuck = batch
    BY <2>3, <2>4 DEF Watching, Watchdog
  <2> QED
    BY <2>3, <2>4, <2>5 DEF DogOK, Claimed
<1>5. CASE RecordStuck
  <2>1. PICK s \in dog.stuck : dog' = [at |-> "asking", stuck |-> dog.stuck \ {s}, now |-> s]
    BY <1>5 DEF RecordStuck
  <2>2. UNCHANGED stuck
    BY <1>5 DEF RecordStuck
  <2> QED
    BY <1>1, <1>2, <2>1, <2>2 DEF DogOK, Watchdog, Claimed
<1>6. ASSUME dog' = NextStuck
      PROVE  dog' \in Watchdog /\ DogOK'
  <2>1. CASE dog.stuck = {}
    BY <1>6, <2>1 DEF NextStuck, Watching, Watchdog, DogOK
  <2>2. CASE dog.stuck # {}
    <3>1. dog' = [dog EXCEPT !.at = "recording", !.now = None]
      BY <1>6, <2>2 DEF NextStuck
    <3>2. dog' \in Watchdog /\ dog'.at = "recording" /\ dog'.stuck = dog.stuck
      BY <1>1, <3>1 DEF Watchdog
    <3> QED
      BY <1>1, <1>2, <3>2 DEF DogOK, Claimed
  <2> QED
    BY <2>1, <2>2
<1>7. CASE AskThread
  <2>1. dog.at = "asking" /\ dog.now \in Threads \X Tasks
    BY <1>1, <1>7 DEF AskThread, DogOK
  <2>2. CASE dog' = NextStuck /\ UNCHANGED stuck
    BY <1>1, <1>6, <2>2
  <2>3. CASE /\ stuck' = [stuck EXCEPT ![dog.now[1]] = dog.now[2]]
             /\ dog' = [dog EXCEPT !.at = "recycling"]
    <3>1. stuck' \in [Threads -> Tasks \cup {None}]
      BY <1>1, <2>1, <2>3
    <3>2. dog' \in Watchdog /\ dog'.stuck = dog.stuck /\ dog'.now = dog.now
      BY <1>1, <2>3 DEF Watchdog
    <3> QED
      BY <1>1, <1>2, <2>1, <3>1, <3>2 DEF DogOK, Claimed
  <2> QED
    BY <1>7, <2>2, <2>3 DEF AskThread
<1>8. CASE Recycle
  BY <1>1, <1>6, <1>8 DEF Recycle
<1>9. CASE WatchdogStep
  BY <1>1, <1>3, <1>4, <1>5, <1>7, <1>8, <1>9 DEF WatchdogStep, FireDeadline
<1>10. ASSUME NEW t \in Threads,
              ThreadStep(t) \/ EnqueueFollowUp(t) \/ EndBody(t) \/ DeliverInBody(t)
       PROVE  UNCHANGED <<dog, stuck>>
  BY <1>10
  DEF ThreadStep, Start, DeliverInDisarm, Acquire, Deregister, FlushPending, RecordOutcome,
      EndThread, EndBody, DeliverInBody, EnqueueFollowUp
<1>11. CASE RequestStop \/ LoopStep \/ AbandonDrain \/ UNCHANGED vars
  <2>1. UNCHANGED <<dog, stuck>>
    BY <1>11
    DEF LoopStep, RequestStop, Dispatch, BeginClaims, Claim, EndClaims, PassFails, EndPass,
        BeginDrain, CountPending, DecideDrain, AbandonDrain, Leaves, vars
  <2> QED
    BY <1>3, <2>1
<1> QED
  BY <1>3, <1>9, <1>10, <1>11 DEF Next

\* The flags, the lock and the count of what nobody planned.
LEMMA FlagsStep ==
  ASSUME IInv, [Next]_vars
  PROVE  /\ due' \in BOOLEAN /\ stop' \in BOOLEAN /\ recycling' \in BOOLEAN
         /\ lock' \in Threads \cup {None} /\ events' \in 0 .. mode'.events
<1>1. /\ TypeOK /\ mode' = mode
      /\ due \in BOOLEAN /\ stop \in BOOLEAN /\ recycling \in BOOLEAN
      /\ lock \in Threads \cup {None}
  BY ShapesStep DEF IInv, TypeOK
<1>2. Happens \/ UNCHANGED events => events' \in 0 .. mode'.events
  <2>1. mode.events \in Nat /\ events \in 0 .. mode.events
    BY <1>1, Types
  <2> QED
    BY <1>1, <2>1 DEF Happens
<1>3. ASSUME NEW t \in Threads,
             ThreadStep(t) \/ EnqueueFollowUp(t) \/ EndBody(t) \/ DeliverInBody(t)
      PROVE  UNCHANGED <<due, stop, recycling, events>> /\ lock' \in Threads \cup {None}
  BY <1>1, <1>3
  DEF ThreadStep, Start, DeliverInDisarm, Acquire, Acquires, Deregister, FlushPending, Flush,
      Absorbed, RecordOutcome, EndThread, EndBody, DeliverInBody, EnqueueFollowUp
<1>4. CASE WatchdogStep
  <2>1. UNCHANGED <<due, lock>> /\ (Happens \/ UNCHANGED events)
    BY <1>4
    DEF WatchdogStep, FireDeadline, FindStuck, RecordStuck, AskThread, Recycle
  <2>2. recycling' \in BOOLEAN /\ stop' \in BOOLEAN
    BY <1>1, <1>4
    DEF WatchdogStep, FireDeadline, FindStuck, RecordStuck, AskThread, Recycle
  <2> QED
    BY <1>1, <1>2, <2>1, <2>2
<1>5. CASE RequestStop \/ LoopStep \/ AbandonDrain \/ UNCHANGED vars
  <2>1. UNCHANGED <<lock, recycling>> /\ (Happens \/ UNCHANGED events)
    BY <1>5
    DEF LoopStep, RequestStop, Dispatch, BeginClaims, Claim, EndClaims, PassFails, EndPass,
        BeginDrain, CountPending, DecideDrain, AbandonDrain, Leaves, vars
  <2>2. due' \in BOOLEAN /\ stop' \in BOOLEAN
    <3>1. CASE EndPass
      BY <1>1, <3>1 DEF EndPass, LimitReached, BatchEmpty
    <3> QED
      BY <1>1, <1>5, <3>1
      DEF LoopStep, RequestStop, Dispatch, BeginClaims, Claim, EndClaims, PassFails,
          BeginDrain, CountPending, DecideDrain, AbandonDrain, Leaves, vars
  <2> QED
    BY <1>1, <1>2, <2>1, <2>2
<1> QED
  BY <1>1, <1>2, <1>3, <1>4, <1>5 DEF Next
-----------------------------------------------------------------------------
(* What the loop knows.                                                    *)

\* A tick that is due has not been looked at, and its task is not there yet.
LEMMA DueStep ==
  ASSUME IInv, [Next]_vars
  PROVE  DueOK'
<1>1. DueOK /\ loop \in Loop /\ mode' = mode
  BY ShapesStep DEF IInv, LoopOK, DueOK, TypeOK
<1>2. due' => due
  BY DEF Next, LoopStep, WatchdogStep, ThreadStep, RequestStop, Dispatch, BeginClaims, Claim,
         EndClaims, PassFails, EndPass, BeginDrain, CountPending, DecideDrain, AbandonDrain,
         Leaves, FireDeadline, FindStuck, RecordStuck, AskThread, Recycle, Start,
         DeliverInDisarm, Acquire, Deregister, FlushPending, RecordOutcome, EndThread,
         EnqueueFollowUp, EndBody, DeliverInBody, vars
<1>3. due' => status'[FollowUp] = "absent"
  <2>1. FollowUp \in Tasks
    BY WorkerAssumption
  <2> QED
    BY <1>1, <1>2, <2>1, RowsMove DEF RowMoves, DueOK
<1>4. due' => loop'.owed
  <2>1. CASE UNCHANGED loop
    BY <1>1, <1>2, <2>1 DEF DueOK
  <2>2. CASE Dispatch
    BY <1>1, <2>2 DEF Dispatch, Loop
  <2>3. CASE LoopStep \/ AbandonDrain
    <3>1. loop'.owed = loop.owed \/ Dispatch
      BY <1>1, <2>3
      DEF LoopStep, BeginClaims, Claim, EndClaims, PassFails, EndPass, NewPass, BeginDrain,
          CountPending, DecideDrain, AbandonDrain, Leaves, Loop
    <3> QED
      BY <1>1, <1>2, <2>2, <3>1 DEF DueOK
  <2> QED
    BY <2>1, <2>3, LoopRests
<1> QED
  BY <1>1, <1>2, <1>3, <1>4 DEF DueOK

\* A pass that began with nothing running and claimed nothing has nothing running.
LEMMA PassStep ==
  ASSUME IInv, [Next]_vars
  PROVE  PassOK'
<1>1. PassOK /\ loop \in Loop
  BY DEF IInv, LoopOK, PassOK, TypeOK
<1>2. ASSUME \A t \in Threads : Keeps(t)
      PROVE  Busy' \subseteq Busy
  BY <1>2 DEF Keeps, Busy
<1>3. CASE \E t \in Threads, task \in Tasks : Claim(t, task)
  <2>1. /\ loop'.at = "claiming" /\ loop'.claimed /\ ~loop'.found
    BY <1>1, <1>3 DEF Claim, PassOK, Loop
  <2> QED
    BY <2>1 DEF PassOK
<1>4. CASE UNCHANGED loop /\ \A t \in Threads : Keeps(t)
  BY <1>1, <1>2, <1>4 DEF PassOK
<1>5. CASE BeginClaims
  <2>1. /\ loop'.at = "claiming" /\ loop'.found = loop.found /\ loop.at = "head"
        /\ loop'.idle = (loop.futures \cap Undone = {}) /\ UNCHANGED thread
    BY <1>1, <1>5 DEF BeginClaims, Loop
  <2>2. \A t \in Busy : thread[t].task \in loop.futures \cap Undone
    BY DEF IInv, TaskOK, Undone, Busy
  <2>3. loop'.idle => Busy' = {}
    BY <2>1, <2>2 DEF Busy
  <2> QED
    BY <1>1, <2>1, <2>3 DEF PassOK
<1>6. CASE EndClaims
  <2>1. /\ loop'.at = "ending" /\ loop'.idle = loop.idle /\ loop'.claimed = loop.claimed
        /\ UNCHANGED thread
    BY <1>1, <1>6 DEF EndClaims, Loop
  <2> QED
    BY <1>1, <2>1 DEF PassOK, Busy
<1>7. CASE PassFails \/ EndPass
  <2>1. loop' = NewPass(loop)
    BY <1>7 DEF PassFails, EndPass
  <2>2. loop'.at = "head" /\ ~loop'.found /\ ~loop'.idle
    BY <1>1, <2>1 DEF NewPass, Loop
  <2> QED
    BY <2>2 DEF PassOK
<1>8. CASE Dispatch \/ BeginDrain \/ CountPending \/ DecideDrain \/ AbandonDrain
  <2>1. /\ loop.at \notin {"claiming", "ending"}
        /\ loop'.idle = loop.idle /\ loop'.claimed = loop.claimed /\ loop'.found = loop.found
        /\ loop'.at = "head" => loop.at = "head"
        /\ loop'.at # "claiming"
    BY <1>1, <1>8
    DEF Dispatch, BeginDrain, CountPending, DecideDrain, AbandonDrain, Leaves, Loop
  <2> QED
    BY <1>1, <2>1 DEF PassOK
<1> QED
  BY <1>3, <1>4, <1>5, <1>6, <1>7, <1>8, LoopRests, TasksKept DEF LoopStep

\* An empty queue that was found with nothing running stays empty until the pass ends.
LEMMA EmptyStep ==
  ASSUME IInv, [Next]_vars
  PROVE  EmptyOK'
<1> SUFFICES ASSUME loop'.at = "ending", loop'.found, loop'.idle, ~loop'.claimed,
                    NEW task \in Tasks
             PROVE  status'[task] # "ready"
  BY DEF EmptyOK
<1>1. EmptyOK /\ PassOK /\ loop \in Loop
  BY DEF IInv, LoopOK, EmptyOK, PassOK, TypeOK
<1>2. CASE UNCHANGED loop
  <2>1. Busy = {} /\ status[task] # "ready"
    BY <1>1, <1>2 DEF EmptyOK, PassOK
  <2> QED
    BY <1>2, <2>1, RowsMove DEF RowMoves, Claimed
<1>3. CASE EndClaims
  <2>1. \/ loop' = [loop EXCEPT !.at = "ending"]
        \/ \A other \in Tasks : status[other] # "ready"
    BY <1>3 DEF EndClaims
  <2>2. loop.at = "claiming" /\ UNCHANGED status
    BY <1>3 DEF EndClaims
  <2> QED
    BY <1>1, <2>1, <2>2 DEF PassOK, Loop
<1>4. CASE LoopStep \/ AbandonDrain
  <2>1. CASE Dispatch
    BY <1>1, <2>1 DEF Dispatch, Loop
  <2>2. CASE BeginClaims
    BY <1>1, <2>2 DEF BeginClaims, Loop
  <2>3. CASE PassFails \/ EndPass
    <3>1. loop' = NewPass(loop)
      BY <2>3 DEF PassFails, EndPass
    <3> QED
      BY <1>1, <3>1 DEF NewPass, Loop
  <2>4. CASE \E t \in Threads, other \in Tasks : Claim(t, other)
    BY <1>1, <2>4 DEF Claim, Loop
  <2>5. CASE BeginDrain
    BY <1>1, <2>5 DEF BeginDrain, Loop
  <2>6. CASE CountPending
    <3>1. CASE loop' = [loop EXCEPT !.at = "gone"]
      BY <1>1, <3>1 DEF Loop
    <3>2. PICK left : left = loop.futures \cap Undone
      OBVIOUS
    <3>3. CASE loop' = [loop EXCEPT !.at = "counting", !.counted = left]
      BY <1>1, <3>3 DEF Loop
    <3> QED
      BY <2>6, <3>1, <3>2, <3>3 DEF CountPending, Leaves
  <2>7. CASE DecideDrain
    BY <1>1, <2>7 DEF DecideDrain, Leaves, Loop
  <2>8. CASE AbandonDrain
    <3>1. loop' = [[loop EXCEPT !.abandons = TRUE] EXCEPT !.at = "gone"]
      BY <2>8 DEF AbandonDrain, Leaves
    <3> QED
      BY <1>1, <3>1 DEF Loop
  <2> QED
    BY <1>3, <1>4, <2>1, <2>2, <2>3, <2>4, <2>5, <2>6, <2>7, <2>8 DEF LoopStep
<1> QED
  BY <1>2, <1>4, LoopRests

\* The threads and the tasks they are at: as many of these as of those.
TaskOf == [t \in Busy |-> thread[t].task]

LEMMA FiniteUndone ==
  /\ IsFiniteSet(Busy) /\ IsFiniteSet(Undone)
  /\ TaskOf \in [Busy -> Undone]
<1>1. IsFiniteSet(Busy)
  BY WorkerAssumption, FS_Subset DEF Busy
<1>2. TaskOf \in [Busy -> Undone] /\ \A u \in Undone : \E t \in Busy : TaskOf[t] = u
  BY DEF Undone, TaskOf
<1>3. TaskOf \in Surjection(Busy, Undone)
  BY <1>2, Fun_IsSurj
<1> QED
  BY <1>1, <1>2, <1>3, FS_Surjection

\* What the drain counted takes in all that still runs: nothing is claimed meanwhile.
LEMMA CountStep ==
  ASSUME IInv, [Next]_vars
  PROVE  CountOK'
<1> SUFFICES ASSUME loop'.at = "counting"
             PROVE  Undone' \subseteq loop'.counted /\ IsFiniteSet(loop'.counted)
  BY DEF CountOK
<1>1. CountOK /\ loop \in Loop
  BY DEF IInv, LoopOK, CountOK, TypeOK
<1>2. CASE UNCHANGED loop /\ \A t \in Threads : Keeps(t)
  <2>1. Undone' \subseteq Undone
    BY <1>2 DEF Undone, Busy, Keeps
  <2> QED
    BY <1>1, <1>2, <2>1 DEF CountOK
<1>3. CASE CountPending
  <2>1. /\ loop'.counted = loop.futures \cap Undone /\ UNCHANGED thread
    BY <1>1, <1>3 DEF CountPending, Leaves, Loop
  <2>2. Undone \subseteq loop.futures
    BY DEF Undone, Busy, IInv, TaskOK
  <2> QED
    BY <2>1, <2>2, FiniteUndone, FS_Subset DEF Undone, Busy
<1>4. CASE LoopStep \/ AbandonDrain
  <2>1. loop'.at # "counting" \/ CountPending
    BY <1>1, <1>4
    DEF LoopStep, Dispatch, BeginClaims, Claim, EndClaims, PassFails, EndPass, NewPass,
        BeginDrain, DecideDrain, AbandonDrain, Leaves, Loop
  <2> QED
    BY <1>3, <2>1
<1>5. CASE \E t \in Threads, task \in Tasks : Claim(t, task)
  BY <1>1, <1>5 DEF Claim, Loop
<1> QED
  BY <1>2, <1>4, <1>5, LoopRests, TasksKept
-----------------------------------------------------------------------------
(* The invariant.                                                          *)

LEMMA InitHolds == Init => IInv
<1> SUFFICES ASSUME Init
             PROVE  IInv
  OBVIOUS
<1>1. \A t \in Threads : thread[t] = Free /\ watch[t] = "none" /\ t \notin pending
  BY DEF Init
<1>2. Free \in Thread
  BY DEF Free, Thread
<1>3. /\ loop.at = "head" /\ loop.owed /\ ~loop.idle /\ ~loop.found /\ loop \in Loop
      /\ dog.at = "watching" /\ dog.stuck = {} /\ dog \in Watchdog
  BY DEF Init, Loop, Watching, Watchdog
<1>4. /\ mode \in Modes /\ mode.events \in Nat
      /\ mode.later # "never" => FollowUp \notin mode.ready
  BY WorkerAssumption DEF Init
<1>5. TypeOK
  <2>1. status \in [Tasks -> {"absent", "ready", "running", "done"}]
    BY DEF Init
  <2>2. thread \in [Threads -> Thread] /\ watch \in [Threads -> {"none", "armed", "fired"}]
    BY <1>2 DEF Init
  <2>3. events \in 0 .. mode.events
    <3>1. events = 0
      BY DEF Init
    <3>2. mode.events \in Nat
      BY <1>4
    <3> QED
      BY <3>1, <3>2
  <2> QED
    BY <1>3, <1>4, <2>1, <2>2, <2>3 DEF TypeOK, Init
<1>6. \A t \in Threads : Shape(t) /\ TaskOK(t)
  <2>1. Free.at = "free" /\ Free.task = None /\ ~Free.returned /\ Free.verdict = "own"
    BY DEF Free
  <2> QED
    BY <1>1, <2>1 DEF Shape, TaskOK
<1>7. due => status[FollowUp] = "absent" /\ mode.later = "by a tick"
  BY <1>4, WorkerAssumption DEF Init
<1> QED
  BY <1>3, <1>5, <1>6, <1>7 DEF IInv, DogOK, LoopOK, DueOK, PassOK, EmptyOK, CountOK

LEMMA NextHolds == IInv /\ [Next]_vars => IInv'
<1> SUFFICES ASSUME IInv, [Next]_vars
             PROVE  IInv'
  OBVIOUS
<1>1. loop' \in Loop
  BY LoopRests, LoopMoves DEF IInv, TypeOK
<1>2. TypeOK'
  BY <1>1, ShapesStep, RowsMove, DogStep, FlagsStep DEF IInv, TypeOK
<1>3. LoopOK'
  BY DueStep, PassStep, EmptyStep, CountStep DEF LoopOK
<1> QED
  BY <1>2, <1>3, ShapesStep, TasksStep, DogStep DEF IInv

\* The inductive invariant.
THEOREM Invariant == Spec => []IInv
<1> QED
  BY InitHolds, NextHolds, PTL DEF Spec

\* Every variable keeps its type.
THEOREM TypeCorrect == Spec => []TypeOK
<1>1. IInv => TypeOK
  BY DEF IInv
<1> QED
  BY <1>1, Invariant, PTL

\* What the watchdog raised is gone before its attempt's outcome is written: the
\* thread's deregistration takes the deadline out of the table under the lock, and
\* flushes what was raised before.
THEOREM TimeoutsStay == Spec => []TimeoutsStayInTheirAttempt
<1>1. IInv => TimeoutsStayInTheirAttempt
  <2> SUFFICES ASSUME IInv
               PROVE  TimeoutsStayInTheirAttempt
    OBVIOUS
  <2>1. pending \subseteq Threads /\ \A t \in Threads : Shape(t)
    BY DEF IInv, TypeOK
  <2> QED
    BY <2>1 DEF TimeoutsStayInTheirAttempt, Shape
<1> QED
  BY <1>1, Invariant, PTL
-----------------------------------------------------------------------------
(* The ends of a run.                                                      *)

\* As many stuck attempts as tasks that were counted are all the tasks there are.
LEMMA StuckAreAll ==
  ASSUME IInv, loop.at = "counting", Cardinality(loop.counted) <= Cardinality(StuckAlive)
  PROVE  StuckAlive = Busy
<1>1. StuckAlive \subseteq Busy
  <2>1. \A t \in StuckAlive : t \in Threads /\ stuck[t] # None /\ RunningOn(t) = stuck[t]
    BY DEF StuckAlive
  <2> QED
    BY <2>1 DEF RunningOn, Busy
<1>2. TaskOf \in Injection(Busy, Undone)
  <2>1. \A t, u \in Busy : TaskOf[t] = TaskOf[u] => t = u
    BY DEF TaskOf, Busy, IInv, TaskOK
  <2> QED
    BY <2>1, FiniteUndone, Fun_IsInj
<1>3. Undone \subseteq loop.counted /\ IsFiniteSet(loop.counted)
  BY DEF IInv, LoopOK, CountOK
<1>4. Cardinality(Busy) <= Cardinality(Undone)
  BY <1>2, FiniteUndone, FS_Injection
<1>5. Cardinality(Undone) <= Cardinality(loop.counted)
  BY <1>3, FS_Subset
<1>6. /\ Cardinality(StuckAlive) <= Cardinality(Busy)
      /\ Cardinality(StuckAlive) = Cardinality(Busy) => StuckAlive = Busy
      /\ IsFiniteSet(StuckAlive)
  BY <1>1, FiniteUndone, FS_Subset
<1>7. /\ Cardinality(Busy) \in Int /\ Cardinality(Undone) \in Int
      /\ Cardinality(loop.counted) \in Int /\ Cardinality(StuckAlive) \in Int
  BY <1>3, <1>6, FiniteUndone, FS_CardinalityType
<1> QED
  BY <1>4, <1>5, <1>6, <1>7

\* The process leaves its drain with nothing running, or with stuck attempts alone.
LEMMA DrainEnds ==
  ASSUME IInv, [Next]_vars, Alive, loop'.at = "gone", ~loop'.abandons
  PROVE  \A t \in Busy : stuck[t] # None /\ stuck[t] = RunningOn(t)
<1>1. loop \in Loop
  BY DEF IInv, TypeOK
<1>2. CASE CountPending
  <2>1. loop.futures \cap Undone = {}
    <3>1. CASE loop.futures \cap Undone # {}
      <4>1. loop' = [loop EXCEPT !.at = "counting", !.counted = loop.futures \cap Undone]
        BY <1>2, <3>1 DEF CountPending
      <4> QED
        BY <1>1, <4>1 DEF Loop
    <3> QED
      BY <3>1
  <2>2. \A t \in Busy : thread[t].task \in loop.futures \cap Undone
    BY DEF IInv, TaskOK, Undone, Busy
  <2> QED
    BY <2>1, <2>2
<1>3. CASE DecideDrain
  <2>1. Cardinality(loop.counted) <= Cardinality(StuckAlive)
    <3>1. CASE ~(recycling /\ Cardinality(loop.counted) <= Cardinality(StuckAlive))
      <4>1. loop' = [loop EXCEPT !.at = "draining", !.counted = {}]
        BY <1>3, <3>1 DEF DecideDrain
      <4> QED
        BY <1>1, <4>1 DEF Loop
    <3> QED
      BY <3>1
  <2>2. loop.at = "counting"
    BY <1>3 DEF DecideDrain
  <2>3. Busy = StuckAlive
    BY <2>1, <2>2, StuckAreAll
  <2> QED
    BY <2>3 DEF StuckAlive
<1>4. ~AbandonDrain
  <2>1. CASE AbandonDrain
    <3>1. loop' = [[loop EXCEPT !.abandons = TRUE] EXCEPT !.at = "gone"]
      BY <2>1 DEF AbandonDrain, Leaves
    <3> QED
      BY <1>1, <3>1 DEF Loop
  <2> QED
    BY <2>1
<1>5. ~UNCHANGED loop
  BY DEF Alive
<1>6. ~(Dispatch \/ BeginClaims \/ EndClaims \/ BeginDrain)
  BY <1>1 DEF Dispatch, BeginClaims, EndClaims, BeginDrain, Loop
<1>7. ~(PassFails \/ EndPass)
  <2>1. CASE loop' = NewPass(loop)
    BY <1>1, <2>1 DEF NewPass, Loop
  <2> QED
    BY <2>1 DEF PassFails, EndPass
<1>8. ~\E t \in Threads, task \in Tasks : Claim(t, task)
  BY <1>1 DEF Claim, Loop
<1> QED
  BY <1>2, <1>3, <1>4, <1>5, <1>6, <1>7, <1>8, LoopRests DEF LoopStep

\* A batch stops in EndPass, after a pass that found the queue empty.
LEMMA BatchEnds ==
  ASSUME IInv, [Next]_vars, loop.at = "ending", loop'.at = "head", ~stop, stop', ~LimitReached
  PROVE  (\A task \in Tasks : status[task] # "ready") /\ ~due /\ Busy = {}
<1>1. LoopOK /\ loop \in Loop
  BY DEF IInv, TypeOK
<1>2. CASE EndPass
  <2>1. BatchEmpty
    BY <1>2 DEF EndPass
  <2> QED
    BY <1>1, <2>1 DEF BatchEmpty, Idle, LoopOK, DueOK, PassOK, EmptyOK
<1>3. ~UNCHANGED loop
  OBVIOUS
<1>4. \/ EndPass
      \/ UNCHANGED loop
  BY <1>3, LoopRests
  DEF LoopStep, Dispatch, BeginClaims, Claim, EndClaims, PassFails, BeginDrain, CountPending,
      DecideDrain, AbandonDrain
<1> QED
  BY <1>2, <1>3, <1>4

\* A run that ends by itself leaves no work it could have done: the drain waits for
\* every attempt that was not given up, and --batch ends over an empty queue.
THEOREM RunsEnd == Spec => RunsEndOverNoWork
<1>1. IInv /\ [Next]_vars =>
        [Alive /\ loop'.at = "gone" /\ ~loop'.abandons =>
           \A t \in Busy : stuck[t] # None /\ stuck[t] = RunningOn(t)]_vars
  BY DrainEnds
<1>2. IInv /\ [Next]_vars =>
        [loop.at = "ending" /\ loop'.at = "head" /\ ~stop /\ stop' /\ ~LimitReached =>
           /\ \A task \in Tasks : status[task] # "ready"
           /\ ~due /\ Busy = {}]_vars
  BY BatchEnds
<1>3. Spec => DrainsWaitForHealthyWork
  BY <1>1, Invariant, PTL DEF Spec, DrainsWaitForHealthyWork
<1>4. Spec => BatchesEndEmpty
  BY <1>2, Invariant, PTL DEF Spec, BatchesEndEmpty
<1> QED
  BY <1>3, <1>4 DEF RunsEndOverNoWork
==============================================================================
