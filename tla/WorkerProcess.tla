---------------------------- MODULE WorkerProcess ----------------------------
(***************************************************************************)
(* One worker process: its loop, its pool threads, the watchdog that       *)
(* enforces attempt timeouts, and the drain the process ends with.         *)
(*                                                                         *)
(* The watchdog raises TaskTimeout inside a thread past its deadline: the  *)
(* exception is pending until the thread next runs a bytecode, wherever    *)
(* that is.  A thread that has not stopped a grace later is given up: its  *)
(* attempt is recorded as failed and the worker recycles, which is to      *)
(* drain without waiting for it and exit.                                  *)
(***************************************************************************)
EXTENDS Integers, FiniteSets

CONSTANTS
  Threads,     \* of the pool; there are concurrency of them
  Tasks,
  FollowUp,    \* the task that is enqueued later, if one is
  Modes,       \* the ways to run it that are tried
  None

ASSUME WorkerAssumption ==
  /\ FollowUp \in Tasks /\ None \notin Tasks \cup Threads
  /\ Modes \subseteq [batch : BOOLEAN, limit : Nat, timed : SUBSET Tasks, ready : SUBSET Tasks,
                      later : {"never", "by a task", "by a tick"}, events : Nat]
  /\ \A m \in Modes : m.later # "never" => FollowUp \notin m.ready
  /\ IsFiniteSet(Threads)

VARIABLES
  mode,       \* of this behaviour
  status,     \* per task, its row
  due,        \* a tick is due
  loop,       \* the loop of run()
  stop, recycling,
  thread,     \* per thread, where it is
  pending,    \* the threads inside which TaskTimeout is about to be raised
  watch,      \* per thread, its entry in the watchdog's table
  lock,       \* the thread that holds _watch_lock
  dog,        \* the watchdog, with the attempts it found stuck
  stuck,      \* per thread, the attempt it was given up for
  events

vars == <<mode, status, due, loop, stop, recycling, thread, pending, watch, lock, dog,
          stuck, events>>
-----------------------------------------------------------------------------
Loop == [at : {"head", "claiming", "ending", "draining", "counting", "gone"},
         futures : SUBSET Tasks,    \* in_flight
         idle : BOOLEAN, found : BOOLEAN, claimed : BOOLEAN, owed : BOOLEAN,
         claims : Nat,
         counted : SUBSET Tasks,    \* by the drain
         abandons : BOOLEAN]        \* the drain's budget was over

\* returned: the task's code ended by itself.
Thread == [at : {"free", "starting", "body", "disarm", "locked", "flush", "again",
                 "locked again", "recording", "ended"},
           task : Tasks \cup {None}, returned : BOOLEAN, verdict : {"own", "timeout"}]

Free == [at |-> "free", task |-> None, returned |-> FALSE, verdict |-> "own"]

\* now: the attempt of the batch it is at.
Watchdog == [at : {"watching", "recording", "asking", "recycling"},
             stuck : SUBSET (Threads \X Tasks), now : (Threads \X Tasks) \cup {None}]

Watching == [at |-> "watching", stuck |-> {}, now |-> None]

TypeOK ==
  /\ mode \in Modes
  /\ status \in [Tasks -> {"absent", "ready", "running", "done"}]
  /\ due \in BOOLEAN
  /\ loop \in Loop
  /\ stop \in BOOLEAN /\ recycling \in BOOLEAN
  /\ thread \in [Threads -> Thread]
  /\ pending \subseteq Threads
  /\ watch \in [Threads -> {"none", "armed", "fired"}]
  /\ lock \in Threads \cup {None}
  /\ dog \in Watchdog
  /\ stuck \in [Threads -> Tasks \cup {None}]
  /\ events \in 0 .. mode.events
-----------------------------------------------------------------------------
Alive == loop.at # "gone"
\* What nobody planned: a failed pass, dispatch or record, or a stop signal.
Happens == events < mode.events /\ events' = events + 1

Busy == {t \in Threads : thread[t].at # "free"}

\* The futures that are not done: a future is, once its thread is free.
Undone == {thread[t].task : t \in Busy}

\* _running_on: the attempt a thread is inside.
RunningOn(t) == IF thread[t].at \in {"free", "starting", "ended"} THEN None
                ELSE thread[t].task

LimitReached == loop.claims >= mode.limit
-----------------------------------------------------------------------------
(* The loop of run().                                                      *)

\* request_stop, from a signal or because the supervisor is gone.
RequestStop ==
  /\ Happens
  /\ Alive /\ ~stop
  /\ stop' = TRUE
  /\ UNCHANGED <<mode, status, due, loop, recycling, thread, pending, watch, lock, dog,
                 stuck>>

\* schedule_interval has passed.  A pass is owed from its start until one has
\* gone to its end.
Dispatch ==
  /\ loop.at = "head" /\ ~stop
  /\ \/ /\ due' = FALSE
        /\ status' = IF due THEN [status EXCEPT ![FollowUp] = "ready"] ELSE status
        /\ loop' = [loop EXCEPT !.owed = FALSE]
        /\ UNCHANGED events
     \/ /\ Happens
        /\ loop' = [loop EXCEPT !.owed = TRUE]
        /\ UNCHANGED <<due, status>>
  /\ UNCHANGED <<mode, stop, recycling, thread, pending, watch, lock, dog, stuck>>

\* in_flight loses the futures that are done, and whether it is empty is read
\* before any claim.
BeginClaims ==
  /\ loop.at = "head" /\ ~stop
  /\ loop' = [loop EXCEPT !.at = "claiming", !.futures = @ \cap Undone,
                          !.idle = loop.futures \cap Undone = {}]
  /\ UNCHANGED <<mode, status, due, stop, recycling, thread, pending, watch, lock, dog,
                 stuck, events>>

MayClaim == Cardinality(loop.futures) < Cardinality(Threads) /\ ~stop /\ ~LimitReached

\* An idle thread of the pool takes it; which one makes no difference.
Claim(t, task) ==
  /\ loop.at = "claiming" /\ MayClaim
  /\ Busy # Threads /\ t = CHOOSE u \in Threads \ Busy : TRUE
  /\ status[task] = "ready"
  /\ status' = [status EXCEPT ![task] = "running"]
  /\ thread' = [thread EXCEPT ![t].at = "starting", ![t].task = task]
  /\ loop' = [loop EXCEPT !.futures = @ \cup {task}, !.claims = @ + 1, !.claimed = TRUE]
  /\ UNCHANGED <<mode, due, stop, recycling, pending, watch, lock, dog, stuck, events>>

\* The variables of one pass of the loop.
NewPass(l) == [l EXCEPT !.at = "head", !.idle = FALSE, !.found = FALSE, !.claimed = FALSE]

\* A claim that lost every race found a busy queue rather than an empty one.
EndClaims ==
  /\ loop.at = "claiming"
  /\ \/ ~MayClaim /\ loop' = [loop EXCEPT !.at = "ending"]
     \/ MayClaim /\ (\A task \in Tasks : status[task] # "ready")
        /\ loop' = [loop EXCEPT !.at = "ending", !.found = TRUE]
     \/ MayClaim /\ (\E task \in Tasks : status[task] = "ready")
        /\ loop' = [loop EXCEPT !.at = "ending"]
  /\ UNCHANGED <<mode, status, due, stop, recycling, thread, pending, watch, lock, dog,
                 stuck, events>>

\* The database could not be reached; the next pass retries.
PassFails ==
  /\ loop.at = "claiming"
  /\ Happens
  /\ loop' = NewPass(loop)
  /\ UNCHANGED <<mode, status, due, stop, recycling, thread, pending, watch, lock, dog,
                 stuck>>

\* The worker had nothing running when the pass began.
Idle == loop.idle

BatchEmpty == mode.batch /\ Idle /\ loop.found /\ ~loop.claimed /\ ~loop.owed

\* The task limit, an empty queue under --batch, or a wait and another pass.
EndPass ==
  /\ loop.at = "ending"
  /\ loop' = NewPass(loop)
  /\ stop' = (stop \/ LimitReached \/ BatchEmpty)
  /\ UNCHANGED <<mode, status, due, recycling, thread, pending, watch, lock, dog, stuck,
                 events>>

BeginDrain ==
  /\ loop.at = "head" /\ stop
  /\ loop' = [loop EXCEPT !.at = "draining"]
  /\ UNCHANGED <<mode, status, due, stop, recycling, thread, pending, watch, lock, dog,
                 stuck, events>>
-----------------------------------------------------------------------------
(* _drain.                                                                 *)

Leaves(l) ==
  /\ loop' = [l EXCEPT !.at = "gone"]
  /\ UNCHANGED <<mode, status, due, stop, recycling, thread, pending, watch, lock, dog,
                 stuck, events>>

CountPending ==
  /\ loop.at = "draining"
  /\ LET left == loop.futures \cap Undone IN
       IF left = {} THEN Leaves(loop)
       ELSE /\ loop' = [loop EXCEPT !.at = "counting", !.counted = left]
            /\ UNCHANGED <<mode, status, due, stop, recycling, thread, pending, watch,
                           lock, dog, stuck, events>>

\* Counted by the attempt: the thread of a stuck task may have finished it.
StuckAlive_ByThread == {t \in Threads : stuck[t] # None}
StuckAlive == {t \in Threads : stuck[t] # None /\ RunningOn(t) = stuck[t]}

\* The flag is read on every pass of the drain.
DecideDrain ==
  /\ loop.at = "counting"
  /\ IF recycling /\ Cardinality(loop.counted) <= Cardinality(StuckAlive) THEN Leaves(loop)
     ELSE /\ loop' = [loop EXCEPT !.at = "draining", !.counted = {}]
          /\ UNCHANGED <<mode, status, due, stop, recycling, thread, pending, watch, lock,
                         dog, stuck, events>>

\* recycle_drain_budget is over.
AbandonDrain ==
  /\ loop.at = "counting" /\ recycling
  /\ Leaves([loop EXCEPT !.abandons = TRUE])
-----------------------------------------------------------------------------
(* A pool thread.                                                          *)

Timed(t) == thread[t].task \in mode.timed

\* An attempt under a timeout is put in the watchdog's table.
Start(t) ==
  /\ Alive /\ thread[t].at = "starting"
  /\ Timed(t) => lock = None
  /\ thread' = [thread EXCEPT ![t].at = "body"]
  /\ watch' = [watch EXCEPT ![t] = IF Timed(t) THEN "armed" ELSE "none"]
  /\ UNCHANGED <<mode, status, due, loop, stop, recycling, pending, lock, dog, stuck,
                 events>>

EnqueueFollowUp(t) ==
  /\ Alive /\ thread[t].at = "body" /\ thread[t].task # FollowUp
  /\ mode.later = "by a task" /\ status[FollowUp] = "absent"
  /\ status' = [status EXCEPT ![FollowUp] = "ready"]
  /\ UNCHANGED <<mode, due, loop, stop, recycling, thread, pending, watch, lock, dog,
                 stuck, events>>

\* It may return, or raise, with TaskTimeout still to be delivered.
EndBody(t) ==
  /\ Alive /\ thread[t].at = "body"
  /\ thread' = [thread EXCEPT ![t].at = IF Timed(t) THEN "disarm" ELSE "recording",
                              ![t].returned = TRUE]
  /\ UNCHANGED <<mode, status, due, loop, stop, recycling, pending, watch, lock, dog,
                 stuck, events>>

\* Delivered inside the task, which may catch it and go on.
DeliverInBody(t) ==
  /\ Alive /\ thread[t].at = "body" /\ t \in pending
  /\ pending' = pending \ {t}
  /\ thread' \in {thread, [thread EXCEPT ![t].at = "disarm", ![t].verdict = "timeout"]}
  /\ UNCHANGED <<mode, status, due, loop, stop, recycling, watch, lock, dog, stuck,
                 events>>

\* Delivered inside _disarm: it came after the task had ended.  The lock is
\* released, the deregistration begun again, and the task's outcome stands.
Absorbed(t) ==
  /\ pending' = pending \ {t}
  /\ thread' = [thread EXCEPT ![t].at = "again"]
  /\ lock' = IF lock = t THEN None ELSE lock

DeliverInDisarm(t) ==
  /\ Alive /\ thread[t].at \in {"disarm", "locked"} /\ t \in pending
  /\ Absorbed(t)
  /\ UNCHANGED <<mode, status, due, loop, stop, recycling, watch, dog, stuck, events>>

Begins(t, step) == thread' = [thread EXCEPT ![t].at = step]

\* The lock is taken and that is noted in one instruction.
Acquires_WithStatement(t) ==
  /\ lock' = t
  /\ \/ Begins(t, IF thread[t].at = "disarm" THEN "locked" ELSE "locked again")
        /\ UNCHANGED pending
     \/ t \in pending /\ pending' = pending \ {t} /\ Begins(t, "again")
Acquires(t) ==
  /\ lock' = t
  /\ Begins(t, IF thread[t].at = "disarm" THEN "locked" ELSE "locked again")
  /\ UNCHANGED pending

Acquire(t) ==
  /\ Alive /\ thread[t].at \in {"disarm", "again"} /\ lock = None
  /\ Acquires(t)
  /\ UNCHANGED <<mode, status, due, loop, stop, recycling, watch, dog, stuck, events>>

Deregister(t) ==
  /\ Alive /\ thread[t].at \in {"locked", "locked again"}
  /\ watch' = [watch EXCEPT ![t] = "none"]
  /\ lock' = None
  /\ Begins(t, IF thread[t].at = "locked" THEN "flush" ELSE "recording")
  /\ UNCHANGED <<mode, status, due, loop, stop, recycling, pending, dog, stuck, events>>

\* _flush_pending_async_exc: what is pending lands here.
Flush_Nothing(t) == Begins(t, "recording") /\ UNCHANGED <<pending, lock>>
Flush(t) == IF t \in pending THEN Absorbed(t)
            ELSE Begins(t, "recording") /\ UNCHANGED <<pending, lock>>

FlushPending(t) ==
  /\ Alive /\ thread[t].at = "flush"
  /\ Flush(t)
  /\ UNCHANGED <<mode, status, due, loop, stop, recycling, watch, dog, stuck, events>>

\* The outcome is written, unless the row is another's by then.
RecordOutcome(t) ==
  /\ Alive /\ thread[t].at = "recording"
  /\ status' = [status EXCEPT ![thread[t].task] = "done"]
  /\ Begins(t, "ended")
  /\ UNCHANGED <<mode, due, loop, stop, recycling, pending, watch, lock, dog, stuck,
                 events>>

EndThread(t) ==
  /\ Alive /\ thread[t].at = "ended"
  /\ thread' = [thread EXCEPT ![t] = Free]
  /\ UNCHANGED <<mode, status, due, loop, stop, recycling, pending, watch, lock, dog,
                 stuck, events>>
-----------------------------------------------------------------------------
(* The watchdog.  _fire_due runs under the lock.                           *)

Watches(t, state) == Alive /\ dog.at = "watching" /\ lock = None /\ watch[t] = state

\* The deadline has passed.  Nothing is raised inside a thread that is traced.
FireDeadline(t) ==
  /\ Watches(t, "armed")
  /\ watch' = [watch EXCEPT ![t] = "fired"]
  /\ pending' \in {pending, pending \cup {t}}
  /\ UNCHANGED <<mode, status, due, loop, stop, recycling, thread, lock, dog, stuck,
                 events>>

\* The grace of these has passed.
FindStuck(found) ==
  /\ found # {} /\ \A t \in found : Watches(t, "fired")
  /\ watch' = [t \in Threads |-> IF t \in found THEN "none" ELSE watch[t]]
  /\ dog' = [Watching EXCEPT !.at = "recording",
                              !.stuck = {<<t, thread[t].task>> : t \in found}]
  /\ UNCHANGED <<mode, status, due, loop, stop, recycling, thread, pending, lock, stuck,
                 events>>

\* _handle_stuck: the attempt is recorded as failed, if the database lets it.
RecordStuck ==
  /\ Alive /\ dog.at = "recording"
  /\ \E s \in dog.stuck :
       /\ dog' = [at |-> "asking", stuck |-> dog.stuck \ {s}, now |-> s]
       /\ \/ status' = [status EXCEPT ![s[2]] = "done"] /\ UNCHANGED events
          \/ Happens /\ UNCHANGED status
  /\ UNCHANGED <<mode, due, loop, stop, recycling, thread, pending, watch, lock, stuck>>

\* The next of the batch, or none.
NextStuck == IF dog.stuck = {} THEN Watching ELSE [dog EXCEPT !.at = "recording", !.now = None]

\* Whether the thread is still inside the attempt does not depend on the write.
AskThread ==
  /\ Alive /\ dog.at = "asking"
  /\ LET t == dog.now[1] IN
       IF RunningOn(t) = dog.now[2]
         THEN /\ stuck' = [stuck EXCEPT ![t] = dog.now[2]]
              /\ dog' = [dog EXCEPT !.at = "recycling"]
         ELSE dog' = NextStuck /\ UNCHANGED stuck
  /\ UNCHANGED <<mode, status, due, loop, stop, recycling, thread, pending, watch, lock,
                 events>>

\* No new claims; the process exits after the drain.
Recycle ==
  /\ Alive /\ dog.at = "recycling"
  /\ recycling' = TRUE /\ stop' = TRUE
  /\ dog' = NextStuck
  /\ UNCHANGED <<mode, status, due, loop, thread, pending, watch, lock, stuck, events>>
-----------------------------------------------------------------------------
\* The first pass of the loop dispatches.
Init ==
  /\ mode \in Modes
  /\ status = [task \in Tasks |-> IF task \in mode.ready THEN "ready" ELSE "absent"]
  /\ due = (mode.later = "by a tick")
  /\ loop = [at |-> "head", futures |-> {}, idle |-> FALSE, found |-> FALSE,
             claimed |-> FALSE, owed |-> TRUE, claims |-> 0, counted |-> {},
             abandons |-> FALSE]
  /\ stop = FALSE /\ recycling = FALSE
  /\ thread = [t \in Threads |-> Free]
  /\ pending = {} /\ watch = [t \in Threads |-> "none"] /\ lock = None
  /\ dog = Watching
  /\ stuck = [t \in Threads |-> None]
  /\ events = 0

LoopStep ==
  \/ Dispatch \/ BeginClaims \/ (\E t \in Threads, task \in Tasks : Claim(t, task))
  \/ EndClaims \/ PassFails \/ EndPass \/ BeginDrain \/ CountPending \/ DecideDrain

\* What a thread does but for the task's own code.
ThreadStep(t) ==
  \/ Start(t) \/ DeliverInDisarm(t) \/ Acquire(t) \/ Deregister(t) \/ FlushPending(t)
  \/ RecordOutcome(t) \/ EndThread(t)

WatchdogStep ==
  \/ \E t \in Threads : FireDeadline(t)
  \/ \E found \in SUBSET Threads : FindStuck(found)
  \/ RecordStuck \/ AskThread \/ Recycle

Next ==
  \/ RequestStop \/ LoopStep \/ AbandonDrain \/ WatchdogStep
  \/ \E t \in Threads :
       ThreadStep(t) \/ EnqueueFollowUp(t) \/ EndBody(t) \/ DeliverInBody(t)

\* Time passes, so deadlines, graces and the drain's budget do.  Nothing is
\* assumed of a task's code: it may never end, nor let an exception in.
Spec ==
  /\ Init /\ [][Next]_vars
  /\ WF_vars(LoopStep) /\ WF_vars(WatchdogStep) /\ SF_vars(AbandonDrain)
  /\ \A t \in Threads : WF_vars(ThreadStep(t))
-----------------------------------------------------------------------------
(* Properties.                                                             *)

\* TaskTimeout is raised inside the attempt it is for, and no later than its
\* deregistration: never in the outcome's write, nor in the thread's next
\* attempt.  An attempt that had ended by itself keeps its own outcome.
TimeoutsStayInTheirAttempt ==
  /\ \A t \in pending : thread[t].at \in {"body", "disarm", "locked", "flush"}
  /\ \A t \in Threads : thread[t].verdict = "timeout" => ~thread[t].returned

\* The drain leaves behind only attempts the watchdog gave up, unless its budget
\* is over: not the work a thread took up after its stuck attempt ended.
DrainsWaitForHealthyWork ==
  [][Alive /\ loop'.at = "gone" /\ ~loop'.abandons =>
       \A t \in Busy : stuck[t] # None /\ stuck[t] = RunningOn(t)]_vars

\* --batch ends over an empty queue: not over a task that one of its own tasks
\* enqueued, nor over a tick that no pass has looked at.
BatchesEndEmpty ==
  [][loop.at = "ending" /\ loop'.at = "head" /\ ~stop /\ stop' /\ ~LimitReached =>
       /\ \A task \in Tasks : status[task] # "ready"
       /\ ~due /\ Busy = {}]_vars

\* Both: a run that ends by itself leaves no work it could have done.
RunsEndOverNoWork == DrainsWaitForHealthyWork /\ BatchesEndEmpty

\* A task without a timeout is all that may keep a stopped worker, and nothing
\* keeps one that recycles.  An attempt under a timeout that never ends makes it
\* recycle.
StuckThreadsCannotHoldTheProcess ==
  []<>(Alive => /\ ~recycling
                /\ \A t \in Threads : thread[t].at = "body" => ~Timed(t)
                /\ stop => \E t \in Threads : thread[t].at = "body")
=============================================================================
