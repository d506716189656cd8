-------------------------- MODULE ScheduleDispatch --------------------------
(***************************************************************************)
(* One settings-declared schedule of django_ox and the workers that        *)
(* dispatch it.  Nobody leads: every worker derives the schedule's latest  *)
(* tick from its own clock, and the unique index of the tick log on        *)
(* (schedule_name, scheduled_for) decides which of them enqueues it.  The  *)
(* first worker to see the schedule records an anchor and enqueues         *)
(* nothing; a latch row, never committed, keeps two from both being first. *)
(*                                                                         *)
(* A read sees what is committed when it runs.  An INSERT waits for        *)
(* another transaction's uncommitted row of the same key, until that       *)
(* transaction ends.                                                       *)
(***************************************************************************)
EXTENDS Naturals, Sequences, FiniteSets

CONSTANTS
  Workers,      \* the workers that dispatch the schedule
  Ticks,        \* the instants its trigger produces
  SkipLocked,   \* the database can skip locked rows in a locking read
  Skew,         \* bound: how far two workers' clocks may be apart
  LastClock,    \* bound: the last reading of a clock
  MaxFailures   \* bound: passes that fail part-way

ASSUME DispatchAssumption ==
  /\ Ticks \subseteq Nat
  /\ SkipLocked \in BOOLEAN
  /\ Skew \in Nat \ {0}
  /\ LastClock \in Nat
  /\ MaxFailures \in Nat

VARIABLES
  clock,      \* per worker, what timezone.now() answers
  pass,       \* per worker, its pass over this schedule
  log,        \* the committed ox_schedule_tick rows of the schedule
  fired,      \* the committed tasks each tick has enqueued
  anchored,   \* the anchors ever committed, oldest first (no part of the code)
  failures    \* passes that failed so far (no part of the code)

vars == <<clock, pass, log, fired, anchored, failures>>
-----------------------------------------------------------------------------
\* latch: this pass's transaction has written the latch row, deleted or not.
\* task: it has enqueued the tick's task.
Pass == [at    : {"idle", "planned", "asking", "claiming", "claimed",
                  "latching", "latched", "firing", "settling"},
         now   : Nat,
         tick  : Nat,
         last  : SUBSET Ticks,
         latch : BOOLEAN,
         task  : BOOLEAN]

Idle == [at |-> "idle", now |-> 0, tick |-> 0, last |-> {},
         latch |-> FALSE, task |-> FALSE]

\* The steps of a pass that has its tick row in.
Claimed == {"claimed", "latching", "latched", "firing", "settling"}

TypeOK ==
  /\ clock \in [Workers -> Nat]
  /\ pass \in [Workers -> Pass]
  /\ \A w \in Workers :
       /\ pass[w].at # "idle" => pass[w].tick \in Ticks
       /\ pass[w].latch => pass[w].at \in {"latched", "firing", "settling"}
       /\ pass[w].task => pass[w].at = "settling"
  /\ log \in [Ticks -> {"absent", "anchor", "task"}]
  /\ fired \in [Ticks -> Nat]
  /\ anchored \in Seq(Ticks)
  /\ failures \in Nat
-----------------------------------------------------------------------------
Newest(instants) == {t \in instants : \A u \in instants : u <= t}
Earliest(instants) == {t \in instants : \A u \in instants : t <= u}

\* trigger.previous: the latest tick at or before now, if there is one.
\* Fault: strictly before now.
Due_BeforeNow(now) == Newest({t \in Ticks : t < now})

Due(now) == Newest({t \in Ticks : t <= now})

Recorded == {t \in Ticks : log[t] # "absent"}

\* _latest_ticks, whose bound is the oldest tick any schedule of the pass has.
Latest(since) == Newest({t \in Recorded : since <= t})

Goes(w, next) == pass' = [pass EXCEPT ![w] = next]
At(w, step) == Goes(w, [pass[w] EXCEPT !.at = step])

\* Nothing more of this pass concerns the schedule; a transaction it had open
\* has ended, and its rows and locks with it.
Over(w) == Goes(w, Idle)
-----------------------------------------------------------------------------
(* Locks.                                                                  *)

\* Fault: the repeated read waits for rows other transactions hold.
BlockedBy_Unskipped(w, u) ==
  /\ w # u
  /\ \/ /\ pass[w].at = "claiming"
        /\ pass[u].at \in Claimed
        /\ pass[u].tick = pass[w].tick
     \/ pass[w].at = "latching" /\ pass[u].latch
     \/ pass[w].at = "latched" /\ pass[u].at \in Claimed

\* w's next statement waits for u's transaction to end.
BlockedBy(w, u) ==
  /\ w # u
  /\ \/ /\ pass[w].at = "claiming"
        /\ pass[u].at \in Claimed
        /\ pass[u].tick = pass[w].tick
     \/ pass[w].at = "latching" /\ pass[u].latch
     \/ pass[w].at = "latched" /\ pass[u].at \in Claimed /\ ~SkipLocked

Blocked(w) == \E u \in Workers : BlockedBy(w, u)

\* Every worker of the set waits for another worker of the set.
Deadlocked(ws) == \A w \in ws : \E u \in ws : BlockedBy(w, u)
InDeadlock(w) == \E ws \in SUBSET Workers : w \in ws /\ Deadlocked(ws)
-----------------------------------------------------------------------------
(* A pass.                                                                 *)

\* The clock is read once for the whole pass.
Plan(w) ==
  /\ pass[w].at = "idle"
  /\ \E t \in Due(clock[w]) :
       Goes(w, [Idle EXCEPT !.at = "planned", !.now = clock[w], !.tick = t])
  /\ UNCHANGED <<clock, log, fired, anchored, failures>>

\* The bounded read: a tick at or before the newest is suppressed, unless the
\* newest is from ahead of this worker's clock, when the instant itself is
\* asked about.
ReadLatest(w) ==
  /\ pass[w].at = "planned"
  /\ \E since \in {s \in Ticks : s <= pass[w].tick} :
       LET last == Latest(since)
           covered == \E l \in last : pass[w].tick <= l
           ahead == \E l \in last : pass[w].now < l
       IN  IF covered /\ ~ahead
           THEN Over(w)
           ELSE Goes(w, [pass[w] EXCEPT !.at = IF covered THEN "asking" ELSE "claiming",
                                        !.last = last])
  /\ UNCHANGED <<clock, log, fired, anchored, failures>>

AskInstant(w) ==
  /\ pass[w].at = "asking"
  /\ IF pass[w].tick \in Recorded THEN Over(w) ELSE At(w, "claiming")
  /\ UNCHANGED <<clock, log, fired, anchored, failures>>

\* The INSERT of the tick row.  A committed row of the same instant refuses
\* it; the log is read again only where the bounded read found nothing.
Claim(w) ==
  /\ pass[w].at = "claiming"
  /\ ~Blocked(w)
  /\ IF pass[w].tick \in Recorded THEN Over(w)
     ELSE At(w, IF pass[w].last = {} THEN "claimed" ELSE "firing")
  /\ UNCHANGED <<clock, log, fired, anchored, failures>>

\* Fault: the anchor's boundary is not looked at.
Boundary_Ignored(w, anchor) == At(w, "firing")

\* The schedule has history, which starts at anchor.
Boundary(w, anchor) ==
  IF pass[w].tick < anchor THEN Over(w) ELSE At(w, "firing")

\* Fault: a plain read that finds nothing makes this the first sighting.
AskFirst_PlainRead(w) ==
  /\ pass[w].at = "claimed"
  /\ \/ \E anchor \in Earliest(Recorded) : Boundary(w, anchor)
     \/ Recorded = {} /\ At(w, "settling")
  /\ UNCHANGED <<clock, log, fired, anchored, failures>>

\* The plain read of _anchor_boundary, which leaves out this pass's own row.
AskFirst(w) ==
  /\ pass[w].at = "claimed"
  /\ \/ \E anchor \in Earliest(Recorded) : Boundary(w, anchor)
     \/ Recorded = {} /\ At(w, "latching")
  /\ UNCHANGED <<clock, log, fired, anchored, failures>>

\* The INSERT of the latch row, which waits for another's transaction.
TakeLatch(w) ==
  /\ pass[w].at = "latching"
  /\ ~Blocked(w)
  /\ Goes(w, [pass[w] EXCEPT !.at = "latched", !.latch = TRUE])
  /\ UNCHANGED <<clock, log, fired, anchored, failures>>

\* The read repeated under the latch, and the latch row deleted: still no
\* history makes this the first sighting.
AskAgain(w) ==
  /\ pass[w].at = "latched"
  /\ ~Blocked(w)
  /\ \/ \E anchor \in Earliest(Recorded) : Boundary(w, anchor)
     \/ Recorded = {} /\ At(w, "settling")
  /\ UNCHANGED <<clock, log, fired, anchored, failures>>

Enqueue(w) ==
  /\ pass[w].at = "firing"
  /\ Goes(w, [pass[w] EXCEPT !.at = "settling", !.task = TRUE])
  /\ UNCHANGED <<clock, log, fired, anchored, failures>>

\* The tick row commits with its task, or without one as the anchor.  What
\* the worker is told of it changes nothing here: it tells the connection from
\* the schedule, and goes on or ends its pass.
Commit(w) ==
  /\ pass[w].at = "settling"
  /\ LET t == pass[w].tick IN
       IF pass[w].task
       THEN /\ log' = [log EXCEPT ![t] = "task"]
            /\ fired' = [fired EXCEPT ![t] = @ + 1]
            /\ UNCHANGED anchored
       ELSE /\ log' = [log EXCEPT ![t] = "anchor"]
            /\ anchored' = Append(anchored, t)
            /\ UNCHANGED fired
  /\ Over(w)
  /\ UNCHANGED <<clock, failures>>

\* The pass ends part-way: a statement was refused, a wait timed out, the
\* connection or the process was lost.  The transaction rolls back.  What the
\* database refuses to break a deadlock is bounded by nothing.
Fail(w) ==
  /\ pass[w].at # "idle"
  /\ \/ failures < MaxFailures /\ failures' = failures + 1
     \/ InDeadlock(w) /\ UNCHANGED failures
  /\ Over(w)
  /\ UNCHANGED <<clock, log, fired, anchored>>

ChosenAsVictim(w) == Fail(w) /\ UNCHANGED failures
-----------------------------------------------------------------------------
(* Time, and ox_prune.                                                     *)

Advance(w) ==
  /\ clock[w] < LastClock
  /\ \A u \in Workers : clock[w] + 1 <= clock[u] + Skew
  /\ clock' = [clock EXCEPT ![w] = @ + 1]
  /\ UNCHANGED <<pass, log, fired, anchored, failures>>

\* Bound: the retention outlasts any pass and any difference between clocks,
\* so a tick some worker may still hold as due is not past the cutoff.
PastCutoff(t) ==
  \A w \in Workers :
    /\ \E d \in Due(clock[w]) : t < d
    /\ pass[w].at # "idle" => t < pass[w].tick

\* Fault: the newest tick goes like any other.
Prune_Newest(t) ==
  /\ t \in Recorded
  /\ PastCutoff(t)
  /\ log' = [log EXCEPT ![t] = "absent"]
  /\ UNCHANGED <<clock, pass, fired, anchored, failures>>

\* A tick past the cutoff goes, but for the schedule's newest.
Prune(t) ==
  /\ t \in Recorded \ Newest(Recorded)
  /\ PastCutoff(t)
  /\ log' = [log EXCEPT ![t] = "absent"]
  /\ UNCHANGED <<clock, pass, fired, anchored, failures>>
-----------------------------------------------------------------------------
Init ==
  /\ clock = [w \in Workers |-> 0]
  /\ pass = [w \in Workers |-> Idle]
  /\ log = [t \in Ticks |-> "absent"]
  /\ fired = [t \in Ticks |-> 0]
  /\ anchored = <<>>
  /\ failures = 0

Step(w) ==
  \/ Plan(w)
  \/ ReadLatest(w)
  \/ AskInstant(w)
  \/ Claim(w)
  \/ AskFirst(w)
  \/ TakeLatch(w)
  \/ AskAgain(w)
  \/ Enqueue(w)
  \/ Commit(w)

Next ==
  \/ \E w \in Workers : Step(w) \/ Fail(w) \/ Advance(w)
  \/ \E t \in Ticks : Prune(t)

Spec == Init /\ [][Next]_vars

\* Time passes, and every worker's loop keeps making passes: run() asks for
\* one every dispatch interval, and a statement the database is not making
\* wait is answered.
FairSpec ==
  /\ Spec
  /\ \A w \in Workers : WF_vars(Advance(w)) /\ WF_vars(Step(w) \/ ChosenAsVictim(w))
-----------------------------------------------------------------------------
(* Properties.                                                             *)

Promise == INSTANCE ScheduleTicks

\* However many workers first see the schedule, and whatever ticks they hold,
\* it is anchored once; nothing fires until it has been anchored, no tick
\* fires twice, and the anchor's own tick does not fire.
KeepsItsPromise == Promise!Spec

\* What the comment on the boundary says: the anchor is the boundary, and
\* nothing before it fires.
NothingBeforeTheAnchorFires ==
  \A t \in Ticks : fired[t] > 0 => anchored # <<>> /\ anchored[1] < t

\* As long as that holds, no pass whose bounded read found no history is about
\* to break it, whoever wrote the anchor and whenever the pass read it: only a
\* pass that takes the anchor for a tick ahead of its own clock can.
FirstPassesHeedTheAnchor ==
  NothingBeforeTheAnchorFires =>
    \A w \in Workers :
      (pass[w].at = "firing" \/ pass[w].task) /\ pass[w].last = {} =>
        anchored # <<>> /\ anchored[1] < pass[w].tick

\* Where locked rows are skipped, the tick INSERTs, the latch and the read
\* repeated under it never make workers wait for one another in a circle.
NoDeadlock ==
  SkipLocked => \A ws \in SUBSET Workers : ws # {} => ~Deadlocked(ws)

\* Failed passes and lost races delay a tick but do not lose it: once the
\* clocks have stopped at it, the latest tick is recorded.
LatestTickIsRecorded ==
  \A t \in Ticks :
    (\A u \in Ticks : u <= t) /\ t <= LastClock => <>[](t \in Recorded)
=============================================================================
