--------------------------- MODULE StoredSchedule ---------------------------
(***************************************************************************)
(* One stored schedule: its row, the functions and the raw statements that *)
(* write it, the change marker, and the workers that hold a copy of it and *)
(* dispatch its ticks.                                                     *)
(*                                                                         *)
(* The row's start is its boundary: no earlier tick fires.  Whoever retimes*)
(* or resumes the schedule moves the boundary to that moment.  A raw       *)
(* UPDATE does not; the digest beside the boundary tells a worker so, and  *)
(* the worker then moves it, which is a heal.                              *)
(***************************************************************************)
EXTENDS Integers, FiniteSets

CONSTANTS
  Workers,
  Timings,       \* what the timing columns may hold
  TicksOf(_),    \* the instants of a timing
  Deadlines,     \* starting deadlines tried; None is no deadline
  LastClock,     \* bound on the clock
  Crews,         \* the sets of workers tried
  MaxEvents(_),  \* bound, for a crew, on writes, crashes, refused heals
                 \* and failed dispatches
  None

Instants == 0 .. LastClock

ASSUME StoredAssumption ==
  /\ LastClock \in Nat
  /\ Crews \subseteq SUBSET Workers /\ \A c \in Crews : MaxEvents(c) \in Nat
  /\ \A timing \in Timings : TicksOf(timing) \subseteq Instants
  /\ Deadlines \subseteq Nat \cup {None}

VARIABLES
  deadline,  \* of this behaviour
  crew,      \* of this behaviour
  now,
  row,       \* the row
  marker,    \* the instant in the change row
  pass,      \* per worker, its dispatch pass
  cache,     \* per worker, the schedule as it was last read, or None
  seen,      \* per worker, the marker of that read
  sighting,  \* per worker, the stale boundary to heal, or None
  log,       \* the ticks recorded
  events,
  \* No part of the code, and read by no action:
  closed,    \* ticks that must not fire any more
  untold,    \* workers that nothing told of a change
  disturbed  \* a raw write came since the boundary was set

ghosts == <<closed, untold, disturbed>>
vars == <<deadline, crew, now, row, marker, pass, cache, seen, sighting, log,
          events, closed, untold, disturbed>>
-----------------------------------------------------------------------------
Unread == -1    \* no marker was read yet

\* boundary_digest is taken over the timing columns and enabled.
Digests == Timings \X BOOLEAN

\* reads: the timing columns hold values that can be read.
Row == [is : {"absent", "stored", "gone"}, timing : Timings, enabled : BOOLEAN,
        reads : BOOLEAN, start : Instants, digest : Digests \cup {None},
        generation : Nat]

Boundary == [digest : Digests \cup {None}, start : Instants, generation : Nat]

Schedule == [timing : Timings, start : Instants]

Pass == [at : {"idle", "reading", "building", "healing", "rebuilding", "planning",
               "locking", "firing"},
         marker : Instants \cup {Unread}, plannedAt : Instants, tick : Instants \cup {None}]

Idle == [at |-> "idle", marker |-> Unread, plannedAt |-> 0, tick |-> None]

TypeOK ==
  /\ deadline \in Deadlines /\ crew \in Crews
  /\ now \in Instants
  /\ row \in Row
  /\ marker \in Instants
  /\ pass \in [Workers -> Pass]
  /\ cache \in [Workers -> Schedule \cup {None}]
  /\ seen \in [Workers -> Instants \cup {Unread}]
  /\ sighting \in [Workers -> Boundary \cup {None}]
  /\ log \in SUBSET Instants
  /\ events \in 0 .. MaxEvents(crew)
  /\ closed \in SUBSET Instants /\ untold \in SUBSET Workers /\ disturbed \in BOOLEAN
-----------------------------------------------------------------------------
Stored == row.is = "stored"
Readable(r) == r.is = "stored" /\ r.reads
Live(r) == Readable(r) /\ r.enabled

Digest(r) == <<r.timing, r.enabled>>
Stale(r) == r.digest # Digest(r)
BoundaryOf(r) == [digest |-> r.digest, start |-> r.start, generation |-> r.generation]

\* A dispatch keeps the row locked from its read to its commit; every other
\* statement on the row is one step.
Unlocked == \A w \in Workers : pass[w].at # "firing"

\* A write function locks the row by its key, and there is one.
Lockable == Stored /\ Unlocked

\* What came due before this moment.
Past == {t \in Instants : t < now}

\* _touch_change_row.  Two writes in one instant leave one marker.
Touch ==
  /\ marker' = now
  /\ untold' = IF marker = now THEN Workers ELSE untold
-----------------------------------------------------------------------------
(* The write functions, called at some instant and carried out under the   *)
(* row's lock.                                                             *)

Happens == events < MaxEvents(crew) /\ events' = events + 1

\* The clock is read once the lock is held.
BoundaryClock_WhenCalled(called) == called
BoundaryClock(called) == now

\* A boundary written now.
Moved(r, called) == [r EXCEPT !.start = BoundaryClock(called), !.generation = @ + 1]

Closes == closed' = closed \cup Past /\ disturbed' = FALSE
Leaves == UNCHANGED <<closed, disturbed>>

\* create_schedule, and create_schedules: the clock is read before the
\* transaction.
CreateSchedule(called) ==
  /\ Happens
  /\ row.is = "absent"
  /\ \E timing \in Timings :
       row' = [is |-> "stored", timing |-> timing, enabled |-> TRUE, reads |-> TRUE,
               start |-> called, digest |-> <<timing, TRUE>>, generation |-> 0]
  /\ Touch
  /\ UNCHANGED <<deadline, crew, now, pass, cache, seen, sighting, log, closed,
                 disturbed>>

\* What update_schedule may be given.  A timing that does not read is replaced
\* by the call, or the call is refused.
Changed == {[row EXCEPT !.timing = timing, !.reads = TRUE] : timing \in Timings}
           \cup (IF row.reads THEN {[row EXCEPT !.enabled = TRUE]} ELSE {})

\* fresh: it did not read, is retimed, is resumed, or was stale already.
Fresh(new) ==
  \/ ~row.reads
  \/ new.timing # row.timing
  \/ new.enabled /\ ~row.enabled
  \/ Stale(row)

UpdateSchedule(called) ==
  /\ Happens
  /\ Lockable
  /\ \E new \in Changed :
       LET to == IF Fresh(new) THEN Moved(new, called) ELSE new IN
         /\ row' = [to EXCEPT !.digest = Digest(to)]
         /\ IF Fresh(new) THEN Closes ELSE Leaves
  /\ Touch
  /\ UNCHANGED <<deadline, crew, now, pass, cache, seen, sighting, log>>

\* _disable: a stale boundary is moved; one over a timing that does not read
\* is only counted, and its digest stays.
Disable(called) ==
  /\ Happens
  /\ Lockable
  /\ LET to == IF ~row.reads THEN [row EXCEPT !.generation = @ + 1]
               ELSE IF Stale(row) THEN Moved(row, called) ELSE row
         off == [to EXCEPT !.enabled = FALSE]
     IN  row' = IF row.reads THEN [off EXCEPT !.digest = Digest(off)] ELSE off
  /\ IF row.reads /\ Stale(row) THEN Closes ELSE Leaves
  /\ Touch
  /\ UNCHANGED <<deadline, crew, now, pass, cache, seen, sighting, log>>

DeleteSchedule ==
  /\ Happens
  /\ Lockable
  /\ row' = [row EXCEPT !.is = "gone"]
  /\ closed' = Instants
  /\ Touch
  /\ UNCHANGED <<deadline, crew, now, pass, cache, seen, sighting, log,
                 disturbed>>

\* queryset.update(), a data migration, a fixture, SQL: neither the boundary
\* nor the marker moves.
RawWrite ==
  /\ Happens
  /\ Unlocked
  /\ \/ row.is = "absent" /\ \E timing \in Timings :
          row' = [is |-> "stored", timing |-> timing, enabled |-> TRUE, reads |-> TRUE,
                  start |-> now, digest |-> None, generation |-> 0]
     \/ Stored /\ \E timing \in Timings \ {row.timing} : row' = [row EXCEPT !.timing = timing]
     \/ Stored /\ row' = [row EXCEPT !.enabled = ~@]
     \/ Stored /\ row' = [row EXCEPT !.reads = ~@]
     \/ Stored /\ row' = [row EXCEPT !.is = "gone"]
  /\ untold' = Workers /\ disturbed' = TRUE
  /\ UNCHANGED <<deadline, crew, now, marker, pass, cache, seen, sighting, log,
                 closed>>
-----------------------------------------------------------------------------
(* A pass: the source's reads.                                             *)

At(w, step) == pass' = [pass EXCEPT ![w].at = step]

\* The heal found the boundary as it was when it was seen, count and all.
AsSighted_ColumnsOnly(w) ==
  LET b == sighting[w] IN row.digest = b.digest /\ row.start = b.start
AsSighted(w) == BoundaryOf(row) = sighting[w]

\* _settled.  Its transaction is the pass's own, so the sighting goes as it commits.
Forgets(w) == sighting' = [sighting EXCEPT ![w] = None]

\* _heal, at the start of a pass and after a build that saw a stale boundary.
Heal(w, called) ==
  /\ sighting[w] # None
  /\ Unlocked
  /\ \/ pass[w].at = "idle" /\ At(w, "reading")
     \/ pass[w].at = "healing" /\ At(w, "rebuilding")
  /\ IF ~Stored \/ (row.reads /\ ~AsSighted(w)) THEN     \* settled
          UNCHANGED <<row, marker, untold, closed, disturbed>>
     ELSE IF ~row.reads THEN UNCHANGED <<row, marker, untold>> /\ Leaves
     ELSE /\ row' = [Moved(row, called) EXCEPT !.digest = Digest(row)]
          /\ Closes
          /\ Touch
  /\ Forgets(w)
  /\ UNCHANGED <<deadline, crew, now, cache, seen, log, events>>

\* The database does not let it, and the sighting stays.
HealFails(w) ==
  /\ Happens
  /\ sighting[w] # None
  /\ \/ pass[w].at = "idle" /\ At(w, "reading")
     \/ pass[w].at = "healing" /\ At(w, "rebuilding")
  /\ UNCHANGED <<deadline, crew, now, row, marker, cache, seen, sighting, log,
                 ghosts>>

Sight(w) ==
  sighting' = [sighting EXCEPT ![w] = BoundaryOf(row)]

Built == IF Live(row) THEN [timing |-> row.timing, start |-> row.start] ELSE None

\* Every row is read, disabled ones too, and a stale boundary is noted.
FoundStale_EnabledOnly == Live(row) /\ Stale(row)
FoundStale == Readable(row) /\ Stale(row)

BeginsReading(w) == pass[w].at = "reading" \/ (pass[w].at = "idle" /\ sighting[w] = None)

\* The marker is read; it has not moved, and a full read is not due.
ReadMarkerOnly(w) ==
  /\ BeginsReading(w)
  /\ marker = seen[w]
  /\ pass' = [pass EXCEPT ![w].at = "planning", ![w].marker = marker]
  /\ UNCHANGED <<deadline, crew, now, row, marker, cache, seen, sighting, log,
                 events, ghosts>>

\* It has moved, or a full read is due, as it may be at any time.
ReadMarker(w) ==
  /\ BeginsReading(w)
  /\ pass' = [pass EXCEPT ![w].at = "building", ![w].marker = marker]
  /\ untold' = untold \ {w}
  /\ UNCHANGED <<deadline, crew, now, row, marker, cache, seen, sighting, log,
                 events, closed, disturbed>>

\* _build.  What it finds stale is healed before the pass goes on, once.
Build(w) ==
  /\ pass[w].at \in {"building", "rebuilding"}
  /\ cache' = [cache EXCEPT ![w] = Built]
  /\ IF FoundStale THEN Sight(w) ELSE UNCHANGED sighting
  /\ At(w, IF pass[w].at = "building" /\ sighting'[w] # None THEN "healing" ELSE "planning")
  /\ UNCHANGED <<deadline, crew, now, row, marker, seen, log, events, ghosts>>
-----------------------------------------------------------------------------
(* dispatch_schedules: the tick, the row under its lock, the commit.       *)

\* Trigger.previous.
Latest(timing, at) ==
  LET passed == {t \in TicksOf(timing) : t <= at}
  IN  {t \in passed : \A u \in passed : u <= t}

InTime(t, at) == deadline = None \/ at - t <= deadline

\* The marker that goes with what was built is the one read before the rows.
SeenMarker_AfterTheRows(w) == marker
SeenMarker(w) == pass[w].marker

\* The snapshot, the tick log and the deadline are filters.
Plan(w) ==
  /\ pass[w].at = "planning"
  /\ seen' = [seen EXCEPT ![w] = SeenMarker(w)]
  /\ LET due == IF cache[w] = None THEN {}
                ELSE {t \in Latest(cache[w].timing, now) :
                        t >= cache[w].start /\ t \notin log /\ InTime(t, now)}
     IN  pass' = [pass EXCEPT ![w] =
           IF due = {} THEN Idle
           ELSE [Idle EXCEPT !.at = "locking", !.plannedAt = now, !.tick = CHOOSE t \in due : TRUE]]
  /\ UNCHANGED <<deadline, crew, now, row, marker, cache, sighting, log, events,
                 ghosts>>

\* _still_due: the tick is recomputed for the instant it was planned at, and
\* the deadline judged by the clock under the lock.
StillDue(w) ==
  /\ pass[w].tick \in Latest(row.timing, pass[w].plannedAt)
  /\ pass[w].tick >= row.start
  /\ InTime(pass[w].tick, now)

\* _current, under the row's lock: a row that is stale is sighted and refused,
\* and one that is not live is left out of the snapshot.
LockRow(w) ==
  /\ pass[w].at = "locking"
  /\ Unlocked
  /\ pass' = [pass EXCEPT ![w] = IF Live(row) /\ ~Stale(row) /\ StillDue(w)
                                 THEN [@ EXCEPT !.at = "firing"] ELSE Idle]
  /\ IF Readable(row) /\ Stale(row) THEN Sight(w) ELSE UNCHANGED sighting
  /\ cache' = IF Live(row) THEN cache ELSE [cache EXCEPT ![w] = None]
  /\ UNCHANGED <<deadline, crew, now, row, marker, seen, log, events, ghosts>>

\* The tick and its task are committed, unless the tick is recorded already.
Fire(w) ==
  /\ pass[w].at = "firing"
  /\ log' = log \cup {pass[w].tick}
  /\ pass' = [pass EXCEPT ![w] = Idle]
  /\ UNCHANGED <<deadline, crew, now, row, marker, cache, seen, sighting,
                 events, ghosts>>

\* The wait for the row's lock times out, or the dispatch fails and rolls back.
GivesUp(w) ==
  /\ Happens
  /\ pass[w].at \in {"locking", "firing"}
  /\ pass' = [pass EXCEPT ![w] = Idle]
  /\ UNCHANGED <<deadline, crew, now, row, marker, cache, seen, sighting, log,
                 ghosts>>

\* The process ends, and with it what it knew; another takes its place.
Crash(w) ==
  /\ Happens
  /\ pass' = [pass EXCEPT ![w] = Idle]
  /\ cache' = [cache EXCEPT ![w] = None]
  /\ seen' = [seen EXCEPT ![w] = Unread]
  /\ sighting' = [sighting EXCEPT ![w] = None]
  /\ UNCHANGED <<deadline, crew, now, row, marker, log, ghosts>>

Advance ==
  /\ now < LastClock /\ now' = now + 1
  /\ UNCHANGED <<deadline, crew, row, marker, pass, cache, seen, sighting, log,
                 events, closed, untold, disturbed>>
-----------------------------------------------------------------------------
\* The row is there from the start, or is yet to be made.
Init ==
  /\ deadline \in Deadlines /\ crew \in Crews
  /\ now = 0 /\ marker = 0
  /\ \E timing \in Timings, is \in {"absent", "stored"} :
       row = [is |-> is, timing |-> timing, enabled |-> TRUE, reads |-> TRUE,
              start |-> 0, digest |-> <<timing, TRUE>>, generation |-> 0]
  /\ pass = [w \in Workers |-> Idle]
  /\ cache = [w \in Workers |-> None]
  /\ seen = [w \in Workers |-> Unread]
  /\ sighting = [w \in Workers |-> None]
  /\ log = {} /\ events = 0
  /\ closed = {} /\ untold = {} /\ disturbed = FALSE

Step(w) ==
  \/ \E called \in 0 .. now : Heal(w, called)
  \/ ReadMarkerOnly(w) \/ Build(w) \/ Plan(w) \/ LockRow(w) \/ Fire(w)

Next ==
  \/ \E called \in 0 .. now :
       CreateSchedule(called) \/ UpdateSchedule(called) \/ Disable(called)
  \/ DeleteSchedule \/ RawWrite
  \/ \E w \in crew : Step(w) \/ ReadMarker(w) \/ HealFails(w) \/ GivesUp(w) \/ Crash(w)
  \/ Advance

\* A worker's loop makes passes and reads every row at an interval.  Nobody
\* need write anything.
Spec == Init /\ [][Next]_vars

FairSpec ==
  /\ Spec
  /\ WF_vars(Advance)
  /\ \A w \in Workers : /\ WF_vars(w \in crew /\ Step(w))
                        /\ SF_vars(w \in crew /\ ReadMarker(w))
-----------------------------------------------------------------------------
(* Properties.                                                             *)

\* A tick fires as the row stands at the commit, not as it stood when it was
\* planned or when it was locked; and nothing that came due before a write function
\* or a heal moved the boundary, or before a deletion, fires afterwards.
TicksFireAsTheRowAsks ==
  [][\A t \in log' \ log :
       /\ Live(row) /\ t \in TicksOf(row.timing) /\ t >= row.start
       /\ t \notin closed]_vars

\* A heal moves a boundary only if a raw write came since it was set: two
\* workers that saw one raw write do not move it twice, which would throw away
\* the ticks between.
HealsAnswerRawWrites ==
  [][\A w \in Workers :
       sighting[w] # None /\ sighting'[w] = None /\ row'.generation # row.generation
         => disturbed]_vars

\* A worker whose marker is the one in the table has the schedule of the row,
\* unless a raw write, or a second write in one instant, gave it no sign.
CacheFollowsTheMarker ==
  \A w \in Workers :
    pass[w].at = "idle" /\ seen[w] = marker /\ w \notin untold => cache[w] = Built

\* Whatever was written, missed or failed, in the end the boundary is set for
\* the row, and its latest tick is recorded.
StoredTicksAreRecorded ==
  <>[](Readable(row) =>
         /\ ~Stale(row)
         /\ row.enabled => \A t \in Latest(row.timing, now) :
                             t < row.start \/ ~InTime(t, now) \/ t \in log)
=============================================================================
