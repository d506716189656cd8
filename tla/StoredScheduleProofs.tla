------------------------ MODULE StoredScheduleProofs ------------------------
(***************************************************************************)
(* What a stored schedule promises, proved for any workers, timings and    *)
(* clock, and any number of writes, raw writes, crashes and refused heals. *)
(* The boundary carries the ticks: what must not fire any more lies before *)
(* it, and while a dispatch has the row locked nothing moves it.  The      *)
(* generation carries the heals: it grows whenever the boundary moves, so  *)
(* a sighting of this generation is of a raw write that nothing answered   *)
(* yet.  The marker carries the copies: it never falls, and a write leaves *)
(* it above every marker read before, or leaves nobody told.               *)
(***************************************************************************)
EXTENDS StoredSchedule, TLAPS

\* Instants are read off one clock.
InOrder ==
  /\ row.start <= now /\ marker <= now
  /\ \A w \in Workers : seen[w] <= marker /\ pass[w].marker <= marker

\* Before it is made, nothing knows of the schedule; while it is there, what is
\* closed lies before its boundary.
BoundaryOK ==
  /\ row.is = "absent" => closed = {} /\ \A w \in Workers : sighting[w] = None
  /\ row.is = "stored" => \A t \in closed : t < row.start

\* Only a raw write leaves a boundary stale or a timing that does not read.
DigestOK == Stored /\ (Stale(row) \/ ~row.reads) => disturbed

\* A sighting is of this boundary's generation or of an earlier one.
SightingOK ==
  \A w \in Workers :
    sighting[w] # None =>
      /\ sighting[w].generation <= row.generation
      /\ sighting[w].generation = row.generation => disturbed

\* A planned tick is an instant, and of a locked row it may fire.
PassOK ==
  \A w \in Workers :
    /\ pass[w].at \in {"locking", "firing"} => pass[w].tick \in Instants
    /\ pass[w].at = "firing" =>
         /\ Live(row)
         /\ pass[w].tick \in TicksOf(row.timing)
         /\ pass[w].tick >= row.start

\* The marker that a worker's copy goes with: that of its last read, or that of the
\* pass, once it has built.
Follows(w) ==
  \/ pass[w].at \in {"idle", "reading", "locking", "firing"} /\ seen[w] = marker
  \/ pass[w].at \in {"healing", "rebuilding", "planning"} /\ pass[w].marker = marker

CacheOK == \A w \in Workers : Follows(w) /\ w \notin untold => cache[w] = Built

IInv ==
  /\ TypeOK /\ InOrder /\ BoundaryOK /\ DigestOK /\ SightingOK /\ PassOK /\ CacheOK
-----------------------------------------------------------------------------
(* Types.                                                                  *)

LEMMA Types ==
  ASSUME TypeOK
  PROVE  /\ LastClock \in Nat /\ now \in Instants /\ marker \in Instants
         /\ crew \subseteq Workers /\ MaxEvents(crew) \in Nat
         /\ \A i \in Instants : i \in Int /\ i >= 0 /\ i # Unread
         /\ \A timing \in Timings : TicksOf(timing) \subseteq Instants
         /\ row \in Row /\ row.generation \in Nat /\ row.start \in Instants
         /\ row.timing \in Timings
         /\ pass \in [Workers -> Pass] /\ cache \in [Workers -> Schedule \cup {None}]
         /\ seen \in [Workers -> Instants \cup {Unread}]
         /\ sighting \in [Workers -> Boundary \cup {None}]
         /\ closed \subseteq Instants /\ untold \subseteq Workers
BY StoredAssumption DEF TypeOK, Instants, Row, Unread

LEMMA DigestsAre ==
  ASSUME NEW r \in Row
  PROVE  Digest(r) \in Digests
BY DEF Digest, Digests, Row

\* A boundary moved to this moment, for the columns as they are.
Shifted(r) == [r EXCEPT !.start = now, !.generation = r.generation + 1, !.digest = Digest(r)]

LEMMA ShiftedIs ==
  ASSUME NEW r \in Row, now \in Instants
  PROVE  /\ Shifted(r) \in Row
         /\ Shifted(r).start = now /\ Shifted(r).generation = r.generation + 1
         /\ Shifted(r).is = r.is /\ Shifted(r).reads = r.reads
         /\ Shifted(r).digest = Digest(Shifted(r))
<1>1. r.generation + 1 \in Nat /\ Digest(r) \in Digests
  BY DigestsAre DEF Row
<1>2. Shifted(r) \in Row
  BY <1>1 DEF Row, Shifted
<1> QED
  BY <1>2 DEF Shifted, Digest, Row

LEMMA MovedIs ==
  ASSUME NEW r \in Row, NEW called
  PROVE  /\ Digest(Moved(r, called)) = Digest(r)
         /\ [Moved(r, called) EXCEPT !.digest = Digest(r)] = Shifted(r)
<1>1. Moved(r, called) = [r EXCEPT !.start = now, !.generation = r.generation + 1]
  BY DEF Moved, BoundaryClock, Row
<1>2. Digest(Moved(r, called)) = Digest(r)
  BY <1>1 DEF Digest, Row
<1> QED
  BY <1>1, <1>2 DEF Shifted, Row
-----------------------------------------------------------------------------
(* The row.                                                                *)

\* What a step makes of the row, of what is closed and of what was disturbed.
Kept == UNCHANGED <<row, closed, disturbed>>

Made ==
  /\ row.is = "absent" /\ row'.is = "stored"
  /\ row'.start <= now /\ row'.generation = 0
  /\ closed' = closed
  /\ disturbed' \/ (~Stale(row)' /\ row'.reads)

MovedOn ==
  /\ row.is = "stored" /\ row'.is = "stored"
  /\ row'.start = now /\ row'.generation = row.generation + 1
  /\ ~Stale(row)' /\ row'.reads
  /\ Closes

Adjusted ==
  /\ row.is = "stored" /\ row'.is = "stored" /\ row'.start = row.start
  /\ row'.generation \in {row.generation, row.generation + 1}
  /\ Leaves
  /\ ~row.reads \/ (~Stale(row) /\ ~Stale(row)' /\ row'.reads)

Disturbs ==
  /\ row.is = "stored" /\ row'.is \in {"stored", "gone"} /\ row'.start = row.start
  /\ row'.generation = row.generation
  /\ closed' = closed /\ disturbed' = TRUE

Deleted ==
  /\ row.is = "stored" /\ row' = [row EXCEPT !.is = "gone"] /\ disturbed' = disturbed

\* Whoever changes it found it unlocked, and moves the marker or tells nobody.
RowStep ==
  /\ row' \in Row /\ closed' \subseteq Instants
  /\ Kept \/ Made \/ MovedOn \/ Adjusted \/ Disturbs \/ Deleted
  /\ row' # row => row.is = "absent" \/ Unlocked
  /\ \/ row' = row /\ marker' = marker
     \/ Touch
     \/ marker' = marker /\ untold' = Workers

LEMMA ChangedIs ==
  ASSUME TypeOK, NEW new \in Changed
  PROVE  /\ new \in Row /\ new.is = row.is /\ new.reads /\ new.start = row.start
         /\ new.generation = row.generation /\ new.digest = row.digest
<1>1. CASE \E timing \in Timings : new = [row EXCEPT !.timing = timing, !.reads = TRUE]
  BY <1>1, Types DEF Row
<1>2. CASE row.reads /\ new = [row EXCEPT !.enabled = TRUE]
  BY <1>2, Types DEF Row
<1> QED
  BY <1>1, <1>2 DEF Changed

LEMMA PastIs ==
  Past \subseteq Instants
BY DEF Past

LEMMA CreateRow ==
  ASSUME TypeOK, NEW called \in 0 .. now, CreateSchedule(called)
  PROVE  RowStep
<1>1. PICK timing \in Timings :
        row' = [is |-> "stored", timing |-> timing, enabled |-> TRUE, reads |-> TRUE,
                start |-> called, digest |-> <<timing, TRUE>>, generation |-> 0]
  BY DEF CreateSchedule
<1>2. called \in Instants /\ called <= now /\ closed \subseteq Instants
  BY Types DEF Instants
<1>4. <<timing, TRUE>> \in Digests
  BY DEF Digests
<1>3. row.is = "absent" /\ closed' = closed /\ disturbed' = disturbed /\ Touch
  BY DEF CreateSchedule
<1>5. row' \in Row /\ Made
  BY <1>1, <1>2, <1>3, <1>4 DEF Row, Made, Stale, Digest
<1> QED
  BY <1>2, <1>3, <1>5 DEF RowStep

LEMMA UpdateRow ==
  ASSUME TypeOK, NEW called \in 0 .. now, UpdateSchedule(called)
  PROVE  RowStep
<1>1. /\ row.is = "stored" /\ Unlocked /\ Touch
      /\ row \in Row /\ now \in Instants /\ closed \subseteq Instants
  BY Types DEF UpdateSchedule, Lockable, Stored
<1>2. PICK new \in Changed :
        LET to == IF Fresh(new) THEN Moved(new, called) ELSE new IN
          /\ row' = [to EXCEPT !.digest = Digest(to)]
          /\ IF Fresh(new) THEN Closes ELSE Leaves
  BY DEF UpdateSchedule
<1>3. /\ new \in Row /\ new.is = row.is /\ new.reads /\ new.start = row.start
      /\ new.generation = row.generation /\ new.digest = row.digest
  BY ChangedIs
<1>4. CASE Fresh(new)
  <2>1. row' = [Moved(new, called) EXCEPT !.digest = Digest(Moved(new, called))] /\ Closes
    BY <1>2, <1>4
  <2>2. row' = Shifted(new)
    BY <1>3, <2>1, MovedIs
  <2>3. /\ row' \in Row /\ row'.start = now /\ row'.generation = new.generation + 1
        /\ row'.is = new.is /\ row'.reads = new.reads /\ row'.digest = Digest(row')
    BY <1>1, <1>3, <2>2, ShiftedIs
  <2>4. MovedOn
    BY <1>1, <1>3, <2>1, <2>3 DEF MovedOn, Stale, Digest
  <2> QED
    BY <1>1, <2>1, <2>3, <2>4, PastIs DEF RowStep, Closes
<1>5. CASE ~Fresh(new)
  <2>1. row' = [new EXCEPT !.digest = Digest(new)] /\ Leaves /\ ~Stale(row) /\ row.reads
    BY <1>2, <1>5 DEF Fresh
  <2>2. Digest(new) \in Digests
    BY <1>3, DigestsAre
  <2>3. /\ row' \in Row /\ row'.is = "stored" /\ row'.start = row.start
        /\ row'.generation = row.generation /\ row'.reads
    BY <1>1, <1>3, <2>1, <2>2 DEF Row
  <2>4. ~Stale(row)'
    BY <1>3, <2>1 DEF Stale, Digest, Row
  <2> QED
    BY <1>1, <2>1, <2>3, <2>4 DEF RowStep, Adjusted, Leaves
<1> QED
  BY <1>4, <1>5

LEMMA DisableRow ==
  ASSUME TypeOK, NEW called \in 0 .. now, Disable(called)
  PROVE  RowStep
<1> DEFINE to == IF ~row.reads THEN [row EXCEPT !.generation = @ + 1]
                 ELSE IF Stale(row) THEN Moved(row, called) ELSE row
           off == [to EXCEPT !.enabled = FALSE]
<1>1. /\ row.is = "stored" /\ Unlocked /\ Touch
      /\ row \in Row /\ now \in Instants /\ closed \subseteq Instants
  BY Types DEF Disable, Lockable, Stored
<1>2. /\ row' = IF row.reads THEN [off EXCEPT !.digest = Digest(off)] ELSE off
      /\ IF row.reads /\ Stale(row) THEN Closes ELSE Leaves
  BY DEF Disable
<1>3. CASE ~row.reads
  <2>1. row' = [row EXCEPT !.generation = row.generation + 1, !.enabled = FALSE] /\ Leaves
    BY <1>1, <1>2, <1>3 DEF Row
  <2>2. row.generation + 1 \in Nat
    BY <1>1 DEF Row
  <2>3. row' \in Row /\ Adjusted
    BY <1>1, <1>3, <2>1, <2>2 DEF Row, Adjusted
  <2> QED
    BY <1>1, <2>1, <2>3 DEF RowStep, Leaves
<1>4. CASE row.reads /\ Stale(row)
  <2>1. Moved(row, called) = [row EXCEPT !.start = now, !.generation = row.generation + 1]
    BY <1>1 DEF Moved, BoundaryClock, Row
  <2>2. to = [row EXCEPT !.start = now, !.generation = row.generation + 1]
    BY <1>4, <2>1
  <2>3. off = [row EXCEPT !.start = now, !.generation = row.generation + 1, !.enabled = FALSE]
    BY <1>1, <2>2 DEF Row
  <2>4. row.generation + 1 \in Nat
    BY <1>1 DEF Row
  <2>5. /\ off \in Row /\ off.start = now /\ off.generation = row.generation + 1
        /\ off.reads /\ off.is = "stored"
    BY <1>1, <1>4, <2>3, <2>4 DEF Row
  <2> HIDE DEF off
  <2>6. Digest(off) \in Digests /\ row' = [off EXCEPT !.digest = Digest(off)] /\ Closes
    BY <1>2, <1>4, <2>5, DigestsAre
  <2>7. row' \in Row /\ row'.start = now /\ row'.generation = row.generation + 1
        /\ row'.reads /\ row'.is = "stored" /\ ~Stale(row)'
    BY <2>5, <2>6 DEF Row, Stale, Digest
  <2>8. MovedOn
    BY <1>1, <2>6, <2>7 DEF MovedOn
  <2> QED
    BY <1>1, <2>6, <2>7, <2>8, PastIs DEF RowStep, Closes
<1>5. CASE row.reads /\ ~Stale(row)
  <2>1. off = [row EXCEPT !.enabled = FALSE]
    BY <1>5
  <2>2. off \in Row /\ off.start = row.start /\ off.generation = row.generation
        /\ off.reads /\ off.is = "stored"
    BY <1>1, <1>5, <2>1 DEF Row
  <2> HIDE DEF off
  <2>3. Digest(off) \in Digests /\ row' = [off EXCEPT !.digest = Digest(off)] /\ Leaves
    BY <1>2, <1>5, <2>2, DigestsAre
  <2>4. row' \in Row /\ row'.start = row.start /\ row'.generation = row.generation
        /\ row'.reads /\ row'.is = "stored" /\ ~Stale(row)'
    BY <2>2, <2>3 DEF Row, Stale, Digest
  <2> QED
    BY <1>1, <1>5, <2>3, <2>4 DEF RowStep, Adjusted, Leaves
<1> QED
  BY <1>3, <1>4, <1>5

LEMMA DeleteRow ==
  ASSUME TypeOK, DeleteSchedule
  PROVE  RowStep
BY Types DEF DeleteSchedule, Lockable, Stored, RowStep, Deleted, Row

LEMMA RawRow ==
  ASSUME TypeOK, RawWrite
  PROVE  RowStep
<1>1. /\ Unlocked /\ untold' = Workers /\ disturbed' = TRUE /\ marker' = marker /\ closed' = closed
      /\ row \in Row /\ now \in Instants /\ closed \subseteq Instants /\ LastClock \in Nat
      /\ now <= now
  BY Types DEF RawWrite, Instants
<1>2. CASE row.is = "absent" /\ \E timing \in Timings :
             row' = [is |-> "stored", timing |-> timing, enabled |-> TRUE, reads |-> TRUE,
                     start |-> now, digest |-> None, generation |-> 0]
  <2>1. row' \in Row /\ Made
    BY <1>1, <1>2 DEF Row, Made
  <2> QED
    BY <1>1, <1>2, <2>1 DEF RowStep
<1>3. CASE /\ Stored
           /\ \/ \E timing \in Timings : row' = [row EXCEPT !.timing = timing]
              \/ row' = [row EXCEPT !.enabled = ~@]
              \/ row' = [row EXCEPT !.reads = ~@]
              \/ row' = [row EXCEPT !.is = "gone"]
  <2>1. row' \in Row /\ row'.is \in {"stored", "gone"} /\ row'.start = row.start
        /\ row'.generation = row.generation
    BY <1>1, <1>3 DEF Row, Stored
  <2> QED
    BY <1>1, <1>3, <2>1 DEF RowStep, Disturbs, Stored
<1> QED
  BY <1>2, <1>3 DEF RawWrite

LEMMA HealRow ==
  ASSUME TypeOK, NEW w \in crew, NEW called \in 0 .. now, Heal(w, called)
  PROVE  RowStep
<1>1. /\ Unlocked /\ row \in Row /\ now \in Instants /\ closed \subseteq Instants
  BY Types DEF Heal
<1>2. CASE ~Stored \/ (row.reads /\ ~AsSighted(w)) \/ ~row.reads
  BY <1>1, <1>2 DEF Heal, RowStep, Kept, Leaves
<1>3. CASE Stored /\ row.reads /\ AsSighted(w)
  <2>1. row' = [Moved(row, called) EXCEPT !.digest = Digest(row)] /\ Closes /\ Touch
    BY <1>3 DEF Heal
  <2>2. row' = Shifted(row)
    BY <1>1, <2>1, MovedIs
  <2>3. /\ row' \in Row /\ row'.start = now /\ row'.generation = row.generation + 1
        /\ row'.is = row.is /\ row'.reads = row.reads /\ row'.digest = Digest(row')
    BY <1>1, <2>2, ShiftedIs
  <2>4. MovedOn
    BY <1>3, <2>1, <2>3 DEF MovedOn, Stale, Digest, Stored
  <2> QED
    BY <1>1, <2>1, <2>3, <2>4, PastIs DEF RowStep, Closes
<1> QED
  BY <1>2, <1>3

LEMMA RowSteps ==
  ASSUME TypeOK, [Next]_vars
  PROVE  RowStep
<1>1. CASE UNCHANGED <<row, marker, closed, disturbed>>
  BY <1>1, Types DEF RowStep, Kept
<1>2. ASSUME NEW w \in crew,
             \/ ReadMarkerOnly(w) \/ Build(w) \/ Plan(w) \/ LockRow(w) \/ Fire(w)
             \/ ReadMarker(w) \/ HealFails(w) \/ GivesUp(w) \/ Crash(w)
      PROVE  UNCHANGED <<row, marker, closed, disturbed>>
  BY <1>2 DEF ReadMarkerOnly, Build, Plan, LockRow, Fire, ReadMarker, HealFails, GivesUp, Crash,
              ghosts
<1>3. CASE Advance \/ UNCHANGED vars
  BY <1>1, <1>3 DEF Advance, vars
<1> QED
  BY <1>1, <1>2, <1>3, CreateRow, UpdateRow, DisableRow, DeleteRow, RawRow, HealRow DEF Next, Step
-----------------------------------------------------------------------------
(* The workers.                                                            *)

\* What a step makes of a worker's pass, of its copy and of the marker beside it.
Rests(w) == pass'[w] = pass[w] /\ cache'[w] = cache[w] /\ seen'[w] = seen[w]

Heals(w) ==
  /\ \/ pass[w].at = "idle" /\ pass'[w] = [pass[w] EXCEPT !.at = "reading"]
     \/ pass[w].at = "healing" /\ pass'[w] = [pass[w] EXCEPT !.at = "rebuilding"]
  /\ cache'[w] = cache[w] /\ seen'[w] = seen[w]

Reads(w) ==
  /\ pass[w].at \in {"idle", "reading"}
  /\ \/ pass'[w] = [pass[w] EXCEPT !.at = "planning", !.marker = marker] /\ seen[w] = marker
     \/ pass'[w] = [pass[w] EXCEPT !.at = "building", !.marker = marker]
  /\ cache'[w] = cache[w] /\ seen'[w] = seen[w]

Builds(w) ==
  /\ \/ pass'[w] = [pass[w] EXCEPT !.at = "healing"]
     \/ pass'[w] = [pass[w] EXCEPT !.at = "planning"]
  /\ cache'[w] = Built /\ seen'[w] = seen[w] /\ row' = row

Plans(w) ==
  /\ pass[w].at = "planning"
  /\ \/ pass'[w] = Idle
     \/ \E t \in Instants : pass'[w] = [Idle EXCEPT !.at = "locking", !.plannedAt = now, !.tick = t]
  /\ cache'[w] = cache[w] /\ seen'[w] = pass[w].marker

Locks(w) ==
  /\ pass[w].at = "locking" /\ row' = row
  /\ \/ pass'[w] = Idle
     \/ /\ pass'[w] = [pass[w] EXCEPT !.at = "firing"]
        /\ Live(row) /\ pass[w].tick \in TicksOf(row.timing) /\ pass[w].tick >= row.start
  /\ cache'[w] = IF Live(row) THEN cache[w] ELSE None
  /\ seen'[w] = seen[w]

Ends(w) ==
  /\ pass[w].at \in {"locking", "firing"} /\ pass'[w] = Idle
  /\ cache'[w] = cache[w] /\ seen'[w] = seen[w]

Dies(w) == pass'[w] = Idle /\ cache'[w] = None /\ seen'[w] = Unread

Moves(w) ==
  \/ Rests(w) \/ Heals(w) \/ Reads(w) \/ Builds(w) \/ Plans(w) \/ Locks(w) \/ Ends(w)
  \/ Dies(w)

\* And of its sighting: a heal moves the boundary as it was sighted, or none.
Sights(w) ==
  \/ sighting'[w] = sighting[w]
  \/ /\ sighting'[w] = None
     /\ row' = row \/ (sighting[w] # None /\ sighting[w].generation = row.generation)
  \/ /\ sighting'[w] = BoundaryOf(row)
     /\ Readable(row) /\ Stale(row) /\ UNCHANGED <<row, disturbed>>

WorkerStep ==
  /\ pass' \in [Workers -> Pass] /\ cache' \in [Workers -> Schedule \cup {None}]
  /\ seen' \in [Workers -> Instants \cup {Unread}]
  /\ sighting' \in [Workers -> Boundary \cup {None}]
  /\ \A w \in Workers :
       /\ Moves(w) /\ Sights(w)
       /\ w \in untold => w \in untold' \/ pass'[w].at = "building"

\* One worker moves, and those that are not told keep that.
LEMMA OneMoves ==
  ASSUME TypeOK, NEW w \in Workers, NEW p \in Pass, NEW c \in Schedule \cup {None},
         NEW m \in Instants \cup {Unread}, NEW b \in Boundary \cup {None},
         pass' = [pass EXCEPT ![w] = p], cache' = [cache EXCEPT ![w] = c],
         seen' = [seen EXCEPT ![w] = m], sighting' = [sighting EXCEPT ![w] = b],
         Moves(w), Sights(w), untold \ {w} \subseteq untold',
         w \in untold => w \in untold' \/ p.at = "building"
  PROVE  WorkerStep
<1>1. /\ pass' \in [Workers -> Pass] /\ cache' \in [Workers -> Schedule \cup {None}]
      /\ seen' \in [Workers -> Instants \cup {Unread}]
      /\ sighting' \in [Workers -> Boundary \cup {None}]
      /\ pass'[w] = p
  BY Types
<1>2. ASSUME NEW v \in Workers \ {w}
      PROVE  Rests(v) /\ sighting'[v] = sighting[v]
  BY <1>2, Types DEF Rests
<1> QED
  BY <1>1, <1>2 DEF WorkerStep, Moves, Sights

LEMMA NoneMoves ==
  ASSUME TypeOK, UNCHANGED <<pass, cache, seen, sighting>>, untold \subseteq untold'
  PROVE  WorkerStep
BY Types DEF WorkerStep, Moves, Rests, Sights

\* A worker's own state, as a step that leaves parts of it alone finds it.
LEMMA Own ==
  ASSUME TypeOK, NEW w \in Workers
  PROVE  /\ pass[w] \in Pass /\ cache[w] \in Schedule \cup {None}
         /\ seen[w] \in Instants \cup {Unread} /\ sighting[w] \in Boundary \cup {None}
         /\ pass = [pass EXCEPT ![w] = pass[w]]
         /\ cache = [cache EXCEPT ![w] = cache[w]]
         /\ seen = [seen EXCEPT ![w] = seen[w]]
         /\ sighting = [sighting EXCEPT ![w] = sighting[w]]
BY Types

LEMMA IdleIs ==
  ASSUME LastClock \in Nat
  PROVE  /\ Idle \in Pass /\ Idle.at = "idle" /\ Idle.marker = Unread /\ Idle.tick = None
BY DEF Idle, Pass, Instants

LEMMA HealSteps ==
  ASSUME TypeOK, NEW w \in crew, NEW called \in 0 .. now, Heal(w, called)
  PROVE  WorkerStep
<1>1. w \in Workers /\ row \in Row /\ pass \in [Workers -> Pass] /\ untold \subseteq Workers
  BY Types
<1>2. PICK step \in {"reading", "rebuilding"} :
        /\ pass' = [pass EXCEPT ![w].at = step]
        /\ pass[w].at = IF step = "reading" THEN "idle" ELSE "healing"
  BY DEF Heal, At
<1>3. pass' = [pass EXCEPT ![w] = [pass[w] EXCEPT !.at = step]]
  BY <1>1, <1>2
<1>4. [pass[w] EXCEPT !.at = step] \in Pass
  BY <1>1 DEF Pass
<1>5. /\ cache' = cache /\ seen' = seen /\ sighting' = [sighting EXCEPT ![w] = None]
      /\ sighting[w] # None
  BY DEF Heal, Forgets
<1>6. Heals(w)
  BY <1>1, <1>2, <1>3, <1>5 DEF Heals
<1>7. untold \subseteq untold'
  BY <1>1 DEF Heal, Touch
<1>8. row' = row \/ BoundaryOf(row) = sighting[w]
  BY DEF Heal, AsSighted
<1>9. Sights(w)
  BY <1>1, <1>5, <1>8, Types DEF Sights, BoundaryOf
<1> HIDE DEF Heal
<1> QED
  BY <1>1, <1>3, <1>4, <1>5, <1>6, <1>7, <1>9, Own, OneMoves DEF Moves

LEMMA HealFailsSteps ==
  ASSUME TypeOK, NEW w \in crew, HealFails(w)
  PROVE  WorkerStep
<1>1. w \in Workers /\ pass \in [Workers -> Pass]
  BY Types
<1>2. PICK step \in {"reading", "rebuilding"} :
        /\ pass' = [pass EXCEPT ![w].at = step]
        /\ pass[w].at = IF step = "reading" THEN "idle" ELSE "healing"
  BY DEF HealFails, At
<1>3. pass' = [pass EXCEPT ![w] = [pass[w] EXCEPT !.at = step]]
  BY <1>1, <1>2
<1>4. [pass[w] EXCEPT !.at = step] \in Pass
  BY <1>1 DEF Pass
<1>5. UNCHANGED <<cache, seen, sighting, untold>>
  BY DEF HealFails, ghosts
<1>6. Heals(w) /\ Sights(w)
  BY <1>1, <1>2, <1>3, <1>5 DEF Heals, Sights
<1>7. /\ cache' = [cache EXCEPT ![w] = cache[w]] /\ seen' = [seen EXCEPT ![w] = seen[w]]
      /\ sighting' = [sighting EXCEPT ![w] = sighting[w]]
  BY <1>1, <1>5, Own
<1>8. untold \ {w} \subseteq untold' /\ (w \in untold => w \in untold')
  BY <1>5
<1> QED
  BY <1>1, <1>3, <1>4, <1>6, <1>7, <1>8, Own, OneMoves DEF Moves

LEMMA ReadSteps ==
  ASSUME TypeOK, NEW w \in crew, ReadMarkerOnly(w) \/ ReadMarker(w)
  PROVE  WorkerStep
<1>1. w \in Workers /\ pass \in [Workers -> Pass] /\ marker \in Instants /\ untold \subseteq Workers
  BY Types
<1>2. PICK step \in {"planning", "building"} :
        /\ pass' = [pass EXCEPT ![w].at = step, ![w].marker = marker]
        /\ step = "planning" => seen[w] = marker /\ untold' = untold
        /\ step = "building" => untold' = untold \ {w}
  BY DEF ReadMarkerOnly, ReadMarker, ghosts
<1>3. pass' = [pass EXCEPT ![w] = [pass[w] EXCEPT !.at = step, !.marker = marker]]
  BY <1>1, <1>2
<1>4. /\ [pass[w] EXCEPT !.at = step, !.marker = marker] \in Pass
      /\ [pass[w] EXCEPT !.at = step, !.marker = marker].at = step
  BY <1>1 DEF Pass
<1>5. UNCHANGED <<cache, seen, sighting>> /\ pass[w].at \in {"idle", "reading"}
  BY DEF ReadMarkerOnly, ReadMarker, BeginsReading, ghosts
<1>6. Reads(w) /\ Sights(w)
  BY <1>1, <1>2, <1>3, <1>5 DEF Reads, Sights
<1>7. untold \ {w} \subseteq untold' /\ (w \in untold => w \in untold' \/ step = "building")
  BY <1>2
<1>8. /\ cache' = [cache EXCEPT ![w] = cache[w]] /\ seen' = [seen EXCEPT ![w] = seen[w]]
      /\ sighting' = [sighting EXCEPT ![w] = sighting[w]]
  BY <1>1, <1>5, Own
<1> QED
  BY <1>1, <1>3, <1>4, <1>6, <1>7, <1>8, Own, OneMoves DEF Moves

LEMMA BuiltIs ==
  ASSUME TypeOK
  PROVE  Built \in Schedule \cup {None} /\ BoundaryOf(row) \in Boundary
BY Types DEF Built, Schedule, BoundaryOf, Boundary, Row

LEMMA BuildSteps ==
  ASSUME TypeOK, NEW w \in crew, Build(w)
  PROVE  WorkerStep
<1>1. w \in Workers /\ pass \in [Workers -> Pass]
  BY Types
<1>2. PICK step \in {"healing", "planning"} : pass' = [pass EXCEPT ![w].at = step]
  BY DEF Build, At
<1>3. pass' = [pass EXCEPT ![w] = [pass[w] EXCEPT !.at = step]]
  BY <1>1, <1>2
<1>4. [pass[w] EXCEPT !.at = step] \in Pass
  BY <1>1 DEF Pass
<1>5. PICK b \in Boundary \cup {None} :
        /\ sighting' = [sighting EXCEPT ![w] = b]
        /\ b = sighting[w] \/ (b = BoundaryOf(row) /\ Readable(row) /\ Stale(row))
  BY <1>1, Own, BuiltIs DEF Build, Sight, FoundStale
<1>6. cache' = [cache EXCEPT ![w] = Built] /\ UNCHANGED <<row, disturbed, seen, untold>>
  BY DEF Build, ghosts
<1>7. Builds(w) /\ Sights(w)
  BY <1>1, <1>2, <1>3, <1>5, <1>6, Types DEF Builds, Sights
<1> QED
  BY <1>1, <1>3, <1>4, <1>5, <1>6, <1>7, Own, BuiltIs, OneMoves DEF Moves

LEMMA PlanSteps ==
  ASSUME TypeOK, NEW w \in crew, Plan(w)
  PROVE  WorkerStep
<1>1. /\ w \in Workers /\ pass \in [Workers -> Pass] /\ cache[w] \in Schedule \cup {None}
      /\ now \in Instants /\ LastClock \in Nat
  BY Types
<1> DEFINE due == IF cache[w] = None THEN {}
                  ELSE {t \in Latest(cache[w].timing, now) :
                          t >= cache[w].start /\ t \notin log /\ InTime(t, now)}
           planned == [Idle EXCEPT !.at = "locking", !.plannedAt = now,
                                   !.tick = CHOOSE t \in due : TRUE]
<1>2. /\ pass' = [pass EXCEPT ![w] = IF due = {} THEN Idle ELSE planned]
      /\ pass[w].at = "planning" /\ seen' = [seen EXCEPT ![w] = pass[w].marker]
      /\ UNCHANGED <<cache, sighting, untold>>
  BY DEF Plan, SeenMarker, ghosts
<1>3. due \subseteq Instants
  <2>1. ASSUME cache[w] # None
        PROVE  TicksOf(cache[w].timing) \subseteq Instants
    BY <1>1, <2>1, Types DEF Schedule
  <2> QED
    BY <2>1 DEF Latest
<1> HIDE DEF due
<1>4. due # {} => (CHOOSE t \in due : TRUE) \in Instants
  BY <1>3
<1>5. PICK p \in Pass :
        /\ pass' = [pass EXCEPT ![w] = p]
        /\ \/ p = Idle
           \/ \E t \in Instants : p = [Idle EXCEPT !.at = "locking", !.plannedAt = now, !.tick = t]
  <2>1. CASE due = {}
    BY <1>1, <1>2, <2>1, IdleIs
  <2>2. CASE due # {}
    <3>1. PICK t \in Instants : t = CHOOSE u \in due : TRUE
      BY <1>4, <2>2
    <3>2. [Idle EXCEPT !.at = "locking", !.plannedAt = now, !.tick = t] \in Pass
      BY <1>1, <3>1, IdleIs DEF Pass
    <3>3. pass' = [pass EXCEPT ![w] = [Idle EXCEPT !.at = "locking", !.plannedAt = now, !.tick = t]]
      BY <1>2, <2>2, <3>1
    <3> QED
      BY <3>2, <3>3
  <2> QED
    BY <2>1, <2>2
<1>6. /\ pass[w].marker \in Instants \cup {Unread}
      /\ sighting[w] \in Boundary \cup {None}
  BY <1>1, Own DEF Pass
<1>7. Plans(w) /\ Sights(w)
  BY <1>1, <1>2, <1>5, Types DEF Plans, Sights
<1>8. /\ cache' = [cache EXCEPT ![w] = cache[w]]
      /\ sighting' = [sighting EXCEPT ![w] = sighting[w]]
      /\ untold \ {w} \subseteq untold' /\ (w \in untold => w \in untold')
  BY <1>1, <1>2, Own
<1> QED
  BY <1>1, <1>2, <1>5, <1>6, <1>7, <1>8, OneMoves DEF Moves

LEMMA LockSteps ==
  ASSUME TypeOK, NEW w \in crew, LockRow(w)
  PROVE  WorkerStep
<1>1. w \in Workers /\ pass \in [Workers -> Pass] /\ LastClock \in Nat
  BY Types
<1>2. /\ pass[w].at = "locking"
      /\ pass' = [pass EXCEPT ![w] = IF Live(row) /\ ~Stale(row) /\ StillDue(w)
                                     THEN [@ EXCEPT !.at = "firing"] ELSE Idle]
      /\ cache' = IF Live(row) THEN cache ELSE [cache EXCEPT ![w] = None]
      /\ UNCHANGED <<row, disturbed, seen, untold>>
  BY DEF LockRow, ghosts
<1>3. PICK p \in Pass :
        /\ pass' = [pass EXCEPT ![w] = p]
        /\ \/ p = Idle
           \/ p = [pass[w] EXCEPT !.at = "firing"] /\ Live(row) /\ StillDue(w)
  <2>1. CASE Live(row) /\ ~Stale(row) /\ StillDue(w)
    <3>1. [pass[w] EXCEPT !.at = "firing"] \in Pass
      BY <1>1 DEF Pass
    <3>2. pass' = [pass EXCEPT ![w] = [pass[w] EXCEPT !.at = "firing"]]
      BY <1>1, <1>2, <2>1
    <3> QED
      BY <2>1, <3>1, <3>2
  <2>2. CASE ~(Live(row) /\ ~Stale(row) /\ StillDue(w))
    BY <1>1, <1>2, <2>2, IdleIs
  <2> QED
    BY <2>1, <2>2
<1>4. PICK c \in Schedule \cup {None} :
        /\ cache' = [cache EXCEPT ![w] = c]
        /\ c = IF Live(row) THEN cache[w] ELSE None
  BY <1>1, <1>2, Own
<1>5. PICK b \in Boundary \cup {None} :
        /\ sighting' = [sighting EXCEPT ![w] = b]
        /\ b = sighting[w] \/ (b = BoundaryOf(row) /\ Readable(row) /\ Stale(row))
  BY <1>1, Own, BuiltIs DEF LockRow, Sight
<1>6. StillDue(w) => pass[w].tick \in TicksOf(row.timing) /\ pass[w].tick >= row.start
  BY DEF StillDue, Latest
<1>7. Locks(w) /\ Sights(w)
  BY <1>1, <1>2, <1>3, <1>4, <1>5, <1>6, Types DEF Locks, Sights
<1>8. /\ seen' = [seen EXCEPT ![w] = seen[w]]
      /\ untold \ {w} \subseteq untold' /\ (w \in untold => w \in untold')
  BY <1>1, <1>2, Own
<1> QED
  BY <1>1, <1>3, <1>4, <1>5, <1>7, <1>8, Own, OneMoves DEF Moves

LEMMA EndSteps ==
  ASSUME TypeOK, NEW w \in crew, Fire(w) \/ GivesUp(w)
  PROVE  WorkerStep
<1>1. w \in Workers /\ pass \in [Workers -> Pass] /\ Idle \in Pass
  BY Types, IdleIs
<1>2. /\ pass[w].at \in {"locking", "firing"} /\ pass' = [pass EXCEPT ![w] = Idle]
      /\ UNCHANGED <<cache, seen, sighting, untold>>
  BY DEF Fire, GivesUp, ghosts
<1>3. Ends(w) /\ Sights(w)
  BY <1>1, <1>2 DEF Ends, Sights
<1>4. /\ cache' = [cache EXCEPT ![w] = cache[w]] /\ seen' = [seen EXCEPT ![w] = seen[w]]
      /\ sighting' = [sighting EXCEPT ![w] = sighting[w]]
      /\ cache[w] \in Schedule \cup {None} /\ seen[w] \in Instants \cup {Unread}
      /\ sighting[w] \in Boundary \cup {None}
      /\ untold \ {w} \subseteq untold' /\ (w \in untold => w \in untold')
  BY <1>1, <1>2, Own
<1> QED
  BY <1>1, <1>2, <1>3, <1>4, OneMoves DEF Moves

LEMMA CrashSteps ==
  ASSUME TypeOK, NEW w \in crew, Crash(w)
  PROVE  WorkerStep
<1>1. w \in Workers /\ Idle \in Pass
  BY Types, IdleIs
<1>2. /\ pass' = [pass EXCEPT ![w] = Idle] /\ cache' = [cache EXCEPT ![w] = None]
      /\ seen' = [seen EXCEPT ![w] = Unread] /\ sighting' = [sighting EXCEPT ![w] = None]
      /\ UNCHANGED <<row, untold>>
  BY DEF Crash, ghosts
<1>3. Dies(w) /\ Sights(w)
  BY <1>1, <1>2, Types DEF Dies, Sights
<1>4. untold \ {w} \subseteq untold' /\ (w \in untold => w \in untold')
  BY <1>2
<1> QED
  BY <1>1, <1>2, <1>3, <1>4, OneMoves DEF Moves

LEMMA WorkerSteps ==
  ASSUME TypeOK, [Next]_vars
  PROVE  WorkerStep
<1>1. ASSUME NEW called \in 0 .. now,
             CreateSchedule(called) \/ UpdateSchedule(called) \/ Disable(called)
      PROVE  WorkerStep
  <2>1. UNCHANGED <<pass, cache, seen, sighting>> /\ Touch
    BY <1>1 DEF CreateSchedule, UpdateSchedule, Disable
  <2> QED
    BY <2>1, NoneMoves, Types DEF Touch
<1>2. CASE DeleteSchedule \/ RawWrite
  <2>1. UNCHANGED <<pass, cache, seen, sighting>> /\ (Touch \/ untold' = Workers)
    BY <1>2 DEF DeleteSchedule, RawWrite
  <2> QED
    BY <2>1, NoneMoves, Types DEF Touch
<1>3. CASE Advance \/ UNCHANGED vars
  BY <1>3, NoneMoves DEF Advance, vars
<1> QED
  BY <1>1, <1>2, <1>3, HealSteps, HealFailsSteps, ReadSteps, BuildSteps, PlanSteps, LockSteps,
     EndSteps, CrashSteps DEF Next, Step
-----------------------------------------------------------------------------
(* The invariant.                                                          *)

\* The clock goes on, and a tick is recorded only from under the row's lock.
LEMMA Ticks ==
  ASSUME TypeOK, [Next]_vars
  PROVE  /\ now' \in Instants /\ now' >= now
         /\ \A t \in log' \ log : \E w \in Workers : pass[w].at = "firing" /\ t = pass[w].tick
<1>1. now \in Instants /\ LastClock \in Nat /\ crew \subseteq Workers
  BY Types
<1>2. CASE Advance
  BY <1>1, <1>2 DEF Advance, Instants
<1>3. ASSUME NEW w \in crew, Fire(w)
      PROVE  /\ now' = now
             /\ \A t \in log' \ log : pass[w].at = "firing" /\ t = pass[w].tick
  BY <1>3 DEF Fire
<1>4. ASSUME UNCHANGED <<now, log>>
      PROVE  now' \in Instants /\ now' >= now /\ log' \ log = {}
  BY <1>1, <1>4 DEF Instants
<1>5. now >= now
  BY <1>1 DEF Instants
<1> QED
  BY <1>1, <1>2, <1>3, <1>4, <1>5
  DEF Next, Step, vars, CreateSchedule, UpdateSchedule, Disable, DeleteSchedule, RawWrite, Heal,
      HealFails, ReadMarkerOnly, ReadMarker, Build, Plan, LockRow, GivesUp, Crash

LEMMA CountSteps ==
  ASSUME TypeOK, [Next]_vars
  PROVE  /\ deadline' = deadline /\ crew' = crew /\ events' \in 0 .. MaxEvents(crew)
         /\ untold' \subseteq Workers /\ disturbed' \in BOOLEAN
<1>1. /\ events \in 0 .. MaxEvents(crew) /\ MaxEvents(crew) \in Nat
      /\ untold \subseteq Workers /\ disturbed \in BOOLEAN
  BY Types DEF TypeOK
<1>2. Happens => events' \in 0 .. MaxEvents(crew)
  BY <1>1 DEF Happens
<1>3. Touch => untold' \subseteq Workers
  BY <1>1 DEF Touch
<1> HIDE DEF Happens, Touch
<1> QED
  BY <1>1, <1>2, <1>3
  DEF Next, Step, vars, ghosts, CreateSchedule, UpdateSchedule, Disable, DeleteSchedule, RawWrite,
      Heal, HealFails, ReadMarkerOnly, ReadMarker, Build, Plan, LockRow, Fire, GivesUp, Crash,
      Advance, Closes, Leaves

LEMMA TypeStep ==
  ASSUME TypeOK, PassOK, [Next]_vars
  PROVE  TypeOK'
<1>1. /\ row' \in Row /\ closed' \subseteq Instants /\ marker' \in Instants
  BY RowSteps, Types DEF RowStep, Touch
<1>2. log' \subseteq Instants
  BY Ticks DEF PassOK, TypeOK
<1> QED
  BY <1>1, <1>2, Ticks, CountSteps, WorkerSteps DEF TypeOK, WorkerStep

LEMMA OrderStep ==
  ASSUME TypeOK, InOrder, [Next]_vars
  PROVE  /\ InOrder' /\ marker <= marker'
         /\ \A w \in Workers : seen'[w] <= marker /\ pass'[w].marker <= marker
<1>1. /\ now \in Int /\ now' \in Int /\ now <= now' /\ marker \in Int /\ row.start \in Int
      /\ Unread \in Int /\ Unread <= marker
      /\ \A w \in Workers : pass[w] \in Pass /\ seen[w] \in Int /\ pass[w].marker \in Int
  BY Types, Ticks DEF Pass, Unread
<1>2. marker' = marker \/ marker' = now
  BY RowSteps DEF RowStep, Touch
<1>3. row'.start <= now
  <2>1. row'.start = row.start \/ row'.start = now \/ row'.start <= now
    BY RowSteps, Types
    DEF RowStep, Kept, Made, MovedOn, Adjusted, Disturbs, Deleted, Row
  <2> QED
    BY <1>1, <2>1 DEF InOrder
<1>4. ASSUME NEW w \in Workers
      PROVE  /\ seen'[w] \in {seen[w], pass[w].marker, Unread}
             /\ pass'[w].marker \in {pass[w].marker, marker, Unread}
  <2>1. Moves(w) /\ pass[w] \in Pass
    BY <1>1, WorkerSteps DEF WorkerStep
  <2>2. /\ Idle.marker = Unread
        /\ \A t \in Instants :
             [Idle EXCEPT !.at = "locking", !.plannedAt = now, !.tick = t].marker = Unread
    BY DEF Idle
  <2> QED
    BY <2>1, <2>2 DEF Moves, Rests, Heals, Reads, Builds, Plans, Locks, Ends, Dies, Pass
<1>5. \A w \in Workers : seen'[w] <= marker /\ pass'[w].marker <= marker
  BY <1>1, <1>4 DEF InOrder
<1>6. /\ marker <= now /\ row'.start \in Int
      /\ \A w \in Workers : seen'[w] \in Int /\ pass'[w].marker \in Int
  BY <1>1, <1>4, RowSteps DEF InOrder, RowStep, Row, Instants
<1> QED
  BY <1>1, <1>2, <1>3, <1>5, <1>6 DEF InOrder

LEMMA BoundaryStep ==
  ASSUME TypeOK, InOrder, BoundaryOK, DigestOK, [Next]_vars
  PROVE  BoundaryOK'
<1>1. /\ RowStep /\ row \in Row /\ row' \in Row /\ closed \subseteq Instants
      /\ now \in Instants /\ row.start \in Instants /\ row.start <= now
      /\ \A i \in Instants : i \in Int
      /\ \A w \in Workers : Sights(w)
  BY RowSteps, WorkerSteps, Types DEF InOrder, WorkerStep, RowStep
<1>2. ASSUME row'.is = "absent"
      PROVE  closed' = {} /\ \A w \in Workers : sighting'[w] = None
  <2>1. Kept
    BY <1>1, <1>2 DEF RowStep, Made, MovedOn, Adjusted, Disturbs, Deleted, Row
  <2> QED
    BY <1>1, <1>2, <2>1 DEF Kept, BoundaryOK, Sights, Readable
<1>3. ASSUME row'.is = "stored", NEW t \in closed'
      PROVE  t < row'.start
  <2>1. row'.is # "gone" /\ row'.is # "absent"
    BY <1>3
  <2>2. CASE Kept
    BY <1>3, <2>2 DEF Kept, BoundaryOK
  <2>3. CASE Made
    BY <1>3, <2>3 DEF Made, BoundaryOK
  <2>4. CASE MovedOn
    BY <1>1, <1>3, <2>4 DEF MovedOn, Closes, Past, BoundaryOK
  <2>5. CASE Adjusted \/ Disturbs
    BY <1>3, <2>5 DEF Adjusted, Disturbs, Leaves, BoundaryOK
  <2>6. CASE Deleted
    BY <1>1, <1>3, <2>6 DEF Deleted, Row
  <2> QED
    BY <1>1, <2>2, <2>3, <2>4, <2>5, <2>6 DEF RowStep
<1> QED
  BY <1>2, <1>3 DEF BoundaryOK

LEMMA DigestStep ==
  ASSUME TypeOK, DigestOK, [Next]_vars
  PROVE  DigestOK'
<1>1. RowStep /\ row \in Row
  BY RowSteps, Types
<1> QED
  BY <1>1 DEF RowStep, Kept, Made, MovedOn, Adjusted, Disturbs, Deleted, DigestOK, Stored, Stale,
              Digest, Leaves, Row

LEMMA SightingStep ==
  ASSUME TypeOK, BoundaryOK, DigestOK, SightingOK, [Next]_vars
  PROVE  SightingOK'
<1> SUFFICES ASSUME NEW w \in Workers, sighting'[w] # None
             PROVE  /\ sighting'[w].generation <= row'.generation
                    /\ sighting'[w].generation = row'.generation => disturbed'
  BY DEF SightingOK
<1>1. /\ RowStep /\ Sights(w) /\ row \in Row /\ row' \in Row
      /\ row.generation \in Int /\ row'.generation \in Int
      /\ sighting[w] # None => sighting[w].generation \in Int
  BY RowSteps, WorkerSteps, Types DEF WorkerStep, RowStep, Row, Boundary
<1>2. CASE sighting'[w] = sighting[w]
  <2>1. /\ sighting[w] # None /\ sighting[w].generation <= row.generation
        /\ sighting[w].generation = row.generation => disturbed
        /\ row.is # "absent"
    BY <1>2 DEF SightingOK, BoundaryOK
  <2>2. \/ row'.generation = row.generation /\ (disturbed => disturbed')
        \/ row'.generation = row.generation + 1 /\ disturbed' = FALSE
        \/ row'.generation \in {row.generation, row.generation + 1} /\ disturbed' = disturbed
    BY <1>1, <2>1 DEF RowStep, Kept, Made, MovedOn, Adjusted, Disturbs, Deleted, Closes, Leaves, Row
  <2> QED
    BY <1>1, <1>2, <2>1, <2>2
<1>3. CASE /\ sighting'[w] = BoundaryOf(row)
           /\ Readable(row) /\ Stale(row) /\ UNCHANGED <<row, disturbed>>
  BY <1>1, <1>3 DEF BoundaryOf, Readable, DigestOK, Stored
<1> QED
  BY <1>1, <1>2, <1>3 DEF Sights

LEMMA PassStep ==
  ASSUME TypeOK, PassOK, [Next]_vars
  PROVE  PassOK'
<1> SUFFICES ASSUME NEW w \in Workers
             PROVE  /\ pass'[w].at \in {"locking", "firing"} => pass'[w].tick \in Instants
                    /\ pass'[w].at = "firing" =>
                         /\ Live(row)'
                         /\ pass'[w].tick \in TicksOf(row'.timing)
                         /\ pass'[w].tick >= row'.start
  BY DEF PassOK
<1>1. /\ RowStep /\ Moves(w) /\ pass[w] \in Pass /\ Idle \in Pass /\ Idle.at = "idle"
      /\ row \in Row
  BY RowSteps, WorkerSteps, Types, IdleIs DEF WorkerStep
<1>2. CASE Rests(w)
  <2>1. pass[w].at = "firing" => row' = row
    BY <1>1 DEF RowStep, Unlocked, PassOK, Live, Readable
  <2> QED
    BY <1>2, <2>1 DEF Rests, PassOK, Live, Readable
<1>3. CASE Locks(w)
  BY <1>1, <1>3 DEF Locks, PassOK, Pass, Live, Readable
<1>4. CASE Plans(w)
  BY <1>1, <1>4 DEF Plans, Pass
<1>5. CASE Heals(w) \/ Reads(w) \/ Builds(w) \/ Ends(w) \/ Dies(w)
  BY <1>1, <1>5 DEF Heals, Reads, Builds, Ends, Dies, Pass
<1> QED
  BY <1>1, <1>2, <1>3, <1>4, <1>5 DEF Moves

\* Who goes by the marker in the table, after a step, was so before it, or builds now;
\* and the row is as it was.
LEMMA FollowStep ==
  ASSUME TypeOK, InOrder, [Next]_vars, NEW w \in Workers, Follows(w)', w \notin untold'
  PROVE  row' = row /\ marker' = marker /\ w \notin untold
<1>1. /\ RowStep /\ Moves(w) /\ (w \in untold => w \in untold' \/ pass'[w].at = "building")
      /\ seen'[w] <= marker /\ pass'[w].marker <= marker /\ marker <= now
      /\ marker \in Int /\ now \in Int
      /\ seen'[w] \in Int /\ pass'[w].marker \in Int
  BY RowSteps, WorkerSteps, OrderStep, Types DEF WorkerStep, InOrder, Pass, Unread, Instants
<1>2. pass'[w].at # "building" /\ (seen'[w] = marker' \/ pass'[w].marker = marker')
  BY DEF Follows
<1>3. ~(Touch \/ untold' = Workers)
  <2>1. ASSUME Touch
        PROVE  FALSE
    <3>1. marker' = now /\ marker # now
      BY <2>1 DEF Touch
    <3> QED
      BY <1>1, <1>2, <3>1
  <2> QED
    BY <2>1
<1> QED
  BY <1>1, <1>2, <1>3 DEF RowStep

LEMMA CacheStep ==
  ASSUME TypeOK, InOrder, CacheOK, [Next]_vars
  PROVE  CacheOK'
<1> SUFFICES ASSUME NEW w \in Workers, Follows(w)', w \notin untold'
             PROVE  cache'[w] = Built'
  BY DEF CacheOK
<1>1. row' = row /\ marker' = marker /\ w \notin untold
  BY FollowStep
<1>2. Built' = Built
  BY <1>1 DEF Built, Live, Readable
<1>3. /\ Moves(w) /\ pass[w] \in Pass /\ Idle.at = "idle" /\ Idle \in Pass
      /\ marker # Unread /\ marker \in Instants
  BY WorkerSteps, Types, IdleIs DEF WorkerStep
<1>4. Follows(w) => cache[w] = Built
  BY <1>1 DEF CacheOK
<1>5. CASE Rests(w)
  BY <1>1, <1>2, <1>4, <1>5 DEF Rests, Follows
<1>6. CASE Heals(w) \/ Reads(w)
  BY <1>1, <1>2, <1>3, <1>4, <1>6 DEF Heals, Reads, Follows, Pass
<1>7. CASE Builds(w)
  BY <1>2, <1>7 DEF Builds
<1>8. CASE Plans(w)
  <2>1. pass'[w].at \in {"idle", "locking"}
    BY <1>3, <1>8 DEF Plans, Pass
  <2>2. pass[w].marker = marker
    BY <1>1, <1>8, <2>1 DEF Plans, Follows
  <2> QED
    BY <1>2, <1>4, <1>8, <2>2 DEF Plans, Follows
<1>9. CASE Locks(w)
  <2>1. pass'[w].at \in {"idle", "firing"}
    BY <1>3, <1>9 DEF Locks, Pass
  <2>2. seen[w] = marker
    BY <1>1, <1>9, <2>1 DEF Locks, Follows
  <2>3. cache[w] = Built
    BY <1>4, <1>9, <2>2 DEF Locks, Follows
  <2> QED
    BY <1>2, <1>9, <2>3 DEF Locks, Built
<1>10. CASE Ends(w)
  BY <1>1, <1>2, <1>3, <1>4, <1>10 DEF Ends, Follows
<1>11. CASE Dies(w)
  BY <1>1, <1>3, <1>11 DEF Dies, Follows
<1> QED
  BY <1>3, <1>5, <1>6, <1>7, <1>8, <1>9, <1>10, <1>11 DEF Moves

LEMMA InitIInv == Init => IInv
<1> SUFFICES ASSUME Init
             PROVE  IInv
  OBVIOUS
<1>1. LastClock \in Nat /\ Idle \in Pass /\ 0 \in Instants /\ MaxEvents(crew) \in Nat
  BY StoredAssumption, IdleIs DEF Init, Instants
<1>2. PICK timing \in Timings, is \in {"absent", "stored"} :
        row = [is |-> is, timing |-> timing, enabled |-> TRUE, reads |-> TRUE,
               start |-> 0, digest |-> <<timing, TRUE>>, generation |-> 0]
  BY DEF Init
<1>3. row \in Row
  <2>1. <<timing, TRUE>> \in Digests
    BY DEF Digests
  <2> QED
    BY <1>1, <1>2, <2>1 DEF Row
<1>4. TypeOK
  <2>1. /\ deadline \in Deadlines /\ crew \in Crews /\ now \in Instants /\ marker \in Instants
        /\ log \in SUBSET Instants /\ closed \in SUBSET Instants /\ untold \in SUBSET Workers
        /\ disturbed \in BOOLEAN
    BY <1>1 DEF Init
  <2>2. events \in 0 .. MaxEvents(crew)
    BY <1>1 DEF Init
  <2>3. /\ pass \in [Workers -> Pass] /\ cache \in [Workers -> Schedule \cup {None}]
        /\ seen \in [Workers -> Instants \cup {Unread}]
        /\ sighting \in [Workers -> Boundary \cup {None}]
    BY <1>1 DEF Init
  <2> QED
    BY <1>3, <2>1, <2>2, <2>3 DEF TypeOK
<1>5. \A w \in Workers : /\ pass[w].at = "idle" /\ pass[w].marker = Unread
                         /\ seen[w] = Unread /\ cache[w] = None /\ sighting[w] = None
  BY <1>1, IdleIs DEF Init
<1>6. InOrder
  BY <1>2, <1>5 DEF Init, InOrder, Unread
<1>7. BoundaryOK /\ DigestOK
  BY <1>2, <1>5 DEF Init, BoundaryOK, DigestOK, Stale, Digest
<1>8. SightingOK /\ PassOK
  BY <1>5 DEF SightingOK, PassOK
<1>9. CacheOK
  BY <1>5 DEF Init, CacheOK, Follows, Unread
<1> QED
  BY <1>4, <1>6, <1>7, <1>8, <1>9 DEF IInv

LEMMA NextIInv ==
  ASSUME IInv, [Next]_vars
  PROVE  IInv'
BY TypeStep, OrderStep, BoundaryStep, DigestStep, SightingStep, PassStep, CacheStep DEF IInv

\* The inductive invariant.
THEOREM Invariant == Spec => []IInv
<1>1. Init => IInv
  BY InitIInv
<1>2. IInv /\ [Next]_vars => IInv'
  BY NextIInv
<1> QED
  BY <1>1, <1>2, PTL DEF Spec

\* Every variable keeps its type.
THEOREM TypeCorrect == Spec => []TypeOK
<1>1. IInv => TypeOK
  BY DEF IInv
<1> QED
  BY <1>1, Invariant, PTL
-----------------------------------------------------------------------------
(* What it gives.                                                          *)

\* A tick fires only under a row that is live, asks for it and has its boundary at or
\* before it, and nothing that a write function, a heal or a deletion closed fires
\* afterwards.
THEOREM TicksAreAsked == Spec => TicksFireAsTheRowAsks
<1>1. ASSUME IInv, [Next]_vars, NEW t \in log' \ log
      PROVE  Live(row) /\ t \in TicksOf(row.timing) /\ t >= row.start /\ t \notin closed
  <2>1. PICK w \in Workers : pass[w].at = "firing" /\ t = pass[w].tick
    BY <1>1, Ticks DEF IInv
  <2>2. /\ Live(row) /\ t \in TicksOf(row.timing) /\ t >= row.start
        /\ t \in Instants /\ row.start \in Instants
    BY <1>1, <2>1, Types DEF IInv, PassOK
  <2>3. \A u \in closed : u < row.start
    BY <1>1, <2>2 DEF IInv, BoundaryOK, Live, Readable
  <2> QED
    BY <2>2, <2>3 DEF Instants
<1>2. IInv /\ [Next]_vars =>
        [\A t \in log' \ log :
           /\ Live(row) /\ t \in TicksOf(row.timing) /\ t >= row.start
           /\ t \notin closed]_vars
  BY <1>1
<1> QED
  BY <1>2, Invariant, PTL DEF Spec, TicksFireAsTheRowAsks

\* A heal moves a boundary only if a raw write came since it was set, however many
\* workers saw that write.
THEOREM HealsAnswer == Spec => HealsAnswerRawWrites
<1>1. ASSUME IInv, [Next]_vars, NEW w \in Workers,
             sighting[w] # None, sighting'[w] = None, row'.generation # row.generation
      PROVE  disturbed
  <2>1. Sights(w)
    BY <1>1, WorkerSteps DEF IInv, WorkerStep
  <2>2. sighting[w].generation = row.generation
    BY <1>1, <2>1 DEF Sights
  <2> QED
    BY <1>1, <2>2 DEF IInv, SightingOK
<1>2. IInv /\ [Next]_vars =>
        [\A w \in Workers :
           sighting[w] # None /\ sighting'[w] = None /\ row'.generation # row.generation
             => disturbed]_vars
  BY <1>1
<1> QED
  BY <1>2, Invariant, PTL DEF Spec, HealsAnswerRawWrites

\* A worker between two passes whose marker is the one in the table has the schedule
\* of the row, unless a raw write or a second write in one instant gave it no sign.
THEOREM CachesFollow == Spec => []CacheFollowsTheMarker
<1>1. IInv => CacheFollowsTheMarker
  BY DEF IInv, CacheOK, Follows, CacheFollowsTheMarker
<1> QED
  BY <1>1, Invariant, PTL
=============================================================================
