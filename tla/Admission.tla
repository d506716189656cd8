------------------------------ MODULE Admission ------------------------------
(***************************************************************************)
(* The limits of OxpullWorker: a rate limit, counted in a window that all  *)
(* workers share, and a concurrency limit, counted over the RUNNING rows.  *)
(* Both are asked before a claim, from a view that may be old by then, and *)
(* a claim is counted after it.                                            *)
(*                                                                         *)
(* One rate limit, one concurrency limit or both cover every task here.    *)
(* The timers that make a view due are any choice.                         *)
(***************************************************************************)
EXTENDS Integers, FiniteSets

CONSTANTS
  Workers,
  Configurations, \* which limits the workers may have
  Concurrency,  \* --concurrency: the pool of a worker
  Limit,        \* of admissions a window
  MaxRunning,   \* of RUNNING rows
  Tries,        \* MAX_RATE_ATTEMPTS
  MaxFailures,  \* MAX_COUNT_FAILURES
  LastWindow,   \* bound on the windows
  MaxErrors,    \* bound on the statements that fail
  MaxDeaths     \* bound on the workers that die

\* What the parameters are.
Parameters ==
  /\ IsFiniteSet(Workers) /\ Workers # {}
  /\ Configurations \subseteq SUBSET {"rate", "running"}
  /\ {Concurrency, Limit, MaxRunning, LastWindow, MaxErrors, MaxDeaths} \subseteq Nat
  /\ {Tries, MaxFailures} \subseteq Nat \ {0}

VARIABLES
  window,     \* the row of the limit: OxpullRateWindow
  worker,     \* per worker, its two views and where its claim is
  limits,     \* those that are configured
  running,    \* per worker, the RUNNING rows it claimed, under a limit on them
  abandoned,  \* the RUNNING rows of workers that died
  marks,      \* per worker, the outcomes written whose mark is to come
  admitted,   \* claims made in this window
  lost,       \* of them, those that are not and will not be counted
  errors, deaths

vars == <<limits, window, worker, running, abandoned, marks, admitted, lost, errors, deaths>>
-----------------------------------------------------------------------------
\* at: the statement that is next; back: what a read of the windows is for;
\* since: the window it claimed in, until that is counted; failures: admissions
\* in a row that were not; freed: a slot came free that no count has seen.
Worker ==
  [at : {"idle", "select", "seed", "roll", "clear", "count running", "apply", "claim",
         "record", "count"},
   back : {"claim", "count"},
   id : -1 .. LastWindow, blocked : BOOLEAN, stale : BOOLEAN,    \* the rate view
   full : BOOLEAN, due : BOOLEAN,                                \* the concurrency view
   closed : BOOLEAN, failures : Nat, tries : 0 .. Tries,
   since : -1 .. LastWindow, freed : BOOLEAN]

NewWorker ==
  [at |-> "idle", back |-> "claim", id |-> -1, blocked |-> FALSE, stale |-> TRUE,
   full |-> FALSE, due |-> TRUE,
   closed |-> FALSE, failures |-> 0, tries |-> 0, since |-> -1, freed |-> FALSE]

\* The row before any worker has seeded it.
NoWindow == [id |-> -1, used |-> 0, expired |-> FALSE]

TypeOK ==
  /\ limits \in Configurations
  /\ window \in [id : -1 .. LastWindow, used : Nat, expired : BOOLEAN]
  /\ worker \in [Workers -> Worker]
  /\ running \in [Workers -> Nat] /\ marks \in [Workers -> Nat]
  /\ {abandoned, admitted, lost, errors, deaths} \subseteq Nat

Init ==
  /\ limits \in Configurations
  /\ window = NoWindow
  /\ worker = [w \in Workers |-> NewWorker]
  /\ running = [w \in Workers |-> 0] /\ marks = [w \in Workers |-> 0]
  /\ abandoned = 0 /\ admitted = 0 /\ lost = 0 /\ errors = 0 /\ deaths = 0

At(w, step) == worker[w].at = step

Becomes(w, next) == worker' = [worker EXCEPT ![w] = next]

Row == <<window, admitted, lost>>

Rest == <<limits, running, abandoned, marks, deaths>>

\* The RUNNING rows of the workers that live, numbered, and those of the dead.
RunningRows == {x \in Workers \X (1 .. Concurrency) : x[2] <= running[x[1]]}
AllRunning == abandoned + Cardinality(RunningRows)
-----------------------------------------------------------------------------
(* claim_one: refresh what is due, claim, count.                           *)

\* _refresh_view, for the concurrency view.
ToRunning(v) ==
  {[v EXCEPT !.at = to] : to \in IF "running" \notin limits THEN {"claim"}
                               ELSE IF v.due THEN {"clear"} ELSE {"clear", "claim"}}

\* Where a claim starts: a stale view must be read, any other may be due.
Begin(w) ==
  /\ At(w, "idle")
  /\ LET v == [worker[w] EXCEPT !.back = "claim"]
     IN  \/ "rate" \in limits /\ Becomes(w, [v EXCEPT !.at = "select"])
         \/ (~v.stale \/ "rate" \notin limits) /\ \E next \in ToRunning(v) : Becomes(w, next)
  /\ UNCHANGED <<Row, Rest, errors>>

\* _unrecorded: one more in a row, and at MAX_COUNT_FAILURES the limit closes.
Unrecorded(v) ==
  [v EXCEPT !.failures = @ + 1, !.closed = @ \/ v.failures + 1 >= MaxFailures]

\* The end of _record: what the next limited claim sees must include this one.
Admitted(v) == [v EXCEPT !.at = "idle", !.since = -1, !.stale = TRUE]

\* The admission of v is on no counter, and will be on none.
Lost(v) == lost' = IF v.since = window.id THEN lost + 1 ELSE lost

RunsUncounted(w, v) ==
  /\ Becomes(w, Admitted(Unrecorded(v)))
  /\ Lost(v)
  /\ UNCHANGED <<window, admitted>>

\* A statement fails: before the claim the pass is skipped and its view is still
\* due, after it the count is lost.
Raises(w) ==
  /\ errors < MaxErrors /\ errors' = errors + 1
  /\ worker[w].at \in {"select", "seed", "roll", "count running", "count"}
  /\ LET v == worker[w]
     IN  IF v.since # -1
         THEN RunsUncounted(w, v)
         ELSE /\ Becomes(w, [v EXCEPT !.at = "idle", !.due = @ \/ v.at = "count running",
                                      !.stale = @ \/ v.at # "count running"])
              /\ UNCHANGED Row
  /\ UNCHANGED Rest
-----------------------------------------------------------------------------
(* _read_windows, before a claim or in the middle of a count.              *)

\* The view that a read of the row gives.
Seen(v, id, used) ==
  [v EXCEPT !.id = id, !.blocked = used >= Limit \/ v.closed, !.stale = FALSE]

\* Back to what the read was for: at the last try, the loop of _count is over.
Return(w, v) ==
  \/ /\ v.back = "claim"
     /\ \E next \in ToRunning(v) : Becomes(w, next)
     /\ UNCHANGED <<admitted, lost>>
  \/ /\ v.back = "count" /\ v.tries < Tries
     /\ Becomes(w, [v EXCEPT !.at = "count"])
     /\ UNCHANGED <<admitted, lost>>
  \/ /\ v.back = "count" /\ v.tries = Tries
     /\ RunsUncounted(w, v)

\* A closed limit is probed first: a write that lands reopens it.
Probed(v) == {v} \cup (IF v.closed THEN {[v EXCEPT !.closed = FALSE, !.failures = 0]}
                                   ELSE {})

Select(w) ==
  /\ At(w, "select")
  /\ \E v \in Probed(worker[w]) :
       \/ /\ window.id = -1
          /\ Becomes(w, [v EXCEPT !.at = "seed"]) /\ UNCHANGED <<admitted, lost>>
       \/ /\ window.id # -1 /\ window.expired
          /\ Becomes(w, [Seen(v, window.id, window.used) EXCEPT !.at = "roll"])
          /\ UNCHANGED <<admitted, lost>>
       \/ /\ window.id # -1 /\ ~window.expired
          /\ Return(w, Seen(v, window.id, window.used))
  /\ UNCHANGED <<window, Rest, errors>>

\* The loser of the race takes the winner's row.
Seed(w) ==
  /\ At(w, "seed")
  /\ window' = IF window.id = -1 THEN [NoWindow EXCEPT !.id = 0] ELSE window
  /\ Becomes(w, [worker[w] EXCEPT !.at = "select"])
  /\ UNCHANGED <<admitted, lost, Rest, errors>>

\* The compare-and-set of _roll.
WinsRoll(w) == window.expired /\ window.id = worker[w].id

\* _roll: whoever moves the window's number opens the next one; the admissions
\* of this one are over, that of its own last claim too.
Opens(w) ==
  /\ WinsRoll(w)
  /\ window' = [id |-> window.id + 1, used |-> 0, expired |-> FALSE]
  /\ admitted' = 0 /\ lost' = 0
  /\ LET v == Seen(worker[w], window.id + 1, 0)
     IN  \/ /\ v.back = "claim" /\ \E next \in ToRunning(v) : Becomes(w, next)
         \/ /\ v.back = "count" /\ v.tries < Tries /\ Becomes(w, [v EXCEPT !.at = "count"])
         \/ /\ v.back = "count" /\ v.tries = Tries
            /\ Becomes(w, Admitted(Unrecorded(v)))

Roll(w) ==
  /\ At(w, "roll")
  /\ \/ Opens(w)
     \/ ~WinsRoll(w) /\ Return(w, worker[w]) /\ UNCHANGED window
  /\ UNCHANGED <<Rest, errors>>
-----------------------------------------------------------------------------
(* _read_running.                                                          *)

\* The flag goes first: a mark that comes while the rows are counted stays.
Clear(w) ==
  /\ At(w, "clear")
  /\ Becomes(w, [worker[w] EXCEPT !.at = "count running", !.due = FALSE])
  /\ UNCHANGED <<Row, Rest, errors>>

\* The count itself, over the rows of every worker; what it sees is settled here.
CountRunning(w) ==
  /\ At(w, "count running")
  /\ Becomes(w, [worker[w] EXCEPT !.at = "apply", !.freed = FALSE,
                                  !.full = AllRunning >= MaxRunning])
  /\ UNCHANGED <<Row, Rest, errors>>

Applied(v) == [v EXCEPT !.at = "claim"]

Apply(w) ==
  /\ At(w, "apply")
  /\ Becomes(w, Applied(worker[w]))
  /\ UNCHANGED <<Row, Rest, errors>>
-----------------------------------------------------------------------------
(* The claim, and what is written of it.                                   *)

\* claim_one of django-ox, under the exclusions: there may be nothing to claim.
Claim(w) ==
  /\ At(w, "claim")
  /\ \/ /\ ~worker[w].blocked /\ ~worker[w].full /\ running[w] + marks[w] < Concurrency
        /\ Becomes(w, [worker[w] EXCEPT !.at = "record", !.since = window.id])
        /\ running' = IF "running" \in limits THEN [running EXCEPT ![w] = @ + 1] ELSE running
        /\ admitted' = IF "rate" \in limits THEN admitted + 1 ELSE admitted
     \/ /\ Becomes(w, [worker[w] EXCEPT !.at = "idle"])
        /\ UNCHANGED <<running, admitted>>
  /\ UNCHANGED <<limits, window, lost, abandoned, marks, deaths, errors>>

\* Fault: no covered claim marks the view.
Recorded_ViewKept(v) == [v EXCEPT !.at = "count", !.tries = 0]

\* The head of _record: the next covered claim must see this row.
Recorded(v) == [v EXCEPT !.at = "count", !.tries = 0, !.due = TRUE]

Record(w) ==
  /\ At(w, "record")
  /\ Becomes(w, Recorded(worker[w]))
  /\ UNCHANGED <<Row, Rest, errors>>

\* _count: never a gate, and on the window it last read.
Count(w) ==
  /\ At(w, "count")
  /\ LET v == worker[w]
     IN  \/ /\ "rate" \notin limits
            /\ Becomes(w, Admitted(v)) /\ UNCHANGED window
         \/ /\ "rate" \in limits /\ window.id = v.id
            /\ window' = [window EXCEPT !.used = @ + 1]
            /\ Becomes(w, Admitted([v EXCEPT !.failures = 0]))
         \/ /\ "rate" \in limits /\ window.id # v.id
            /\ Becomes(w, [v EXCEPT !.at = "select", !.back = "count", !.tries = @ + 1])
            /\ UNCHANGED window
  /\ UNCHANGED <<admitted, lost, Rest, errors>>

\* _write_outcome on a pool thread: the row leaves RUNNING, then the view is marked.
Finish(w) ==
  /\ running[w] > 0
  /\ running' = [running EXCEPT ![w] = @ - 1]
  /\ marks' = [marks EXCEPT ![w] = @ + 1]
  /\ UNCHANGED <<Row, limits, worker, abandoned, errors, deaths>>

Mark(w) ==
  /\ marks[w] > 0
  /\ marks' = [marks EXCEPT ![w] = @ - 1]
  /\ Becomes(w, [worker[w] EXCEPT !.due = TRUE, !.freed = TRUE])
  /\ UNCHANGED <<Row, limits, running, abandoned, errors, deaths>>

\* reap, between two claims.
Reap(w) ==
  /\ At(w, "idle") /\ abandoned > 0
  /\ abandoned' = abandoned - 1
  /\ Becomes(w, [worker[w] EXCEPT !.due = TRUE, !.freed = TRUE])
  /\ UNCHANGED <<Row, limits, running, marks, errors, deaths>>

\* A worker is killed, and another is started for it.
Die(w) ==
  /\ deaths < MaxDeaths /\ deaths' = deaths + 1
  /\ Becomes(w, NewWorker)
  /\ abandoned' = abandoned + running[w]
  /\ running' = [running EXCEPT ![w] = 0] /\ marks' = [marks EXCEPT ![w] = 0]
  /\ IF worker[w].since # -1 THEN Lost(worker[w]) ELSE UNCHANGED lost
  /\ UNCHANGED <<limits, window, admitted, errors>>

\* The database's clock is past the end of the window.
Expire ==
  /\ window.id \in 0 .. LastWindow - 1 /\ ~window.expired
  /\ window' = [window EXCEPT !.expired = TRUE]
  /\ UNCHANGED <<limits, worker, running, abandoned, marks, admitted, lost, errors, deaths>>

Next ==
  \/ Expire
  \/ \E w \in Workers :
       \/ Begin(w) \/ Raises(w) \/ Select(w) \/ Seed(w) \/ Roll(w)
       \/ Clear(w) \/ CountRunning(w) \/ Apply(w)
       \/ Claim(w) \/ Record(w) \/ Count(w)
       \/ Finish(w) \/ Mark(w) \/ Reap(w) \/ Die(w)

Spec == Init /\ [][Next]_vars
-----------------------------------------------------------------------------
(* The bounds the limits are documented with.                              *)

\* rate_limits: a window admits its limit, one more per other worker that claimed
\* before it looked again, and those that could not be counted; of these no worker
\* has more than MAX_COUNT_FAILURES in a row.
RateOvershootIsBounded ==
  /\ admitted <= Limit + (Cardinality(Workers) - 1) + lost
  /\ \A w \in Workers : worker[w].failures <= MaxFailures

\* concurrency_limits: the ceiling is max + W - 1, also with workers that die,
\* whose rows are RUNNING until a reaper takes them.
ConcurrencyOvershootIsBounded ==
  AllRunning <= IF MaxRunning = 0 THEN 0 ELSE MaxRunning + Cardinality(Workers) - 1

\* _read_running clears its flag before the count: a slot that came free during or
\* after a count has the next pass count again, whatever the timer says.
FreedSlotsAreSeen ==
  \A w \in Workers : worker[w].freed /\ worker[w].at \in {"idle", "select"} => worker[w].due
=============================================================================
