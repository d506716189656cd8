-------------------------------- MODULE Prune --------------------------------
(***************************************************************************)
(* ox_prune, statement by statement, beside other runs of it, an operator  *)
(* who moves rows in bulk, a worker that dispatches, and repairs of ticks  *)
(* by hand.  A behaviour prunes finished tasks, or the ticks of one        *)
(* schedule, or purges the schedule's ticks that cannot be read.           *)
(*                                                                         *)
(* Left out: what is told to the operator, and a purge beside a prune,     *)
(* whose paging by offset it would move (see the README).                  *)
(***************************************************************************)
EXTENDS Naturals, FiniteSets, FiniteSetsExt

CONSTANTS
  Runs,          \* the commands that may run at one time
  Operator,      \* a bulk action
  Keys,           \* primary keys, 1 .. n
  Cutoff,        \* the instants before it are pruned; they are 1 .. n too
  batch_size, ATTEMPTS,
  MaxFailures    \* bound: batches that lose a conflict

\* Keys are numbers; batches are tried; the bulk action is no prune.
Parameters ==
  /\ IsFiniteSet(Keys) /\ Keys = 1 .. Cardinality(Keys)
  /\ {batch_size, ATTEMPTS, MaxFailures} \subseteq Nat /\ ATTEMPTS > 0
  /\ Operator \notin Runs

VARIABLES
  kind,      \* "tasks", "ticks" or "purge"
  rowLocks,  \* the database locks rows; without it a writer locks all
  row,       \* the committed rows
  instant,   \* of each tick, as the database orders them
  proc,      \* per command, where it is
  failures,
  taker      \* of a row that is gone, the command that counted it (no part of the code)

prune == <<kind, rowLocks, row, instant, proc, failures, taker>>
-----------------------------------------------------------------------------
Unknown == 0
Procs == Runs \cup {Operator}
NoOne == Operator

\* after, anchor, seen: of a tick prune, the key paged up to, the schedule's kept
\* tick, and whether that was looked up.  rows: what a batch read.  todo, held: what
\* is still to lock, and is locked.  deleted: rows counted.
Idle == [at |-> "idle", after |-> 0, anchor |-> Unknown, seen |-> FALSE, rows |-> {},
         reads |-> {}, doomed |-> {}, todo |-> {}, held |-> {}, tries |-> 0, deleted |-> 0]

Proc ==
  [at : {"idle", "anchor", "page", "missing", "older", "newest", "delete", "locking",
         "done", "stopped"},
   after : Keys \cup {0}, anchor : Keys \cup {Unknown}, seen : BOOLEAN,
   rows : SUBSET Keys, reads : SUBSET Keys, doomed : SUBSET Keys, todo : SUBSET Keys,
   held : SUBSET Keys, tries : 0 .. ATTEMPTS, deleted : 0 .. Cardinality(Keys)]

TypeOK ==
  /\ kind \in {"tasks", "ticks", "purge"} /\ rowLocks \in BOOLEAN
  /\ row \in [Keys -> {"prunable", "kept", "absent", "reads", "unreadable", "gone"}]
  /\ instant \in [Keys -> Keys] /\ proc \in [Procs -> Proc]
  /\ failures \in 0 .. MaxFailures /\ taker \in [Keys -> Procs]

\* A tick is any instant's, since a first dispatch may be of one that is long past.
Init ==
  /\ kind \in {"tasks", "ticks", "purge"} /\ rowLocks \in BOOLEAN
  /\ row \in [Keys -> CASE kind = "tasks" -> {"prunable", "kept"}
                       [] kind = "ticks" -> {"absent", "reads", "unreadable"}
                       [] kind = "purge" -> {"reads", "unreadable"}]
  /\ \A p \in Keys, q \in Keys : p < q /\ row[p] = "absent" => row[q] = "absent"
  /\ instant \in Injection(Keys, Keys)
  /\ kind = "ticks" \/ instant = [p \in Keys |-> p]
  /\ proc = [p \in Procs |-> Idle] /\ failures = 0 /\ taker = [k \in Keys |-> NoOne]

Becomes(p, next) == proc' = [proc EXCEPT ![p] = next]

There == {p \in Keys : row[p] \notin {"absent", "gone"}}
Of(status) == {p \in Keys : row[p] = status}
FirstOf(ps) == {p \in ps : Cardinality({q \in ps : q < p}) < batch_size}

Takes(r, ks) ==
  /\ row' = [k \in Keys |-> IF k \in ks THEN "gone" ELSE row[k]]
  /\ taker' = [k \in Keys |-> IF k \in ks THEN r ELSE taker[k]]
-----------------------------------------------------------------------------
(* Batches that lock their rows, in key order, and read them again.        *)

Holders == {p \in Procs : proc[p].held # {}}

\* p's next row is locked by q, or the database is.
WaitsFor(p, q) ==
  /\ p # q /\ proc[p].at = "locking" /\ proc[p].todo # {}
  /\ \E k \in {i \in proc[p].todo : \A j \in proc[p].todo : i <= j} :
       IF rowLocks THEN k \in proc[q].held ELSE proc[q].held # {}

NextToLock(p) == {k \in proc[p].todo : \A j \in proc[p].todo : k <= j}

Free(p, k) == \A q \in Procs \ {p} : IF rowLocks THEN k \notin proc[q].held ELSE proc[q].held = {}

Lock(p) ==
  /\ proc[p].at = "locking"
  /\ \E k \in NextToLock(p) :
       /\ Free(p, k)
       /\ Becomes(p, [proc[p] EXCEPT !.todo = @ \ {k}, !.held = @ \cup {k}])
  /\ UNCHANGED <<kind, rowLocks, row, instant, failures, taker>>

\* The candidates, in no order.
Select(r) ==
  /\ kind = "tasks" /\ proc[r].at = "idle"
  /\ \E ks \in SUBSET Of("prunable") :
       /\ Cardinality(ks) = (IF Cardinality(Of("prunable")) < batch_size
                             THEN Cardinality(Of("prunable")) ELSE batch_size)
       /\ Becomes(r, IF ks = {} THEN [proc[r] EXCEPT !.at = "done"]
                     ELSE [proc[r] EXCEPT !.at = "locking", !.rows = ks, !.todo = ks, !.tries = 1])
  /\ UNCHANGED <<kind, rowLocks, row, instant, failures, taker>>

\* What a named schedule's pages held that did not read, a chunk at a time.
Find(r) ==
  /\ kind = "purge" /\ proc[r].at = "idle"
  /\ LET found == Of("unreadable") IN
     Becomes(r, IF found = {} THEN [proc[r] EXCEPT !.at = "done"]
                ELSE [proc[r] EXCEPT !.at = "locking", !.rows = found \ FirstOf(found),
                                     !.todo = FirstOf(found)])
  /\ UNCHANGED <<kind, rowLocks, row, instant, failures, taker>>

\* Of the rows that are locked, those that may still go.
StillDoomed(r) == proc[r].held \cap Of(IF kind = "tasks" THEN "prunable" ELSE "unreadable")

Locked(r) == proc[r].at = "locking" /\ proc[r].todo = {} /\ proc[r].held # {}

\* The batch commits, and is counted.
DeleteBatch(r) ==
  LET v == proc[r]
      gone == StillDoomed(r)
      next == [v EXCEPT !.held = {}, !.deleted = @ + Cardinality(gone)]
  IN  /\ Locked(r)
      /\ Takes(r, gone)
      /\ Becomes(r, IF kind = "tasks" THEN [next EXCEPT !.at = "idle", !.rows = {}, !.tries = 0]
                    ELSE IF v.rows = {} THEN [next EXCEPT !.at = "done"]
                    ELSE [next EXCEPT !.todo = FirstOf(v.rows), !.rows = @ \ FirstOf(@)])
      /\ UNCHANGED <<kind, rowLocks, instant, failures>>

\* A deadlock elsewhere, or a serialization failure: a task batch runs again, from
\* its candidates, and the last time stops the command.  A purge stops at once.
LosesConflict(r) ==
  LET v == proc[r] IN
  /\ v.at = "locking" /\ failures < MaxFailures /\ failures' = failures + 1
  /\ Becomes(r, IF kind = "tasks" /\ v.tries < ATTEMPTS
                THEN [v EXCEPT !.held = {}, !.todo = v.rows, !.tries = @ + 1]
                ELSE [v EXCEPT !.at = "stopped", !.held = {}, !.todo = {}])
  /\ UNCHANGED <<kind, rowLocks, row, instant, taker>>

\* A bulk action: every row it is given, in key order; it moves those it may.
BeginMove ==
  /\ kind = "tasks" /\ proc[Operator].at = "idle"
  /\ \E ks \in SUBSET Keys \ {{}} : Becomes(Operator, [Idle EXCEPT !.at = "locking", !.todo = ks])
  /\ UNCHANGED <<kind, rowLocks, row, instant, failures, taker>>

Move ==
  /\ Locked(Operator)
  /\ row' = [k \in Keys |-> IF k \in proc[Operator].held \cap Of("prunable") THEN "kept" ELSE row[k]]
  /\ Becomes(Operator, [Idle EXCEPT !.at = "done"])
  /\ UNCHANGED <<kind, rowLocks, instant, failures, taker>>
-----------------------------------------------------------------------------
(* Ticks, which are read a page at a time and locked by none.              *)

NewestOf(ps) == {p \in ps : \A q \in ps : instant[q] <= instant[p]}

\* The schedule's newest tick that reads; none, if there is none.
NewestReadable == IF Of("reads") = {} THEN {Unknown} ELSE NewestOf(Of("reads"))

\* The keys there are, and each one's anchor.
ReadKeys(r) ==
  /\ kind = "ticks" /\ proc[r].at = "idle"
  /\ Becomes(r, [proc[r] EXCEPT !.at = IF There = {} THEN "page" ELSE "anchor"])
  /\ UNCHANGED <<kind, rowLocks, row, instant, failures, taker>>

LookUp(r) ==
  /\ proc[r].at \in {"anchor", "missing"}
  /\ \E k \in NewestReadable :
       Becomes(r, [proc[r] EXCEPT !.at = IF @ = "anchor" THEN "page" ELSE "older",
                                  !.anchor = k,
                                  !.seen = k # Unknown \/ proc[r].at = "missing"])
  /\ UNCHANGED <<kind, rowLocks, row, instant, failures, taker>>

\* A page in key order.  A key that the first read did not return is looked up now.
ReadPage(r) ==
  LET page == FirstOf({k \in There : instant[k] < Cutoff /\ proc[r].after < k})
      reads == page \cap Of("reads")
  IN  /\ kind = "ticks" /\ proc[r].at = "page"
      /\ Becomes(r, IF page = {} THEN [proc[r] EXCEPT !.at = "done"]
                    ELSE [proc[r] EXCEPT
                            !.rows = page, !.reads = reads,
                            !.after = CHOOSE k \in page : \A j \in page : j <= k,
                            !.at = IF reads = {} \/ proc[r].seen THEN "older" ELSE "missing"])
      /\ UNCHANGED <<kind, rowLocks, row, instant, failures, taker>>

\* Those that are not the anchor and do not sort before it, if it is still there.
Unanswered(r) ==
  LET v == proc[r] IN
  {k \in v.reads \ {v.anchor} :
     ~(v.anchor \in There /\ k \in There /\ instant[k] < instant[v.anchor])}

AskOlder(r) ==
  /\ proc[r].at = "older"
  /\ Becomes(r, [proc[r] EXCEPT !.at = "newest", !.reads = Unanswered(r),
                                !.doomed = proc[r].reads \ ({proc[r].anchor} \cup Unanswered(r))])
  /\ UNCHANGED <<kind, rowLocks, row, instant, failures, taker>>

\* Fault: what was dispatched since the anchor was looked up is not asked about.
NewestNow_Unasked(r) == {}

NewestNow(r) == proc[r].reads \cap NewestOf(There)

AskNewest(r) ==
  /\ proc[r].at = "newest"
  /\ Becomes(r, [proc[r] EXCEPT !.at = "delete", !.doomed = @ \cup (proc[r].reads \ NewestNow(r))])
  /\ UNCHANGED <<kind, rowLocks, row, instant, failures, taker>>

\* In autocommit, by key alone.  A page that was not full is the last.
DeleteTicks(r) ==
  LET v == proc[r]
      gone == v.doomed \cap There
  IN  /\ v.at = "delete"
      /\ Takes(r, gone)
      /\ Becomes(r, [v EXCEPT !.at = IF Cardinality(v.rows) < batch_size THEN "done" ELSE "page",
                              !.rows = {}, !.reads = {}, !.doomed = {},
                              !.deleted = @ + Cardinality(gone)])
      /\ UNCHANGED <<kind, rowLocks, instant, failures>>
-----------------------------------------------------------------------------
(* What others do.                                                         *)

\* A tick is dispatched, unless the newest does not read; keys grow.
Dispatch ==
  /\ kind = "ticks" /\ NewestOf(There) \cap Of("unreadable") = {}
  /\ \E k \in Of("absent") :
       /\ \A j \in Of("absent") : k <= j
       /\ row' = [row EXCEPT ![k] = "reads"]
  /\ UNCHANGED <<kind, rowLocks, instant, proc, failures, taker>>

\* A tick that could not be read is repaired by hand.  Beside a prune, from the newest
\* down: one that is repaired below a tick that does not read is not safe from it.
Repair ==
  /\ \E k \in Of("unreadable") :
       /\ kind = "ticks" => \A q \in Of("unreadable") : instant[q] <= instant[k]
       /\ \A p \in Procs : Free(p, k) /\ k \notin proc[p].held
       /\ row' = [row EXCEPT ![k] = "reads"]
  /\ UNCHANGED <<kind, rowLocks, instant, proc, failures, taker>>

CommandStep(r) ==
  \/ Select(r) \/ Find(r) \/ DeleteBatch(r) \/ LosesConflict(r)
  \/ ReadKeys(r) \/ LookUp(r) \/ ReadPage(r) \/ AskOlder(r) \/ AskNewest(r) \/ DeleteTicks(r)

Next ==
  \/ \E r \in Runs : CommandStep(r)
  \/ \E p \in Procs : Lock(p)
  \/ BeginMove \/ Move \/ Dispatch \/ Repair

Spec == Init /\ [][Next]_prune
-----------------------------------------------------------------------------
Goes(k) == row[k] # "gone" /\ row'[k] = "gone"

\* A task goes while it is prunable, a tick that a purge takes while it does not read.
OnlyTheDoomedGo ==
  \A k \in Keys : Goes(k) /\ kind # "ticks" => row[k] = IF kind = "tasks" THEN "prunable" ELSE "unreadable"

\* Pruning takes no tick that does not read.
UnreadableTicksStay == \A k \in Keys : Goes(k) /\ kind = "ticks" => row[k] = "reads"

\* Nor a schedule's newest that reads.
NewestReadableStays ==
  \A k \in Keys : Goes(k) /\ kind = "ticks" =>
    \E q \in Keys : row'[q] = "reads" /\ instant[k] < instant[q]

\* No two wait for each other: all lock in key order.
NoCircle == ~\E p, q \in Procs : WaitsFor(p, q) /\ WaitsFor(q, p)

\* A batch that ran twice is counted once, and no row by two commands.
Counted(r) == {k \in Of("gone") : taker[k] = r}

CountsWhatWent ==
  /\ \A k \in Of("gone") : taker[k] \in Runs
  /\ \A r \in Runs : proc[r].deleted = Cardinality(Counted(r))

TakesWhatItMay ==
  OnlyTheDoomedGo /\ UnreadableTicksStay /\ NewestReadableStays /\ NoCircle' /\ CountsWhatWent'

PruningTakesWhatItMay == [][TakesWhatItMay]_prune
=============================================================================
