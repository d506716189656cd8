------------------------------ MODULE TaskLease ------------------------------
(***************************************************************************)
(* The lease on a task row of django_ox: claims, executions, outcome       *)
(* writes, renewal, the reaper, the timeout backstop's handover, the       *)
(* operator actions and the waiting rows, over one database table shared   *)
(* by every worker.  A statement of the database is one step; everything   *)
(* the code holds between two statements (a row it read, an execution, a   *)
(* decision) is state of the process that holds it and may be stale.       *)
(***************************************************************************)
EXTENDS Naturals, Sequences, FiniteSets

CONSTANTS
  Tasks,            \* primary keys of ox_task rows
  Workers,          \* worker ids: one per worker process, never reused
  Mortal,           \* the workers that may die without a word
  Callers,          \* threads that call django_ox.actions and _waiting
  CallerOps,        \* which of their operations the callers use
  NoWorker,         \* locked_by IS NULL
  Budgets,          \* values of max_attempts a row may be inserted with
  AttemptsLimit,    \* MAX_ATTEMPTS_LIMIT, the most the attempts column holds
  ClaimBatch,       \* CLAIM_BATCH_SIZE
  ReapBatch,        \* reap_batch
  SkipLocked,       \* has_select_for_update_skip_locked: PostgreSQL, MySQL
  EpochBound        \* bound: no retry or revival of a row at this epoch

Ops == {"retry", "discard", "release", "cancel", "revive"}

ASSUME LeaseAssumption ==
  /\ NoWorker \notin Workers
  /\ Mortal \subseteq Workers
  /\ CallerOps \subseteq Ops
  /\ Budgets \subseteq Nat \ {0}
  /\ AttemptsLimit \in Nat
  /\ ClaimBatch \in Nat
  /\ ReapBatch \in Nat
  /\ SkipLocked \in BOOLEAN
  /\ EpochBound \in Nat

VARIABLES
  row,        \* the table
  execs,      \* executions: claims that returned and have not ended
  releases,   \* stuck attempts the watchdog has still to record
  main,       \* what each worker's run loop is in the middle of
  calls,      \* what each caller has read and not yet written
  alive       \* the workers whose process is running

vars == <<row, execs, releases, main, calls, alive>>
-----------------------------------------------------------------------------
(* The row, and what processes keep of one.                                *)

Statuses == {"READY", "RUNNING", "FAILED", "SUCCESSFUL", "LOST", "DISCARDED",
             "WAITING"}

WRITABLE_STATUSES == {"RUNNING", "LOST"}
RETRYABLE_STATUSES == {"FAILED", "LOST"}

\* Fault: an operator may close what is still running.
DISCARDABLE_WithRunning == {"READY", "RUNNING", "FAILED", "LOST", "WAITING"}

DISCARDABLE_STATUSES == {"READY", "FAILED", "LOST", "WAITING"}

Error == [kind : {"raised", "stuck", "abandoned"}, attempt : Nat]

\* A lease is "held" until its expiry passes, "expired" until somebody acts.
\* due: run_after has passed.  return_value names the execution that computed
\* it, by worker and attempt number, and is <<>> until there is one.
Row == [status       : Statuses,
        due          : BOOLEAN,
        attempts     : Nat,
        max_attempts : Nat,
        worker_ids   : Seq(Workers),
        errors       : Seq(Error),
        locked_by    : Workers \cup {NoWorker},
        lease        : {"none", "held", "expired"},
        lease_epoch  : Nat,
        return_value : {<<>>} \cup (Workers \X Nat)]

Snapshot == [task : Tasks, row : Row]

\* phase: registered by the claim, in flight, or past its timeout's grace.
Execution == [task : Tasks, worker : Workers, row : Row,
              phase : {"handed_off", "in_flight", "stuck"}]

Release == [task : Tasks, worker : Workers, row : Row]

\* Where a run loop is: between statements of no operation, holding candidate
\* rows of a claim, having claimed but not read back, or holding the exhausted
\* rows of a reap.
Idle == [at |-> "idle", seen |-> {}, granted |-> <<>>]
Claiming(S) == [at |-> "claiming", seen |-> S, granted |-> <<>>]
Reloading(S, t, epoch) ==
  [at |-> "reloading", seen |-> S, granted |-> <<t, epoch>>]
Abandoning(S) == [at |-> "abandoning", seen |-> S, granted |-> <<>>]

Loop == [at : {"idle", "claiming", "reloading", "abandoning"},
         seen : SUBSET Snapshot,
         granted : {<<>>} \cup (Tasks \X Nat)]

NoCall == [op |-> "none"]
Call == {NoCall} \cup
        [op : CallerOps, task : Tasks, epoch : Nat, attempts : Nat]

TypeOK ==
  /\ row \in [Tasks -> Row]
  /\ execs \subseteq Execution
  /\ releases \subseteq Release
  /\ main \in [Workers -> Loop]
  /\ calls \in [Callers -> Call]
  /\ alive \subseteq Workers
-----------------------------------------------------------------------------
(* The SET clause of each UPDATE, as a function of the row it matches.     *)
(* A definition marked Fault is no part of the specification: it is a      *)
(* mistake the definition after it could have been written with, kept to   *)
(* show that the properties notice.                                        *)

Inserted(budget, status) ==
  [status |-> status, due |-> TRUE, attempts |-> 0, max_attempts |-> budget,
   worker_ids |-> <<>>, errors |-> <<>>, locked_by |-> NoWorker,
   lease |-> "none", lease_epoch |-> 0, return_value |-> <<>>]

Unlocked(r) == [r EXCEPT !.locked_by = NoWorker, !.lease = "none"]

\* Every literal comes from the candidate the claimer read, not from the row.
Claimed(r, candidate, w) ==
  [r EXCEPT !.status = "RUNNING",
            !.locked_by = w,
            !.lease = "held",
            !.lease_epoch = candidate.lease_epoch + 1,
            !.attempts = candidate.attempts + 1,
            !.worker_ids = Append(candidate.worker_ids, w)]

\* Fault: success leaves the errors the row holds now.
Succeeded_KeepsErrors(r, x) ==
  [Unlocked(r) EXCEPT !.status = "SUCCESSFUL",
                      !.return_value = <<x.worker, x.row.attempts>>]

\* errors is the list the execution was claimed with: a lost-lease note the
\* reaper wrote meanwhile goes.
Succeeded(r, x) ==
  [Unlocked(r) EXCEPT !.status = "SUCCESSFUL",
                      !.return_value = <<x.worker, x.row.attempts>>,
                      !.errors = x.row.errors]

WithError(r, x, kind) ==
  [Unlocked(r) EXCEPT
     !.errors = Append(x.row.errors, [kind |-> kind, attempt |-> x.row.attempts])]

\* A task's backoff may answer that there is to be no other attempt.  The watchdog
\* does not ask it.
MayDecline(kind) == kind # "stuck"

\* The rows a failed attempt may leave: a retry while the attempts it was
\* claimed with are not spent, unless the backoff declines one.
FailureRows(r, x, kind) ==
  LET failed == WithError(r, x, kind)
      retry  == [failed EXCEPT !.status = "READY", !.due = FALSE]
      final  == [failed EXCEPT !.status = "FAILED"]
  IN  IF x.row.attempts < x.row.max_attempts
      THEN IF MayDecline(kind) THEN {retry, final} ELSE {retry}
      ELSE {final}

Requeued(r) ==
  [Unlocked(r) EXCEPT !.status = "READY", !.lease_epoch = @ + 1]

Abandoned(r, seen) ==
  [Unlocked(r) EXCEPT
     !.status = "LOST",
     !.errors = Append(seen.errors, [kind |-> "abandoned", attempt |-> seen.attempts])]

\* Fault: a retry does not raise the budget.
Retried_SameBudget(r, epoch, attempts) ==
  [Unlocked(r) EXCEPT !.status = "READY", !.due = TRUE, !.lease_epoch = epoch + 1]

Retried(r, epoch, attempts) ==
  [Unlocked(r) EXCEPT !.status = "READY", !.due = TRUE,
                      !.lease_epoch = epoch + 1,
                      !.max_attempts = attempts + 1]

Discarded(r) == [Unlocked(r) EXCEPT !.status = "DISCARDED"]
Released(r) == [r EXCEPT !.status = "READY"]

Revived(r) == [r EXCEPT !.status = "WAITING", !.lease_epoch = @ + 1]
-----------------------------------------------------------------------------
(* Claiming.                                                               *)

Claimable(t) == row[t].status = "READY" /\ row[t].due

\* The first n rows of a query, or all of fewer.  The order is abstracted: any
\* n of them may be the first.
FirstOf(S, n) == {F \in SUBSET S : F # {} /\ (F = S \/ Cardinality(F) = n)
                                          /\ Cardinality(F) <= n}

\* Fault: the claim trusts the status alone.
StillAsRead_StatusOnly(c) == row[c.task].status = "READY"

\* The compare-and-set of the optimistic claim.
StillAsRead(c) ==
  /\ row[c.task].status = "READY"
  /\ row[c.task].attempts = c.row.attempts
  /\ row[c.task].lease_epoch = c.row.lease_epoch

HandedOff(t, w, r) == [task |-> t, worker |-> w, row |-> r, phase |-> "handed_off"]

Carry(S) == IF S = {} THEN Idle ELSE Claiming(S)

\* PostgreSQL's single UPDATE ... RETURNING, and the SKIP LOCKED transaction:
\* the row is locked from the read to the read-back.
ClaimLocked(w, t) ==
  /\ SkipLocked
  /\ w \in alive
  /\ main[w] = Idle
  /\ Claimable(t)
  /\ LET claimed == Claimed(row[t], row[t], w) IN
       /\ row' = [row EXCEPT ![t] = claimed]
       /\ execs' = execs \cup {HandedOff(t, w, claimed)}
  /\ UNCHANGED <<releases, main, calls, alive>>

\* Optimistic claim, first statement: read the first CLAIM_BATCH_SIZE due
\* rows.
ReadCandidates(w) ==
  /\ ~SkipLocked
  /\ w \in alive
  /\ main[w] = Idle
  /\ \E S \in FirstOf({t \in Tasks : Claimable(t)}, ClaimBatch) :
       main' = [main EXCEPT ![w] = Claiming({[task |-> t, row |-> row[t]] : t \in S})]
  /\ UNCHANGED <<row, execs, releases, calls, alive>>

\* Optimistic claim, one UPDATE: it lands and leaves the row to be read back,
\* or another claimer had it and the next candidate is tried.
TryCandidate(w, c) ==
  /\ main[w].at = "claiming"
  /\ c \in main[w].seen
  /\ IF StillAsRead(c)
     THEN /\ row' = [row EXCEPT ![c.task] = Claimed(@, c.row, w)]
          /\ main' = [main EXCEPT ![w] = Reloading(main[w].seen \ {c}, c.task,
                                                   c.row.lease_epoch + 1)]
     ELSE /\ main' = [main EXCEPT ![w] = Carry(main[w].seen \ {c})]
          /\ UNCHANGED row
  /\ UNCHANGED <<execs, releases, calls, alive>>

\* Optimistic claim, the read-back, pinned to the epoch that was granted.
ReloadClaimed(w) ==
  /\ main[w].at = "reloading"
  /\ LET t == main[w].granted[1]
         epoch == main[w].granted[2]
     IN  IF row[t].lease_epoch = epoch
         THEN /\ execs' = execs \cup {HandedOff(t, w, row[t])}
              /\ main' = [main EXCEPT ![w] = Idle]
         ELSE /\ main' = [main EXCEPT ![w] = Carry(main[w].seen)]
              /\ UNCHANGED execs
  /\ UNCHANGED <<row, releases, calls, alive>>
-----------------------------------------------------------------------------
(* Executing.                                                              *)

StartExecution(x) ==
  /\ x.phase = "handed_off"
  /\ execs' = (execs \ {x}) \cup {[x EXCEPT !.phase = "in_flight"]}
  /\ UNCHANGED <<row, releases, main, calls, alive>>

\* Fault: any running row takes the write.
HoldsTheLease_StatusOnly(x) == row[x.task].status \in WRITABLE_STATUSES

\* The fence of every outcome write.
HoldsTheLease(x) ==
  /\ row[x.task].lease_epoch = x.row.lease_epoch
  /\ row[x.task].status \in WRITABLE_STATUSES

WriteOutcome(x, written) ==
  row' = IF HoldsTheLease(x) THEN [row EXCEPT ![x.task] = written] ELSE row

\* The body returned: one write, and the execution ends whether it landed.
Succeed(x) ==
  /\ x.phase # "handed_off"
  /\ WriteOutcome(x, Succeeded(row[x.task], x))
  /\ execs' = execs \ {x}
  /\ UNCHANGED <<releases, main, calls, alive>>

\* The body raised.
Fail(x) ==
  /\ x.phase # "handed_off"
  /\ \E written \in FailureRows(row[x.task], x, "raised") : WriteOutcome(x, written)
  /\ execs' = execs \ {x}
  /\ UNCHANGED <<releases, main, calls, alive>>

\* The write raised, or an inline caller's own interrupt ended the attempt.
EndUnrecorded(x) ==
  /\ x.phase # "handed_off"
  /\ execs' = execs \ {x}
  /\ UNCHANGED <<row, releases, main, calls, alive>>

\* The watchdog's backstop: the attempt leaves the in-flight set, its thread
\* runs on, and the watchdog holds its own copy of the claimed row.
GraceEnds(x) ==
  /\ x.phase = "in_flight"
  /\ execs' = (execs \ {x}) \cup {[x EXCEPT !.phase = "stuck"]}
  /\ releases' = releases \cup {[task |-> x.task, worker |-> x.worker, row |-> x.row]}
  /\ UNCHANGED <<row, main, calls, alive>>

\* The watchdog's record, which also moves the epoch; or the record failed.
RecordStuck(x) ==
  /\ \/ \E written \in FailureRows(row[x.task], x, "stuck") :
          WriteOutcome(x, [written EXCEPT !.lease_epoch = x.row.lease_epoch + 1])
     \/ UNCHANGED row
  /\ releases' = releases \ {x}
  /\ UNCHANGED <<execs, main, calls, alive>>
-----------------------------------------------------------------------------
(* Leases and the reaper.                                                  *)

\* Time passes the row's lease_expires_at.
LeaseExpires(t) ==
  /\ row[t].lease = "held"
  /\ row' = [row EXCEPT ![t].lease = "expired"]
  /\ UNCHANGED <<execs, releases, main, calls, alive>>

\* Time passes the row's run_after.
BecomesDue(t) ==
  /\ ~row[t].due
  /\ row' = [row EXCEPT ![t].due = TRUE]
  /\ UNCHANGED <<execs, releases, main, calls, alive>>

\* The rows a renewal by w names: those of its executions in flight.
Renewable(w) == {x.task : x \in {y \in execs : y.worker = w /\ y.phase = "in_flight"}}

Renew(w) ==
  /\ Renewable(w) # {}
  /\ row' = [t \in Tasks |->
               IF t \in Renewable(w) /\ row[t].status = "RUNNING" /\ row[t].locked_by = w
               THEN [row[t] EXCEPT !.lease = "held"] ELSE row[t]]
  /\ UNCHANGED <<execs, releases, main, calls, alive>>

\* Fault: the reaper reads the wrong side of the deadline.
LeaseAbandoned_StillHeld(t) == row[t].status = "RUNNING" /\ row[t].lease = "held"

LeaseAbandoned(t) == row[t].status = "RUNNING" /\ row[t].lease = "expired"

\* One UPDATE, with the whole predicate, over the rows the pass read: those of
\* them whose lease was not renewed since.
RequeueAbandoned(w) ==
  /\ w \in alive
  /\ main[w] = Idle
  /\ \E S \in SUBSET {t \in Tasks : LeaseAbandoned(t)
                                     /\ row[t].attempts < row[t].max_attempts} :
       /\ S # {}
       /\ Cardinality(S) <= ReapBatch
       /\ row' = [t \in Tasks |-> IF t \in S THEN Requeued(row[t]) ELSE row[t]]
  /\ UNCHANGED <<execs, releases, main, calls, alive>>

\* The exhausted rows are read first, up to reap_batch of them...
ReadExhausted(w) ==
  /\ w \in alive
  /\ main[w] = Idle
  /\ \E S \in FirstOf({t \in Tasks : LeaseAbandoned(t)
                                      /\ row[t].attempts >= row[t].max_attempts},
                      ReapBatch) :
       main' = [main EXCEPT ![w] = Abandoning({[task |-> t, row |-> row[t]] : t \in S})]
  /\ UNCHANGED <<row, execs, releases, calls, alive>>

\* ...and written one by one, each pinned to the epoch read and asking again
\* whether the lease is abandoned.
AbandonExhausted(w, c) ==
  /\ main[w].at = "abandoning"
  /\ c \in main[w].seen
  /\ row' = IF /\ LeaseAbandoned(c.task)
               /\ row[c.task].lease_epoch = c.row.lease_epoch
            THEN [row EXCEPT ![c.task] = Abandoned(@, c.row)] ELSE row
  /\ main' = [main EXCEPT ![w] = IF main[w].seen = {c} THEN Idle
                                 ELSE Abandoning(main[w].seen \ {c})]
  /\ UNCHANGED <<execs, releases, calls, alive>>

\* kill -9: everything the process held goes, the table stays.
Crash(w) ==
  /\ w \in alive \cap Mortal
  /\ alive' = alive \ {w}
  /\ execs' = {x \in execs : x.worker # w}
  /\ releases' = {x \in releases : x.worker # w}
  /\ main' = [main EXCEPT ![w] = Idle]
  /\ UNCHANGED <<row, calls>>
-----------------------------------------------------------------------------
(* Operators and callers: each operation reads the row, decides, and later *)
(* writes only if the row is still in a status it accepts at that epoch.   *)

Accepts(op) ==
  CASE op = "retry"   -> RETRYABLE_STATUSES
    [] op = "discard" -> DISCARDABLE_STATUSES
    [] op = "release" -> {"WAITING"}
    [] op = "cancel"  -> {"READY", "WAITING"}
    [] op = "revive"  -> {"DISCARDED"}

Applies(op, r) ==
  /\ r.status \in Accepts(op)
  /\ op = "retry" => r.attempts < AttemptsLimit

Moved(op, r, epoch, attempts) ==
  CASE op = "retry" -> Retried(r, epoch, attempts)
    [] op \in {"discard", "cancel"} -> Discarded(r)
    [] op = "release" -> Released(r)
    [] op = "revive" -> Revived(r)

\* Bound: the operations that reopen a row stop at EpochBound.
WithinBound(op, r) == op \in {"retry", "revive"} => r.lease_epoch < EpochBound

Decide(c, op, t) ==
  /\ calls[c] = NoCall
  /\ op \in CallerOps
  /\ Applies(op, row[t])
  /\ WithinBound(op, row[t])
  /\ calls' = [calls EXCEPT ![c] = [op |-> op, task |-> t,
                                    epoch |-> row[t].lease_epoch,
                                    attempts |-> row[t].attempts]]
  /\ UNCHANGED <<row, execs, releases, main, alive>>

\* Fault: the write asks for the status and not for the epoch it read.
Matches_StatusOnly(d) == Applies(d.op, row[d.task])

Matches(d) == Applies(d.op, row[d.task]) /\ row[d.task].lease_epoch = d.epoch

Apply(c) ==
  /\ calls[c] # NoCall
  /\ LET d == calls[c] IN
       row' = IF Matches(d)
              THEN [row EXCEPT ![d.task] = Moved(d.op, @, d.epoch, d.attempts)]
              ELSE row
  /\ calls' = [calls EXCEPT ![c] = NoCall]
  /\ UNCHANGED <<execs, releases, main, alive>>

\* retry_many and discard_many: one conditional UPDATE, no epoch to pin.
MoveMany(op, S) ==
  /\ op \in CallerOps
  /\ row' = [t \in Tasks |->
               IF t \in S /\ Applies(op, row[t]) /\ WithinBound(op, row[t])
               THEN Moved(op, row[t], row[t].lease_epoch, row[t].attempts)
               ELSE row[t]]
  /\ UNCHANGED <<execs, releases, main, calls, alive>>

ExpireLease(t) ==
  /\ row[t].status = "RUNNING"
  /\ row' = [row EXCEPT ![t].lease = "expired"]
  /\ UNCHANGED <<execs, releases, main, calls, alive>>
-----------------------------------------------------------------------------
Init ==
  /\ \E budget \in [Tasks -> Budgets], status \in [Tasks -> {"READY", "WAITING"}] :
       row = [t \in Tasks |-> Inserted(budget[t], status[t])]
  /\ execs = {}
  /\ releases = {}
  /\ main = [w \in Workers |-> Idle]
  /\ calls = [c \in Callers |-> NoCall]
  /\ alive = Workers

LoopStep(w) ==
  \/ \E t \in Tasks : ClaimLocked(w, t)
  \/ ReadCandidates(w)
  \/ \E c \in main[w].seen : TryCandidate(w, c)
  \/ ReloadClaimed(w)
  \/ RequeueAbandoned(w)
  \/ ReadExhausted(w)
  \/ \E c \in main[w].seen : AbandonExhausted(w, c)

ExecutionStep(x) ==
  StartExecution(x) \/ Succeed(x) \/ Fail(x) \/ EndUnrecorded(x) \/ GraceEnds(x)

CallerStep(c) ==
  Apply(c) \/ \E op \in CallerOps, t \in Tasks : Decide(c, op, t)

Next ==
  \/ \E w \in Workers : LoopStep(w) \/ Renew(w) \/ Crash(w)
  \/ \E x \in execs : ExecutionStep(x)
  \/ \E x \in releases : RecordStuck(x)
  \/ \E t \in Tasks : LeaseExpires(t) \/ BecomesDue(t) \/ ExpireLease(t)
  \/ \E c \in Callers : CallerStep(c)
  \/ \E op \in {"retry", "discard"}, S \in SUBSET Tasks : MoveMany(op, S)

Spec == Init /\ [][Next]_vars
-----------------------------------------------------------------------------
(* What the code's scheduling promises, for liveness.                      *)

\* A run loop that is alive comes round to each of its statements on every
\* pass, so one that is possible again and again is eventually taken; pool
\* threads run what they are handed; time passes.  A lease is only sure to
\* expire once nothing renews it.  Bodies are assumed to end.
OrphanExpires(t) ==
  /\ \A x \in execs : x.task = t => x.phase # "in_flight"
  /\ LeaseExpires(t)

ExecutionEnds(x) == Succeed(x) \/ Fail(x) \/ EndUnrecorded(x)

Fairness ==
  /\ \A w \in Workers :
       /\ SF_vars(\E t \in Tasks : ClaimLocked(w, t))
       /\ SF_vars(ReadCandidates(w))
       /\ SF_vars(RequeueAbandoned(w))
       /\ SF_vars(ReadExhausted(w))
       /\ WF_vars(\E c \in main[w].seen : TryCandidate(w, c))
       /\ WF_vars(ReloadClaimed(w))
       /\ WF_vars(\E c \in main[w].seen : AbandonExhausted(w, c))
  /\ \A t \in Tasks : WF_vars(OrphanExpires(t)) /\ WF_vars(BecomesDue(t))
  /\ WF_vars(\E x \in execs : StartExecution(x))
  /\ WF_vars(\E x \in execs : ExecutionEnds(x))

FairSpec == Spec /\ Fairness
-----------------------------------------------------------------------------
(* Properties.                                                             *)

\* One entry of worker_ids per attempt, and a lock exactly on RUNNING rows:
\* every write that moves one of these columns moves the others with it,
\* whichever process makes it and however stale what it read (worker.py:1966).
HistoryMatchesAttempts ==
  \A t \in Tasks :
    /\ Len(row[t].worker_ids) = row[t].attempts
    /\ row[t].locked_by = IF row[t].status = "RUNNING"
                          THEN row[t].worker_ids[row[t].attempts] ELSE NoWorker
    /\ row[t].lease = "none" <=> row[t].status # "RUNNING"

\* No execution can share a lease epoch with another, nor with a claim that is
\* still to be read back: the epoch identifies the execution (worker.py:1010).
EpochsIdentifyExecutions ==
  /\ \A x, y \in execs :
       x.task = y.task /\ x.row.lease_epoch = y.row.lease_epoch => x = y
  /\ \A v, w \in Workers :
       main[v].at = "reloading" /\ main[w].at = "reloading"
         /\ main[v].granted = main[w].granted => v = w
  /\ \A w \in Workers, x \in execs :
       main[w].at = "reloading" => main[w].granted # <<x.task, x.row.lease_epoch>>

\* A stored result is that of the last claim the row's own history names, and that
\* history is the attempts: no straggler, watchdog or stale claimer ever answers for
\* the holder, or leaves a row that tells of other claims than it had.
ResultIsTheHolders ==
  /\ HistoryMatchesAttempts
  /\ \A t \in Tasks :
       IF row[t].status = "SUCCESSFUL"
       THEN row[t].return_value = <<row[t].worker_ids[row[t].attempts], row[t].attempts>>
       ELSE row[t].return_value = <<>>

LastError(r) == r.errors[Len(r.errors)]

\* The error list is one attempt's verdict each, in order.  A FAILED row ends
\* in the error of its last attempt, a LOST one in the reaper's note, and a
\* SUCCESSFUL one holds nothing about the attempt that succeeded
\* (worker.py:4095, "this write is the observation, so it goes").
ErrorsTellAttempts ==
  \A t \in Tasks :
    LET r == row[t] IN
      /\ \A i, j \in DOMAIN r.errors :
           i < j => r.errors[i].attempt < r.errors[j].attempt
      /\ \A i \in DOMAIN r.errors :
           /\ r.errors[i].attempt <= r.attempts
           /\ r.status = "SUCCESSFUL" => r.errors[i].attempt < r.attempts
      /\ r.status \in {"FAILED", "LOST"} =>
           /\ r.errors # <<>>
           /\ LastError(r).attempt = r.attempts
           /\ (LastError(r).kind = "abandoned") = (r.status = "LOST")

\* A row is never claimed more often than its budget allows, unless a row
\* whose budget is spent was discarded and then revived.
BudgetRespected ==
  "revive" \notin CallerOps =>
    \A t \in Tasks :
      /\ row[t].attempts <= row[t].max_attempts
      /\ row[t].status \in {"READY", "WAITING"} => row[t].attempts < row[t].max_attempts

\* Whoever reads a row, decides and writes later, writes on the row it decided
\* about: an operation that lands finds the attempts it read, so no second
\* retry, late release or late cancel acts on a later life of the row.
DecisionsActOnWhatTheyRead ==
  [][\A c \in Callers :
       calls[c] # NoCall /\ calls'[c] = NoCall =>
         \/ row' = row
         \/ row[calls[c].task].attempts = calls[c].attempts]_vars

\* When a discarded row is revived, nothing decided or read before can match
\* it: the revival hands it over like a requeue (_waiting.py:245).
RevivalOutdatesDecisions ==
  [][\A t \in Tasks :
       row[t].status = "DISCARDED" /\ row'[t].status = "WAITING" =>
         \A c \in Callers :
           calls'[c] # NoCall /\ calls'[c].task = t
             => calls'[c].epoch < row'[t].lease_epoch]_vars

\* Both: a decision lands on the life of the row that it was made on.
DecisionsStayWithTheirRow == DecisionsActOnWhatTheyRead /\ RevivalOutdatesDecisions

\* An outcome is final: nothing moves a SUCCESSFUL row or rewrites what it
\* holds, and a DISCARDED row only ever becomes a WAITING one.
OutcomesAreFinal ==
  [][\A t \in Tasks :
       /\ row[t].status = "SUCCESSFUL" =>
            /\ row'[t].status = "SUCCESSFUL"
            /\ row'[t].return_value = row[t].return_value
            /\ row'[t].errors = row[t].errors
       /\ row[t].status = "DISCARDED" => row'[t].status \in {"DISCARDED", "WAITING"}]_vars

\* The row as the abstract lifecycle sees it: the holder is the last claimer
\* while the row would still take its outcome.
Lifecycle == INSTANCE TaskLifecycle WITH
  Nobody <- NoWorker,
  status <- [t \in Tasks |-> row[t].status],
  holder <- [t \in Tasks |-> IF row[t].status \in WRITABLE_STATUSES
                             THEN row[t].worker_ids[row[t].attempts] ELSE NoWorker],
  answer <- [t \in Tasks |-> IF row[t].return_value = <<>> THEN NoWorker
                             ELSE row[t].return_value[1]]

\* The lease protocol implements the lifecycle: every claim, fenced write,
\* requeue, note, operator action and revival, from whatever stale read.
ImplementsLifecycle == Lifecycle!Spec

\* The lost-lease note goes when the outcome it was waiting for lands
\* (worker.py:4092).
NoteGoesWithSuccess ==
  \A t \in Tasks : row[t].status = "SUCCESSFUL" =>
    \A i \in DOMAIN row[t].errors :
      ~ (/\ row[t].errors[i].kind = "abandoned"
         /\ row[t].errors[i].attempt = row[t].attempts)

\* While some worker that cannot die runs, a row that is queued or running
\* reaches a state that says how it ended, whoever else dies and whenever.
EventuallySettled ==
  \A t \in Tasks :
    row[t].status \in {"READY", "RUNNING"} ~>
      row[t].status \in {"SUCCESSFUL", "FAILED", "LOST", "DISCARDED"}
=============================================================================
