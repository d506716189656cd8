# django-ox and oxpull: specification, model checking and proofs

This directory holds TLA+ specifications of django-ox, a task backend that
keeps its queue in the project's own database, and of oxpull, which adds
unique tasks, batches, workflows, rate limits and concurrency limits on top of
it.  Every definition is written from the source; `PROJECT.json` names
the lines each one stands for.

## How to run

    tlc -workers 2 -config lease.cfg MCTaskLease.tla
    tlapm TaskLeaseProofs.tla

Each `.cfg` belongs to the module named for its run in `PROJECT.json`.

## Inventory of the system

All coordination goes through database tables.  A process may stop between
any two statements, and everything it read before may be stale when it writes.

### django_ox

| Component | State | Operations | Hard part | What makes it correct |
|---|---|---|---|---|
| Task lease (`worker.py`) | `ox_task` rows: status, attempts, worker_ids, errors, locked_by, lease_expires_at, lease_epoch, max_attempts, run_after; in each worker the executions it holds | claim (three forms), hand over, execute, write an outcome, renew, reap (requeue, mark LOST) | stragglers, stale candidates, a gap between the optimistic claim and its read-back, death anywhere | one accepted answer per row, epochs identify executions, columns that move together, budgets, final outcomes, nothing stays RUNNING for ever |
| Operator actions (`actions.py`) | none of their own | retry, discard, expire_lease, retry_many, discard_many | a decision on a row that has since lived on | a decision lands only on the life of the row it was made on |
| Waiting rows (`_waiting.py`) | rows in WAITING | enqueue, release, release_many, cancel_many, revive_many | the same row is closed and reopened | a revival outdates every earlier decision |
| Recovery of raised claims (`worker.py`) | the claim fence (count and generation), `_handed_off`, `_in_flight`, `_unsettled`, `_claim_unconfirmed_at` | claim, register, note, look, release | a commit whose reply is lost, beside claims on other threads and in callers' transactions; no lock is held across a statement | only claims that raised are refunded; a returned claim is always registered; a settled look left nothing |
| Timeouts (`worker.py`, `timeouts.py`) | the watch table, `_stuck`, `_recycling` | arm, disarm, fire, grace, stuck record, recycle | injection into a thread that has moved on; locks taken while an exception may be delivered | an injection only ever hits the attempt it was armed for; a stuck thread's writes never land after its record |
| Outcome reconnect (`worker.py`) | the connection of the attempt's thread | write, ask, write again, wait and retry a refused connect | the first write committed or still runs | recorded at most once; a landed outcome is reported as landed |
| Loop, drain, limits (`worker.py`) | `in_flight` futures, stop flags, `_claimed` | pass, claim until full, stop, drain, batch end | a task that enqueues work while the loop decides it is idle | a batch worker ends only on an empty queue; a drain ends |
| Schedule dispatch (`worker.py`, `schedules.py`) | `ox_schedule_tick`, unique on (name, instant) | read latest ticks, anchor, insert tick, enqueue, commit | several workers, crashes, edited and paused schedules, clocks | one task a tick; the first sighting fires nothing; the latest missed tick only |
| Cron (`cron.py`, `schedules.py`) | none | `previous` | calendars | agrees with the definition of the fields |
| Stored schedules (`stored.py`, `_stored_read.py`, admin) | `ox_schedule` rows, a change marker, each worker's cached build | create, update, disable, delete, heal, rebuild | a change commits between marker read and row read | a worker never dispatches from a definition older than its transaction |
| Supervisor (`supervisor.py`) | slots, backoff, recent deaths | start, reap, restart, forward signals, kill, stop | deaths in every phase of stopping | no slot is started once stopping; it exits; the code is 1 at the cap, else that of the first slot that failed |
| Heartbeat, health (`heartbeat.py`, `ox_health`) | files | touch, invalidate, check | a stale file of a replaced child | a file that is fresh was written by the slot's present child, or could not be removed and was reported |
| Pruning (`ox_prune`) | `ox_task`, ticks | delete in key order, keep anchors | lock order beside the other multi-row writers | never a live row, never the newest tick |
| Backend, bulk, results, registry | none | enqueue, get_result | validation | rows start as the lease expects them |
| Admin, stats, metrics, views, beat import, test helpers | none | reads, one-shot conversion | none over time | out of scope |

### oxpull

| Component | State | Operations | Hard part | What makes it correct |
|---|---|---|---|---|
| Rate limits (`worker.py`) | windows (name, window id, used), each worker's cached view | roll, refresh, admit, count | counting after the claim, unconditional, may fail | documented bound N+W-1+U a window |
| Concurrency limits | count of RUNNING rows as last read | refresh, admit | stale counts | documented bound max+W-1 |
| Unique enqueue (`backend.py`) | lock rows per key | insert lock, resolve conflict, release settled holder | lock waits, serialization failures, callers' transactions | at most one pending task a key; a duplicate gets the holder's result |
| Batches (`batches.py`) | batch, members, counts | add, seal, sweep, complete | retries of members during completion | callbacks enqueued once, over settled members |
| Workflows (`workflows.py`) | nodes, edges, records, scans, rounds | add, seal, record, release, skip queue, backstop, cancel, complete, retire | concurrent upstreams, lost releases, operator retries | every node whose upstreams succeeded is released once; completion is final |

### How they interact

`ox_worker` runs a `Worker` loop: renewal on a thread, reaping, dispatching
schedules, looking for raised claims, claiming, handing rows to pool threads.
Enqueue inserts rows; actions, waiting rows and pruning write the same rows
from other processes.  oxpull subclasses the worker (claims and outcomes) and
uses waiting rows for workflow nodes.  The supervisor only starts processes.

## Modules

| Module | What it is |
|---|---|
| `TaskLifecycle` | the abstract specification: what a task promises to whoever enqueued it |
| `TaskLease` | the detailed one: every statement on an `ox_task` row, and everything the code holds between two statements |
| `MCTaskLease` | model values and symmetry for TLC |
| `TaskLeaseProofs` | theorems about `TaskLease` and their proofs |
| `ScheduleTicks` | the abstract specification: what a settings-declared schedule promises |
| `ScheduleDispatch` | the detailed one: the passes of several workers over one schedule and its tick log |
| `StoredSchedule`, `MCStoredSchedule` | a schedule that is a row: its writers, the change marker, the workers' copies, and the dispatch under the row's lock |
| `StoredScheduleProofs` | theorems about `StoredSchedule` and their proofs |
| `CronTrigger` | a cron expression's walk from a clock reading to its next or previous tick |
| `WorkerProcess`, `MCWorkerProcess` | one worker process: loop, pool threads, watchdog, attempt timeouts, drain |
| `WorkerProcessProofs` | theorems about `WorkerProcess` and their proofs |
| `ClaimRecovery` | one Worker's claims that committed and raised, and its look for them |
| `ClaimRecoveryProofs` | theorems about `ClaimRecovery`, and about `LeaseRenewal` and `Prune` as parts of `MCWorkerParts` |
| `LeaseRenewal` | the renewal thread and the watchdog, and the connections they can get |
| `OutcomeWrite` | an outcome's writes over connections that fail |
| `Supervisor` | `ox_worker --processes`: slots, signals, restarts, orphans, heartbeat files |
| `SupervisorProofs` | theorems about `Supervisor` and their proofs |
| `Prune` | `ox_prune`, statement by statement |
| `UniqueEnqueue`, `MCUniqueEnqueue` | oxpull's unique enqueue: every caller's passes over one key's lock row, on every kind of database |
| `UniqueEnqueueProofs` | theorems about `UniqueEnqueue` and their proofs |
| `Admission` | oxpull's rate and concurrency limits |
| `Batch` | one oxpull batch, its callers, reconcilers and readers |
| `Workflow`, `MCWorkflow` | one oxpull workflow, from its first node to its retirement |
| `WorkflowProofs` | theorems about `Workflow` and their proofs |
| `Backstop` | the reconciler's backstop: the places of its passes and of its round |
| `MCWorkerParts` | the parts of a worker that share no state, in one run: `ClaimRecovery`, `LeaseRenewal`, `Prune`, `CronTrigger` |
| `MCParts` | the same for `Batch`, `Admission`, `ScheduleDispatch`, `OutcomeWrite`, `Backstop` |
| `PartsProofs` | theorems about these five parts and their proofs |

Each module states one type invariant, `TypeOK`.  It is proved for every module
with theorems, which is all but `CronTrigger`; TLC holds that one's on the bounds
of its run.  No run lists a type invariant beside the properties that are its question.

The two modules of parts instantiate specifications that have no variable in
common.  A behaviour takes one part (`part`) and has that part's state; the
variables of the other parts stay at one value.  So every state is one of a
part's own, each property is asked of its own part, and a run is the sum of
the parts' runs, not a product.  The names of a part's parameters are its own.

### TaskLease

`row` is the table.  One statement of the database is one step.  A read whose
result is used by a later statement is state: the optimistic claimer's
candidates and granted pair, the reaper's exhausted rows (both in `main`), an
execution's claimed row (`execs`), the watchdog's copy (`releases`), an
operator's decision (`calls`).  A loop is in the middle of one operation at a
time; renewal, pool threads, the watchdog and operators interleave freely.

| Code | Model |
|---|---|
| `_claim_one_postgresql`, the SKIP LOCKED branch | `ClaimLocked` |
| the optimistic branch of `_claim_one`, `_reload_claimed` | `ReadCandidates`, `TryCandidate`, `ReloadClaimed` |
| `execute`, `_run_attempt`, `_handle_failure`, `_write_outcome` | `StartExecution`, `Succeed`, `Fail`, `EndUnrecorded`, `WriteOutcome` |
| `_fire_due`, `_handle_stuck` | `GraceEnds`, `RecordStuck` |
| `renew_leases` | `Renew` |
| `reap` | `RequeueAbandoned`, `ReadExhausted`, `AbandonExhausted` |
| `actions.py`, `_waiting.py` | `Decide`, `Apply`, `MoveMany`, `ExpireLease` |
| `kill -9` | `Crash` |

Time is two bits a row: the lease is held or has expired, `run_after` has
passed or not.  The set of payloads is abstracted to who computed a result
(worker and attempt) and what an error says about which attempt.  Definitions
marked *Fault* are no part of the specification: they are the mistakes the
definition after them could have been written with, each of which breaks the
property named for it in `PROJECT.json`.

### ClaimRecovery

One `Worker` object.  The loop thread looks and claims; other threads call
`run_once()` on the same object, in autocommit or inside a caller's
transaction (`block` holds the row as only that transaction sees it, and locks
it for everybody else).  `_claim_generation` is compared only with what a look
remembered, so the model keeps the outcome of that comparison (`moved`).  A
claim's `UPDATE` may take effect and its reply be lost; `orphans` remembers
which, for the properties, and is read by no action.  The registration sets
are changed exactly where the code takes their lock, the look is one step a
statement or lock, and an entry may move between any two of them.

An outcome fenced out, unwritable or written with its answer lost ends in
`_unsettled`; a caller's rollback gives an epoch back, and the next claim of the
row is granted the same pair.  The look at stop is the same look made once, by a
deadline of its own that is not modelled.

### ScheduleDispatch

One schedule of settings, with its trigger given as the set of instants it
produces.  `log` is the committed tick rows; what a transaction has inserted
and not committed is in the worker's `pass`, which rolls back by becoming idle.
`anchored` and `fired` remember commits for the properties and are read by no
action.  Each statement of `dispatch_schedules` and `_anchor_boundary` is one
step, and so is each wait: a worker at `claiming`, `latching` or `latched` may
have to wait for the transactions `BlockedBy` names.

| Code | Model |
|---|---|
| `now`, `trigger.previous` for every schedule | `Plan`, `Due` |
| `_latest_ticks` and the suppression | `ReadLatest` |
| the `exists()` about this very instant | `AskInstant` |
| the INSERT of the tick row, `_lost_the_race` | `Claim` |
| `_anchor_boundary`: plain read, latch, locking read, delete | `AskFirst`, `TakeLatch`, `AskAgain` |
| the comparison with the anchor | `Boundary` |
| `enqueue`, the commit | `Enqueue`, `Commit` |
| the handlers of `dispatch_schedules`, death | `Fail` |
| `ox_prune`, on ticks | `Prune`, `PastCutoff` |

`since`, the bound of the shared read, is the oldest tick that any schedule of
the pass has: here any instant up to this schedule's own.  Each worker has its own
clock, read once a pass.  `SkipLocked` tells the databases apart: with it the
repeated read passes over locked rows, without it that read waits for them.

Assumed of the database: a read sees what is committed when it runs (READ
COMMITTED; MySQL's locking read is current at any level).  PostgreSQL at
REPEATABLE READ is not modelled.  Assumed of operation: the retention of ticks
outlasts any pass and any difference between two clocks (`PastCutoff`).
`Prune` is one step: between its last check and its DELETE a row that is not
the newest cannot become it, since the newest row only goes when a newer one
is there.

### UniqueEnqueue

One key.  `lock` and `status` are what is committed; what an open transaction
has made of the lock row is in its `tx`, with the rows it has locked, whether
it is SQLite's one writer, and, where plain reads answer from a snapshot, that
snapshot and which rows were committed anew since.  A caller in `Ambient` calls
from inside a transaction it opened, perhaps after a read of its own; the others
own their transactions.  `engine`, chosen at the start and never changed, is one
of PostgreSQL and MySQL, reading from snapshots or not, and SQLite.  Each
statement is a step, and `call[c].at` names the statement that is next.

| Code | Model |
|---|---|
| the INSERT of the lock row, `super().enqueue()` and the UPDATE that names the task | `Insert`, `Enqueue` |
| `_resolve_conflict`: lock row, holder, holder FOR UPDATE, DELETE | `ReadLock`, `ReadHolder`, `LockHolder`, `DeleteLock` |
| `_check_holder_row`, `_result_from_a_fresh_read`, `_committed_status` | `CheckHolder`, `ReadFresh`, `ReadCommitted` |
| the handlers of `_enqueue_unique` | `GivesUpWaiting`, `SerializationFailure`, `Reissue`, `RefusedUpdate`, `Abort` |
| a caller's transaction around the call | `CallerReads`, `CallerCommits`, `Abort` |
| renewals, claims, outcomes, actions, both prunes | `Touch`, `Settle`, `Retry`, `PruneTask`, `PruneLock` |

A task is pending (READY or RUNNING), settled (every other status, WAITING
included) or gone.  `Retry` stands for whatever makes a settled row pending
again, the release of a revived row included.  Neither touches the lock row.

The key is held while its task is pending, with the one exception that the
documentation makes: a task that an operator retries after its lock was released
runs beside the new holder.  `PendingTasksHoldTheKey` says that this is the only
one: `reopened` remembers exactly those retries, and a retry that comes while
the lock still names the task keeps it, whoever is in the middle of releasing it.
`LostPassesWereDisturbed` is about `UniqueEnqueueRace`: `calm` counts
consecutive passes that came to nothing though nobody was in the way.

Left to nondeterminism: whether a caller's way back to a savepoint gives up a
row lock (PostgreSQL's does, InnoDB's does not); whom MySQL picks as a deadlock
victim (`Reissue`, in any statement that locks); what else SERIALIZABLE refuses
(`Reissue`, `RefusedUpdate`, `Abort`).  Assumed of SQLite: WAL mode, which is
what its handler of `SQLITE_BUSY_SNAPSHOT` speaks of.  MySQL's SERIALIZABLE,
where plain reads lock, and a caller that itself writes task rows in its
transaction are not modelled.

### StoredSchedule

One row, with the timing it asks for, its boundary (`start`), the digest of the
columns the boundary was set for, and a count of the boundary's moves.  The
write functions are atomic: each locks the row (`Lockable`).  `RawWrite` is what
goes behind them: `queryset.update()`, SQL, a migration.  A worker's pass reads
the marker, rebuilds its copy if it moved or a full read is due, heals a
boundary it saw stale, plans from the copy, and locks the row again before it
fires (`LockRow`, `Fire`).  The digest beside a boundary is abstracted to the
pair it stands for, timing and enabled.  `untold` remembers, for the property
about the cache, what gave no sign: a raw write, or a second write in one
instant of the marker's clock.

### CronTrigger

A field is a set of alternatives, each with a body of one or two values and a
step, and `Values` is what `_parse_field` makes of it.  `Accepted` is what
`__init__` lets pass; `Walks` and the four misses (month, day, hour, minute) are
the branches of `following` and `previous`.  The calendar is the real one.  The
property is about each step of a walk: what it jumps over holds no tick, judged
by `Matches` on every minute between, which is the reference definition.

### WorkerProcess

`loop` is `run()` from the head of a pass to its drain, `thread` a pool thread
from its start to its outcome, `dog` the watchdog, `lock` the `_watch_lock`.
`TaskTimeout` is `pending` in a thread from the moment the watchdog asks for it
until the thread runs a bytecode, which may be inside the body, in `_disarm`
before, while or after it waits for the lock, or in the flush.  A `mode` is one
way to run the worker: as a service, with a task limit, with `--batch` and a task
that enqueues another, or a tick that falls due.

### LeaseRenewal

Time is discrete and everything counts down: leases, `safe_until`, the time to
the next tick, the wait for the pool.  A tick is `BeginTick`, then the ways to a
connection (`Open`, `OpenFails`, `Borrow`, `BorrowFails`) in the order that
`Hurry` chooses, then the statement.  `server` says what can be had at all,
which is the assumption of `LeasesOutliveAMiss`: where neither a slot nor a pooled
connection is certain, leases can lapse, and the code says so.

### OutcomeWrite

One row and its attempts, of which an earlier one may still be writing when a
later one runs.  A first try may take effect with its reply lost, or be carried
out by the server after its client is gone (`ServerCarriesOut`); a refused
connect is waited out; the second try asks first whether the row already holds
the outcome.  oxpull's node transaction tries again by itself before that.

### Supervisor

`sup` is the supervisor's loop in passes, `signals` what the handler recorded
since the last one.  A child is booting, running, draining or wedged; a signal
before its handlers are installed ends it, the second after that forces it.  A
supervisor that is killed leaves orphans, and another is launched beside them.
`file` is whose touch a slot's heartbeat file is.  `Invalidate` removes it, at every
start and when a process is collected; a removal that fails, which it may for the slots
in `Stubborn`, leaves the file and enters the slot in `reported`, as the code's
`_invalidation_reported` does.  A relaunched supervisor has reported nothing.

### Prune

Tasks are deleted in batches that lock their rows in key order and read them
again; a bulk action locks in the same order.  Ticks are locked by none: the
prune reads its schedules' anchors, then pages of ticks, then asks twice more
before it deletes, and workers dispatch and operators repair in between.
`instant` is the order of the ticks in time, which need not be that of their
keys.

### Admission

A window is a row that every worker rolls, reads and counts into, each in a
statement; the claim is between the read and the count, and the count may fail
or die.  `lost` counts the admissions that nothing will count.  The concurrency
part reads the RUNNING rows of all workers, and applies what it read later.

### Batch

What a transaction wrote is in its `tx` until it commits.  `engine` is where
plain reads are current, where they are from a snapshot ("stale"), or where a
snapshot that is out of date is refused ("refuses").  "manual" is "stale" where callers
open their transaction by turning autocommit off (`Manual`).  Such a transaction is the
caller's, so nothing in it is reissued (`Owned`); but it is no atomic block, so `seal`
counts in its snapshot.  `unseen` is the history of the members it missed so.  `seal` and each
reconciler's completion are cut at every statement; `progress()` reads in three.

### Workflow

`deps` is the graph of this behaviour.  A transaction that others can meet
half-way is cut there: `add` between its check and its insert (`building`), a
worker's outcome between the row and its record (`writing`), the reconciler's
completion and cancellation between read, lock and write (`tick`).  `todo`
holds the nodes some process is about to release, `recheck` those whose `add`
is to look once more, `repair` what a repair of records has read.  `ReleaseFails`
and `Lose` take any of it away.

### Backstop

The rows are edges and nodes, each with its key and its workflow; a pass is the
place `_visit` reads and stores by compare-and-set; a tick goes round the workflows
from where the last one stopped.  A mark of 0, of a table that was empty when the
pass began, is not the mark of a pass that has none yet (`Unset`): the code asks
`is None`.  A full page is stored, a short one ends its phase, the tick's deadline
may end a visit after any page, and a pass that begins and ends within one visit
is never stored.  What a page does to its rows is `Workflow`'s `BackstopEdge`,
`BackstopRelease` and `ReadRecords`, whose weak fairness rests on what is checked here.

## Runs

| Run | Question | Bounds | States |
|---|---|---|---|
| `lease` | Is the lease safe on a database without SKIP LOCKED, under racing operators, and does it implement the lifecycle? | one row, two workers that may die, two operators with retry, discard, cancel and revive, budgets 1 and 2, epochs to 2 | 1,192,731 |
| `lease_liveness` | Does every row settle although a worker dies, and do budget and errors hold where claims lock? | one row, a mortal worker and a lasting one, one operator with retry and release | 15,287 |
| `lease_lost_note` | Does the reaper's note always go when the outcome it waited for lands? | one row, budget 1; a counterexample | |
| `dispatch` | Does a new schedule keep its promise, does nobody wait in a circle, is the latest tick recorded in the end? | three workers, three ticks, clocks at most one apart, one failed pass, locked rows skipped | 309,076 |
| `dispatch_anchor` | Does nothing from before the anchor fire? | two workers, three ticks; a counterexample | |
| `unique` | Is the key held by what is pending, are answers live, is nobody held up, on every kind of database? | one caller inside a transaction and one outside, two task ids, two passes a call | 1,475,535 |
| `stored` | Do ticks fire as the row asks, does the cache follow, do heals move what they should? | one worker and three events, or two workers and one; two timings; clock to 2 | 457,823 |
| `worker` | Do timeouts stay in their attempt, and does the process end over no work and through stuck threads? | two threads, three tasks, five ways to run | 349,697 |
| `supervisor` | Is no child left, is a stop a success, whose are the files, are slots and stops served? | two slots, one of them with a file that may be impossible to remove, restart cap 1, two events, each a signal or a mishap | 590,118 |
| `workflow` | Does a node run only after its upstreams, is only the doomed cancelled, does every sealed workflow complete? | graphs of two and three nodes, two kinds of engine, one mishap for three nodes and two for two | 259,755 |
| `worker_parts` | Recovery, renewal, pruning, cron walks | recovery: one row, two threads, three grants. Renewal: two claims, lease 12, interval 4, deadline 4, pool wait 1, two stuck records. Prune: two commands and a bulk action, three keys, batches of two, two attempts, two failures. Cron: 216 combinations of fields, less those refused, three readings, days of two hours of three minutes | 4,284,993 |
| `parts` | Batch, limits, waiting dispatch, outcomes, backstop | batch: two callers, two reconcilers, two members, four engines, one mishap where snapshots are not refused. Limits: two workers of two threads, limit 1, three windows, two errors, one death. Waiting: two workers, three ticks. Outcome: two epochs, two tries, three faults. Backstop: two ticks that may die once, one edge and one node of one workflow with three pages a visit, or a round of two workflows with no rows | 2,120,832 |

Why the bounds are enough.  For what is proved (see Proofs) they need not be: those
runs are there to find a mistake at once, and for liveness.  The lease protocol
never relates two rows (an `UPDATE` of several rows changes each by its own
columns), so one row shows every interference; the theorems hold for any set of
rows.  Two workers give a straggler and a holder, with both able to claim again;
two operators give two decisions on one row.  Epoch 2 lets a row be claimed, reaped or retried and
claimed again twice over, so a write pinned to an old epoch meets a newer one.
In the recovery part three grants are what it takes for a claim to be read by a
look, reaped, and granted to another thread before the release.  In the dispatch
run three workers are what a circle of waits through the latch and two tick rows
takes, three ticks give one before the anchor, the anchor and one after, and one
failure gives a rollback at every step.
In `unique` two task ids give a holder and its successor, so that a release can
meet another generation and a retried predecessor; two passes are what it takes
to lose one and need another.  In `stored` two workers see one raw write, and one
worker goes through a write, a crash and a refused heal.  In `worker` two
threads are one that is stuck and one that has work; the limits, the follow-up
and the tick are what a run may end over.  In `workflow` a chain has a node between
a success and a failure, a fan two upstreams that finish at once.  In the renewal
part a lease is three intervals and an interval as long as a connection's
deadline, as with the code's defaults to scale, and two misses fit into it.  In the
prune part three keys and batches of two give a page with a row after it, and a
schedule with a tick on either side of its anchor.  In the limits' part two
workers give the `W - 1` of both bounds.  In the outcome part a second epoch is
a row that moved on.  In the backstop's part pages of one row make every row a
page's end, two ticks compete for every place, and three pages a visit make a pass
possible that begins and ends in one.

`CHECK_DEADLOCK FALSE` stands where a proper end has nobody left to act: a
settled row, a key whose task ids are used up, a batch or workflow completed, a
worker or supervisor that is gone, a walk at its tick.  `dispatch` has none.

## Fairness

`FairSpec` of `TaskLease` asks for: strong fairness of each worker's claim and reap
statements, because a live loop comes round to each on every pass though the
other workers keep moving the row; weak fairness of the steps inside an
operation already begun; weak fairness of time (a lease that nothing renews
expires, `run_after` passes) and of execution (a body ends: an infinite body
without a timeout is the user's).  Nothing is asked of operators, renewals,
crashes or the watchdog.  The liveness run has one worker that does not die:
with none, nothing runs.

`FairSpec` of `ScheduleDispatch` asks for weak fairness of each worker's steps,
and of the database breaking a circle of waits, taken together: `run()` asks for
a pass every dispatch interval, and a statement the database does not make wait
is answered.  Clocks advance.  Failures, which
the run bounds, are asked nothing of; without a bound a schedule that
always fails is never recorded, and the code says so.  Weak fairness is
enough because a waiting pass can go on when the transaction it waits for ends,
and that one is not the waiter's to end.  `StoredSchedule` adds strong fairness
of reading the marker with a full read: the code asks for one after a while
whatever the marker says (`_due_for_a_full_read`).

`WorkerProcess`: weak fairness of the loop, of the watchdog and of each thread
outside a body; strong fairness of the drain's budget running out, which is a
clock.  Bodies need not end.  `Workflow`: the reconciler's tick comes round,
workers poll, a RUNNING node's worker writes some outcome, an add that began
inserts, and the backstop comes to each row.  Callers, operators, pruning and
mishaps need not happen.  `Supervisor`: weak fairness of the supervisor's steps,
of its kill timer and its backoffs, of a child's boot and drain and of an
orphan's look at its parent.  Nothing is asked of signals from outside, of
deaths, or of a wedged child.  `Batch`, `Admission`, `OutcomeWrite`,
`ClaimRecovery`, `LeaseRenewal`, `Prune`, `Backstop`, `CronTrigger` and
`UniqueEnqueue` state safety only, bounds on waiting included, and no fairness.

## Proofs

Every theorem is checked by tlapm for all values of the constants, under the
assumption that the component's own module states (`LeaseAssumption`,
`DispatchAssumption`, `StoredAssumption`, `RecoveryAssumption`, `WorkerAssumption`,
`SupervisorAssumption`, `UniqueAssumption`, `WorkflowAssumption` and
`NoneAssumption`), or that the module of parts states of its instance
(`BatchAssumption`, `LimitsAssumption`, `ScanAssumption`, `RoundAssumption`,
`RenewalAssumption`, `PruningAssumption`).  Most of these say of what kind the
constants are, that sets of nodes, tasks, workers and rows are finite, and that model
values differ.  `OutcomeWrite` states none; its theorems have the
hypothesis `OutcomeBounds`, that its four bounds are natural numbers.  Beyond that:

* `WorkerAssumption` has the pool's threads finite, as `ThreadPoolExecutor` does,
  and the follow-up not yet there in a mode in which something is to enqueue it.
* `ErrorsDoTell` assumes `SkipLocked`, claims that lock the row they read,
  because without it the statement is false (`lease_lost_note`).
* `RenewalAssumption` has the proportions that a worker with the default interval
  has (worker.py:133, 2095, 3339): a connection's deadline is at most the
  interval, the wait for the pool is less than that deadline, and two intervals with
  that wait and a claim's gap are less than the lease.  Where they leave
  time for a connection and then the pool, they leave it for the gap.
* `RoundAssumption` and `ScanAssumption` have pages and visits of at least one row
  and one page.

A theorem about a part is about the behaviours of the module of parts that take
it: `PartSpec => [](part = "batch" => BatchHolds)`.  The other variables do not
enter, so this is the part's specification for any constants of its own.

Each theorem rests on an inductive invariant, called `IInv` or by the part's name
(`BatchHolds`), which TLC has held on the bounds of the runs before it was proved.

### The lease

`IInv` says three things.  Every row is well formed
(its type, one history entry per attempt, lock and lease exactly on RUNNING
rows, a result only of the last claimer).  Every copy of a row that any process
holds is *followed* by the row: the row's epoch is not less, and at
the same epoch its attempts and history are those of the copy.  And the pairs
(row, epoch) held by executions and by claims still to be read back are
distinct.  The properties alone are not inductive: that a stale
candidate's literal `attempts + 1` cannot overwrite a newer history, or that an
outcome fence passed by epoch means the row still belongs to that execution,
needs the relation of a copy to its row.

The argument goes in two halves.  `TableStep` shows that every statement moves
a row by one relation, `Move`: it stays well formed, follows what it was, and its
status and history change in one of seven ways (`Lives`).  `FollowsTransitive`
and `CopiesKept` then carry every copy along.  What remains per action is where
new copies come from.  The refinement theorem reuses `Move`: each kind of move
is one step of `TaskLifecycle` or a stutter.  Budgets and errors have an
invariant of their own on top of it (`Ledger`): a copy knows the budget of its
epoch, and where claims lock, it was made of a row that was RUNNING and had no
error of that attempt yet.

### The dispatch of schedules

`PartsProofs` is about any workers, ticks, clocks, skews and numbers
of failures, and either kind of locking read.  The invariant is needed because
the promise speaks of what has been committed, and what keeps it is held in
transactions that have not.  `TicksExclusive` and `LatchExclusive` say what the
unique index grants to open transactions.  `HistorySeen` is the heart: a pass
that fires has seen a row of the log, and one that is to anchor holds the latch
while the log is empty, so no other pass can have either beside it.
`UsedStaysUsed` is what pruning must not break: a tick used once has its row, or
is older than every tick any worker holds or will derive.  `PassMoves` treats
all steps that commit nothing by one lemma; what is left is `Commit`, `Prune`
and `Advance`.  `NoDeadlock` is by the rank of a wait: where rows are skipped,
latch waiters wait for a holder of the latch, who waits for nobody, and tick
waiters wait for passes that have their row in.  That excludes every circle, of
any number of workers.

### The stored schedules

`StoredScheduleProofs` is about any workers, timings, ticks and deadlines, and any
number of writes, raw writes, crashes and refused heals.  Each property has a
number that only grows.  What must not fire any more lies before the boundary
(`BoundaryOK`), and a boundary moves forward; so a tick that a pass found at or
after it under the row's lock, which keeps every write out, is not among them
(`PassOK`).  The generation grows whenever the boundary moves, and nothing else
settles a raw write; so a sighting of the row's generation is of a raw write that
is not answered yet (`SightingOK`), which is what a comparison of the boundary's
columns alone would not give.  The marker never falls, and a write leaves it above
every marker that anybody has read, or nobody was told (`CacheOK`).  That invariant
speaks of a worker in the middle of a pass too: from its build on, the copy goes
with the marker that the pass read before the rows.  `RowStep` says what any step
makes of the row, `WorkerStep` what it makes of a worker, and the invariant's
parts are proved from these two.

### The recovery of raised claims

A look knows a claim by a pair (key, epoch) that it read and holds no lock on.  A row
that has left a claim never comes back to it, because a later claim has a later
epoch.  The block of a caller's transaction is one epoch ahead of the row it locks,
so what the table says of the row says nothing of the block's claim.  And a
look whose generation has not moved has had no claim in flight at all, which is
what lets it take a missing registration for an orphan.  `LookOK` says all this of
each place between two statements of a look.

### The worker process

A thread is known by where it is (`Shape`): that says what the watch table may hold
of it and what may be pending inside it, which is the first theorem.  For the
second, every busy task is claimed, is in the futures of the loop and is one
thread's; the number that the drain counted takes in all that still runs; and
an empty queue found while nothing ran stays empty until the pass ends, which is
where the double look of a batch worker is needed.

### The writes of an outcome

The theorems of `PartsProofs` are about any number of epochs, tries, delays and faults.  A row
that is open at an epoch was not given that attempt's outcome yet, and once it is
closed at it, it stays so (`EpochOK`): hence one effect, whatever is sent again and
whatever the server carries out late.  A row whose last outcome is an attempt's
stands as that write left it, or has a later epoch; so if the second try asked, found
nothing and has no write under way, nothing will be there (`SentOK`).  The
exception that remains, `unseen`, is the one that `_write_outcome_reconnecting`
documents.

### The supervisor

Without a stop no process has been told to end, so each death was an event
(`UntoldOK`), and a supervisor that is gone has no children (`EndOK`).  While
nothing but one signal has come (`QuietOK`), each child is told once and ends
well, or by the signal before its handlers were there and before it had work.  For the files,
a start and a collection either remove what is there or report it (`InvalidateIs`);
`PresentOK` and `SaidOK` are kept because nothing but a booted process writes a file.

### The unique enqueue

`Local` says of one caller what it may count on whatever the others do.  A transaction
that has written the lock row keeps everybody else from it, and keeps the task
that the row names as it found it: gone, locked, or behind SQLite's one writer.
That is why the status read before the DELETE still holds when it commits, and it is
needed to prove that a pending task holds the key.  A snapshot was the database
once, and what it is behind on is in `changed` (`ViewOK`); so a check that finds
the holder's row unchanged has the answer of the committed row.  `Excludes` says
that of two callers at most one is at the lock row.  `CalmOK` is about passes: as
long as nothing got in the way, the key is as the pass read it, so the
DELETE releases it and the INSERT of the next pass finds it free.  The steps of
others reach a caller's part by one relation, `Env`, and each is shown to be
within it; a caller's own steps are taken one by one.

### The workflow

`WorkflowProofs` is about any finite set of nodes, any graphs on them and any number
of mishaps.  `SuccessesHold` says that whatever tells of a success, be it a row, a
record, a mark on an edge, what a repair read or what `add` saw, tells of
one that was; `succeeded` is the history that it speaks of.  `RecordsHold` is
needed because rows and records are written and deleted apart: a record is never of
a later epoch than its row, nor of the epoch of an attempt still under way, so the
guarded UPDATE does not refuse a success and nothing older displaces one.
With `RowsHold` (a deleted node's row does not run again) this is
why `on_success` and every release rest on proofs, and a retry keeps its own.
`CancelHolds` and `CompleteHolds` follow the tick: what it read as dead and has locked is
dead still, and what it has not locked was pruned.  `CompletesOverNothingPending`
has an exception that the proof made plain.  A row read as dead is discarded and
pruned before `LockDeadRows` reaches it, while another row fails; the count of dead rows
then matches by accident.  `vanished` is the history of such rows.

### The batch

Whoever has written the batch row has it locked (`Excludes`), so the total that it counted
is the membership that will be committed, less what it could not see.  `ViewOK` says
what a snapshot that may be refused can be behind on: only on what it will be refused
for when it writes.  `CallOK` and `MembersOK`
say what a count showed: a success that was counted stays one, and a member that is
pending though it was counted as finished was retried since.  `ReportOK` is the same
of the three reads of `progress()`.  `UnseenOK` has the one exception: only a caller
without autocommit misses members, and only those committed since it first read; then
as many as were counted have succeeded, and no more are missing than went unseen
(`MissingAre`).

### The limits

Both bounds are proved by counting workers.  `Counted`: what a window admitted is on its
counter, or is its worker's to count, or is lost.  `Admits`: the admissions and the
workers that may still claim as they see the window are together at most
`limit + W - 1` and what was lost; a worker enters that set only by reading the counter
below the limit, and leaves it by a claim.  `Runs` says so of the RUNNING rows and the
workers that counted fewer than the maximum.

### The renewal of leases

`TimeOK` and `SafeOK` are an account of time: a lease, and `safe_until`, keep
`lock_timeout` less an interval for each miss, what the tick in progress has
taken, and a claim's gap.  `LeaseOK` relates the two: a running row's lease is never
behind `safe_until` by more than the gap.  What a tick can take depends on what can be
had, which is why `SpareOK`, `SlotsOK` and `OrdinaryOK` differ; with neither a slot nor a
pooled connection certain, nothing is promised.  `WatchesOK` bounds a batch of stuck
attempts by one connection of each kind.

### Pruning

The ticks that read are the matter: each but a prune's anchor is *outlived*, by a newer
one that reads or because no newer tick is left that a repair could make read.  A tick
comes to read by a dispatch, which waits for a newest that reads, or by a repair, from
the newest down; so what a prune read beside its anchor stays outlived (`TicksAre`), and
the two questions before the DELETE leave out what is not.  Batches hold keys below
those they have still to lock (`BatchLocks`), so no set of commands waits in a circle.
`taker` is the history of who counted a row.

### The backstop

`since` counts the passes that ended without an open row.  A pass misses the row only if
the row lies behind it or above its marks.  Ticks that may yet have one miss it are in
`Missing`: they read beyond it from a place before it, or have marks that are older than the
row.  Each costs one pass, and no tick gets there anew, because a round
begins with marks that no open row is above.  So `PassesOK` bounds the passes gone by,
those ticks, and the pass that is beyond the row now, by the number of ticks
that overlap, and one where more than one does.  A tick alone finds the place as it
stored it, which is what makes the docstring's bound true of it.  For the round,
`stores + Distance` does not grow: it moves by one visit at least, and only if nobody moved it
since it was read (`FreshOK`).

| Theorem | Statement |
|---|---|
| `CopiesAreFollowed` | `Spec => []IInv` (of `TaskLeaseProofs`) |
| `TypeCorrect` | `Spec => []TypeOK` |
| `HistoryIsTheAttempts` | `Spec => []HistoryMatchesAttempts` |
| `EpochsAreUnique` | `Spec => []EpochsIdentifyExecutions` |
| `ResultsAreTheHolders` | `Spec => []ResultIsTheHolders` |
| `OutcomesStay` | `Spec => OutcomesAreFinal` |
| `LifecycleIsImplemented` | `Spec => ImplementsLifecycle` |
| `DecisionsAreCurrent` | `Spec => DecisionsActOnWhatTheyRead` |
| `RevivalsOutdate` | `Spec => RevivalOutdatesDecisions` |
| `DecisionsDoStay` | `Spec => DecisionsStayWithTheirRow` |
| `BudgetsAreRespected` | `Spec => []BudgetRespected` |
| `ErrorsDoTell` | `SkipLocked` implies `Spec => []ErrorsTellAttempts` |
| `DispatchInvariant`, `DispatchTypeCorrect` | `Spec => []IInv`, `Spec => []TypeOK` (of `PartsProofs`, for `ScheduleDispatch`) |
| `DispatchKeepsItsPromise` | `Spec => KeepsItsPromise` |
| `DispatchNeverDeadlocks` | `Spec => []NoDeadlock` |
| `FirstPassesDoHeedTheAnchor` | `Spec => []FirstPassesHeedTheAnchor` |
| `WaitingKeepsItsPromise` | `PartSpec => KeepsItsPromise` |
| `Invariant`, `TypeCorrect` | `Spec => []IInv`, `Spec => []TypeOK` (of `StoredScheduleProofs`, `ClaimRecoveryProofs`, `WorkerProcessProofs`, `SupervisorProofs`, `UniqueEnqueueProofs`, `WorkflowProofs`) |
| `TicksAreAsked` | `Spec => TicksFireAsTheRowAsks` (`StoredScheduleProofs`) |
| `HealsAnswer` | `Spec => HealsAnswerRawWrites` |
| `CachesFollow` | `Spec => []CacheFollowsTheMarker` |
| `ReturnedClaimsStayKnown` | `Spec => []ReturnedClaimsAreKnown` (`ClaimRecoveryProofs`) |
| `LooksReleaseOrphans` | `Spec => LooksReleaseTheOrphans` |
| `TimeoutsStay` | `Spec => []TimeoutsStayInTheirAttempt` (`WorkerProcessProofs`) |
| `RunsEnd` | `Spec => RunsEndOverNoWork` |
| `NoChildIsLeft` | `Spec => []LeavesNoChildBehind` (`SupervisorProofs`) |
| `OrderlyStops` | `Spec => []AnOrderlyStopIsNoFailure` |
| `FilesSpeak` | `Spec => []FilesSpeakForTheirSlot` |
| `KeyNamesThePending` | `Spec => []KeyIsThePendingTask` (`UniqueEnqueueProofs`) |
| `CallsAreFree` | `Spec => []CallsAreNotHeldUp` |
| `RecordsProve` | `Spec => []RecordsProveTheSuccesses` (`WorkflowProofs`) |
| `NodesWait` | `Spec => NoNodeRunsEarly` |
| `DoomedAreCancelled` | `Spec => OnlyDoomedNodesAreCancelled` |
| `CompletesOver` | `Spec => CompletesOverNothingPending` |
| `OutcomeInvariant`, `OutcomeTypeCorrect` | of `OutcomeHolds` and `TypeOK`, in the part (`PartsProofs`) |
| `OutcomesAreTold` | `OutcomeBounds` implies `PartSpec => []OutcomesAreToldTruly` |
| `BatchInvariant`, `BatchTypeCorrect` | of `BatchHolds` and `TypeOK`, in the part |
| `BatchesTellTheTruth` | `PartSpec => []BatchTellsTheTruthHere` |
| `CompletionsAreEarned` | `PartSpec => CompletionIsEarnedHere` |
| `LimitsInvariant`, `LimitsTypeCorrect` | of `LimitsHold` and `TypeOK`, in the part |
| `LimitsAreOvershotNoFurther` | `PartSpec => []LimitsAreOvershotAsPromised` |
| `ScanInvariant`, `ScanTypeCorrect`, `RoundInvariant` | of `ScanHolds`, `TypeOK` and `RoundHolds`, in their parts |
| `BackstopReachesRows` | `PartSpec => []BackstopReachesEveryRow` |
| `RenewalInvariant`, `RenewalTypeCorrect` | of `RenewalHolds` and `TypeOK`, in the part (`ClaimRecoveryProofs`) |
| `LeasesOutliveMisses` | `PartSpec => []RenewalKeepsTheLeases` |
| `PruneInvariant` | of `PruneHolds`, which has `TypeOK`, in the part |
| `PruningIsSafe` | `PartSpec => PruningTakesWhatItMay` |

Only model-checked: `WalksFindTheTick`, the property of `CronTrigger`, and liveness.
Liveness under fairness and ENABLED are
out of the prover's reach: `EventuallySettled`, `LatestTickIsRecorded`,
`StoredTicksAreRecorded`, `StuckThreadsCannotHoldTheProcess`,
`SlotsAndStopsAreServed`, `SealedWorkflowsComplete`.  So is induction over data:
what the walk of `CronTrigger` returns for every expression is not proved, and
no module here declares a RECURSIVE operator.

## What the checks show

The code does what its comments say, with one exception each for the lease
protocol and the dispatch of schedules.

* **A lost-lease note can outlive the success it doubted** (`lease_lost_note`).
  `_reload_claimed` (worker.py:2666) pins its read to the key and the epoch.  If
  the lease lapses between the optimistic claim's `UPDATE` and that read, on the
  last attempt, the reaper marks the row LOST at the same epoch and appends its
  note; the read-back returns the LOST row with the note in `errors`; the body
  runs; the success stores `errors=db_task.errors`, the note included, where the
  comment at worker.py:4092 says the note goes.  `ErrorsTellAttempts` is
  therefore stated for rows claimed under a lock (`lease_liveness`).

* **A tick from before the anchor can fire** (`dispatch_anchor`).  The boundary
  is asked about only while the bounded read found nothing (worker.py:5973).  A
  worker whose `now` was read before another's anchor was due, because its
  clock is behind or its pass straddles the boundary, finds that anchor as a
  newest tick ahead of its clock, asks only about its own instant, and
  enqueues.  The comment at worker.py:5981 says that nothing before the anchor
  fires, and the tests that the anchor is the earliest row.
  `FirstPassesHeedTheAnchor` states what is left: a pass that found no history
  heeds the anchor, as long as no such tick has gone in before it.

Met while modelling, without a run of their own:

* **Repairing ticks beside two prunes** (ox_prune.py:582 says that each schedule's
  newest tick that reads stays).  Of three ticks the first reads; the others, which
  are newer, do not.  A prune takes the first for the anchor; the second is
  repaired by hand; the prune comes to it and dooms it; another prune begins and
  takes the second for its anchor; the first prune deletes it; the other dooms the
  first tick.  Nothing that reads is left, and the next pass anchors the schedule
  again.  In the model ticks are repaired beside a prune from the newest down,
  which leaves this out, and `PruningTakesWhatItMay` is about the rest.
* **The backstop's two passes** (workflows.py:2258).  The docstring has every open row
  read within two passes over its workflow.  That holds while ticks do not overlap:
  one pass at most ends without the row.  Where T ticks overlap, one may store
  its place over another's and one may come with marks from before the row, and up to T + 1
  passes end without it; this is what `BackstopReachesEveryRow` says and
  `BackstopReachesRows` proves.  An exception in one workflow's visit leaves the
  round where it was.
* **A total from a caller's old snapshot** (batches.py:1007).  `seal` takes the locking,
  current count only in an atomic block.  A caller that turned autocommit off has a
  transaction of its own too, as `_reissue` (batches.py:772) and the backend
  (oxpull/backend.py:167) know, but not an atomic block.  At MySQL's REPEATABLE READ its
  plain count is from its first read, and members whose `add` committed since are missing
  from the total, where the docstring (batches.py:1030) says "as of now, not as of an
  older snapshot".  The batch then takes that many outcomes for granted: `on_success`
  may go out although as many members were lost or pruned, and `finished` falls
  behind.  `TotalIsTheMembership` and `EarnsItsCompletion` state exactly that exception.
* **The supervisor's exit code** (supervisor.py:17).  The docstring has the worst of the
  children's codes; `run` returns that of the first slot that failed, or 1 at the cap.
* **Signals at the supervisor's cap** (supervisor.py:468).  A tripped restart cap
  sends the children SIGTERM and counts no signal; the operator's first signal
  is then the children's second, which forces them to exit.  A supervisor killed
  during a drain does the same to its children by their parent-death signal.
* **What an outcome's writer is told** (worker.py:3562).  After a lost reply it asks
  the row; where the row has moved on since, it is told that the lease was lost
  of an outcome that took effect.  `OutcomesAreToldTruly` says what holds: what is
  told as written was, and nothing is written twice.
* **The renewal's horizon** (worker.py:3396).  `safe_until` is the earliest a held
  lease can expire, except for a claim between its `UPDATE` and its
  registration, which `LastGap` bounds in the model.

Worth knowing, and no violation of anything stated:

* `expire_lease` says "so the next reaper pass takes it" (actions.py:167); a
  live holder's renewal may come first and put the lease back.
* A row whose budget is spent can be claimed beyond it if it is discarded,
  revived and released; `BudgetRespected` says so.
* A look skips every epoch of a row it knows, as the production guide says; an
  entry that this very look drops as over still shields its row, and an orphan
  of that row is then left to the reaper with the attempt charged.
  `SettledLooksLeaveNoOrphan` excludes those rows.
* A completion locks the dead rows it read and then counts the dead rows it
  classifies (workflows.py:3405): equal numbers, not equal sets.

## Not modelled, and why

* A claim's `UPDATE` that takes effect after its caller gave up: the change log
  documents that it is left to the reaper.
* Raised claims in `TaskLease`: there, a claim that takes effect is read back,
  or its worker dies.  A raised claim is a row RUNNING that nobody holds, which
  for every other process is a worker that died, and the refund is
  `ClaimRecovery`'s.  The deadline of the look at stop is left out of it, and so
  is renewal, which only delays the expiry of leases.
* Of schedules: several in one pass beyond the bound they share, ticks that do
  not read, the hour a zone skips, a caller's transaction around the pass.  Of
  stored ones also `end_time`, permissions and validation, a marker that cannot
  be read.  Two workers and two events at once are beyond a run's size; the
  second worker meets one raw write.
* Of cron: the text of an expression, interval triggers, time zones.
* Of the worker process: its connections, the heartbeat, forks.  The durations of
  statements and DNS in `LeaseRenewal`; the lengths of delays in `OutcomeWrite`.
* A caller's transaction around an outcome or a prune: nothing is sent again there.
* Of `ox_prune`: several schedules and spellings of their keys, dry runs, the
  purge of unreadable ticks beside another prune.
* Of the supervisor: the length of its backoff, signals that merge while the
  process is stopped, the age of heartbeat files, its own file, `ox_health`.
* Of the limits: several at a time, the parsing of their options, names that a
  collation folds (`_adopt`).
* Of batches: mishaps on a database that refuses old snapshots, the sweep over
  several, the deletion of old ones, `progress()` where plain reads are from a snapshot.
* Of workflows: the skip queue (a row it holds is read by every later pass too),
  session timeouts, the cleaning of scan rows, the read API.
* Queue filters, priorities and fairness among rows: any claimable row may be
  first.  Payloads, formatting, logging and Django's signals.
* Whole components: Backend and enqueue (validation and conversion in front of
  an `INSERT`, which `TaskLease` starts from), Operator commands (argument parsing),
  Beat import (a one-shot conversion), Admin, stats, metrics and views (reads),
  Test helpers, Migrations, settings checks and packaging.  None has behaviour
  over time.

## Plan

Done, in this order: `TaskLifecycle`, `TaskLease` and their proofs;
`ClaimRecovery`; `ScheduleTicks`, `ScheduleDispatch` and their proofs;
`UniqueEnqueue`; `StoredSchedule`; `WorkerProcess`; `OutcomeWrite`; `Batch`;
`Workflow` and `Backstop`; `Admission`; `Supervisor`; `Prune`; `CronTrigger`;
`LeaseRenewal`.

Then proved: what the runs of all these modules check, but for liveness and
`CronTrigger`.  What a walk of `CronTrigger` returns is an induction over its
fields and is left to TLC.

Still to be modelled: the skip queue of workflows with its timeouts, several
schedules in a pass, `end_time`, the mixture of engines in one deployment.
