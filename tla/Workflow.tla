------------------------------ MODULE Workflow ------------------------------
(***************************************************************************)
(* One oxpull workflow: nodes are added with the nodes they depend on, a   *)
(* node waits until every upstream succeeded, the worker that finishes the *)
(* last one releases it, and the reconciler's tick finds what no worker    *)
(* did, discards what can no longer run and completes the workflow.        *)
(* oxpull_prune retires a completed one.                                   *)
(*                                                                         *)
(* A transaction that others can meet half-way is cut at those points; the *)
(* rows it holds there are in building, writing and tick.  On "current"    *)
(* engines a plain read sees what is committed; "refuses" is PostgreSQL at *)
(* REPEATABLE READ, where a transaction reads from its first statement's   *)
(* snapshot and may not lock a row that changed since.                     *)
(***************************************************************************)
EXTENDS Naturals, FiniteSets

CONSTANTS
  Nodes,
  Graphs,      \* the dependencies tried: functions from Nodes to sets of Nodes
  Engines,     \* of "current", "refuses"
  MaxMishaps,  \* bound, for each graph: what workers, operators and crashes do amiss
  None

ASSUME WorkflowAssumption ==
  /\ IsFiniteSet(Nodes)
  /\ Graphs \subseteq [Nodes -> SUBSET Nodes]
  /\ Engines \subseteq {"current", "refuses"}
  /\ MaxMishaps \in [Graphs -> Nat]

VARIABLES
  engine, deps,  \* of this behaviour
  flow,      \* the workflow row; succeeds: its on_success was enqueued
  row,       \* the task rows
  record,    \* the node rows: each with the outcome recorded on it
  edge,      \* the edge rows
  building,  \* the add() in progress
  writing,   \* per node, the outcome transaction in progress
  todo,      \* nodes some process is about to release
  recheck,   \* nodes whose add() is about to check them again
  repair,    \* what a repair of records read, before it writes
  tick,      \* the reconciler's transaction
  mishaps,   \* how many there were
  \* No part of the code, and read by no action:
  succeeded, \* nodes whose rows have ever been SUCCESSFUL
  forgotten, \* those whose worker recorded nothing
  vanished   \* rows that the tick read as dead and ox_prune has deleted since

ghosts == <<succeeded, forgotten, vanished>>
vars == <<engine, deps, flow, row, record, edge, building, writing, todo, recheck,
          repair, tick, mishaps, succeeded, forgotten, vanished>>
-----------------------------------------------------------------------------
Dead == {"FAILED", "LOST", "DISCARDED"}
RetryableDead == {"FAILED", "LOST"}
Retirable == {"SUCCESSFUL", "DISCARDED"}
Settled == Dead \cup {"SUCCESSFUL"}
Cancellable == {"READY", "WAITING"}
Statuses == Settled \cup Cancellable \cup {"RUNNING", "absent", "gone"}

ASSUME NoneAssumption == None \notin Nodes \cup Nat \cup Statuses

Absent == [status |-> "absent", epoch |-> 0]
NoRecord == [node |-> "absent", outcome |-> None, epoch |-> None]
Blank == [node |-> "there", outcome |-> None, epoch |-> None]
NotBuilding == [node |-> None, seen |-> {}]
NotWriting == [status |-> None, seen |-> {}]
AtRest == [at |-> "idle", found |-> {}, gone |-> {}, held |-> {}, pairs |-> {}, verdict |-> {}]

Edges == {e \in Nodes \X Nodes : e[1] \in deps[e[2]]}
EdgesInto(n) == {<<u, n>> : u \in deps[n]}
EdgesOut(n) == {e \in Edges : e[1] = n}

Verdict == [failed : 0 .. Cardinality(Nodes), succeeded : 0 .. Cardinality(Nodes),
            pending : BOOLEAN, repair : BOOLEAN, dead : 0 .. Cardinality(Nodes)]

TypeOK ==
  /\ engine \in Engines /\ deps \in Graphs
  /\ flow \in [status : {"open", "sealed", "complete"}, count : 0 .. Cardinality(Nodes),
               total : 0 .. Cardinality(Nodes) \cup {None}, succeeds : BOOLEAN,
               stamped : BOOLEAN]
  /\ row \in [Nodes -> [status : Statuses, epoch : Nat]]
  /\ record \in [Nodes -> [node : {"absent", "there", "retired"},
                           outcome : Settled \cup {None}, epoch : Nat \cup {None}]]
  /\ edge \in [Edges -> {"absent", "open", "satisfied", "retired"}]
  /\ building \in [node : Nodes \cup {None}, seen : SUBSET Nodes]
  /\ writing \in [Nodes -> [status : {"SUCCESSFUL", "FAILED", None}, seen : SUBSET Edges]]
  /\ todo \in SUBSET Nodes /\ recheck \in SUBSET Nodes
  /\ repair \in SUBSET [node : Nodes, status : Settled, epoch : Nat]
  /\ tick \in [at : {"idle", "cancelling", "moving", "finishing", "locking", "counting",
                     "enqueueing"},
               found : SUBSET [node : Nodes, status : Dead, epoch : Nat],
               gone : SUBSET Nodes, held : SUBSET Nodes,
               pairs : SUBSET (Nodes \X Nat), verdict : SUBSET Verdict]
  /\ mishaps \in 0 .. MaxMishaps[deps]
  /\ succeeded \in SUBSET Nodes /\ forgotten \in SUBSET Nodes /\ vanished \in SUBSET Nodes
-----------------------------------------------------------------------------
(* Locks, the gate, and the transition table of records.                   *)

\* Another transaction holds the task row of n.
Locked(n) == writing[n].status # None \/ n \in tick.held

FlowFree == building.node = None /\ tick.at \in {"idle", "finishing"}

\* add() holds the node rows of the upstreams it names until it commits.
NodeFree(n) == n \notin UNION {deps[m] : m \in Nodes \cap {building.node}}

\* runnable_filter_q: no edge into n, not marked, from a row that is not there
\* or not SUCCESSFUL.
Blocking_MissingPasses(e) == edge[e] = "open" /\ row[e[1]].status \notin {"SUCCESSFUL", "gone"}
Blocking(e) == edge[e] = "open" /\ row[e[1]].status # "SUCCESSFUL"
Runnable(n) == \A e \in EdgesInto(n) : ~Blocking(e)

\* outcome_accepts_q.
Accepts(r, status, epoch) ==
  \/ r.epoch = None
  \/ r.epoch < epoch
  \/ r.epoch = epoch /\ (r.outcome = None \/ (r.outcome = "LOST" /\ status # "LOST"))

Recorded(r, status, epoch) ==
  IF r.node = "there" /\ Accepts(r, status, epoch)
  THEN [r EXCEPT !.outcome = status, !.epoch = epoch] ELSE r

Marked(es) == [e \in Edges |-> IF e \in es /\ edge[e] = "open" THEN "satisfied" ELSE edge[e]]

\* _succeeded_or_recorded: the row says so, or it is gone and the record does.
Proven(n) ==
  \/ row[n].status = "SUCCESSFUL"
  \/ row[n].status = "gone" /\ record[n].node = "there" /\ record[n].outcome = "SUCCESSFUL"

Becomes(n, status, epoch) ==
  /\ row' = [row EXCEPT ![n] = [status |-> status, epoch |-> epoch]]
  /\ succeeded' = IF status = "SUCCESSFUL" THEN succeeded \cup {n} ELSE succeeded
-----------------------------------------------------------------------------
(* add() and seal().                                                       *)

\* The UPDATE that counts the node locks the workflow row; then the upstream
\* nodes are resolved and locked.  With a snapshot, what it will read is fixed.
Take(n) ==
  /\ FlowFree /\ flow.status = "open"
  /\ record[n].node = "absent"
  /\ \A u \in deps[n] : record[u].node = "there"
  /\ building' = [node |-> n,
                  seen |-> {u \in deps[n] : row[u].status = "SUCCESSFUL"}]
  /\ UNCHANGED <<engine, deps, flow, row, record, edge, writing, todo, recheck, repair,
                 tick, mishaps, ghosts>>

\* The upstreams that add() reads as SUCCESSFUL, by a plain read.
SucceededAmong(n) ==
  IF engine = "refuses" THEN building.seen
  ELSE {u \in deps[n] : row[u].status = "SUCCESSFUL"}

\* The node and its edges go in and the transaction commits.  A node with
\* dependencies is WAITING unless all succeeded, and is checked again after.
InsertNode ==
  LET n == building.node
      done == SucceededAmong(n)
  IN  /\ n # None
      /\ building' = NotBuilding
      /\ flow' = [flow EXCEPT !.count = @ + 1]
      /\ record' = [record EXCEPT ![n] = Blank]
      /\ row' = [row EXCEPT ![n].status = IF done = deps[n] THEN "READY" ELSE "WAITING"]
      /\ edge' = [e \in Edges |-> IF e \notin EdgesInto(n) THEN edge[e]
                                  ELSE IF e[1] \in done THEN "satisfied" ELSE "open"]
      /\ recheck' = IF done = deps[n] THEN recheck ELSE recheck \cup {n}
      /\ UNCHANGED <<engine, deps, writing, todo, repair, tick, mishaps, ghosts>>

\* _recheck_added_node, up to its release.
Recheck(n) ==
  /\ n \in recheck
  /\ recheck' = recheck \ {n}
  /\ edge' = Marked({e \in EdgesInto(n) : Proven(e[1])})
  /\ todo' = todo \cup {n}
  /\ UNCHANGED <<engine, deps, flow, row, record, building, writing, repair, tick,
                 mishaps, ghosts>>

\* The status write copies the count; one statement.  An UPDATE by hand does not.
SealTotals == {flow.count, None}

Seal ==
  /\ FlowFree /\ flow.status = "open"
  /\ \E total \in SealTotals :
       flow' = [flow EXCEPT !.status = "sealed", !.total = total]
  /\ UNCHANGED <<engine, deps, row, record, edge, building, writing, todo, recheck,
                 repair, tick, mishaps, ghosts>>
-----------------------------------------------------------------------------
(* Workers.                                                                *)

Claim(n) ==
  /\ row[n].status = "READY" /\ ~Locked(n)
  /\ Runnable(n)
  /\ Becomes(n, "RUNNING", row[n].epoch + 1)
  /\ UNCHANGED <<engine, deps, flow, record, edge, building, writing, todo, recheck,
                 repair, tick, mishaps, forgotten, vanished>>

\* The outcome transaction writes the row, through its fence: a RUNNING row,
\* or the row of a straggler that the reaper took for LOST.
WriteOutcome(n, status) ==
  /\ row[n].status \in {"RUNNING", "LOST"} /\ ~Locked(n)
  /\ writing' = [writing EXCEPT ![n] =
       [status |-> status, seen |-> {e \in EdgesOut(n) : edge[e] = "open"}]]
  /\ UNCHANGED <<engine, deps, flow, row, record, edge, building, todo, recheck, repair,
                 tick, mishaps, ghosts>>

\* Then it locks the node, records, marks the edges out of a success that it
\* can see, and commits; the nodes they point at are released after.
EdgesSeen(n) ==
  IF engine = "refuses" THEN writing[n].seen
  ELSE {e \in EdgesOut(n) : edge[e] = "open"}

RecordNodeOutcome(n) ==
  /\ writing[n].status # None
  /\ NodeFree(n)
  /\ writing' = [writing EXCEPT ![n] = NotWriting]
  /\ Becomes(n, writing[n].status, row[n].epoch)
  /\ record' = [record EXCEPT ![n] = Recorded(@, writing[n].status, row[n].epoch)]
  /\ LET out == IF writing[n].status = "SUCCESSFUL" THEN EdgesSeen(n) ELSE {} IN
       /\ edge' = Marked(out)
       /\ todo' = todo \cup {e[2] : e \in out}
  /\ UNCHANGED <<engine, deps, flow, building, recheck, repair, tick, mishaps, forgotten,
                 vanished>>

\* release_downstream, for one node: every edge into it is marked.
Held(n) == \E e \in EdgesInto(n) : edge[e] = "open"

Release(n) ==
  /\ n \in todo
  /\ todo' = todo \ {n}
  /\ IF Held(n) \/ row[n].status # "WAITING" THEN UNCHANGED row
     ELSE ~Locked(n) /\ row' = [row EXCEPT ![n].status = "READY"]
  /\ UNCHANGED <<engine, deps, flow, record, edge, building, writing, recheck, repair,
                 tick, mishaps, ghosts>>
-----------------------------------------------------------------------------
(* What the reconciler's tick does before it completes anything, and what   *)
(* oxpull_prune repeats for a retired workflow.                            *)

\* The backstop marks an edge whose upstream is known to have succeeded and
\* releases what it held, or releases a waiting node that nothing holds.
BackstopEdge(e) ==
  /\ flow.status # "complete"
  /\ edge[e] = "open" /\ Proven(e[1])
  /\ edge' = Marked({e})
  /\ todo' = todo \cup {e[2]}
  /\ UNCHANGED <<engine, deps, flow, row, record, building, writing, recheck, repair,
                 tick, mishaps, ghosts>>

BackstopRelease(n) ==
  /\ flow.status # "complete"
  /\ row[n].status = "WAITING" /\ ~Held(n) /\ n \notin todo
  /\ todo' = todo \cup {n}
  /\ UNCHANGED <<engine, deps, flow, row, record, edge, building, writing, recheck,
                 repair, tick, mishaps, ghosts>>

\* The nodes whose record is behind the row: the REPAIR_NODEs.
Behind == {n \in Nodes : /\ record[n].node = "there"
                         /\ row[n].status \in Settled
                         /\ Accepts(record[n], row[n].status, row[n].epoch)}

ReadRecords ==
  /\ repair = {} /\ Behind # {}
  /\ flow.status # "complete" \/ flow.stamped
  /\ repair' = {[node |-> n, status |-> row[n].status, epoch |-> row[n].epoch] : n \in Behind}
  /\ UNCHANGED <<engine, deps, flow, row, record, edge, building, writing, todo, recheck,
                 tick, mishaps, ghosts>>

\* The guarded UPDATE of each, whatever happened since the read.  _repair_records
\* marks the edges out of those that it read as SUCCESSFUL; the backstop's
\* _repair_node_records leaves them to its next pass over the edges.
RepairRecords(marks) ==
  LET out == {e \in Edges : /\ edge[e] = "open"
                            /\ \E r \in repair : r.node = e[1] /\ r.status = "SUCCESSFUL"}
  IN  /\ repair # {}
      /\ marks \/ flow.status # "complete"
      /\ \A r \in repair : NodeFree(r.node)
      /\ record' = [n \in Nodes |->
           IF \E r \in repair : r.node = n
           THEN LET r == CHOOSE r \in repair : r.node = n
                IN  Recorded(record[n], r.status, r.epoch)
           ELSE record[n]]
      /\ edge' = IF marks THEN Marked(out) ELSE edge
      /\ todo' = IF marks THEN todo \cup {e[2] : e \in out} ELSE todo
      /\ repair' = {}
      /\ UNCHANGED <<engine, deps, flow, row, building, writing, recheck, tick, mishaps,
                     ghosts>>
-----------------------------------------------------------------------------
(* The cancellation, one level of the cone.                                *)

IsDead(u) == row[u].status \in Dead
RecordedDead(u) == row[u].status = "gone" /\ record[u].node = "there" /\ record[u].outcome \in Dead

\* _cancellable_edges
CancellableEdges_RowsOnly ==
  {e \in Edges : edge[e] = "open" /\ row[e[2]].status \in Cancellable /\ IsDead(e[1])}
CancellableEdges ==
  {e \in Edges : /\ edge[e] = "open"
                 /\ row[e[2]].status \in Cancellable
                 /\ IsDead(e[1]) \/ RecordedDead(e[1])}

Read(ns) == {[node |-> n, status |-> row[n].status, epoch |-> row[n].epoch] : n \in ns}
Unchanged(r) == row[r.node].status = r.status /\ row[r.node].epoch = r.epoch

Cone(doomed) ==
  {<<d, row[d].epoch>> : d \in {e[2] : e \in {f \in Edges : edge[f] = "open" /\ f[1] \in doomed}}
                               \cap {n \in Nodes : row[n].status \in Cancellable}}

\* The workflow row is locked, and the upstreams that doom a node are read.
CancelOneLevel ==
  /\ tick.at = "idle" /\ FlowFree /\ flow.status = "sealed"
  /\ CancellableEdges # {}
  /\ LET ups == {e[1] : e \in CancellableEdges} IN
       tick' = [AtRest EXCEPT !.at = "cancelling",
                  !.found = Read({u \in ups : IsDead(u)}),
                  !.gone = {u \in ups : ~IsDead(u)},
                  !.pairs = IF engine = "refuses" THEN Cone(ups) ELSE {}]
  /\ vanished' = {}
  /\ UNCHANGED <<engine, deps, flow, row, record, edge, building, writing, todo, recheck,
                 repair, mishaps, succeeded, forgotten>>

\* Of the upstreams found, those that are dead under their locks.
StillDead_AsRead(found) == {r.node : r \in found}
StillDead(found) == {r.node : r \in {s \in found : IsDead(s.node)}}

\* The locking read waits for whoever holds one.  With a snapshot it fails if
\* one of them has changed, and the level runs again.
LockDoomed ==
  /\ tick.at = "cancelling"
  /\ \A r \in tick.found : writing[r.node].status = None
  /\ LET doomed == StillDead(tick.found) \cup {u \in tick.gone : RecordedDead(u)} IN
       tick' = IF engine = "refuses"
               THEN IF \A r \in tick.found : Unchanged(r)
                    THEN [tick EXCEPT !.at = "moving", !.held = doomed] ELSE AtRest
               ELSE [tick EXCEPT !.at = "moving", !.pairs = Cone(doomed),
                       !.held = {r.node : r \in {s \in tick.found : row[s.node].status # "gone"}}]
  /\ UNCHANGED <<engine, deps, flow, row, record, edge, building, writing, todo, recheck,
                 repair, mishaps, ghosts>>

\* cancel_many moves the rows still at the epochs read, their nodes are
\* recorded, and the transaction commits.
Movable(p) == row[p[1]].status \in Cancellable /\ row[p[1]].epoch = p[2]

CancelMany ==
  /\ tick.at = "moving"
  /\ \A p \in tick.pairs : writing[p[1]].status = None
  /\ LET moved == {p[1] : p \in {q \in tick.pairs : Movable(q)}}
         lost  == engine = "refuses" /\ \E p \in tick.pairs : ~Movable(p)
         after == [n \in Nodes |-> IF n \in moved /\ ~lost
                                   THEN [row[n] EXCEPT !.status = "DISCARDED"] ELSE row[n]]
         known == IF moved = {} \/ lost THEN {}
                  ELSE {p[1] : p \in {q \in tick.pairs : after[q[1]].status = "DISCARDED"}}
     IN  /\ row' = after
         /\ record' = [n \in Nodes |->
              IF n \in known THEN Recorded(record[n], "DISCARDED", after[n].epoch)
              ELSE record[n]]
  /\ tick' = AtRest
  /\ UNCHANGED <<engine, deps, flow, edge, building, writing, todo, recheck, repair,
                 mishaps, ghosts>>
-----------------------------------------------------------------------------
(* Completion.                                                             *)

There == {n \in Nodes : record[n].node = "there"}
DeadRows == {n \in There : row[n].status \in RetryableDead}

\* _with_classes: what a node counts as.
SettledAs(n) ==
  IF n \in Behind THEN row[n].status
  ELSE IF record[n].outcome # None THEN record[n].outcome
  ELSE IF row[n].status # "gone" THEN row[n].status ELSE None

Pending(n) == row[n].status \notin Settled \cup {"gone"}

Classify ==
  [failed |-> Cardinality({n \in There : ~Pending(n) /\ SettledAs(n) = "FAILED"}),
   succeeded |-> Cardinality({n \in There : ~Pending(n) /\ SettledAs(n) = "SUCCESSFUL"}),
   pending |-> \E n \in There : Pending(n),
   repair |-> Behind # {},
   dead |-> Cardinality(DeadRows)]

\* The classification outside any transaction is only a filter.
CompleteIfFinished ==
  /\ tick.at = "idle" /\ flow.status = "sealed"
  /\ ~Classify.pending /\ ~Classify.repair
  /\ tick' = [AtRest EXCEPT !.at = "finishing"]
  /\ UNCHANGED <<engine, deps, flow, row, record, edge, building, writing, todo, recheck,
                 repair, mishaps, ghosts>>

\* The compare-and-set holds the workflow row until the end, and the FAILED and
\* LOST rows are read.  With a snapshot the later classification is of now.
CompleteOnce ==
  /\ tick.at = "finishing" /\ FlowFree
  /\ tick' = IF flow.status # "sealed" THEN AtRest
             ELSE [tick EXCEPT !.at = "locking", !.found = Read(DeadRows),
                     !.verdict = IF engine = "refuses" THEN {Classify} ELSE {}]
  /\ vanished' = {}
  /\ UNCHANGED <<engine, deps, flow, row, record, edge, building, writing, todo, recheck,
                 repair, mishaps, succeeded, forgotten>>

\* Each row that is still there must be as it was read.
Retried(r) == row[r.node].status # "gone" /\ ~Unchanged(r)

LockDeadRows ==
  /\ tick.at = "locking"
  /\ \A r \in tick.found : writing[r.node].status = None
  /\ tick' = IF \E r \in tick.found :
                  Retried(r) \/ (engine = "refuses" /\ row[r.node].status = "gone")
             THEN AtRest
             ELSE [tick EXCEPT !.at = "counting",
                     !.held = {r.node : r \in {s \in tick.found : row[s.node].status # "gone"}}]
  /\ UNCHANGED <<engine, deps, flow, row, record, edge, building, writing, todo, recheck,
                 repair, mishaps, ghosts>>

\* The nodes are classified again, and rolled back over if one is pending, is
\* to be repaired, or is dead and was not counted among those locked.
RollsBack_DeadUncounted(v) == v.pending \/ v.repair
RollsBack(v) == v.pending \/ v.repair \/ v.dead # Cardinality(tick.found)

ClassifyAgain ==
  /\ tick.at = "counting"
  /\ LET v == IF engine = "refuses" THEN CHOOSE w \in tick.verdict : TRUE ELSE Classify
     IN  tick' = IF RollsBack(v) THEN AtRest
                 ELSE [tick EXCEPT !.at = "enqueueing", !.verdict = {v}]
  /\ UNCHANGED <<engine, deps, flow, row, record, edge, building, writing, todo, recheck,
                 repair, mishaps, ghosts>>

\* No node failed, and none of the total is unattributed.
CleanRun(v, total) == v.failed = 0 /\ total <= v.succeeded + v.failed

EnqueueCallbacks ==
  /\ tick.at = "enqueueing"
  /\ LET v == CHOOSE w \in tick.verdict : TRUE
         total == IF flow.total = None THEN Cardinality(There) ELSE flow.total
     IN  flow' = [flow EXCEPT !.status = "complete", !.total = total,
                    !.succeeds = CleanRun(v, total)]
  /\ tick' = AtRest
  /\ UNCHANGED <<engine, deps, row, record, edge, building, writing, todo, recheck, repair,
                 mishaps, ghosts>>
-----------------------------------------------------------------------------
(* oxpull_prune.                                                           *)

StampRetired ==
  /\ flow.status = "complete" /\ ~flow.stamped
  /\ flow' = [flow EXCEPT !.stamped = TRUE]
  /\ UNCHANGED <<engine, deps, row, record, edge, building, writing, todo, recheck, repair,
                 tick, mishaps, ghosts>>

\* Of a chunk, the nodes that go: their rows cannot move again.
Going(chunk) == {n \in chunk : row[n].status \in Retirable \cup {"gone"}}

\* The edges to mark because the proof of them goes.
Owed_None(won, into) == {}
Owed(won, into) == {e \in Edges \ into : e[1] \in won /\ edge[e] = "open"}

\* A chunk of recorded nodes, under the locks of their rows.  The classification
\* before it is a plain read, so a node may be pending again.
RetireChunk(chunk) ==
  LET going == Going(chunk)
      won == {n \in going : \/ row[n].status = "SUCCESSFUL"
                            \/ row[n].status = "gone" /\ record[n].outcome = "SUCCESSFUL"}
      into == UNION {EdgesInto(n) : n \in going}
      out == Owed(won, into)
  IN  /\ flow.stamped /\ chunk \subseteq {n \in There : record[n].outcome # None}
      /\ going # {}
      /\ \A n \in chunk : writing[n].status = None
      /\ record' = [n \in Nodes |-> IF n \in going THEN [NoRecord EXCEPT !.node = "retired"]
                                    ELSE record[n]]
      /\ edge' = [e \in Edges |-> IF e \in into THEN "retired"
                                  ELSE IF e \in out THEN "satisfied" ELSE edge[e]]
      /\ todo' = todo \cup {e[2] : e \in out}
      /\ UNCHANGED <<engine, deps, flow, row, building, writing, recheck, repair, tick,
                     mishaps, ghosts>>
-----------------------------------------------------------------------------
(* What else moves the rows, and what goes amiss.                          *)

Mishap == mishaps < MaxMishaps[deps] /\ mishaps' = mishaps + 1

\* The reaper: back to READY under a new epoch, or LOST at the attempt limit.
Reap(n) ==
  /\ Mishap
  /\ row[n].status = "RUNNING" /\ ~Locked(n)
  /\ \/ Becomes(n, "READY", row[n].epoch + 1)
     \/ Becomes(n, "LOST", row[n].epoch)
  /\ UNCHANGED <<engine, deps, flow, record, edge, building, writing, todo, recheck,
                 repair, tick, forgotten, vanished>>

\* A worker that records no outcomes writes one.
WriteUnrecorded(n, status) ==
  /\ Mishap
  /\ row[n].status = "RUNNING" /\ ~Locked(n)
  /\ Becomes(n, status, row[n].epoch)
  /\ forgotten' = forgotten \cup {n}
  /\ UNCHANGED <<engine, deps, flow, record, edge, building, writing, todo, recheck,
                 repair, tick, vanished>>

\* actions.retry, and actions.discard, which keeps the epoch.
Retry(n) ==
  /\ Mishap
  /\ row[n].status \in RetryableDead /\ ~Locked(n)
  /\ Becomes(n, "READY", row[n].epoch + 1)
  /\ UNCHANGED <<engine, deps, flow, record, edge, building, writing, todo, recheck,
                 repair, tick, forgotten, vanished>>

Discard(n) ==
  /\ Mishap
  /\ row[n].status \in {"READY", "FAILED", "LOST", "WAITING"} /\ ~Locked(n)
  /\ Becomes(n, "DISCARDED", row[n].epoch)
  /\ UNCHANGED <<engine, deps, flow, record, edge, building, writing, todo, recheck,
                 repair, tick, forgotten, vanished>>

\* An UPDATE by hand.
MoveByHand(n) ==
  /\ Mishap
  /\ row[n].status = "WAITING" /\ ~Locked(n)
  /\ Becomes(n, "READY", row[n].epoch)
  /\ UNCHANGED <<engine, deps, flow, record, edge, building, writing, todo, recheck,
                 repair, tick, forgotten, vanished>>

\* ox_prune, with --include-failed.
Prune(n) ==
  /\ Mishap
  /\ row[n].status \in Settled /\ ~Locked(n)
  /\ row' = [row EXCEPT ![n].status = "gone"]
  /\ vanished' = IF \E r \in tick.found : r.node = n THEN vanished \cup {n} ELSE vanished
  /\ UNCHANGED <<engine, deps, flow, record, edge, building, writing, todo, recheck,
                 repair, tick, succeeded, forgotten>>

\* The release that follows an outcome raises, which is logged and no more, or its
\* worker dies.
ReleaseFails(n) ==
  /\ Mishap
  /\ n \in todo /\ todo' = todo \ {n}
  /\ UNCHANGED <<engine, deps, flow, row, record, edge, building, writing, recheck, repair,
                 tick, ghosts>>

\* A transaction rolls back, or a process dies before what it had yet to do.
Lose ==
  /\ Mishap
  /\ \/ building # NotBuilding /\ building' = NotBuilding
        /\ UNCHANGED <<writing, recheck, repair, tick>>
     \/ \E n \in Nodes : writing[n] # NotWriting /\ writing' = [writing EXCEPT ![n] = NotWriting]
        /\ UNCHANGED <<building, recheck, repair, tick>>
     \/ \E n \in recheck : recheck' = recheck \ {n}
        /\ UNCHANGED <<building, writing, repair, tick>>
     \/ repair # {} /\ repair' = {}
        /\ UNCHANGED <<building, writing, recheck, tick>>
     \/ tick # AtRest /\ tick' = AtRest
        /\ UNCHANGED <<building, writing, recheck, repair>>
  /\ UNCHANGED <<engine, deps, flow, row, record, edge, todo, ghosts>>
-----------------------------------------------------------------------------
Init ==
  /\ engine \in Engines /\ deps \in Graphs
  /\ flow = [status |-> "open", count |-> 0, total |-> None, succeeds |-> FALSE,
             stamped |-> FALSE]
  /\ row = [n \in Nodes |-> Absent] /\ record = [n \in Nodes |-> NoRecord]
  /\ edge = [e \in Edges |-> "absent"]
  /\ building = NotBuilding /\ writing = [n \in Nodes |-> NotWriting]
  /\ todo = {} /\ recheck = {} /\ repair = {} /\ tick = AtRest /\ mishaps = 0
  /\ succeeded = {} /\ forgotten = {} /\ vanished = {}

Tick == CompleteIfFinished \/ CompleteOnce \/ LockDeadRows \/ ClassifyAgain
        \/ EnqueueCallbacks \/ CancelOneLevel \/ LockDoomed \/ CancelMany

Next ==
  \/ \E n \in Nodes : Take(n) \/ Recheck(n) \/ Claim(n) \/ RecordNodeOutcome(n) \/ Release(n)
  \/ \E n \in Nodes, status \in {"SUCCESSFUL", "FAILED"} :
       WriteOutcome(n, status) \/ WriteUnrecorded(n, status)
  \/ InsertNode \/ Seal \/ Tick
  \/ \E e \in Edges : BackstopEdge(e)
  \/ \E n \in Nodes : BackstopRelease(n)
  \/ ReadRecords \/ (\E marks \in BOOLEAN : RepairRecords(marks))
  \/ StampRetired \/ (\E chunk \in SUBSET Nodes : RetireChunk(chunk))
  \/ \E n \in Nodes : Reap(n) \/ Retry(n) \/ Discard(n) \/ MoveByHand(n) \/ Prune(n) \/ ReleaseFails(n)
  \/ Lose

\* The schedule runs a tick every minute and workers poll.  Callers, operators
\* and oxpull_prune need not come, nor what is amiss.
Fairness ==
  /\ WF_vars(InsertNode) /\ WF_vars(Tick) /\ WF_vars(ReadRecords)
  /\ WF_vars(RepairRecords(TRUE))
  /\ \A n \in Nodes :
       /\ WF_vars(Claim(n)) /\ WF_vars(RecordNodeOutcome(n)) /\ WF_vars(Release(n))
       /\ WF_vars(row[n].status = "RUNNING" /\ \E s \in {"SUCCESSFUL", "FAILED"} : WriteOutcome(n, s))
       /\ WF_vars(BackstopRelease(n))
       /\ WF_vars(\E e \in EdgesInto(n) : BackstopEdge(e))

Spec == Init /\ [][Next]_vars /\ Fairness
-----------------------------------------------------------------------------
(* Properties.                                                             *)

\* A node starts only after every node it depends on has succeeded, also where
\* an operator or a hand made its row READY.
NoNodeRunsEarly ==
  [][\A n \in Nodes :
       row'[n].status = "RUNNING" /\ row[n].status # "RUNNING" => deps[n] \subseteq succeeded]_vars

\* The cancellation discards a node only while a node it depends on is dead: in
\* no interleaving with an operator's retry, or with the worker that retries.
OnlyDoomedNodesAreCancelled ==
  [][tick.at = "moving" =>
       \A d \in Nodes : row'[d].status = "DISCARDED" /\ row[d].status # "DISCARDED" /\ tick' = AtRest
         => \E u \in deps[d] : IsDead(u) \/ (row[u].status = "gone" /\ u \notin succeeded \ forgotten)]_vars

\* A workflow becomes COMPLETE only over nodes that are all settled or gone, a
\* concurrent retry notwithstanding; except that ox_prune may delete a row the tick
\* read as dead before the tick is over.
CompletesOverNothingPending ==
  [][flow.status = "sealed" /\ flow'.status = "complete" /\ vanished = {}
       => \A n \in There : ~Pending(n)]_vars

\* An edge is marked, and later deleted, only over an upstream that did succeed,
\* by the row, by its record or by the retirement's proof; and on_success goes out
\* only for a workflow whose every node succeeded.
SuccessesAreProven ==
  /\ \A e \in Edges : edge[e] = "satisfied" => e[1] \in succeeded
  /\ flow.succeeds => \A n \in Nodes : record[n].node # "absent" => n \in succeeded

\* What oxpull_prune deleted the node of never runs again; and though it deletes
\* the record that proved a success, the proof stays for a node that a retry may
\* still run.
RetirementIsSafe ==
  /\ \A n \in Nodes : record[n].node = "retired" => row[n].status \in Retirable \cup {"gone"}
  /\ \A e \in Edges :
       edge[e] = "open" /\ record[e[1]].node = "retired"
         /\ row[e[2]].status \notin Retirable \cup {"gone"}
         => e[1] \notin succeeded \ forgotten

\* Both: successes are told of those that were, and of all whose proof is owed.
RecordsProveTheSuccesses == SuccessesAreProven /\ RetirementIsSafe

\* A sealed workflow completes, whatever failed, was lost, retried or discarded,
\* unless a row was deleted before anything recorded how it ended.
SealedWorkflowsComplete ==
  flow.status = "sealed" ~>
    \/ flow.status = "complete"
    \/ \E n \in Nodes : row[n].status = "gone" /\ record[n].outcome = None
=============================================================================
