--------------------------- MODULE WorkflowProofs ---------------------------
(***************************************************************************)
(* The properties of Workflow, proved for every set of graphs, every       *)
(* engine and every bound on what goes amiss.                              *)
(*                                                                         *)
(* The invariant has one part for each thing that a transaction of the     *)
(* code relies on: the count on the workflow row and who may change it     *)
(* (FlowHolds), rows and records that agree on what exists (RowsHold),     *)
(* what proves a success (SuccessesHold, RecordsHold), and what the tick   *)
(* may still believe of what it read (CancelHolds, CompleteHolds).  The    *)
(* moves of a row, a record and an edge are found once, over all actions;  *)
(* each part is then preserved by every such move.                         *)
(***************************************************************************)
EXTENDS Workflow, FiniteSetTheorems, FunctionTheorems, TLAPS

Added == {n \in Nodes : record[n].node # "absent"}
\* Where the tick holds the workflow row.
InTransaction == {"cancelling", "moving", "locking", "counting", "enqueueing"}

\* Only add() adds a node, and only to an open workflow that no tick holds; what sealing
\* copied stays the number of nodes, and only a complete workflow is pruned.
FlowHolds ==
  /\ flow.count = Cardinality(Added)
  /\ flow.total # None => flow.status # "open" /\ flow.total = flow.count
  /\ flow.stamped => flow.status = "complete"
  /\ \A n \in Nodes : record[n].node = "retired" => flow.stamped
  /\ building.node # None => flow.status = "open" /\ record[building.node].node = "absent"
  /\ tick.at \in InTransaction => flow.status = "sealed" /\ building.node = None

\* A task row is there with its node, a row whose outcome is being written still runs or
\* is LOST, and the row of a node that was deleted never runs again.
RowsHold ==
  /\ \A n \in Nodes : row[n].status = "absent" <=> record[n].node = "absent"
  /\ \A e \in Edges : edge[e] = "absent" => record[e[2]].node = "absent"
  /\ \A e \in Edges : edge[e] = "retired" => record[e[2]].node = "retired"
  /\ \A n \in Nodes : writing[n].status # None => row[n].status \in {"RUNNING", "LOST"}
  /\ \A n \in Nodes : writing[n].seen \subseteq EdgesOut(n)
  /\ \A n \in Nodes : record[n].node = "retired" => row[n].status \in Retirable \cup {"gone"}

\* Whatever says that a node succeeded - its row, its record, a mark on an edge, what a
\* repair or add() read - says so of one that did.
SuccessesHold ==
  /\ \A n \in Nodes : row[n].status = "SUCCESSFUL" => n \in succeeded
  /\ \A n \in succeeded : row[n].status \in {"SUCCESSFUL", "gone"}
  /\ \A n \in Nodes : record[n].outcome = "SUCCESSFUL" => n \in succeeded
  /\ \A e \in Edges : edge[e] = "satisfied" => e[1] \in succeeded
  /\ \A r \in repair : r.status = "SUCCESSFUL" => r.node \in succeeded
  /\ building.seen \subseteq succeeded

Fresh == {"READY", "WAITING", "RUNNING"}
\* A row at w may be known by this status and epoch, of now or of before.
Old(w, status, epoch) ==
  /\ epoch <= w.epoch
  /\ w.status \in Fresh => epoch < w.epoch
  /\ w.status = "LOST" /\ epoch = w.epoch => status = "LOST"

\* A record never runs ahead of its row, so the guarded UPDATE cannot refuse the success of
\* an attempt, and nothing older can displace it.
RecordsHold ==
  /\ \A n \in Nodes : record[n].epoch # None => Old(row[n], record[n].outcome, record[n].epoch)
  /\ \A n \in Nodes : record[n].epoch = None <=> record[n].outcome = None
  /\ \A n \in Nodes : record[n].node # "there" => record[n].epoch = None
  /\ \A r \in repair : Old(row[r.node], r.status, r.epoch) /\ record[r.node].node # "absent"
  /\ \A r, s \in repair : r.node = s.node => r = s
  /\ \A n \in succeeded \ forgotten :
       record[n].node = "retired"
         \/ (record[n].outcome = "SUCCESSFUL" /\ record[n].epoch = row[n].epoch)
  /\ \A e \in Edges : edge[e] = "open" /\ record[e[1]].node = "retired" => e[1] \notin succeeded \ forgotten

GoneDead(u) == row[u].status = "gone" /\ u \notin succeeded \ forgotten
FoundNodes == {r.node : r \in tick.found}

\* What the cancellation takes for dead is gone, or dead under a lock that it holds.
CancelHolds ==
  /\ tick.at = "cancelling" =>
       /\ \A u \in tick.gone : GoneDead(u)
       /\ engine = "refuses" => \A p \in tick.pairs :
            \E u \in deps[p[1]] : u \in FoundNodes \cup tick.gone
  /\ tick.at = "moving" =>
       /\ \A p \in tick.pairs : \E u \in deps[p[1]] : (u \in tick.held /\ IsDead(u)) \/ GoneDead(u)
  /\ tick.at \in InTransaction => \A n \in tick.held : writing[n].status = None
  /\ tick.at = "finishing" => tick.held = {}

Over(n) == row[n].status \in Retirable \cup {"gone"}

\* What the tick read of the dead rows, and of all with a snapshot.
SnapshotHolds ==
  /\ \A r, s \in tick.found : r.node = s.node => r = s
  /\ \A r \in tick.found : r.node \in There /\ r.status \in RetryableDead
  /\ vanished = {} => \A r \in tick.found : row[r.node].status # "gone"
  /\ engine = "refuses" => \E v \in Verdict :
       /\ tick.verdict = {v}
       /\ ~v.pending => \A n \in There : n \in FoundNodes \/ Over(n)
       /\ v.succeeded <= Cardinality(There \cap succeeded)

\* What the tick classified under its locks.
VerdictHolds ==
  /\ vanished = {} => \A n \in There : Over(n) \/ (n \in tick.held /\ row[n].status \in RetryableDead)
  /\ \E v \in Verdict : tick.verdict = {v} /\ v.succeeded <= Cardinality(There \cap succeeded)

\* Each dead row is as it was read, and held, or is gone.
CompleteHolds ==
  /\ tick.at \in {"locking", "counting"} => SnapshotHolds
  /\ tick.at = "counting" => \A r \in tick.found :
       row[r.node].status = "gone" \/ (Unchanged(r) /\ r.node \in tick.held)
  /\ tick.at = "enqueueing" => VerdictHolds
  /\ flow.succeeds => flow.status = "complete" /\ Added \subseteq succeeded

IInv == /\ TypeOK /\ FlowHolds /\ RowsHold /\ SuccessesHold /\ RecordsHold
        /\ CancelHolds /\ CompleteHolds
-----------------------------------------------------------------------------
(* The constants, the actions, and the types.                              *)

\* What Edges and EdgesInto are, of a graph.
LEMMA EdgeFacts ==
  ASSUME deps \in [Nodes -> SUBSET Nodes]
  PROVE  /\ \A e \in Edges : e[1] \in Nodes /\ e[2] \in Nodes /\ e[1] \in deps[e[2]]
         /\ \A n \in Nodes : EdgesInto(n) = {e \in Edges : e[2] = n}
         /\ \A n \in Nodes : \A u \in deps[n] : <<u, n>> \in EdgesInto(n)
  BY DEF Edges, EdgesInto

\* What is assumed of the constants, in the form that the proofs use.
LEMMA Constants ==
  /\ IsFiniteSet(Nodes) /\ Cardinality(Nodes) \in Nat
  /\ None \notin Nodes /\ None \notin Nat /\ None \notin Statuses
  /\ None # "SUCCESSFUL"
  /\ \A g \in Graphs : g \in [Nodes -> SUBSET Nodes] /\ MaxMishaps[g] \in Nat
<1>1. "SUCCESSFUL" \in Statuses
  BY DEF Statuses, Settled
<1> QED BY <1>1, WorkflowAssumption, NoneAssumption, FS_CardinalityType

\* Which actions move what.
LEMMA Movers ==
  ASSUME [Next]_vars
  PROVE  /\ \/ UNCHANGED <<row, succeeded, forgotten>> \/ InsertNode \/ CancelMany
            \/ \E n \in Nodes : \/ Claim(n) \/ RecordNodeOutcome(n) \/ Release(n) \/ Reap(n)
                              \/ Retry(n) \/ Discard(n) \/ MoveByHand(n) \/ Prune(n)
                              \/ \E s \in {"SUCCESSFUL", "FAILED"} : WriteUnrecorded(n, s)
         /\ \/ record' = record \/ InsertNode \/ CancelMany
            \/ \E n \in Nodes : RecordNodeOutcome(n)
            \/ \E marks \in BOOLEAN : RepairRecords(marks)
            \/ \E chunk \in SUBSET Nodes : RetireChunk(chunk)
         /\ \/ edge' = edge \/ InsertNode
            \/ \E n \in Nodes : Recheck(n) \/ RecordNodeOutcome(n)
            \/ \E f \in Edges : BackstopEdge(f)
            \/ \E marks \in BOOLEAN : RepairRecords(marks)
            \/ \E chunk \in SUBSET Nodes : RetireChunk(chunk)
         /\ \/ writing' = writing
            \/ \E n \in Nodes, status \in {"SUCCESSFUL", "FAILED"} : WriteOutcome(n, status)
            \/ \E n \in Nodes : writing' = [writing EXCEPT ![n] = NotWriting]
         /\ flow' = flow \/ InsertNode \/ Seal \/ EnqueueCallbacks \/ StampRetired
         /\ building' = building \/ (\E n \in Nodes : Take(n)) \/ building' = NotBuilding
         /\ \/ tick' = tick \/ tick' = AtRest
            \/ CancelOneLevel \/ LockDoomed \/ CompleteIfFinished \/ CompleteOnce
            \/ LockDeadRows \/ ClassifyAgain
         /\ tick' = tick \/ row' = row \/ CancelMany
         /\ repair' = repair \/ ReadRecords \/ repair' = {}
         /\ vanished' = vanished \/ CancelOneLevel \/ CompleteOnce \/ vanished' # {}
<1> USE DEF Next, Tick, vars, ghosts, Take, Recheck, Claim, RecordNodeOutcome, Release, WriteOutcome,
           WriteUnrecorded, InsertNode, Seal, CompleteIfFinished, CompleteOnce, LockDeadRows,
           ClassifyAgain, EnqueueCallbacks, CancelOneLevel, LockDoomed, CancelMany, BackstopEdge,
           BackstopRelease, ReadRecords, RepairRecords, StampRetired, RetireChunk, Reap, Retry,
           Discard, MoveByHand, Prune, ReleaseFails, Lose
<1>1. \/ UNCHANGED <<row, succeeded, forgotten>> \/ InsertNode \/ CancelMany
      \/ \E n \in Nodes : \/ Claim(n) \/ RecordNodeOutcome(n) \/ Release(n) \/ Reap(n)
                        \/ Retry(n) \/ Discard(n) \/ MoveByHand(n) \/ Prune(n)
                        \/ \E s \in {"SUCCESSFUL", "FAILED"} : WriteUnrecorded(n, s)
  OBVIOUS
<1>2. \/ record' = record \/ InsertNode \/ CancelMany
      \/ \E n \in Nodes : RecordNodeOutcome(n)
      \/ \E marks \in BOOLEAN : RepairRecords(marks)
      \/ \E chunk \in SUBSET Nodes : RetireChunk(chunk)
  OBVIOUS
<1>3. \/ edge' = edge \/ InsertNode
      \/ \E n \in Nodes : Recheck(n) \/ RecordNodeOutcome(n)
      \/ \E f \in Edges : BackstopEdge(f)
      \/ \E marks \in BOOLEAN : RepairRecords(marks)
      \/ \E chunk \in SUBSET Nodes : RetireChunk(chunk)
  OBVIOUS
<1>4. \/ writing' = writing
      \/ \E n \in Nodes, status \in {"SUCCESSFUL", "FAILED"} : WriteOutcome(n, status)
      \/ \E n \in Nodes : writing' = [writing EXCEPT ![n] = NotWriting]
  OBVIOUS
<1>5. flow' = flow \/ InsertNode \/ Seal \/ EnqueueCallbacks \/ StampRetired
  OBVIOUS
<1>6. building' = building \/ (\E n \in Nodes : Take(n)) \/ building' = NotBuilding
  OBVIOUS
<1>7. \/ tick' = tick \/ tick' = AtRest
      \/ CancelOneLevel \/ LockDoomed \/ CompleteIfFinished \/ CompleteOnce
      \/ LockDeadRows \/ ClassifyAgain
  OBVIOUS
<1>8. tick' = tick \/ row' = row \/ CancelMany
  OBVIOUS
<1>9. repair' = repair \/ ReadRecords \/ repair' = {}
  OBVIOUS
<1>10. vanished' = vanished \/ CancelOneLevel \/ CompleteOnce \/ vanished' # {}
  OBVIOUS
<1> QED BY <1>1, <1>2, <1>3, <1>4, <1>5, <1>6, <1>7, <1>8, <1>9, <1>10

\* No action changes the graph or the engine.
LEMMA GraphStays ==
  ASSUME [Next]_vars
  PROVE  engine' = engine /\ deps' = deps /\ Edges' = Edges
  BY DEF Next, Tick, vars, ghosts, Edges, Take, Recheck, Claim, RecordNodeOutcome, Release,
     WriteOutcome,
         WriteUnrecorded, InsertNode, Seal, CompleteIfFinished, CompleteOnce, LockDeadRows,
         ClassifyAgain, EnqueueCallbacks, CancelOneLevel, LockDoomed, CancelMany, BackstopEdge,
         BackstopRelease, ReadRecords, RepairRecords, StampRetired, RetireChunk, Reap, Retry,
         Discard, MoveByHand, Prune, ReleaseFails, Lose

TickType ==
  [at : {"idle", "cancelling", "moving", "finishing", "locking", "counting", "enqueueing"},
   found : SUBSET [node : Nodes, status : Dead, epoch : Nat], gone : SUBSET Nodes,
   held : SUBSET Nodes, pairs : SUBSET (Nodes \X Nat), verdict : SUBSET Verdict]
RowType == [status : Statuses, epoch : Nat]
RecordType == [node : {"absent", "there", "retired"}, outcome : Settled \cup {None},
               epoch : Nat \cup {None}]

\* A record that takes an outcome keeps its type.
LEMMA RecordedType ==
  ASSUME NEW r \in RecordType, NEW status \in Settled, NEW epoch \in Nat
  PROVE  Recorded(r, status, epoch) \in RecordType
  BY DEF Recorded, RecordType

\* The types of what the tick reads and counts.
LEMMA ResultTypes ==
  ASSUME TypeOK
  PROVE  /\ Classify \in Verdict
         /\ Cardinality(There) \in 0 .. Cardinality(Nodes)
         /\ \A ns \in SUBSET Nodes : Cone(ns) \subseteq Nodes \X Nat
         /\ \A ns \in SUBSET Nodes : (\A n \in ns : row[n].status \in Dead) =>
              Read(ns) \subseteq [node : Nodes, status : Dead, epoch : Nat]
         /\ CancellableEdges \subseteq Edges
<1>1. \A S \in SUBSET Nodes : Cardinality(S) \in 0 .. Cardinality(Nodes)
  BY Constants, FS_Subset, FS_CardinalityType
<1>2. Classify \in Verdict
  <2> DEFINE F == {n \in There : ~Pending(n) /\ SettledAs(n) = "FAILED"}
             S == {n \in There : ~Pending(n) /\ SettledAs(n) = "SUCCESSFUL"}
  <2>1. F \in SUBSET Nodes /\ S \in SUBSET Nodes /\ DeadRows \in SUBSET Nodes
    BY DEF There, DeadRows
  <2>2. /\ Cardinality(F) \in 0 .. Cardinality(Nodes) /\ Cardinality(S) \in 0 .. Cardinality(Nodes)
        /\ Cardinality(DeadRows) \in 0 .. Cardinality(Nodes)
    BY <1>1, <2>1
  <2> QED BY <2>2 DEF Classify, Verdict
<1>3. Cardinality(There) \in 0 .. Cardinality(Nodes)
  BY <1>1 DEF There
<1>4. \A ns \in SUBSET Nodes : Cone(ns) \subseteq Nodes \X Nat
  BY EdgeFacts, Constants DEF Cone, TypeOK
<1>5. \A ns \in SUBSET Nodes : (\A n \in ns : row[n].status \in Dead) =>
              Read(ns) \subseteq [node : Nodes, status : Dead, epoch : Nat]
  BY DEF Read, TypeOK
<1> QED BY <1>2, <1>3, <1>4, <1>5 DEF CancellableEdges

\* The types of a step.
LEMMA TypeStep ==
  ASSUME IInv, [Next]_vars, flow'.count \in 0 .. Cardinality(Nodes)
  PROVE  TypeOK'
<1> USE DEF IInv
<1>1. ASSUME NEW n \in Nodes, Take(n) PROVE TypeOK'
  BY <1>1, Constants, EdgeFacts, GraphStays DEF Take, TypeOK, ghosts
<1>2. ASSUME NEW n \in Nodes, Recheck(n) PROVE TypeOK'
  BY <1>2, Constants, EdgeFacts, GraphStays DEF Recheck, Marked, TypeOK, ghosts
<1>3. ASSUME NEW n \in Nodes, Claim(n) PROVE TypeOK'
  BY <1>3, Constants, EdgeFacts, GraphStays DEF Claim, TypeOK, ghosts, Becomes, Mishap,
     Statuses, Settled, Dead, Cancellable, RetryableDead
<1>4. ASSUME NEW n \in Nodes, RecordNodeOutcome(n) PROVE TypeOK'
  <2>1. row' \in [Nodes -> [status : Statuses, epoch : Nat]]
    BY <1>4 DEF RecordNodeOutcome, TypeOK, Becomes, RowType, RetryableDead, Statuses, Settled,
       Dead, Cancellable, Statuses
  <2>2. record' \in [Nodes -> RecordType]
    <3>1. writing[n].status \in Settled /\ row[n].epoch \in Nat
      BY <1>4 DEF RecordNodeOutcome, TypeOK, Settled, Dead
    <3>2. Recorded(record[n], writing[n].status, row[n].epoch) \in RecordType
      BY <3>1, RecordedType DEF TypeOK, RecordType
    <3> QED BY <1>4, <3>2 DEF RecordNodeOutcome, TypeOK, RecordType
  <2>3. edge' \in [Edges -> {"absent", "open", "satisfied", "retired"}]
    BY <1>4 DEF RecordNodeOutcome, Marked, TypeOK
  <2>4. todo' \in SUBSET Nodes
    BY <1>4, EdgeFacts, Constants DEF RecordNodeOutcome, TypeOK, EdgesSeen, EdgesOut
  <2> QED BY <1>4, <2>1, <2>2, <2>3, <2>4, GraphStays, Constants DEF TypeOK, ghosts, Mishap,
             RecordNodeOutcome, Becomes, NotWriting, RecordType
<1>5. ASSUME NEW n \in Nodes, Release(n) PROVE TypeOK'
  <2>1. row' = row \/ row' = [row EXCEPT ![n].status = "READY"]
    BY <1>5 DEF Release
  <2>2. row' \in [Nodes -> [status : Statuses, epoch : Nat]]
    <3>1. "READY" \in Statuses
      BY DEF Statuses, Cancellable
    <3>2. \A m \in Nodes : row'[m] \in {row[m], [row[m] EXCEPT !.status = "READY"]}
      BY <2>1 DEF TypeOK
    <3>3. row' = [m \in Nodes |-> row'[m]]
      BY <2>1 DEF TypeOK
    <3>4. \A m \in Nodes : row[m] \in [status : Statuses, epoch : Nat]
      BY DEF TypeOK
    <3>5. \A m \in Nodes : row'[m] \in [status : Statuses, epoch : Nat]
      BY <3>1, <3>2, <3>4
    <3> QED BY <3>3, <3>5
  <2> QED BY <1>5, <2>2, GraphStays DEF TypeOK, Release, ghosts
<1>6. ASSUME NEW n \in Nodes, NEW s \in {"SUCCESSFUL", "FAILED"}, WriteOutcome(n, s) PROVE TypeOK'
  BY <1>6, Constants, EdgeFacts, GraphStays DEF WriteOutcome, EdgesOut, TypeOK, ghosts
<1>7. ASSUME NEW n \in Nodes, NEW s \in {"SUCCESSFUL", "FAILED"}, WriteUnrecorded(n, s) PROVE TypeOK'
  BY <1>7, Constants, EdgeFacts, GraphStays DEF WriteUnrecorded, TypeOK, ghosts, Becomes,
     Mishap, Statuses, Settled, Dead, Cancellable, RetryableDead
<1>8. ASSUME InsertNode PROVE TypeOK'
  <2>1. row' \in [Nodes -> [status : Statuses, epoch : Nat]]
    BY <1>8 DEF InsertNode, TypeOK, Statuses, Cancellable
  <2>2. record' \in [Nodes -> [node : {"absent", "there", "retired"},
                           outcome : Settled \cup {None}, epoch : Nat \cup {None}]]
    BY <1>8 DEF InsertNode, TypeOK, Blank
  <2>3. edge' \in [Edges -> {"absent", "open", "satisfied", "retired"}]
    BY <1>8 DEF InsertNode, TypeOK
  <2>4. flow' \in [status : {"open", "sealed", "complete"}, count : 0 .. Cardinality(Nodes),
                 total : 0 .. Cardinality(Nodes) \cup {None}, succeeds : BOOLEAN, stamped : BOOLEAN]
    BY <1>8, Constants DEF InsertNode, TypeOK
  <2> QED BY <1>8, <2>1, <2>2, <2>3, <2>4, GraphStays, Constants DEF TypeOK, ghosts, Mishap,
             InsertNode, NotBuilding
<1>9. ASSUME Seal PROVE TypeOK'
  BY <1>9, Constants, EdgeFacts, GraphStays DEF Seal, SealTotals, TypeOK, ghosts
<1>10. ASSUME CompleteIfFinished PROVE TypeOK'
  BY <1>10, Constants, EdgeFacts, GraphStays DEF CompleteIfFinished, TypeOK, ghosts, Mishap,
     NotBuilding, NotWriting, AtRest
<1>11. ASSUME CompleteOnce PROVE TypeOK'
  <2>1. tick' \in TickType
    BY <1>11, ResultTypes, EdgeFacts, Constants DEF TypeOK, TickType, AtRest, RetryableDead,
       Dead, CompleteOnce, DeadRows, There
  <2> QED BY <1>11, <2>1, GraphStays DEF TypeOK, TickType, ghosts, CompleteOnce
<1>12. ASSUME LockDeadRows PROVE TypeOK'
  <2> DEFINE held == {r.node : r \in {s \in tick.found : row[s.node].status # "gone"}}
  <2>1. tick \in TickType /\ held \in SUBSET Nodes
    BY DEF TypeOK, TickType
  <2>8. tick' \in TickType
    BY <1>12, <2>1 DEF TickType, AtRest, LockDeadRows
  <2> QED BY <1>12, <2>8, GraphStays DEF TypeOK, TickType, ghosts, LockDeadRows
<1>13. ASSUME ClassifyAgain PROVE TypeOK'
  <2> DEFINE v == IF engine = "refuses" THEN CHOOSE w \in tick.verdict : TRUE ELSE Classify
  <2>1. tick \in TickType
    BY DEF TypeOK, TickType
  <2>2. v \in Verdict
    BY <2>1, ResultTypes, <1>13 DEF ClassifyAgain, CompleteHolds, SnapshotHolds
  <2>3. tick' = AtRest \/ tick' = [tick EXCEPT !.at = "enqueueing", !.verdict = {v}]
    BY <1>13 DEF ClassifyAgain
  <2>8. tick' \in TickType
    BY <1>13, <2>1, <2>2, <2>3 DEF TickType, AtRest, ClassifyAgain
  <2> QED BY <1>13, <2>8, GraphStays DEF TypeOK, TickType, ghosts, ClassifyAgain
<1>14. ASSUME EnqueueCallbacks PROVE TypeOK'
  <2>1. flow' \in [status : {"open", "sealed", "complete"}, count : 0 .. Cardinality(Nodes),
                 total : 0 .. Cardinality(Nodes) \cup {None}, succeeds : BOOLEAN, stamped : BOOLEAN]
    BY <1>14, ResultTypes, Constants DEF EnqueueCallbacks, TypeOK, CleanRun
  <2> QED BY <1>14, <2>1, GraphStays, Constants DEF TypeOK, ghosts, Mishap, EnqueueCallbacks,
             AtRest
<1>15. ASSUME CancelOneLevel PROVE TypeOK'
  <2> DEFINE ups == {e[1] : e \in CancellableEdges}
             found == Read({u \in ups : IsDead(u)})
             gone == {u \in ups : ~IsDead(u)}
             pairs == IF engine = "refuses" THEN Cone(ups) ELSE {}
  <2>1. ups \in SUBSET Nodes
    BY ResultTypes, EdgeFacts, Constants DEF TypeOK
  <2>2. found \in SUBSET [node : Nodes, status : Dead, epoch : Nat]
    BY <2>1, ResultTypes DEF IsDead
  <2>3. gone \in SUBSET Nodes /\ pairs \in SUBSET (Nodes \X Nat)
    BY <2>1, ResultTypes
  <2>4. tick' = [AtRest EXCEPT !.at = "cancelling", !.found = found, !.gone = gone, !.pairs = pairs]
    BY <1>15 DEF CancelOneLevel
  <2> HIDE DEF ups, found, gone, pairs
  <2>8. tick' \in TickType
    BY <1>15, <2>2, <2>3, <2>4 DEF TickType, AtRest, CancelOneLevel
  <2> QED BY <1>15, <2>8, GraphStays DEF TypeOK, TickType, ghosts, CancelOneLevel
<1>16. ASSUME LockDoomed PROVE TypeOK'
  <2> DEFINE doomed == StillDead(tick.found) \cup {u \in tick.gone : RecordedDead(u)}
             held == {r.node : r \in {s \in tick.found : row[s.node].status # "gone"}}
  <2>1. tick \in TickType
    BY DEF TypeOK, TickType
  <2>2. doomed \in SUBSET Nodes /\ held \in SUBSET Nodes
    BY <2>1 DEF TickType, StillDead
  <2>3. Cone(doomed) \in SUBSET (Nodes \X Nat)
    BY <2>2, ResultTypes
  <2>4. \/ tick' = AtRest
        \/ tick' = [tick EXCEPT !.at = "moving", !.held = doomed]
        \/ tick' = [tick EXCEPT !.at = "moving", !.pairs = Cone(doomed), !.held = held]
    BY <1>16 DEF LockDoomed
  <2> HIDE DEF doomed, held
  <2>8. tick' \in TickType
    <3>1. CASE tick' = AtRest
      BY <3>1 DEF TickType, AtRest
    <3>2. CASE tick' = [tick EXCEPT !.at = "moving", !.held = doomed]
      BY <2>1, <2>2, <3>2 DEF TickType
    <3>3. CASE tick' = [tick EXCEPT !.at = "moving", !.pairs = Cone(doomed), !.held = held]
      BY <2>1, <2>2, <2>3, <3>3 DEF TickType
    <3> QED BY <2>4, <3>1, <3>2, <3>3
  <2> QED BY <1>16, <2>8, GraphStays DEF TypeOK, TickType, ghosts, LockDoomed
<1>17. ASSUME CancelMany PROVE TypeOK'
  <2>1. row' \in [Nodes -> [status : Statuses, epoch : Nat]]
    <3>1. \A n \in Nodes : row'[n] \in {row[n], [row[n] EXCEPT !.status = "DISCARDED"]}
      BY <1>17 DEF CancelMany
    <3>2. row' = [n \in Nodes |-> row'[n]]
      BY <1>17 DEF CancelMany
    <3>3. \A n \in Nodes : row[n] \in [status : Statuses, epoch : Nat]
      BY DEF TypeOK
    <3>4. \A n \in Nodes : row'[n] \in [status : Statuses, epoch : Nat]
      BY <3>1, <3>3 DEF Statuses, Settled, Dead
    <3> QED BY <3>2, <3>4
  <2>2. record' \in [Nodes -> RecordType]
    <3>1. \A n \in Nodes : Recorded(record[n], "DISCARDED", row'[n].epoch) \in RecordType
      BY <2>1, RecordedType DEF TypeOK, RecordType, Settled, Dead
    <3>2. \A n \in Nodes : record'[n] \in {record[n], Recorded(record[n], "DISCARDED", row'[n].epoch)}
      BY <1>17 DEF CancelMany
    <3>3. \A n \in Nodes : record[n] \in RecordType
      BY DEF TypeOK, RecordType
    <3>4. \A n \in Nodes : record'[n] \in RecordType
      BY <3>1, <3>2, <3>3
    <3>5. record' = [n \in Nodes |-> record'[n]]
      BY <1>17 DEF CancelMany
    <3> QED BY <3>4, <3>5
  <2> QED BY <1>17, <2>1, <2>2, GraphStays, Constants DEF TypeOK, ghosts, CancelMany, AtRest,
             RecordType
<1>18. ASSUME NEW e \in Edges, BackstopEdge(e) PROVE TypeOK'
  BY <1>18, Constants, EdgeFacts, GraphStays DEF BackstopEdge, Marked, TypeOK, ghosts
<1>19. ASSUME NEW n \in Nodes, BackstopRelease(n) PROVE TypeOK'
  BY <1>19, Constants, EdgeFacts, GraphStays DEF BackstopRelease, TypeOK, ghosts
<1>20. ASSUME ReadRecords PROVE TypeOK'
  BY <1>20, Constants, EdgeFacts, GraphStays DEF ReadRecords, Behind, TypeOK, ghosts
<1>21. ASSUME NEW marks \in BOOLEAN, RepairRecords(marks) PROVE TypeOK'
  <2>1. record' \in [Nodes -> RecordType]
    <3>1. ASSUME NEW n \in Nodes PROVE record'[n] \in RecordType
      <4> DEFINE r == CHOOSE r \in repair : r.node = n
      <4>1. CASE \E q \in repair : q.node = n
        <5>1. r \in repair
          BY <4>1
        <5>2. Recorded(record[n], r.status, r.epoch) \in RecordType
          BY <5>1, RecordedType DEF TypeOK, RecordType
        <5>3. record'[n] = Recorded(record[n], r.status, r.epoch)
          BY <1>21, <4>1 DEF RepairRecords
        <5> QED BY <5>2, <5>3
      <4>2. CASE ~\E q \in repair : q.node = n
        BY <1>21, <4>2 DEF RepairRecords, TypeOK, RecordType
      <4> QED BY <4>1, <4>2
    <3>2. record' = [n \in Nodes |-> record'[n]]
      BY <1>21 DEF RepairRecords
    <3> QED BY <3>1, <3>2
  <2>2. edge' \in [Edges -> {"absent", "open", "satisfied", "retired"}] /\ todo' \in SUBSET Nodes
    BY <1>21, EdgeFacts, Constants DEF RepairRecords, Marked, TypeOK
  <2> QED BY <1>21, <2>1, <2>2, GraphStays, Constants DEF TypeOK, ghosts, RecordType,
             RepairRecords
<1>22. ASSUME StampRetired PROVE TypeOK'
  BY <1>22, Constants, EdgeFacts, GraphStays DEF StampRetired, TypeOK, ghosts
<1>23. ASSUME NEW chunk \in SUBSET Nodes, RetireChunk(chunk) PROVE TypeOK'
  BY <1>23, Constants, EdgeFacts, GraphStays DEF RetireChunk, Going, Owed, There, TypeOK,
     Becomes, ghosts, Mishap, Dead, RetryableDead, Retirable, Settled, Cancellable, Statuses,
     Absent, NoRecord, Blank, NotBuilding, NotWriting, AtRest
<1>24. ASSUME NEW n \in Nodes, Reap(n) PROVE TypeOK'
  <2>1. \E status \in Statuses, epoch \in Nat : Becomes(n, status, epoch)
    <3>1. row[n].epoch \in Nat /\ row[n].epoch + 1 \in Nat
      BY DEF TypeOK
    <3>2. {"READY", "LOST"} \subseteq Statuses
      BY DEF Statuses, Settled, Dead, Cancellable
    <3> QED BY <1>24, <3>1, <3>2 DEF Reap
  <2> QED BY <1>24, <2>1, GraphStays, Constants DEF TypeOK, ghosts, Mishap, Reap, Becomes
<1>25. ASSUME NEW n \in Nodes, Retry(n) PROVE TypeOK'
  BY <1>25, Constants, EdgeFacts, GraphStays DEF Retry, TypeOK, ghosts, Becomes, Mishap,
     Statuses, Settled, Dead, Cancellable, RetryableDead
<1>26. ASSUME NEW n \in Nodes, Discard(n) PROVE TypeOK'
  BY <1>26, Constants, EdgeFacts, GraphStays DEF Discard, TypeOK, ghosts, Becomes, Mishap,
     Statuses, Settled, Dead, Cancellable, RetryableDead
<1>27. ASSUME NEW n \in Nodes, MoveByHand(n) PROVE TypeOK'
  BY <1>27, Constants, EdgeFacts, GraphStays DEF MoveByHand, TypeOK, ghosts, Becomes, Mishap,
     Statuses, Settled, Dead, Cancellable, RetryableDead
<1>28. ASSUME NEW n \in Nodes, Prune(n) PROVE TypeOK'
  <2>1. row' \in [Nodes -> [status : Statuses, epoch : Nat]]
    BY <1>28 DEF Prune, TypeOK, Becomes, RowType, RetryableDead, Statuses, Settled, Dead,
       Cancellable, Statuses
  <2> QED BY <1>28, <2>1, GraphStays, Constants DEF TypeOK, ghosts, Mishap, Prune
<1>29. ASSUME NEW n \in Nodes, ReleaseFails(n) PROVE TypeOK'
  BY <1>29, Constants, EdgeFacts, GraphStays DEF ReleaseFails, TypeOK, ghosts, Mishap
<1>30. ASSUME Lose PROVE TypeOK'
  <2>1. tick \in TickType /\ tick' \in {tick, AtRest}
    BY <1>30 DEF Lose, TypeOK, TickType
  <2>2. tick' \in TickType
    BY <2>1 DEF TickType, AtRest
  <2>3. building' \in {building, NotBuilding} /\ recheck' \subseteq recheck /\ repair' \subseteq repair
    BY <1>30 DEF Lose
  <2>4. writing' \in [Nodes -> [status : {"SUCCESSFUL", "FAILED", None}, seen : SUBSET Edges]]
    BY <1>30 DEF Lose, TypeOK, NotWriting
  <2>5. mishaps' \in 0 .. MaxMishaps[deps']
    BY <1>30, Constants DEF Lose, Mishap, TypeOK
  <2> QED BY <1>30, <2>2, <2>3, <2>4, <2>5, GraphStays DEF Lose, TypeOK, TickType, NotBuilding,
             ghosts
<1>31. CASE UNCHANGED vars
  BY <1>31, Constants, EdgeFacts, GraphStays DEF vars, TypeOK, ghosts
<1>32. QED
  BY <1>1, <1>2, <1>3, <1>4, <1>5, <1>6, <1>7, <1>8, <1>9, <1>10, <1>11, <1>12, <1>13, <1>14,
     <1>15, <1>16, <1>17, <1>18, <1>19, <1>20, <1>21, <1>22, <1>23, <1>24, <1>25, <1>26, <1>27,
     <1>28, <1>29, <1>30, <1>31 DEF Next, Tick

-----------------------------------------------------------------------------
(* How a row, a record and an edge can move.                               *)

To(n, from, status, epoch) ==
  row[n].status \in from /\ row'[n] = [status |-> status, epoch |-> epoch]

RowMoves(n) ==
  \/ row'[n] = row[n]
  \/ /\ InsertNode /\ n = building.node
     /\ \E status \in Cancellable : To(n, {"absent"}, status, row[n].epoch)
  \/ /\ writing[n].status # None /\ writing'[n] = NotWriting
     /\ To(n, {"RUNNING", "LOST"}, writing[n].status, row[n].epoch)
     /\ record'[n] = Recorded(record[n], writing[n].status, row[n].epoch)
  \/ /\ tick.at = "moving" /\ writing[n].status = None
     /\ To(n, Cancellable, "DISCARDED", row[n].epoch)
  \/ /\ ~Locked(n)
     /\ \/ Runnable(n) /\ To(n, {"READY"}, "RUNNING", row[n].epoch + 1)
        \/ To(n, {"WAITING"}, "READY", row[n].epoch)
        \/ To(n, {"RUNNING"}, "READY", row[n].epoch + 1)
        \/ To(n, {"RUNNING"}, "LOST", row[n].epoch)
        \/ n \in forgotten' /\ \E s \in {"SUCCESSFUL", "FAILED"} : To(n, {"RUNNING"}, s, row[n].epoch)
        \/ To(n, RetryableDead, "READY", row[n].epoch + 1)
        \/ To(n, {"READY", "FAILED", "LOST", "WAITING"}, "DISCARDED", row[n].epoch)
        \/ To(n, Settled, "gone", row[n].epoch) /\ (n \in FoundNodes => vanished' # {})

\* The moves of a row.
LEMMA RowsMove ==
  ASSUME IInv, [Next]_vars, NEW n \in Nodes
  PROVE  RowMoves(n)
<1>1. ASSUME NEW k \in Nodes, Claim(k) PROVE RowMoves(n)
  BY <1>1 DEF RowMoves, Claim, Becomes, TypeOK, IInv, To
<1>2. ASSUME NEW k \in Nodes, RecordNodeOutcome(k) PROVE RowMoves(n)
  BY <1>2 DEF RowMoves, RecordNodeOutcome, Becomes, TypeOK, IInv, RowsHold, To
<1>3. ASSUME NEW k \in Nodes, Release(k) PROVE RowMoves(n)
  BY <1>3 DEF RowMoves, Release, TypeOK, IInv, To
<1>4. ASSUME NEW k \in Nodes, NEW s \in {"SUCCESSFUL", "FAILED"}, WriteUnrecorded(k, s) PROVE RowMoves(n)
  BY <1>4 DEF RowMoves, WriteUnrecorded, Becomes, TypeOK, IInv, To
<1>5. ASSUME InsertNode PROVE RowMoves(n)
  BY <1>5 DEF RowMoves, InsertNode, IInv, TypeOK, FlowHolds, RowsHold, To, Cancellable
<1>6. ASSUME CancelMany PROVE RowMoves(n)
  BY <1>6 DEF RowMoves, CancelMany, Movable, TypeOK, IInv, To
<1>7. ASSUME NEW k \in Nodes, Reap(k) PROVE RowMoves(n)
  BY <1>7 DEF RowMoves, Reap, Becomes, TypeOK, IInv, To
<1>8. ASSUME NEW k \in Nodes, Retry(k) PROVE RowMoves(n)
  BY <1>8 DEF RowMoves, Retry, Becomes, TypeOK, IInv, To
<1>9. ASSUME NEW k \in Nodes, Discard(k) PROVE RowMoves(n)
  BY <1>9 DEF RowMoves, Discard, Becomes, TypeOK, IInv, To
<1>10. ASSUME NEW k \in Nodes, MoveByHand(k) PROVE RowMoves(n)
  BY <1>10 DEF RowMoves, MoveByHand, Becomes, TypeOK, IInv, To
<1>11. ASSUME NEW k \in Nodes, Prune(k) PROVE RowMoves(n)
  <2>1. CASE k = n
    <3>1. To(n, Settled, "gone", row[n].epoch) /\ ~Locked(n)
      BY <1>11, <2>1 DEF Prune, TypeOK, IInv, To
    <3>2. n \in FoundNodes => vanished' # {}
      BY <1>11, <2>1 DEF Prune, FoundNodes
    <3> QED BY <3>1, <3>2 DEF RowMoves
  <2>2. CASE k # n
    BY <1>11, <2>2 DEF RowMoves, Prune, TypeOK, IInv
  <2> QED BY <2>1, <2>2
<1>12. CASE UNCHANGED <<row, succeeded, forgotten>>
  BY <1>12 DEF RowMoves
<1> QED BY <1>1, <1>2, <1>3, <1>4, <1>5, <1>6, <1>7, <1>8, <1>9, <1>10, <1>11, <1>12, Movers

SucceededGrows ==
  /\ succeeded \subseteq succeeded' /\ forgotten \subseteq forgotten'
  /\ \A n \in succeeded' : n \in succeeded \/ row'[n].status = "SUCCESSFUL"
  /\ \A n \in Nodes : row'[n].status = "SUCCESSFUL" /\ row[n].status # "SUCCESSFUL" => n \in succeeded'

\* What is remembered of successes.
LEMMA Succeed ==
  ASSUME IInv, [Next]_vars
  PROVE  SucceededGrows
<1>1. ASSUME NEW n \in Nodes, Claim(n) PROVE SucceededGrows
  BY <1>1 DEF SucceededGrows, Becomes, TypeOK, IInv, Claim
<1>2. ASSUME NEW n \in Nodes, RecordNodeOutcome(n) PROVE SucceededGrows
  BY <1>2 DEF SucceededGrows, Becomes, TypeOK, IInv, RecordNodeOutcome
<1>3. ASSUME NEW n \in Nodes, Release(n) PROVE SucceededGrows
  <2>1. \A k \in Nodes : row'[k].status \in {row[k].status, "READY"}
    <3>1. row' = row \/ row' = [row EXCEPT ![n].status = "READY"]
      BY <1>3 DEF Release
    <3>2. row \in [Nodes -> [status : Statuses, epoch : Nat]]
      BY DEF TypeOK, IInv
    <3> QED BY <3>1, <3>2
  <2>2. succeeded' = succeeded /\ forgotten' = forgotten
    BY <1>3 DEF Release, ghosts
  <2> QED BY <2>1, <2>2 DEF SucceededGrows
<1>4. ASSUME NEW n \in Nodes, NEW s \in {"SUCCESSFUL", "FAILED"}, WriteUnrecorded(n, s) PROVE SucceededGrows
  BY <1>4 DEF SucceededGrows, Becomes, TypeOK, IInv, WriteUnrecorded
<1>5. ASSUME InsertNode PROVE SucceededGrows
  BY <1>5 DEF SucceededGrows, TypeOK, IInv, ghosts, InsertNode
<1>6. ASSUME CancelMany PROVE SucceededGrows
  BY <1>6 DEF SucceededGrows, TypeOK, IInv, ghosts, CancelMany
<1>7. ASSUME NEW n \in Nodes, Reap(n) PROVE SucceededGrows
  <2>1. \A k \in Nodes : row'[k].status \in {row[k].status, "READY", "LOST"}
    <3>1. \E status \in {"READY", "LOST"}, epoch \in Nat :
             row' = [row EXCEPT ![n] = [status |-> status, epoch |-> epoch]]
      BY <1>7 DEF Reap, Becomes, TypeOK, IInv
    <3>2. row \in [Nodes -> [status : Statuses, epoch : Nat]]
      BY DEF TypeOK, IInv
    <3> QED BY <3>1, <3>2
  <2>2. succeeded' = succeeded /\ forgotten' = forgotten
    BY <1>7 DEF Reap, Becomes
  <2> QED BY <2>1, <2>2 DEF SucceededGrows
<1>8. ASSUME NEW n \in Nodes, Retry(n) PROVE SucceededGrows
  BY <1>8 DEF SucceededGrows, Becomes, TypeOK, IInv, Retry
<1>9. ASSUME NEW n \in Nodes, Discard(n) PROVE SucceededGrows
  BY <1>9 DEF SucceededGrows, Becomes, TypeOK, IInv, Discard
<1>10. ASSUME NEW n \in Nodes, MoveByHand(n) PROVE SucceededGrows
  BY <1>10 DEF SucceededGrows, Becomes, TypeOK, IInv, MoveByHand
<1>11. ASSUME NEW n \in Nodes, Prune(n) PROVE SucceededGrows
  BY <1>11 DEF SucceededGrows, TypeOK, IInv, Prune
<1>12. CASE UNCHANGED <<row, succeeded, forgotten>>
  BY <1>12 DEF SucceededGrows
<1> QED BY <1>1, <1>2, <1>3, <1>4, <1>5, <1>6, <1>7, <1>8, <1>9, <1>10, <1>11, <1>12, Movers

RecordMoves(n) ==
  \/ record'[n] = record[n]
  \/ InsertNode /\ n = building.node /\ record[n].node = "absent" /\ record'[n] = Blank
  \/ /\ flow.stamped /\ record[n].node = "there" /\ Over(n) /\ row' = row
     /\ record'[n] = [NoRecord EXCEPT !.node = "retired"]
     /\ n \in succeeded \ forgotten => \A e \in EdgesOut(n) : edge'[e] # "open"
  \/ /\ writing[n].status # None
     /\ record'[n] = Recorded(record[n], writing[n].status, row[n].epoch)
     /\ row'[n] = [status |-> writing[n].status, epoch |-> row[n].epoch]
  \/ \E r \in repair : r.node = n /\ row' = row /\ record'[n] = Recorded(record[n], r.status, r.epoch)
  \/ /\ tick.at = "moving" /\ row'[n].status = "DISCARDED"
     /\ record'[n] = Recorded(record[n], "DISCARDED", row'[n].epoch)

\* The moves of a record.
LEMMA RecordsMove ==
  ASSUME IInv, [Next]_vars, NEW n \in Nodes
  PROVE  RecordMoves(n)
<1>1. ASSUME NEW k \in Nodes, RecordNodeOutcome(k) PROVE RecordMoves(n)
  BY <1>1 DEF RecordMoves, RecordNodeOutcome, Becomes, TypeOK, IInv
<1>2. ASSUME InsertNode PROVE RecordMoves(n)
  BY <1>2 DEF RecordMoves, InsertNode, TypeOK, IInv, FlowHolds, Cancellable
<1>3. ASSUME CancelMany PROVE RecordMoves(n)
  BY <1>3 DEF RecordMoves, CancelMany, TypeOK, IInv
<1>4. ASSUME NEW marks \in BOOLEAN, RepairRecords(marks) PROVE RecordMoves(n)
  BY <1>4 DEF RecordMoves, RepairRecords, TypeOK, IInv
<1>5. ASSUME NEW chunk \in SUBSET Nodes, RetireChunk(chunk) PROVE RecordMoves(n)
    <2>1. CASE n \in Going(chunk)
    <3>1. /\ record'[n] = [NoRecord EXCEPT !.node = "retired"] /\ row' = row
          /\ flow.stamped /\ record[n].node = "there" /\ Over(n)
      BY <1>5, <2>1 DEF RetireChunk, Going, There, Over
    <3>2. ASSUME n \in succeeded \ forgotten, NEW e \in EdgesOut(n) PROVE edge'[e] # "open"
      <4>1. row[n].status = "SUCCESSFUL" \/ (row[n].status = "gone" /\ record[n].outcome = "SUCCESSFUL")
        BY <3>1, <3>2 DEF IInv, SuccessesHold, RecordsHold
      <4>2. e \in Edges /\ e[1] = n
        BY DEF EdgesOut
      <4> QED BY <1>5, <2>1, <4>1, <4>2 DEF RetireChunk, Owed
    <3> QED BY <3>1, <3>2 DEF RecordMoves
  <2>2. CASE n \notin Going(chunk)
    BY <1>5, <2>2 DEF RecordMoves, RetireChunk
  <2> QED BY <2>1, <2>2
<1>6. CASE record' = record
  BY <1>6 DEF RecordMoves
<1> QED BY <1>1, <1>2, <1>3, <1>4, <1>5, <1>6, Movers

EdgeMoves(e) ==
  \/ edge'[e] = edge[e]
  \/ /\ InsertNode /\ e[2] = building.node
     /\ edge'[e] = "open" \/ (edge'[e] = "satisfied" /\ e[1] \in succeeded)
  \/ edge[e] = "open" /\ edge'[e] = "satisfied" /\ e[1] \in succeeded'
  \/ edge'[e] = "retired" /\ record'[e[2]].node = "retired"

\* The moves of an edge.
LEMMA EdgesMove ==
  ASSUME IInv, [Next]_vars, NEW e \in Edges
  PROVE  EdgeMoves(e)
<1>1. ASSUME NEW n \in Nodes, Recheck(n) PROVE EdgeMoves(e)
  <2>1. e[1] \in Nodes /\ (Proven(e[1]) => e[1] \in succeeded)
    BY EdgeFacts, Constants DEF TypeOK, IInv, SuccessesHold, Proven
  <2>2. edge'[e] = edge[e] \/ (edge[e] = "open" /\ edge'[e] = "satisfied" /\ Proven(e[1]))
    BY <1>1 DEF Recheck, Marked
  <2>3. succeeded' = succeeded
    BY <1>1 DEF Recheck, ghosts
  <2> QED BY <2>1, <2>2, <2>3 DEF EdgeMoves
<1>2. ASSUME NEW n \in Nodes, RecordNodeOutcome(n) PROVE EdgeMoves(e)
  <2> DEFINE out == IF writing[n].status = "SUCCESSFUL" THEN EdgesSeen(n) ELSE {}
  <2>1. edge'[e] = edge[e] \/ (edge[e] = "open" /\ edge'[e] = "satisfied" /\ e \in out)
    BY <1>2 DEF RecordNodeOutcome, Marked
  <2>2. e \in out => e[1] = n /\ n \in succeeded'
    <3>1. \A f \in writing[n].seen : f[1] = n
      BY <1>2 DEF RecordNodeOutcome, IInv, RowsHold, EdgesOut
    <3> QED BY <1>2, <3>1 DEF RecordNodeOutcome, Becomes, EdgesSeen, EdgesOut
  <2> QED BY <2>1, <2>2 DEF EdgeMoves
<1>3. ASSUME InsertNode PROVE EdgeMoves(e)
  BY <1>3, EdgeFacts, Constants DEF EdgeMoves, TypeOK, IInv, SuccessesHold, FlowHolds,
     InsertNode, SucceededAmong
<1>4. ASSUME NEW f \in Edges, BackstopEdge(f) PROVE EdgeMoves(e)
  BY <1>4, EdgeFacts, Constants DEF EdgeMoves, TypeOK, IInv, SuccessesHold, BackstopEdge,
     Marked, Proven, ghosts
<1>5. ASSUME NEW marks \in BOOLEAN, RepairRecords(marks) PROVE EdgeMoves(e)
  BY <1>5, EdgeFacts, Constants DEF EdgeMoves, TypeOK, IInv, SuccessesHold, RepairRecords,
     Marked, ghosts
<1>6. ASSUME NEW chunk \in SUBSET Nodes, RetireChunk(chunk) PROVE EdgeMoves(e)
  BY <1>6, EdgeFacts, Constants DEF EdgeMoves, TypeOK, IInv, SuccessesHold, RetireChunk, Owed,
     Going, There, ghosts
<1>7. CASE edge' = edge
  BY <1>7 DEF EdgeMoves
<1> QED BY <1>1, <1>2, <1>3, <1>4, <1>5, <1>6, <1>7, Movers

\* A new outcome is written only over a row that nobody else holds.
LEMMA WritingMoves ==
  ASSUME IInv, [Next]_vars, NEW n \in Nodes
  PROVE  \/ writing'[n] = writing[n]
         \/ writing'[n] = NotWriting
         \/ /\ ~Locked(n) /\ row' = row /\ row[n].status \in {"RUNNING", "LOST"}
            /\ writing'[n].seen \subseteq EdgesOut(n) /\ UNCHANGED <<tick, deps>>
<1>1. \/ writing' = writing
      \/ \E k \in Nodes, status \in {"SUCCESSFUL", "FAILED"} : WriteOutcome(k, status)
      \/ \E k \in Nodes : writing' = [writing EXCEPT ![k] = NotWriting]
  BY Movers
<1>2. ASSUME NEW k \in Nodes, NEW status \in {"SUCCESSFUL", "FAILED"}, WriteOutcome(k, status)
      PROVE  \/ writing'[n] = writing[n]
             \/ /\ ~Locked(n) /\ row' = row /\ row[n].status \in {"RUNNING", "LOST"}
                /\ writing'[n].seen \subseteq EdgesOut(n) /\ UNCHANGED <<tick, deps>>
  BY <1>2 DEF WriteOutcome, IInv, TypeOK
<1> QED BY <1>1, <1>2 DEF IInv, TypeOK

-----------------------------------------------------------------------------
(* The invariant, part by part.                                            *)

\* Every initial state satisfies the invariant.
LEMMA InitHolds == Init => IInv
<1> SUFFICES ASSUME Init PROVE IInv
  OBVIOUS
<1>1. TypeOK
  BY Constants, FS_EmptySet, FS_CardinalityType DEF Init, TypeOK, Absent, NoRecord, NotBuilding,
     NotWriting, AtRest, Statuses, Settled
<1>2. Added = {}
  BY DEF Added, Init, NoRecord
<1>3. FlowHolds
  BY <1>2, FS_EmptySet DEF Init, FlowHolds, NoRecord, NotBuilding, AtRest, InTransaction
<1>4. RowsHold
  <2>1. \A n \in Nodes : row[n].status = "absent" /\ record[n].node = "absent"
                         /\ writing[n].status = None /\ writing[n].seen = {}
    BY DEF Init, NoRecord, Absent, NotWriting
  <2>2. \A e \in Edges : edge[e] = "absent" /\ e[2] \in Nodes
    BY EdgeFacts, Constants, <1>1 DEF Init, TypeOK
  <2> QED BY <2>1, <2>2 DEF RowsHold
<1>5. SuccessesHold
  BY Constants DEF Init, SuccessesHold, NoRecord, Absent, NotBuilding
<1>6. RecordsHold
  BY Constants DEF Init, RecordsHold, NoRecord
<1>7. CancelHolds
  BY DEF Init, CancelHolds, AtRest, InTransaction
<1>8. CompleteHolds
  BY DEF Init, CompleteHolds, AtRest
<1> QED BY <1>1, <1>3, <1>4, <1>5, <1>6, <1>7, <1>8 DEF IInv

\* Nodes are added by add() alone, and none while a tick's transaction is open.
LEMMA AddedMoves ==
  ASSUME IInv, [Next]_vars
  PROVE  /\ InsertNode => Added' = Added \cup {building.node} /\ building.node \in Nodes \ Added
         /\ ~InsertNode => Added' = Added
         /\ \A n \in Nodes : record'[n].node = "retired" => record[n].node = "retired" \/ flow.stamped
         /\ \A n \in Nodes : record[n].node = "retired" => record'[n] = record[n]
         /\ ~flow.stamped /\ ~InsertNode => There' = There
<1>1. ASSUME NEW n \in Nodes
      PROVE  /\ record[n].node = "absent" /\ record'[n].node # "absent" => InsertNode /\ n = building.node
             /\ record'[n].node = "absent" => record[n].node = "absent"
             /\ record'[n].node = "retired" => record[n].node = "retired" \/ flow.stamped
             /\ record[n].node = "retired" => record'[n] = record[n]
             /\ record[n].node = "there" => record'[n].node = "there" \/ flow.stamped
             /\ record'[n].node = "there" => record[n].node = "there" \/ InsertNode
  <2>1. record[n] \in RecordType
    BY DEF IInv, TypeOK, RecordType
  <2>2. \A status, epoch :
          /\ Recorded(record[n], status, epoch).node = record[n].node
          /\ record[n].node = "retired" => Recorded(record[n], status, epoch) = record[n]
    BY <2>1 DEF Recorded, RecordType
  <2>3. \/ record'[n] = record[n]
        \/ InsertNode /\ n = building.node /\ record[n].node = "absent" /\ record'[n].node = "there"
        \/ flow.stamped /\ record[n].node = "there" /\ record'[n].node = "retired"
        \/ record'[n] = Recorded(record[n], writing[n].status, row[n].epoch)
        \/ \E r \in repair : record'[n] = Recorded(record[n], r.status, r.epoch)
        \/ record'[n] = Recorded(record[n], "DISCARDED", row'[n].epoch)
    <3>1. Blank.node = "there" /\ [NoRecord EXCEPT !.node = "retired"].node = "retired"
      BY DEF Blank, NoRecord
    <3> QED BY <3>1, RecordsMove DEF RecordMoves
  <2> QED BY <2>1, <2>2, <2>3
<1>2. InsertNode => building.node \in Nodes /\ record[building.node].node = "absent"
                    /\ record'[building.node] = Blank
  BY Constants DEF InsertNode, IInv, TypeOK, FlowHolds
<1>3. InsertNode => Added' = Added \cup {building.node} /\ building.node \in Nodes \ Added
  BY <1>1, <1>2 DEF Added, Blank
<1>4. ~InsertNode => Added' = Added
  BY <1>1 DEF Added
<1>5. ~flow.stamped /\ ~InsertNode => There' = There
  BY <1>1 DEF There
<1> QED BY <1>1, <1>3, <1>4, <1>5

\* The workflow row keeps its count, and its status is where add() and the tick leave it.
LEMMA FlowStep ==
  ASSUME IInv, [Next]_vars
  PROVE  FlowHolds' /\ flow'.count \in 0 .. Cardinality(Nodes)
<1> USE DEF IInv
<1>1. flow'.count = Cardinality(Added')
  <2>1. CASE InsertNode
    <3>1. flow'.count = flow.count + 1
      BY <2>1 DEF InsertNode, TypeOK
    <3>2. IsFiniteSet(Added)
      BY Constants, FS_Subset DEF Added
    <3>3. Cardinality(Added \cup {building.node}) = Cardinality(Added) + 1
      BY <3>2, AddedMoves, <2>1, FS_AddElement
    <3> QED BY <3>1, <3>3, AddedMoves, <2>1 DEF FlowHolds
  <2>2. CASE ~InsertNode
    <3>1. flow'.count = flow.count
      BY <2>2, Movers DEF Seal, EnqueueCallbacks, StampRetired, TypeOK
    <3> QED BY <3>1, AddedMoves, <2>2 DEF FlowHolds
  <2> QED BY <2>1, <2>2
<1>2. flow'.count \in 0 .. Cardinality(Nodes)
  <2>1. Added' \subseteq Nodes
    BY AddedMoves DEF Added
  <2>2. Cardinality(Added') \in Nat /\ Cardinality(Added') <= Cardinality(Nodes)
    BY <2>1, Constants, FS_Subset, FS_CardinalityType
  <2> QED BY <1>1, <2>2, Constants
<1>3. flow'.total # None => flow'.status # "open" /\ flow'.total = flow'.count
  <2>1. CASE EnqueueCallbacks
    <3>1. There = Added
      BY <2>1 DEF There, Added, FlowHolds, EnqueueCallbacks, InTransaction, TypeOK
    <3> QED BY <2>1, <3>1 DEF EnqueueCallbacks, FlowHolds, TypeOK
  <2>2. CASE Seal
    BY <2>2 DEF Seal, SealTotals, TypeOK
  <2>3. CASE InsertNode
    BY <2>3 DEF InsertNode, FlowHolds, TypeOK
  <2>4. CASE StampRetired
    BY <2>4 DEF StampRetired, FlowHolds, TypeOK
  <2> QED BY <2>1, <2>2, <2>3, <2>4, Movers DEF FlowHolds
<1>4. /\ flow'.stamped => flow'.status = "complete"
      /\ flow.stamped => flow'.stamped
      /\ flow.status # "open" => flow'.status # "open"
  <2>1. \/ flow' = flow
        \/ flow'.stamped = flow.stamped /\ flow.status = "open"
             /\ flow'.status \in {"open", "sealed"} /\ (InsertNode \/ Seal)
        \/ flow'.stamped = flow.stamped /\ flow'.status = "complete"
        \/ flow'.stamped /\ flow'.status = "complete"
    <3>1. CASE InsertNode
      BY <3>1 DEF InsertNode, FlowHolds, TypeOK
    <3>2. CASE Seal
      BY <3>2 DEF Seal, TypeOK
    <3>3. CASE EnqueueCallbacks
      BY <3>3 DEF EnqueueCallbacks, TypeOK
    <3>4. CASE StampRetired
      BY <3>4 DEF StampRetired, TypeOK
    <3> QED BY <3>1, <3>2, <3>3, <3>4, Movers
  <2> QED BY <2>1 DEF FlowHolds
<1>5. \A n \in Nodes : record'[n].node = "retired" => flow'.stamped
  BY <1>4, AddedMoves DEF FlowHolds
<1>6. building'.node # None => flow'.status = "open" /\ record'[building'.node].node = "absent"
  <2>1. CASE building' = NotBuilding
    BY <2>1 DEF NotBuilding
  <2>2. CASE \E n \in Nodes : Take(n)
    BY <2>2 DEF Take
  <2>3. CASE building' = building /\ building'.node # None
    <3>0. flow.status = "open" /\ ~(tick.at \in InTransaction)
      BY <2>3 DEF FlowHolds
    <3>1. ~Seal /\ ~EnqueueCallbacks /\ ~InsertNode /\ ~StampRetired
      <4>1. ~InsertNode
        BY <2>3 DEF InsertNode, NotBuilding
      <4>2. ~Seal /\ ~EnqueueCallbacks /\ ~StampRetired
        BY <2>3, <3>0 DEF Seal, FlowFree, EnqueueCallbacks, InTransaction, StampRetired
      <4> QED BY <4>1, <4>2
    <3>2. Added' = Added /\ building.node \in Nodes
      BY <2>3, <3>1, AddedMoves DEF TypeOK
    <3> QED BY <2>3, <3>1, <3>2, Movers DEF FlowHolds, Added
  <2> QED BY <2>1, <2>2, <2>3, Movers
<1>7. tick'.at \in InTransaction => flow'.status = "sealed" /\ building'.node = None
  <2> SUFFICES ASSUME tick'.at \in InTransaction PROVE flow'.status = "sealed" /\ building'.node = None
    OBVIOUS
  <2>1. CASE CancelOneLevel
    BY <2>1 DEF CancelOneLevel, FlowFree
  <2>2. CASE CompleteOnce
    BY <2>2 DEF CompleteOnce, FlowFree, AtRest, InTransaction
  <2>3. CASE tick.at \in InTransaction
    <3>1. ~Seal /\ ~InsertNode /\ ~StampRetired /\ \A n \in Nodes : ~Take(n)
      BY <2>3 DEF Seal, InsertNode, StampRetired, Take, FlowHolds, InTransaction, FlowFree
    <3>2. ~EnqueueCallbacks
      BY DEF EnqueueCallbacks, AtRest, InTransaction
    <3> QED BY <2>3, <3>1, <3>2, Movers DEF FlowHolds, NotBuilding
  <2>4. tick.at \in InTransaction \/ CancelOneLevel \/ CompleteOnce
    BY Movers DEF AtRest, InTransaction, LockDoomed, CompleteIfFinished, LockDeadRows,
       ClassifyAgain
  <2> QED BY <2>1, <2>2, <2>3, <2>4
<1> QED BY <1>1, <1>2, <1>3, <1>4, <1>5, <1>6, <1>7 DEF FlowHolds

\* A row that is over, or held, stays as it is until ox_prune deletes it.
LEMMA RowsStay ==
  ASSUME IInv, [Next]_vars, NEW n \in Nodes
  PROVE  /\ row[n].status = "gone" => row'[n] = row[n]
         /\ row[n].status \in Retirable =>
              row'[n] = row[n] \/ (row'[n].status = "gone" /\ row'[n].epoch = row[n].epoch)
         /\ n \in tick.held /\ tick.at \in InTransaction /\ row[n].status \in Dead => row'[n] = row[n]
  <1>1. RowMoves(n)
    BY RowsMove
  <1>2. row[n].status = "gone" => row'[n] = row[n]
    BY <1>1 DEF RowMoves, To, Cancellable, RetryableDead, Settled, Dead
  <1>3. row[n].status \in Retirable =>
              row'[n] = row[n] \/ (row'[n].status = "gone" /\ row'[n].epoch = row[n].epoch)
    BY <1>1 DEF RowMoves, To, Cancellable, RetryableDead, Settled, Dead, Retirable
  <1>4. n \in tick.held /\ tick.at \in InTransaction /\ row[n].status \in Dead => row'[n] = row[n]
    <2>1. n \in tick.held /\ tick.at \in InTransaction => Locked(n) /\ writing[n].status = None
      BY DEF Locked, IInv, CancelHolds
    <2> QED BY <1>1, <2>1 DEF RowMoves, To, Cancellable, Dead
  <1> QED BY <1>2, <1>3, <1>4

Closes(n) == n \in succeeded \ forgotten => \A e \in EdgesOut(n) : edge'[e] # "open"

\* How a record comes to say that its node was deleted, or that it succeeded.
LEMMA RecordFacts ==
  ASSUME IInv, [Next]_vars, NEW n \in Nodes
  PROVE  /\ record'[n].node = "retired" => record[n].node = "retired" \/ (Over(n) /\ row' = row /\ Closes(n))
         /\ record'[n].outcome = "SUCCESSFUL" =>
              \/ record[n].outcome = "SUCCESSFUL" \/ row'[n].status = "SUCCESSFUL"
              \/ \E r \in repair : r.node = n /\ r.status = "SUCCESSFUL"
<1> DEFINE Goal ==
         /\ record'[n].node = "retired" => record[n].node = "retired" \/ (Over(n) /\ row' = row /\ Closes(n))
         /\ record'[n].outcome = "SUCCESSFUL" =>
              \/ record[n].outcome = "SUCCESSFUL" \/ row'[n].status = "SUCCESSFUL"
              \/ \E r \in repair : r.node = n /\ r.status = "SUCCESSFUL"
<1>1. record[n] \in RecordType
  BY DEF IInv, TypeOK, RecordType
<1>2. \A status, epoch : /\ Recorded(record[n], status, epoch).node = record[n].node
                        /\ Recorded(record[n], status, epoch).outcome \in {status, record[n].outcome}
  BY <1>1 DEF Recorded, RecordType
<1>3. CASE record'[n] = record[n]
  BY <1>3
<1>4. CASE record'[n] = Blank
  BY <1>4, Constants DEF Blank
<1>5. CASE Over(n) /\ row' = row /\ Closes(n) /\ record'[n] = [NoRecord EXCEPT !.node = "retired"]
  BY <1>5, Constants DEF NoRecord
<1>6. CASE /\ record'[n] = Recorded(record[n], writing[n].status, row[n].epoch)
           /\ row'[n] = [status |-> writing[n].status, epoch |-> row[n].epoch]
  BY <1>2, <1>6
<1>7. CASE \E r \in repair : r.node = n /\ record'[n] = Recorded(record[n], r.status, r.epoch)
  BY <1>2, <1>7
<1>8. CASE record'[n] = Recorded(record[n], "DISCARDED", row'[n].epoch)
  BY <1>2, <1>8
<1> QED BY <1>3, <1>4, <1>5, <1>6, <1>7, <1>8, RecordsMove DEF RecordMoves, Closes

\* Rows and records keep to one another.
LEMMA RowsStep ==
  ASSUME IInv, [Next]_vars
  PROVE  RowsHold'
<1> USE DEF IInv
<1>0. /\ InsertNode => /\ building.node \in Nodes /\ record[building.node].node = "absent"
                       /\ record'[building.node] = Blank
                       /\ row'[building.node].status \in Cancellable
                       /\ writing' = writing
                       /\ \A e \in Edges : e[2] = building.node => edge'[e] \in {"open", "satisfied"}
  BY AddedMoves, EdgeFacts, Constants DEF InsertNode, Added, TypeOK, Cancellable, FlowHolds
<1>1. ASSUME NEW n \in Nodes PROVE row'[n].status = "absent" <=> record'[n].node = "absent"
  <2>1. row[n].status = "absent" <=> record[n].node = "absent"
    BY DEF RowsHold
  <2>2. record'[n].node = "absent" <=> record[n].node = "absent" /\ ~(InsertNode /\ n = building.node)
    BY AddedMoves DEF Added
  <2>3. row'[n].status = "absent" <=> row[n].status = "absent" /\ ~(InsertNode /\ n = building.node)
    <3>1. RowMoves(n)
      BY RowsMove
    <3>2. writing[n].status \in {"SUCCESSFUL", "FAILED", None}
      BY DEF TypeOK
    <3> QED BY <3>1, <3>2, <1>0 DEF RowMoves, To, Cancellable, Settled, Dead, RetryableDead
  <2> QED BY <2>1, <2>2, <2>3
<1>2. ASSUME NEW e \in Edges, edge'[e] = "absent" PROVE record'[e[2]].node = "absent"
  <2>1. edge[e] = "absent" /\ e[2] \in Nodes
    BY <1>2, EdgesMove, EdgeFacts, Constants DEF EdgeMoves, TypeOK
  <2>2. record[e[2]].node = "absent"
    BY <2>1 DEF RowsHold
  <2>3. ~(InsertNode /\ e[2] = building.node)
    BY <1>0, <1>2
  <2> QED BY <2>1, <2>2, <2>3, AddedMoves DEF Added
<1>3. ASSUME NEW e \in Edges, edge'[e] = "retired" PROVE record'[e[2]].node = "retired"
  <2>1. edge[e] = "retired" \/ record'[e[2]].node = "retired"
    BY <1>3, EdgesMove DEF EdgeMoves
  <2> QED BY <2>1, AddedMoves, EdgeFacts, Constants DEF RowsHold, TypeOK
<1>4. ASSUME NEW n \in Nodes
      PROVE  /\ writing'[n].status # None => row'[n].status \in {"RUNNING", "LOST"}
             /\ writing'[n].seen \subseteq EdgesOut(n)'
  <2>1. CASE writing'[n] = writing[n]
    <3>1. RowMoves(n)
      BY RowsMove
    <3>2. writing[n].status # None => row'[n] = row[n]
      BY <2>1, <3>1 DEF RowMoves, RowsHold, To, NotWriting, Locked, Cancellable
    <3> QED BY <2>1, <3>2, GraphStays DEF RowsHold, EdgesOut
  <2>2. CASE writing'[n] = NotWriting
    BY <2>2 DEF NotWriting
  <2>3. CASE row' = row /\ row[n].status \in {"RUNNING", "LOST"} /\ writing'[n].seen \subseteq EdgesOut(n)
    BY <2>3, GraphStays DEF EdgesOut
  <2> QED BY <2>1, <2>2, <2>3, WritingMoves
<1>5. ASSUME NEW n \in Nodes, record'[n].node = "retired" PROVE row'[n].status \in Retirable \cup {"gone"}
  <2>1. CASE record[n].node = "retired"
    BY <2>1, RowsStay DEF RowsHold
  <2>2. CASE record[n].node # "retired"
    <3>1. record[n].node = "there" \/ record[n].node = "absent"
      BY <2>2 DEF TypeOK
    <3>2. Over(n) /\ row' = row
      BY <1>5, <2>2, RecordFacts
    <3> QED BY <3>2 DEF Over
  <2> QED BY <2>1, <2>2
<1> QED BY <1>1, <1>2, <1>3, <1>4, <1>5, GraphStays DEF RowsHold

\* What says that a node succeeded stays true.
LEMMA SuccessesStep ==
  ASSUME IInv, [Next]_vars
  PROVE  SuccessesHold'
<1> USE DEF IInv
<1>0. SucceededGrows
  BY Succeed
<1>1. ASSUME NEW n \in Nodes, row'[n].status = "SUCCESSFUL" PROVE n \in succeeded'
  BY <1>0, <1>1 DEF SucceededGrows, SuccessesHold
<1>2. ASSUME NEW n \in succeeded' PROVE row'[n].status \in {"SUCCESSFUL", "gone"}
  <2>1. CASE n \in succeeded
    <3>1. n \in Nodes /\ row[n].status \in {"SUCCESSFUL", "gone"}
      BY <2>1 DEF SuccessesHold, TypeOK
    <3> QED BY <3>1, RowsStay DEF Retirable
  <2> QED BY <2>1, <1>0 DEF SucceededGrows
<1>3. ASSUME NEW n \in Nodes, record'[n].outcome = "SUCCESSFUL" PROVE n \in succeeded'
  <2>1. \/ record[n].outcome = "SUCCESSFUL" \/ row'[n].status = "SUCCESSFUL"
        \/ \E r \in repair : r.node = n /\ r.status = "SUCCESSFUL"
    BY <1>3, RecordFacts
  <2> QED BY <2>1, <1>0, <1>1 DEF SuccessesHold, SucceededGrows
<1>4. ASSUME NEW e \in Edges, edge'[e] = "satisfied" PROVE e[1] \in succeeded'
  BY <1>0, <1>4, EdgesMove DEF EdgeMoves, SuccessesHold, SucceededGrows
<1>5. ASSUME NEW r \in repair', r.status = "SUCCESSFUL" PROVE r.node \in succeeded'
  <2>1. CASE repair' = repair
    BY <1>0, <1>5, <2>1 DEF SuccessesHold, SucceededGrows
  <2>2. CASE ReadRecords
    BY <1>0, <1>5, <2>2 DEF SuccessesHold, SucceededGrows, ReadRecords, Behind
  <2> QED BY <1>5, <2>1, <2>2, Movers
<1>6. building'.seen \subseteq succeeded'
  <2>1. CASE \E n \in Nodes : Take(n)
    <3>1. PICK n \in Nodes : Take(n)
      BY <2>1
    <3>2. deps[n] \subseteq Nodes
      BY Constants DEF TypeOK
    <3> QED BY <1>0, <3>1, <3>2 DEF Take, SuccessesHold, SucceededGrows
  <2> QED BY <1>0, <2>1, Movers DEF SuccessesHold, SucceededGrows, NotBuilding
<1> QED BY <1>1, <1>2, <1>3, <1>4, <1>5, <1>6, GraphStays DEF SuccessesHold

\* What is known of a row by a status and an epoch stays old.
LEMMA OldStays ==
  ASSUME IInv, [Next]_vars, NEW n \in Nodes, NEW status, NEW epoch \in Nat,
         Old(row[n], status, epoch), record[n].node # "absent"
  PROVE  Old(row'[n], status, epoch)
<1>1. RowMoves(n)
  BY RowsMove
<1>2. row[n].epoch \in Nat /\ row[n].status # "absent"
  BY DEF IInv, TypeOK, RowsHold
<1>3. CASE row'[n] = row[n]
  BY <1>3 DEF Old
<1>4. CASE writing[n].status # None /\ To(n, {"RUNNING", "LOST"}, writing[n].status, row[n].epoch)
  <2>1. writing[n].status \in {"SUCCESSFUL", "FAILED"}
    BY <1>4 DEF IInv, TypeOK
  <2> QED BY <1>2, <1>4, <2>1 DEF Old, To, Fresh
<1>5. CASE \E from : To(n, from, "DISCARDED", row[n].epoch) \/ To(n, from, "gone", row[n].epoch)
  BY <1>2, <1>5 DEF Old, To, Fresh
<1>6. CASE \E from, s : To(n, from, s, row[n].epoch + 1)
  BY <1>2, <1>6 DEF Old, To, Fresh
<1>7. CASE To(n, {"WAITING"}, "READY", row[n].epoch) \/ To(n, {"RUNNING"}, "LOST", row[n].epoch)
           \/ \E s \in {"SUCCESSFUL", "FAILED"} : To(n, {"RUNNING"}, s, row[n].epoch)
  BY <1>2, <1>7 DEF Old, To, Fresh
<1>8. CASE \E s : To(n, {"absent"}, s, row[n].epoch)
  BY <1>2, <1>8 DEF To
<1>9. CASE \/ To(n, {"READY"}, "RUNNING", row[n].epoch + 1)
           \/ To(n, {"RUNNING"}, "READY", row[n].epoch + 1)
           \/ To(n, RetryableDead, "READY", row[n].epoch + 1)
  BY <1>2, <1>9 DEF Old, To, Fresh
<1> QED BY <1>1, <1>3, <1>4, <1>5, <1>7, <1>8, <1>9 DEF RowMoves

\* Records stay behind their rows, and keep every success that a worker recorded.
LEMMA RecordsStep ==
  ASSUME IInv, [Next]_vars
  PROVE  RecordsHold'
<1> USE DEF IInv
<1>0. SucceededGrows
  BY Succeed
<1>t. TypeOK'
  BY FlowStep, TypeStep
<1>1. ASSUME NEW n \in Nodes
      PROVE  /\ record'[n].epoch # None => Old(row'[n], record'[n].outcome, record'[n].epoch)
             /\ record'[n].epoch = None <=> record'[n].outcome = None
             /\ record'[n].node # "there" => record'[n].epoch = None
  <2> DEFINE Goal(r) == /\ r.epoch # None => Old(row'[n], r.outcome, r.epoch)
                        /\ r.epoch = None <=> r.outcome = None
                        /\ r.node # "there" => r.epoch = None
  <2>1. Goal(record[n])
    <3>1. record[n] \in RecordType
      BY DEF TypeOK, RecordType
    <3>2. record[n].epoch # None => Old(row'[n], record[n].outcome, record[n].epoch)
      <4>1. CASE record[n].node = "absent"
        BY <4>1 DEF RecordsHold
      <4>2. CASE record[n].node # "absent"
        BY <3>1, <4>2, OldStays DEF RecordsHold, RecordType
      <4> QED BY <4>1, <4>2
    <3> QED BY <3>2 DEF RecordsHold
  <2>2. ASSUME NEW status \in Settled, NEW epoch \in Nat, Old(row'[n], status, epoch)
        PROVE  Goal(Recorded(record[n], status, epoch))
    <3>1. CASE Recorded(record[n], status, epoch) = record[n]
      BY <2>1, <3>1
    <3>2. CASE /\ Recorded(record[n], status, epoch) = [record[n] EXCEPT !.outcome = status, !.epoch = epoch]
               /\ record[n].node = "there"
      <4>1. record[n] \in RecordType /\ status # None /\ epoch # None
        BY Constants DEF TypeOK, RecordType, Statuses
      <4>2. /\ Recorded(record[n], status, epoch).outcome = status
            /\ Recorded(record[n], status, epoch).epoch = epoch
            /\ Recorded(record[n], status, epoch).node = "there"
        BY <3>2, <4>1 DEF RecordType
      <4> QED BY <2>2, <4>1, <4>2
    <3> QED BY <3>1, <3>2 DEF Recorded
  <2>3. CASE record'[n] = record[n]
    BY <2>1, <2>3
  <2>4. CASE record'[n] = Blank \/ record'[n] = [NoRecord EXCEPT !.node = "retired"]
    BY <2>4 DEF Blank, NoRecord
  <2>5. CASE /\ writing[n].status # None
             /\ record'[n] = Recorded(record[n], writing[n].status, row[n].epoch)
             /\ row'[n] = [status |-> writing[n].status, epoch |-> row[n].epoch]
    <3>1. writing[n].status \in {"SUCCESSFUL", "FAILED"} /\ row[n].epoch \in Nat
      BY <2>5 DEF TypeOK
    <3>2. Old(row'[n], writing[n].status, row[n].epoch)
      BY <2>5, <3>1 DEF Old, Fresh
    <3>3. writing[n].status \in Settled
      BY <3>1 DEF Settled, Dead
    <3> QED BY <2>2, <2>5, <3>1, <3>2, <3>3
  <2>6. CASE \E r \in repair : r.node = n /\ row' = row /\ record'[n] = Recorded(record[n], r.status, r.epoch)
    <3>1. PICK r \in repair : r.node = n /\ row' = row /\ record'[n] = Recorded(record[n], r.status, r.epoch)
      BY <2>6
    <3>2. r.status \in Settled /\ r.epoch \in Nat
      BY DEF TypeOK
    <3>3. Old(row'[n], r.status, r.epoch)
      BY <3>1 DEF RecordsHold, Old
    <3> QED BY <2>2, <3>1, <3>2, <3>3
  <2>7. CASE row'[n].status = "DISCARDED" /\ record'[n] = Recorded(record[n], "DISCARDED", row'[n].epoch)
    <3>1. row'[n].epoch \in Nat
      BY <1>t DEF TypeOK
    <3>2. Old(row'[n], "DISCARDED", row'[n].epoch)
      BY <2>7, <3>1 DEF Old, Fresh
    <3>3. "DISCARDED" \in Settled
      BY DEF Settled, Dead
    <3> QED BY <2>2, <2>7, <3>1, <3>2, <3>3
  <2> QED BY <2>3, <2>4, <2>5, <2>6, <2>7, RecordsMove DEF RecordMoves
<1>2. ASSUME NEW r \in repair'
      PROVE  Old(row'[r.node], r.status, r.epoch) /\ record'[r.node].node # "absent"
  <2>1. CASE repair' = repair
    <3>1. r.node \in Nodes /\ r.epoch \in Nat /\ Old(row[r.node], r.status, r.epoch) /\ record[r.node].node # "absent"
      BY <1>2, <2>1 DEF RecordsHold, TypeOK
    <3> QED BY <3>1, OldStays, AddedMoves DEF Added
  <2>2. CASE ReadRecords
    <3>1. PICK n \in Behind : r = [node |-> n, status |-> row[n].status, epoch |-> row[n].epoch]
      BY <1>2, <2>2 DEF ReadRecords
    <3>2. n \in Nodes /\ row[n].status \in Settled /\ record[n].node = "there"
      BY <3>1 DEF Behind
    <3>3. row' = row /\ record' = record /\ row[n].epoch \in Nat
      BY <2>2, <3>2 DEF ReadRecords, TypeOK
    <3> QED BY <3>1, <3>2, <3>3 DEF Old, Fresh, Settled, Dead
  <2> QED BY <1>2, <2>1, <2>2, Movers
<1>3. ASSUME NEW r \in repair', NEW s \in repair', r.node = s.node PROVE r = s
  BY <1>3, Movers DEF ReadRecords, RecordsHold
<1>4. ASSUME NEW n \in succeeded' \ forgotten'
      PROVE  record'[n].node = "retired"
               \/ (record'[n].outcome = "SUCCESSFUL" /\ record'[n].epoch = row'[n].epoch)
  <2>1. n \in Nodes /\ n \notin forgotten
    <3>1. succeeded' \subseteq Nodes
      BY <1>t DEF TypeOK
    <3> QED BY <3>1, <1>0 DEF SucceededGrows
  <2>2. record[n] \in RecordType /\ row[n].epoch \in Nat
    BY <2>1 DEF TypeOK, RecordType
  <2>3. CASE n \in succeeded
    <3>1. row[n].status \in {"SUCCESSFUL", "gone"} /\ record[n].node # "absent"
      BY <2>1, <2>3 DEF SuccessesHold, RowsHold
    <3>2. row'[n].status \in {"SUCCESSFUL", "gone"} /\ row'[n].epoch = row[n].epoch
      BY <2>1, <3>1, RowsStay DEF Retirable
    <3>3. CASE record[n].node = "retired"
      BY <2>1, <3>3, AddedMoves
    <3>4. CASE record[n].node = "there"
      <4>1. record[n].outcome = "SUCCESSFUL" /\ record[n].epoch = row[n].epoch
        BY <2>1, <2>3, <3>4 DEF RecordsHold
      <4>2. ASSUME NEW r \in repair, r.node = n PROVE Recorded(record[n], r.status, r.epoch) = record[n]
        <5>1. r.epoch \in Nat /\ r.epoch <= row[n].epoch
          BY <4>2 DEF RecordsHold, Old, TypeOK
        <5>2. ~Accepts(record[n], r.status, r.epoch)
          BY <2>2, <4>1, <5>1, Constants DEF Accepts
        <5> QED BY <5>2 DEF Recorded
      <4>3. record'[n] = record[n] \/ record'[n] = [NoRecord EXCEPT !.node = "retired"]
        BY <2>1, <3>1, <3>2, <3>4, <4>2, RecordsMove DEF RecordMoves, RowsHold
      <4> QED BY <3>2, <4>1, <4>3 DEF NoRecord
    <3> QED BY <2>2, <3>1, <3>3, <3>4 DEF RecordType
  <2>4. CASE n \notin succeeded
    <3>1. row'[n].status = "SUCCESSFUL" /\ row[n].status # "SUCCESSFUL"
      BY <1>0, <2>1, <2>4 DEF SucceededGrows, SuccessesHold
    <3>2. /\ writing[n].status = "SUCCESSFUL" /\ To(n, {"RUNNING", "LOST"}, "SUCCESSFUL", row[n].epoch)
          /\ record'[n] = Recorded(record[n], "SUCCESSFUL", row[n].epoch)
      <4>1. RowMoves(n) /\ n \notin forgotten'
        BY <1>4, <2>1, RowsMove
      <4>2. /\ row'[n] # row[n] /\ "SUCCESSFUL" \notin Cancellable
            /\ \A from, status, epoch : To(n, from, status, epoch) => status = "SUCCESSFUL"
        BY <3>1 DEF Cancellable, To
      <4>3. /\ To(n, {"RUNNING", "LOST"}, writing[n].status, row[n].epoch)
            /\ record'[n] = Recorded(record[n], writing[n].status, row[n].epoch)
        BY <4>1, <4>2 DEF RowMoves
      <4>4. writing[n].status = "SUCCESSFUL"
        BY <3>1, <4>3 DEF To
      <4> QED BY <4>3, <4>4
    <3>3. record[n].node = "there"
      BY <2>1, <2>2, <3>2 DEF To, RowsHold, Retirable, RecordType
    <3>4. Accepts(record[n], "SUCCESSFUL", row[n].epoch)
      BY <2>1, <2>2, <3>2 DEF Accepts, To, RecordsHold, Old, Fresh, RecordType
    <3> QED BY <2>2, <3>2, <3>3, <3>4 DEF Recorded, To, RecordType
  <2> QED BY <2>3, <2>4
<1>5. ASSUME NEW e \in Edges, edge'[e] = "open", record'[e[1]].node = "retired"
      PROVE  e[1] \notin succeeded' \ forgotten'
  <2>1. e[1] \in Nodes
    BY EdgeFacts, Constants DEF TypeOK
  <2>2. ~InsertNode
    <3>1. InsertNode => ~flow.stamped /\ building.node # None /\ record'[building.node] = Blank
      BY Constants DEF InsertNode, FlowHolds, TypeOK
    <3>2. InsertNode => record[e[1]].node = "retired"
      BY <1>5, <2>1, <3>1, AddedMoves DEF Blank
    <3> QED BY <2>1, <3>1, <3>2 DEF FlowHolds
  <2>3. edge[e] = "open"
    BY <1>5, <2>2, EdgesMove DEF EdgeMoves
  <2>4. ASSUME e[1] \in succeeded' \ forgotten' PROVE e[1] \in succeeded \ forgotten
    <3>1. row'[e[1]].status = "SUCCESSFUL" => e[1] \in succeeded
      <4>1. Over(e[1])
        BY <1>5, <2>1, RecordFacts DEF RowsHold, Over
      <4> QED BY <2>1, <4>1, RowsStay DEF Over, Retirable, SuccessesHold
    <3> QED BY <1>0, <2>4, <3>1 DEF SucceededGrows
  <2>5. CASE record[e[1]].node = "retired"
    BY <2>3, <2>4, <2>5 DEF RecordsHold
  <2>6. CASE record[e[1]].node # "retired"
    <3>1. e \in EdgesOut(e[1])
      BY DEF EdgesOut
    <3>2. e[1] \in succeeded \ forgotten => edge'[e] # "open"
      BY <1>5, <2>1, <2>6, <3>1, RecordFacts DEF Closes
    <3> QED BY <1>5, <2>4, <3>2
  <2> QED BY <2>5, <2>6
<1> QED BY <1>1, <1>2, <1>3, <1>4, <1>5, GraphStays DEF RecordsHold

\* A row that is gone and did not provably succeed stays so.
LEMMA GoneDeadStays ==
  ASSUME IInv, [Next]_vars, NEW u \in Nodes, GoneDead(u)
  PROVE  GoneDead(u)'
<1>1. row'[u] = row[u]
  BY RowsStay DEF GoneDead
<1> QED BY <1>1, Succeed DEF GoneDead, SucceededGrows

\* What a record says of a deleted row, it says of one that no worker knows to have succeeded.
LEMMA RecordedDeadIsGone ==
  ASSUME IInv, NEW u \in Nodes, RecordedDead(u)
  PROVE  GoneDead(u)
  BY DEF IInv, RecordedDead, GoneDead, RecordsHold, Dead

\* The cone of the nodes that doom others: each depends on one of them.
LEMMA ConeDepends ==
  ASSUME IInv, NEW doomed, NEW p \in Cone(doomed)
  PROVE  \E u \in deps[p[1]] : u \in doomed
  BY EdgeFacts, Constants DEF Cone, IInv, TypeOK

\* The steps of a tick's transaction, each from the one before or from none.
LEMMA TickMoves ==
  ASSUME IInv
  PROVE  /\ AtRest.at = "idle" /\ AtRest.held = {}
         /\ CompleteIfFinished => tick'.at = "finishing" /\ tick'.held = {}
         /\ CancelOneLevel => tick'.at = "cancelling" /\ tick'.held = {}
         /\ LockDoomed => tick.at = "cancelling" /\ (tick' = AtRest \/ tick'.at = "moving")
         /\ CompleteOnce => tick' = AtRest \/ (tick'.at = "locking" /\ tick'.held = {})
         /\ LockDeadRows => tick.at = "locking" /\ (tick' = AtRest \/ tick'.at = "counting")
         /\ ClassifyAgain => tick.at = "counting" /\ (tick' = AtRest \/ tick'.at = "enqueueing")
<1>1. tick \in TickType
  BY DEF IInv, TypeOK, TickType
<1>2. AtRest.at = "idle" /\ AtRest.held = {}
  BY DEF AtRest
<1>3. CompleteIfFinished => tick'.at = "finishing" /\ tick'.held = {}
  BY DEF CompleteIfFinished, AtRest
<1>4. CancelOneLevel => tick'.at = "cancelling" /\ tick'.held = {}
  BY DEF CancelOneLevel, AtRest
<1>5. LockDoomed => tick.at = "cancelling" /\ (tick' = AtRest \/ tick'.at = "moving")
  BY <1>1 DEF LockDoomed, TickType
<1>6. CompleteOnce => tick' = AtRest \/ (tick'.at = "locking" /\ tick'.held = {})
  <2> SUFFICES ASSUME CompleteOnce, tick' # AtRest PROVE tick'.at = "locking" /\ tick'.held = {}
    OBVIOUS
  <2> DEFINE found == Read(DeadRows)
             verdict == IF engine = "refuses" THEN {Classify} ELSE {}
  <2>1. tick' = [tick EXCEPT !.at = "locking", !.found = found, !.verdict = verdict]
    <3>1. flow.status = "sealed"
      BY DEF CompleteOnce
    <3> QED BY <3>1 DEF CompleteOnce
  <2> HIDE DEF found, verdict
  <2> QED BY <1>1, <2>1 DEF TickType, IInv, CancelHolds, CompleteOnce
<1>7. LockDeadRows => tick.at = "locking" /\ (tick' = AtRest \/ tick'.at = "counting")
  BY <1>1 DEF LockDeadRows, TickType
<1>8. ClassifyAgain => tick.at = "counting" /\ (tick' = AtRest \/ tick'.at = "enqueueing")
  BY <1>1 DEF ClassifyAgain, TickType
<1> QED BY <1>2, <1>3, <1>4, <1>5, <1>6, <1>7, <1>8

\* Read keeps one record of each node.
LEMMA ReadNodes ==
  ASSUME NEW ns
  PROVE  /\ {r.node : r \in Read(ns)} = ns
         /\ \A r, s \in Read(ns) : r.node = s.node => r = s
<1>1. \A n \in ns : [node |-> n, status |-> row[n].status, epoch |-> row[n].epoch].node = n
  OBVIOUS
<1>2. {r.node : r \in Read(ns)} = ns
  BY <1>1 DEF Read
<1> QED BY <1>1, <1>2 DEF Read

\* What the cancellation found dead stays so until cancel_many has run.
LEMMA CancelStep ==
  ASSUME IInv, [Next]_vars
  PROVE  CancelHolds'
<1> USE DEF IInv
<1>0. deps' = deps /\ engine' = engine /\ \A n \in Nodes : deps[n] \subseteq Nodes
  BY GraphStays, Constants DEF TypeOK
<1>t. tick \in TickType
  BY DEF TypeOK, TickType
<1>1. ASSUME tick'.at = "cancelling"
      PROVE  /\ \A u \in tick'.gone : GoneDead(u)'
             /\ engine = "refuses" => \A p \in tick'.pairs :
                  \E u \in deps[p[1]] : u \in FoundNodes' \cup tick'.gone
  <2>1. CASE tick' = tick
    BY <1>1, <2>1, <1>t, GoneDeadStays DEF CancelHolds, FoundNodes, TickType
  <2>2. CASE CancelOneLevel
    <3> DEFINE ups == {e[1] : e \in CancellableEdges}
    <3>0. /\ tick'.found = Read({u \in ups : IsDead(u)}) /\ tick'.gone = {u \in ups : ~IsDead(u)}
          /\ tick'.pairs = IF engine = "refuses" THEN Cone(ups) ELSE {}
      BY <2>2 DEF CancelOneLevel, AtRest
    <3>1. /\ FoundNodes' = {u \in ups : IsDead(u)} /\ tick'.gone = {u \in ups : ~IsDead(u)}
          /\ tick'.pairs = IF engine = "refuses" THEN Cone(ups) ELSE {}
      BY <3>0, ReadNodes DEF FoundNodes
    <3>2. ASSUME NEW u \in tick'.gone PROVE GoneDead(u)'
      <4>1. RecordedDead(u) /\ u \in Nodes
        BY <3>1, EdgeFacts, Constants DEF CancellableEdges, TypeOK
      <4> QED BY <4>1, RecordedDeadIsGone, GoneDeadStays
    <3>3. ASSUME engine = "refuses", NEW p \in tick'.pairs
          PROVE  \E u \in deps[p[1]] : u \in FoundNodes' \cup tick'.gone
      BY <3>1, <3>3, ConeDepends
    <3> QED BY <3>2, <3>3
  <2>3. tick' = tick \/ CancelOneLevel
    BY <1>1, Movers, TickMoves
  <2> QED BY <2>1, <2>2, <2>3
<1>2. ASSUME tick'.at = "moving", NEW p \in tick'.pairs
      PROVE  \E u \in deps'[p[1]] : (u \in tick'.held /\ IsDead(u)') \/ GoneDead(u)'
  <2>1. CASE tick' = tick
    <3>1. PICK u \in deps[p[1]] : (u \in tick.held /\ IsDead(u)) \/ GoneDead(u)
      BY <1>2, <2>1 DEF CancelHolds
    <3>2. u \in Nodes
      BY <1>0, <1>2, <2>1, <1>t DEF TickType
    <3>3. GoneDead(u) => GoneDead(u)'
      BY <3>2, GoneDeadStays
    <3>4. u \in tick.held /\ IsDead(u) => IsDead(u)'
      BY <1>2, <2>1, <3>2, RowsStay DEF IsDead, InTransaction
    <3> QED BY <1>0, <2>1, <3>1, <3>3, <3>4
  <2>2. CASE LockDoomed
    <3> DEFINE doomed == StillDead(tick.found) \cup {u \in tick.gone : RecordedDead(u)}
    <3>0. row' = row /\ succeeded' = succeeded /\ forgotten' = forgotten /\ tick.at = "cancelling"
      BY <2>2 DEF LockDoomed, ghosts
    <3>1. CASE engine = "refuses"
      <4>1. /\ \A r \in tick.found : Unchanged(r)
            /\ tick'.held = doomed /\ tick'.pairs = tick.pairs
        BY <1>2, <2>2, <3>1, <1>t DEF LockDoomed, AtRest, TickType
      <4>2. PICK u \in deps[p[1]] : u \in FoundNodes \cup tick.gone
        BY <1>2, <3>0, <3>1, <4>1 DEF CancelHolds
      <4>3. CASE u \in FoundNodes
        <5>1. IsDead(u)
          BY <4>1, <4>3, <1>t DEF FoundNodes, IsDead, Unchanged, TickType
        <5>2. u \in doomed
          BY <4>3, <5>1 DEF FoundNodes, StillDead
        <5> QED BY <1>0, <3>0, <4>1, <5>1, <5>2 DEF IsDead
      <4>4. CASE u \in tick.gone
        BY <1>0, <3>0, <4>4 DEF CancelHolds, GoneDead
      <4> QED BY <4>2, <4>3, <4>4
    <3>2. CASE engine # "refuses"
      <4>1. /\ tick'.held = {r.node : r \in {s \in tick.found : row[s.node].status # "gone"}}
            /\ tick'.pairs = Cone(doomed)
        BY <2>2, <3>2, <1>t DEF LockDoomed, TickType
      <4>2. PICK u \in deps[p[1]] : u \in doomed
        BY <1>2, <4>1, ConeDepends
      <4>3. CASE u \in StillDead(tick.found)
        <5>1. IsDead(u) /\ u \in tick'.held
          BY <4>1, <4>3 DEF StillDead, IsDead, Dead
        <5> QED BY <1>0, <3>0, <5>1 DEF IsDead
      <4>4. CASE u \in tick.gone
        BY <1>0, <3>0, <4>4 DEF CancelHolds, GoneDead
      <4> QED BY <4>2, <4>3, <4>4
    <3> QED BY <3>1, <3>2
  <2>3. tick' = tick \/ LockDoomed
    BY <1>2, Movers, TickMoves
  <2> QED BY <2>1, <2>2, <2>3
<1>3. ASSUME tick'.at \in InTransaction, NEW n \in tick'.held
      PROVE  writing'[n].status = None
  <2>1. CASE tick' = tick
    <3>1. n \in Nodes /\ writing[n].status = None /\ Locked(n)
      BY <1>3, <2>1, <1>t DEF CancelHolds, Locked, TickType
    <3> QED BY <3>1, WritingMoves DEF NotWriting
  <2>2. CASE CancelOneLevel \/ CompleteOnce
    BY <1>3, <2>2, TickMoves
  <2>3. CASE LockDoomed \/ LockDeadRows
    <3>1. writing' = writing /\ \A r \in tick.found : writing[r.node].status = None
      BY <2>3 DEF LockDoomed, LockDeadRows
    <3>2. n \in FoundNodes \/ RecordedDead(n)
      <4> DEFINE doomed == StillDead(tick.found) \cup {u \in tick.gone : RecordedDead(u)}
                 there == {r.node : r \in {s \in tick.found : row[s.node].status # "gone"}}
      <4>1. tick'.held \in {AtRest.held, doomed, there}
        BY <2>3, <1>t DEF LockDoomed, LockDeadRows, TickType
      <4>2. doomed \subseteq FoundNodes \cup {u \in tick.gone : RecordedDead(u)} /\ there \subseteq FoundNodes
        BY DEF StillDead, FoundNodes
      <4> QED BY <1>3, <4>1, <4>2, TickMoves
    <3>3. RecordedDead(n) /\ n \in Nodes => writing[n].status = None
      BY DEF RecordedDead, RowsHold
    <3>4. n \in Nodes
      BY FlowStep, TypeStep, <1>3 DEF TypeOK
    <3> QED BY <3>1, <3>2, <3>3, <3>4 DEF FoundNodes
  <2>4. CASE ClassifyAgain
    <3>1. tick'.held = tick.held /\ tick.at \in InTransaction /\ writing' = writing
      BY <1>3, <2>4, <1>t DEF ClassifyAgain, AtRest, InTransaction, TickType
    <3> QED BY <1>3, <3>1 DEF CancelHolds
  <2>5. ~CompleteIfFinished /\ tick' # AtRest
    BY <1>3 DEF CompleteIfFinished, AtRest, InTransaction
  <2> QED BY <2>1, <2>2, <2>3, <2>4, <2>5, Movers
<1>4. ASSUME tick'.at = "finishing" PROVE tick'.held = {}
  BY <1>4, Movers, TickMoves DEF CancelHolds
<1> QED BY <1>0, <1>1, <1>2, <1>3, <1>4 DEF CancelHolds

\* Nothing is added to a workflow, or pruned from it, while a tick's transaction is open.
LEMMA ThereStays ==
  ASSUME IInv, [Next]_vars, tick.at \in InTransaction
  PROVE  There' = There /\ There = Added
<1>1. ~flow.stamped /\ building.node = None
  BY DEF IInv, FlowHolds, TypeOK
<1>2. ~InsertNode
  BY <1>1 DEF InsertNode
<1>3. There = Added
  BY <1>1 DEF There, Added, IInv, FlowHolds, TypeOK
<1> QED BY <1>1, <1>2, <1>3, AddedMoves

\* A row that cannot run again never does.
LEMMA OverStays ==
  ASSUME IInv, [Next]_vars, NEW n \in Nodes, Over(n)
  PROVE  Over(n)'
  BY RowsStay DEF Over

\* What a classification says: who is dead among the settled, and no more succeeded
\* than did.
LEMMA Classified ==
  ASSUME IInv
  PROVE  /\ ~Classify.pending => \A n \in There : n \in DeadRows \/ Over(n)
         /\ Classify.succeeded <= Cardinality(There \cap succeeded)
         /\ Classify \in Verdict
         /\ Classify.dead = Cardinality(DeadRows)
<1> USE DEF IInv
<1>1. ~Classify.pending => \A n \in There : n \in DeadRows \/ Over(n)
  BY DEF Classify, Pending, Settled, Dead, DeadRows, RetryableDead, Over, Retirable
<1>2. Classify.succeeded <= Cardinality(There \cap succeeded)
  <2> DEFINE S == {n \in There : ~Pending(n) /\ SettledAs(n) = "SUCCESSFUL"}
  <2>1. ASSUME NEW n \in S PROVE n \in succeeded
    <3>1. n \in Nodes /\ SettledAs(n) = "SUCCESSFUL"
      BY <2>1 DEF There
    <3>2. row[n].status = "SUCCESSFUL" \/ record[n].outcome = "SUCCESSFUL"
      BY <3>1, Constants DEF SettledAs
    <3> QED BY <3>1, <3>2 DEF SuccessesHold
  <2>2. S \subseteq There \cap succeeded /\ IsFiniteSet(There \cap succeeded)
    BY <2>1, Constants, FS_Subset DEF There
  <2>3. Cardinality(S) <= Cardinality(There \cap succeeded)
    BY <2>2, FS_Subset
  <2> QED BY <2>3 DEF Classify
<1> QED BY <1>1, <1>2, ResultTypes DEF Classify

\* As many nodes were found as records of them.
LEMMA OneRecordEach ==
  ASSUME NEW found, \A r, s \in found : r.node = s.node => r = s,
         IsFiniteSet({r.node : r \in found})
  PROVE  Cardinality({r.node : r \in found}) = Cardinality(found)
<1> DEFINE nodes == {r.node : r \in found}
           f == [r \in found |-> r.node]
<1>1. f \in Bijection(found, nodes)
  <2>1. f \in [found -> nodes]
    OBVIOUS
  <2>2. \A a, b \in found : f[a] = f[b] => a = b
    OBVIOUS
  <2>3. \A t \in nodes : \E s \in found : f[s] = t
    OBVIOUS
  <2> QED BY <2>1, <2>2, <2>3, Fun_IsBij
<1>2. ExistsBijection(nodes, found)
  BY <1>1, Fun_BijInverse, Fun_ExistsBij
<1> QED BY <1>2, FS_Bijection

\* A part of a finite set that is as large as it is all of it.
LEMMA OnlyTheWhole ==
  ASSUME NEW S, IsFiniteSet(S), NEW T \in SUBSET S, Cardinality(S) <= Cardinality(T)
  PROVE  T = S
<1>1. Cardinality(S) \in Nat /\ Cardinality(T) \in Nat /\ Cardinality(T) <= Cardinality(S)
  BY FS_Subset, FS_CardinalityType
<1> QED BY <1>1, FS_Subset

\* A workflow is complete with on_success only if every node of it succeeded.
LEMMA SucceedsStep ==
  ASSUME IInv, [Next]_vars, flow'.succeeds
  PROVE  flow'.status = "complete" /\ Added' \subseteq succeeded'
<1> USE DEF IInv
<1>0. SucceededGrows
  BY Succeed
<1>1. CASE EnqueueCallbacks
  <2>0. tick.at \in InTransaction /\ tick.at = "enqueueing"
    BY <1>1 DEF EnqueueCallbacks, InTransaction
  <2>1. PICK v \in Verdict : tick.verdict = {v} /\ v.succeeded <= Cardinality(There \cap succeeded)
    BY <2>0 DEF CompleteHolds, VerdictHolds
  <2> DEFINE total == IF flow.total = None THEN Cardinality(There) ELSE flow.total
  <2>2. (CHOOSE w \in tick.verdict : TRUE) = v
    BY <2>1
  <2>3. flow' = [flow EXCEPT !.status = "complete", !.total = total, !.succeeds = CleanRun(v, total)]
    BY <1>1, <2>2 DEF EnqueueCallbacks
  <2>4. There = Added /\ There' = There /\ total = Cardinality(There)
    BY <2>0, ThereStays DEF FlowHolds
  <2>5. CleanRun(v, total) /\ flow'.status = "complete"
    <3> HIDE DEF total
    <3> QED BY <2>3 DEF TypeOK
  <2>6. Cardinality(There) <= Cardinality(There \cap succeeded)
    <3>1. IsFiniteSet(There) /\ IsFiniteSet(There \cap succeeded)
      BY Constants, FS_Subset DEF There
    <3>2. Cardinality(There) \in Nat /\ Cardinality(There \cap succeeded) \in Nat
      BY <3>1, FS_CardinalityType
    <3>3. v.succeeded \in Nat /\ v.failed \in Nat
      BY Constants DEF Verdict
    <3> QED BY <2>1, <2>4, <2>5, <3>2, <3>3 DEF CleanRun
  <2>7. There \cap succeeded = There
    <3>1. IsFiniteSet(There)
      BY Constants, FS_Subset DEF There
    <3> QED BY <2>6, <3>1, OnlyTheWhole
  <2>8. Added' = Added
    <3>1. ~InsertNode
      BY <2>0 DEF InsertNode, FlowHolds
    <3> QED BY <3>1, AddedMoves
  <2> QED BY <1>0, <2>4, <2>5, <2>7, <2>8 DEF SucceededGrows
<1>2. CASE ~EnqueueCallbacks
  <2>1. flow.succeeds
    BY <1>2, Movers DEF InsertNode, Seal, StampRetired, TypeOK
  <2>2. flow.status = "complete" /\ Added \subseteq succeeded
    BY <2>1 DEF CompleteHolds
  <2>3. ~InsertNode /\ ~Seal
    BY <2>2 DEF InsertNode, Seal, FlowHolds
  <2>4. flow'.status = "complete"
    BY <1>2, <2>2, <2>3, Movers DEF StampRetired, TypeOK
  <2> QED BY <1>0, <2>2, <2>3, <2>4, AddedMoves DEF SucceededGrows
<1> QED BY <1>1, <1>2

\* What the tick read before it completes a workflow stays so until it has.
LEMMA CompleteStep ==
  ASSUME IInv, [Next]_vars
  PROVE  CompleteHolds'
<1> USE DEF IInv
<1>0. SucceededGrows /\ TypeOK' /\ engine' = engine
  BY Succeed, FlowStep, TypeStep, GraphStays
<1>t. tick \in TickType
  BY DEF TypeOK, TickType
<1>c. tick.at \in InTransaction =>
        /\ Cardinality(There \cap succeeded) \in Nat /\ Cardinality(There' \cap succeeded') \in Nat
        /\ Cardinality(There \cap succeeded) <= Cardinality(There' \cap succeeded')
  <2>1. tick.at \in InTransaction =>
          There \cap succeeded \subseteq There' \cap succeeded' /\ There' \cap succeeded' \subseteq Nodes
    BY <1>0, ThereStays DEF SucceededGrows, There
  <2>2. There \cap succeeded \subseteq Nodes
    BY DEF There
  <2> QED BY <2>1, <2>2, Constants, FS_Subset, FS_CardinalityType
<1>v. tick.at \in InTransaction /\ vanished' = {} => vanished = {}
  BY Movers DEF CancelOneLevel, CompleteOnce, InTransaction
<1>1. ASSUME CompleteOnce, tick' # AtRest PROVE SnapshotHolds' /\ tick'.at = "locking"
  <2> DEFINE found == Read(DeadRows)
             verdict == IF engine = "refuses" THEN {Classify} ELSE {}
  <2>1. /\ tick' = [tick EXCEPT !.at = "locking", !.found = found, !.verdict = verdict]
        /\ UNCHANGED <<row, record, succeeded, flow>>
    <3>1. flow.status = "sealed"
      BY <1>1 DEF CompleteOnce
    <3> QED BY <1>1, <3>1 DEF CompleteOnce
  <2>2. tick'.found = found /\ tick'.verdict = verdict /\ tick'.at = "locking"
    <3> HIDE DEF found, verdict
    <3> QED BY <2>1, <1>t DEF TickType
  <2>3. \A r \in found : r.node \in There /\ r.status \in RetryableDead /\ row[r.node].status # "gone"
    BY DEF Read, DeadRows, RetryableDead
  <2>4. FoundNodes' = DeadRows /\ \A r, s \in found : r.node = s.node => r = s
    BY <2>2, ReadNodes DEF FoundNodes
  <2>5. There' = There /\ \A n \in There : Over(n)' <=> Over(n)
    BY <2>1 DEF There, Over
  <2>6. engine = "refuses" => \E v \in Verdict :
            /\ tick'.verdict = {v}
            /\ ~v.pending => \A n \in There' : n \in FoundNodes' \/ Over(n)'
            /\ v.succeeded <= Cardinality(There' \cap succeeded')
    BY <2>1, <2>2, <2>4, <2>5, Classified
  <2> HIDE DEF found, verdict
  <2> QED BY <1>0, <2>1, <2>2, <2>3, <2>4, <2>5, <2>6 DEF SnapshotHolds
<1>2. ASSUME LockDeadRows, tick' # AtRest
      PROVE  /\ SnapshotHolds' /\ tick'.at = "counting"
             /\ \A r \in tick'.found : row'[r.node].status = "gone" \/ (Unchanged(r)' /\ r.node \in tick'.held)
  <2> DEFINE there == {r.node : r \in {s \in tick.found : row[s.node].status # "gone"}}
  <2>1. /\ tick' = [tick EXCEPT !.at = "counting", !.held = there]
        /\ \A r \in tick.found : ~Retried(r)
        /\ UNCHANGED <<row, record, succeeded, vanished>> /\ tick.at = "locking"
    BY <1>2 DEF LockDeadRows, ghosts
  <2>2. tick'.found = tick.found /\ tick'.verdict = tick.verdict /\ tick'.at = "counting" /\ tick'.held = there
    <3> HIDE DEF there
    <3> QED BY <2>1, <1>t DEF TickType
  <2>3. There' = There /\ FoundNodes' = FoundNodes /\ \A n \in There : Over(n)' <=> Over(n)
    BY <2>1, <2>2 DEF There, FoundNodes, Over
  <2>4. SnapshotHolds
    BY <2>1 DEF CompleteHolds
  <2>5. SnapshotHolds'
    BY <1>0, <2>1, <2>2, <2>3, <2>4 DEF SnapshotHolds
  <2>6. \A r \in tick.found : row[r.node].status = "gone" \/ (Unchanged(r) /\ r.node \in there)
    BY <2>1 DEF Retried
  <2> QED BY <2>1, <2>2, <2>5, <2>6 DEF Unchanged
<1>3. ASSUME ClassifyAgain, tick' # AtRest
      PROVE  VerdictHolds' /\ tick'.at = "enqueueing"
  <2> DEFINE v == IF engine = "refuses" THEN CHOOSE w \in tick.verdict : TRUE ELSE Classify
  <2>1. /\ tick' = [tick EXCEPT !.at = "enqueueing", !.verdict = {v}] /\ ~RollsBack(v)
        /\ UNCHANGED <<row, record, succeeded, vanished>> /\ tick.at = "counting"
    BY <1>3 DEF ClassifyAgain, ghosts
  <2>2. tick'.verdict = {v} /\ tick'.at = "enqueueing" /\ tick'.held = tick.held
    <3> HIDE DEF v
    <3> QED BY <2>1, <1>t DEF TickType
  <2>3. There' = There /\ \A n \in There : Over(n)' <=> Over(n)
    BY <2>1 DEF There, Over
  <2>4. /\ SnapshotHolds
        /\ \A r \in tick.found : row[r.node].status = "gone" \/ (Unchanged(r) /\ r.node \in tick.held)
    BY <2>1 DEF CompleteHolds
  <2>5. ~v.pending /\ v.dead = Cardinality(tick.found)
    BY <2>1 DEF RollsBack
  <2>6. v \in Verdict /\ v.succeeded <= Cardinality(There \cap succeeded)
    BY <2>4, Classified DEF SnapshotHolds
  <2>7. ASSUME vanished = {}, NEW n \in There
        PROVE  Over(n) \/ (n \in tick.held /\ row[n].status \in RetryableDead)
    <3>1. \A r \in tick.found :
            /\ Unchanged(r) /\ r.node \in tick.held
            /\ r.node \in There /\ r.status \in RetryableDead
      BY <2>4, <2>7 DEF SnapshotHolds
    <3>2. \A m \in FoundNodes : m \in tick.held /\ row[m].status \in RetryableDead /\ m \in There
      BY <3>1 DEF FoundNodes, Unchanged
    <3>3. n \in FoundNodes \/ Over(n)
      <4>1. CASE engine = "refuses"
        BY <2>4, <2>5, <4>1 DEF SnapshotHolds
      <4>2. CASE engine # "refuses"
        <5>1. IsFiniteSet(DeadRows) /\ FoundNodes \subseteq DeadRows
          BY <3>2, Constants, FS_Subset DEF DeadRows, There
        <5>2. Cardinality(DeadRows) = Cardinality(tick.found)
          BY <2>5, <4>2, Classified
        <5>3. Cardinality(FoundNodes) = Cardinality(tick.found)
          <6>1. IsFiniteSet(FoundNodes)
            BY <5>1, FS_Subset
          <6> QED BY <6>1, <2>4, OneRecordEach DEF SnapshotHolds, FoundNodes
        <5>4. FoundNodes = DeadRows
          <6>1. Cardinality(DeadRows) \in Nat
            BY <5>1, FS_CardinalityType
          <6> QED BY <5>1, <5>2, <5>3, <6>1, OnlyTheWhole
        <5> QED BY <2>5, <4>2, <5>4, Classified
      <4> QED BY <4>1, <4>2
    <3> QED BY <3>2, <3>3
  <2> HIDE DEF v
  <2> QED BY <2>1, <2>2, <2>3, <2>6, <2>7 DEF VerdictHolds
<1>4. ASSUME tick' = tick, tick.at \in {"locking", "counting"} PROVE SnapshotHolds'
  <2>1. SnapshotHolds /\ There' = There /\ FoundNodes' = FoundNodes /\ There \subseteq Nodes
    BY <1>4, ThereStays DEF CompleteHolds, FoundNodes, InTransaction, There
  <2>2. \A n \in There : Over(n) => Over(n)'
    BY <2>1, OverStays
  <2>3. vanished' = {} => \A r \in tick'.found : row'[r.node].status # "gone"
    <3> SUFFICES ASSUME vanished' = {}, NEW r \in tick.found PROVE row'[r.node].status # "gone"
      BY <1>4
    <3>1. row[r.node].status # "gone" /\ r.node \in Nodes /\ r.node \in FoundNodes
      BY <1>4, <1>v, <2>1, <1>t DEF SnapshotHolds, InTransaction, TickType, FoundNodes
    <3>2. RowMoves(r.node) /\ writing[r.node].status \in {"SUCCESSFUL", "FAILED", None} /\ None # "gone"
      BY <3>1, RowsMove, Constants DEF TypeOK, Statuses
    <3> QED BY <3>1, <3>2 DEF RowMoves, To, Cancellable
  <2>4. engine = "refuses" => \E v \in Verdict :
            /\ tick'.verdict = {v}
            /\ ~v.pending => \A n \in There' : n \in FoundNodes' \/ Over(n)'
            /\ v.succeeded <= Cardinality(There' \cap succeeded')
    <3> SUFFICES ASSUME engine = "refuses"
                 PROVE  \E v \in Verdict :
                          /\ tick'.verdict = {v}
                          /\ ~v.pending => \A n \in There' : n \in FoundNodes' \/ Over(n)'
                          /\ v.succeeded <= Cardinality(There' \cap succeeded')
      OBVIOUS
    <3>1. PICK v \in Verdict :
            /\ tick.verdict = {v}
            /\ ~v.pending => \A n \in There : n \in FoundNodes \/ Over(n)
            /\ v.succeeded <= Cardinality(There \cap succeeded)
      BY <2>1 DEF SnapshotHolds
    <3>2. v.succeeded <= Cardinality(There' \cap succeeded')
      <4>1. v.succeeded \in Nat
        BY Constants DEF Verdict
      <4> QED BY <1>4, <1>c, <3>1, <4>1 DEF InTransaction
    <3>3. ~v.pending => \A n \in There' : n \in FoundNodes' \/ Over(n)'
      BY <2>1, <2>2, <3>1
    <3> QED BY <1>4, <3>1, <3>2, <3>3
  <2> QED BY <1>0, <1>4, <2>1, <2>3, <2>4 DEF SnapshotHolds
<1>5. ASSUME tick' = tick, tick.at = "counting", NEW r \in tick'.found
      PROVE  row'[r.node].status = "gone" \/ (Unchanged(r)' /\ r.node \in tick'.held)
  <2>1. r.node \in Nodes /\ r.status \in Dead
    BY <1>5, <1>t DEF TickType
  <2>2. row[r.node].status = "gone" \/ (Unchanged(r) /\ r.node \in tick.held)
    BY <1>5 DEF CompleteHolds
  <2> QED BY <1>5, <2>1, <2>2, RowsStay DEF Unchanged, InTransaction
<1>6. ASSUME tick' = tick, tick.at = "enqueueing" PROVE VerdictHolds'
  <2>1. VerdictHolds /\ There' = There /\ There \subseteq Nodes
    BY <1>6, ThereStays DEF CompleteHolds, InTransaction, There
  <2>2. \A n \in There : Over(n) => Over(n)'
    BY <2>1, OverStays
  <2>3. \A n \in There : n \in tick.held /\ row[n].status \in RetryableDead => row'[n] = row[n]
    BY <1>6, <2>1, RowsStay DEF InTransaction, RetryableDead, Dead
  <2>4. PICK v \in Verdict : tick.verdict = {v} /\ v.succeeded <= Cardinality(There \cap succeeded)
    BY <2>1 DEF VerdictHolds
  <2>5. v.succeeded <= Cardinality(There' \cap succeeded')
    BY <1>6, <1>c, <2>4, Constants DEF Verdict, InTransaction
  <2> QED BY <1>6, <1>v, <2>1, <2>2, <2>3, <2>4, <2>5 DEF VerdictHolds, InTransaction
<1>7. flow'.succeeds => flow'.status = "complete" /\ Added' \subseteq succeeded'
  BY SucceedsStep
<1>8. \/ tick'.at \notin {"locking", "counting", "enqueueing"}
      \/ tick' = tick
      \/ tick' # AtRest /\ (CompleteOnce \/ LockDeadRows \/ ClassifyAgain)
  BY Movers, TickMoves
<1>9. CASE tick' = tick
  BY <1>4, <1>5, <1>6, <1>7, <1>9 DEF CompleteHolds
<1>10. CASE tick' # tick
  BY <1>1, <1>2, <1>3, <1>7, <1>8, <1>10 DEF CompleteHolds
<1> QED BY <1>9, <1>10

\* Every step preserves the invariant.
LEMMA NextHolds ==
  ASSUME IInv, [Next]_vars
  PROVE  IInv'
  BY TypeStep, FlowStep, RowsStep, SuccessesStep, RecordsStep, CancelStep, CompleteStep DEF IInv

\* The invariant holds in every state of every behaviour.
LEMMA Invariant == Spec => []IInv
<1>1. IInv /\ [Next]_vars => IInv'
  BY NextHolds
<1> QED BY <1>1, InitHolds, PTL DEF Spec
-----------------------------------------------------------------------------
(* Theorems.                                                               *)

\* The variables keep their types.
THEOREM TypeCorrect == Spec => []TypeOK
<1>1. IInv => TypeOK
  BY DEF IInv
<1> QED BY <1>1, Invariant, PTL

\* On every graph: an edge is marked only over an upstream that succeeded, whether its row,
\* its record or the proof that oxpull_prune leaves says so, on_success goes out only where
\* every node succeeded, and no node that a retry may still run loses the proof it needs.
THEOREM RecordsProve == Spec => []RecordsProveTheSuccesses
<1>1. IInv => RecordsProveTheSuccesses
  <2> SUFFICES ASSUME IInv PROVE RecordsProveTheSuccesses
    OBVIOUS
  <2>1. SuccessesAreProven
    BY DEF IInv, SuccessesHold, CompleteHolds, Added, SuccessesAreProven
  <2>2. RetirementIsSafe
    BY DEF IInv, RowsHold, RecordsHold, RetirementIsSafe
  <2> QED BY <2>1, <2>2 DEF RecordsProveTheSuccesses
<1> QED BY <1>1, Invariant, PTL

\* On every graph: Claim runs a node only after all it depends on succeeded, whatever
\* operators, hands, crashes and snapshots did to its row.
THEOREM NodesWait == Spec => NoNodeRunsEarly
<1>1. ASSUME IInv, [Next]_vars
      PROVE  \A n \in Nodes :
               row'[n].status = "RUNNING" /\ row[n].status # "RUNNING" => deps[n] \subseteq succeeded
  <2> SUFFICES ASSUME NEW n \in Nodes, row'[n].status = "RUNNING", row[n].status # "RUNNING",
                      NEW u \in deps[n]
               PROVE  u \in succeeded
    OBVIOUS
  <2>1. row[n].status = "READY" /\ Runnable(n)
    <3>1. RowMoves(n) /\ writing[n].status \in {"SUCCESSFUL", "FAILED", None} /\ None # "RUNNING"
      BY <1>1, RowsMove, Constants DEF IInv, TypeOK, Statuses
    <3> QED BY <3>1 DEF RowMoves, To, Cancellable
  <2>2. <<u, n>> \in EdgesInto(n) /\ <<u, n>> \in Edges /\ u \in Nodes
    BY <1>1, Constants DEF EdgesInto, Edges, IInv, TypeOK
  <2>3. edge[<<u, n>>] # "open" \/ row[u].status = "SUCCESSFUL"
    BY <2>1, <2>2 DEF Runnable, Blocking
  <2>4. record[n].node = "there"
    BY <1>1, <2>1 DEF IInv, TypeOK, RowsHold, Retirable
  <2>5. edge[<<u, n>>] \in {"open", "satisfied"}
    BY <1>1, <2>2, <2>4 DEF IInv, TypeOK, RowsHold
  <2> QED BY <1>1, <2>2, <2>3, <2>5 DEF IInv, SuccessesHold
<1>2. IInv /\ [Next]_vars =>
        [\A n \in Nodes :
           row'[n].status = "RUNNING" /\ row[n].status # "RUNNING" => deps[n] \subseteq succeeded]_vars
  BY <1>1
<1> QED BY <1>2, Invariant, PTL DEF Spec, NoNodeRunsEarly

\* On every graph: cancel_many discards a node only while one it depends on is dead under
\* the lock, or deleted with nothing that says it succeeded.
THEOREM DoomedAreCancelled == Spec => OnlyDoomedNodesAreCancelled
<1> DEFINE Doomed ==
      tick.at = "moving" =>
       \A d \in Nodes : row'[d].status = "DISCARDED" /\ row[d].status # "DISCARDED" /\ tick' = AtRest
         => \E u \in deps[d] : IsDead(u) \/ (row[u].status = "gone" /\ u \notin succeeded \ forgotten)
<1>1. ASSUME IInv, [Next]_vars PROVE Doomed
  <2> SUFFICES ASSUME tick.at = "moving", NEW d \in Nodes, row'[d].status = "DISCARDED",
                      row[d].status # "DISCARDED", tick' = AtRest
               PROVE  \E u \in deps[d] : IsDead(u) \/ GoneDead(u)
    BY DEF GoneDead
  <2>1. tick' # tick /\ row' # row
    BY DEF AtRest
  <2>2. CancelMany
    BY <1>1, <2>1, Movers
  <2>3. PICK p \in tick.pairs : p[1] = d
    BY <2>2 DEF CancelMany
  <2> QED BY <1>1, <2>3 DEF IInv, CancelHolds
<1>2. IInv /\ [Next]_vars => [Doomed]_vars
  BY <1>1
<1> QED BY <1>2, Invariant, PTL DEF Spec, OnlyDoomedNodesAreCancelled

\* On every graph: the tick completes a workflow only when all its nodes are settled,
\* however a retry interleaves with it; unless ox_prune deletes a row that it read as dead.
THEOREM CompletesOver == Spec => CompletesOverNothingPending
<1> DEFINE Completes ==
      flow.status = "sealed" /\ flow'.status = "complete" /\ vanished = {}
        => \A n \in There : ~Pending(n)
<1>1. ASSUME IInv, [Next]_vars PROVE Completes
  <2> SUFFICES ASSUME flow.status = "sealed", flow'.status = "complete", vanished = {},
                      NEW n \in There
               PROVE  ~Pending(n)
    OBVIOUS
  <2>1. EnqueueCallbacks
    BY <1>1, Movers DEF InsertNode, Seal, StampRetired, IInv, TypeOK, FlowHolds
  <2>2. Over(n) \/ row[n].status \in RetryableDead
    BY <1>1, <2>1 DEF EnqueueCallbacks, IInv, CompleteHolds, VerdictHolds
  <2> QED BY <2>2 DEF Over, Pending, Retirable, RetryableDead, Settled, Dead
<1>2. IInv /\ [Next]_vars => [Completes]_vars
  BY <1>1
<1> QED BY <1>2, Invariant, PTL DEF Spec, CompletesOverNothingPending
=============================================================================
