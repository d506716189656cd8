------------------------------- MODULE Backstop -------------------------------
(***************************************************************************)
(* The backstop of oxpull's workflow reconciler: each tick visits the      *)
(* workflows that are not complete, round-robin, and each visit reads some *)
(* pages of a pass over the workflow's open edges and nodes.  Where a pass *)
(* stands, and the round, are rows moved by compare-and-set, since ticks   *)
(* may overlap.  What a page does to the rows it reads is Workflow's; the  *)
(* fairness that module assumes of it is what this one is about.           *)
(*                                                                         *)
(* Left out: the queue of rows that were locked, which only has them read  *)
(* sooner.                                                                 *)
(***************************************************************************)
EXTENDS Integers, FiniteSets

CONSTANTS
  LastFlow,    \* the workflows, none of them complete, are 1 .. LastFlow by id
  Rows,        \* their edge and node rows: [table, key, flow]
  Ticks,       \* ticks that may overlap
  BACKSTOP_PAGE, VISIT_PAGES,
  MaxCrashes   \* bound: ticks that end part-way

Flows == 1 .. LastFlow

\* A key is of one row of its table.
Parameters ==
  /\ {LastFlow, BACKSTOP_PAGE, VISIT_PAGES} \subseteq Nat \ {0} /\ MaxCrashes \in Nat
  /\ IsFiniteSet(Rows) /\ IsFiniteSet(Ticks) /\ Ticks # {}
  /\ \A r \in Rows : r.table \in {"edges", "nodes"} /\ r.key \in Nat \ {0} /\ r.flow \in Flows
  /\ \A r, s \in Rows : r.table = s.table /\ r.key = s.key => r = s

VARIABLES
  status,   \* of each row
  scan,     \* per workflow, the place of its pass
  after,    \* the workflow the round stopped at
  visit,    \* per tick, the round and the visit in progress
  crashes,
  \* No part of the code, and read by no action:
  since,    \* per row and phase, the passes that ended since it was last read
  stores    \* per workflow, the moves of the round since it was last visited

scanState == <<status, scan, after, visit, crashes, since, stores>>
-----------------------------------------------------------------------------
Phases == {"EDGES", "NODES", "RELEASE"}
Table(phase) == IF phase = "EDGES" THEN "edges" ELSE "nodes"
Reads == {x \in Phases \X Rows : x[2].table = Table(x[1])}

Unset == -1
AT_REST == [phase |-> "EDGES", position |-> 0, edge_hwm |-> Unset, node_hwm |-> Unset]
Place == [phase : Phases, position : Nat, edge_hwm : Nat \cup {Unset}, node_hwm : Nat \cup {Unset}]
Hwm(place, phase) == IF phase = "EDGES" THEN place.edge_hwm ELSE place.node_hwm

\* start: where the round began.  marks: the round's.  fresh: nobody moved the round
\* since it was read.  place and stored: _Scan's.
NoRound == [at |-> "idle", start |-> 0, visited |-> 0, edges |-> 0, nodes |-> 0, fresh |-> FALSE,
            place |-> AT_REST, stored |-> AT_REST, pages |-> 0]

Visit ==
  [at : {"idle", "round", "paging", "storing", "moving"},
   start : 0 .. LastFlow, visited : 0 .. LastFlow, edges : Nat, nodes : Nat, fresh : BOOLEAN,
   place : Place, stored : Place, pages : 0 .. VISIT_PAGES]

TypeOK ==
  /\ status \in [Rows -> {"absent", "open", "closed"}]
  /\ scan \in [Flows -> Place] /\ after \in 0 .. LastFlow
  /\ visit \in [Ticks -> Visit]
  /\ crashes \in 0 .. MaxCrashes
  /\ since \in [Reads -> Nat] /\ stores \in [Flows -> Nat]

Init ==
  /\ status \in [Rows -> {"absent", "open"}]
  /\ scan = [f \in Flows |-> AT_REST] /\ after = 0
  /\ visit = [t \in Ticks |-> NoRound] /\ crashes = 0
  /\ since = [x \in Reads |-> 0] /\ stores = [f \in Flows |-> 0]

Becomes(t, next) == visit' = [visit EXCEPT ![t] = next]

\* The i-th to visit: in id order, from the one after which the last round stopped,
\* and wrapping.
Visiting(start, i) == IF start + i <= LastFlow THEN start + i ELSE start + i - LastFlow
Flow(t) == Visiting(visit[t].start, visit[t].visited + 1)

Highest(ks) == IF ks = {} THEN 0 ELSE CHOOSE k \in ks : \A j \in ks : j <= k
HighestPk(table) ==
  Highest({r.key : r \in {s \in Rows : s.table = table /\ status[s] # "absent"}})
-----------------------------------------------------------------------------
(* A round.                                                                *)

BeginRound(t) ==
  /\ visit[t].at = "idle"
  /\ Becomes(t, [NoRound EXCEPT !.at = "round", !.start = after, !.fresh = TRUE,
                                !.edges = HighestPk("edges"), !.nodes = HighestPk("nodes")])
  /\ UNCHANGED <<status, scan, after, crashes, since, stores>>

\* Where the pass over the workflow stands, or a new one up to the round's marks.
BeginsAt(v, stored) ==
  IF stored.edge_hwm # Unset /\ stored.node_hwm # Unset THEN stored
  ELSE [AT_REST EXCEPT !.edge_hwm = v.edges, !.node_hwm = v.nodes]

BeginVisit(t) ==
  LET v == visit[t] IN
  /\ v.at = "round" /\ v.visited < LastFlow
  /\ Becomes(t, [v EXCEPT !.at = "paging", !.pages = 0, !.stored = scan[Flow(t)],
                          !.place = BeginsAt(v, scan[Flow(t)])])
  /\ stores' = [stores EXCEPT ![Flow(t)] = 0]
  /\ UNCHANGED <<status, scan, after, crashes, since>>

\* The deadline passed after a visit, or there is none left; only a round that
\* stopped part-way is stored.
EndRound(t) ==
  LET v == visit[t] IN
  /\ v.at = "round" /\ v.visited > 0
  /\ Becomes(t, IF v.visited = LastFlow THEN NoRound ELSE [v EXCEPT !.at = "moving"])
  /\ UNCHANGED <<status, scan, after, crashes, since, stores>>

\* By compare-and-set on the version of the round.
StoppedAt(v) == Visiting(v.start, v.visited)

MoveRound(t) ==
  LET v == visit[t] IN
  /\ v.at = "moving"
  /\ visit' = [u \in Ticks |-> IF u = t THEN NoRound
                               ELSE [visit[u] EXCEPT !.fresh = @ /\ ~v.fresh]]
  /\ after' = IF v.fresh THEN StoppedAt(v) ELSE after
  /\ stores' = IF v.fresh THEN [f \in Flows |-> stores[f] + 1] ELSE stores
  /\ UNCHANGED <<status, scan, crashes, since>>
-----------------------------------------------------------------------------
(* A visit.                                                                *)

EndsVisit(v) == [v EXCEPT !.at = "round", !.visited = @ + 1, !.place = AT_REST,
                          !.stored = AT_REST, !.pages = 0]

\* The workflow's open rows from the place up to the mark, and the first of them.
Ahead(t) ==
  LET p == visit[t].place IN
  {r \in Rows : /\ r.table = Table(p.phase) /\ r.flow = Flow(t) /\ status[r] = "open"
                /\ p.position < r.key /\ r.key <= Hwm(p, p.phase)}

IsPageOf(page, rows) ==
  IF Cardinality(rows) <= BACKSTOP_PAGE THEN page = rows
  ELSE /\ Cardinality(page) = BACKSTOP_PAGE
       /\ \A r \in page, s \in rows \ page : r.key < s.key

\* Fault: edges are followed by the release.
FollowingPhase_Release(phase) == "RELEASE"

FollowingPhase(phase) == IF phase = "EDGES" THEN "NODES" ELSE "RELEASE"

\* A pass over the tick's workflow ends.
EndsPass(t, x) == x[2].flow = Flow(t) /\ status[x[2]] = "open"

\* A full page is stored and paged on from; a short one ends its phase, and in the
\* last phase the pass.  With nothing stored a pass that ends stores nothing.
ReadPage(t) ==
  LET v == visit[t]
      read == [v EXCEPT !.pages = @ + 1]
  IN  /\ v.at = "paging" /\ v.pages < VISIT_PAGES
      /\ \E page \in SUBSET Ahead(t) :
           LET full == Cardinality(page) = BACKSTOP_PAGE
               over == ~full /\ v.place.phase = "RELEASE"
           IN  /\ IsPageOf(page, Ahead(t))
               /\ since' = [x \in Reads |->
                    IF x[1] = v.place.phase /\ x[2] \in page THEN 0
                    ELSE IF over /\ v.stored = AT_REST /\ EndsPass(t, x) THEN since[x] + 1
                    ELSE since[x]]
               /\ Becomes(t,
                    IF full THEN [read EXCEPT !.at = "storing",
                                              !.place.position = Highest({r.key : r \in page})]
                    ELSE IF ~over THEN [read EXCEPT !.place.phase = FollowingPhase(@),
                                                    !.place.position = 0]
                    ELSE IF v.stored = AT_REST THEN EndsVisit(v)
                    ELSE [read EXCEPT !.at = "storing", !.place = AT_REST])
      /\ UNCHANGED <<status, scan, after, crashes, stores>>

\* The visit stops part-way: pages enough, or the deadline, but for its first page.
StopVisit(t) ==
  /\ visit[t].at = "paging" /\ visit[t].pages > 0
  /\ Becomes(t, IF visit[t].place = visit[t].stored THEN EndsVisit(visit[t])
                ELSE [visit[t] EXCEPT !.at = "storing", !.pages = VISIT_PAGES])
  /\ UNCHANGED <<status, scan, after, crashes, since, stores>>

\* By compare-and-set on the place that was read, and a visit that lost it stops.
\* A workflow with no scan row has it at rest.
Wins(t) == scan[Flow(t)] = visit[t].stored

StoreScan(t) ==
  LET v == visit[t]
      over == v.place = AT_REST
  IN  /\ v.at = "storing"
      /\ scan' = IF Wins(t) THEN [scan EXCEPT ![Flow(t)] = v.place] ELSE scan
      /\ since' = [x \in Reads |->
           IF Wins(t) /\ over /\ EndsPass(t, x) THEN since[x] + 1 ELSE since[x]]
      /\ Becomes(t, IF Wins(t) /\ ~over THEN [v EXCEPT !.at = "paging", !.stored = v.place]
                    ELSE EndsVisit(v))
      /\ UNCHANGED <<status, after, crashes, stores>>
-----------------------------------------------------------------------------
\* What others do: a row is added, or closed: marked, or recorded as succeeded.
AddRow(r) ==
  /\ status[r] = "absent"
  /\ status' = [status EXCEPT ![r] = "open"]
  /\ UNCHANGED <<scan, after, visit, crashes, since, stores>>

CloseRow(r) ==
  /\ status[r] = "open"
  /\ status' = [status EXCEPT ![r] = "closed"]
  /\ since' = [x \in Reads |-> IF x[2] = r THEN 0 ELSE since[x]]
  /\ UNCHANGED <<scan, after, visit, crashes, stores>>

\* The tick's worker is gone, or a statement of it raises.
TickDies(t) ==
  /\ visit[t].at # "idle" /\ crashes < MaxCrashes
  /\ crashes' = crashes + 1
  /\ Becomes(t, NoRound)
  /\ UNCHANGED <<status, scan, after, since, stores>>

TickStep(t) ==
  \/ BeginRound(t) \/ BeginVisit(t) \/ EndRound(t) \/ MoveRound(t)
  \/ ReadPage(t) \/ StopVisit(t) \/ StoreScan(t)

ScanNext ==
  \/ \E t \in Ticks : TickStep(t) \/ TickDies(t)
  \/ \E r \in Rows : AddRow(r) \/ CloseRow(r)

ScanSpec == Init /\ [][ScanNext]_scanState
-----------------------------------------------------------------------------
\* An open row is read within two passes over its workflow, the one it was added
\* during and the next.  Where ticks overlap each may end one more, that began before
\* the row was added or read on from a place that a later pass came to again.
RowsAreReadInTime ==
  \A x \in Reads :
    since[x] <= IF Cardinality(Ticks) = 1 THEN 1 ELSE Cardinality(Ticks) + 1

\* The round passes no workflow by: it moves no more often than there are workflows
\* between two visits to one.
NoFlowIsPassedBy == \A f \in Flows : stores[f] <= LastFlow
=============================================================================
