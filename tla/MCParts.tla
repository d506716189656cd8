------------------------------ MODULE MCParts ------------------------------
(***************************************************************************)
(* Parts of the system that have no state in common, checked in one run.   *)
(* A behaviour is one of a batch, of the limits that workers share, of the *)
(* dispatch of a schedule on a database that cannot skip locked rows, of   *)
(* the writes of a row's outcomes, or of oxpull's backstop: over the rows  *)
(* of some workflows ("scan"), or over the round of several ("round").     *)
(*                                                                         *)
(* The symmetry: task ids and reconcilers are told apart by nothing but    *)
(* equality.  The callers of a batch are not: one of them is ambient.      *)
(***************************************************************************)
EXTENDS ScheduleDispatch, TLC

CONSTANTS
  Callers, Ambient, Reconcilers, Tasks, Engines, MAX_SERIALIZATION_ATTEMPTS, MaxMishaps, None, \* batch
  Configurations, Concurrency, Limit, MaxRunning, Tries, MAX_COUNT_FAILURES, LastWindow,
    MaxErrors, MaxDeaths,                                                  \* limits
  LastEpoch, OUTCOME_ATTEMPTS, Delays, MaxFaults,                          \* outcome
  ScanFlow, ScanRows, RoundFlow, RoundRows,
    Visitors, BACKSTOP_PAGE, VISIT_PAGES, MaxCrashes                       \* scan, round

VARIABLES part,
  engine, watched, batch, members, task, call, tx, report, mishaps, settledOnce, succeeded, reopened,
  limits, window, worker, running, abandoned, marks, admitted, lost, errors, deaths,
  row, writer, applied, faults,
  status, scan, after, visit, crashes, since, stores

batches ==
  <<engine, watched, batch, members, task, call, tx, report, mishaps, settledOnce, succeeded,
    reopened>>
admission ==
  <<limits, window, worker, running, abandoned, marks, admitted, lost, errors, deaths>>
outcome == <<row, writer, applied, faults>>
backstop == <<status, scan, after, visit, crashes, since, stores>>

Batches == INSTANCE Batch
Limits == INSTANCE Admission WITH MaxFailures <- MAX_COUNT_FAILURES
Outcome == INSTANCE OutcomeWrite
Scan == INSTANCE Backstop WITH Ticks <- Visitors, LastFlow <- ScanFlow, Rows <- ScanRows
Round == INSTANCE Backstop WITH Ticks <- Visitors, LastFlow <- RoundFlow, Rows <- RoundRows

ASSUME BatchAssumption == Batches!Parameters
ASSUME LimitsAssumption == Limits!Parameters
ASSUME ScanAssumption == Scan!Parameters
ASSUME RoundAssumption == Round!Parameters

\* Where a stale snapshot is refused, a batch's behaviour has conflicts and no mishaps.
Mishaps == [e \in Engines |-> IF e = "refuses" THEN 0 ELSE 1]

\* One row of each table, of one workflow.
OneOfEach == {[table |-> table, key |-> 1, flow |-> 1] : table \in {"edges", "nodes"}}

\* A behaviour has the state of its part, and nothing of the others.
PartInit ==
  /\ Init
  /\ part \in {"batch", "limits", "waiting", "outcome", "scan", "round"}
  /\ IF part = "batch" THEN Batches!Init
     ELSE /\ engine = None /\ watched = None /\ batch = None /\ members = None /\ task = None
          /\ call = None /\ tx = None /\ report = None /\ mishaps = None /\ settledOnce = None
          /\ succeeded = None /\ reopened = None
  /\ IF part = "limits" THEN Limits!Init
     ELSE /\ limits = None /\ window = None /\ worker = None /\ running = None
          /\ abandoned = None /\ marks = None /\ admitted = None /\ lost = None /\ errors = None
          /\ deaths = None
  /\ IF part = "outcome" THEN Outcome!Init
     ELSE /\ row = None /\ writer = None /\ applied = None /\ faults = None
  /\ CASE part = "scan" -> Scan!Init
       [] part = "round" -> Round!Init
       [] OTHER -> /\ status = None /\ scan = None /\ after = None /\ visit = None /\ crashes = None
                   /\ since = None /\ stores = None

PartNext ==
  /\ UNCHANGED part
  /\ \/ part = "batch" /\ Batches!Next /\ UNCHANGED <<vars, admission, outcome, backstop>>
     \/ part = "limits" /\ Limits!Next /\ UNCHANGED <<vars, batches, outcome, backstop>>
     \/ part = "waiting" /\ Next /\ UNCHANGED <<batches, admission, outcome, backstop>>
     \/ part = "outcome" /\ Outcome!Next /\ UNCHANGED <<vars, batches, admission, backstop>>
     \/ part = "scan" /\ Scan!ScanNext /\ UNCHANGED <<vars, batches, admission, outcome>>
     \/ part = "round" /\ Round!ScanNext /\ UNCHANGED <<vars, batches, admission, outcome>>

PartSpec ==
  PartInit /\ [][PartNext]_<<part, vars, batches, admission, outcome, backstop>>

\* BatchTellsTheTruth: seal() stores the membership as the total, progress() never
\* runs ahead of it, and racing reconcilers leave one callback of each kind.
BatchTellsTheTruthHere == part = "batch" => Batches!BatchTellsTheTruth

\* CompletionIsEarned: a batch completes over finished members, and succeeds over
\* members that all did.
CompletionIsEarnedHere == [][part = "batch" => Batches!EarnsItsCompletion]_batches

\* No window admits more than its limit, one more for each other worker, and those
\* whose count was lost; the RUNNING rows stay at max + W - 1 at most, and a slot
\* that came free is counted by the next pass.
LimitsAreOvershotAsPromised ==
  part = "limits" =>
    Limits!RateOvershootIsBounded /\ Limits!ConcurrencyOvershootIsBounded /\ Limits!FreedSlotsAreSeen

\* OutcomesAreToldTruly: a write that is sent again takes effect once, and what its
\* caller is told of it is so.
OutcomesAreToldTruly == part = "outcome" => Outcome!OutcomesAreToldTruly

\* BackstopReachesEveryRow: an open row is read within two passes, or a pass more for
\* each tick where they overlap, and the round passes no workflow by.
BackstopReachesEveryRow ==
  /\ part = "scan" => Scan!RowsAreReadInTime
  /\ part = "round" => Round!NoFlowIsPassedBy

Symmetry == Permutations(Tasks) \cup Permutations(Reconcilers)
=============================================================================
