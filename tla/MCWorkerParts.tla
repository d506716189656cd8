---------------------------- MODULE MCWorkerParts ----------------------------
(***************************************************************************)
(* What django_ox does beside running tasks, in parts that have no state   *)
(* in common: a behaviour is one of the recovery of claims that raised, of *)
(* the renewal of leases, of ox_prune, or of a cron expression's walk to a *)
(* tick.                                                                   *)
(***************************************************************************)
EXTENDS ClaimRecovery

CONSTANTS
  Rows, lock_timeout, renew_interval, budget, POOL_FALLBACK_WAIT, LastGap, Records,   \* renewal
  Runs, Operator, Keys, Cutoff, batch_size, ATTEMPTS, MaxFailures,                     \* prune
  SEARCH_DAYS                                                                         \* cron

VARIABLES part,
  thread, server, leases, own, safe, due, tick, failed, left,
  kind, rowLocks, table, instant, proc, failures, taker,
  expression, from, direction, cur, ended

renewal == <<thread, server, leases, own, safe, due, tick, failed, left>>
pruning == <<kind, rowLocks, table, instant, proc, failures, taker>>
walk == <<expression, from, direction, cur, ended>>

\* Days of two hours of three minutes; a list, a range, and steps, which end short of
\* the field; Sunday by its other number; the ends of February and of centuries.
Alone(v) == [body |-> <<v>>, step |-> 0]
Every(n) == [body |-> <<>>, step |-> n]
Fields ==
  [minute |-> {{}, {Alone(1)}, {Every(2)}},
   hour |-> {{}, {Alone(1)}},
   dom |-> {{}, {Alone(29)}, {Alone(31), Alone(1)}, {[body |-> <<30, 31>>, step |-> 0]}},
   month |-> {{}, {Alone(2)}, {Every(3)}},
   dow |-> {{}, {Alone(7)}, {[body |-> <<1>>, step |-> 4]}}]
Readings ==
  {[y |-> 2096, m |-> 2, d |-> 29, hh |-> 0, mm |-> 1],
   [y |-> 2099, m |-> 12, d |-> 31, hh |-> 1, mm |-> 2],
   [y |-> 2104, m |-> 2, d |-> 28, hh |-> 1, mm |-> 2]}

Renewal == INSTANCE LeaseRenewal WITH row <- leases
Pruning == INSTANCE Prune WITH row <- table
Cron == INSTANCE CronTrigger WITH LastHour <- 1, LastMinute <- 2

ASSUME RenewalAssumption == Renewal!Parameters
ASSUME PruningAssumption == Pruning!Parameters

\* A behaviour has the state of its part, and nothing of the others but recovery's.
PartInit ==
  /\ part \in {"recovery", "renewal", "prune", "cron"}
  /\ Init
  /\ IF part = "renewal" THEN Renewal!Init
     ELSE /\ thread = 0 /\ server = 0 /\ leases = 0 /\ own = 0 /\ safe = 0 /\ due = 0
          /\ tick = 0 /\ failed = 0 /\ left = 0
  /\ IF part = "prune" THEN Pruning!Init
     ELSE /\ kind = 0 /\ rowLocks = 0 /\ table = 0 /\ instant = 0 /\ proc = 0 /\ failures = 0
          /\ taker = 0
  /\ IF part = "cron" THEN Cron!Init
     ELSE expression = 0 /\ from = 0 /\ direction = 0 /\ cur = 0 /\ ended = 0

PartNext ==
  /\ UNCHANGED part
  /\ \/ part = "recovery" /\ Next /\ UNCHANGED <<renewal, pruning, walk>>
     \/ part = "renewal" /\ Renewal!Next /\ UNCHANGED <<vars, pruning, walk>>
     \/ part = "prune" /\ Pruning!Next /\ UNCHANGED <<vars, renewal, walk>>
     \/ part = "cron" /\ Cron!Next /\ UNCHANGED <<vars, renewal, pruning>>

PartSpec == PartInit /\ [][PartNext]_<<part, vars, renewal, pruning, walk>>

\* RenewalKeepsTheLeases: a lease outlives a missed renewal wherever a connection can
\* be had, and what a batch of stuck attempts waits for does not grow with the batch.
RenewalKeepsTheLeases == part = "renewal" => Renewal!RenewalKeepsTheLeases

\* PruningTakesWhatItMay: rows go that may when they do, of ticks none but those with a
\* newer one that reads, each counted once, and commands do not wait in a circle.
PruningTakesWhatItMay == [][part = "prune" => Pruning!TakesWhatItMay]_pruning

\* WalksFindTheTick: previous() and following() pass no tick and end at one.
WalksFindTheTick == [][part = "cron" => Cron!WalksPastNoTick]_walk
=============================================================================
