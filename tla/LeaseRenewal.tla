---------------------------- MODULE LeaseRenewal ----------------------------
(***************************************************************************)
(* The two threads of a django_ox worker that must not queue behind its    *)
(* tasks for a connection: lease renewal, and the watchdog that records    *)
(* stuck attempts.  With Django's PostgreSQL pool each opens a connection  *)
(* of its own, by a deadline, and falls back on the pool, briefly; without *)
(* it they use the thread's ordinary one.                                  *)
(*                                                                         *)
(* A behaviour is of one thread on one database.  Time is discrete, and    *)
(* every clock counts down; the statements themselves take none, except    *)
(* where one waits for a row that a caller's transaction holds.            *)
(***************************************************************************)
EXTENDS Integers

CONSTANTS
  Rows,                 \* the rows this worker may hold
  lock_timeout, renew_interval,
  budget,               \* OWN_CONNECTION_DEADLINE, or the interval if that is less
  POOL_FALLBACK_WAIT,
  LastGap,              \* bound: from a claim's UPDATE to its execution
  Records               \* bound: stuck attempts in a batch

\* A third of lock_timeout is renewed in, by a deadline within it; what a miss leaves
\* of a lease has time for the pool, and for both ways wherever both are begun.
Parameters ==
  /\ {lock_timeout, renew_interval, budget, POOL_FALLBACK_WAIT, LastGap, Records} \subseteq Nat
  /\ POOL_FALLBACK_WAIT < budget /\ budget <= renew_interval
  /\ 2 * renew_interval + LastGap + POOL_FALLBACK_WAIT < lock_timeout
  /\ 2 * renew_interval + budget + POOL_FALLBACK_WAIT <= lock_timeout =>
       2 * renew_interval + budget + LastGap < lock_timeout

VARIABLES
  thread,  \* "renewal" or "watchdog"
  server,  \* what can be had: "spare" from the pool, "slots" for own connections, "any"
           \* and neither for sure, or "ordinary": the database is not pooled
  row,     \* the claims of this worker, and what is left of their leases
  own,     \* the thread's own connection is open
  safe,    \* what is left of safe_until
  due,     \* until the next tick
  tick,    \* the tick, or the batch, in progress
  failed,  \* statements that failed since one renewed (no part of the code)
  left     \* the batch's records

vars == <<thread, server, row, own, safe, due, tick, failed, left>>
-----------------------------------------------------------------------------
Lower(a, b) == IF a < b THEN a ELSE b
Down(n) == IF n > 0 THEN n - 1 ELSE 0
LastElapsed == 2 * (budget + POOL_FALLBACK_WAIT)

\* inside: it runs inside its caller's atomic block, and nobody sees its claim.
\* gap: how much later than its claim the execution joined _in_flight.
Row == [at : {"free", "claimed", "running", "inside"},
        lease : 0 .. lock_timeout, gap : 0 .. LastGap]

Free == [at |-> "free", lease |-> 0, gap |-> 0]

\* waits: rows the statement names that a caller's transaction holds.
Tick == [at : {"idle", "unneeded", "opening", "borrowing", "statement"},
         on : {"none", "own", "pool", "ordinary"}, elapsed : 0 .. LastElapsed,
         wait : 0 .. POOL_FALLBACK_WAIT, hurry : BOOLEAN, waits : SUBSET Rows]

Idle == [at |-> "idle", on |-> "none", elapsed |-> 0, wait |-> 0, hurry |-> FALSE, waits |-> {}]

TypeOK ==
  /\ thread \in {"renewal", "watchdog"} /\ server \in {"spare", "slots", "any", "ordinary"}
  /\ row \in [Rows -> Row] /\ own \in BOOLEAN
  /\ safe \in 0 .. lock_timeout /\ due \in 0 .. renew_interval
  /\ tick \in Tick /\ failed \in 0 .. 2 /\ left \in 0 .. Records

Init ==
  /\ thread \in {"renewal", "watchdog"} /\ server \in {"spare", "slots", "any", "ordinary"}
  /\ row = [r \in Rows |-> Free] /\ own = FALSE
  /\ safe = lock_timeout /\ due = renew_interval /\ tick = Idle /\ failed = 0
  /\ left \in IF thread = "watchdog" THEN 1 .. Records ELSE {0}

Pooled == server # "ordinary"
Goes(step) == tick' = [tick EXCEPT !.at = step]
-----------------------------------------------------------------------------
(* What is renewed, and how long it lasts.                                 *)

InFlight == {r \in Rows : row[r].at \in {"running", "inside"}}

Renewable == {r \in InFlight : row[r].at # "inside"}

\* The UPDATE reaches the rows the worker holds; no other can see those inside.
Renewed == [r \in Rows |-> IF row[r].at = "running"
                           THEN [row[r] EXCEPT !.lease = lock_timeout, !.gap = 0] ELSE row[r]]

\* A tick ends: safe_until moves to lock_timeout after its start, or not.
Ends(renewed) ==
  /\ tick' = Idle
  /\ safe' = IF renewed THEN lock_timeout - Lower(tick.elapsed, lock_timeout) ELSE safe
-----------------------------------------------------------------------------
(* A connection: the thread's own by its deadline, or one from the pool.   *)

\* _renew_on asks the pool first with too little left for the other order.
\* Fault: it never does.
Hurry_Never == FALSE

Hurry == safe < budget + POOL_FALLBACK_WAIT

Opening == [Idle EXCEPT !.at = "opening"]
Borrowing(v) == [v EXCEPT !.at = "borrowing",
                          !.wait = IF thread = "renewal" THEN Lower(POOL_FALLBACK_WAIT, safe)
                                   ELSE POOL_FALLBACK_WAIT]

\* Neither could be had: a tick is missed, and a batch's records fail at once.
Neither ==
  IF thread = "renewal" THEN Ends(FALSE)
  ELSE /\ tick' = [tick EXCEPT !.at = "statement", !.on = "none"]
       /\ UNCHANGED safe

\* One way failed: the other, unless it came first.
OtherWay(next, second) ==
  \/ ~second /\ tick' = next /\ UNCHANGED safe
  \/ second /\ Neither

Open ==
  /\ tick.at = "opening" /\ tick.elapsed < budget
  /\ own' = TRUE
  /\ tick' = [tick EXCEPT !.at = "statement", !.on = "own"]
  /\ UNCHANGED <<thread, server, row, safe, due, failed, left>>

\* Refused, or given up at the deadline, for every host and address there is.
OpenFails ==
  /\ tick.at = "opening"
  /\ server = "slots" => tick.elapsed = budget
  /\ OtherWay(Borrowing(tick), tick.hurry)
  /\ UNCHANGED <<thread, server, row, own, due, failed, left>>

Borrow ==
  /\ tick.at = "borrowing" /\ server # "slots"
  /\ tick' = [tick EXCEPT !.at = "statement", !.on = "pool"]
  /\ UNCHANGED <<thread, server, row, own, safe, due, failed, left>>

BorrowFails ==
  /\ tick.at = "borrowing" /\ server # "spare"
  /\ OtherWay([tick EXCEPT !.at = "opening"], ~tick.hurry)
  /\ UNCHANGED <<thread, server, row, own, due, failed, left>>
-----------------------------------------------------------------------------
(* A renewal.                                                              *)

\* _every: timed from the start of this call.
NextDue == renew_interval

BeginTick ==
  /\ thread = "renewal" /\ tick.at = "idle" /\ due = 0
  /\ due' = NextDue
  /\ tick' = IF ~Pooled
             THEN [Idle EXCEPT !.at = "statement", !.on = "ordinary",
                               !.waits = {r \in Renewable : row[r].at = "inside"}]
             ELSE IF Renewable = {} THEN [Idle EXCEPT !.at = "unneeded"]
             ELSE IF own THEN [Idle EXCEPT !.at = "statement", !.on = "own"]
             ELSE IF Hurry THEN Borrowing([Idle EXCEPT !.hurry = TRUE]) ELSE Opening
  /\ UNCHANGED <<thread, server, row, own, safe, failed, left>>

\* Nothing to renew when it was asked; renew_leases() is called all the same, and
\* names what has joined since, on a connection by this tick's deadline.
EndUnneeded ==
  /\ tick.at = "unneeded"
  /\ IF Renewable = {} THEN UNCHANGED <<row, own>>
     ELSE \/ row' = Renewed /\ (own \/ tick.elapsed < budget) /\ own' = TRUE
          \/ row' \in {row, Renewed} /\ own' = FALSE
  /\ Ends(TRUE) /\ failed' = 0
  /\ UNCHANGED <<thread, server, due, left>>

\* The statement is not waiting for a row that a caller's transaction holds.
Answered == \A r \in tick.waits : row[r].at # "inside"

Renew ==
  /\ thread = "renewal" /\ tick.at = "statement" /\ Answered
  /\ row' = Renewed
  /\ Ends(TRUE) /\ failed' = 0
  /\ UNCHANGED <<thread, server, own, due, left>>

\* _renew_or_warn drops the thread's connections.  The statement may have reached
\* the rows.  A pool that was asked first leaves the thread's own to try.
RenewFails ==
  /\ thread = "renewal" /\ tick.at = "statement"
  /\ row' \in {row, Renewed}
  /\ own' = FALSE
  /\ failed' = Lower(failed + 1, 2)
  /\ \/ tick.on = "pool" /\ OtherWay([tick EXCEPT !.at = "opening", !.on = "none"], ~tick.hurry)
     \/ tick.on # "pool" /\ Ends(FALSE)
  /\ UNCHANGED <<thread, server, due, left>>
-----------------------------------------------------------------------------
(* A batch of stuck attempts.                                              *)

BeginBatch ==
  /\ thread = "watchdog" /\ tick.at = "idle" /\ left > 0
  /\ tick' = IF Pooled THEN Opening ELSE [Idle EXCEPT !.at = "statement", !.on = "ordinary"]
  /\ UNCHANGED <<thread, server, row, own, safe, due, failed, left>>

\* A record is written, or it fails and may take the connection with it.  The rest go
\* without one: the time for an own has passed, and the pool gave the one it had.
Record ==
  /\ thread = "watchdog" /\ tick.at = "statement" /\ left > 0
  /\ left' = left - 1
  /\ \/ UNCHANGED <<tick, own>>
     \/ /\ Pooled
        /\ tick' = [tick EXCEPT !.on = "none"]
        /\ own' = FALSE
  /\ UNCHANGED <<thread, server, row, safe, due, failed>>

\* The connection is closed, or given back.
EndBatch ==
  /\ thread = "watchdog" /\ tick.at = "statement" /\ left = 0
  /\ tick' = Idle /\ own' = FALSE
  /\ UNCHANGED <<thread, server, row, safe, due, failed, left>>
-----------------------------------------------------------------------------
(* The claims of this worker, and time.                                    *)

Becomes(r, next) ==
  /\ row' = [row EXCEPT ![r] = next]
  /\ UNCHANGED <<thread, server, own, safe, due, tick, failed, left>>

Claim(r) ==
  /\ thread = "renewal" /\ row[r].at = "free"
  /\ \/ Becomes(r, [Free EXCEPT !.at = "claimed", !.lease = lock_timeout])
     \/ Becomes(r, [Free EXCEPT !.at = "inside"])

Execute(r) == row[r].at = "claimed" /\ Becomes(r, [row[r] EXCEPT !.at = "running"])

Finish(r) == row[r].at \in {"running", "inside"} /\ Becomes(r, Free)

\* What is waited for comes by its deadline, and at once where the server has it.
MayWait ==
  \/ tick.at = "idle" /\ thread = "renewal" /\ due > 0
  \/ tick.at = "unneeded" /\ Renewable # {} /\ tick.elapsed < budget
  \/ tick.at = "opening" /\ tick.elapsed < budget /\ server # "slots"
  \/ tick.at = "borrowing" /\ tick.wait > 0 /\ server # "spare"
  \/ tick.at = "statement" /\ thread = "renewal" /\ ~Answered

TimePasses ==
  /\ MayWait
  /\ \A r \in Rows : row[r].at = "claimed" => row[r].gap < LastGap
  /\ row' = [r \in Rows |-> [row[r] EXCEPT !.lease = Down(@),
                                           !.gap = IF row[r].at = "claimed" THEN @ + 1 ELSE @]]
  /\ safe' = Down(safe) /\ due' = Down(due)
  /\ tick' = [tick EXCEPT !.wait = Down(@),
                          !.elapsed = IF tick.at = "idle" THEN 0 ELSE Lower(@ + 1, LastElapsed)]
  /\ UNCHANGED <<thread, server, own, failed, left>>

Next ==
  \/ BeginTick \/ EndUnneeded \/ Renew \/ RenewFails
  \/ Open \/ OpenFails \/ Borrow \/ BorrowFails
  \/ BeginBatch \/ Record \/ EndBatch
  \/ \E r \in Rows : Claim(r) \/ Execute(r) \/ Finish(r)
  \/ TimePasses

Spec == Init /\ [][Next]_vars
-----------------------------------------------------------------------------
\* safe_until is never later than the lease of a row that runs, counted from when
\* its execution joined those in flight: by it a tick decides what to try first.
SafeUntilIsSafe ==
  thread = "renewal" /\ Pooled =>
    \A r \in Rows : row[r].at = "running" => safe <= row[r].lease + row[r].gap

\* Where the pool has a connection to spare, or the server a slot, however long the
\* other way takes to fail, or where there is no pool: no lease of a row that runs
\* lapses before two statements have failed since the last that renewed.
LeasesOutliveAMiss ==
  server # "any" /\ failed < 2 => \A r \in Rows : row[r].at = "running" => row[r].lease > 0

\* A batch's recycles wait for one connection of each kind at most, whatever its size.
RecyclesAreNotHeldBack ==
  thread = "watchdog" => tick.elapsed <= budget + POOL_FALLBACK_WAIT

RenewalKeepsTheLeases == SafeUntilIsSafe /\ LeasesOutliveAMiss /\ RecyclesAreNotHeldBack
=============================================================================
