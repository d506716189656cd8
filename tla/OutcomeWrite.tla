---------------------------- MODULE OutcomeWrite ----------------------------
(***************************************************************************)
(* How an attempt records its outcome when connections fail: a write that  *)
(* is sent once more on another connection, a connect that is refused for  *)
(* a while, and the transaction in which oxpull writes a workflow node's   *)
(* outcome, with its tries of its own.                                     *)
(*                                                                         *)
(* One row and its successive attempts, each with one writer: the thread   *)
(* that ran it, or the watchdog that gives its thread up.  The server may  *)
(* still carry out a write whose client is gone.  Callers' transactions,   *)
(* in which nothing is sent again, are left out.                           *)
(***************************************************************************)
EXTENDS Integers

CONSTANTS
  LastEpoch,         \* bound on the row's lease epochs
  OUTCOME_ATTEMPTS,  \* tries of a node's transaction
  Delays,            \* _outcome_connect_delays: how many
  MaxFaults          \* bound on the statements that fail

VARIABLES
  row,      \* the committed row, and which attempt's outcome it was last given
  writer,   \* per epoch a claim granted, the write of that attempt
  applied,  \* per epoch, how many times its write took effect
  faults

vars == <<row, writer, applied, faults>>
-----------------------------------------------------------------------------
Epochs == 1 .. LastEpoch

Writable == {"RUNNING", "LOST"}    \* WRITABLE_STATUSES

\* status: the outcome's; node: a workflow node's, in a transaction; stuck: the
\* watchdog's.  epoch: the lease epoch of the db_task instance.  late: of its
\* writes, those the server still carries out with no client; unseen: the first
\* one was such when the second try asked.  told: what the caller learns.
Writer ==
  [at : {"none", "first", "waiting", "ask", "second", "told"},
   status : {"SUCCESSFUL", "FAILED", "READY"}, node : BOOLEAN, stuck : BOOLEAN,
   epoch : 0 .. LastEpoch + 1, tries : 0 .. OUTCOME_ATTEMPTS, delays : 0 .. Delays,
   late : 0 .. 2, unseen : BOOLEAN,
   told : {"", "written", "lease lost", "unrecorded", "unchanged", "raised"}]

NoWriter ==
  [at |-> "none", status |-> "READY", node |-> FALSE, stuck |-> FALSE, epoch |-> 0,
   tries |-> 0, delays |-> 0, late |-> 0, unseen |-> FALSE, told |-> ""]

TypeOK ==
  /\ row \in [status : {"READY", "RUNNING", "LOST", "SUCCESSFUL", "FAILED"},
              epoch : 0 .. LastEpoch + 1, outcome : 0 .. LastEpoch]
  /\ writer \in [Epochs -> Writer]
  /\ applied \in [Epochs -> 0 .. 2]
  /\ faults \in 0 .. MaxFaults

Init ==
  /\ row = [status |-> "READY", epoch |-> 0, outcome |-> 0]
  /\ writer = [e \in Epochs |-> NoWriter]
  /\ applied = [e \in Epochs |-> 0]
  /\ faults = 0

Fault == faults < MaxFaults /\ faults' = faults + 1

At(e, step) == writer[e].at = step

Becomes(e, next) == writer' = [writer EXCEPT ![e] = next]

Tell(v, what) == [v EXCEPT !.at = "told", !.told = what]
-----------------------------------------------------------------------------
(* The write itself.                                                       *)

\* The epoch the write leaves on the row: only the watchdog hands it over.
Left(e) == IF writer[e].stuck THEN e + 1 ELSE e

\* The fence, with the epoch of the instance.
Fence(epoch) == row.epoch = epoch /\ row.status \in Writable

TakesEffect(e) ==
  /\ row' = [status |-> writer[e].status, epoch |-> Left(e), outcome |-> e]
  /\ applied' = [applied EXCEPT ![e] = @ + 1]

Untouched == UNCHANGED <<row, applied>>

\* Whether a node's record is written with it: not with a retry.
InTransaction(v) == v.node /\ v.status # "READY"

\* What a try mirrors onto the instance, and _put_back: it is again as before it.
Mirrored(e) == [writer[e] EXCEPT !.epoch = Left(e)]

PutBack(e, v) == [v EXCEPT !.epoch = e]

\* It answers: the row is the attempt's, or another's.
Lands(e) ==
  LET v == writer[e]
  IN  \/ /\ Fence(v.epoch) /\ TakesEffect(e)
         /\ Becomes(e, Tell([v EXCEPT !.epoch = Left(e)], "written"))
      \/ /\ ~Fence(v.epoch) /\ Untouched
         /\ Becomes(e, Tell(v, "lease lost"))

\* The connection goes under it: before it arrived, once it committed, or with the
\* server at it still.
Goes(e, next) ==
  \/ Untouched /\ Becomes(e, next)
  \/ Fence(writer[e].epoch) /\ TakesEffect(e) /\ Becomes(e, next)
  \/ Untouched /\ Becomes(e, [next EXCEPT !.late = @ + 1])
-----------------------------------------------------------------------------
(* The first write.                                                        *)

WriteOutcome(e) ==
  /\ At(e, "first")
  /\ Lands(e)
  /\ UNCHANGED faults

\* A lock conflict in a node's transaction, which rolls back: again, while the tries
\* and the lease allow.
LosesConflict(e) ==
  /\ At(e, "first") /\ InTransaction(writer[e])
  /\ Fault
  /\ LET v == PutBack(e, Mirrored(e))
     IN  \/ v.tries + 1 < OUTCOME_ATTEMPTS /\ Becomes(e, [v EXCEPT !.tries = @ + 1])
         \/ Becomes(e, Tell(v, "unchanged"))
  /\ Untouched

\* Any other error that leaves a connection that answers.
Refuses(e) ==
  /\ At(e, "first")
  /\ Fault
  /\ LET v == writer[e]
     IN  Becomes(e, Tell(v, IF InTransaction(v) THEN "unchanged" ELSE "raised"))
  /\ Untouched

\* The watchdog's record is not sent again.  Of a node's transaction the connection
\* that Django opened in place of the lost one is closed, so the loss is seen.
AfterTheFirst(e) ==
  LET v == PutBack(e, Mirrored(e))
  IN  IF v.stuck THEN Tell(v, "raised") ELSE [v EXCEPT !.at = "ask"]

LosesConnection(e) ==
  /\ At(e, "first")
  /\ Fault
  /\ Goes(e, AfterTheFirst(e))

\* No connection could be opened: that alone is worth a wait.
ConnectRefused(e) ==
  /\ At(e, "first")
  /\ Fault
  /\ LET v == writer[e]
     IN  Becomes(e, IF v.stuck THEN Tell(v, "raised") ELSE [v EXCEPT !.at = "waiting"])
  /\ Untouched

\* One of the delays, if the lease allows any.
Pause(e) ==
  /\ At(e, "waiting")
  /\ Becomes(e, [writer[e] EXCEPT !.at = "ask",
                                  !.delays = IF @ < Delays THEN @ + 1 ELSE @])
  /\ UNCHANGED <<row, applied, faults>>
-----------------------------------------------------------------------------
(* The second, and those after a connect that was refused.                 *)

\* Fault: the write is sent again in any case.
AlreadyWritten_NotAsked(e) == FALSE

\* _outcome_already_written: the status, the epoch it leaves, and a time of its own.
AlreadyWritten(e) ==
  row.status = writer[e].status /\ row.epoch = Left(e) /\ row.outcome = e

Ask(e) ==
  /\ At(e, "ask")
  /\ LET v == [writer[e] EXCEPT !.unseen = writer[e].late > 0]
     IN  Becomes(e, IF AlreadyWritten(e) THEN Tell(v, "written") ELSE [v EXCEPT !.at = "second"])
  /\ UNCHANGED <<row, applied, faults>>

\* No connection for the question: another delay, if the first try found none either.
AskFails(e) ==
  /\ At(e, "ask")
  /\ Fault
  /\ LET v == writer[e]
     IN  \/ 0 < v.delays /\ v.delays < Delays /\ Becomes(e, [v EXCEPT !.at = "waiting"])
         \/ Becomes(e, Tell(v, "unrecorded"))
  /\ Untouched

WriteAgain(e) ==
  /\ At(e, "second")
  /\ Lands(e)
  /\ UNCHANGED faults

\* There is no third.  A node's tries that end with a connection that answers fail closed.
WriteAgainFails(e) ==
  /\ At(e, "second")
  /\ Fault
  /\ \/ Goes(e, Tell(writer[e], "unrecorded"))
     \/ InTransaction(writer[e]) /\ Untouched /\ Becomes(e, Tell(writer[e], "unchanged"))
-----------------------------------------------------------------------------
(* What else comes to the row.                                             *)

\* A claim and the attempt, however it ends and whoever records that.
Claim ==
  /\ row.status = "READY" /\ row.epoch < LastEpoch
  /\ row' = [row EXCEPT !.status = "RUNNING", !.epoch = @ + 1]
  /\ \E status \in {"SUCCESSFUL", "FAILED", "READY"}, node, stuck \in BOOLEAN :
       /\ stuck => status # "SUCCESSFUL"
       /\ writer' = [writer EXCEPT ![row.epoch + 1] =
            [NoWriter EXCEPT !.at = "first", !.status = status, !.node = node,
                             !.stuck = stuck, !.epoch = row.epoch + 1]]
  /\ UNCHANGED <<applied, faults>>

ServerCarriesOut(e) ==
  /\ writer[e].late > 0
  /\ Becomes(e, [writer[e] EXCEPT !.late = @ - 1])
  /\ \/ Fence(e) /\ TakesEffect(e)
     \/ ~Fence(e) /\ Untouched
  /\ UNCHANGED faults

\* The reaper, once the lease ran out.
Reap ==
  /\ row.status = "RUNNING"
  /\ row' \in {[row EXCEPT !.status = "READY", !.epoch = @ + 1], [row EXCEPT !.status = "LOST"]}
  /\ UNCHANGED <<writer, applied, faults>>

\* An operator.
Retry ==
  /\ row.status \in {"FAILED", "LOST"} /\ row.epoch <= LastEpoch
  /\ row' = [row EXCEPT !.status = "READY", !.epoch = @ + 1]
  /\ UNCHANGED <<writer, applied, faults>>

Next ==
  \/ Claim \/ Reap \/ Retry
  \/ \E e \in Epochs :
       \/ WriteOutcome(e) \/ LosesConflict(e) \/ Refuses(e) \/ LosesConnection(e)
       \/ ConnectRefused(e) \/ Pause(e) \/ Ask(e) \/ AskFails(e)
       \/ WriteAgain(e) \/ WriteAgainFails(e) \/ ServerCarriesOut(e)

Spec == Init /\ [][Next]_vars
-----------------------------------------------------------------------------
\* The row still holds the outcome, as its write left it.
Stands(e) == row.status = writer[e].status /\ row.epoch = Left(e) /\ row.outcome = e

\* However often it is sent, a write takes effect once at most, and what the caller
\* is told is so.  That the lease was lost is told of a row that another has.  That,
\* and that the row is unchanged, is told of a row with this very outcome only if the
\* server was still at the first write when the second try asked, the case that
\* _write_outcome_reconnecting documents, or if the row has moved on from it since.
OutcomesAreToldTruly ==
  \A e \in Epochs :
    LET told == writer[e].told
    IN  /\ applied[e] <= 1
        /\ told = "written" => applied[e] = 1
        /\ told = "lease lost" => ~(row.epoch = e /\ row.status \in Writable)
        /\ told \in {"lease lost", "unchanged"} /\ Stands(e) => writer[e].unseen
=============================================================================
