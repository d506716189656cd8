--------------------------- MODULE TaskLeaseProofs ---------------------------
(***************************************************************************)
(* The lease protocol of TaskLease, proved for any tasks, workers, callers *)
(* and bounds.  Everything a process holds about a row (a candidate, an    *)
(* exhausted row, an execution, a watchdog's copy) is a copy the row has   *)
(* since moved on from, and the epoch says whether it has: a copy at the   *)
(* row's epoch still has the row's attempts and history.                   *)
(***************************************************************************)
EXTENDS TaskLease, TLAPS

\* q is a later state of the row r was read from.
Follows(r, q) ==
  /\ r.lease_epoch <= q.lease_epoch
  /\ r.lease_epoch = q.lease_epoch =>
       r.attempts = q.attempts /\ r.worker_ids = q.worker_ids

\* What is true of every row whatever the processes are doing.
RowOK(q) ==
  /\ q \in Row
  /\ Len(q.worker_ids) = q.attempts
  /\ q.locked_by = IF q.status = "RUNNING" THEN q.worker_ids[q.attempts] ELSE NoWorker
  /\ q.lease = "none" <=> q.status # "RUNNING"
  /\ q.return_value = IF q.status = "SUCCESSFUL"
                      THEN <<q.worker_ids[q.attempts], q.attempts>> ELSE <<>>

SameHistory(r, q) == q.attempts = r.attempts /\ q.worker_ids = r.worker_ids

\* The moves of a row, by what they do to its status and its history.
Lives(r, q) ==
  \/ /\ r.status = "READY" /\ q.status = "RUNNING"
     /\ q.worker_ids[q.attempts] \in Workers
  \/ /\ r.status \in {"RUNNING", "LOST"} /\ q.status \in {"SUCCESSFUL", "FAILED", "READY"}
     /\ SameHistory(r, q)
  \/ r.status \in {"RUNNING", "FAILED", "LOST", "WAITING"} /\ q.status = "READY"
  \/ r.status \in {"READY", "WAITING", "FAILED", "LOST"} /\ q.status = "DISCARDED"
  \/ /\ r.status = "DISCARDED" /\ q.status = "WAITING"
     /\ r.lease_epoch < q.lease_epoch
  \/ r.status = "RUNNING" /\ q.status = "LOST" /\ SameHistory(r, q)
  \/ /\ q.status = r.status /\ q.return_value = r.return_value /\ q.errors = r.errors
     /\ SameHistory(r, q)

\* One statement moved the row from r to q.
Move(r, q) == RowOK(q) /\ Follows(r, q) /\ Lives(r, q)

\* w was granted the row c was read from.
GrantedTo(c, w) ==
  /\ c \in Row
  /\ w \in Workers
  /\ c.attempts # 0
  /\ c.worker_ids[c.attempts] = w

Granted(x) == GrantedTo(x.row, x.worker) /\ Follows(x.row, row[x.task])

ReloadOK(w) ==
  main[w].at = "reloading" =>
    LET t == main[w].granted[1]
        epoch == main[w].granted[2]
    IN  /\ main[w].granted \in Tasks \X Nat
        /\ epoch <= row[t].lease_epoch
        /\ epoch = row[t].lease_epoch => GrantedTo(row[t], w)

RowsOK == \A t \in Tasks : RowOK(row[t])
SeenFollowed == \A w \in Workers : \A c \in main[w].seen : Follows(c.row, row[c.task])

IInv ==
  /\ TypeOK
  /\ RowsOK
  /\ \A x \in execs : Granted(x)
  /\ \A x \in releases : Granted(x)
  /\ SeenFollowed
  /\ \A w \in Workers : ReloadOK(w)
  /\ EpochsIdentifyExecutions
-----------------------------------------------------------------------------
(* Copies and SET clauses.                                                 *)

\* A copy of an earlier state is a copy of every state after it.
LEMMA FollowsTransitive ==
  ASSUME NEW r \in Row, NEW q \in Row, NEW p \in Row,
         Follows(r, q), Follows(q, p)
  PROVE  Follows(r, p)
<1>1. r.lease_epoch \in Nat /\ q.lease_epoch \in Nat /\ p.lease_epoch \in Nat
  BY DEF Row
<1> QED
  BY <1>1 DEF Follows

\* The types of a row's columns.
LEMMA RowTypes ==
  ASSUME NEW q \in Row
  PROVE  /\ q.status \in Statuses /\ q.due \in BOOLEAN
         /\ q.attempts \in Nat /\ q.max_attempts \in Nat /\ q.lease_epoch \in Nat
         /\ q.attempts + 1 \in Nat /\ q.lease_epoch + 1 \in Nat
         /\ q.worker_ids \in Seq(Workers) /\ q.errors \in Seq(Error)
         /\ q.return_value \in {<<>>} \cup (Workers \X Nat)
BY DEF Row

\* A row no statement touched.
LEMMA SameRow ==
  ASSUME NEW q, RowOK(q)
  PROVE  Move(q, q)
BY RowTypes DEF Move, RowOK, Follows, Lives, SameHistory

\* A statement that only moves the deadlines of a row.
LEMMA TimedRow ==
  ASSUME NEW q, RowOK(q)
  PROVE  /\ Move(q, [q EXCEPT !.due = TRUE])
         /\ q.status = "RUNNING" =>
              /\ Move(q, [q EXCEPT !.lease = "held"])
              /\ Move(q, [q EXCEPT !.lease = "expired"])
<1>1. ASSUME NEW d \in BOOLEAN, NEW l \in {"none", "held", "expired"}
      PROVE  [q EXCEPT !.due = d] \in Row /\ [q EXCEPT !.lease = l] \in Row
  BY DEF RowOK, Row
<1>2. Move(q, [q EXCEPT !.due = TRUE])
  <2> DEFINE p == [q EXCEPT !.due = TRUE]
  <2>1. p \in Row
    BY <1>1
  <2>2. /\ p.status = q.status /\ p.attempts = q.attempts /\ p.worker_ids = q.worker_ids
        /\ p.locked_by = q.locked_by /\ p.lease = q.lease
        /\ p.lease_epoch = q.lease_epoch /\ p.return_value = q.return_value
        /\ p.errors = q.errors
    BY DEF RowOK, Row
  <2> HIDE DEF p
  <2>3. Move(q, p)
    BY <2>1, <2>2, RowTypes DEF Move, RowOK, Follows, Lives, SameHistory
  <2> QED
    BY <2>3 DEF p
<1>3. ASSUME q.status = "RUNNING", NEW l \in {"held", "expired"}
      PROVE  Move(q, [q EXCEPT !.lease = l])
  <2> DEFINE p == [q EXCEPT !.lease = l]
  <2>1. p \in Row
    BY <1>1
  <2>2. /\ p.status = q.status /\ p.attempts = q.attempts /\ p.worker_ids = q.worker_ids
        /\ p.locked_by = q.locked_by /\ p.lease = l
        /\ p.lease_epoch = q.lease_epoch /\ p.return_value = q.return_value
        /\ p.errors = q.errors
    BY DEF RowOK, Row
  <2> HIDE DEF p
  <2>3. Move(q, p)
    BY <1>3, <2>1, <2>2, RowTypes DEF Move, RowOK, Follows, Lives, SameHistory
  <2> QED
    BY <2>3 DEF p
<1> QED
  BY <1>2, <1>3

\* The claim's UPDATE, whatever candidate it was computed from, moves the
\* epoch past every copy and makes the claimer the last name in the history.
LEMMA ClaimedRow ==
  ASSUME NEW q, RowOK(q), q.status = "READY",
         NEW c \in Row, Follows(c, q), c.lease_epoch = q.lease_epoch,
         NEW w \in Workers
  PROVE  /\ Move(q, Claimed(q, c, w))
         /\ Claimed(q, c, w).lease_epoch = q.lease_epoch + 1
         /\ GrantedTo(Claimed(q, c, w), w)
<1> DEFINE p == Claimed(q, c, w)
           h == Append(q.worker_ids, w)
<1>1. /\ c.attempts = q.attempts
      /\ c.worker_ids = q.worker_ids
      /\ q \in Row
      /\ Len(q.worker_ids) = q.attempts
      /\ q.return_value = <<>>
  BY DEF Follows, RowOK
<1>2. /\ h \in Seq(Workers)
      /\ Len(h) = q.attempts + 1
      /\ h[q.attempts + 1] = w
  BY <1>1, RowTypes
<1>3. PICK n \in Nat : n = q.attempts + 1
  BY <1>1, RowTypes
<1>4. PICK e \in Nat : e = q.lease_epoch + 1
  BY <1>1, RowTypes
<1>5. p = [q EXCEPT !.status = "RUNNING", !.locked_by = w, !.lease = "held",
                    !.lease_epoch = e, !.attempts = n, !.worker_ids = h]
  BY <1>1, <1>3, <1>4 DEF Claimed
<1> HIDE DEF p, h
<1>6. /\ p \in Row
      /\ p.status = "RUNNING" /\ p.locked_by = w /\ p.lease = "held"
      /\ p.lease_epoch = e /\ p.attempts = n
      /\ p.worker_ids = h /\ p.return_value = <<>>
  BY <1>1, <1>2, <1>5 DEF Row, Statuses
<1>7. Move(q, p) /\ p.lease_epoch = q.lease_epoch + 1 /\ GrantedTo(p, w)
  BY <1>1, <1>2, <1>3, <1>4, <1>6, RowTypes DEF Move, RowOK, Follows, Lives, GrantedTo
<1> QED
  BY <1>7 DEF p

\* The fence of an outcome write: the row is still the one x was granted.
LEMMA FencedRow ==
  ASSUME NEW q, RowOK(q), q.status \in WRITABLE_STATUSES,
         NEW x, GrantedTo(x.row, x.worker), Follows(x.row, q),
         x.row.lease_epoch = q.lease_epoch
  PROVE  /\ q \in Row /\ x.row \in Row /\ x.worker \in Workers
         /\ q.attempts = x.row.attempts /\ q.attempts # 0
         /\ q.worker_ids = x.row.worker_ids
         /\ q.worker_ids[q.attempts] = x.worker
         /\ q.status \in {"RUNNING", "LOST"}
         /\ q.return_value = <<>>
BY DEF RowOK, GrantedTo, Follows, WRITABLE_STATUSES

\* Success stores what x computed under the name of the holder.
LEMMA SucceededRow ==
  ASSUME NEW q, RowOK(q), q.status \in WRITABLE_STATUSES,
         NEW x, GrantedTo(x.row, x.worker), Follows(x.row, q),
         x.row.lease_epoch = q.lease_epoch
  PROVE  Move(q, Succeeded(q, x))
<1> DEFINE p == Succeeded(q, x)
<1>1. /\ q \in Row /\ x.row \in Row /\ x.worker \in Workers
      /\ q.attempts = x.row.attempts /\ q.attempts # 0
      /\ q.worker_ids[q.attempts] = x.worker
      /\ q.status \in {"RUNNING", "LOST"}
  BY FencedRow
<1>2. PICK v \in Workers \X Nat : v = <<x.worker, x.row.attempts>>
  BY <1>1, RowTypes
<1>3. x.row.errors \in Seq(Error)
  BY <1>1, RowTypes
<1>4. p = [q EXCEPT !.locked_by = NoWorker, !.lease = "none", !.status = "SUCCESSFUL",
                    !.return_value = v, !.errors = x.row.errors]
  BY <1>2 DEF Succeeded, Unlocked
<1> HIDE DEF p
<1>5. /\ p \in Row
      /\ p.status = "SUCCESSFUL" /\ p.locked_by = NoWorker /\ p.lease = "none"
      /\ p.lease_epoch = q.lease_epoch /\ p.attempts = q.attempts
      /\ p.worker_ids = q.worker_ids /\ p.return_value = v
  BY <1>1, <1>3, <1>4 DEF Row, Statuses
<1>6. Move(q, p)
  BY <1>1, <1>2, <1>5, RowTypes DEF Move, RowOK, Follows, Lives, SameHistory
<1> QED
  BY <1>6 DEF p

\* A failure leaves a queued or a final row, with or without the watchdog's
\* move of the epoch.
LEMMA FailedRow ==
  ASSUME NEW q, RowOK(q), q.status \in WRITABLE_STATUSES,
         NEW x, GrantedTo(x.row, x.worker), Follows(x.row, q),
         x.row.lease_epoch = q.lease_epoch,
         NEW kind \in {"raised", "stuck"},
         NEW p \in FailureRows(q, x, kind)
  PROVE  /\ Move(q, p)
         /\ Move(q, [p EXCEPT !.lease_epoch = x.row.lease_epoch + 1])
<1> DEFINE es == Append(x.row.errors, [kind |-> kind, attempt |-> x.row.attempts])
<1>1. /\ q \in Row /\ x.row \in Row
      /\ q.attempts = x.row.attempts
      /\ q.status \in {"RUNNING", "LOST"}
      /\ q.return_value = <<>>
  BY FencedRow
<1>2. es \in Seq(Error)
  <2>1. [kind |-> kind, attempt |-> x.row.attempts] \in Error
    BY <1>1, RowTypes DEF Error
  <2> QED
    BY <2>1, <1>1, RowTypes
<1>3. \/ p = [q EXCEPT !.locked_by = NoWorker, !.lease = "none", !.errors = es,
                       !.status = "READY", !.due = FALSE]
      \/ p = [q EXCEPT !.locked_by = NoWorker, !.lease = "none", !.errors = es,
                       !.status = "FAILED"]
  BY DEF FailureRows, WithError, Unlocked
<1> HIDE DEF es
<1>4. /\ p \in Row
      /\ p.status \in {"READY", "FAILED"} /\ p.locked_by = NoWorker /\ p.lease = "none"
      /\ p.lease_epoch = q.lease_epoch /\ p.attempts = q.attempts
      /\ p.worker_ids = q.worker_ids /\ p.return_value = <<>>
  <2>1. CASE p = [q EXCEPT !.locked_by = NoWorker, !.lease = "none", !.errors = es,
                           !.status = "READY", !.due = FALSE]
    BY <1>1, <1>2, <2>1 DEF Row, Statuses
  <2>2. CASE p = [q EXCEPT !.locked_by = NoWorker, !.lease = "none", !.errors = es,
                           !.status = "FAILED"]
    BY <1>1, <1>2, <2>2 DEF Row, Statuses
  <2> QED
    BY <1>3, <2>1, <2>2
<1>5. PICK e \in Nat : e = x.row.lease_epoch + 1
  BY <1>1, RowTypes
<1> DEFINE o == [p EXCEPT !.lease_epoch = e]
<1>6. /\ o \in Row
      /\ o.status = p.status /\ o.locked_by = NoWorker /\ o.lease = "none"
      /\ o.lease_epoch = e /\ o.attempts = q.attempts
      /\ o.worker_ids = q.worker_ids /\ o.return_value = <<>>
  BY <1>4 DEF Row
<1> HIDE DEF o
<1>7. Move(q, p)
  BY <1>1, <1>4, RowTypes DEF Move, RowOK, Follows, Lives, SameHistory
<1>8. Move(q, o)
  BY <1>1, <1>4, <1>5, <1>6, RowTypes DEF Move, RowOK, Follows, Lives, SameHistory
<1> QED
  BY <1>5, <1>7, <1>8 DEF o

\* The reaper's two writes: back in the queue under the next epoch, or given
\* up at the same one, with a note computed from the copy c.
LEMMA ReapedRow ==
  ASSUME NEW q, RowOK(q), q.status = "RUNNING"
  PROVE  /\ Move(q, Requeued(q))
         /\ \A c \in Row : Move(q, Abandoned(q, c))
<1>1. /\ q \in Row /\ q.return_value = <<>>
      /\ q.lease_epoch \in Nat
  BY RowTypes DEF RowOK
<1>2. Move(q, Requeued(q))
  <2> DEFINE p == Requeued(q)
  <2>1. PICK e \in Nat : e = q.lease_epoch + 1
    BY <1>1, RowTypes
  <2>2. p = [q EXCEPT !.locked_by = NoWorker, !.lease = "none", !.status = "READY",
                      !.lease_epoch = e]
    BY <1>1, <2>1 DEF Requeued, Unlocked, Row
  <2> HIDE DEF p
  <2>3. /\ p \in Row
        /\ p.status = "READY" /\ p.locked_by = NoWorker /\ p.lease = "none"
        /\ p.lease_epoch = e /\ p.attempts = q.attempts
        /\ p.worker_ids = q.worker_ids /\ p.return_value = <<>>
    BY <1>1, <2>2 DEF Row, Statuses
  <2>4. Move(q, p)
    BY <1>1, <2>1, <2>3, RowTypes DEF Move, RowOK, Follows, Lives, SameHistory
  <2> QED
    BY <2>4 DEF p
<1>3. ASSUME NEW c \in Row
      PROVE  Move(q, Abandoned(q, c))
  <2> DEFINE p == Abandoned(q, c)
             es == Append(c.errors, [kind |-> "abandoned", attempt |-> c.attempts])
  <2>1. es \in Seq(Error)
    <3>1. [kind |-> "abandoned", attempt |-> c.attempts] \in Error
      BY RowTypes DEF Error
    <3> QED
      BY <3>1, RowTypes
  <2>2. p = [q EXCEPT !.locked_by = NoWorker, !.lease = "none", !.status = "LOST",
                      !.errors = es]
    BY DEF Abandoned, Unlocked
  <2> HIDE DEF p, es
  <2>3. /\ p \in Row
        /\ p.status = "LOST" /\ p.locked_by = NoWorker /\ p.lease = "none"
        /\ p.lease_epoch = q.lease_epoch /\ p.attempts = q.attempts
        /\ p.worker_ids = q.worker_ids /\ p.return_value = <<>>
    BY <1>1, <2>1, <2>2 DEF Row, Statuses
  <2>4. Move(q, p)
    BY <1>1, <2>3, RowTypes DEF Move, RowOK, Follows, Lives, SameHistory
  <2> QED
    BY <2>4 DEF p
<1> QED
  BY <1>2, <1>3

\* Every operation of a caller that applies to the row, computed from an
\* epoch that is still the row's.
LEMMA MovedRow ==
  ASSUME NEW q, RowOK(q), NEW op \in Ops, Applies(op, q),
         NEW attempts \in Nat
  PROVE  Move(q, Moved(op, q, q.lease_epoch, attempts))
<1>1. /\ q \in Row /\ q.lease_epoch \in Nat /\ q.status # "SUCCESSFUL"
      /\ q.return_value = <<>>
  BY RowTypes DEF RowOK, Applies, Accepts, RETRYABLE_STATUSES, DISCARDABLE_STATUSES, Ops
<1>2. PICK e \in Nat : e = q.lease_epoch + 1
  BY <1>1
<1>3. PICK b \in Nat : b = attempts + 1
  OBVIOUS
<1>4. CASE op = "retry"
  <2> DEFINE p == [q EXCEPT !.locked_by = NoWorker, !.lease = "none", !.status = "READY",
                            !.due = TRUE, !.lease_epoch = e, !.max_attempts = b]
  <2>1. p = Moved(op, q, q.lease_epoch, attempts)
    BY <1>2, <1>3, <1>4 DEF Moved, Retried, Unlocked
  <2>2. q.status \in {"FAILED", "LOST"}
    BY <1>4 DEF Applies, Accepts, RETRYABLE_STATUSES
  <2>3. /\ p \in Row
        /\ p.status = "READY" /\ p.locked_by = NoWorker /\ p.lease = "none"
        /\ p.lease_epoch = e /\ p.return_value = <<>>
        /\ p.attempts = q.attempts /\ p.worker_ids = q.worker_ids
    BY <1>1 DEF Row, Statuses
  <2> HIDE DEF p
  <2>4. Move(q, p)
    BY <1>1, <1>2, <2>2, <2>3, RowTypes DEF Move, RowOK, Follows, Lives, SameHistory
  <2> QED
    BY <2>1, <2>4
<1>5. CASE op \in {"discard", "cancel"}
  <2> DEFINE p == [q EXCEPT !.locked_by = NoWorker, !.lease = "none",
                            !.status = "DISCARDED"]
  <2>1. p = Moved(op, q, q.lease_epoch, attempts)
    BY <1>5 DEF Moved, Discarded, Unlocked
  <2>2. q.status \in {"READY", "FAILED", "LOST", "WAITING"}
    BY <1>5 DEF Applies, Accepts, DISCARDABLE_STATUSES
  <2>3. /\ p \in Row
        /\ p.status = "DISCARDED" /\ p.locked_by = NoWorker /\ p.lease = "none"
        /\ p.lease_epoch = q.lease_epoch /\ p.return_value = <<>>
        /\ p.attempts = q.attempts /\ p.worker_ids = q.worker_ids
    BY <1>1 DEF Row, Statuses
  <2> HIDE DEF p
  <2>4. Move(q, p)
    BY <1>1, <2>2, <2>3, RowTypes DEF Move, RowOK, Follows, Lives, SameHistory
  <2> QED
    BY <2>1, <2>4
<1>6. CASE op = "release"
  <2> DEFINE p == [q EXCEPT !.status = "READY"]
  <2>1. p = Moved(op, q, q.lease_epoch, attempts)
    BY <1>6 DEF Moved, Released
  <2>2. q.status = "WAITING"
    BY <1>6 DEF Applies, Accepts
  <2>3. /\ p \in Row
        /\ p.status = "READY" /\ p.locked_by = q.locked_by /\ p.lease = q.lease
        /\ p.lease_epoch = q.lease_epoch /\ p.return_value = <<>>
        /\ p.attempts = q.attempts /\ p.worker_ids = q.worker_ids
    BY <1>1 DEF Row, Statuses
  <2> HIDE DEF p
  <2>4. Move(q, p)
    BY <1>1, <2>2, <2>3, RowTypes DEF Move, RowOK, Follows, Lives, SameHistory
  <2> QED
    BY <2>1, <2>4
<1>7. CASE op = "revive"
  <2> DEFINE p == [q EXCEPT !.status = "WAITING", !.lease_epoch = e]
  <2>1. p = Moved(op, q, q.lease_epoch, attempts)
    BY <1>1, <1>2, <1>7 DEF Moved, Revived, Row
  <2>2. q.status = "DISCARDED"
    BY <1>7 DEF Applies, Accepts
  <2>3. /\ p \in Row
        /\ p.status = "WAITING" /\ p.locked_by = q.locked_by /\ p.lease = q.lease
        /\ p.lease_epoch = e /\ p.return_value = <<>>
        /\ p.attempts = q.attempts /\ p.worker_ids = q.worker_ids
    BY <1>1 DEF Row, Statuses
  <2> HIDE DEF p
  <2>4. Move(q, p)
    BY <1>1, <1>2, <2>2, <2>3, RowTypes DEF Move, RowOK, Follows, Lives, SameHistory
  <2> QED
    BY <2>1, <2>4
<1> QED
  BY <1>4, <1>5, <1>6, <1>7 DEF Ops
-----------------------------------------------------------------------------
(* What one step does to the table.                                        *)

RowsMove ==
  /\ row' \in [Tasks -> Row]
  /\ \A t \in Tasks : Move(row[t], row'[t])

\* A step that writes one row.
LEMMA OneRowMoves ==
  ASSUME TypeOK, RowsOK, NEW t \in Tasks, NEW q,
         row' = [row EXCEPT ![t] = q], Move(row[t], q)
  PROVE  RowsMove
<1>1. row \in [Tasks -> Row] /\ q \in Row
  BY DEF TypeOK, Move, RowOK
<1>2. ASSUME NEW u \in Tasks
      PROVE  Move(row[u], row'[u])
  <2>1. Move(row[u], row[u])
    BY SameRow DEF RowsOK
  <2> QED
    BY <1>1, <2>1
<1> QED
  BY <1>1, <1>2 DEF RowsMove

\* A step that leaves the table alone.
LEMMA NoRowMoves ==
  ASSUME TypeOK, RowsOK, row' = row
  PROVE  RowsMove
BY SameRow DEF TypeOK, RowsOK, RowsMove

\* The outcome of an execution, or of the watchdog's copy of one.
LEMMA OutcomeMoves ==
  ASSUME TypeOK, RowsOK, NEW x, x.task \in Tasks, Granted(x), NEW q,
         HoldsTheLease(x) => Move(row[x.task], q),
         WriteOutcome(x, q)
  PROVE  RowsMove
<1>1. CASE HoldsTheLease(x)
  BY <1>1, OneRowMoves DEF WriteOutcome
<1>2. CASE ~HoldsTheLease(x)
  BY <1>2, NoRowMoves DEF WriteOutcome
<1> QED
  BY <1>1, <1>2

\* Every step of the protocol moves every row as one of the clauses does.
LEMMA TableStep ==
  ASSUME IInv, [Next]_vars
  PROVE  RowsMove
<1> USE DEF RowsOK
<1>0. /\ TypeOK /\ RowsOK
      /\ \A x \in execs : Granted(x) /\ x.task \in Tasks
      /\ \A x \in releases : Granted(x) /\ x.task \in Tasks
      /\ \A w \in Workers : \A c \in main[w].seen :
           c.task \in Tasks /\ c.row \in Row /\ Follows(c.row, row[c.task])
  BY DEF IInv, TypeOK, Execution, Release, Loop, Snapshot, SeenFollowed
<1>1. ASSUME NEW w \in Workers, NEW t \in Tasks, ClaimLocked(w, t)
      PROVE  RowsMove
  <2>1. Follows(row[t], row[t]) /\ row[t] \in Row
    BY <1>0, SameRow DEF Move, RowOK
  <2>2. Move(row[t], Claimed(row[t], row[t], w))
    BY <1>0, <1>1, <2>1, ClaimedRow DEF ClaimLocked, Claimable
  <2> QED
    BY <1>0, <1>1, <2>2, OneRowMoves DEF ClaimLocked
<1>2. ASSUME NEW w \in Workers, NEW c \in main[w].seen, TryCandidate(w, c)
      PROVE  RowsMove
  <2>1. CASE StillAsRead(c)
    <3>1. Move(row[c.task], Claimed(row[c.task], c.row, w))
      BY <1>0, <2>1, ClaimedRow DEF StillAsRead
    <3>2. row' = [row EXCEPT ![c.task] = Claimed(row[c.task], c.row, w)]
      BY <1>2, <2>1 DEF TryCandidate
    <3> QED
      BY <1>0, <3>1, <3>2, OneRowMoves
  <2>2. CASE ~StillAsRead(c)
    BY <1>0, <1>2, <2>2, NoRowMoves DEF TryCandidate
  <2> QED
    BY <2>1, <2>2
<1>3. ASSUME NEW x \in execs, Succeed(x)
      PROVE  RowsMove
  <2>1. HoldsTheLease(x) => Move(row[x.task], Succeeded(row[x.task], x))
    BY <1>0, SucceededRow DEF HoldsTheLease, Granted
  <2> QED
    BY <1>0, <1>3, <2>1, OutcomeMoves DEF Succeed
<1>4. ASSUME NEW x \in execs, Fail(x)
      PROVE  RowsMove
  <2>1. PICK q \in FailureRows(row[x.task], x, "raised") : WriteOutcome(x, q)
    BY <1>4 DEF Fail
  <2>2. HoldsTheLease(x) => Move(row[x.task], q)
    BY <1>0, FailedRow DEF HoldsTheLease, Granted
  <2> QED
    BY <1>0, <2>1, <2>2, OutcomeMoves
<1>5. ASSUME NEW x \in releases, RecordStuck(x)
      PROVE  RowsMove
  <2>1. CASE UNCHANGED row
    BY <1>0, <2>1, NoRowMoves
  <2>2. CASE \E q \in FailureRows(row[x.task], x, "stuck") :
               WriteOutcome(x, [q EXCEPT !.lease_epoch = x.row.lease_epoch + 1])
    <3>1. PICK q \in FailureRows(row[x.task], x, "stuck") :
                 WriteOutcome(x, [q EXCEPT !.lease_epoch = x.row.lease_epoch + 1])
      BY <2>2
    <3>2. HoldsTheLease(x) =>
            Move(row[x.task], [q EXCEPT !.lease_epoch = x.row.lease_epoch + 1])
      BY <1>0, FailedRow DEF HoldsTheLease, Granted
    <3> QED
      BY <1>0, <3>1, <3>2, OutcomeMoves
  <2> QED
    BY <1>5, <2>1, <2>2 DEF RecordStuck
<1>6. ASSUME NEW t \in Tasks, LeaseExpires(t) \/ BecomesDue(t) \/ ExpireLease(t)
      PROVE  RowsMove
  <2>1. row[t].lease = "held" => row[t].status = "RUNNING"
    BY <1>0 DEF RowOK
  <2>2. /\ Move(row[t], [row[t] EXCEPT !.due = TRUE])
        /\ row[t].status = "RUNNING" => Move(row[t], [row[t] EXCEPT !.lease = "expired"])
    BY <1>0, TimedRow
  <2>3. CASE LeaseExpires(t) \/ ExpireLease(t)
    <3>1. row' = [row EXCEPT ![t] = [row[t] EXCEPT !.lease = "expired"]]
      BY <1>0, <2>3 DEF LeaseExpires, ExpireLease, TypeOK, Row
    <3> QED
      BY <1>0, <2>1, <2>2, <2>3, <3>1, OneRowMoves DEF LeaseExpires, ExpireLease
  <2>4. CASE BecomesDue(t)
    <3>1. row' = [row EXCEPT ![t] = [row[t] EXCEPT !.due = TRUE]]
      BY <1>0, <2>4 DEF BecomesDue, TypeOK, Row
    <3> QED
      BY <1>0, <2>2, <3>1, OneRowMoves
  <2> QED
    BY <1>6, <2>3, <2>4
<1>7. ASSUME NEW w \in Workers, Renew(w)
      PROVE  RowsMove
  <2> DEFINE Renewed(t) == IF /\ t \in Renewable(w) /\ row[t].status = "RUNNING"
                              /\ row[t].locked_by = w
                           THEN [row[t] EXCEPT !.lease = "held"] ELSE row[t]
  <2>1. row' = [t \in Tasks |-> Renewed(t)]
    BY <1>7 DEF Renew
  <2>2. \A t \in Tasks : Move(row[t], Renewed(t))
    BY <1>0, TimedRow, SameRow
  <2> HIDE DEF Renewed
  <2> QED
    BY <2>1, <2>2 DEF RowsMove, Move, RowOK
<1>8. ASSUME NEW w \in Workers, RequeueAbandoned(w)
      PROVE  RowsMove
  <2>1. PICK S \in SUBSET {t \in Tasks : LeaseAbandoned(t)} :
          row' = [t \in Tasks |-> IF t \in S THEN Requeued(row[t]) ELSE row[t]]
    BY <1>8 DEF RequeueAbandoned
  <2> DEFINE Reaped(t) == IF t \in S THEN Requeued(row[t]) ELSE row[t]
  <2>2. \A t \in Tasks : Move(row[t], Reaped(t))
    BY <1>0, ReapedRow, SameRow DEF LeaseAbandoned
  <2>3. row' = [t \in Tasks |-> Reaped(t)]
    BY <2>1
  <2> HIDE DEF Reaped
  <2> QED
    BY <2>2, <2>3 DEF RowsMove, Move, RowOK
<1>9. ASSUME NEW w \in Workers, NEW c \in main[w].seen, AbandonExhausted(w, c)
      PROVE  RowsMove
  <2>1. CASE row' = row
    BY <1>0, <2>1, NoRowMoves
  <2>2. CASE /\ LeaseAbandoned(c.task)
             /\ row' = [row EXCEPT ![c.task] = Abandoned(row[c.task], c.row)]
    <3>1. Move(row[c.task], Abandoned(row[c.task], c.row))
      BY <1>0, <2>2, ReapedRow DEF LeaseAbandoned
    <3> QED
      BY <1>0, <2>2, <3>1, OneRowMoves
  <2> QED
    BY <1>9, <2>1, <2>2 DEF AbandonExhausted
<1>10. ASSUME NEW c \in Callers, Apply(c)
       PROVE  RowsMove
  <2> DEFINE d == calls[c]
  <2>1. CASE row' = row
    BY <1>0, <2>1, NoRowMoves
  <2>2. CASE /\ Matches(d)
             /\ row' = [row EXCEPT ![d.task] = Moved(d.op, row[d.task], d.epoch, d.attempts)]
    <3>1. d.op \in Ops /\ d.task \in Tasks /\ d.attempts \in Nat
      BY <1>0, <1>10, LeaseAssumption DEF TypeOK, Apply, Call, NoCall
    <3>2. Move(row[d.task], Moved(d.op, row[d.task], d.epoch, d.attempts))
      BY <1>0, <2>2, <3>1, MovedRow DEF Matches
    <3> QED
      BY <1>0, <2>2, <3>1, <3>2, OneRowMoves
  <2> QED
    BY <1>10, <2>1, <2>2 DEF Apply
<1>11. ASSUME NEW op \in Ops, NEW S \in SUBSET Tasks, MoveMany(op, S)
       PROVE  RowsMove
  <2> DEFINE Done(t) == IF t \in S /\ Applies(op, row[t]) /\ WithinBound(op, row[t])
                        THEN Moved(op, row[t], row[t].lease_epoch, row[t].attempts)
                        ELSE row[t]
  <2>1. row' = [t \in Tasks |-> Done(t)]
    BY <1>11 DEF MoveMany
  <2>2. \A t \in Tasks : Move(row[t], Done(t))
    <3> TAKE t \in Tasks
    <3>1. RowOK(row[t]) /\ row[t].attempts \in Nat
      BY <1>0, RowTypes DEF RowOK
    <3> QED
      BY <3>1, MovedRow, SameRow
  <2> HIDE DEF Done
  <2> QED
    BY <2>1, <2>2 DEF RowsMove, Move, RowOK
<1>12. ASSUME NEW x \in execs, ExecutionStep(x)
       PROVE  RowsMove
  <2>1. CASE row' = row
    BY <1>0, <2>1, NoRowMoves
  <2> QED
    BY <1>3, <1>4, <1>12, <2>1 DEF ExecutionStep, StartExecution, EndUnrecorded, GraceEnds
<1>13. ASSUME NEW w \in Workers, LoopStep(w) \/ Renew(w) \/ Crash(w)
       PROVE  RowsMove
  <2>1. CASE row' = row
    BY <1>0, <2>1, NoRowMoves
  <2> QED
    BY <1>1, <1>2, <1>7, <1>8, <1>9, <1>13, <2>1
    DEF LoopStep, ReadCandidates, ReloadClaimed, ReadExhausted, Crash
<1>14. ASSUME NEW c \in Callers, CallerStep(c)
       PROVE  RowsMove
  <2>1. CASE row' = row
    BY <1>0, <2>1, NoRowMoves
  <2> QED
    BY <1>10, <1>14, <2>1 DEF CallerStep, Decide
<1>15. CASE UNCHANGED vars
  BY <1>0, <1>15, NoRowMoves DEF vars
<1> QED
  BY <1>5, <1>6, <1>11, <1>12, <1>13, <1>14, <1>15 DEF Next, Ops
-----------------------------------------------------------------------------
(* What one step does to the copies.                                       *)

\* Every variable keeps its type.
LEMMA TypeStep ==
  ASSUME IInv, RowsMove, [Next]_vars
  PROVE  TypeOK'
<1> DEFINE Typed == /\ execs' \subseteq Execution
                    /\ releases' \subseteq Release
                    /\ main' \in [Workers -> Loop]
                    /\ calls' \in [Callers -> Call]
                    /\ alive' \subseteq Workers
<1>0. /\ row \in [Tasks -> Row]
      /\ execs \subseteq Execution
      /\ releases \subseteq Release
      /\ main \in [Workers -> Loop]
      /\ calls \in [Callers -> Call]
      /\ alive \subseteq Workers
      /\ row' \in [Tasks -> Row]
  BY DEF IInv, TypeOK, RowsMove
<1>1. ASSUME NEW t \in Tasks, NEW w \in Workers, NEW r \in Row
      PROVE  HandedOff(t, w, r) \in Execution
  BY DEF HandedOff, Execution
<1>2. Idle \in Loop
  BY DEF Loop, Idle
<1>3. ASSUME NEW S \in SUBSET Snapshot
      PROVE  /\ Carry(S) \in Loop
             /\ Claiming(S) \in Loop
             /\ Abandoning(S) \in Loop
  BY <1>2 DEF Loop, Carry, Claiming, Abandoning
<1>4. ASSUME NEW S \in SUBSET Snapshot, NEW t \in Tasks, NEW e \in Nat
      PROVE  Reloading(S, t, e) \in Loop
  BY DEF Loop, Reloading
<1>5. \A w \in Workers : main[w].seen \in SUBSET Snapshot
  BY <1>0 DEF Loop
<1>6. \A S \in SUBSET Tasks : {[task |-> t, row |-> row[t]] : t \in S} \in SUBSET Snapshot
  BY <1>0 DEF Snapshot
<1>7. ASSUME NEW w \in Workers, LoopStep(w) \/ Renew(w) \/ Crash(w)
      PROVE  Typed
  <2>1. CASE \E t \in Tasks : ClaimLocked(w, t)
    <3>1. PICK t \in Tasks : ClaimLocked(w, t)
      BY <2>1
    <3>2. Claimed(row[t], row[t], w) = row'[t]
      BY <1>0, <3>1 DEF ClaimLocked
    <3> QED
      BY <1>0, <1>1, <3>1, <3>2 DEF ClaimLocked
  <2>2. CASE ReadCandidates(w)
    <3>1. PICK S \in SUBSET Tasks :
            main' = [main EXCEPT ![w] = Claiming({[task |-> t, row |-> row[t]] : t \in S})]
      BY <2>2 DEF ReadCandidates, FirstOf
    <3> QED
      BY <1>0, <1>3, <1>6, <2>2, <3>1 DEF ReadCandidates
  <2>3. CASE \E c \in main[w].seen : TryCandidate(w, c)
    <3>1. PICK c \in main[w].seen : TryCandidate(w, c)
      BY <2>3
    <3>2. c.task \in Tasks /\ c.row.lease_epoch + 1 \in Nat
      BY <1>5, RowTypes DEF Snapshot
    <3>3. main[w].seen \ {c} \in SUBSET Snapshot
      BY <1>5
    <3> QED
      BY <1>0, <1>3, <1>4, <3>1, <3>2, <3>3 DEF TryCandidate
  <2>4. CASE ReloadClaimed(w)
    <3>1. main[w].granted[1] \in Tasks
      BY <2>4 DEF IInv, ReloadClaimed, ReloadOK
    <3> QED
      BY <1>0, <1>1, <1>2, <1>3, <1>5, <2>4, <3>1 DEF ReloadClaimed
  <2>5. CASE ReadExhausted(w)
    <3>1. PICK S \in SUBSET Tasks :
            main' = [main EXCEPT ![w] = Abandoning({[task |-> t, row |-> row[t]] : t \in S})]
      BY <2>5 DEF ReadExhausted, FirstOf
    <3> QED
      BY <1>0, <1>3, <1>6, <2>5, <3>1 DEF ReadExhausted
  <2>6. CASE \E c \in main[w].seen : AbandonExhausted(w, c)
    BY <1>0, <1>2, <1>3, <1>5, <2>6 DEF AbandonExhausted
  <2>7. CASE RequeueAbandoned(w) \/ Renew(w)
    BY <1>0, <2>7 DEF RequeueAbandoned, Renew
  <2>8. CASE Crash(w)
    BY <1>0, <1>2, <2>8 DEF Crash
  <2> QED
    BY <1>7, <2>1, <2>2, <2>3, <2>4, <2>5, <2>6, <2>7, <2>8 DEF LoopStep
<1>8. ASSUME NEW x \in execs, ExecutionStep(x)
      PROVE  Typed
  <2>1. /\ x \in Execution
        /\ [x EXCEPT !.phase = "in_flight"] \in Execution
        /\ [x EXCEPT !.phase = "stuck"] \in Execution
        /\ [task |-> x.task, worker |-> x.worker, row |-> x.row] \in Release
    BY <1>0 DEF Execution, Release
  <2> QED
    BY <1>0, <1>8, <2>1
    DEF ExecutionStep, StartExecution, Succeed, Fail, EndUnrecorded, GraceEnds
<1>9. ASSUME NEW x \in releases, RecordStuck(x)
      PROVE  Typed
  BY <1>0, <1>9 DEF RecordStuck
<1>10. ASSUME NEW t \in Tasks, LeaseExpires(t) \/ BecomesDue(t) \/ ExpireLease(t)
       PROVE  Typed
  BY <1>0, <1>10 DEF LeaseExpires, BecomesDue, ExpireLease
<1>11. ASSUME NEW c \in Callers, CallerStep(c)
       PROVE  Typed
  <2>1. CASE Apply(c)
    BY <1>0, <2>1 DEF Apply, Call
  <2>2. CASE \E op \in CallerOps, t \in Tasks : Decide(c, op, t)
    <3>1. PICK op \in CallerOps, t \in Tasks : Decide(c, op, t)
      BY <2>2
    <3>2. row[t].lease_epoch \in Nat /\ row[t].attempts \in Nat
      BY <1>0, RowTypes
    <3>3. [op |-> op, task |-> t, epoch |-> row[t].lease_epoch,
           attempts |-> row[t].attempts] \in Call
      BY <3>2 DEF Call
    <3> QED
      BY <1>0, <3>1, <3>3 DEF Decide
  <2> QED
    BY <1>11, <2>1, <2>2 DEF CallerStep
<1>12. ASSUME NEW op \in Ops, NEW S \in SUBSET Tasks, MoveMany(op, S)
       PROVE  Typed
  BY <1>0, <1>12 DEF MoveMany
<1>13. ASSUME UNCHANGED vars
       PROVE  Typed
  BY <1>0, <1>13 DEF vars
<1> HIDE DEF Typed
<1>14. Typed
  BY <1>7, <1>8, <1>9, <1>10, <1>11, <1>12, <1>13 DEF Next, Ops
<1> QED
  BY <1>0, <1>14 DEF TypeOK, Typed

\* w was granted epoch on the row, which may have moved on since.
GrantStands(w, epoch, r) ==
  epoch <= r.lease_epoch /\ (epoch = r.lease_epoch => GrantedTo(r, w))

\* A grant not yet read back stands on every later state of the row.
LEMMA GrantKept ==
  ASSUME NEW r \in Row, NEW q \in Row, Follows(r, q),
         NEW w, NEW epoch \in Nat, GrantStands(w, epoch, r)
  PROVE  GrantStands(w, epoch, q)
<1>1. /\ r.lease_epoch \in Nat /\ q.lease_epoch \in Nat
      /\ epoch <= r.lease_epoch /\ r.lease_epoch <= q.lease_epoch
  BY RowTypes DEF GrantStands, Follows
<1>2. epoch <= q.lease_epoch
  BY <1>1
<1>3. ASSUME epoch = q.lease_epoch
      PROVE  GrantedTo(q, w)
  <2>1. epoch = r.lease_epoch /\ r.lease_epoch = q.lease_epoch
    BY <1>1, <1>3
  <2>2. GrantedTo(r, w) /\ r.attempts = q.attempts /\ r.worker_ids = q.worker_ids
    BY <2>1 DEF GrantStands, Follows
  <2> QED
    BY <2>2 DEF GrantedTo
<1> QED
  BY <1>2, <1>3 DEF GrantStands

\* A copy survives every move of the table.
LEMMA CopiesKept ==
  ASSUME IInv, RowsMove
  PROVE  /\ \A x \in execs \cup releases : Granted(x)'
         /\ \A w \in Workers : \A c \in main[w].seen : Follows(c.row, row'[c.task])
         /\ \A w \in Workers : main[w].at = "reloading" =>
              /\ main[w].granted \in Tasks \X Nat
              /\ GrantStands(w, main[w].granted[2], row'[main[w].granted[1]])
<1>1. \A t \in Tasks : row[t] \in Row /\ row'[t] \in Row /\ Follows(row[t], row'[t])
  BY DEF IInv, RowsOK, RowOK, RowsMove, Move
<1>2. ASSUME NEW x \in execs \cup releases
      PROVE  Granted(x)'
  <2>1. x.task \in Tasks /\ Granted(x)
    BY DEF IInv, TypeOK, Execution, Release
  <2> QED
    BY <1>1, <2>1, FollowsTransitive DEF Granted, GrantedTo
<1>3. ASSUME NEW w \in Workers, NEW c \in main[w].seen
      PROVE  Follows(c.row, row'[c.task])
  <2>1. c.task \in Tasks /\ c.row \in Row /\ Follows(c.row, row[c.task])
    BY DEF IInv, TypeOK, Loop, Snapshot, SeenFollowed
  <2> QED
    BY <1>1, <2>1, FollowsTransitive
<1>4. ASSUME NEW w \in Workers, main[w].at = "reloading"
      PROVE  /\ main[w].granted \in Tasks \X Nat
             /\ GrantStands(w, main[w].granted[2], row'[main[w].granted[1]])
  <2> DEFINE t == main[w].granted[1]
             epoch == main[w].granted[2]
  <2>1. /\ main[w].granted \in Tasks \X Nat
        /\ GrantStands(w, epoch, row[t])
    BY <1>4 DEF IInv, ReloadOK, GrantStands
  <2>2. t \in Tasks /\ epoch \in Nat
    BY <2>1
  <2> HIDE DEF t, epoch
  <2>3. GrantStands(w, epoch, row'[t])
    BY <1>1, <2>1, <2>2, GrantKept
  <2> QED
    BY <2>1, <2>3 DEF t, epoch
<1> QED
  BY <1>2, <1>3, <1>4

\* The claim of the optimistic path, landed.
LEMMA GrantLands ==
  ASSUME IInv, RowsMove, NEW w \in Workers, NEW c \in main[w].seen,
         TryCandidate(w, c), StillAsRead(c)
  PROVE  /\ c.task \in Tasks
         /\ main' = [main EXCEPT ![w] = Reloading(main[w].seen \ {c}, c.task,
                                                  row[c.task].lease_epoch + 1)]
         /\ row'[c.task].lease_epoch = row[c.task].lease_epoch + 1
         /\ GrantedTo(row'[c.task], w)
<1>1. /\ c.task \in Tasks /\ c.row \in Row /\ Follows(c.row, row[c.task])
      /\ row \in [Tasks -> Row]
      /\ RowOK(row[c.task])
  BY DEF IInv, TypeOK, Loop, Snapshot, SeenFollowed, RowsOK
<1>2. row[c.task].status = "READY" /\ c.row.lease_epoch = row[c.task].lease_epoch
  BY DEF StillAsRead
<1>3. row'[c.task] = Claimed(row[c.task], c.row, w)
  BY <1>1 DEF TryCandidate
<1> QED
  BY <1>1, <1>2, <1>3, ClaimedRow DEF TryCandidate

\* The claim of the locked paths.
LEMMA LockedGrant ==
  ASSUME IInv, RowsMove, NEW w \in Workers, NEW t \in Tasks, ClaimLocked(w, t)
  PROVE  /\ execs' = execs \cup {HandedOff(t, w, row'[t])}
         /\ row'[t].lease_epoch = row[t].lease_epoch + 1
         /\ GrantedTo(row'[t], w)
<1>1. row \in [Tasks -> Row] /\ RowOK(row[t]) /\ Move(row[t], row[t]) /\ row[t] \in Row
  BY SameRow DEF IInv, TypeOK, RowsOK, RowOK
<1>2. row'[t] = Claimed(row[t], row[t], w)
  BY <1>1 DEF ClaimLocked
<1>3. row[t].status = "READY" /\ Follows(row[t], row[t])
  BY <1>1 DEF ClaimLocked, Claimable, Move
<1>4. /\ row'[t].lease_epoch = row[t].lease_epoch + 1
      /\ GrantedTo(row'[t], w)
  BY <1>1, <1>2, <1>3, ClaimedRow
<1> QED
  BY <1>2, <1>4 DEF ClaimLocked

\* What the run loops hold after a step: candidates and exhausted rows the
\* table follows, and grants that stand.
LEMMA LoopsStep ==
  ASSUME IInv, RowsMove, [Next]_vars
  PROVE  SeenFollowed' /\ (\A w \in Workers : ReloadOK(w))'
<1> DEFINE Held(w) ==
             /\ \A c \in main'[w].seen : Follows(c.row, row'[c.task])
             /\ main'[w].at = "reloading" =>
                  /\ main'[w].granted \in Tasks \X Nat
                  /\ GrantStands(w, main'[w].granted[2], row'[main'[w].granted[1]])
<1>0. /\ main \in [Workers -> Loop]
      /\ \A w \in Workers : \A c \in main[w].seen : Follows(c.row, row'[c.task])
      /\ \A t \in Tasks : row[t] \in Row /\ row'[t] \in Row /\ Follows(row[t], row'[t])
  BY CopiesKept DEF IInv, TypeOK, RowsOK, RowOK, RowsMove, Move
<1>1. ASSUME NEW w \in Workers, main'[w] = main[w]
      PROVE  Held(w)
  BY <1>1, CopiesKept
<1>2. ASSUME NEW w \in Workers, main'[w].at # "reloading",
             main'[w].seen \subseteq main[w].seen
      PROVE  Held(w)
  BY <1>0, <1>2
<1>3. ASSUME NEW w \in Workers, main'[w].at # "reloading",
             NEW S \in SUBSET Tasks,
             main'[w].seen = {[task |-> t, row |-> row[t]] : t \in S}
      PROVE  Held(w)
  BY <1>0, <1>3
<1> USE DEF Idle, Carry, Claiming, Abandoning
<1>4. ASSUME NEW w \in Workers, LoopStep(w)
      PROVE  Held(w)
  <2>1. CASE \E t \in Tasks : ClaimLocked(w, t)
    BY <1>0, <1>1, <2>1 DEF ClaimLocked
  <2>2. CASE ReadCandidates(w)
    <3>1. PICK S \in SUBSET Tasks :
            main' = [main EXCEPT ![w] = Claiming({[task |-> t, row |-> row[t]] : t \in S})]
      BY <2>2 DEF ReadCandidates, FirstOf
    <3> QED
      BY <1>0, <1>3, <3>1
  <2>3. CASE \E c \in main[w].seen : TryCandidate(w, c)
    <3>1. PICK c \in main[w].seen : TryCandidate(w, c)
      BY <2>3
    <3>2. CASE StillAsRead(c)
      <4> DEFINE epoch == row[c.task].lease_epoch + 1
      <4>1. /\ c.task \in Tasks
            /\ main' = [main EXCEPT ![w] = Reloading(main[w].seen \ {c}, c.task, epoch)]
            /\ row'[c.task].lease_epoch = epoch
            /\ GrantedTo(row'[c.task], w)
        BY <3>1, <3>2, GrantLands
      <4>2. epoch \in Nat
        BY <1>0, <4>1, RowTypes
      <4> HIDE DEF epoch
      <4>3. GrantStands(w, epoch, row'[c.task])
        BY <4>1, <4>2 DEF GrantStands
      <4>4. main'[w] = Reloading(main[w].seen \ {c}, c.task, epoch)
        BY <1>0, <4>1
      <4>5. /\ main'[w].seen \subseteq main[w].seen
            /\ main'[w].granted = <<c.task, epoch>>
        BY <4>4 DEF Reloading
      <4> DEFINE g == <<c.task, epoch>>
      <4>6. g \in Tasks \X Nat /\ g[1] = c.task /\ g[2] = epoch
        BY <4>1, <4>2
      <4>7. main'[w].granted = g
        BY <4>5
      <4> HIDE DEF g
      <4> QED
        BY <1>0, <4>3, <4>5, <4>6, <4>7
    <3>3. CASE ~StillAsRead(c)
      BY <1>0, <1>2, <3>1, <3>3 DEF TryCandidate
    <3> QED
      BY <3>2, <3>3
  <2>4. CASE ReloadClaimed(w)
    BY <1>0, <1>2, <2>4 DEF ReloadClaimed
  <2>5. CASE RequeueAbandoned(w)
    BY <1>1, <2>5 DEF RequeueAbandoned
  <2>6. CASE ReadExhausted(w)
    <3>1. PICK S \in SUBSET Tasks :
            main' = [main EXCEPT ![w] = Abandoning({[task |-> t, row |-> row[t]] : t \in S})]
      BY <2>6 DEF ReadExhausted, FirstOf
    <3> QED
      BY <1>0, <1>3, <3>1
  <2>7. CASE \E c \in main[w].seen : AbandonExhausted(w, c)
    BY <1>0, <1>2, <2>7 DEF AbandonExhausted
  <2> QED
    BY <1>4, <2>1, <2>2, <2>3, <2>4, <2>5, <2>6, <2>7 DEF LoopStep
<1>5. ASSUME NEW w \in Workers, LoopStep(w), NEW v \in Workers \ {w}
      PROVE  main'[v] = main[v]
  BY <1>0, <1>5
  DEF LoopStep, ClaimLocked, ReadCandidates, TryCandidate, ReloadClaimed,
      RequeueAbandoned, ReadExhausted, AbandonExhausted
<1>6. ASSUME NEW w \in Workers, Crash(w), NEW v \in Workers
      PROVE  Held(v)
  BY <1>0, <1>1, <1>2, <1>6 DEF Crash
<1> HIDE DEF Held
<1>7. \A w \in Workers : Held(w)
  <2>1. CASE \E w \in Workers : LoopStep(w)
    BY <1>1, <1>4, <1>5, <2>1
  <2>2. CASE \E w \in Workers : Crash(w)
    BY <1>6, <2>2
  <2>3. CASE main' = main
    BY <1>1, <2>3
  <2> QED
    BY <2>1, <2>2, <2>3
    DEF Next, vars, Renew, ExecutionStep, StartExecution, Succeed, Fail, EndUnrecorded,
        GraceEnds, RecordStuck, LeaseExpires, BecomesDue, ExpireLease, CallerStep, Apply,
        Decide, MoveMany
<1> QED
  BY <1>7 DEF Held, SeenFollowed, ReloadOK, GrantStands

\* Past claims are behind the row's epoch, or at it: an execution or a grant
\* of epoch + 1 would be the first.
LEMMA NextEpochIsFresh ==
  ASSUME IInv, NEW t \in Tasks
  PROVE  /\ \A x \in execs : x.task = t => x.row.lease_epoch # row[t].lease_epoch + 1
         /\ \A w \in Workers : main[w].at = "reloading"
              => main[w].granted # <<t, row[t].lease_epoch + 1>>
<1>1. row[t].lease_epoch \in Nat
  BY RowTypes DEF IInv, RowsOK, RowOK
<1>2. ASSUME NEW x \in execs, x.task = t
      PROVE  x.row.lease_epoch # row[t].lease_epoch + 1
  <2>1. x.row.lease_epoch \in Nat /\ x.row.lease_epoch <= row[t].lease_epoch
    BY <1>2, RowTypes DEF IInv, Granted, GrantedTo, Follows
  <2> QED
    BY <1>1, <2>1
<1>3. ASSUME NEW w \in Workers, main[w].at = "reloading",
             main[w].granted = <<t, row[t].lease_epoch + 1>>
      PROVE  FALSE
  <2>1. main[w].granted[1] = t /\ main[w].granted[2] = row[t].lease_epoch + 1
    BY <1>3
  <2>2. main[w].granted[2] <= row[t].lease_epoch
    BY <1>3, <2>1 DEF IInv, ReloadOK
  <2> QED
    BY <1>1, <2>1, <2>2
<1> QED
  BY <1>2, <1>3

\* One execution more, of a claim nobody else was granted.
LEMMA OneMoreExecution ==
  ASSUME EpochsIdentifyExecutions, NEW x, execs' = execs \cup {x},
         \A y \in execs : y.task = x.task => y.row.lease_epoch # x.row.lease_epoch,
         \A w \in Workers : main'[w].at = "reloading" =>
           /\ main[w].at = "reloading" /\ main'[w].granted = main[w].granted
           /\ main'[w].granted # <<x.task, x.row.lease_epoch>>
  PROVE  EpochsIdentifyExecutions'
BY DEF EpochsIdentifyExecutions

\* The same executions in other phases, or fewer of them.
LEMMA NoMoreExecutions ==
  ASSUME EpochsIdentifyExecutions,
         \A x \in execs' : x \in execs \/
           \E y \in execs : y \notin execs' /\ y.task = x.task /\ y.row = x.row
                            /\ \A z \in execs' : z \in execs \/ z = x,
         \A w \in Workers : main'[w].at = "reloading" =>
           main[w].at = "reloading" /\ main'[w].granted = main[w].granted
  PROVE  EpochsIdentifyExecutions'
<1>1. \A x, y \in execs' : x.task = y.task /\ x.row.lease_epoch = y.row.lease_epoch => x = y
  BY DEF EpochsIdentifyExecutions
<1>2. ASSUME NEW w \in Workers, NEW x \in execs', main'[w].at = "reloading"
      PROVE  main'[w].granted # <<x.task, x.row.lease_epoch>>
  <2>1. \E y \in execs : y.task = x.task /\ y.row = x.row
    OBVIOUS
  <2> QED
    BY <1>2, <2>1 DEF EpochsIdentifyExecutions
<1>3. \A v, w \in Workers :
        main'[v].at = "reloading" /\ main'[w].at = "reloading"
          /\ main'[v].granted = main'[w].granted => v = w
  BY DEF EpochsIdentifyExecutions
<1> QED
  BY <1>1, <1>2, <1>3 DEF EpochsIdentifyExecutions

\* One grant more.
LEMMA OneMoreGrant ==
  ASSUME EpochsIdentifyExecutions, execs' = execs, NEW w \in Workers, NEW g,
         main'[w].granted = g,
         \A x \in execs : g # <<x.task, x.row.lease_epoch>>,
         \A v \in Workers : main[v].at = "reloading" => main[v].granted # g,
         \A v \in Workers \ {w} : main'[v] = main[v]
  PROVE  EpochsIdentifyExecutions'
<1>1. ASSUME NEW v \in Workers, NEW x \in execs', main'[v].at = "reloading"
      PROVE  main'[v].granted # <<x.task, x.row.lease_epoch>>
  <2>1. CASE v = w
    BY <2>1
  <2>2. CASE v # w
    BY <1>1, <2>2 DEF EpochsIdentifyExecutions
  <2> QED
    BY <2>1, <2>2
<1>2. ASSUME NEW u \in Workers, NEW v \in Workers,
             main'[u].at = "reloading", main'[v].at = "reloading",
             main'[u].granted = main'[v].granted
      PROVE  u = v
  <2>1. CASE u = w \/ v = w
    BY <1>2, <2>1
  <2>2. CASE u # w /\ v # w
    BY <1>2, <2>2 DEF EpochsIdentifyExecutions
  <2> QED
    BY <2>1, <2>2
<1> QED
  BY <1>1, <1>2 DEF EpochsIdentifyExecutions

\* What the executions and the watchdogs hold after a step was granted to
\* them, and no two executions share an epoch.
LEMMA ExecutionsStep ==
  ASSUME IInv, RowsMove, [Next]_vars
  PROVE  /\ (\A x \in execs : Granted(x))'
         /\ (\A x \in releases : Granted(x))'
         /\ EpochsIdentifyExecutions'
<1> DEFINE AllGranted == /\ \A x \in execs' : Granted(x)'
                         /\ \A x \in releases' : Granted(x)'
           Fine == AllGranted /\ EpochsIdentifyExecutions'
<1>0. /\ \A x \in execs \cup releases : Granted(x)'
      /\ EpochsIdentifyExecutions
      /\ main \in [Workers -> Loop]
      /\ \A t \in Tasks : row'[t] \in Row /\ Follows(row'[t], row'[t])
  <2>1. \A t \in Tasks : RowOK(row'[t])
    BY DEF RowsMove, Move
  <2> QED
    BY <2>1, CopiesKept, SameRow DEF IInv, TypeOK, Move, RowOK
<1>1. ASSUME execs' \subseteq execs, releases' \subseteq releases,
             \A w \in Workers : main'[w].at = "reloading" => main'[w] = main[w]
      PROVE  Fine
  BY <1>0, <1>1, NoMoreExecutions
<1>2. ASSUME NEW t \in Tasks, NEW w \in Workers, GrantedTo(row'[t], w),
             execs' = execs \cup {HandedOff(t, w, row'[t])}, releases' = releases
      PROVE  AllGranted
  <2>1. PICK x : x = HandedOff(t, w, row'[t])
    OBVIOUS
  <2>2. x.task = t /\ x.worker = w /\ x.row = row'[t]
    BY <2>1 DEF HandedOff
  <2>3. GrantedTo(x.row, x.worker) /\ Follows(x.row, row'[x.task])
    BY <1>0, <1>2, <2>2
  <2>4. Granted(x)'
    BY <2>3 DEF Granted
  <2> QED
    BY <1>0, <1>2, <2>1, <2>4
<1>3. ASSUME NEW w \in Workers, LoopStep(w)
      PROVE  Fine
  <2>1. CASE \E t \in Tasks : ClaimLocked(w, t)
    <3>1. PICK t \in Tasks : ClaimLocked(w, t)
      BY <2>1
    <3>2. /\ execs' = execs \cup {HandedOff(t, w, row'[t])}
          /\ row'[t].lease_epoch = row[t].lease_epoch + 1
          /\ GrantedTo(row'[t], w)
      BY <3>1, LockedGrant
    <3>3. AllGranted
      BY <1>2, <3>1, <3>2 DEF ClaimLocked
    <3>4. EpochsIdentifyExecutions'
      <4> DEFINE x == HandedOff(t, w, row'[t])
      <4>1. x.task = t /\ x.row.lease_epoch = row[t].lease_epoch + 1
        BY <3>2 DEF HandedOff
      <4> HIDE DEF x
      <4>2. execs' = execs \cup {x} /\ main' = main
        BY <3>1, <3>2 DEF x, ClaimLocked
      <4> QED
        BY <1>0, <4>1, <4>2, NextEpochIsFresh, OneMoreExecution
    <3> QED
      BY <3>3, <3>4
  <2>2. CASE ReadCandidates(w)
    BY <1>0, <1>1, <2>2 DEF ReadCandidates, Claiming
  <2>3. CASE \E c \in main[w].seen : TryCandidate(w, c)
    <3>1. PICK c \in main[w].seen : TryCandidate(w, c)
      BY <2>3
    <3>2. CASE StillAsRead(c)
      <4> DEFINE g == <<c.task, row[c.task].lease_epoch + 1>>
      <4>1. /\ c.task \in Tasks
            /\ main' = [main EXCEPT ![w] = Reloading(main[w].seen \ {c}, c.task,
                                                     row[c.task].lease_epoch + 1)]
        BY <3>1, <3>2, GrantLands
      <4>2. main'[w].granted = g
        BY <1>0, <4>1 DEF Reloading
      <4>3. /\ \A x \in execs : g # <<x.task, x.row.lease_epoch>>
            /\ \A v \in Workers : main[v].at = "reloading" => main[v].granted # g
        BY <4>1, NextEpochIsFresh
      <4>4. \A v \in Workers \ {w} : main'[v] = main[v]
        BY <1>0, <4>1
      <4>5. execs' = execs /\ releases' = releases
        BY <3>1 DEF TryCandidate
      <4> HIDE DEF g
      <4>6. EpochsIdentifyExecutions'
        BY <1>0, <4>2, <4>3, <4>4, <4>5, OneMoreGrant
      <4> QED
        BY <1>0, <4>5, <4>6
    <3>3. CASE ~StillAsRead(c)
      BY <1>0, <1>1, <3>1, <3>3 DEF TryCandidate, Carry, Idle, Claiming
    <3> QED
      BY <3>2, <3>3
  <2>4. CASE ReloadClaimed(w)
    <3> DEFINE t == main[w].granted[1]
               epoch == main[w].granted[2]
    <3>1. CASE row[t].lease_epoch = epoch
      <4>1. /\ main[w].at = "reloading"
            /\ execs' = execs \cup {HandedOff(t, w, row[t])}
            /\ main' = [main EXCEPT ![w] = Idle]
            /\ row' = row /\ releases' = releases
        BY <2>4, <3>1 DEF ReloadClaimed
      <4>2. /\ t \in Tasks /\ GrantedTo(row[t], w)
            /\ main[w].granted = <<t, epoch>>
        BY <3>1, <4>1 DEF IInv, ReloadOK
      <4>3. AllGranted
        BY <1>2, <4>1, <4>2
      <4> DEFINE x == HandedOff(t, w, row[t])
      <4>4. x.task = t /\ x.row.lease_epoch = epoch
        BY <3>1 DEF HandedOff
      <4>5. execs' = execs \cup {x}
        BY <4>1
      <4> HIDE DEF t, epoch, x
      <4>6. \A y \in execs : y.task = x.task => y.row.lease_epoch # x.row.lease_epoch
        BY <1>0, <4>1, <4>2, <4>4 DEF EpochsIdentifyExecutions
      <4>7. ASSUME NEW v \in Workers, main'[v].at = "reloading"
            PROVE  /\ main[v].at = "reloading" /\ main'[v].granted = main[v].granted
                   /\ main'[v].granted # <<x.task, x.row.lease_epoch>>
        <5>1. v # w /\ main'[v] = main[v]
          BY <1>0, <4>1, <4>7 DEF Idle
        <5> QED
          BY <1>0, <4>1, <4>2, <4>4, <4>7, <5>1 DEF EpochsIdentifyExecutions
      <4>8. EpochsIdentifyExecutions'
        BY <1>0, <4>5, <4>6, <4>7, OneMoreExecution
      <4> QED
        BY <4>3, <4>8
    <3>2. CASE row[t].lease_epoch # epoch
      BY <1>0, <1>1, <2>4, <3>2 DEF ReloadClaimed, Carry, Idle, Claiming
    <3> QED
      BY <3>1, <3>2
  <2>5. CASE RequeueAbandoned(w)
    BY <1>1, <2>5 DEF RequeueAbandoned
  <2>6. CASE ReadExhausted(w)
    BY <1>0, <1>1, <2>6 DEF ReadExhausted, Abandoning
  <2>7. CASE \E c \in main[w].seen : AbandonExhausted(w, c)
    BY <1>0, <1>1, <2>7 DEF AbandonExhausted, Abandoning, Idle
  <2> QED
    BY <1>3, <2>1, <2>2, <2>3, <2>4, <2>5, <2>6, <2>7 DEF LoopStep
<1>4. ASSUME NEW w \in Workers, Renew(w) \/ Crash(w)
      PROVE  Fine
  BY <1>0, <1>1, <1>4 DEF Renew, Crash, Idle
<1>5. ASSUME NEW x \in execs, ExecutionStep(x)
      PROVE  Fine
  <2>1. CASE Succeed(x) \/ Fail(x) \/ EndUnrecorded(x)
    BY <1>1, <2>1 DEF Succeed, Fail, EndUnrecorded
  <2>2. CASE StartExecution(x) \/ GraceEnds(x)
    <3>1. PICK ph \in {"in_flight", "stuck"} :
            /\ x.phase # ph
            /\ execs' = (execs \ {x}) \cup {[x EXCEPT !.phase = ph]}
            /\ main' = main
            /\ releases' \subseteq
                 releases \cup {[task |-> x.task, worker |-> x.worker, row |-> x.row]}
      BY <2>2 DEF StartExecution, GraceEnds
    <3> DEFINE z == [x EXCEPT !.phase = ph]
               u == [task |-> x.task, worker |-> x.worker, row |-> x.row]
    <3>2. /\ z.task = x.task /\ z.worker = x.worker /\ z.row = x.row /\ z # x
          /\ u.task = x.task /\ u.worker = x.worker /\ u.row = x.row
      BY <3>1 DEF IInv, TypeOK, Execution
    <3>3. execs' = (execs \ {x}) \cup {z} /\ releases' \subseteq releases \cup {u}
      BY <3>1
    <3> HIDE DEF z, u
    <3>4. Granted(z)' /\ Granted(u)'
      BY <1>0, <3>2 DEF Granted
    <3>5. EpochsIdentifyExecutions'
      BY <1>0, <3>1, <3>2, <3>3, NoMoreExecutions
    <3> QED
      BY <1>0, <3>3, <3>4, <3>5
  <2> QED
    BY <1>5, <2>1, <2>2 DEF ExecutionStep
<1>6. ASSUME NEW x \in releases, RecordStuck(x)
      PROVE  Fine
  BY <1>1, <1>6 DEF RecordStuck
<1>7. ASSUME UNCHANGED <<execs, releases, main>>
      PROVE  Fine
  BY <1>1, <1>7
<1> HIDE DEF Fine
<1>8. Fine
  BY <1>3, <1>4, <1>5, <1>6, <1>7
  DEF Next, vars, LeaseExpires, BecomesDue, ExpireLease, CallerStep, Apply, Decide, MoveMany
<1> QED
  BY <1>8 DEF Fine
-----------------------------------------------------------------------------
(* The invariant.                                                          *)

LEMMA InitIInv ==
  ASSUME Init
  PROVE  IInv
<1>1. ASSUME NEW b \in Nat \ {0}, NEW s \in {"READY", "WAITING"}
      PROVE  RowOK(Inserted(b, s))
  <2> DEFINE q == Inserted(b, s)
  <2>1. q \in Row
    BY DEF Inserted, Row, Statuses
  <2>2. /\ q.status = s /\ q.attempts = 0 /\ q.worker_ids = <<>> /\ q.locked_by = NoWorker
        /\ q.lease = "none" /\ q.return_value = <<>>
    BY DEF Inserted
  <2> HIDE DEF q
  <2>3. RowOK(q)
    BY <2>1, <2>2 DEF RowOK
  <2> QED
    BY <2>3 DEF q
<1>2. row \in [Tasks -> Row] /\ RowsOK
  <2>1. PICK budget \in [Tasks -> Budgets], status \in [Tasks -> {"READY", "WAITING"}] :
          row = [t \in Tasks |-> Inserted(budget[t], status[t])]
    BY DEF Init
  <2>2. \A t \in Tasks : budget[t] \in Nat \ {0} /\ status[t] \in {"READY", "WAITING"}
    BY LeaseAssumption
  <2>3. \A t \in Tasks : RowOK(Inserted(budget[t], status[t]))
    BY <1>1, <2>2
  <2> QED
    BY <2>1, <2>3 DEF RowsOK, RowOK
<1>3. TypeOK
  BY <1>2 DEF Init, TypeOK, Loop, Idle, Call
<1>4. EpochsIdentifyExecutions
  BY DEF Init, Idle, EpochsIdentifyExecutions
<1> QED
  BY <1>2, <1>3, <1>4 DEF Init, IInv, SeenFollowed, ReloadOK, Idle

LEMMA NextIInv ==
  ASSUME IInv, [Next]_vars
  PROVE  IInv'
<1>1. RowsMove
  BY TableStep
<1>2. RowsOK'
  BY <1>1 DEF RowsMove, Move, RowsOK
<1> QED
  BY <1>1, <1>2, TypeStep, LoopsStep, ExecutionsStep DEF IInv

\* Everything a process holds is a copy the row has moved on from, in every
\* reachable state.
THEOREM CopiesAreFollowed == Spec => []IInv
<1>1. Init => IInv
  BY InitIInv
<1>2. IInv /\ [Next]_vars => IInv'
  BY NextIInv
<1> QED
  BY <1>1, <1>2, PTL DEF Spec
-----------------------------------------------------------------------------
(* The properties of TaskLease.                                            *)

\* Every variable has its type, in every reachable state.
THEOREM TypeCorrect == Spec => []TypeOK
<1>1. IInv => TypeOK
  BY DEF IInv
<1> QED
  BY <1>1, CopiesAreFollowed, PTL

\* One entry of worker_ids per attempt, a lock exactly on RUNNING rows.
THEOREM HistoryIsTheAttempts == Spec => []HistoryMatchesAttempts
<1>1. IInv => HistoryMatchesAttempts
  BY DEF IInv, RowsOK, RowOK, HistoryMatchesAttempts
<1> QED
  BY <1>1, CopiesAreFollowed, PTL

\* No two executions, and no execution and pending claim, share an epoch.
THEOREM EpochsAreUnique == Spec => []EpochsIdentifyExecutions
<1>1. IInv => EpochsIdentifyExecutions
  BY DEF IInv
<1> QED
  BY <1>1, CopiesAreFollowed, PTL

\* A stored result is the last claimer's.
THEOREM ResultsAreTheHolders == Spec => []ResultIsTheHolders
<1>1. IInv => ResultIsTheHolders
  BY DEF IInv, RowsOK, RowOK, HistoryMatchesAttempts, ResultIsTheHolders
<1> QED
  BY <1>1, CopiesAreFollowed, PTL

\* No step of any process moves a SUCCESSFUL row or reopens a DISCARDED one.
THEOREM OutcomesStay == Spec => OutcomesAreFinal
<1>1. ASSUME IInv, [Next]_vars, NEW t \in Tasks
      PROVE  /\ row[t].status = "SUCCESSFUL" =>
                  /\ row'[t].status = "SUCCESSFUL"
                  /\ row'[t].return_value = row[t].return_value
                  /\ row'[t].errors = row[t].errors
             /\ row[t].status = "DISCARDED" => row'[t].status \in {"DISCARDED", "WAITING"}
  <2>1. Lives(row[t], row'[t])
    BY <1>1, TableStep DEF RowsMove, Move
  <2> QED
    BY <2>1 DEF Lives
<1>2. IInv /\ [Next]_vars =>
        [\A t \in Tasks :
           /\ row[t].status = "SUCCESSFUL" =>
                /\ row'[t].status = "SUCCESSFUL"
                /\ row'[t].return_value = row[t].return_value
                /\ row'[t].errors = row[t].errors
           /\ row[t].status = "DISCARDED" => row'[t].status \in {"DISCARDED", "WAITING"}]_vars
  BY <1>1
<1> QED
  BY <1>2, CopiesAreFollowed, PTL DEF Spec, OutcomesAreFinal

\* A row as Lifecycle sees it.
LEMMA LifecycleMoves ==
  ASSUME NEW r, NEW q, RowOK(r), Move(r, q)
  PROVE  LET Holder(p) == IF p.status \in WRITABLE_STATUSES
                          THEN p.worker_ids[p.attempts] ELSE NoWorker
             Answered(p) == IF p.return_value = <<>> THEN NoWorker ELSE p.return_value[1]
         IN  \/ /\ r.status = "READY" /\ q.status = "RUNNING"
                /\ Holder(q) \in Workers /\ Answered(q) = Answered(r)
             \/ /\ r.status \in {"RUNNING", "LOST"}
                /\ q.status \in {"SUCCESSFUL", "FAILED", "READY"}
                /\ Holder(q) = NoWorker
                /\ Answered(q) = IF q.status = "SUCCESSFUL" THEN Holder(r) ELSE Answered(r)
             \/ /\ \/ /\ r.status \in {"RUNNING", "FAILED", "LOST", "WAITING"}
                      /\ q.status = "READY"
                   \/ /\ r.status \in {"READY", "WAITING", "FAILED", "LOST"}
                      /\ q.status = "DISCARDED"
                   \/ r.status = "DISCARDED" /\ q.status = "WAITING"
                /\ Holder(q) = NoWorker /\ Answered(q) = Answered(r)
             \/ /\ r.status = "RUNNING" /\ q.status = "LOST"
                /\ Holder(q) = Holder(r) /\ Answered(q) = Answered(r)
             \/ /\ q.status = r.status
                /\ Holder(q) = Holder(r) /\ Answered(q) = Answered(r)
BY DEF Move, RowOK, Lives, SameHistory, WRITABLE_STATUSES

\* The lease protocol implements the lifecycle, whatever stale copy any of
\* its steps is computed from.
THEOREM LifecycleIsImplemented == Spec => ImplementsLifecycle
<1>1. Init => Lifecycle!Init
  <2>1. SUFFICES ASSUME Init
                 PROVE  Lifecycle!Init
    OBVIOUS
  <2>2. PICK budget \in [Tasks -> Budgets], status \in [Tasks -> {"READY", "WAITING"}] :
          row = [t \in Tasks |-> Inserted(budget[t], status[t])]
    BY <2>1 DEF Init
  <2>3. \A t \in Tasks : /\ row[t].status = status[t]
                         /\ row[t].status \in {"READY", "WAITING"}
                         /\ row[t].return_value = <<>>
    BY <2>2 DEF Inserted
  <2> QED
    BY <2>3 DEF Lifecycle!Init, WRITABLE_STATUSES
<1>2. IInv /\ [Next]_vars => [Lifecycle!Next]_Lifecycle!vars
  <2>1. SUFFICES ASSUME IInv, [Next]_vars, NEW t \in Tasks
                 PROVE  \/ Lifecycle!Grant(t) \/ Lifecycle!Answer(t)
                        \/ Lifecycle!TakeBack(t) \/ Lifecycle!GiveUp(t)
                        \/ Lifecycle!Same(t)
    BY DEF Lifecycle!Next
  <2>2. RowOK(row[t]) /\ Move(row[t], row'[t])
    BY <2>1, TableStep DEF IInv, RowsOK, RowsMove
  <2> QED
    BY <2>1, <2>2, LifecycleMoves
    DEF Lifecycle!Grant, Lifecycle!Answer, Lifecycle!TakeBack, Lifecycle!GiveUp,
        Lifecycle!Same, Lifecycle!Becomes
<1> QED
  BY <1>1, <1>2, CopiesAreFollowed, PTL DEF Spec, ImplementsLifecycle, Lifecycle!Spec
-----------------------------------------------------------------------------
(* What callers decide.                                                    *)

\* A decision is about the row as its caller read it.
Decided(d, r) ==
  /\ d.epoch <= r.lease_epoch
  /\ d.epoch = r.lease_epoch => d.attempts = r.attempts

DecisionsFollowed ==
  \A c \in Callers : calls[c] # NoCall => Decided(calls[c], row[calls[c].task])

\* A step settles one decision, or takes one without moving the table.
LEMMA CallsStep ==
  ASSUME IInv, [Next]_vars, NEW c \in Callers
  PROVE  \/ calls'[c] = calls[c]
         \/ calls'[c] = NoCall /\ Apply(c)
         \/ /\ row' = row
            /\ \E t \in Tasks : /\ calls'[c].task = t
                                /\ calls'[c].epoch = row[t].lease_epoch
                                /\ calls'[c].attempts = row[t].attempts
<1>1. calls \in [Callers -> Call]
  BY DEF IInv, TypeOK
<1>2. ASSUME NEW d \in Callers, CallerStep(d), calls'[c] # calls[c]
      PROVE  \/ calls'[c] = NoCall /\ Apply(c)
             \/ /\ row' = row
                /\ \E t \in Tasks : /\ calls'[c].task = t
                                    /\ calls'[c].epoch = row[t].lease_epoch
                                    /\ calls'[c].attempts = row[t].attempts
  <2>1. CASE Apply(d)
    BY <1>1, <1>2, <2>1 DEF Apply
  <2>2. CASE \E op \in CallerOps, t \in Tasks : Decide(d, op, t)
    BY <1>1, <1>2, <2>2 DEF Decide
  <2> QED
    BY <1>2, <2>1, <2>2 DEF CallerStep
<1>3. CASE \E d \in Callers : CallerStep(d)
  BY <1>2, <1>3
<1>4. CASE calls' = calls
  BY <1>4
<1> QED
  BY <1>3, <1>4
  DEF Next, vars, LoopStep, ClaimLocked, ReadCandidates, TryCandidate, ReloadClaimed,
      RequeueAbandoned, ReadExhausted, AbandonExhausted, Renew, Crash, ExecutionStep,
      StartExecution, Succeed, Fail, EndUnrecorded, GraceEnds, RecordStuck, LeaseExpires,
      BecomesDue, ExpireLease, MoveMany

LEMMA DecisionsFollowedStep ==
  ASSUME IInv, DecisionsFollowed, [Next]_vars
  PROVE  DecisionsFollowed'
<1>1. SUFFICES ASSUME NEW c \in Callers, calls'[c] # NoCall
               PROVE  Decided(calls'[c], row'[calls'[c].task])
  BY DEF DecisionsFollowed
<1>2. ASSUME NEW t \in Tasks
      PROVE  /\ row[t].lease_epoch \in Nat /\ row'[t].lease_epoch \in Nat
             /\ Follows(row[t], row'[t])
  BY TableStep, RowTypes DEF IInv, RowsOK, RowsMove, Move, RowOK
<1>3. CASE calls'[c] = calls[c]
  <2>1. calls[c].task \in Tasks /\ calls[c].epoch \in Nat
    BY <1>1, <1>3 DEF IInv, TypeOK, Call
  <2>2. Decided(calls[c], row[calls[c].task])
    BY <1>1, <1>3 DEF DecisionsFollowed
  <2> QED
    BY <1>2, <1>3, <2>1, <2>2 DEF Decided, Follows
<1>4. CASE row' = row /\ \E t \in Tasks : /\ calls'[c].task = t
                                          /\ calls'[c].epoch = row[t].lease_epoch
                                          /\ calls'[c].attempts = row[t].attempts
  BY <1>2, <1>4 DEF Decided
<1> QED
  BY <1>1, <1>3, <1>4, CallsStep

LEMMA DecisionsAlwaysFollowed == Spec => [](IInv /\ DecisionsFollowed)
<1>1. Init => IInv /\ DecisionsFollowed
  BY InitIInv DEF Init, DecisionsFollowed
<1>2. IInv /\ DecisionsFollowed /\ [Next]_vars => (IInv /\ DecisionsFollowed)'
  BY NextIInv, DecisionsFollowedStep
<1> QED
  BY <1>1, <1>2, PTL DEF Spec

\* An operation that lands finds the attempts its caller read.
THEOREM DecisionsAreCurrent == Spec => DecisionsActOnWhatTheyRead
<1>1. ASSUME IInv, DecisionsFollowed, [Next]_vars, NEW c \in Callers,
             calls[c] # NoCall, calls'[c] = NoCall
      PROVE  row' = row \/ row[calls[c].task].attempts = calls[c].attempts
  <2>1. Apply(c) \/ row' = row
    BY <1>1, CallsStep
  <2>2. Decided(calls[c], row[calls[c].task])
    BY <1>1 DEF DecisionsFollowed
  <2> QED
    BY <2>1, <2>2 DEF Apply, Matches, Decided
<1>2. IInv /\ DecisionsFollowed /\ [Next]_vars =>
        [\A c \in Callers :
           calls[c] # NoCall /\ calls'[c] = NoCall =>
             \/ row' = row
             \/ row[calls[c].task].attempts = calls[c].attempts]_vars
  BY <1>1
<1> QED
  BY <1>2, DecisionsAlwaysFollowed, PTL DEF Spec, DecisionsActOnWhatTheyRead

\* A revival leaves every decision behind.
THEOREM RevivalsOutdate == Spec => RevivalOutdatesDecisions
<1>1. ASSUME IInv, DecisionsFollowed, [Next]_vars, NEW t \in Tasks,
             row[t].status = "DISCARDED", row'[t].status = "WAITING",
             NEW c \in Callers, calls'[c] # NoCall, calls'[c].task = t
      PROVE  calls'[c].epoch < row'[t].lease_epoch
  <2>1. Lives(row[t], row'[t])
    BY <1>1, TableStep DEF RowsMove, Move
  <2>2. row[t].lease_epoch < row'[t].lease_epoch
    BY <1>1, <2>1 DEF Lives
  <2>3. calls'[c] = calls[c]
    BY <1>1, CallsStep
  <2>4. /\ calls[c].epoch \in Nat
        /\ row[t].lease_epoch \in Nat /\ row'[t].lease_epoch \in Nat
        /\ calls[c].epoch <= row[t].lease_epoch
    <3>1. row[t] \in Row /\ row'[t] \in Row
      BY <1>1, TableStep DEF IInv, TypeOK, RowsMove
    <3>2. calls[c] \in Call
      BY <1>1 DEF IInv, TypeOK
    <3> QED
      BY <1>1, <2>3, <3>1, <3>2, RowTypes DEF DecisionsFollowed, Decided, Call
  <2> QED
    BY <2>2, <2>3, <2>4
<1>2. IInv /\ DecisionsFollowed /\ [Next]_vars =>
        [\A t \in Tasks :
           row[t].status = "DISCARDED" /\ row'[t].status = "WAITING" =>
             \A c \in Callers :
               calls'[c] # NoCall /\ calls'[c].task = t
                 => calls'[c].epoch < row'[t].lease_epoch]_vars
  BY <1>1
<1> QED
  BY <1>2, DecisionsAlwaysFollowed, PTL DEF Spec, RevivalOutdatesDecisions

\* No decision, made by whoever and however late, acts on another life of its row.
THEOREM DecisionsDoStay == Spec => DecisionsStayWithTheirRow
  BY DecisionsAreCurrent, RevivalsOutdate DEF DecisionsStayWithTheirRow
-----------------------------------------------------------------------------
(* Budgets and errors.                                                     *)

Ordered(es) == \A i, j \in DOMAIN es : i < j => es[i].attempt < es[j].attempt
Before(es, n) == \A i \in DOMAIN es : es[i].attempt < n
UpTo(es, n) == \A i \in DOMAIN es : es[i].attempt <= n

\* What BudgetRespected says of a row.
BudgetOK(r) ==
  /\ r.attempts <= r.max_attempts
  /\ r.status \in {"READY", "WAITING"} => r.attempts < r.max_attempts

\* What ErrorsTellAttempts says of one, and of an attempt that is running: the row
\* has no error of it yet.
ErrorsOK(r) ==
  /\ Ordered(r.errors)
  /\ UpTo(r.errors, r.attempts)
  /\ r.status \in {"RUNNING", "SUCCESSFUL"} => Before(r.errors, r.attempts)
  /\ r.status \in {"FAILED", "LOST"} =>
       /\ r.errors # <<>>
       /\ LastError(r).attempt = r.attempts
       /\ (LastError(r).kind = "abandoned") = (r.status = "LOST")

RowTold(r) ==
  /\ "revive" \notin CallerOps => BudgetOK(r)
  /\ SkipLocked => ErrorsOK(r)

\* A copy knows the budget of its epoch; one made where claims lock is of a row that
\* was RUNNING.
SameBudget(r, q) == r.lease_epoch = q.lease_epoch => r.max_attempts = q.max_attempts
CopyTold(c, q) ==
  /\ SameBudget(c, q)
  /\ SkipLocked => c.status = "RUNNING" /\ ErrorsOK(c)

Ledger ==
  /\ \A t \in Tasks : RowTold(row[t])
  /\ \A x \in execs \cup releases : CopyTold(x.row, row[x.task])
  /\ \A w \in Workers : main[w].at = "abandoning" =>
       \A c \in main[w].seen : CopyTold(c.row, row[c.task])
  /\ SkipLocked => \A w \in Workers : main[w].at \in {"idle", "abandoning"}

\* The numbers an error list names are numbers.
LEMMA ErrorTypes ==
  ASSUME NEW es \in Seq(Error)
  PROVE  /\ Len(es) \in Nat /\ DOMAIN es = 1 .. Len(es)
         /\ \A i \in DOMAIN es : es[i].attempt \in Nat
<1>1. Len(es) \in Nat /\ DOMAIN es = 1 .. Len(es) /\ \A i \in DOMAIN es : es[i] \in Error
  OBVIOUS
<1> QED
  BY <1>1 DEF Error

\* An attempt's error goes behind those of the attempts before it.
LEMMA AppendedError ==
  ASSUME NEW es \in Seq(Error), NEW n \in Nat, Ordered(es), Before(es, n),
         NEW e \in Error, e.attempt = n
  PROVE  /\ Ordered(Append(es, e)) /\ UpTo(Append(es, e), n)
         /\ Append(es, e) # <<>> /\ LastError([errors |-> Append(es, e)]) = e
<1> DEFINE fs == Append(es, e)
<1>1. /\ Len(es) \in Nat /\ DOMAIN es = 1 .. Len(es)
      /\ DOMAIN fs = 1 .. Len(es) + 1 /\ Len(fs) = Len(es) + 1
      /\ fs[Len(es) + 1] = e
      /\ \A i \in 1 .. Len(es) : fs[i] = es[i]
  OBVIOUS
<1>2. \A i \in DOMAIN es : es[i].attempt \in Nat /\ es[i].attempt < n
  BY ErrorTypes DEF Before
<1> HIDE DEF fs
<1>3. \A i \in DOMAIN fs : fs[i].attempt \in Nat /\ fs[i].attempt <= n
  BY <1>1, <1>2
<1>4. ASSUME NEW i \in DOMAIN fs, NEW j \in DOMAIN fs, i < j
      PROVE  fs[i].attempt < fs[j].attempt
  <2>1. i \in 1 .. Len(es) /\ fs[i] = es[i]
    BY <1>1, <1>4
  <2>2. CASE j = Len(es) + 1
    BY <1>1, <1>2, <2>1, <2>2
  <2>3. CASE j \in 1 .. Len(es)
    BY <1>1, <1>4, <2>1, <2>3 DEF Ordered
  <2> QED
    BY <1>1, <2>2, <2>3
<1>5. Ordered(fs) /\ UpTo(fs, n) /\ fs # <<>> /\ LastError([errors |-> fs]) = e
  BY <1>1, <1>3, <1>4 DEF Ordered, UpTo, LastError
<1> QED
  BY <1>5 DEF fs

\* The claim: one attempt more, with no error of its own.
LEMMA ClaimTold ==
  ASSUME NEW q, RowOK(q), RowTold(q), q.status = "READY",
         NEW c, c.attempts = q.attempts, c.lease_epoch = q.lease_epoch, NEW w
  PROVE  /\ RowTold(Claimed(q, c, w)) /\ SameBudget(q, Claimed(q, c, w))
         /\ Claimed(q, c, w).status = "RUNNING"
<1> DEFINE p == Claimed(q, c, w)
<1>1. q \in Row /\ q.attempts \in Nat /\ q.max_attempts \in Nat /\ q.lease_epoch \in Nat
  BY RowTypes DEF RowOK
<1> DEFINE n == q.attempts + 1
           e == q.lease_epoch + 1
           h == Append(c.worker_ids, w)
<1>2. p = [q EXCEPT !.status = "RUNNING", !.locked_by = w, !.lease = "held",
                    !.lease_epoch = e, !.attempts = n, !.worker_ids = h]
  BY DEF Claimed
<1> HIDE DEF p, n, e, h
<1>3. /\ p.status = "RUNNING" /\ p.attempts = n /\ p.lease_epoch = e
      /\ p.max_attempts = q.max_attempts /\ p.errors = q.errors
  BY <1>1, <1>2 DEF Row
<1>4. /\ p.status = "RUNNING" /\ p.attempts = q.attempts + 1
      /\ p.lease_epoch = q.lease_epoch + 1
      /\ p.max_attempts = q.max_attempts /\ p.errors = q.errors
  BY <1>3 DEF n, e
<1>5. BudgetOK(q) => BudgetOK(p)
  BY <1>1, <1>4 DEF BudgetOK
<1>6. ErrorsOK(q) => ErrorsOK(p)
  <2>1. \A i \in DOMAIN q.errors : q.errors[i].attempt \in Nat
    BY <1>1, RowTypes, ErrorTypes
  <2> QED
    BY <1>1, <1>4, <2>1 DEF ErrorsOK, UpTo, Before
<1>7. RowTold(p) /\ SameBudget(q, p) /\ p.status = "RUNNING"
  BY <1>1, <1>4, <1>5, <1>6 DEF RowTold, SameBudget
<1> QED
  BY <1>7 DEF p

\* The fenced write of an outcome, by the copy x of a claim.
LEMMA OutcomeTold ==
  ASSUME NEW q, RowOK(q), RowTold(q), q.status \in WRITABLE_STATUSES,
         NEW x, GrantedTo(x.row, x.worker), Follows(x.row, q),
         x.row.lease_epoch = q.lease_epoch, CopyTold(x.row, q)
  PROVE  /\ RowTold(Succeeded(q, x)) /\ SameBudget(q, Succeeded(q, x))
         /\ \A kind \in {"raised", "stuck"} : \A p \in FailureRows(q, x, kind) :
              /\ RowTold(p) /\ SameBudget(q, p)
              /\ RowTold([p EXCEPT !.lease_epoch = x.row.lease_epoch + 1])
              /\ SameBudget(q, [p EXCEPT !.lease_epoch = x.row.lease_epoch + 1])
<1>1. /\ q \in Row /\ x.row \in Row /\ q.attempts = x.row.attempts
      /\ x.row.max_attempts = q.max_attempts
      /\ q.attempts \in Nat /\ q.max_attempts \in Nat /\ q.lease_epoch \in Nat
      /\ x.row.errors \in Seq(Error)
  BY FencedRow, RowTypes DEF CopyTold, SameBudget
<1>2. SkipLocked => Ordered(x.row.errors) /\ Before(x.row.errors, q.attempts)
  BY <1>1 DEF CopyTold, ErrorsOK
<1>3. RowTold(Succeeded(q, x)) /\ SameBudget(q, Succeeded(q, x))
  <2> DEFINE p == Succeeded(q, x)
             v == <<x.worker, x.row.attempts>>
             es == x.row.errors
  <2>1. p = [q EXCEPT !.locked_by = NoWorker, !.lease = "none", !.status = "SUCCESSFUL",
                      !.return_value = v, !.errors = es]
    BY DEF Succeeded, Unlocked
  <2> HIDE DEF p, v, es
  <2>2. /\ p.status = "SUCCESSFUL" /\ p.attempts = q.attempts
        /\ p.lease_epoch = q.lease_epoch
        /\ p.max_attempts = q.max_attempts /\ p.errors = es
    BY <1>1, <2>1 DEF Row
  <2>3. /\ p.status = "SUCCESSFUL" /\ p.attempts = q.attempts
        /\ p.lease_epoch = q.lease_epoch
        /\ p.max_attempts = q.max_attempts /\ p.errors = x.row.errors
    BY <2>2 DEF es
  <2>4. BudgetOK(q) => BudgetOK(p)
    BY <2>3 DEF BudgetOK
  <2>5. SkipLocked => ErrorsOK(p)
    <3>1. \A i \in DOMAIN x.row.errors : x.row.errors[i].attempt \in Nat
      BY <1>1, ErrorTypes
    <3> QED
      BY <1>1, <1>2, <2>3, <3>1 DEF ErrorsOK, UpTo, Before
  <2>6. RowTold(p) /\ SameBudget(q, p)
    BY <2>3, <2>4, <2>5 DEF RowTold, SameBudget
  <2> QED
    BY <2>6 DEF p
<1>4. ASSUME NEW kind \in {"raised", "stuck"}, NEW p \in FailureRows(q, x, kind)
      PROVE  /\ RowTold(p) /\ SameBudget(q, p)
             /\ RowTold([p EXCEPT !.lease_epoch = x.row.lease_epoch + 1])
             /\ SameBudget(q, [p EXCEPT !.lease_epoch = x.row.lease_epoch + 1])
  <2> DEFINE n == x.row.attempts
             e == [kind |-> kind, attempt |-> n]
             es == Append(x.row.errors, e)
             m == x.row.lease_epoch + 1
             o == [p EXCEPT !.lease_epoch = m]
  <2>1. \/ /\ p = [q EXCEPT !.locked_by = NoWorker, !.lease = "none", !.errors = es,
                            !.status = "READY", !.due = FALSE]
           /\ x.row.attempts < x.row.max_attempts
        \/ p = [q EXCEPT !.locked_by = NoWorker, !.lease = "none", !.errors = es,
                         !.status = "FAILED"]
    BY DEF FailureRows, WithError, Unlocked
  <2>2. e \in Error /\ e.attempt = n /\ e.kind = kind /\ n \in Nat
    BY <1>1 DEF Error
  <2> HIDE DEF e
  <2>3. SkipLocked => /\ Ordered(es) /\ UpTo(es, n) /\ es # <<>>
                      /\ es[Len(es)].attempt = n /\ es[Len(es)].kind = kind
    BY <1>1, <1>2, <2>2, AppendedError DEF LastError
  <2> HIDE DEF es, m
  <2>4. /\ p.attempts = q.attempts /\ p.lease_epoch = q.lease_epoch
        /\ p.max_attempts = q.max_attempts /\ p.errors = es
        /\ \/ p.status = "READY" /\ q.attempts < q.max_attempts
           \/ p.status = "FAILED"
    BY <1>1, <2>1 DEF Row
  <2>5. /\ o.attempts = q.attempts /\ o.lease_epoch = m
        /\ o.max_attempts = q.max_attempts /\ o.errors = es /\ o.status = p.status
    BY <1>1, <2>1 DEF Row
  <2>6. /\ o.attempts = q.attempts /\ o.lease_epoch = q.lease_epoch + 1
        /\ o.max_attempts = q.max_attempts /\ o.errors = es /\ o.status = p.status
    BY <2>5 DEF m
  <2> HIDE DEF o
  <2>7. BudgetOK(q) => BudgetOK(p) /\ BudgetOK(o)
    BY <2>4, <2>6 DEF BudgetOK
  <2>8. SkipLocked => ErrorsOK(p) /\ ErrorsOK(o)
    BY <1>1, <2>3, <2>4, <2>6 DEF ErrorsOK, LastError
  <2>9. RowTold(p) /\ SameBudget(q, p) /\ RowTold(o) /\ SameBudget(q, o)
    BY <1>1, <2>4, <2>6, <2>7, <2>8 DEF RowTold, SameBudget
  <2> QED
    BY <2>9 DEF o, m
<1> QED
  BY <1>3, <1>4

\* The reaper's writes, the second from the copy c.
LEMMA ReapTold ==
  ASSUME NEW q, RowOK(q), RowTold(q), q.status = "RUNNING"
  PROVE  /\ q.attempts < q.max_attempts => RowTold(Requeued(q))
         /\ SameBudget(q, Requeued(q))
         /\ \A c \in Row : Follows(c, q) /\ c.lease_epoch = q.lease_epoch /\ CopyTold(c, q) =>
              RowTold(Abandoned(q, c)) /\ SameBudget(q, Abandoned(q, c))
<1>1. q \in Row /\ q.attempts \in Nat /\ q.max_attempts \in Nat /\ q.lease_epoch \in Nat
  BY RowTypes DEF RowOK
<1>2. (q.attempts < q.max_attempts => RowTold(Requeued(q))) /\ SameBudget(q, Requeued(q))
  <2> DEFINE p == Requeued(q)
             e == q.lease_epoch + 1
  <2>1. p = [q EXCEPT !.locked_by = NoWorker, !.lease = "none", !.status = "READY",
                      !.lease_epoch = e]
    BY <1>1 DEF Requeued, Unlocked, Row
  <2> HIDE DEF p, e
  <2>2. /\ p.status = "READY" /\ p.attempts = q.attempts /\ p.lease_epoch = e
        /\ p.max_attempts = q.max_attempts /\ p.errors = q.errors
    BY <1>1, <2>1 DEF Row
  <2>3. /\ p.status = "READY" /\ p.attempts = q.attempts
        /\ p.lease_epoch = q.lease_epoch + 1
        /\ p.max_attempts = q.max_attempts /\ p.errors = q.errors
    BY <2>2 DEF e
  <2>4. q.attempts < q.max_attempts => BudgetOK(p)
    BY <1>1, <2>3 DEF BudgetOK
  <2>5. ErrorsOK(q) => ErrorsOK(p)
    BY <2>3 DEF ErrorsOK
  <2>6. (q.attempts < q.max_attempts => RowTold(p)) /\ SameBudget(q, p)
    BY <1>1, <2>3, <2>4, <2>5 DEF RowTold, SameBudget
  <2> QED
    BY <2>6 DEF p
<1>3. ASSUME NEW c \in Row, Follows(c, q), c.lease_epoch = q.lease_epoch, CopyTold(c, q)
      PROVE  RowTold(Abandoned(q, c)) /\ SameBudget(q, Abandoned(q, c))
  <2> DEFINE p == Abandoned(q, c)
             e == [kind |-> "abandoned", attempt |-> c.attempts]
             es == Append(c.errors, e)
  <2>1. c.attempts = q.attempts /\ c.errors \in Seq(Error)
    BY <1>3, RowTypes DEF Follows
  <2>2. e \in Error /\ e.attempt = q.attempts /\ e.kind = "abandoned"
    BY <1>1, <2>1 DEF Error
  <2>3. p = [q EXCEPT !.locked_by = NoWorker, !.lease = "none", !.status = "LOST",
                      !.errors = es]
    BY DEF Abandoned, Unlocked
  <2> HIDE DEF p, e
  <2>4. SkipLocked => /\ Ordered(es) /\ UpTo(es, q.attempts) /\ es # <<>>
                      /\ es[Len(es)].attempt = q.attempts /\ es[Len(es)].kind = "abandoned"
    BY <1>1, <1>3, <2>1, <2>2, AppendedError DEF CopyTold, ErrorsOK, LastError
  <2> HIDE DEF es
  <2>5. /\ p.status = "LOST" /\ p.attempts = q.attempts /\ p.lease_epoch = q.lease_epoch
        /\ p.max_attempts = q.max_attempts /\ p.errors = es
    BY <1>1, <2>3 DEF Row
  <2>6. BudgetOK(q) => BudgetOK(p)
    BY <2>5 DEF BudgetOK
  <2>7. SkipLocked => ErrorsOK(p)
    BY <2>4, <2>5 DEF ErrorsOK, LastError
  <2>8. RowTold(p) /\ SameBudget(q, p)
    BY <2>5, <2>6, <2>7 DEF RowTold, SameBudget
  <2> QED
    BY <2>8 DEF p
<1> QED
  BY <1>2, <1>3

\* An operation of a caller whose decision is of the row's epoch, so of its attempts.
LEMMA MovedTold ==
  ASSUME NEW q, RowOK(q), RowTold(q), NEW op \in CallerOps, Applies(op, q)
  PROVE  LET p == Moved(op, q, q.lease_epoch, q.attempts)
         IN  RowTold(p) /\ SameBudget(q, p)
<1> DEFINE p == Moved(op, q, q.lease_epoch, q.attempts)
<1>1. q \in Row /\ q.attempts \in Nat /\ q.max_attempts \in Nat /\ q.lease_epoch \in Nat
  BY RowTypes DEF RowOK
<1>2. /\ p.attempts = q.attempts /\ p.errors = q.errors
      /\ \/ /\ p.status = "READY" /\ p.max_attempts = q.attempts + 1
            /\ p.lease_epoch = q.lease_epoch + 1
         \/ p.status = "DISCARDED" /\ p.max_attempts = q.max_attempts
         \/ p.status = "READY" /\ q.status = "WAITING" /\ p.max_attempts = q.max_attempts
         \/ p.status = "WAITING" /\ op = "revive" /\ p.max_attempts = q.max_attempts
  <2>1. op \in Ops
    BY LeaseAssumption
  <2> QED
    BY <1>1, <2>1
    DEF Ops, Applies, Accepts, Moved, Retried, Discarded, Released, Revived, Unlocked, Row
<1> HIDE DEF p
<1>3. op # "revive" /\ BudgetOK(q) => BudgetOK(p)
  BY <1>1, <1>2 DEF BudgetOK
<1>4. ErrorsOK(q) => ErrorsOK(p)
  BY <1>2 DEF ErrorsOK
<1>5. RowTold(p) /\ SameBudget(q, p)
  BY <1>1, <1>2, <1>3, <1>4 DEF RowTold, SameBudget
<1> QED
  BY <1>5 DEF p

\* A statement that moves no column of the ledger.
LEMMA TimedTold ==
  ASSUME NEW q \in Row, RowTold(q), NEW l
  PROVE  /\ RowTold(q) /\ SameBudget(q, q)
         /\ RowTold([q EXCEPT !.due = TRUE]) /\ SameBudget(q, [q EXCEPT !.due = TRUE])
         /\ RowTold([q EXCEPT !.lease = l]) /\ SameBudget(q, [q EXCEPT !.lease = l])
<1>1. ASSUME NEW p, p.status = q.status, p.attempts = q.attempts,
             p.max_attempts = q.max_attempts, p.lease_epoch = q.lease_epoch,
             p.errors = q.errors
      PROVE  RowTold(p) /\ SameBudget(q, p)
  BY <1>1 DEF RowTold, BudgetOK, ErrorsOK, SameBudget, LastError
<1>2. RowTold([q EXCEPT !.due = TRUE]) /\ SameBudget(q, [q EXCEPT !.due = TRUE])
  <2> DEFINE p == [q EXCEPT !.due = TRUE]
  <2>1. /\ p.status = q.status /\ p.attempts = q.attempts
        /\ p.max_attempts = q.max_attempts /\ p.lease_epoch = q.lease_epoch
        /\ p.errors = q.errors
    BY DEF Row
  <2> HIDE DEF p
  <2>2. RowTold(p) /\ SameBudget(q, p)
    BY <1>1, <2>1
  <2> QED
    BY <2>2 DEF p
<1>3. RowTold([q EXCEPT !.lease = l]) /\ SameBudget(q, [q EXCEPT !.lease = l])
  <2> DEFINE p == [q EXCEPT !.lease = l]
  <2>1. /\ p.status = q.status /\ p.attempts = q.attempts
        /\ p.max_attempts = q.max_attempts /\ p.lease_epoch = q.lease_epoch
        /\ p.errors = q.errors
    BY DEF Row
  <2> HIDE DEF p
  <2>2. RowTold(p) /\ SameBudget(q, p)
    BY <1>1, <2>1
  <2> QED
    BY <2>2 DEF p
<1> QED
  BY <1>2, <1>3 DEF SameBudget

RowsTold == \A t \in Tasks : RowTold(row'[t]) /\ SameBudget(row[t], row'[t])

\* A step that writes one row.
LEMMA OneRowTold ==
  ASSUME row \in [Tasks -> Row], \A t \in Tasks : RowTold(row[t]), NEW t \in Tasks, NEW q,
         row' = [row EXCEPT ![t] = q], RowTold(q), SameBudget(row[t], q)
  PROVE  RowsTold
<1>1. ASSUME NEW u \in Tasks
      PROVE  RowTold(row'[u]) /\ SameBudget(row[u], row'[u])
  <2>1. SameBudget(row[u], row[u])
    BY DEF SameBudget
  <2> QED
    BY <2>1
<1> QED
  BY <1>1 DEF RowsTold

\* Every step keeps the ledger of every row.
LEMMA TableTold ==
  ASSUME IInv, Ledger, DecisionsFollowed, [Next]_vars
  PROVE  RowsTold
<1>1. /\ row \in [Tasks -> Row]
      /\ \A t \in Tasks : row[t] \in Row /\ RowOK(row[t]) /\ RowTold(row[t])
      /\ \A x \in execs \cup releases : Granted(x) /\ CopyTold(x.row, row[x.task])
                                        /\ x.task \in Tasks
      /\ \A w \in Workers : \A c \in main[w].seen :
           c.task \in Tasks /\ c.row \in Row /\ Follows(c.row, row[c.task])
  BY DEF IInv, TypeOK, RowsOK, Ledger, Execution, Release, Loop, Snapshot, SeenFollowed
<1>2. CASE row' = row
  BY <1>1, <1>2 DEF RowsTold, SameBudget
<1>3. ASSUME NEW w \in Workers, NEW t \in Tasks, ClaimLocked(w, t)
      PROVE  RowsTold
  BY <1>1, <1>3, ClaimTold, OneRowTold DEF ClaimLocked, Claimable
<1>4. ASSUME NEW w \in Workers, NEW c \in main[w].seen, TryCandidate(w, c)
      PROVE  RowsTold
  <2>1. CASE StillAsRead(c)
    <3>1. LET p == Claimed(row[c.task], c.row, w)
          IN  RowTold(p) /\ SameBudget(row[c.task], p)
      BY <1>1, <2>1, ClaimTold DEF StillAsRead
    <3>2. row' = [row EXCEPT ![c.task] = Claimed(row[c.task], c.row, w)]
      BY <1>4, <2>1 DEF TryCandidate
    <3> QED
      BY <1>1, <3>1, <3>2, OneRowTold
  <2> QED
    BY <1>2, <1>4, <2>1 DEF TryCandidate
<1>5. ASSUME NEW x \in execs, Succeed(x)
      PROVE  RowsTold
  <2>1. CASE HoldsTheLease(x)
    <3>1. LET p == Succeeded(row[x.task], x)
          IN  RowTold(p) /\ SameBudget(row[x.task], p)
      BY <1>1, <2>1, OutcomeTold DEF HoldsTheLease, Granted
    <3>2. row' = [row EXCEPT ![x.task] = Succeeded(row[x.task], x)]
      BY <1>5, <2>1 DEF Succeed, WriteOutcome
    <3> QED
      BY <1>1, <3>1, <3>2, OneRowTold
  <2> QED
    BY <1>2, <1>5, <2>1 DEF Succeed, WriteOutcome
<1>6. ASSUME NEW x \in execs, Fail(x)
      PROVE  RowsTold
  <2>1. PICK p \in FailureRows(row[x.task], x, "raised") : WriteOutcome(x, p)
    BY <1>6 DEF Fail
  <2>2. CASE HoldsTheLease(x)
    <3>1. RowTold(p) /\ SameBudget(row[x.task], p)
      BY <1>1, <2>2, OutcomeTold DEF HoldsTheLease, Granted
    <3>2. row' = [row EXCEPT ![x.task] = p]
      BY <2>1, <2>2 DEF WriteOutcome
    <3> QED
      BY <1>1, <3>1, <3>2, OneRowTold
  <2> QED
    BY <1>2, <2>1, <2>2 DEF WriteOutcome
<1>7. ASSUME NEW x \in releases, RecordStuck(x)
      PROVE  RowsTold
  <2>1. CASE \E p \in FailureRows(row[x.task], x, "stuck") :
               /\ HoldsTheLease(x)
               /\ row' = [row EXCEPT ![x.task] =
                            [p EXCEPT !.lease_epoch = x.row.lease_epoch + 1]]
    <3>1. PICK p \in FailureRows(row[x.task], x, "stuck") :
               row' = [row EXCEPT ![x.task] =
                         [p EXCEPT !.lease_epoch = x.row.lease_epoch + 1]]
      BY <2>1
    <3> DEFINE o == [p EXCEPT !.lease_epoch = x.row.lease_epoch + 1]
    <3>2. RowTold(o) /\ SameBudget(row[x.task], o)
      BY <1>1, <2>1, OutcomeTold DEF HoldsTheLease, Granted
    <3>3. row' = [row EXCEPT ![x.task] = o]
      BY <3>1
    <3> HIDE DEF o
    <3> QED
      BY <1>1, <3>2, <3>3, OneRowTold
  <2> QED
    BY <1>2, <1>7, <2>1 DEF RecordStuck, WriteOutcome
<1>8. ASSUME NEW t \in Tasks, LeaseExpires(t) \/ BecomesDue(t) \/ ExpireLease(t)
      PROVE  RowsTold
  <2>1. CASE LeaseExpires(t) \/ ExpireLease(t)
    <3>1. row' = [row EXCEPT ![t] = [row[t] EXCEPT !.lease = "expired"]]
      BY <1>1, <2>1 DEF LeaseExpires, ExpireLease, Row
    <3> QED
      BY <1>1, <3>1, TimedTold, OneRowTold
  <2>2. CASE BecomesDue(t)
    <3>1. row' = [row EXCEPT ![t] = [row[t] EXCEPT !.due = TRUE]]
      BY <1>1, <2>2 DEF BecomesDue, Row
    <3> QED
      BY <1>1, <3>1, TimedTold, OneRowTold
  <2> QED
    BY <1>8, <2>1, <2>2
<1>9. ASSUME NEW w \in Workers, Renew(w)
      PROVE  RowsTold
  <2>1. ASSUME NEW t \in Tasks
        PROVE  row'[t] = row[t] \/ row'[t] = [row[t] EXCEPT !.lease = "held"]
    BY <1>9 DEF Renew
  <2>2. ASSUME NEW t \in Tasks
        PROVE  LET p == [row[t] EXCEPT !.lease = "held"]
               IN  RowTold(p) /\ SameBudget(row[t], p)
    BY <1>1, TimedTold
  <2> QED
    BY <1>1, <2>1, <2>2 DEF RowsTold, SameBudget
<1>10. ASSUME NEW w \in Workers, RequeueAbandoned(w)
      PROVE  RowsTold
  <2>1. ASSUME NEW t \in Tasks
        PROVE  \/ row'[t] = row[t]
               \/ /\ row'[t] = Requeued(row[t]) /\ row[t].status = "RUNNING"
                  /\ row[t].attempts < row[t].max_attempts
    BY <1>10 DEF RequeueAbandoned, LeaseAbandoned
  <2> QED
    BY <1>1, <2>1, ReapTold DEF RowsTold, SameBudget
<1>11. ASSUME NEW w \in Workers, NEW c \in main[w].seen, AbandonExhausted(w, c)
       PROVE  RowsTold
  <2>1. CASE /\ LeaseAbandoned(c.task) /\ row[c.task].lease_epoch = c.row.lease_epoch
             /\ row' = [row EXCEPT ![c.task] = Abandoned(row[c.task], c.row)]
    <3>1. CopyTold(c.row, row[c.task])
      BY <1>11 DEF Ledger, AbandonExhausted
    <3>2. LET p == Abandoned(row[c.task], c.row)
          IN  RowTold(p) /\ SameBudget(row[c.task], p)
      BY <1>1, <2>1, <3>1, ReapTold DEF LeaseAbandoned
    <3> QED
      BY <1>1, <2>1, <3>2, OneRowTold
  <2> QED
    BY <1>2, <1>11, <2>1 DEF AbandonExhausted
<1>12. ASSUME NEW c \in Callers, Apply(c)
       PROVE  RowsTold
  <2> DEFINE d == calls[c]
  <2>1. CASE /\ Matches(d)
             /\ row' = [row EXCEPT ![d.task] = Moved(d.op, row[d.task], d.epoch, d.attempts)]
    <3>1. d.op \in CallerOps /\ d.task \in Tasks
      BY <1>12 DEF IInv, TypeOK, Apply, Call, NoCall
    <3>2. d.epoch = row[d.task].lease_epoch /\ d.attempts = row[d.task].attempts
      BY <1>12, <2>1 DEF Matches, DecisionsFollowed, Decided, Apply
    <3>3. LET p == Moved(d.op, row[d.task], d.epoch, d.attempts)
          IN  RowTold(p) /\ SameBudget(row[d.task], p)
      BY <1>1, <2>1, <3>1, <3>2, MovedTold DEF Matches
    <3> QED
      BY <1>1, <2>1, <3>1, <3>3, OneRowTold
  <2> QED
    BY <1>2, <1>12, <2>1 DEF Apply
<1>13. ASSUME NEW op, NEW S, MoveMany(op, S)
       PROVE  RowsTold
  <2>1. ASSUME NEW t \in Tasks
        PROVE  \/ row'[t] = row[t]
               \/ /\ Applies(op, row[t]) /\ op \in CallerOps
                  /\ row'[t] = Moved(op, row[t], row[t].lease_epoch, row[t].attempts)
    BY <1>13 DEF MoveMany
  <2> QED
    BY <1>1, <2>1, MovedTold, TimedTold DEF RowsTold
<1>14. ASSUME NEW x \in execs, ExecutionStep(x)
       PROVE  RowsTold
  BY <1>2, <1>5, <1>6, <1>14 DEF ExecutionStep, StartExecution, EndUnrecorded, GraceEnds
<1>15. ASSUME NEW w \in Workers, LoopStep(w) \/ Renew(w) \/ Crash(w)
       PROVE  RowsTold
  BY <1>2, <1>3, <1>4, <1>9, <1>10, <1>11, <1>15
  DEF LoopStep, ReadCandidates, ReloadClaimed, ReadExhausted, Crash
<1>16. ASSUME NEW c \in Callers, CallerStep(c)
       PROVE  RowsTold
  BY <1>2, <1>12, <1>16 DEF CallerStep, Decide
<1> QED
  BY <1>2, <1>7, <1>8, <1>13, <1>14, <1>15, <1>16 DEF Next, vars

\* A copy keeps its epoch's budget.
LEMMA CopyStaysTold ==
  ASSUME NEW c \in Row, NEW r \in Row, NEW q \in Row, CopyTold(c, r),
         Follows(c, r), Follows(r, q), SameBudget(r, q)
  PROVE  CopyTold(c, q)
<1>1. c.lease_epoch \in Nat /\ r.lease_epoch \in Nat /\ q.lease_epoch \in Nat
  BY RowTypes
<1>2. SameBudget(c, q)
  BY <1>1 DEF CopyTold, SameBudget, Follows
<1> QED
  BY <1>2 DEF CopyTold

\* So the executions after a step.
LEMMA CopiesStayTold ==
  ASSUME IInv, Ledger, RowsMove, RowsTold, [Next]_vars
  PROVE  \A x \in execs' \cup releases' : CopyTold(x.row, row'[x.task])
<1>1. /\ \A t \in Tasks : /\ row[t] \in Row /\ row'[t] \in Row /\ Follows(row[t], row'[t])
                          /\ SameBudget(row[t], row'[t]) /\ RowTold(row'[t])
      /\ \A x \in execs \cup releases :
           /\ x.task \in Tasks /\ x.row \in Row /\ Follows(x.row, row[x.task])
           /\ CopyTold(x.row, row[x.task])
  BY DEF IInv, TypeOK, RowsOK, RowOK, RowsMove, Move, RowsTold, Ledger, Granted, GrantedTo,
         Execution, Release
<1>2. \A x \in execs \cup releases : CopyTold(x.row, row'[x.task])
  BY <1>1, CopyStaysTold
<1>3. ASSUME NEW t \in Tasks, row'[t].status = "RUNNING" \/ ~SkipLocked
      PROVE  CopyTold(row'[t], row'[t])
  BY <1>1, <1>3 DEF CopyTold, SameBudget, RowTold
<1>4. CASE execs' \subseteq execs /\ releases' \subseteq releases
  BY <1>2, <1>4
<1>5. ASSUME NEW w \in Workers, NEW t \in Tasks, ClaimLocked(w, t)
      PROVE  \A x \in execs' \cup releases' : CopyTold(x.row, row'[x.task])
  <2>1. row \in [Tasks -> Row] /\ RowOK(row[t]) /\ RowTold(row[t]) /\ row[t].status = "READY"
    BY <1>5 DEF IInv, TypeOK, RowsOK, Ledger, ClaimLocked, Claimable
  <2>2. row'[t] = Claimed(row[t], row[t], w)
    BY <1>5, <2>1 DEF ClaimLocked
  <2>3. CopyTold(row'[t], row'[t])
    BY <1>3, <2>1, <2>2, ClaimTold
  <2>4. execs' = execs \cup {HandedOff(t, w, row'[t])} /\ releases' = releases
    BY <1>5, <2>2 DEF ClaimLocked
  <2> QED
    BY <1>2, <2>3, <2>4 DEF HandedOff
<1>6. ASSUME NEW w \in Workers, ReloadClaimed(w)
      PROVE  \A x \in execs' \cup releases' : CopyTold(x.row, row'[x.task])
  <2> DEFINE t == main[w].granted[1]
  <2>1. ~SkipLocked /\ row' = row /\ releases' = releases
    BY <1>6 DEF Ledger, ReloadClaimed
  <2>2. t \in Tasks
    BY <1>6 DEF IInv, ReloadOK, ReloadClaimed
  <2>3. execs' = execs \/ execs' = execs \cup {HandedOff(t, w, row[t])}
    BY <1>6 DEF ReloadClaimed
  <2> HIDE DEF t
  <2>4. CopyTold(row'[t], row'[t])
    BY <1>3, <2>1, <2>2
  <2> QED
    BY <1>2, <2>1, <2>3, <2>4 DEF HandedOff
<1>7. ASSUME NEW x \in execs, ExecutionStep(x)
      PROVE  \A y \in execs' \cup releases' : CopyTold(y.row, row'[y.task])
  <2>1. ASSUME NEW y \in execs' \cup releases'
        PROVE  \/ y \in execs \cup releases
               \/ y.task = x.task /\ y.row = x.row
    <3>1. x \in Execution
      BY DEF IInv, TypeOK
    <3> QED
      BY <1>7, <2>1, <3>1
      DEF ExecutionStep, StartExecution, Succeed, Fail, EndUnrecorded, GraceEnds, Execution
  <2> QED
    BY <1>2, <2>1
<1>8. ASSUME NEW w \in Workers, LoopStep(w) \/ Renew(w) \/ Crash(w)
      PROVE  \A x \in execs' \cup releases' : CopyTold(x.row, row'[x.task])
  BY <1>4, <1>5, <1>6, <1>8
  DEF LoopStep, ReadCandidates, TryCandidate, RequeueAbandoned, ReadExhausted,
      AbandonExhausted, Renew, Crash
<1> QED
  BY <1>4, <1>7, <1>8
  DEF Next, vars, RecordStuck, LeaseExpires, BecomesDue, ExpireLease, CallerStep, Apply,
      Decide, MoveMany

\* And what the run loops hold.
LEMMA LoopsStayTold ==
  ASSUME IInv, Ledger, RowsMove, RowsTold, [Next]_vars, NEW v \in Workers
  PROVE  /\ main'[v].at = "abandoning" =>
              \A c \in main'[v].seen : CopyTold(c.row, row'[c.task])
         /\ SkipLocked => main'[v].at \in {"idle", "abandoning"}
<1> DEFINE Goal == /\ main'[v].at = "abandoning" =>
                        \A c \in main'[v].seen : CopyTold(c.row, row'[c.task])
                   /\ SkipLocked => main'[v].at \in {"idle", "abandoning"}
<1>1. /\ main \in [Workers -> Loop]
      /\ \A t \in Tasks : /\ row[t] \in Row /\ row'[t] \in Row /\ Follows(row[t], row'[t])
                          /\ SameBudget(row[t], row'[t]) /\ RowTold(row[t])
      /\ \A c \in main[v].seen : c.task \in Tasks /\ c.row \in Row
                                 /\ Follows(c.row, row[c.task])
      /\ main[v].at = "abandoning" => \A c \in main[v].seen : CopyTold(c.row, row[c.task])
      /\ SkipLocked => main[v].at \in {"idle", "abandoning"}
  <2>1. /\ main \in [Workers -> Loop]
        /\ \A c \in main[v].seen : c.task \in Tasks /\ c.row \in Row
                                   /\ Follows(c.row, row[c.task])
    BY DEF IInv, TypeOK, Loop, Snapshot, SeenFollowed
  <2>2. \A t \in Tasks : /\ row[t] \in Row /\ row'[t] \in Row /\ Follows(row[t], row'[t])
                         /\ SameBudget(row[t], row'[t]) /\ RowTold(row[t])
    BY DEF IInv, RowsOK, RowOK, RowsMove, Move, RowsTold, Ledger
  <2> QED
    BY <2>1, <2>2 DEF Ledger
<1>2. main[v].at = "abandoning" => \A c \in main[v].seen : CopyTold(c.row, row'[c.task])
  BY <1>1, CopyStaysTold
<1>3. CASE main'[v] = main[v]
  BY <1>1, <1>2, <1>3
<1>4. CASE main'[v] = Idle
  BY <1>4 DEF Idle
<1>5. CASE \E S \in SUBSET main[v].seen :
             main'[v] = Abandoning(S) /\ main[v].at = "abandoning"
  BY <1>2, <1>5 DEF Abandoning
<1>6. CASE ~SkipLocked /\ main'[v].at # "abandoning"
  BY <1>6
<1>7. CASE ReadExhausted(v)
  <2>1. PICK S \in SUBSET Tasks :
          /\ \A t \in S : row[t].status = "RUNNING"
          /\ main' = [main EXCEPT ![v] = Abandoning({[task |-> t, row |-> row[t]] : t \in S})]
    BY <1>7 DEF ReadExhausted, FirstOf, LeaseAbandoned
  <2>2. row' = row
    BY <1>7 DEF ReadExhausted
  <2>3. \A t \in S : CopyTold(row[t], row'[t])
    BY <1>1, <2>1, <2>2 DEF CopyTold, SameBudget, RowTold
  <2>4. main'[v] = Abandoning({[task |-> t, row |-> row[t]] : t \in S})
    BY <1>1, <2>1
  <2> QED
    BY <2>3, <2>4 DEF Abandoning
<1>8. CASE LoopStep(v)
  <2>1. CASE ReadCandidates(v)
    BY <1>1, <1>6, <2>1 DEF ReadCandidates, Claiming
  <2>2. CASE \E c \in main[v].seen : TryCandidate(v, c)
    BY <1>1, <1>6, <2>2 DEF TryCandidate, Carry, Idle, Claiming, Reloading
  <2>3. CASE ReloadClaimed(v)
    BY <1>1, <1>6, <2>3 DEF ReloadClaimed, Carry, Idle, Claiming
  <2>4. CASE \E c \in main[v].seen : AbandonExhausted(v, c)
    BY <1>1, <1>4, <1>5, <2>4 DEF AbandonExhausted
  <2> QED
    BY <1>3, <1>7, <1>8, <2>1, <2>2, <2>3, <2>4
    DEF LoopStep, ClaimLocked, RequeueAbandoned
<1>9. ASSUME NEW w \in Workers, LoopStep(w) \/ Renew(w) \/ Crash(w)
      PROVE  Goal
  <2>1. CASE w # v
    <3>1. main'[v] = main[v]
      BY <1>1, <1>9, <2>1
      DEF LoopStep, ClaimLocked, ReadCandidates, TryCandidate, ReloadClaimed,
          RequeueAbandoned, ReadExhausted, AbandonExhausted, Renew, Crash
    <3> QED
      BY <1>3, <3>1
  <2>2. CASE w = v
    BY <1>1, <1>3, <1>4, <1>8, <1>9, <2>2 DEF Renew, Crash
  <2> QED
    BY <2>1, <2>2
<1> QED
  BY <1>3, <1>9
  DEF Next, vars, ExecutionStep, StartExecution, Succeed, Fail, EndUnrecorded, GraceEnds,
      RecordStuck, LeaseExpires, BecomesDue, ExpireLease, CallerStep, Apply, Decide, MoveMany

\* The ledger is kept, in every reachable state.
LEMMA LedgerKept == Spec => [](IInv /\ DecisionsFollowed /\ Ledger)
<1>1. Init => IInv /\ DecisionsFollowed /\ Ledger
  <2> SUFFICES ASSUME Init
               PROVE  IInv /\ DecisionsFollowed /\ Ledger
    OBVIOUS
  <2>1. ASSUME NEW b \in Nat \ {0}, NEW s \in {"READY", "WAITING"}
        PROVE  RowTold(Inserted(b, s))
    BY <2>1 DEF Inserted, RowTold, BudgetOK, ErrorsOK, Ordered, UpTo, Before
  <2>2. \A t \in Tasks : RowTold(row[t])
    <3>1. PICK budget \in [Tasks -> Budgets], status \in [Tasks -> {"READY", "WAITING"}] :
            row = [t \in Tasks |-> Inserted(budget[t], status[t])]
      BY DEF Init
    <3>2. \A t \in Tasks : budget[t] \in Nat \ {0} /\ status[t] \in {"READY", "WAITING"}
      BY LeaseAssumption
    <3> QED
      BY <2>1, <3>1, <3>2
  <2> QED
    BY <2>2, InitIInv DEF Init, Ledger, DecisionsFollowed, Idle
<1>2. IInv /\ DecisionsFollowed /\ Ledger /\ [Next]_vars
        => (IInv /\ DecisionsFollowed /\ Ledger)'
  <2> SUFFICES ASSUME IInv, DecisionsFollowed, Ledger, [Next]_vars
               PROVE  (IInv /\ DecisionsFollowed /\ Ledger)'
    OBVIOUS
  <2>1. RowsMove /\ RowsTold
    BY TableStep, TableTold
  <2>2. Ledger'
    BY <2>1, CopiesStayTold, LoopsStayTold DEF Ledger, RowsTold
  <2> QED
    BY <2>2, NextIInv, DecisionsFollowedStep
<1> QED
  BY <1>1, <1>2, PTL DEF Spec

\* A row is never claimed more often than its budget allows, unless a revival may
\* have reopened a spent one.
THEOREM BudgetsAreRespected == Spec => []BudgetRespected
<1>1. Ledger => BudgetRespected
  BY DEF Ledger, RowTold, BudgetOK, BudgetRespected
<1> QED
  BY <1>1, LedgerKept, PTL

\* Where claims lock the row they read, the errors of a row tell its attempts in
\* their order, and the last of them how a FAILED or a LOST one ended.
THEOREM ErrorsDoTell == ASSUME SkipLocked PROVE Spec => []ErrorsTellAttempts
<1>1. IInv /\ Ledger => ErrorsTellAttempts
  BY DEF Ledger, RowTold, ErrorsOK, Ordered, UpTo, Before, ErrorsTellAttempts
<1> QED
  BY <1>1, LedgerKept, PTL
=============================================================================
