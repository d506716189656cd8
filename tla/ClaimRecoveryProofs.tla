------------------------- MODULE ClaimRecoveryProofs -------------------------
(***************************************************************************)
(* The recovery of claims that raised, proved for any tasks, threads and   *)
(* bounds.  The look knows a claim by a pair (pk, epoch) that it read and  *)
(* holds no lock on.  Three facts carry the proof: a row that has left a   *)
(* claim never comes back to it, for a later claim has a later epoch; a    *)
(* transaction's block is one epoch ahead of the row it locks, so what the *)
(* table says of the row says nothing of the block's claim; and a look     *)
(* whose generation has not moved has had no claim in flight at all.       *)
(*                                                                         *)
(* And the renewal of leases, as a part of what a worker does.  A lease,   *)
(* and safe_until, run down by what the misses since one renewed took:     *)
(* an interval for each, and the time of the tick in progress.             *)
(*                                                                         *)
(* And pruning.  A tick that comes to read is outlived already: a dispatch *)
(* waits for a newest that reads, and repairs go from the newest down.  So *)
(* what a prune read beside the anchor it looked up stays outlived, and    *)
(* one that is not the schedule's newest has a newer one that reads.       *)
(***************************************************************************)
EXTENDS MCWorkerParts, Integers, FiniteSetTheorems, SequenceTheorems, TLAPS

Sets == handed_off \cup in_flight \cup unsettled

Running(r) == r.status = "RUNNING" /\ r.owner = Me

\* What is true of a row, of the table or in a block.
RowOK(r) ==
  /\ r \in Row
  /\ Len(r.history) = r.attempts
  /\ r.status = "RUNNING" => r.attempts # 0 /\ r.owner = r.history[r.attempts]

\* An open transaction: it holds the one claim that was made in it, a step ahead of
\* the row, which nobody else moves.
BlockOK(p) ==
  block[p] # NoBlock =>
    LET t == block[p].task
        r == block[p].row
    IN  /\ p \in Inline /\ t \in Tasks
        /\ row[t].status = "READY"
        /\ r.epoch = row[t].epoch + 1
        /\ r.attempts = row[t].attempts + 1
        /\ RowOK(r)
        /\ Running(r) => \/ <<t, r.epoch>> \in Sets
                         \/ claim[p].at = "landed" /\ claim[p].of = <<t, r.epoch>>
        /\ \A q \in Threads : block[q] # NoBlock /\ block[q].task = t => q = p

\* A claim that landed is of the block's row, or of one that is at its epoch or past.
ClaimOK(p) ==
  /\ claim[p].at = "idle" => claim[p] = NoClaim
  /\ p = Loop => ~claim[p].in_block
  /\ claim[p].at # "idle" => \A b \in bodies : b.thread # p
  /\ claim[p].at = "begun" => block[p] = NoBlock
  /\ claim[p].at \in {"landed", "registered"} =>
       /\ claim[p].of \in Held
       /\ IF block[p] # NoBlock THEN claim[p].of = <<block[p].task, block[p].row.epoch>>
          ELSE claim[p].of[2] <= row[claim[p].of[1]].epoch
  /\ claim[p].at = "registered" => claim[p].of \in Sets \/ ClaimIsOver(claim[p].of)

\* So is a body's, and it is registered until it is over.
BodyOK(b) ==
  /\ IF InOwnBlock(b) THEN b.of = <<block[b.thread].task, block[b.thread].row.epoch>>
     ELSE b.of[2] <= row[b.of[1]].epoch
  /\ b.of \in Sets \/ ClaimIsOver(b.of)
  /\ \A d \in bodies : d.thread = b.thread /\ b.thread # "pool" => d = b

\* A row the look read.
ReadOK(r) ==
  /\ r.epoch <= row[r.task].epoch
  /\ r.epoch = row[r.task].epoch /\ Mine(r.task) =>
       /\ r.attempts = row[r.task].attempts /\ r.history = row[r.task].history
       /\ r.abandoned => row[r.task].expired

\* Between the check and the comparison, and between the read and the end.
Comparable == look.at \in {"snapshot", "reading", "rereading", "dropping", "comparing"}
HasRead == look.at \in {"rereading", "dropping", "comparing", "releasing"}

\* Nothing of these is left out of what the look read and knows.
Unknown(t) ==
  /\ Mine(t) /\ ~row[t].expired /\ <<t, row[t].epoch>> \in orphans
  /\ t \notin Pks(look.known)

LookOK ==
  /\ (Comparable \/ HasRead) /\ ~look.moved => ~ClaimsInFlight
  /\ look.at = "reading" /\ ~look.moved =>
       \A h \in Sets : h \in look.known \/ ClaimIsOver(h)
  /\ \A h \in look.over : h \in Held /\ ClaimIsOver(h)
  /\ \A r \in look.rows : ReadOK(r)
  /\ HasRead /\ (look.moved => look.at = "releasing") =>
       \A r \in look.rows :
         StillTheClaim(r) /\ r.task \notin Pks(look.known) => <<r.task, r.epoch>> \in orphans
  /\ HasRead /\ ~look.moved =>
       \A t \in Tasks : Unknown(t) =>
         \E r \in look.rows : r.task = t /\ r.epoch = row[t].epoch /\ ToRelease(r)

RowsOK == \A t \in Tasks : RowOK(row[t])
OrphansOK == \A h \in orphans : h[2] <= row[h[1]].epoch

IInv ==
  /\ TypeOK
  /\ RowsOK
  /\ \A p \in Threads : BlockOK(p) /\ ClaimOK(p)
  /\ \A b \in bodies : BodyOK(b)
  /\ OrphansOK
  /\ LookOK
  /\ ReturnedClaimsAreKnown
-----------------------------------------------------------------------------
(* Rows and their moves.                                                   *)

\* One statement moved the row from r to q: what it says of a claim of this worker
\* at its epoch, it said before.
Move(r, q) ==
  /\ RowOK(q)
  /\ r.epoch <= q.epoch
  /\ r.epoch = q.epoch /\ Running(q) =>
       /\ Running(r) /\ q.attempts = r.attempts /\ q.history = r.history
       /\ r.expired => q.expired

LEMMA RowTypes ==
  ASSUME NEW r \in Row
  PROVE  /\ r.epoch \in Nat /\ r.attempts \in Nat /\ r.epoch + 1 \in Nat
         /\ r.history \in Seq({Me, Other}) /\ r.expired \in BOOLEAN
         /\ r.status \in {"READY", "RUNNING", "LOST", "DONE"}
         /\ r.owner \in {Me, Other, NoWorker}
BY DEF Row

LEMMA SameRow ==
  ASSUME NEW r, RowOK(r)
  PROVE  Move(r, r)
BY RowTypes DEF RowOK, Move

\* A row that leaves its claim.
LEMMA FreeMoves ==
  ASSUME NEW r, RowOK(r), NEW status \in {"READY", "LOST", "DONE"},
         NEW e \in Nat, r.epoch <= e
  PROVE  /\ Move(r, Free(r, status, e)) /\ ~Running(Free(r, status, e))
         /\ RowOK(Free(r, status, e)) /\ Free(r, status, e).epoch = e
         /\ Free(r, status, e).attempts = r.attempts
         /\ Free(r, status, e).status = status
<1> DEFINE q == Free(r, status, e)
<1>1. r \in Row
  BY DEF RowOK
<1>2. q = [r EXCEPT !.status = status, !.owner = NoWorker, !.epoch = e, !.expired = FALSE]
  BY DEF Free
<1> HIDE DEF q
<1>3. /\ q \in Row /\ q.status = status /\ q.epoch = e /\ q.attempts = r.attempts
      /\ q.history = r.history
  BY <1>1, <1>2 DEF Row
<1>4. RowOK(q) /\ ~Running(q) /\ Move(r, q)
  BY <1>3 DEF RowOK, Running, Move
<1> QED
  BY <1>3, <1>4 DEF q

\* A claim.
LEMMA ClaimMoves ==
  ASSUME NEW r, RowOK(r), NEW w \in {Me, Other}
  PROVE  /\ Move(r, ClaimedBy(r, w)) /\ RowOK(ClaimedBy(r, w))
         /\ ClaimedBy(r, w).epoch = r.epoch + 1
         /\ ClaimedBy(r, w).attempts = r.attempts + 1
         /\ ClaimedBy(r, w).status = "RUNNING" /\ ClaimedBy(r, w).owner = w
<1> DEFINE q == ClaimedBy(r, w)
           n == r.attempts + 1
           e == r.epoch + 1
           h == Append(r.history, w)
<1>1. /\ r \in Row /\ n \in Nat /\ e \in Nat /\ r.epoch \in Nat /\ r.attempts \in Nat
      /\ Len(r.history) = r.attempts
  BY RowTypes DEF RowOK
<1>2. h \in Seq({Me, Other}) /\ Len(h) = n /\ h[n] = w
  BY <1>1, RowTypes, AppendProperties
<1>3. n # 0 /\ r.epoch <= e /\ r.epoch # e
  BY <1>1
<1>4. q = [r EXCEPT !.status = "RUNNING", !.owner = w, !.epoch = e, !.attempts = n,
                    !.history = h]
  BY <1>1 DEF ClaimedBy, Row
<1> HIDE DEF q, n, e, h
<1>5. /\ q \in Row /\ q.status = "RUNNING" /\ q.owner = w /\ q.epoch = e /\ q.attempts = n
      /\ q.history = h
  BY <1>1, <1>2, <1>4 DEF Row
<1>6. RowOK(q) /\ Move(r, q)
  BY <1>2, <1>3, <1>5 DEF RowOK, Move
<1> QED
  BY <1>5, <1>6 DEF q, n, e

\* The end of a history, and what is before it.
LEMMA FrontAndLast ==
  ASSUME NEW h \in Seq({Me, Other}), Len(h) # 0
  PROVE  /\ Front(h) \in Seq({Me, Other}) /\ Len(Front(h)) = Len(h) - 1
         /\ h = Append(Front(h), Last(h))
<1>1. PICK k \in Nat : Len(h) = k + 1
  <2>1. Len(h) \in Nat
    BY LenProperties
  <2>2. Len(h) - 1 \in Nat /\ Len(h) = (Len(h) - 1) + 1
    BY <2>1
  <2> QED
    BY <2>2
<1> DEFINE f == SubSeq(h, 1, k)
           g == Append(f, h[Len(h)])
<1>2. /\ Len(h) \in Nat \ {0} /\ h[Len(h)] \in {Me, Other} /\ Len(h) - 1 = k
      /\ \A i \in 1 .. k : h[i] \in {Me, Other}
  BY <1>1, LenProperties, ElementOfSeq
<1>3. /\ f \in Seq({Me, Other}) /\ Len(f) = k
      /\ \A i \in 1 .. k : f[i] = h[i]
  <2>1. /\ f \in Seq({Me, Other}) /\ Len(f) = IF 1 <= k THEN k - 1 + 1 ELSE 0
        /\ \A i \in 1 .. k - 1 + 1 : f[i] = h[1 + i - 1]
    BY <1>2, SubSeqProperties
  <2> QED
    BY <2>1
<1> HIDE DEF f
<1>4. /\ g \in Seq({Me, Other}) /\ Len(g) = Len(h)
      /\ \A i \in 1 .. Len(h) : g[i] = h[i]
  <2>1. /\ g \in Seq({Me, Other}) /\ Len(g) = Len(f) + 1
        /\ \A i \in 1 .. Len(f) : g[i] = f[i]
        /\ g[Len(f) + 1] = h[Len(h)]
    BY <1>2, <1>3, AppendProperties
  <2> QED
    BY <1>1, <1>2, <1>3, <2>1
<1>5. g = h
  BY <1>4, SeqEqual
<1>6. f = Front(h)
  BY <1>2 DEF f, Front
<1> QED
  BY <1>2, <1>3, <1>5, <1>6 DEF Last

\* The release of an orphan: the row is as it was before the claim, but for the epoch.
LEMMA ReleaseMoves ==
  ASSUME NEW r, RowOK(r), Running(r), NEW seen, seen.epoch = r.epoch,
         seen.attempts = r.attempts, seen.history = r.history
  PROVE  LET q == ReleasedClaim(r, seen)
         IN  /\ Move(r, q) /\ ~Running(q) /\ q.status = "READY" /\ q.epoch = r.epoch + 1
             /\ q.attempts = Len(q.history)
             /\ r.history = Append(q.history, Me)
<1> DEFINE q == ReleasedClaim(r, seen)
           n == r.attempts - 1
           e == r.epoch + 1
           h == Front(r.history)
<1>1. /\ r \in Row /\ e \in Nat /\ r.epoch \in Nat /\ r.attempts \in Nat \ {0}
      /\ Len(r.history) = r.attempts /\ r.history \in Seq({Me, Other})
      /\ r.history[r.attempts] = Me
  BY RowTypes DEF RowOK, Running
<1>2. n \in Nat /\ r.epoch <= e /\ r.epoch # e
  BY <1>1
<1>3. h \in Seq({Me, Other}) /\ Len(h) = n /\ r.history = Append(h, Me)
  BY <1>1, FrontAndLast DEF Last
<1>4. q = [r EXCEPT !.status = "READY", !.owner = NoWorker, !.epoch = e, !.expired = FALSE,
                    !.attempts = n, !.history = h]
  BY DEF ReleasedClaim, Free
<1> HIDE DEF q, n, e, h
<1>5. /\ q \in Row /\ q.status = "READY" /\ q.epoch = e /\ q.attempts = n /\ q.history = h
  BY <1>1, <1>2, <1>3, <1>4 DEF Row
<1>6. RowOK(q) /\ Move(r, q) /\ ~Running(q)
  BY <1>2, <1>3, <1>5 DEF RowOK, Move, Running
<1> QED
  BY <1>3, <1>5, <1>6 DEF q, e

LEMMA ExpiryMoves ==
  ASSUME NEW r, RowOK(r)
  PROVE  Move(r, [r EXCEPT !.expired = TRUE])
<1> DEFINE q == [r EXCEPT !.expired = TRUE]
<1>1. /\ q \in Row /\ q.status = r.status /\ q.owner = r.owner /\ q.epoch = r.epoch
      /\ q.attempts = r.attempts /\ q.history = r.history /\ q.expired = TRUE
  BY DEF RowOK, Row
<1> HIDE DEF q
<1>2. Move(r, q)
  BY <1>1, RowTypes DEF Move, RowOK, Running
<1> QED
  BY <1>2 DEF q
-----------------------------------------------------------------------------
(* What one step does to the table.                                        *)

TableMoves ==
  /\ row' \in [Tasks -> Row]
  /\ \A t \in Tasks : Move(row[t], row'[t])

LEMMA OneRowMoves ==
  ASSUME TypeOK, RowsOK, NEW t \in Tasks, NEW q,
         row' = [row EXCEPT ![t] = q], Move(row[t], q)
  PROVE  TableMoves
<1>1. row \in [Tasks -> Row] /\ q \in Row
  BY DEF TypeOK, Move, RowOK
<1>2. ASSUME NEW u \in Tasks
      PROVE  Move(row[u], row'[u])
  <2>1. Move(row[u], row[u])
    BY SameRow DEF RowsOK
  <2> QED
    BY <1>1, <2>1
<1> QED
  BY <1>1, <1>2 DEF TableMoves

LEMMA NoRowMoves ==
  ASSUME TypeOK, RowsOK, row' = row
  PROVE  TableMoves
BY SameRow DEF TypeOK, RowsOK, TableMoves

\* The types of what a step's actors hold.
LEMMA HeldTypes ==
  ASSUME TypeOK
  PROVE  /\ row \in [Tasks -> Row] /\ \A t \in Tasks : row[t] \in Row /\ row[t].epoch \in Nat
         /\ \A b \in bodies : /\ b.of \in Held /\ b.of[1] \in Tasks /\ b.of[2] \in Nat
                              /\ b.thread \in Inline \cup {"pool"}
                              /\ b.at \in {"handed_off", "running", "stuck"}
         /\ \A p \in Threads : block[p] # NoBlock =>
              block[p].task \in Tasks /\ block[p].row \in Row
         /\ \A r \in look.rows : r \in Read /\ r.task \in Tasks /\ r.epoch \in Nat
<1>1. row \in [Tasks -> Row] /\ \A t \in Tasks : row[t] \in Row /\ row[t].epoch \in Nat
  BY RowTypes DEF TypeOK
<1>2. ASSUME NEW b \in bodies
      PROVE  /\ b.of \in Held /\ b.of[1] \in Tasks /\ b.of[2] \in Nat
             /\ b.thread \in Inline \cup {"pool"} /\ b.at \in {"handed_off", "running", "stuck"}
  BY DEF TypeOK, Body, Held
<1>3. ASSUME NEW p \in Threads, block[p] # NoBlock
      PROVE  block[p].task \in Tasks /\ block[p].row \in Row
  BY <1>3 DEF TypeOK, Block
<1>4. ASSUME NEW r \in look.rows
      PROVE  r \in Read /\ r.task \in Tasks /\ r.epoch \in Nat
  BY DEF TypeOK, Look, Read
<1> QED
  BY <1>1, <1>2, <1>3, <1>4

\* An outcome: in the block of the body's thread, or on the table.
OutcomeInBlock(b, q) ==
  /\ InOwnBlock(b) /\ b.thread \in Inline
  /\ row' = row
  /\ block' = [block EXCEPT ![b.thread].row = q]
  /\ RowOK(q) /\ ~Running(q)
  /\ q.epoch = block[b.thread].row.epoch /\ q.attempts = block[b.thread].row.attempts

OutcomeOnTable(b, q) ==
  /\ ~InOwnBlock(b)
  /\ block' = block
  /\ row' = [row EXCEPT ![b.of[1]] = q]
  /\ row[b.of[1]].status # "READY" /\ row[b.of[1]].epoch = b.of[2]
  /\ Move(row[b.of[1]], q) /\ ~Running(q) /\ q.epoch = b.of[2]

LEMMA OutcomeStep ==
  ASSUME IInv, NEW b \in bodies, WriteOutcome(b)
  PROVE  \E q : OutcomeInBlock(b, q) \/ OutcomeOnTable(b, q)
<1>1. PICK status \in {"DONE", "READY"} : WriteRow(b, Free(RowOf(b), status, b.of[2]))
  BY DEF WriteOutcome
<1> DEFINE q == Free(RowOf(b), status, b.of[2])
<1>2. TypeOK /\ HoldsTheLease(b) /\ RowsOK
  BY DEF IInv, WriteOutcome
<1>3. CASE InOwnBlock(b)
  <2>1. b.thread \in Inline /\ RowOK(block[b.thread].row)
    BY <1>2, <1>3, HeldTypes DEF IInv, BlockOK, InOwnBlock, Threads
  <2>2. RowOf(b) = block[b.thread].row /\ RowOf(b).epoch = b.of[2] /\ b.of[2] \in Nat
    BY <1>2, <1>3, HeldTypes DEF RowOf, HoldsTheLease
  <2>3. RowOK(q) /\ ~Running(q) /\ q.epoch = RowOf(b).epoch /\ q.attempts = RowOf(b).attempts
    BY <2>1, <2>2, FreeMoves
  <2> HIDE DEF q
  <2> QED
    BY <1>1, <1>3, <2>1, <2>2, <2>3 DEF WriteRow, OutcomeInBlock, q
<1>4. CASE ~InOwnBlock(b)
  <2>1. /\ b.of[1] \in Tasks /\ RowOf(b) = row[b.of[1]] /\ row[b.of[1]].epoch = b.of[2]
        /\ b.of[2] \in Nat
        /\ row[b.of[1]].status # "READY" /\ RowOK(row[b.of[1]])
    BY <1>2, <1>4, HeldTypes DEF RowOf, HoldsTheLease, RowsOK
  <2>2. Move(row[b.of[1]], q) /\ ~Running(q) /\ q.epoch = b.of[2]
    BY <2>1, FreeMoves
  <2>3. row' = [row EXCEPT ![b.of[1]] = q] /\ block' = block
    BY <1>1, <1>4 DEF WriteRow
  <2> HIDE DEF q
  <2> QED
    BY <1>4, <2>1, <2>2, <2>3 DEF OutcomeOnTable
<1> QED
  BY <1>3, <1>4

\* The watchdog's record.
LEMMA RecordStep ==
  ASSUME IInv, NEW b \in bodies, RecordStuck(b)
  PROVE  \E q : /\ row' = [row EXCEPT ![b.of[1]] = q]
                /\ Move(row[b.of[1]], q) /\ ~Running(q)
                /\ row[b.of[1]].status # "READY"
<1>1. PICK status \in {"DONE", "READY"} :
        row' = [row EXCEPT ![b.of[1]] = Free(row[b.of[1]], status, b.of[2] + 1)]
  BY HeldTypes DEF RecordStuck, IInv
<1>2. /\ b.of[1] \in Tasks /\ RowOK(row[b.of[1]]) /\ row[b.of[1]].epoch <= b.of[2] + 1
      /\ b.of[2] + 1 \in Nat /\ row[b.of[1]].status # "READY"
  BY HeldTypes DEF RecordStuck, IInv, RowsOK
<1> DEFINE q == Free(row[b.of[1]], status, b.of[2] + 1)
<1>3. Move(row[b.of[1]], q) /\ ~Running(q)
  BY <1>2, FreeMoves
<1> HIDE DEF q
<1> QED
  BY <1>1, <1>2, <1>3 DEF q

\* The table under a claim, a release, and everybody else's statements.
LEMMA TableStep ==
  ASSUME IInv, [Next]_vars
  PROVE  TableMoves
<1>1. /\ TypeOK /\ RowsOK
      /\ row \in [Tasks -> Row] /\ \A t \in Tasks : RowOK(row[t]) /\ row[t].epoch \in Nat
  BY HeldTypes DEF IInv, RowsOK
<1>2. CASE row' = row
  BY <1>1, <1>2, NoRowMoves
<1>3. ASSUME NEW p \in Threads, NEW t \in Tasks, Land(p, t)
      PROVE  TableMoves
  <2>1. row' = row \/ row' = [row EXCEPT ![t] = ClaimedBy(row[t], Me)]
    BY <1>3 DEF Land, ClaimedHere
  <2>2. Move(row[t], ClaimedBy(row[t], Me))
    BY <1>1, ClaimMoves
  <2> QED
    BY <1>1, <1>2, <2>1, <2>2, OneRowMoves
<1>4. ASSUME NEW b \in bodies, WriteOutcome(b)
      PROVE  TableMoves
  <2>1. PICK q : OutcomeInBlock(b, q) \/ OutcomeOnTable(b, q)
    BY <1>4, OutcomeStep
  <2>2. b.of[1] \in Tasks
    BY <1>1, HeldTypes
  <2> QED
    BY <1>1, <1>2, <2>1, <2>2, OneRowMoves DEF OutcomeInBlock, OutcomeOnTable
<1>5. ASSUME NEW b \in bodies, RecordStuck(b)
      PROVE  TableMoves
  <2>1. b.of[1] \in Tasks
    BY <1>1, HeldTypes
  <2> QED
    BY <1>1, <1>5, <2>1, RecordStep, OneRowMoves
<1>6. ASSUME NEW p \in Threads, EndBlock(p)
      PROVE  TableMoves
  <2> DEFINE t == block[p].task
             q == block[p].row
  <2>1. t \in Tasks /\ RowOK(q) /\ q.epoch = row[t].epoch + 1
    BY <1>6 DEF IInv, BlockOK, EndBlock
  <2>2. row' = row \/ row' = [row EXCEPT ![t] = q]
    BY <1>6 DEF EndBlock
  <2> HIDE DEF t, q
  <2>3. Move(row[t], q)
    BY <1>1, <2>1 DEF Move
  <2> QED
    BY <1>1, <1>2, <2>1, <2>2, <2>3, OneRowMoves
<1>7. ASSUME NEW r \in look.rows, LookRelease(r)
      PROVE  TableMoves
  <2> DEFINE t == r.task
  <2>1. t \in Tasks /\ ReadOK(r)
    BY <1>1, HeldTypes DEF IInv, LookOK
  <2>2. CASE ToRelease(r) /\ StillTheClaim(r)
    <3>1. Running(row[t]) /\ r.epoch = row[t].epoch /\ Mine(t)
      BY <2>2 DEF StillTheClaim, Mine, Running
    <3>2. Move(row[t], ReleasedClaim(row[t], r))
      BY <1>1, <2>1, <3>1, ReleaseMoves DEF ReadOK
    <3>3. row' = [row EXCEPT ![t] = ReleasedClaim(row[t], r)]
      BY <1>7, <2>2 DEF LookRelease
    <3> QED
      BY <1>1, <2>1, <3>2, <3>3, OneRowMoves
  <2>3. CASE ~(ToRelease(r) /\ StillTheClaim(r))
    BY <1>2, <1>7, <2>3 DEF LookRelease
  <2> QED
    BY <2>2, <2>3
<1>8. ASSUME NEW t \in Tasks, OtherClaims(t) \/ OtherEnds(t) \/ LeaseExpires(t) \/ Reap(t)
      PROVE  TableMoves
  <2>1. ASSUME OtherClaims(t)
        PROVE  TableMoves
    <3>1. row' = [row EXCEPT ![t] = ClaimedBy(row[t], Other)]
      BY <2>1 DEF OtherClaims, OthersMove
    <3> QED
      BY <1>1, <3>1, ClaimMoves, OneRowMoves
  <2>2. ASSUME OtherEnds(t)
        PROVE  TableMoves
    <3>1. PICK status \in {"DONE", "READY"} :
            row' = [row EXCEPT ![t] = Free(row[t], status, row[t].epoch)]
      BY <2>2 DEF OtherEnds, OthersMove
    <3>2. Move(row[t], Free(row[t], status, row[t].epoch))
      BY <1>1, FreeMoves
    <3> QED
      BY <1>1, <3>1, <3>2, OneRowMoves
  <2>3. ASSUME LeaseExpires(t)
        PROVE  TableMoves
    <3>1. row' = [row EXCEPT ![t] = [row[t] EXCEPT !.expired = TRUE]]
      BY <2>3 DEF LeaseExpires, OthersMove
    <3> QED
      BY <1>1, <3>1, ExpiryMoves, OneRowMoves
  <2>4. ASSUME Reap(t)
        PROVE  TableMoves
    <3>1. \/ row' = [row EXCEPT ![t] = Free(row[t], "READY", row[t].epoch + 1)]
          \/ row' = [row EXCEPT ![t] = Free(row[t], "LOST", row[t].epoch)]
      BY <2>4 DEF Reap, OthersMove
    <3>2. row[t].epoch + 1 \in Nat /\ row[t].epoch <= row[t].epoch + 1
      BY <1>1
    <3>3. /\ Move(row[t], Free(row[t], "READY", row[t].epoch + 1))
          /\ Move(row[t], Free(row[t], "LOST", row[t].epoch))
      BY <1>1, <3>2, FreeMoves
    <3> QED
      BY <1>1, <3>1, <3>3, OneRowMoves
  <2> QED
    BY <1>8, <2>1, <2>2, <2>3, <2>4
<1>9. ASSUME NEW b \in bodies, BodyStep(b)
      PROVE  TableMoves
  BY <1>2, <1>4, <1>5, <1>9 DEF BodyStep, StartBody, EndRecorded, EndUnrecorded, GraceEnds
<1>10. ASSUME NEW p \in Threads, ClaimStep(p)
      PROVE  TableMoves
  BY <1>2, <1>3, <1>10
  DEF ClaimStep, BeginClaim, ClaimNothing, Register, Return, OverrideRaises, CountOutRaised
<1>11. CASE LookStep
  BY <1>2, <1>7, <1>11
  DEF LookStep, LookCheck, LookSnapshot, LookRead, LookReadUnseen, LookDrop, LookCompare,
      LookSettle, LookFails, NextPass, WindowCloses
<1> QED
  BY <1>2, <1>6, <1>8, <1>9, <1>10, <1>11 DEF Next, vars
-----------------------------------------------------------------------------
(* Types.                                                                  *)

\* Every variable keeps its type.
LEMMA TypeStep ==
  ASSUME IInv, TableMoves, [Next]_vars
  PROVE  TypeOK'
<1>1. TypeOK /\ row' \in [Tasks -> Row]
  BY DEF IInv, TableMoves
<1>2. block' \in [Threads -> Block]
  <2>1. block \in [Threads -> Block]
    BY <1>1 DEF TypeOK
  <2>2. ASSUME NEW p \in Threads, NEW t \in Tasks, Land(p, t)
        PROVE  block' \in [Threads -> Block]
    <3>1. ClaimedHere(row[t]) \in Row
      BY ClaimMoves DEF IInv, RowsOK, ClaimedHere, RowOK
    <3>2. [task |-> t, row |-> ClaimedHere(row[t])] \in Block
      BY <3>1 DEF Block
    <3> QED
      BY <2>1, <2>2, <3>2 DEF Land
  <2>3. ASSUME NEW b \in bodies, WriteOutcome(b)
        PROVE  block' \in [Threads -> Block]
    <3>1. PICK q : OutcomeInBlock(b, q) \/ OutcomeOnTable(b, q)
      BY <2>3, OutcomeStep
    <3>2. CASE OutcomeInBlock(b, q)
      <4>1. /\ b.thread \in Threads /\ block[b.thread] # NoBlock
            /\ q \in Row /\ block[b.thread].task \in Tasks
            /\ block[b.thread] \in [task : Tasks, row : Row]
        BY <1>1, <2>1, <3>2, HeldTypes
        DEF OutcomeInBlock, InOwnBlock, Threads, RowOK, Block
      <4>2. [block[b.thread] EXCEPT !.row = q] \in Block
        BY <4>1 DEF Block
      <4>3. block' = [block EXCEPT ![b.thread] = [block[b.thread] EXCEPT !.row = q]]
        BY <2>1, <3>2, <4>1 DEF OutcomeInBlock
      <4> QED
        BY <2>1, <4>1, <4>2, <4>3
    <3> QED
      BY <2>1, <3>1, <3>2 DEF OutcomeOnTable
  <2>4. ASSUME NEW p \in Threads, EndBlock(p)
        PROVE  block' \in [Threads -> Block]
    BY <2>1, <2>4 DEF EndBlock, Block
  <2> QED
    BY <2>1, <2>2, <2>3, <2>4
    DEF Next, vars, ClaimStep, BeginClaim, ClaimNothing, Register, Return, OverrideRaises,
        CountOutRaised, BodyStep, StartBody, EndRecorded, EndUnrecorded, GraceEnds,
        RecordStuck, LookStep, LookCheck, LookSnapshot, LookRead, LookReadUnseen, LookDrop,
        LookCompare, LookSettle, LookFails, NextPass, WindowCloses, LookRelease,
        OtherClaims, OtherEnds, LeaseExpires, Reap, OthersMove
<1>3. claim' \in [Threads -> Claim] /\ orphans' \subseteq Held
  <2>1. claim \in [Threads -> Claim] /\ orphans \subseteq Held /\ NoClaim \in Claim
    BY <1>1 DEF TypeOK, NoClaim, Claim
  <2>2. ASSUME NEW p \in Threads, NEW t \in Tasks, Land(p, t)
        PROVE  claim' \in [Threads -> Claim] /\ orphans' \subseteq Held
    <3>1. <<t, ClaimedHere(row[t]).epoch>> \in Held
      BY ClaimMoves, RowTypes DEF IInv, RowsOK, ClaimedHere, RowOK, Held
    <3> DEFINE held == <<t, ClaimedHere(row[t]).epoch>>
    <3>2. \/ claim' = [claim EXCEPT ![p].at = "landed", ![p].of = held]
          \/ claim' = [claim EXCEPT ![p].at = "raised"]
      BY <2>2 DEF Land
    <3>3. orphans' = orphans \/ orphans' = orphans \cup {held}
      BY <2>2 DEF Land
    <3> HIDE DEF held
    <3>4. claim' \in [Threads -> Claim]
      BY <2>1, <3>1, <3>2 DEF Claim, held
    <3> QED
      BY <2>1, <3>1, <3>3, <3>4 DEF held
  <2>3. ASSUME NEW p \in Threads, ClaimStep(p)
        PROVE  claim' \in [Threads -> Claim] /\ orphans' \subseteq Held
    <3>1. ASSUME NEW in_block \in BOOLEAN, BeginClaim(p, in_block)
          PROVE  claim' \in [Threads -> Claim] /\ orphans' \subseteq Held
      <4>1. [NoClaim EXCEPT !.at = "begun", !.in_block = in_block] \in Claim
        BY DEF NoClaim, Claim
      <4> QED
        BY <2>1, <3>1, <4>1 DEF BeginClaim
    <3>2. CASE ClaimNothing(p)
      BY <2>1, <3>2 DEF ClaimNothing, Claim
    <3>3. CASE Register(p) \/ OverrideRaises(p)
      BY <2>1, <3>3 DEF Register, OverrideRaises, Claim
    <3>4. CASE Return(p) \/ CountOutRaised(p)
      BY <2>1, <3>4 DEF Return, CountOutRaised
    <3> QED
      BY <2>2, <2>3, <3>1, <3>2, <3>3, <3>4 DEF ClaimStep
  <2> QED
    BY <2>1, <2>3
    DEF Next, vars, EndBlock, BodyStep, StartBody, EndRecorded, EndUnrecorded, GraceEnds,
        RecordStuck, LookStep, LookCheck, LookSnapshot, LookRead, LookReadUnseen, LookDrop,
        LookCompare, LookSettle, LookFails, NextPass, WindowCloses, LookRelease,
        OtherClaims, OtherEnds, LeaseExpires, Reap, OthersMove
<1>4. bodies' \subseteq Body
  <2>1. bodies \subseteq Body
    BY <1>1 DEF TypeOK
  <2>2. ASSUME NEW p \in Threads, Return(p)
        PROVE  bodies' \subseteq Body
    <3>1. claim[p].of \in Held
      BY <2>2 DEF IInv, ClaimOK, Return
    <3>2. p # Loop => p \in Inline
      BY DEF Threads
    <3> QED
      BY <2>1, <2>2, <3>1, <3>2 DEF Return, Body
  <2>3. ASSUME NEW b \in bodies, NEW at \in {"handed_off", "running", "stuck"}
        PROVE  [b EXCEPT !.at = at] \in Body
    BY <2>1 DEF Body
  <2>4. ASSUME NEW b \in bodies, BodyStep(b)
        PROVE  bodies' \subseteq Body
    BY <2>1, <2>3, <2>4
    DEF BodyStep, StartBody, EndRecorded, EndUnrecorded, GraceEnds, RecordStuck
  <2>5. ASSUME NEW p \in Threads, ClaimStep(p)
        PROVE  bodies' \subseteq Body
    BY <2>1, <2>2, <2>5
    DEF ClaimStep, BeginClaim, ClaimNothing, Register, Land, OverrideRaises, CountOutRaised
  <2> QED
    BY <2>1, <2>4, <2>5
    DEF Next, vars, EndBlock, LookStep, LookCheck, LookSnapshot, LookRead, LookReadUnseen, LookDrop,
        LookCompare, LookSettle, LookFails, NextPass, WindowCloses, LookRelease,
        OtherClaims, OtherEnds, LeaseExpires, Reap, OthersMove
<1>5. (handed_off \cup in_flight \cup unsettled \subseteq Held)'
  <2>1. /\ handed_off \subseteq Held /\ in_flight \subseteq Held /\ unsettled \subseteq Held
        /\ \A b \in bodies : b.of \in Held
        /\ \A p \in Threads : claim[p].at = "landed" => claim[p].of \in Held
    BY <1>1, HeldTypes DEF TypeOK, IInv, ClaimOK
  <2> QED
    BY <2>1
    DEF Next, vars, sets, ClaimStep, BeginClaim, ClaimNothing, Register, Return, Land,
        OverrideRaises, CountOutRaised, EndBlock, BodyStep, StartBody, EndRecorded,
        EndUnrecorded, GraceEnds,
        RecordStuck, LookStep, LookCheck, LookSnapshot, LookRead, LookReadUnseen, LookDrop,
        LookCompare, LookSettle, LookFails, NextPass, WindowCloses, LookRelease,
        OtherClaims, OtherEnds, LeaseExpires, Reap, OthersMove
<1>6. pending' \in {"none", "fresh", "old"}
  <2>1. pending \in {"none", "fresh", "old"}
    BY <1>1 DEF TypeOK
  <2> QED
    BY <2>1
    DEF Next, vars, ClaimStep, BeginClaim, ClaimNothing, Register, Return, Land,
        OverrideRaises, CountOutRaised, EndBlock, BodyStep, StartBody, EndRecorded,
        EndUnrecorded, GraceEnds,
        RecordStuck, LookStep, LookCheck, LookSnapshot, LookRead, LookReadUnseen, LookDrop,
        LookCompare, LookSettle, LookFails, NextPass, WindowCloses, LookRelease,
        OtherClaims, OtherEnds, LeaseExpires, Reap, OthersMove
<1>7. look' \in Look
  <2>1. /\ look \in Look
        /\ \A where \in {"due", "snapshot", "done"} : LookAt(where) \in Look
        /\ handed_off \cup in_flight \cup unsettled \subseteq Held
    BY <1>1 DEF TypeOK, Look, LookAt
  <2>2. ASSUME NEW p \in Threads, ClaimStep(p)
        PROVE  look' \in Look
    BY <2>1, <2>2
    DEF ClaimStep, BeginClaim, CountedIn, Look, ClaimNothing, Register, Return, Land,
        OverrideRaises, CountOutRaised
  <2>3. CASE LookSnapshot
    BY <2>1, <2>3 DEF LookSnapshot, Look
  <2>4. CASE LookRead
    <3> DEFINE rows == {ReadOf(t) : t \in {u \in Tasks : Mine(u)}}
               over == {h \in look.examined : \E r \in rows : r.task = h[1] /\ r.epoch > h[2]}
    <3>1. rows \subseteq Read
      BY <1>1, HeldTypes, RowTypes DEF ReadOf, Read
    <3>2. over \subseteq Held
      BY <2>1 DEF Look
    <3>3. look' = [look EXCEPT !.at = "rereading", !.rows = rows, !.over = over]
      BY <2>4 DEF LookRead
    <3> HIDE DEF rows, over
    <3> QED
      BY <2>1, <3>1, <3>2, <3>3 DEF Look
  <2>5. CASE LookReadUnseen
    <3> DEFINE seen == {h \in {g \in look.examined : \A r \in look.rows : r.task # g[1]} :
                          ClaimIsOver(h)}
    <3>1. seen \subseteq Held
      BY <2>1 DEF Look
    <3>2. look' = [look EXCEPT !.at = "dropping", !.over = look.over \cup seen]
      BY <2>1, <2>5 DEF LookReadUnseen, Look
    <3> HIDE DEF seen
    <3> QED
      BY <2>1, <3>1, <3>2 DEF Look
  <2>6. CASE LookDrop \/ LookCompare
    BY <2>1, <2>6 DEF LookDrop, LookCompare, Look
  <2>7. ASSUME NEW r \in look.rows, LookRelease(r)
        PROVE  look' \in Look
    <3>1. CASE look' = [look EXCEPT !.rows = look.rows \ {r}]
      BY <2>1, <3>1 DEF Look
    <3> QED
      BY <2>1, <2>7, <3>1 DEF LookRelease, Look
  <2>8. CASE LookStep
    BY <2>1, <2>3, <2>4, <2>5, <2>6, <2>7, <2>8
    DEF LookStep, LookCheck, LookSettle, LookFails, NextPass, WindowCloses
  <2> QED
    BY <2>1, <2>2, <2>8
    DEF Next, vars, EndBlock, BodyStep, StartBody, EndRecorded, EndUnrecorded, GraceEnds,
        RecordStuck, OtherClaims, OtherEnds, LeaseExpires, Reap, OthersMove
<1> QED
  BY <1>1, <1>2, <1>3, <1>4, <1>5, <1>6, <1>7 DEF TypeOK
-----------------------------------------------------------------------------
(* What one step does to the sets.                                         *)

\* A claim that is over stays over.
LEMMA OverStays ==
  ASSUME TypeOK, TableMoves, NEW h \in Held, ClaimIsOver(h)
  PROVE  ClaimIsOver(h)'
<1>1. /\ h[1] \in Tasks /\ h[2] \in Nat
      /\ row[h[1]].epoch \in Nat /\ row'[h[1]].epoch \in Nat
      /\ Move(row[h[1]], row'[h[1]])
  BY HeldTypes, RowTypes DEF Held, TableMoves
<1> QED
  BY <1>1 DEF ClaimIsOver, Mine, Move, Running

\* A pair leaves the sets when its claim is over, or when its outcome is written in
\* a block.
LEMMA SetsStep ==
  ASSUME IInv, TableMoves, [Next]_vars, NEW h \in Sets
  PROVE  \/ h \in Sets' \/ ClaimIsOver(h)'
         \/ \E b \in bodies : \E q : EndRecorded(b) /\ OutcomeInBlock(b, q) /\ b.of = h
<1>1. TypeOK /\ h \in Held
  BY DEF IInv, TypeOK, Sets
<1>2. ASSUME NEW b \in bodies, EndRecorded(b), b.of = h
      PROVE  \/ ClaimIsOver(h)'
             \/ \E q : EndRecorded(b) /\ OutcomeInBlock(b, q) /\ b.of = h
  <2>1. PICK q : OutcomeInBlock(b, q) \/ OutcomeOnTable(b, q)
    BY <1>2, OutcomeStep DEF EndRecorded
  <2>2. CASE OutcomeOnTable(b, q)
    <3>1. row'[h[1]] = q /\ q.epoch = h[2] /\ ~Running(q)
      BY <1>1, <1>2, <2>2, HeldTypes DEF OutcomeOnTable
    <3> QED
      BY <3>1 DEF ClaimIsOver, Mine, Running
  <2> QED
    BY <1>2, <2>1, <2>2
<1>3. ASSUME NEW b \in bodies, BodyStep(b), ~(EndRecorded(b) /\ b.of = h)
      PROVE  h \in Sets'
  BY <1>3
  DEF Sets, BodyStep, StartBody, EndRecorded, EndUnrecorded, GraceEnds, RecordStuck, sets
<1>4. CASE LookDrop
  <2>1. CASE h \in look.over
    BY <1>1, <2>1, OverStays DEF IInv, LookOK
  <2>2. CASE h \notin look.over
    BY <1>4, <2>2 DEF Sets, LookDrop
  <2> QED
    BY <2>1, <2>2
<1>5. ASSUME NEW p \in Threads, ClaimStep(p)
      PROVE  h \in Sets'
  BY <1>5
  DEF Sets, sets, ClaimStep, BeginClaim, ClaimNothing, Register, Return, Land, OverrideRaises,
      CountOutRaised
<1>6. CASE UNCHANGED sets
  BY <1>6 DEF Sets, sets
<1> QED
  BY <1>2, <1>3, <1>4, <1>5, <1>6
  DEF Next, vars, EndBlock, LookStep, LookCheck, LookSnapshot, LookRead, LookReadUnseen,
      LookCompare, LookSettle, LookFails, NextPass, WindowCloses, LookRelease,
      OtherClaims, OtherEnds, LeaseExpires, Reap, OthersMove

\* What the sets gain is of a claim being registered or of a body.
LEMMA SetsGrow ==
  ASSUME IInv, [Next]_vars, NEW h \in Sets', h \notin Sets
  PROVE  \/ \E p \in Threads : claim[p].at = "landed" /\ Register(p) /\ h = claim[p].of
         \/ \E b \in bodies : h = b.of /\ BodyStep(b)
<1>1. ASSUME NEW b \in bodies, BodyStep(b)
      PROVE  h = b.of
  BY <1>1
  DEF Sets, BodyStep, StartBody, EndRecorded, EndUnrecorded, GraceEnds, RecordStuck, sets
<1>2. ASSUME NEW p \in Threads, ClaimStep(p)
      PROVE  claim[p].at = "landed" /\ Register(p) /\ h = claim[p].of
  BY <1>2
  DEF Sets, sets, ClaimStep, BeginClaim, ClaimNothing, Register, Return, Land, OverrideRaises,
      CountOutRaised
<1>3. ~LookDrop
  BY DEF Sets, LookDrop
<1>4. ~UNCHANGED sets
  BY DEF Sets, sets
<1> QED
  BY <1>1, <1>2, <1>3, <1>4
  DEF Next, vars, EndBlock, LookStep, LookCheck, LookSnapshot, LookRead, LookReadUnseen,
      LookCompare, LookSettle, LookFails, NextPass, WindowCloses, LookRelease,
      OtherClaims, OtherEnds, LeaseExpires, Reap, OthersMove

\* A claim that landed waits for its registration.
LEMMA LandedStays ==
  ASSUME IInv, [Next]_vars, NEW p \in Threads, claim[p].at = "landed"
  PROVE  claim'[p] = claim[p] \/ (Register(p) /\ claim[p].of \in Sets')
<1>1. claim \in [Threads -> Claim]
  BY DEF IInv, TypeOK
<1>2. ASSUME NEW q \in Threads, ClaimStep(q), q # p
      PROVE  claim'[p] = claim[p]
  BY <1>1, <1>2
  DEF ClaimStep, BeginClaim, ClaimNothing, Register, Return, Land, OverrideRaises,
      CountOutRaised
<1>3. CASE ClaimStep(p)
  <2>1. NoClaim.at = "idle"
    BY DEF NoClaim
  <2>2. Register(p)
    BY <1>3, <2>1 DEF ClaimStep, BeginClaim, ClaimNothing, Return, Land, OverrideRaises,
        CountOutRaised
  <2>3. claim[p].of \in Sets'
    BY <2>2 DEF Register, Sets
  <2> QED
    BY <2>2, <2>3
<1>4. CASE claim' = claim
  BY <1>4
<1> QED
  BY <1>2, <1>3, <1>4
  DEF Next, vars, EndBlock, BodyStep, StartBody, EndRecorded, EndUnrecorded, GraceEnds,
      RecordStuck, LookStep, LookCheck, LookSnapshot, LookRead, LookReadUnseen, LookDrop,
      LookCompare, LookSettle, LookFails, NextPass, WindowCloses, LookRelease,
      OtherClaims, OtherEnds, LeaseExpires, Reap, OthersMove
-----------------------------------------------------------------------------
(* Blocks.                                                                 *)

\* A row that a block locks is nobody else's to move.
LEMMA LockedRowStays ==
  ASSUME IInv, [Next]_vars, NEW p \in Threads, block[p] # NoBlock, ~EndBlock(p)
  PROVE  row'[block[p].task] = row[block[p].task]
<1> DEFINE t == block[p].task
<1>1. /\ TypeOK /\ row \in [Tasks -> Row]
      /\ p \in Inline /\ t \in Tasks /\ row[t].status = "READY" /\ Locked(t)
      /\ \A q \in Threads : block[q] # NoBlock /\ block[q].task = t => q = p
  BY HeldTypes DEF IInv, BlockOK, Locked
<1> HIDE DEF t
<1>2. ASSUME NEW u \in Tasks \ {t}, NEW q, row' = [row EXCEPT ![u] = q]
      PROVE  row'[t] = row[t]
  BY <1>1, <1>2
<1>3. ASSUME NEW q \in Threads, ClaimStep(q)
      PROVE  row'[t] = row[t]
  <2>1. ASSUME NEW u \in Tasks, Land(q, u)
        PROVE  row'[t] = row[t]
    BY <1>1, <2>1 DEF Land
  <2> QED
    BY <1>3, <2>1
    DEF ClaimStep, BeginClaim, ClaimNothing, Register, Return, OverrideRaises, CountOutRaised
<1>4. ASSUME NEW q \in Threads, EndBlock(q)
      PROVE  row'[t] = row[t]
  <2>1. q # p
    BY <1>4
  <2>2. block[q].task # t
    BY <1>1, <1>4, <2>1 DEF EndBlock
  <2> QED
    BY <1>1, <1>4, <2>2 DEF EndBlock
<1>5. ASSUME NEW b \in bodies, BodyStep(b)
      PROVE  row'[t] = row[t]
  <2>1. ASSUME WriteOutcome(b)
        PROVE  row'[t] = row[t]
    BY <1>1, <2>1, OutcomeStep DEF OutcomeInBlock, OutcomeOnTable
  <2>2. ASSUME RecordStuck(b)
        PROVE  row'[t] = row[t]
    BY <1>1, <2>2, RecordStep
  <2> QED
    BY <1>5, <2>1, <2>2 DEF BodyStep, StartBody, EndRecorded, EndUnrecorded, GraceEnds
<1>6. ASSUME NEW r \in look.rows, LookRelease(r)
      PROVE  row'[t] = row[t]
  BY <1>1, <1>6 DEF LookRelease, StillTheClaim, Mine
<1>7. ASSUME NEW u \in Tasks, OtherClaims(u) \/ OtherEnds(u) \/ LeaseExpires(u) \/ Reap(u)
      PROVE  row'[t] = row[t]
  BY <1>1, <1>7 DEF OtherClaims, OtherEnds, LeaseExpires, Reap, OthersMove
<1>8. row'[t] = row[t]
  BY <1>3, <1>4, <1>5, <1>6, <1>7
  DEF Next, vars, LookStep, LookCheck, LookSnapshot, LookRead, LookReadUnseen, LookDrop,
      LookCompare, LookSettle, LookFails, NextPass, WindowCloses
<1> QED
  BY <1>8 DEF t

\* Who changes the block of a thread.
LEMMA BlocksChange ==
  ASSUME IInv, [Next]_vars, NEW p \in Threads
  PROVE  \/ block'[p] = block[p]
         \/ block'[p] = NoBlock /\ EndBlock(p)
         \/ \E t \in Tasks : /\ Land(p, t) /\ claim[p].in_block
                             /\ block'[p] = [task |-> t, row |-> ClaimedHere(row[t])]
         \/ \E b \in bodies : \E q : /\ OutcomeInBlock(b, q) /\ b.thread = p
                                     /\ block'[p] = [block[p] EXCEPT !.row = q]
<1>1. block \in [Threads -> Block]
  BY DEF IInv, TypeOK
<1>2. ASSUME NEW v \in Threads, ClaimStep(v), block'[p] # block[p]
      PROVE  \E t \in Tasks : /\ Land(p, t) /\ claim[p].in_block
                              /\ block'[p] = [task |-> t, row |-> ClaimedHere(row[t])]
  <2>1. PICK t \in Tasks : Land(v, t)
    BY <1>2
    DEF ClaimStep, BeginClaim, ClaimNothing, Register, Return, OverrideRaises, CountOutRaised
  <2> QED
    BY <1>1, <1>2, <2>1 DEF Land
<1>3. ASSUME NEW v \in Threads, EndBlock(v), block'[p] # block[p]
      PROVE  block'[p] = NoBlock /\ EndBlock(p)
  BY <1>1, <1>3 DEF EndBlock
<1>4. ASSUME NEW b \in bodies, WriteOutcome(b), block'[p] # block[p]
      PROVE  \E q : /\ OutcomeInBlock(b, q) /\ b.thread = p
                    /\ block'[p] = [block[p] EXCEPT !.row = q]
  <2>1. PICK q : OutcomeInBlock(b, q) \/ OutcomeOnTable(b, q)
    BY <1>4, OutcomeStep
  <2>2. OutcomeInBlock(b, q)
    BY <1>4, <2>1 DEF OutcomeOnTable
  <2>3. b.thread = p /\ block'[p] = [block[p] EXCEPT !.row = q]
    BY <1>1, <1>4, <2>2 DEF OutcomeInBlock
  <2> QED
    BY <2>2, <2>3
<1> QED
  BY <1>2, <1>3, <1>4
  DEF Next, vars, BodyStep, StartBody, EndRecorded, EndUnrecorded, GraceEnds, RecordStuck,
      LookStep, LookCheck, LookSnapshot, LookRead, LookReadUnseen, LookDrop, LookCompare,
      LookSettle, LookFails, NextPass, WindowCloses, LookRelease,
      OtherClaims, OtherEnds, LeaseExpires, Reap, OthersMove

\* Two open transactions hold two rows.
LEMMA BlocksApart ==
  ASSUME IInv, [Next]_vars, NEW p \in Threads, NEW q \in Threads,
         block'[p] # NoBlock, block'[q] # NoBlock, block'[p].task = block'[q].task
  PROVE  p = q
<1>1. block \in [Threads -> Block]
  BY DEF IInv, TypeOK
<1>2. ASSUME NEW v \in Threads, NEW t \in Tasks, Land(v, t), NEW u \in Threads, u # v,
             block'[u] # NoBlock
      PROVE  block'[u] = block[u] /\ block[u].task # t
  <2>1. block'[u] = block[u]
    BY <1>1, <1>2 DEF Land
  <2>2. u \in Inline
    BY <1>2, <2>1 DEF IInv, BlockOK
  <2> QED
    BY <1>2, <2>1, <2>2 DEF Land, Locked
<1>3. ASSUME NEW u \in Threads, block'[u] # NoBlock
      PROVE  \/ block[u] # NoBlock /\ block'[u].task = block[u].task
             \/ \E t \in Tasks : Land(u, t) /\ block'[u].task = t
  <2>1. ASSUME NEW b \in bodies, NEW x, OutcomeInBlock(b, x), b.thread = u,
               block'[u] = [block[u] EXCEPT !.row = x]
        PROVE  block[u] # NoBlock /\ block'[u].task = block[u].task
    BY <1>1, <2>1 DEF OutcomeInBlock, InOwnBlock, Block
  <2>2. ASSUME NEW t \in Tasks, Land(u, t),
               block'[u] = [task |-> t, row |-> ClaimedHere(row[t])]
        PROVE  \E w \in Tasks : Land(u, w) /\ block'[u].task = w
    BY <2>2
  <2> QED
    BY <1>3, <2>1, <2>2, BlocksChange
<1>4. CASE \E t \in Tasks : Land(p, t) /\ block'[p].task = t
  BY <1>2, <1>4
<1>5. CASE \E t \in Tasks : Land(q, t) /\ block'[q].task = t
  BY <1>2, <1>5
<1>6. CASE /\ block[p] # NoBlock /\ block'[p].task = block[p].task
           /\ block[q] # NoBlock /\ block'[q].task = block[q].task
  BY <1>6 DEF IInv, BlockOK
<1> QED
  BY <1>3, <1>4, <1>5, <1>6

\* The pair of a body that ends in its block is the block's.
LEMMA PairOfBlock ==
  ASSUME IInv, NEW b \in bodies, NEW q, OutcomeInBlock(b, q)
  PROVE  /\ b.thread \in Threads /\ block[b.thread] # NoBlock
         /\ block[b.thread].task = b.of[1]
         /\ b.of[2] = row[b.of[1]].epoch + 1
         /\ \A p \in Threads : block[p] # NoBlock /\ block[p].task = b.of[1] => p = b.thread
<1>1. b.thread \in Threads /\ block[b.thread] # NoBlock /\ InOwnBlock(b)
  BY DEF OutcomeInBlock, InOwnBlock, Threads
<1>2. /\ b.of = <<block[b.thread].task, block[b.thread].row.epoch>>
      /\ block[b.thread].row.epoch = row[block[b.thread].task].epoch + 1
      /\ \A p \in Threads : block[p] # NoBlock /\ block[p].task = block[b.thread].task
                              => p = b.thread
  BY <1>1 DEF IInv, BodyOK, BlockOK
<1> QED
  BY <1>1, <1>2

\* What a block holds after a step.
LEMMA BlocksStep ==
  ASSUME IInv, TableMoves, [Next]_vars, NEW p \in Threads
  PROVE  BlockOK(p)'
<1> SUFFICES ASSUME block'[p] # NoBlock
             PROVE  BlockOK(p)'
  BY DEF BlockOK
<1> DEFINE t == block'[p].task
           r == block'[p].row
<1>1. TypeOK /\ block \in [Threads -> Block] /\ claim \in [Threads -> Claim]
  BY DEF IInv, TypeOK
<1>2. \A q \in Threads : block'[q] # NoBlock /\ block'[q].task = t => q = p
  BY BlocksApart
<1>3. ASSUME /\ p \in Inline /\ t \in Tasks /\ row'[t].status = "READY"
             /\ r.epoch = row'[t].epoch + 1 /\ r.attempts = row'[t].attempts + 1 /\ RowOK(r)
             /\ Running(r) => \/ <<t, r.epoch>> \in Sets'
                              \/ claim'[p].at = "landed" /\ claim'[p].of = <<t, r.epoch>>
      PROVE  BlockOK(p)'
  BY <1>2, <1>3 DEF BlockOK, RowOK, Running
<1>4. CASE block'[p] = block[p]
  <2>1. /\ p \in Inline /\ t \in Tasks /\ row[t].status = "READY"
        /\ r.epoch = row[t].epoch + 1 /\ r.attempts = row[t].attempts + 1 /\ RowOK(r)
        /\ Running(r) => \/ <<t, r.epoch>> \in Sets
                         \/ claim[p].at = "landed" /\ claim[p].of = <<t, r.epoch>>
    BY <1>4 DEF IInv, BlockOK
  <2>2. row'[t] = row[t]
    <3>1. ~EndBlock(p)
      BY <1>1 DEF EndBlock
    <3> QED
      BY <1>4, <3>1, LockedRowStays
  <2>3. PICK h : h = <<t, r.epoch>>
    OBVIOUS
  <2>4. ASSUME Running(r), h \in Sets
        PROVE  h \in Sets'
    <3>1. h[1] = t /\ h[2] = row'[t].epoch + 1 /\ row'[t].epoch \in Nat
      BY <1>1, <2>1, <2>2, <2>3, HeldTypes
    <3>2. ~ClaimIsOver(h)'
      BY <3>1 DEF ClaimIsOver
    <3>3. ASSUME NEW b \in bodies, NEW q, OutcomeInBlock(b, q), b.of = h
          PROVE  FALSE
      <4>1. b.thread = p /\ b.thread \in Threads
        BY <1>4, <3>1, <3>3, PairOfBlock
      <4>2. r = q /\ ~Running(q)
        BY <1>1, <3>3, <4>1 DEF OutcomeInBlock, Block, InOwnBlock
      <4> QED
        BY <2>4, <4>2
    <3> QED
      BY <2>4, <3>2, <3>3, SetsStep
  <2>5. ASSUME Running(r), claim[p].at = "landed" /\ claim[p].of = h
        PROVE  h \in Sets' \/ (claim'[p].at = "landed" /\ claim'[p].of = h)
    BY <2>5, LandedStays
  <2> QED
    BY <1>3, <2>3, <2>1, <2>2, <2>4, <2>5
<1>5. ASSUME NEW u \in Tasks, Land(p, u), claim[p].in_block,
             block'[p] = [task |-> u, row |-> ClaimedHere(row[u])]
      PROVE  BlockOK(p)'
  <2>1. p \in Inline
    BY <1>5 DEF IInv, ClaimOK, Threads
  <2>2. t = u /\ r = ClaimedBy(row[u], Me) /\ row'[u] = row[u] /\ row[u].status = "READY"
    BY <1>5 DEF Land, ClaimedHere
  <2>3. /\ RowOK(r) /\ r.epoch = row[u].epoch + 1 /\ r.attempts = row[u].attempts + 1
    BY <2>2, ClaimMoves DEF IInv, RowsOK
  <2>4. claim'[p].at = "landed" /\ claim'[p].of = <<u, r.epoch>>
    BY <1>1, <1>5, <2>2 DEF Land, ClaimedHere, Claim
  <2> QED
    BY <1>3, <2>1, <2>2, <2>3, <2>4
<1>6. ASSUME NEW b \in bodies, NEW q, OutcomeInBlock(b, q), b.thread = p,
             block'[p] = [block[p] EXCEPT !.row = q]
      PROVE  BlockOK(p)'
  <2>1. /\ block[p] # NoBlock /\ t = block[p].task /\ r = q /\ row' = row
        /\ RowOK(q) /\ ~Running(q)
        /\ q.epoch = block[p].row.epoch /\ q.attempts = block[p].row.attempts
    BY <1>1, <1>6 DEF OutcomeInBlock, InOwnBlock, Block
  <2>2. /\ p \in Inline /\ t \in Tasks /\ row[t].status = "READY"
        /\ q.epoch = row[t].epoch + 1 /\ q.attempts = row[t].attempts + 1
    BY <2>1 DEF IInv, BlockOK
  <2> QED
    BY <1>3, <2>1, <2>2
<1> QED
  BY <1>4, <1>5, <1>6, BlocksChange
-----------------------------------------------------------------------------
(* Claims and bodies.                                                      *)

\* Whose claim a step changes, and what becomes of the bodies.
LEMMA ClaimsChange ==
  ASSUME IInv, [Next]_vars, NEW p \in Threads
  PROVE  claim'[p] = claim[p] \/ ClaimStep(p)
<1>1. claim \in [Threads -> Claim]
  BY DEF IInv, TypeOK
<1>2. ASSUME NEW q \in Threads, ClaimStep(q), q # p
      PROVE  claim'[p] = claim[p]
  BY <1>1, <1>2
  DEF ClaimStep, BeginClaim, ClaimNothing, Register, Return, Land, OverrideRaises,
      CountOutRaised
<1>3. CASE claim' = claim
  BY <1>3
<1> QED
  BY <1>2, <1>3
  DEF Next, vars, EndBlock, BodyStep, StartBody, EndRecorded, EndUnrecorded, GraceEnds,
      RecordStuck, LookStep, LookCheck, LookSnapshot, LookRead, LookReadUnseen, LookDrop,
      LookCompare, LookSettle, LookFails, NextPass, WindowCloses, LookRelease,
      OtherClaims, OtherEnds, LeaseExpires, Reap, OthersMove

LEMMA BodiesChange ==
  ASSUME IInv, [Next]_vars, NEW b \in bodies'
  PROVE  \/ b \in bodies
         \/ \E d \in bodies : /\ StartBody(d) \/ GraceEnds(d)
                              /\ bodies' = (bodies \ {d}) \cup {b}
                              /\ b.of = d.of /\ b.thread = d.thread
         \/ \E p \in Threads : /\ Return(p) /\ bodies' = bodies \cup {b}
                               /\ b.of = claim[p].of
                               /\ b.thread = IF p = Loop THEN "pool" ELSE p
<1>1. bodies \subseteq Body
  BY DEF IInv, TypeOK
<1>2. ASSUME NEW d \in bodies, StartBody(d) \/ GraceEnds(d), b \notin bodies
      PROVE  /\ bodies' = (bodies \ {d}) \cup {b}
             /\ b.of = d.of /\ b.thread = d.thread
  <2>1. PICK at \in {"running", "stuck"} :
          bodies' = (bodies \ {d}) \cup {[d EXCEPT !.at = at]}
    BY <1>2 DEF StartBody, GraceEnds
  <2>2. b = [d EXCEPT !.at = at]
    BY <1>2, <2>1
  <2>3. [d EXCEPT !.at = at].of = d.of /\ [d EXCEPT !.at = at].thread = d.thread
    BY <1>1 DEF Body
  <2> QED
    BY <2>1, <2>2, <2>3
<1>3. ASSUME NEW p \in Threads, Return(p), b \notin bodies
      PROVE  /\ bodies' = bodies \cup {b} /\ b.of = claim[p].of
             /\ b.thread = IF p = Loop THEN "pool" ELSE p
  <2> DEFINE e == [of |-> claim[p].of, at |-> "handed_off",
                   thread |-> IF p = Loop THEN "pool" ELSE p]
  <2>1. bodies' = bodies \cup {e} /\ b = e
    BY <1>3 DEF Return
  <2> QED
    BY <2>1
<1>4. ASSUME NEW d \in bodies, EndRecorded(d) \/ EndUnrecorded(d)
      PROVE  b \in bodies
  BY <1>4 DEF EndRecorded, EndUnrecorded
<1>5. CASE bodies' = bodies
  BY <1>5
<1> QED
  BY <1>2, <1>3, <1>4, <1>5
  DEF Next, vars, EndBlock, BodyStep, RecordStuck, LookStep, LookCheck, LookSnapshot,
      LookRead, LookReadUnseen, LookDrop,
      LookCompare, LookSettle, LookFails, NextPass, WindowCloses, LookRelease,
      OtherClaims, OtherEnds, LeaseExpires, Reap, OthersMove,
      ClaimStep, BeginClaim, ClaimNothing, Register, Land, OverrideRaises, CountOutRaised

\* The block of a claim that is under way stays as it is, until it lands there.
LEMMA ClaimersBlockStays ==
  ASSUME IInv, [Next]_vars, NEW p \in Threads, claim[p].at # "idle"
  PROVE  \/ block'[p] = block[p]
         \/ \E t \in Tasks : /\ Land(p, t) /\ claim[p].in_block
                             /\ block'[p] = [task |-> t, row |-> ClaimedHere(row[t])]
<1>1. ~EndBlock(p)
  BY DEF EndBlock, NoClaim
<1>2. \A b \in bodies : b.thread # p
  BY DEF IInv, ClaimOK
<1> QED
  BY <1>1, <1>2, BlocksChange

\* What becomes of the claim of a thread.
LEMMA ClaimForms ==
  ASSUME IInv, [Next]_vars, NEW p \in Threads
  PROVE  \/ claim'[p] = claim[p]
         \/ claim'[p] = NoClaim
         \/ /\ claim[p] = NoClaim /\ ~Busy(p) /\ UNCHANGED <<block, bodies>>
            /\ claim'[p].at = "begun" /\ (p = Loop => ~claim'[p].in_block)
         \/ \E t \in Tasks :
              /\ Land(p, t) /\ claim'[p].in_block = claim[p].in_block
              /\ claim'[p].at = "landed"
              /\ claim'[p].of = <<t, ClaimedHere(row[t]).epoch>>
         \/ /\ claim[p].at # "idle"
            /\ claim'[p].at = "raised" /\ claim'[p].in_block = claim[p].in_block
         \/ /\ Register(p) /\ claim[p].at = "landed" /\ claim[p].of \in Sets'
            /\ claim'[p].at = "registered" /\ claim'[p].in_block = claim[p].in_block
            /\ claim'[p].of = claim[p].of
<1>1. claim \in [Threads -> Claim]
  BY DEF IInv, TypeOK
<1> DEFINE c == claim[p]
<1>2. ASSUME NEW in_block \in BOOLEAN, BeginClaim(p, in_block)
      PROVE  /\ c = NoClaim /\ ~Busy(p) /\ UNCHANGED <<block, bodies>>
             /\ claim'[p].at = "begun" /\ (p = Loop => ~claim'[p].in_block)
  BY <1>1, <1>2 DEF BeginClaim, NoClaim
<1>3. ASSUME NEW where \in {"raised", "registered"}, claim' = [claim EXCEPT ![p].at = where]
      PROVE  claim'[p].at = where /\ claim'[p].in_block = c.in_block /\ claim'[p].of = c.of
  BY <1>1, <1>3 DEF Claim
<1>4. ASSUME NEW t \in Tasks, Land(p, t)
      PROVE  \/ /\ c.at = "begun"
                /\ claim'[p].at = "raised" /\ claim'[p].in_block = c.in_block
             \/ /\ Land(p, t) /\ claim'[p].in_block = c.in_block
                /\ claim'[p].at = "landed"
                /\ claim'[p].of = <<t, ClaimedHere(row[t]).epoch>>
  <2> DEFINE held == <<t, ClaimedHere(row[t]).epoch>>
  <2>1. \/ claim' = [claim EXCEPT ![p].at = "landed", ![p].of = held]
        \/ claim' = [claim EXCEPT ![p].at = "raised"]
    BY <1>4 DEF Land
  <2>2. c.at = "begun"
    BY <1>4 DEF Land
  <2> HIDE DEF held
  <2>3. CASE claim' = [claim EXCEPT ![p].at = "landed", ![p].of = held]
    <3>1. /\ claim'[p].at = "landed" /\ claim'[p].in_block = c.in_block
          /\ claim'[p].of = held
      BY <1>1, <2>3 DEF Claim
    <3> QED
      BY <1>4, <3>1 DEF held
  <2> QED
    BY <1>3, <2>1, <2>2, <2>3
<1>5. ASSUME Register(p)
      PROVE  claim[p].of \in Sets'
  BY <1>5 DEF Register, Sets
<1>6. ASSUME ClaimNothing(p)
      PROVE  \/ claim'[p] = NoClaim
             \/ /\ c.at = "begun"
                /\ claim'[p].at = "raised" /\ claim'[p].in_block = c.in_block
  BY <1>1, <1>3, <1>6 DEF ClaimNothing
<1>7. ASSUME Return(p) \/ CountOutRaised(p)
      PROVE  claim'[p] = NoClaim
  BY <1>1, <1>7 DEF Return, CountOutRaised
<1>8. ASSUME Register(p)
      PROVE  /\ c.at = "landed" /\ claim'[p].at = "registered"
             /\ claim'[p].in_block = c.in_block /\ claim'[p].of = c.of
  BY <1>3, <1>8 DEF Register
<1>9. ASSUME OverrideRaises(p)
      PROVE  /\ c.at = "registered"
             /\ claim'[p].at = "raised" /\ claim'[p].in_block = c.in_block
  BY <1>3, <1>9 DEF OverrideRaises
<1> HIDE DEF c
<1>10. ASSUME ClaimStep(p)
      PROVE  \/ BeginClaim(p, TRUE) \/ BeginClaim(p, FALSE)
             \/ \E t \in Tasks : Land(p, t)
             \/ ClaimNothing(p) \/ Register(p) \/ Return(p) \/ OverrideRaises(p)
             \/ CountOutRaised(p)
  BY <1>10 DEF ClaimStep
<1> QED
  BY <1>2, <1>4, <1>5, <1>6, <1>7, <1>8, <1>9, <1>10, ClaimsChange DEF c

\* Nobody claims for a thread that has a body, and it has at most one.
LEMMA BodiesOfClaimers ==
  ASSUME IInv, [Next]_vars, NEW p \in Threads, NEW b \in bodies', b.thread = p
  PROVE  claim'[p] = NoClaim
<1>1. p # "pool" /\ NoClaim.at = "idle"
  BY RecoveryAssumption DEF NoClaim
<1>2. ASSUME NEW d \in bodies, d.thread = p
      PROVE  claim'[p] = NoClaim
  <2>1. claim[p] = NoClaim /\ Busy(p)
    BY <1>2 DEF IInv, ClaimOK, Busy
  <2>2. ~Register(p) /\ \A t \in Tasks : ~Land(p, t)
    BY <1>1, <2>1 DEF Register, Land
  <2> QED
    BY <1>1, <2>1, <2>2, ClaimForms
<1>3. ASSUME NEW q \in Threads, Return(q), b.thread = IF q = Loop THEN "pool" ELSE q
      PROVE  claim'[p] = NoClaim
  <2>1. q = p
    BY <1>1, <1>3
  <2> QED
    BY <1>3, <2>1 DEF Return, IInv, TypeOK
<1> QED
  BY <1>2, <1>3, BodiesChange

\* What is true of a claim after a step.
LEMMA ClaimsStep ==
  ASSUME IInv, TableMoves, [Next]_vars, NEW p \in Threads
  PROVE  ClaimOK(p)'
<1>1. /\ TypeOK /\ ClaimOK(p) /\ BlockOK(p) /\ NoClaim.at = "idle" /\ ~NoClaim.in_block
      /\ claim \in [Threads -> Claim]
  BY DEF IInv, NoClaim, TypeOK
<1>2. claim'[p].at = "idle" => claim'[p] = NoClaim
  BY <1>1, ClaimForms DEF ClaimOK
<1>3. p = Loop => ~claim'[p].in_block
  BY <1>1, ClaimForms DEF ClaimOK
<1>4. claim'[p].at # "idle" => \A b \in bodies' : b.thread # p
  BY <1>1, BodiesOfClaimers
<1>5. claim'[p].at = "begun" => block'[p] = NoBlock
  <2>1. CASE claim'[p] = claim[p]
    <3>1. \A t \in Tasks : claim[p].at = "begun" => ~(Land(p, t) /\ claim[p].in_block)
      <4>1. SUFFICES ASSUME NEW t \in Tasks, claim[p].at = "begun", Land(p, t), claim[p].in_block
                     PROVE  FALSE
        OBVIOUS
      <4>2. claim'[p].at = "landed"
        BY <1>1, <4>1 DEF Land, Claim
      <4> QED
        BY <2>1, <4>1, <4>2
    <3> QED
      BY <1>1, <2>1, <3>1, ClaimersBlockStays DEF ClaimOK
  <2>2. CASE claim[p] = NoClaim /\ ~Busy(p) /\ UNCHANGED <<block, bodies>>
    BY <2>2 DEF Busy
  <2> QED
    BY <1>1, <2>1, <2>2, ClaimForms
<1>6. claim'[p].at \in {"landed", "registered"} =>
        /\ claim'[p].of \in Held
        /\ IF block'[p] # NoBlock
           THEN claim'[p].of = <<block'[p].task, block'[p].row.epoch>>
           ELSE claim'[p].of[2] <= row'[claim'[p].of[1]].epoch
  <2>1. ASSUME claim'[p].of = claim[p].of, claim[p].at \in {"landed", "registered"}
        PROVE  /\ claim'[p].of \in Held
               /\ IF block'[p] # NoBlock
                  THEN claim'[p].of = <<block'[p].task, block'[p].row.epoch>>
                  ELSE claim'[p].of[2] <= row'[claim'[p].of[1]].epoch
    <3> PICK h : h = claim[p].of
      OBVIOUS
    <3>1. /\ h \in Held
          /\ IF block[p] # NoBlock THEN h = <<block[p].task, block[p].row.epoch>>
             ELSE h[2] <= row[h[1]].epoch
      BY <1>1, <2>1 DEF ClaimOK
    <3>2. /\ h[1] \in Tasks /\ h[2] \in Nat
          /\ row[h[1]].epoch \in Nat /\ row'[h[1]].epoch \in Nat
          /\ row[h[1]].epoch <= row'[h[1]].epoch
      BY <1>1, <3>1, HeldTypes, RowTypes DEF Held, TableMoves, Move
    <3>3. block'[p] = block[p]
      BY <2>1, ClaimersBlockStays DEF Land
    <3> QED
      BY <2>1, <3>1, <3>2, <3>3
  <2>2. ASSUME NEW t \in Tasks, Land(p, t), claim'[p].at = "landed",
               claim'[p].of = <<t, ClaimedHere(row[t]).epoch>>
        PROVE  /\ claim'[p].of \in Held
               /\ IF block'[p] # NoBlock
                  THEN claim'[p].of = <<block'[p].task, block'[p].row.epoch>>
                  ELSE claim'[p].of[2] <= row'[claim'[p].of[1]].epoch
    <3> DEFINE q == ClaimedHere(row[t])
    <3>1. q.epoch \in Nat /\ block[p] = NoBlock /\ RowOK(q)
      BY <1>1, <2>2, ClaimMoves, RowTypes DEF ClaimedHere, IInv, RowsOK, RowOK, ClaimOK, Land
    <3>2. CASE claim[p].in_block
      <4>1. block'[p] = [task |-> t, row |-> q]
        BY <1>1, <2>2, <3>2 DEF Land, TypeOK
      <4> HIDE DEF q
      <4>2. block'[p].task = t /\ block'[p].row = q
        BY <4>1
      <4>3. block'[p] # NoBlock
        BY <4>1 DEF NoBlock
      <4>4. claim'[p].of = <<t, q.epoch>> /\ q.epoch \in Nat
        BY <2>2, <3>1 DEF q
      <4> QED
        BY <4>2, <4>3, <4>4 DEF Held
    <3>3. CASE ~claim[p].in_block
      <4>1. block'[p] = NoBlock /\ row'[t] = q
        BY <1>1, <2>2, <3>1, <3>3 DEF Land, TypeOK
      <4> HIDE DEF q
      <4> QED
        BY <2>2, <3>1, <4>1 DEF q, Held
    <3> QED
      BY <3>2, <3>3
  <2>3. ASSUME NEW q, q.at = "idle" \/ q.at = "begun" \/ q.at = "raised"
        PROVE  q.at \notin {"landed", "registered"}
    BY <2>3
  <2> QED
    BY <1>1, <2>1, <2>2, <2>3, ClaimForms
<1>7. claim'[p].at = "registered" => claim'[p].of \in Sets' \/ ClaimIsOver(claim[p].of)'
  <2>1. CASE Register(p) /\ claim[p].of \in Sets' /\ claim'[p].of = claim[p].of
    BY <2>1
  <2>2. ASSUME claim'[p] = claim[p], claim[p].at = "registered"
        PROVE  claim'[p].of \in Sets' \/ ClaimIsOver(claim[p].of)'
    <3> PICK h : h = claim[p].of
      OBVIOUS
    <3>1. h \in Held /\ (h \in Sets \/ ClaimIsOver(h))
      BY <1>1, <2>2 DEF ClaimOK
    <3>2. ASSUME NEW b \in bodies, NEW q, OutcomeInBlock(b, q), b.of = h
          PROVE  FALSE
      <4>1. h[1] \in Tasks /\ h[2] \in Nat /\ row[h[1]].epoch \in Nat
        BY <1>1, <3>1, HeldTypes DEF Held
      <4>2. h[2] = row[h[1]].epoch + 1 /\ b.thread \in Threads
            /\ (block[p] # NoBlock /\ block[p].task = h[1] => p = b.thread)
        BY <3>2, PairOfBlock
      <4>3. block[p] # NoBlock /\ block[p].task = h[1]
        BY <1>1, <2>2, <4>1, <4>2 DEF ClaimOK
      <4> QED
        BY <1>1, <2>2, <4>2, <4>3 DEF ClaimOK
    <3>3. h \in Sets' \/ ClaimIsOver(h)'
      BY <1>1, <3>1, <3>2, OverStays, SetsStep
    <3> QED
      BY <2>2, <3>3
  <2> QED
    BY <1>1, <2>1, <2>2, ClaimForms
<1> QED
  BY <1>2, <1>3, <1>4, <1>5, <1>6, <1>7 DEF ClaimOK

\* What is true of a body after a step.
LEMMA BodiesStep ==
  ASSUME IInv, TableMoves, [Next]_vars, NEW b \in bodies'
  PROVE  BodyOK(b)'
<1>1. /\ TypeOK /\ block \in [Threads -> Block] /\ \A d \in bodies : BodyOK(d)
      /\ NoClaim.at = "idle"
  BY DEF IInv, TypeOK, NoClaim
<1>2. /\ b.of \in Held /\ b.of[1] \in Tasks /\ b.of[2] \in Nat
      /\ b.thread \in Inline \cup {"pool"}
  <2>1. TypeOK'
    BY TypeStep
  <2> QED
    BY <2>1 DEF TypeOK, Body, Held
<1>3. /\ row[b.of[1]].epoch \in Nat /\ row'[b.of[1]].epoch \in Nat
      /\ row[b.of[1]].epoch <= row'[b.of[1]].epoch
  BY <1>1, <1>2, HeldTypes, RowTypes DEF TableMoves, Move
<1> DEFINE Pair(q) == b.of = <<q.task, q.row.epoch>>
           Placed == IF InOwnBlock(b)' THEN Pair(block'[b.thread])
                     ELSE b.of[2] <= row'[b.of[1]].epoch
           Known == b.of \in Sets' \/ ClaimIsOver(b.of)'
           OnItsOwn == \A c \in bodies' : c.thread = b.thread /\ b.thread # "pool" => c = b
<1>4. ASSUME NEW d \in bodies, b.of = d.of, b.thread = d.thread
      PROVE  Placed
  <2>1. IF b.thread # "pool" /\ block[b.thread] # NoBlock THEN Pair(block[b.thread])
        ELSE b.of[2] <= row[b.of[1]].epoch
    BY <1>1, <1>4 DEF BodyOK, InOwnBlock
  <2>2. CASE b.thread = "pool"
    BY <1>2, <1>3, <2>1, <2>2 DEF InOwnBlock
  <2>3. CASE b.thread # "pool"
    <3>1. /\ b.thread \in Threads /\ ~EndBlock(b.thread)
          /\ \A t \in Tasks : ~Land(b.thread, t)
      BY <1>1, <1>2, <1>4, <2>3 DEF Threads, EndBlock, Land, IInv, ClaimOK
    <3>2. ASSUME NEW e \in bodies, NEW q, OutcomeInBlock(e, q), e.thread = b.thread,
                 block'[b.thread] = [block[b.thread] EXCEPT !.row = q]
          PROVE  /\ block[b.thread] # NoBlock
                 /\ block'[b.thread].task = block[b.thread].task
                 /\ block'[b.thread].row.epoch = block[b.thread].row.epoch
                 /\ block'[b.thread] # NoBlock
      <4>1. /\ block[b.thread] \in [task : Tasks, row : Row]
            /\ q.epoch = block[b.thread].row.epoch /\ block[b.thread] # NoBlock
        BY <1>1, <3>1, <3>2 DEF Block, OutcomeInBlock, InOwnBlock
      <4>2. /\ block'[b.thread].task = block[b.thread].task
            /\ block'[b.thread].row = q /\ block'[b.thread] \in [task : Tasks, row : Row]
        BY <3>2, <4>1, HeldTypes DEF OutcomeInBlock, RowOK
      <4> QED
        BY <4>1, <4>2 DEF NoBlock
    <3>3. block'[b.thread] = block[b.thread]
          \/ /\ block[b.thread] # NoBlock /\ block'[b.thread] # NoBlock
             /\ block'[b.thread].task = block[b.thread].task
             /\ block'[b.thread].row.epoch = block[b.thread].row.epoch
      BY <3>1, <3>2, BlocksChange
    <3> QED
      BY <1>2, <1>3, <2>1, <2>3, <3>3 DEF InOwnBlock
  <2> QED
    BY <2>2, <2>3
<1>5. ASSUME NEW d \in bodies, b.of = d.of, b.thread = d.thread, d = b \/ b \notin bodies
      PROVE  Known
  <2>1. d.of \in Sets \/ ClaimIsOver(d.of)
    BY <1>1 DEF BodyOK
  <2>2. ASSUME NEW e \in bodies, NEW q, EndRecorded(e), OutcomeInBlock(e, q), e.of = d.of
        PROVE  FALSE
    <3>1. /\ e.thread \in Threads /\ block[e.thread] # NoBlock /\ e.thread # "pool"
          /\ b.of[2] = row[b.of[1]].epoch + 1
          /\ \A p \in Threads : block[p] # NoBlock /\ block[p].task = b.of[1]
                                  => p = e.thread
      BY <1>5, <2>2, PairOfBlock DEF OutcomeInBlock, InOwnBlock
    <3>2. InOwnBlock(d) /\ block[d.thread].task = b.of[1]
      BY <1>1, <1>2, <1>3, <1>5, <3>1 DEF BodyOK
    <3>3. d.thread = e.thread
      BY <1>2, <1>5, <3>1, <3>2 DEF InOwnBlock, Threads
    <3>4. d = e
      BY <1>1, <3>1, <3>3 DEF BodyOK
    <3>5. bodies' = bodies \ {d}
      BY <2>2, <3>4 DEF EndRecorded
    <3> QED
      BY <1>5, <3>5
  <2>3. d.of \in Sets' \/ ClaimIsOver(d.of)'
    BY <1>1, <1>2, <1>5, <2>1, <2>2, OverStays, SetsStep
  <2> QED
    BY <1>5, <2>3
<1>6. ASSUME NEW p \in Threads, Return(p), b.of = claim[p].of,
             b.thread = IF p = Loop THEN "pool" ELSE p
      PROVE  Placed /\ Known
  <2>1. /\ ClaimOK(p) /\ BlockOK(p) /\ claim[p].at = "registered"
        /\ UNCHANGED <<row, block, sets>>
    BY <1>6 DEF Return, IInv
  <2>2. Known
    BY <1>6, <2>1 DEF ClaimOK, Sets, sets, ClaimIsOver, Mine
  <2>3. IF block[p] # NoBlock THEN Pair(block[p]) ELSE b.of[2] <= row[b.of[1]].epoch
    BY <1>6, <2>1 DEF ClaimOK
  <2>4. block[p] # NoBlock => p # Loop
    BY <2>1, RecoveryAssumption DEF BlockOK
  <2>5. p # "pool"
    BY RecoveryAssumption
  <2>6. Placed
    BY <1>6, <2>1, <2>3, <2>4, <2>5 DEF InOwnBlock
  <2> QED
    BY <2>2, <2>6
<1>7. ASSUME NEW x \in bodies', x \notin bodies, NEW c \in bodies',
             c.thread = x.thread, x.thread # "pool"
      PROVE  c = x
  <2>1. ASSUME NEW d \in bodies, bodies' = (bodies \ {d}) \cup {x}, x.thread = d.thread
        PROVE  c = x
    BY <1>1, <1>7, <2>1 DEF BodyOK
  <2>2. ASSUME NEW p \in Threads, Return(p), bodies' = bodies \cup {x},
               x.thread = IF p = Loop THEN "pool" ELSE p
        PROVE  c = x
    <3>1. \A d \in bodies : d.thread # p
      BY <1>1, <2>2 DEF Return, IInv, ClaimOK
    <3> QED
      BY <1>7, <2>2, <3>1
  <2> QED
    BY <1>7, <2>1, <2>2, BodiesChange
<1>8. OnItsOwn
  BY <1>1, <1>7 DEF BodyOK
<1> HIDE DEF Placed, Known
<1>9. Placed /\ Known
  BY <1>4, <1>5, <1>6, BodiesChange
<1> QED
  BY <1>8, <1>9 DEF BodyOK, Placed, Known
-----------------------------------------------------------------------------
(* The orphans, and the claims that returned.                              *)

\* Only a claim that committed and raised makes an orphan.
LEMMA OrphansChange ==
  ASSUME IInv, [Next]_vars
  PROVE  \/ orphans' = orphans
         \/ \E p \in Threads, t \in Tasks :
              /\ Land(p, t) /\ ~claim[p].in_block
              /\ orphans' = orphans \cup {<<t, row[t].epoch + 1>>}
              /\ row'[t] = ClaimedHere(row[t]) /\ row'[t].epoch = row[t].epoch + 1
<1>1. ASSUME NEW p \in Threads, NEW t \in Tasks, Land(p, t), orphans' # orphans
      PROVE  /\ ~claim[p].in_block
             /\ orphans' = orphans \cup {<<t, row[t].epoch + 1>>}
             /\ row'[t] = ClaimedHere(row[t]) /\ row'[t].epoch = row[t].epoch + 1
  <2>1. ClaimedHere(row[t]).epoch = row[t].epoch + 1
    BY ClaimMoves DEF IInv, RowsOK, ClaimedHere
  <2>2. /\ ~claim[p].in_block
        /\ orphans' = orphans \cup {<<t, ClaimedHere(row[t]).epoch>>}
        /\ row' = [row EXCEPT ![t] = ClaimedHere(row[t])]
    BY <1>1 DEF Land
  <2>3. row'[t] = ClaimedHere(row[t])
    BY <2>2, HeldTypes DEF IInv
  <2> QED
    BY <2>1, <2>2, <2>3
<1>2. ASSUME NEW p \in Threads, ClaimStep(p), orphans' # orphans
      PROVE  \E t \in Tasks : Land(p, t)
  BY <1>2
  DEF ClaimStep, BeginClaim, ClaimNothing, Register, Return, OverrideRaises, CountOutRaised
<1> QED
  BY <1>1, <1>2
  DEF Next, vars, EndBlock, BodyStep, StartBody, EndRecorded, EndUnrecorded, GraceEnds,
      RecordStuck, LookStep, LookCheck, LookSnapshot, LookRead, LookReadUnseen, LookDrop,
      LookCompare, LookSettle, LookFails, NextPass, WindowCloses, LookRelease,
      OtherClaims, OtherEnds, LeaseExpires, Reap, OthersMove

LEMMA OrphansStep ==
  ASSUME IInv, TableMoves, [Next]_vars
  PROVE  OrphansOK'
<1>1. TypeOK /\ orphans \subseteq Held
  BY DEF IInv, TypeOK
<1>2. ASSUME NEW h \in orphans
      PROVE  h[2] <= row'[h[1]].epoch
  <2>1. /\ h[1] \in Tasks /\ h[2] \in Nat /\ h[2] <= row[h[1]].epoch
        /\ row[h[1]].epoch \in Nat /\ row'[h[1]].epoch \in Nat
        /\ row[h[1]].epoch <= row'[h[1]].epoch
    BY <1>1, HeldTypes, RowTypes DEF Held, TableMoves, Move, IInv, OrphansOK
  <2> QED
    BY <2>1
<1>3. ASSUME NEW t \in Tasks, row'[t].epoch = row[t].epoch + 1
      PROVE  row[t].epoch + 1 <= row'[t].epoch
  BY <1>1, <1>3, HeldTypes
<1> QED
  BY <1>2, <1>3, OrphansChange DEF OrphansOK

\* What changes the epoch of a row that is then running here: a claim made in
\* autocommit, or the commit of a transaction that claimed it.
LEMMA RunningHere ==
  ASSUME IInv, [Next]_vars, NEW t \in Tasks, Running(row'[t]), row'[t] # row[t]
  PROVE  \/ row'[t].epoch = row[t].epoch /\ Running(row[t])
         \/ /\ row'[t].epoch = row[t].epoch + 1
            /\ \/ \E p \in Threads : Land(p, t) /\ ~claim[p].in_block
               \/ \E p \in Threads : /\ EndBlock(p) /\ block[p] # NoBlock
                                     /\ block[p].task = t /\ row'[t] = block[p].row
<1>1. /\ TypeOK /\ RowsOK /\ row \in [Tasks -> Row]
      /\ \A u \in Tasks : RowOK(row[u]) /\ row[u].epoch \in Nat
  BY HeldTypes DEF IInv, RowsOK
<1>2. ASSUME NEW u \in Tasks, NEW q, row' = [row EXCEPT ![u] = q]
      PROVE  t = u /\ row'[t] = q
  BY <1>1, <1>2
<1>3. ASSUME NEW p \in Threads, NEW u \in Tasks, Land(p, u)
      PROVE  t = u /\ ~claim[p].in_block /\ row'[t].epoch = row[t].epoch + 1
  <2>1. ~claim[p].in_block /\ row' = [row EXCEPT ![u] = ClaimedHere(row[u])]
    BY <1>3 DEF Land
  <2> QED
    BY <1>1, <1>2, <2>1, ClaimMoves DEF ClaimedHere
<1>4. ASSUME NEW p \in Threads, EndBlock(p)
      PROVE  block[p].task = t /\ row'[t] = block[p].row /\ row'[t].epoch = row[t].epoch + 1
  <2>1. /\ block[p].task \in Tasks
        /\ row' = [row EXCEPT ![block[p].task] = block[p].row]
        /\ block[p].row.epoch = row[block[p].task].epoch + 1
    BY <1>4 DEF EndBlock, IInv, BlockOK
  <2> QED
    BY <1>2, <2>1
<1>5. ASSUME NEW b \in bodies, BodyStep(b)
      PROVE  FALSE
  <2>1. PICK q : row' = [row EXCEPT ![b.of[1]] = q] /\ ~Running(q)
    BY <1>5, OutcomeStep, RecordStep
    DEF BodyStep, StartBody, EndRecorded, EndUnrecorded, GraceEnds, OutcomeInBlock,
        OutcomeOnTable
  <2> QED
    BY <1>1, <1>2, <2>1, HeldTypes
<1>6. ASSUME NEW r \in look.rows, LookRelease(r)
      PROVE  FALSE
  <2>1. /\ StillTheClaim(r) /\ row' = [row EXCEPT ![r.task] = ReleasedClaim(row[r.task], r)]
        /\ r.task \in Tasks /\ ReadOK(r)
    BY <1>1, <1>6, HeldTypes DEF LookRelease, IInv, LookOK
  <2>2. ~Running(ReleasedClaim(row[r.task], r))
    BY <1>1, <2>1, ReleaseMoves DEF StillTheClaim, Mine, ReadOK, Running
  <2> QED
    BY <1>2, <2>1, <2>2
<1>7. ASSUME NEW u \in Tasks, OtherClaims(u)
      PROVE  FALSE
  <2>1. row' = [row EXCEPT ![u] = ClaimedBy(row[u], Other)]
    BY <1>7 DEF OtherClaims, OthersMove
  <2>2. ~Running(ClaimedBy(row[u], Other))
    BY <1>1, ClaimMoves, RecoveryAssumption DEF Running
  <2> QED
    BY <1>2, <2>1, <2>2
<1>8. ASSUME NEW u \in Tasks, OtherEnds(u) \/ Reap(u)
      PROVE  FALSE
  <2>1. PICK status \in {"READY", "LOST", "DONE"}, e \in Nat :
          row' = [row EXCEPT ![u] = Free(row[u], status, e)] /\ row[u].epoch <= e
    BY <1>1, <1>8 DEF OtherEnds, Reap, OthersMove
  <2>2. ~Running(Free(row[u], status, e))
    BY <1>1, <2>1, FreeMoves
  <2> QED
    BY <1>2, <2>1, <2>2
<1>9. ASSUME NEW u \in Tasks, LeaseExpires(u)
      PROVE  row'[t].epoch = row[t].epoch /\ Running(row[t])
  <2>1. row' = [row EXCEPT ![u] = [row[u] EXCEPT !.expired = TRUE]]
    BY <1>9 DEF LeaseExpires, OthersMove
  <2>2. t = u /\ row'[t] = [row[t] EXCEPT !.expired = TRUE]
    BY <1>2, <2>1
  <2> QED
    BY <1>1, <2>2 DEF RowOK, Row, Running
<1>10. ASSUME NEW p \in Threads, ClaimStep(p)
       PROVE  \E u \in Tasks : Land(p, u)
  BY <1>10
  DEF ClaimStep, BeginClaim, ClaimNothing, Register, Return, OverrideRaises, CountOutRaised
<1>11. CASE LookStep
  BY <1>6, <1>11
  DEF LookStep, LookCheck, LookSnapshot, LookRead, LookReadUnseen, LookDrop, LookCompare,
      LookSettle, LookFails, NextPass, WindowCloses
<1>12. ASSUME NEW p \in Threads, EndBlock(p)
       PROVE  EndBlock(p) /\ block[p] # NoBlock
  BY <1>12 DEF EndBlock
<1> QED
  BY <1>3, <1>4, <1>5, <1>7, <1>8, <1>9, <1>10, <1>11, <1>12 DEF Next, vars

\* A claim that returned is known, or an orphan, until it is over.
LEMMA ReturnedStep ==
  ASSUME IInv, TableMoves, [Next]_vars
  PROVE  ReturnedClaimsAreKnown'
<1>1. /\ TypeOK /\ \A t \in Tasks : row[t].epoch \in Nat /\ Move(row[t], row'[t])
      /\ NoClaim.at = "idle"
  BY HeldTypes DEF IInv, TableMoves, NoClaim
<1>2. SUFFICES ASSUME NEW t \in Tasks, Running(row'[t])
               PROVE  \/ <<t, row'[t].epoch>> \in Sets' \cup orphans'
                      \/ \E p \in Threads :
                           claim'[p].at = "landed" /\ claim'[p].of = <<t, row'[t].epoch>>
  BY <1>2 DEF ReturnedClaimsAreKnown, Mine, Running, Sets
<1>3. CASE row'[t].epoch = row[t].epoch /\ Running(row[t])
  <2>1. PICK h : h = <<t, row[t].epoch>>
    OBVIOUS
  <2>2. h \in Sets \/ h \in orphans
        \/ \E p \in Threads : claim[p].at = "landed" /\ claim[p].of = h
    BY <1>3, <2>1 DEF IInv, ReturnedClaimsAreKnown, Mine, Running, Sets
  <2>3. CASE h \in Sets
    <3>1. ~ClaimIsOver(h)'
      BY <1>1, <1>2, <1>3, <2>1 DEF ClaimIsOver, Mine, Running
    <3>2. ASSUME NEW b \in bodies, NEW q, OutcomeInBlock(b, q), b.of = h
          PROVE  FALSE
      <4>1. h[2] = row[h[1]].epoch + 1
        BY <3>2, PairOfBlock
      <4> QED
        BY <1>1, <2>1, <4>1
    <3> QED
      BY <1>3, <2>1, <2>3, <3>1, <3>2, SetsStep
  <2>4. CASE h \in orphans
    BY <1>3, <2>1, <2>4, OrphansChange
  <2>5. ASSUME NEW p \in Threads, claim[p].at = "landed", claim[p].of = h
        PROVE  h \in Sets' \/ (claim'[p].at = "landed" /\ claim'[p].of = h)
    BY <2>5, LandedStays
  <2> QED
    BY <1>3, <2>1, <2>2, <2>3, <2>4, <2>5
<1>4. ASSUME NEW p \in Threads, Land(p, t), ~claim[p].in_block
      PROVE  \/ <<t, row'[t].epoch>> \in orphans'
             \/ claim'[p].at = "landed" /\ claim'[p].of = <<t, row'[t].epoch>>
  <2> DEFINE held == <<t, ClaimedHere(row[t]).epoch>>
  <2>1. row'[t] = ClaimedHere(row[t])
    BY <1>1, <1>4, HeldTypes DEF Land
  <2>2. \/ claim' = [claim EXCEPT ![p].at = "landed", ![p].of = held]
        \/ held \in orphans'
    BY <1>4 DEF Land
  <2>3. held = <<t, row'[t].epoch>>
    BY <2>1
  <2> HIDE DEF held
  <2>4. ASSUME claim' = [claim EXCEPT ![p].at = "landed", ![p].of = held]
        PROVE  claim'[p].at = "landed" /\ claim'[p].of = held
    BY <1>1, <2>4 DEF TypeOK, Claim
  <2> QED
    BY <2>2, <2>3, <2>4
<1>5. ASSUME NEW p \in Threads, EndBlock(p), block[p] # NoBlock, block[p].task = t,
             row'[t] = block[p].row
      PROVE  <<t, row'[t].epoch>> \in Sets'
  <2>1. claim[p] = NoClaim /\ UNCHANGED sets
    BY <1>5 DEF EndBlock
  <2>2. <<t, row'[t].epoch>> \in Sets
    BY <1>1, <1>2, <1>5, <2>1 DEF IInv, BlockOK
  <2> QED
    BY <2>1, <2>2 DEF Sets, sets
<1>6. CASE row'[t] = row[t]
  BY <1>2, <1>3, <1>6
<1> QED
  BY <1>2, <1>3, <1>4, <1>5, <1>6, RunningHere
-----------------------------------------------------------------------------
(* The look.                                                               *)

\* What a step does to the look: nothing, or one of its own statements, or the count-in
\* of a claim.
LookReads == {ReadOf(t) : t \in {u \in Tasks : Mine(u)}}

LookForm ==
  \/ look' = look /\ (~ClaimsInFlight => ~ClaimsInFlight')
  \/ /\ look.at \notin {"due", "done"} => look'.moved
     /\ look'.at = look.at /\ look'.known = look.known
     /\ look'.rows = look.rows /\ look'.over = look.over
  \/ look' = LookAt("due") \/ look' = LookAt("done")
  \/ (look' = LookAt("snapshot") /\ ~ClaimsInFlight')
  \/ /\ LookSnapshot
     /\ look'.at = "reading" /\ look'.known = Sets
     /\ look'.rows = look.rows /\ look'.over = look.over /\ look'.moved = look.moved
  \/ /\ LookRead
     /\ look'.at = "rereading" /\ look'.known = look.known /\ look'.moved = look.moved
     /\ look'.rows = LookReads
     /\ look'.over = {h \in look.examined :
                        \E r \in LookReads : r.task = h[1] /\ r.epoch > h[2]}
  \/ /\ LookReadUnseen
     /\ look'.at = "dropping" /\ look'.known = look.known /\ look'.moved = look.moved
     /\ look'.rows = look.rows
     /\ \A h \in look'.over : h \in look.over \/ (h \in look.examined /\ ClaimIsOver(h))
  \/ /\ LookDrop \/ (LookCompare /\ ~look.moved)
     /\ look'.at = IF LookDrop THEN "comparing" ELSE "releasing"
     /\ look'.known = look.known /\ look'.moved = look.moved
     /\ look'.rows = look.rows /\ look'.over = look.over
  \/ \E r \in look.rows :
       /\ LookRelease(r)
       /\ look'.at = "releasing" /\ look'.known = look.known /\ look'.moved = look.moved
       /\ look'.rows = look.rows \ {r} /\ look'.over = look.over

LEMMA LookForms ==
  ASSUME IInv, [Next]_vars
  PROVE  LookForm
<1>1. TypeOK /\ look \in Look /\ NoClaim.at = "idle" /\ claim \in [Threads -> Claim]
  BY DEF IInv, TypeOK, NoClaim
<1>2. ASSUME NEW p \in Threads, NEW in_block \in BOOLEAN, BeginClaim(p, in_block)
      PROVE  /\ look.at \notin {"due", "done"} => look'.moved
             /\ look'.at = look.at /\ look'.known = look.known
             /\ look'.rows = look.rows /\ look'.over = look.over
  <2>1. look' = [look EXCEPT !.moved = look.at \notin {"due", "done"}]
    BY <1>2 DEF BeginClaim, CountedIn
  <2> QED
    BY <1>1, <2>1 DEF Look
<1>3. ASSUME NEW p \in Threads, ClaimStep(p), ~\E in_block \in BOOLEAN : BeginClaim(p, in_block)
      PROVE  \/ look' = look /\ (~ClaimsInFlight => ~ClaimsInFlight')
             \/ look' = LookAt("due")
  <2>1. look' = look \/ look' = LookAt("due")
    BY <1>3
    DEF ClaimStep, ClaimNothing, Register, Return, Land, OverrideRaises, CountOutRaised
  <2>2. ClaimsInFlight
    BY <1>1, <1>3
    DEF ClaimStep, ClaimNothing, Register, Return, Land, OverrideRaises, CountOutRaised,
        ClaimsInFlight
  <2> QED
    BY <2>1, <2>2
<1>4. ASSUME UNCHANGED <<look, claim>>
      PROVE  look' = look /\ (~ClaimsInFlight => ~ClaimsInFlight')
  BY <1>4 DEF ClaimsInFlight
<1>5. ASSUME LookCheck
      PROVE  look' = LookAt("done") \/ (look' = LookAt("snapshot") /\ ~ClaimsInFlight')
  BY <1>5 DEF LookCheck, ClaimsInFlight
<1>6. ASSUME LookSnapshot
      PROVE  /\ look'.at = "reading" /\ look'.known = Sets
             /\ look'.rows = look.rows /\ look'.over = look.over /\ look'.moved = look.moved
  <2> DEFINE k == in_flight \cup handed_off \cup unsettled
             x == handed_off \cup unsettled
  <2>1. look' = [look EXCEPT !.at = "reading", !.known = k, !.examined = x]
    BY <1>6 DEF LookSnapshot
  <2>2. k = Sets
    BY DEF Sets
  <2> HIDE DEF k, x
  <2> QED
    BY <1>1, <2>1, <2>2 DEF Look
<1>7. ASSUME LookRead
      PROVE  /\ look'.at = "rereading" /\ look'.known = look.known /\ look'.moved = look.moved
             /\ look'.rows = LookReads
             /\ look'.over = {h \in look.examined :
                                \E r \in LookReads : r.task = h[1] /\ r.epoch > h[2]}
  <2> DEFINE over == {h \in look.examined :
                        \E r \in LookReads : r.task = h[1] /\ r.epoch > h[2]}
  <2>1. look' = [look EXCEPT !.at = "rereading", !.rows = LookReads, !.over = over]
    BY <1>7 DEF LookRead, LookReads
  <2> HIDE DEF over
  <2>2. /\ look'.at = "rereading" /\ look'.known = look.known /\ look'.moved = look.moved
        /\ look'.rows = LookReads /\ look'.over = over
    BY <1>1, <2>1 DEF Look
  <2> QED
    BY <2>2 DEF over
<1>8. ASSUME LookReadUnseen
      PROVE  /\ look'.at = "dropping" /\ look'.known = look.known /\ look'.moved = look.moved
             /\ look'.rows = look.rows
             /\ \A h \in look'.over : h \in look.over \/ (h \in look.examined /\ ClaimIsOver(h))
  <2> DEFINE seen == {h \in {g \in look.examined : \A r \in look.rows : r.task # g[1]} :
                        ClaimIsOver(h)}
             over == look.over \cup seen
  <2>1. look' = [look EXCEPT !.at = "dropping", !.over = over]
    BY <1>1, <1>8 DEF LookReadUnseen, Look
  <2>2. \A h \in over : h \in look.over \/ (h \in look.examined /\ ClaimIsOver(h))
    OBVIOUS
  <2> HIDE DEF over
  <2>3. /\ look'.at = "dropping" /\ look'.known = look.known /\ look'.moved = look.moved
        /\ look'.rows = look.rows /\ look'.over = over
    BY <1>1, <2>1 DEF Look
  <2> QED
    BY <2>2, <2>3
<1>9. ASSUME NEW where, look' = [look EXCEPT !.at = where]
      PROVE  /\ look'.at = where /\ look'.known = look.known /\ look'.moved = look.moved
             /\ look'.rows = look.rows /\ look'.over = look.over
  BY <1>1, <1>9 DEF Look
<1>10. ASSUME LookDrop
       PROVE  /\ look'.at = IF LookDrop THEN "comparing" ELSE "releasing"
              /\ look'.known = look.known /\ look'.moved = look.moved
              /\ look'.rows = look.rows /\ look'.over = look.over
  <2>1. look' = [look EXCEPT !.at = "comparing"]
    BY <1>10 DEF LookDrop
  <2> QED
    BY <1>9, <1>10, <2>1
<1>11. ASSUME LookCompare
       PROVE  \/ look' = LookAt("done")
              \/ /\ ~look.moved
                 /\ look'.at = IF LookDrop THEN "comparing" ELSE "releasing"
                 /\ look'.known = look.known /\ look'.moved = look.moved
                 /\ look'.rows = look.rows /\ look'.over = look.over
  <2>1. ~LookDrop
    BY <1>11 DEF LookDrop, LookCompare
  <2>2. look' = LookAt("done") \/ (~look.moved /\ look' = [look EXCEPT !.at = "releasing"])
    BY <1>11 DEF LookCompare
  <2> QED
    BY <1>9, <2>1, <2>2
<1>12. ASSUME NEW r \in look.rows, LookRelease(r)
       PROVE  \/ look' = LookAt("due")
              \/ /\ look'.at = "releasing" /\ look'.known = look.known
                 /\ look'.moved = look.moved
                 /\ look'.rows = look.rows \ {r} /\ look'.over = look.over
  <2>1. look.at = "releasing"
        /\ (look' = LookAt("due") \/ look' = [look EXCEPT !.rows = look.rows \ {r}])
    BY <1>1, <1>12 DEF LookRelease, Look
  <2> QED
    BY <1>1, <2>1 DEF Look
<1>13. ASSUME LookSettle \/ LookFails \/ NextPass
       PROVE  look' = LookAt("due") \/ look' = LookAt("done")
  BY <1>13 DEF LookSettle, LookFails, NextPass
<1>14. ASSUME WindowCloses \/ UNCHANGED vars
       PROVE  UNCHANGED <<look, claim>>
  BY <1>14 DEF WindowCloses, vars
<1>15. ASSUME NEW p \in Threads, EndBlock(p)
       PROVE  UNCHANGED <<look, claim>>
  BY <1>15 DEF EndBlock
<1>16. ASSUME NEW b \in bodies, BodyStep(b)
       PROVE  UNCHANGED <<look, claim>>
  BY <1>16 DEF BodyStep, StartBody, EndRecorded, EndUnrecorded, GraceEnds, RecordStuck
<1>17. ASSUME NEW t \in Tasks, OtherClaims(t) \/ OtherEnds(t) \/ LeaseExpires(t) \/ Reap(t)
       PROVE  UNCHANGED <<look, claim>>
  BY <1>17 DEF OtherClaims, OtherEnds, LeaseExpires, Reap, OthersMove
<1>18. ASSUME LookStep
       PROVE  LookForm
  <2>1. CASE LookCheck \/ LookSettle \/ LookFails \/ NextPass \/ WindowCloses
    BY <1>4, <1>5, <1>13, <1>14, <2>1 DEF LookForm
  <2>2. CASE LookSnapshot \/ LookRead \/ LookReadUnseen
    BY <1>6, <1>7, <1>8, <2>2 DEF LookForm
  <2>3. CASE LookDrop \/ LookCompare \/ \E r \in look.rows : LookRelease(r)
    BY <1>10, <1>11, <1>12, <2>3 DEF LookForm
  <2> QED
    BY <1>18, <2>1, <2>2, <2>3 DEF LookStep
<1>19. ASSUME NEW p \in Threads, ClaimStep(p)
       PROVE  LookForm
  BY <1>2, <1>3, <1>19 DEF LookForm
<1>20. ASSUME UNCHANGED <<look, claim>>
       PROVE  LookForm
  BY <1>4, <1>20 DEF LookForm
<1> QED
  BY <1>14, <1>15, <1>16, <1>17, <1>18, <1>19, <1>20 DEF Next

LEMMA LookAtFields ==
  ASSUME NEW where
  PROVE  /\ LookAt(where).at = where /\ ~LookAt(where).moved
         /\ LookAt(where).rows = {} /\ LookAt(where).over = {}
BY DEF LookAt

\* A claim that is over when a step begins, or was, is over after it.
LEMMA OverGrows ==
  ASSUME IInv, TableMoves, [Next]_vars, NEW h \in look'.over
  PROVE  h \in Held /\ ClaimIsOver(h)'
<1>1. TypeOK /\ look.examined \subseteq Held /\ \A g \in look.over : g \in Held /\ ClaimIsOver(g)
  BY DEF IInv, TypeOK, Look, LookOK
<1>2. ASSUME h \in look.examined, NEW r \in LookReads, r.task = h[1], r.epoch > h[2]
      PROVE  h \in Held /\ ClaimIsOver(h)
  <2>1. PICK t \in Tasks : Mine(t) /\ r = ReadOf(t)
    BY <1>2 DEF LookReads
  <2>2. h[1] = t /\ row[t].epoch > h[2]
    BY <1>2, <2>1 DEF ReadOf
  <2> QED
    BY <1>1, <1>2, <2>2 DEF ClaimIsOver
<1>3. h \in Held /\ ClaimIsOver(h)
  BY <1>1, <1>2, LookForms, LookAtFields DEF LookForm
<1> QED
  BY <1>1, <1>3, OverStays

\* A row the look read, and one it reads.
LEMMA ReadsStay ==
  ASSUME IInv, TableMoves, [Next]_vars, NEW r \in look'.rows
  PROVE  ReadOK(r)'
<1>1. /\ TypeOK /\ \A t \in Tasks : row[t].epoch \in Nat
      /\ \A t \in Tasks : row'[t].epoch \in Nat /\ Move(row[t], row'[t])
      /\ \A s \in look.rows : ReadOK(s) /\ s.task \in Tasks /\ s.epoch \in Nat
  BY HeldTypes, RowTypes DEF IInv, LookOK, TableMoves
<1>2. CASE r \in look.rows
  <2> DEFINE t == r.task
  <2>1. /\ t \in Tasks /\ r.epoch \in Nat /\ ReadOK(r) /\ Move(row[t], row'[t])
        /\ row[t].epoch \in Nat /\ row'[t].epoch \in Nat
        /\ row[t].expired \in BOOLEAN /\ row'[t].expired \in BOOLEAN
    BY <1>1, <1>2, HeldTypes, RowTypes DEF TableMoves
  <2>2. ReadOK(r)'
    BY <2>1 DEF ReadOK, Move, Mine, Running
  <2> QED
    BY <2>2
<1>3. CASE LookRead /\ r \in LookReads
  <2>1. PICK t \in Tasks : Mine(t) /\ r = ReadOf(t)
    BY <1>3 DEF LookReads
  <2>2. /\ r.task = t /\ r.epoch = row[t].epoch /\ r.attempts = row[t].attempts
        /\ r.history = row[t].history /\ r.abandoned = row[t].expired
    BY <2>1 DEF ReadOf
  <2>3. row' = row
    BY <1>3 DEF LookRead
  <2> QED
    BY <1>1, <2>2, <2>3 DEF ReadOK, Mine
<1> QED
  BY <1>2, <1>3, LookForms, LookAtFields DEF LookForm

\* A row read that is still of its claim was so when the step began.
LEMMA StillTheClaimWas ==
  ASSUME IInv, TableMoves, NEW r \in look.rows, StillTheClaim(r)'
  PROVE  StillTheClaim(r)
<1> DEFINE t == r.task
<1>1. /\ TypeOK /\ t \in Tasks /\ r.epoch \in Nat /\ r.epoch <= row[t].epoch
      /\ row[t].epoch \in Nat /\ row'[t].epoch \in Nat /\ Move(row[t], row'[t])
  BY HeldTypes, RowTypes DEF IInv, LookOK, ReadOK, TableMoves
<1> QED
  BY <1>1 DEF StillTheClaim, Mine, Move, Running

\* With no claim in flight, a row that a look must release was one before the step.
LEMMA UnknownWas ==
  ASSUME IInv, TableMoves, [Next]_vars, ~ClaimsInFlight, NEW t \in Tasks,
         Unknown(t)', look'.known = look.known
  PROVE  Unknown(t) /\ row'[t].epoch = row[t].epoch
<1>1. /\ TypeOK /\ OrphansOK /\ row[t].epoch \in Nat /\ Move(row[t], row'[t])
      /\ row[t].expired \in BOOLEAN /\ row'[t].expired \in BOOLEAN
  BY HeldTypes, RowTypes DEF IInv, TableMoves
<1>2. \A p \in Threads, u \in Tasks : ~Land(p, u)
  BY DEF ClaimsInFlight, Land
<1>3. orphans' = orphans
  BY <1>2, OrphansChange
<1>4. Running(row'[t]) /\ <<t, row'[t].epoch>> \in orphans
  BY <1>3 DEF Unknown, Mine, Running
<1>5. row'[t].epoch # row[t].epoch + 1
  <2>1. PICK h : h = <<t, row'[t].epoch>>
    OBVIOUS
  <2>2. h[2] <= row[h[1]].epoch
    BY <1>1, <1>4, <2>1 DEF OrphansOK
  <2> QED
    BY <1>1, <2>1, <2>2
<1>6. row'[t].epoch = row[t].epoch /\ Running(row[t])
  BY <1>2, <1>4, <1>5, RunningHere
<1> QED
  BY <1>1, <1>3, <1>6 DEF Unknown, Mine, Move, Running

\* A read of an orphan is of one to release.
LEMMA OrphansAreToRelease ==
  ASSUME IInv, NEW t \in Tasks, Unknown(t)
  PROVE  ReadOf(t) \in LookReads /\ ToRelease(ReadOf(t))
<1> DEFINE r == ReadOf(t)
<1>1. /\ r.task = t /\ r.attempts = row[t].attempts /\ r.history = row[t].history
      /\ r.abandoned = row[t].expired
  BY DEF ReadOf
<1>2. /\ RowOK(row[t]) /\ row[t].attempts \in Nat /\ Running(row[t])
  BY HeldTypes, RowTypes DEF IInv, RowsOK, Unknown, Mine, Running
<1>3. /\ row[t].attempts >= 1 /\ Len(row[t].history) = row[t].attempts
      /\ Last(row[t].history) = Me
  BY <1>2 DEF RowOK, Running, Last
<1>4. t \notin Pks(look.known) /\ ~row[t].expired
  BY DEF Unknown
<1>5. r \in LookReads
  BY DEF LookReads, Unknown
<1> HIDE DEF r
<1>6. ToRelease(r)
  BY <1>1, <1>3, <1>4 DEF ToRelease
<1> QED
  BY <1>5, <1>6 DEF r

\* What the look read and knows, after a step.
LEMMA LookSteps ==
  ASSUME IInv, TableMoves, [Next]_vars
  PROVE  LookOK'
<1>1. /\ TypeOK /\ LookOK /\ look \in Look
      /\ \A t \in Tasks : row[t].epoch \in Nat
  BY HeldTypes DEF IInv, TypeOK
<1>2. \A p \in {"due", "done"} : p \notin {"snapshot", "reading", "rereading", "dropping",
                                            "comparing", "releasing"}
  OBVIOUS
<1>3. (Comparable \/ HasRead)' /\ ~look'.moved => ~ClaimsInFlight'
  <2>1. CASE look' = look /\ (~ClaimsInFlight => ~ClaimsInFlight')
    BY <1>1, <2>1 DEF LookOK, Comparable, HasRead
  <2>2. CASE LookSnapshot \/ LookRead \/ LookReadUnseen \/ LookDrop \/ LookCompare
    <3>1. claim' = claim /\ (Comparable \/ HasRead)
      BY <2>2 DEF LookSnapshot, LookRead, LookReadUnseen, LookDrop, LookCompare, Comparable
    <3>2. look'.moved = look.moved \/ look' = LookAt("done")
      BY <2>2, LookAtFields, <1>1
      DEF LookSnapshot, LookRead, LookReadUnseen, LookDrop, LookCompare, Look
    <3>3. ~look.moved => ~ClaimsInFlight'
      BY <1>1, <3>1 DEF LookOK, ClaimsInFlight
    <3> QED
      BY <3>2, <3>3, LookAtFields DEF Comparable, HasRead
  <2>3. ASSUME NEW r \in look.rows, LookRelease(r), look'.moved = look.moved
        PROVE  ~look'.moved => ~ClaimsInFlight'
    BY <1>1, <2>3 DEF LookRelease, LookOK, HasRead, ClaimsInFlight
  <2>4. CASE /\ look.at \notin {"due", "done"} => look'.moved
             /\ look'.at = look.at
    BY <2>4 DEF Comparable, HasRead
  <2>5. CASE look' = LookAt("due") \/ look' = LookAt("done")
             \/ (look' = LookAt("snapshot") /\ ~ClaimsInFlight')
    BY <2>5, LookAtFields DEF Comparable, HasRead
  <2> QED
    BY <2>1, <2>2, <2>3, <2>4, <2>5, LookForms DEF LookForm
<1>4. look'.at = "reading" /\ ~look'.moved =>
        \A h \in Sets' : h \in look'.known \/ ClaimIsOver(h)'
  <2>1. CASE look' = look
    <3>1. SUFFICES ASSUME look.at = "reading", ~look.moved, NEW h \in Sets'
                   PROVE  h \in look.known \/ ClaimIsOver(h)'
      BY <2>1, <3>1
    <3>2. ~ClaimsInFlight
      BY <1>1, <3>1 DEF LookOK, Comparable
    <3>3. CASE h \in Sets
      BY <1>1, <3>1, <3>3, OverStays DEF LookOK, Sets, TypeOK
    <3>4. CASE h \notin Sets
      <4>1. PICK b \in bodies : h = b.of
        BY <3>2, <3>4, SetsGrow DEF ClaimsInFlight
      <4>2. ClaimIsOver(h) /\ h \in Held
        BY <1>1, <3>4, <4>1, HeldTypes DEF IInv, BodyOK
      <4> QED
        BY <1>1, <4>2, OverStays
    <3> QED
      BY <3>3, <3>4
  <2>2. CASE LookSnapshot /\ look'.known = Sets
    BY <2>2 DEF LookSnapshot, Sets, sets
  <2>3. CASE /\ look.at \notin {"due", "done"} => look'.moved
             /\ look'.at = look.at
    BY <2>3
  <2>4. CASE look'.at # "reading"
    BY <2>4
  <2> QED
    BY <2>1, <2>2, <2>3, <2>4, LookForms, LookAtFields DEF LookForm
<1>5. \A h \in look'.over : h \in Held /\ ClaimIsOver(h)'
  BY OverGrows
<1>6. \A r \in look'.rows : ReadOK(r)'
  BY ReadsStay
<1>7. HasRead' /\ (look'.moved => look'.at = "releasing") =>
        \A r \in look'.rows :
          StillTheClaim(r)' /\ r.task \notin Pks(look'.known) => <<r.task, r.epoch>> \in orphans'
  <2>1. orphans \subseteq orphans'
    BY OrphansChange
  <2>2. ASSUME HasRead, look.moved => look.at = "releasing", look'.known = look.known,
               NEW r \in look.rows, StillTheClaim(r)', r.task \notin Pks(look.known)
        PROVE  <<r.task, r.epoch>> \in orphans'
    BY <1>1, <2>1, <2>2, StillTheClaimWas DEF LookOK
  <2>3. ASSUME look'.known = look.known, look'.rows \subseteq look.rows,
               HasRead' /\ (look'.moved => look'.at = "releasing")
                 => HasRead /\ (look.moved => look.at = "releasing")
        PROVE  HasRead' /\ (look'.moved => look'.at = "releasing") =>
                 \A r \in look'.rows :
                   StillTheClaim(r)' /\ r.task \notin Pks(look'.known)
                     => <<r.task, r.epoch>> \in orphans'
    BY <2>2, <2>3
  <2>4. ASSUME LookRead, look'.known = look.known, look'.moved = look.moved,
               look'.at = "rereading", ~look.moved, NEW r \in LookReads,
               r.task \notin Pks(look.known)
        PROVE  <<r.task, r.epoch>> \in orphans'
    <3>1. PICK t \in Tasks : Mine(t) /\ r = ReadOf(t)
      BY <2>4 DEF LookReads
    <3>2. PICK h : h = <<t, row[t].epoch>>
      OBVIOUS
    <3>3. r.task = t /\ r.epoch = row[t].epoch
      BY <3>1 DEF ReadOf
    <3>4. ~ClaimsInFlight /\ \A g \in Sets : g \in look.known \/ ClaimIsOver(g)
      BY <1>1, <2>4 DEF LookRead, LookOK, Comparable
    <3>5. h \in Sets \cup orphans
      BY <3>1, <3>2, <3>4 DEF IInv, ReturnedClaimsAreKnown, Sets, ClaimsInFlight
    <3>6. h \notin look.known
      BY <2>4, <3>2, <3>3 DEF Pks
    <3>7. ~ClaimIsOver(h)
      BY <1>1, <3>1, <3>2 DEF ClaimIsOver
    <3> QED
      BY <2>1, <3>2, <3>3, <3>4, <3>5, <3>6, <3>7
  <2>5. ASSUME NEW where \in {"due", "done", "snapshot"}, look' = LookAt(where)
        PROVE  ~HasRead'
    BY <2>5, LookAtFields DEF HasRead
  <2>6. ASSUME LookRead, look'.known = look.known, look'.moved = look.moved,
               look'.at = "rereading", look'.rows = LookReads
        PROVE  HasRead' /\ (look'.moved => look'.at = "releasing") =>
                 \A r \in look'.rows :
                   StillTheClaim(r)' /\ r.task \notin Pks(look'.known)
                     => <<r.task, r.epoch>> \in orphans'
    BY <2>4, <2>6
  <2>7. CASE look'.at = "reading"
    BY <2>7 DEF HasRead
  <2>8. CASE look' = look
    BY <2>3, <2>8 DEF HasRead
  <2>9. CASE /\ look.at \notin {"due", "done"} => look'.moved
             /\ look'.at = look.at /\ look'.known = look.known /\ look'.rows = look.rows
    BY <2>3, <2>9 DEF HasRead
  <2>10. CASE /\ LookReadUnseen \/ LookDrop \/ (LookCompare /\ ~look.moved)
              /\ look'.known = look.known /\ look'.moved = look.moved /\ look'.rows = look.rows
              /\ look'.at \in {"dropping", "comparing", "releasing"}
    <3>1. HasRead /\ (look'.moved => look'.at = "releasing")
            => HasRead /\ (look.moved => look.at = "releasing")
      BY <2>10, <1>1
      DEF LookReadUnseen, LookDrop, LookCompare, HasRead, Look
    <3> QED
      BY <2>3, <2>10, <3>1 DEF LookReadUnseen, LookDrop, LookCompare, HasRead
  <2>11. ASSUME NEW r \in look.rows, LookRelease(r), look'.known = look.known,
                look'.moved = look.moved, look'.rows = look.rows \ {r}
         PROVE  HasRead' /\ (look'.moved => look'.at = "releasing") =>
                 \A s \in look'.rows :
                   StillTheClaim(s)' /\ s.task \notin Pks(look'.known)
                     => <<s.task, s.epoch>> \in orphans'
    BY <2>3, <2>11 DEF LookRelease, HasRead
  <2> QED
    BY <2>5, <2>6, <2>7, <2>8, <2>9, <2>10, <2>11, LookForms DEF LookForm
<1>8. HasRead' /\ ~look'.moved =>
        \A t \in Tasks : Unknown(t)' =>
          \E r \in look'.rows : r.task = t /\ r.epoch = row'[t].epoch /\ ToRelease(r)'
  <2>1. ASSUME HasRead, ~look.moved, look'.known = look.known, NEW t \in Tasks, Unknown(t)'
        PROVE  \E r \in look.rows :
                 /\ r.task = t /\ r.epoch = row'[t].epoch /\ ToRelease(r)'
                 /\ ToRelease(r) /\ StillTheClaim(r) /\ Mine(t)'
    <3>1. ~ClaimsInFlight
      BY <1>1, <2>1 DEF LookOK
    <3>2. Unknown(t) /\ row'[t].epoch = row[t].epoch
      BY <2>1, <3>1, UnknownWas
    <3>3. PICK r \in look.rows : r.task = t /\ r.epoch = row[t].epoch /\ ToRelease(r)
      BY <1>1, <2>1, <3>2 DEF LookOK
    <3>4. ToRelease(r)'
      BY <2>1, <3>3 DEF ToRelease
    <3> QED
      BY <2>1, <3>2, <3>3, <3>4 DEF StillTheClaim, Unknown
  <2>2. ASSUME HasRead, look'.known = look.known, look'.rows = look.rows,
               look'.moved = look.moved
        PROVE  ~look'.moved =>
                 \A t \in Tasks : Unknown(t)' =>
                   \E r \in look'.rows : r.task = t /\ r.epoch = row'[t].epoch /\ ToRelease(r)'
    BY <2>1, <2>2
  <2>3. ASSUME NEW s \in look.rows, LookRelease(s), look'.known = look.known,
               look'.moved = look.moved, look'.rows = look.rows \ {s},
               ~look'.moved, NEW t \in Tasks, Unknown(t)'
        PROVE  \E r \in look'.rows : r.task = t /\ r.epoch = row'[t].epoch /\ ToRelease(r)'
    <3>1. PICK r \in look.rows : /\ r.task = t /\ r.epoch = row'[t].epoch /\ ToRelease(r)'
                                 /\ ToRelease(r) /\ StillTheClaim(r) /\ Mine(t)'
      <4>1. HasRead /\ ~look.moved
        BY <2>3 DEF LookRelease, HasRead
      <4> QED
        BY <2>1, <2>3, <4>1
    <3>2. r # s
      <4>1. SUFFICES ASSUME r = s
                     PROVE  FALSE
        OBVIOUS
      <4>2. row'[t] = ReleasedClaim(row[t], r)
        BY <1>1, <2>3, <3>1, <4>1, HeldTypes DEF LookRelease
      <4>3. ReadOK(r) /\ RowOK(row[t]) /\ Running(row[t]) /\ r.epoch = row[t].epoch /\ Mine(t)
        BY <1>1, <3>1 DEF LookOK, IInv, RowsOK, StillTheClaim, Mine, Running
      <4>4. ~Running(ReleasedClaim(row[t], r))
        BY <3>1, <4>3, ReleaseMoves DEF ReadOK
      <4> QED
        BY <3>1, <4>2, <4>4 DEF Mine, Running
    <3> QED
      BY <2>3, <3>1, <3>2
  <2>4. ASSUME LookRead, look'.known = look.known, look'.rows = LookReads,
               NEW t \in Tasks, Unknown(t)'
        PROVE  \E r \in look'.rows : r.task = t /\ r.epoch = row'[t].epoch /\ ToRelease(r)'
    <3>1. UNCHANGED <<row, orphans>>
      BY <2>4 DEF LookRead
    <3>2. Unknown(t)
      BY <2>4, <3>1 DEF Unknown, Mine
    <3>3. PICK r : r = ReadOf(t)
      OBVIOUS
    <3>4. r \in LookReads /\ ToRelease(r) /\ r.task = t /\ r.epoch = row[t].epoch
      BY <3>2, <3>3, OrphansAreToRelease DEF ReadOf
    <3>5. ToRelease(r)'
      BY <2>4, <3>4 DEF ToRelease
    <3> QED
      BY <2>4, <3>1, <3>4, <3>5
  <2>5. ASSUME NEW where \in {"due", "done", "snapshot"}, look' = LookAt(where)
        PROVE  ~HasRead'
    BY <2>5, LookAtFields DEF HasRead
  <2>6. CASE look'.at = "reading"
    BY <2>6 DEF HasRead
  <2>7. CASE look' = look
    BY <2>2, <2>7 DEF HasRead
  <2>8. CASE /\ look.at \notin {"due", "done"} => look'.moved
             /\ look'.at = look.at
    BY <2>8 DEF HasRead
  <2>9. CASE /\ LookReadUnseen \/ LookDrop \/ (LookCompare /\ ~look.moved)
             /\ look'.known = look.known /\ look'.moved = look.moved /\ look'.rows = look.rows
    BY <2>2, <2>9 DEF LookReadUnseen, LookDrop, LookCompare, HasRead
  <2> QED
    BY <2>3, <2>4, <2>5, <2>6, <2>7, <2>8, <2>9, LookForms DEF LookForm
<1> QED
  BY <1>3, <1>4, <1>5, <1>6, <1>7, <1>8 DEF LookOK
-----------------------------------------------------------------------------
(* The theorems.                                                           *)

LEMMA InitIInv == Init => IInv
<1> SUFFICES ASSUME Init
             PROVE  IInv
  OBVIOUS
<1> DEFINE start == [status |-> "READY", owner |-> NoWorker, epoch |-> 0, attempts |-> 0,
                     history |-> <<>>, expired |-> FALSE]
<1>1. start \in Row /\ RowOK(start) /\ ~Running(start)
  <2>1. <<>> \in Seq({Me, Other}) /\ Len(<<>>) = 0
    OBVIOUS
  <2>2. start \in Row
    BY <2>1 DEF Row
  <2> QED
    BY <2>1, <2>2 DEF RowOK, Running
<1>2. row = [t \in Tasks |-> start]
  BY DEF Init
<1> HIDE DEF start
<1>3. \A t \in Tasks : row[t] = start
  BY <1>2
<1>4. LookAt("due") \in Look
  BY DEF LookAt, Look
<1>5. NoClaim \in Claim /\ NoBlock \in Block /\ NoClaim.at = "idle" /\ ~NoClaim.in_block
  BY DEF NoClaim, Claim, Block
<1>6. TypeOK
  BY <1>1, <1>2, <1>4, <1>5 DEF Init, TypeOK
<1>7. RowsOK
  BY <1>1, <1>3 DEF RowsOK
<1>8. \A p \in Threads : BlockOK(p) /\ ClaimOK(p)
  BY <1>5 DEF Init, BlockOK, ClaimOK
<1>9. LookOK
  BY LookAtFields DEF Init, LookOK, Comparable, HasRead
<1>10. ReturnedClaimsAreKnown
  BY <1>1, <1>3 DEF ReturnedClaimsAreKnown, Mine, Running
<1>11. OrphansOK /\ \A b \in bodies : BodyOK(b)
  BY DEF Init, OrphansOK
<1> QED
  BY <1>6, <1>7, <1>8, <1>9, <1>10, <1>11 DEF IInv

LEMMA NextIInv == IInv /\ [Next]_vars => IInv'
<1> SUFFICES ASSUME IInv, [Next]_vars
             PROVE  IInv'
  OBVIOUS
<1>1. TableMoves
  BY TableStep
<1>2. RowsOK'
  BY <1>1 DEF TableMoves, Move, RowsOK
<1>3. \A p \in Threads : BlockOK(p)' /\ ClaimOK(p)'
  BY <1>1, BlocksStep, ClaimsStep
<1>4. \A b \in bodies' : BodyOK(b)'
  BY <1>1, BodiesStep
<1> QED
  BY <1>1, <1>2, <1>3, <1>4, TypeStep, OrphansStep, LookSteps, ReturnedStep DEF IInv

\* The inductive invariant.
THEOREM Invariant == Spec => []IInv
<1>1. Init => IInv
  BY InitIInv
<1>2. IInv /\ [Next]_vars => IInv'
  BY NextIInv
<1> QED
  BY <1>1, <1>2, PTL DEF Spec

\* Every variable keeps its type.
THEOREM TypeCorrect == Spec => []TypeOK
<1>1. IInv => TypeOK
  BY DEF IInv
<1> QED
  BY <1>1, Invariant, PTL

\* Every claim that returned is in one of the three sets until it is over, or is an
\* orphan (worker.py:3849), for any tasks, threads and epochs.
THEOREM ReturnedClaimsStayKnown == Spec => []ReturnedClaimsAreKnown
<1>1. IInv => ReturnedClaimsAreKnown
  BY DEF IInv
<1> QED
  BY <1>1, Invariant, PTL

\* Attempts go down by the release of an orphan alone.
LEMMA RefundStep ==
  ASSUME IInv, [Next]_vars, NEW t \in Tasks, row'[t].attempts < row[t].attempts
  PROVE  /\ <<t, row[t].epoch>> \in orphans
         /\ row'[t].status = "READY" /\ row'[t].epoch = row[t].epoch + 1
         /\ row[t].history = Append(row'[t].history, Me)
         /\ row'[t].attempts = Len(row'[t].history)
<1>1. /\ TypeOK /\ LookOK /\ row \in [Tasks -> Row]
      /\ \A u \in Tasks : RowOK(row[u]) /\ row[u].epoch \in Nat /\ row[u].attempts \in Nat
  BY HeldTypes, RowTypes DEF IInv, RowsOK
<1>2. row' # row
  BY <1>1
<1>3. ASSUME NEW u \in Tasks, NEW q, row' = [row EXCEPT ![u] = q]
      PROVE  t = u /\ row'[t] = q /\ q.attempts < row[t].attempts
  BY <1>1, <1>3
<1>4. ASSUME NEW r \in look.rows, LookRelease(r)
      PROVE  /\ <<t, row[t].epoch>> \in orphans
             /\ row'[t].status = "READY" /\ row'[t].epoch = row[t].epoch + 1
             /\ row[t].history = Append(row'[t].history, Me)
             /\ row'[t].attempts = Len(row'[t].history)
  <2>1. /\ r.task \in Tasks /\ ReadOK(r) /\ StillTheClaim(r) /\ ToRelease(r)
        /\ row' = [row EXCEPT ![r.task] = ReleasedClaim(row[r.task], r)]
    BY <1>1, <1>4, HeldTypes DEF LookRelease, LookOK
  <2>2. /\ t = r.task /\ row'[t] = ReleasedClaim(row[t], r) /\ Running(row[t])
        /\ r.epoch = row[t].epoch /\ Mine(t)
    BY <1>3, <2>1 DEF StillTheClaim, Mine, Running
  <2>3. <<t, row[t].epoch>> \in orphans
    BY <1>1, <1>4, <2>1, <2>2 DEF LookOK, HasRead, LookRelease, ToRelease
  <2>4. r.attempts = row[t].attempts /\ r.history = row[t].history
    BY <2>1, <2>2 DEF ReadOK
  <2> QED
    BY <1>1, <2>2, <2>3, <2>4, ReleaseMoves
<1>5. ASSUME NEW u \in Tasks, NEW w \in {Me, Other}, row' = [row EXCEPT ![u] = ClaimedBy(@, w)]
      PROVE  FALSE
  <2>1. t = u /\ row'[t] = ClaimedBy(row[t], w)
    BY <1>1, <1>3, <1>5
  <2> QED
    BY <1>1, <2>1, ClaimMoves
<1>6. ASSUME NEW u \in Tasks, NEW status \in {"READY", "LOST", "DONE"}, NEW e \in Nat,
             row' = [row EXCEPT ![u] = Free(row[u], status, e)], row[u].epoch <= e
      PROVE  FALSE
  BY <1>1, <1>3, <1>6, FreeMoves
<1>7. ASSUME NEW p \in Threads, ClaimStep(p)
      PROVE  FALSE
  <2>1. ASSUME NEW u \in Tasks, Land(p, u)
        PROVE  FALSE
    <3>1. row' = [row EXCEPT ![u] = ClaimedBy(@, Me)]
      BY <1>2, <2>1 DEF Land, ClaimedHere
    <3> QED
      BY <1>5, <3>1
  <2> QED
    BY <1>2, <1>7, <2>1
    DEF ClaimStep, BeginClaim, ClaimNothing, Register, Return, OverrideRaises, CountOutRaised
<1>8. ASSUME NEW p \in Threads, EndBlock(p)
      PROVE  FALSE
  <2>1. /\ block[p].task \in Tasks
        /\ row' = [row EXCEPT ![block[p].task] = block[p].row]
        /\ block[p].row.attempts = row[block[p].task].attempts + 1
    BY <1>2, <1>8 DEF EndBlock, IInv, BlockOK
  <2> QED
    BY <1>1, <1>3, <2>1
<1>9. ASSUME NEW b \in bodies, BodyStep(b)
      PROVE  FALSE
  <2>1. ASSUME NEW status \in {"DONE", "READY"}, WriteRow(b, Free(RowOf(b), status, b.of[2])),
               HoldsTheLease(b)
        PROVE  FALSE
    <3>1. ~InOwnBlock(b)
      BY <1>2, <2>1 DEF WriteRow
    <3>2. /\ row' = [row EXCEPT ![b.of[1]] = Free(row[b.of[1]], status, b.of[2])]
          /\ row[b.of[1]].epoch = b.of[2]
      BY <2>1, <3>1 DEF WriteRow, RowOf, HoldsTheLease
    <3>3. b.of[1] \in Tasks /\ b.of[2] \in Nat /\ b.of[2] <= b.of[2]
      BY <1>1, HeldTypes
    <3> QED
      BY <1>6, <2>1, <3>2, <3>3
  <2>2. ASSUME RecordStuck(b)
        PROVE  FALSE
    <3>1. PICK status \in {"DONE", "READY"} :
            /\ row' = [row EXCEPT ![b.of[1]] = Free(row[b.of[1]], status, b.of[2] + 1)]
            /\ row[b.of[1]].epoch = b.of[2]
      BY <2>2 DEF RecordStuck
    <3>2. b.of[1] \in Tasks /\ b.of[2] \in Nat /\ b.of[2] <= b.of[2] + 1 /\ b.of[2] + 1 \in Nat
      BY <1>1, HeldTypes
    <3> QED
      BY <1>6, <3>1, <3>2
  <2>3. ASSUME WriteOutcome(b)
        PROVE  FALSE
    BY <2>1, <2>3 DEF WriteOutcome
  <2> QED
    BY <1>2, <1>9, <2>2, <2>3 DEF BodyStep, StartBody, EndRecorded, EndUnrecorded, GraceEnds
<1>10. ASSUME NEW u \in Tasks, OtherClaims(u) \/ OtherEnds(u) \/ LeaseExpires(u) \/ Reap(u)
      PROVE  FALSE
  <2>1. ASSUME OtherClaims(u)
        PROVE  FALSE
    BY <1>5, <2>1 DEF OtherClaims, OthersMove
  <2>2. ASSUME OtherEnds(u) \/ Reap(u)
        PROVE  FALSE
    BY <1>1, <1>6, <2>2 DEF OtherEnds, Reap, OthersMove
  <2>3. ASSUME LeaseExpires(u)
        PROVE  FALSE
    <3>1. row' = [row EXCEPT ![u] = [row[u] EXCEPT !.expired = TRUE]]
      BY <2>3 DEF LeaseExpires, OthersMove
    <3>2. t = u /\ row'[t] = [row[t] EXCEPT !.expired = TRUE]
      BY <1>3, <3>1
    <3>3. row'[t].attempts = row[t].attempts
      BY <1>1, <3>2 DEF Row
    <3> QED
      BY <1>1, <3>3
  <2> QED
    BY <1>10, <2>1, <2>2, <2>3
<1>11. CASE LookStep
  BY <1>4, <1>2, <1>11
  DEF LookStep, LookCheck, LookSnapshot, LookRead, LookReadUnseen, LookDrop, LookCompare,
      LookSettle, LookFails, NextPass, WindowCloses
<1> QED
  BY <1>7, <1>8, <1>9, <1>10, <1>2, <1>11 DEF Next, vars

\* A look that is settled leaves nothing behind.
LEMMA SettleStep ==
  ASSUME IInv, [Next]_vars, pending = "fresh", pending' = "none", NEW t \in Tasks,
         Mine(t) /\ ~row[t].expired /\ <<t, row[t].epoch>> \in orphans
  PROVE  t \in Pks(look.known)
<1>1. LookSettle
  BY DEF Next, vars, ClaimStep, BeginClaim, ClaimNothing, Register, Return, Land,
      OverrideRaises, CountOutRaised, EndBlock, BodyStep, StartBody, EndRecorded,
      EndUnrecorded, GraceEnds, RecordStuck, LookStep, LookCheck, LookSnapshot, LookRead,
      LookReadUnseen, LookDrop, LookCompare, LookFails, NextPass, WindowCloses, LookRelease,
      OtherClaims, OtherEnds, LeaseExpires, Reap, OthersMove
<1>2. HasRead /\ ~look.moved /\ look.rows = {}
  BY <1>1 DEF LookSettle, Settles, HasRead
<1>3. ~Unknown(t)
  BY <1>2 DEF IInv, LookOK
<1> QED
  BY <1>3 DEF Unknown

\* The looks of the worker's loop give back the claims that raised, those alone: an
\* attempt is refunded only for a claim that committed and raised, and the row is then
\* as before it (worker.py:2985); and all of them: a look that is settled within its
\* window leaves none behind that it could have released (worker.py:3166).
THEOREM LooksReleaseOrphans == Spec => LooksReleaseTheOrphans
<1>1. IInv /\ [Next]_vars =>
        [\A t \in Tasks : row'[t].attempts < row[t].attempts =>
           /\ <<t, row[t].epoch>> \in orphans
           /\ row'[t].status = "READY" /\ row'[t].epoch = row[t].epoch + 1
           /\ row[t].history = Append(row'[t].history, Me)
           /\ row'[t].attempts = Len(row'[t].history)]_vars
  BY RefundStep
<1>2. Spec => OnlyOrphansAreRefunded
  BY <1>1, Invariant, PTL DEF Spec, OnlyOrphansAreRefunded
<1>3. IInv /\ [Next]_vars =>
        [pending = "fresh" /\ pending' = "none" =>
           \A t \in Tasks :
             Mine(t) /\ ~row[t].expired /\ <<t, row[t].epoch>> \in orphans
               => t \in Pks(look.known)]_vars
  BY SettleStep
<1>4. Spec => SettledLooksLeaveNoOrphan
  BY <1>3, Invariant, PTL DEF Spec, SettledLooksLeaveNoOrphan
<1> QED
  BY <1>2, <1>4 DEF LooksReleaseTheOrphans
-----------------------------------------------------------------------------
(* Renewal.                                                                *)

InProgress == tick.at \in {"opening", "borrowing", "statement"}

\* What a miss before the tick in progress has taken; a pool that was asked first and
\* failed is this tick's own.
Taken ==
  IF failed = 0 \/ (server = "spare" /\ tick.hurry /\ tick.at # "borrowing" /\ tick.on # "pool")
  THEN 0 ELSE renew_interval

TakenBy(n) == IF n = 0 THEN 0 ELSE renew_interval

\* A claim keeps lock_timeout until it is executed, but for its gap.
LeaseOK(c) ==
  /\ c.at = "claimed" => c.lease + c.gap >= lock_timeout
  /\ c.at = "running" => safe <= c.lease + c.gap
  /\ c.at = "running" /\ tick.at = "unneeded" => c.lease + c.gap + tick.elapsed >= lock_timeout

\* What the misses have taken of a lease.
TimeOK(c) ==
  c.at = "running" /\ failed < 2 =>
    /\ tick.at = "idle" =>
         c.lease + renew_interval + TakenBy(failed) >= lock_timeout - LastGap + due
    /\ InProgress => c.lease + tick.elapsed + renew_interval + Taken >= lock_timeout - LastGap

\* And of safe_until.
SafeOK ==
  failed < 2 =>
    /\ tick.at = "idle" => safe + renew_interval + TakenBy(failed) <= lock_timeout + due
    /\ InProgress /\ Taken = 0 => safe + tick.elapsed + renew_interval <= lock_timeout

\* What a tick takes, where a connection can be had.
SpareOK ==
  /\ tick.hurry /\ (tick.at = "borrowing" \/ tick.on = "pool") => tick.elapsed = 0
  /\ failed = 1 /\ ~tick.hurry /\ InProgress /\ (tick.at # "statement" \/ tick.elapsed > 0) =>
       2 * renew_interval + budget + LastGap < lock_timeout
  /\ tick.hurry /\ tick.at = "opening" => failed # 0

SlotsOK ==
  /\ tick.on # "pool"
  /\ tick.at = "borrowing" => tick.elapsed + tick.wait <= POOL_FALLBACK_WAIT /\ tick.hurry
  /\ InProgress => tick.elapsed <= POOL_FALLBACK_WAIT

OrdinaryOK ==
  /\ tick.at \in {"idle", "statement"} /\ tick.elapsed = 0 /\ ~tick.hurry
  /\ tick.on # "pool"

TickOK ==
  /\ tick.at # "idle" => due + tick.elapsed = renew_interval /\ tick.elapsed <= budget
  /\ server = "spare" => SpareOK
  /\ server = "slots" => SlotsOK
  /\ server = "ordinary" => OrdinaryOK

ShapeOK ==
  /\ tick.waits = {}
  /\ tick.at = "idle" => tick = Renewal!Idle
  /\ tick.at \in {"unneeded", "opening", "borrowing"} => tick.on = "none"

RenewsOK ==
  thread = "renewal" =>
    /\ server # "any" => TickOK /\ SafeOK /\ \A r \in Rows : TimeOK(leases[r])
    /\ \A r \in Rows : LeaseOK(leases[r])
    /\ tick.at = "unneeded" => tick.elapsed <= budget

WatchesOK ==
  thread = "watchdog" =>
    /\ \A r \in Rows : leases[r].at = "free"
    /\ tick.at # "unneeded" /\ ~tick.hurry
    /\ tick.at = "opening" => tick.elapsed <= budget
    /\ tick.at = "borrowing" => tick.elapsed + tick.wait <= budget + POOL_FALLBACK_WAIT
    /\ tick.elapsed <= budget + POOL_FALLBACK_WAIT

RenewalHolds == Renewal!TypeOK /\ ShapeOK /\ RenewsOK /\ WatchesOK
-----------------------------------------------------------------------------
LEMMA RenewalFacts ==
  /\ {lock_timeout, renew_interval, budget, POOL_FALLBACK_WAIT, LastGap, Records} \subseteq Nat
  /\ lock_timeout \in Nat /\ renew_interval \in Nat /\ budget \in Nat
  /\ POOL_FALLBACK_WAIT \in Nat /\ LastGap \in Nat /\ Records \in Nat
  /\ POOL_FALLBACK_WAIT < budget /\ budget <= renew_interval
  /\ 2 * renew_interval + LastGap + POOL_FALLBACK_WAIT < lock_timeout
  /\ 2 * renew_interval + budget + POOL_FALLBACK_WAIT <= lock_timeout =>
       2 * renew_interval + budget + LastGap < lock_timeout
  /\ Renewal!LastElapsed \in Nat /\ Renewal!LastElapsed = 2 * (budget + POOL_FALLBACK_WAIT)
<1>1. {lock_timeout, renew_interval, budget, POOL_FALLBACK_WAIT, LastGap, Records} \subseteq Nat
  BY RenewalAssumption DEF Renewal!Parameters
<1>2. lock_timeout \in Nat /\ renew_interval \in Nat /\ budget \in Nat
      /\ POOL_FALLBACK_WAIT \in Nat /\ LastGap \in Nat /\ Records \in Nat
  BY <1>1
<1> QED BY <1>1, <1>2, RenewalAssumption DEF Renewal!Parameters, Renewal!LastElapsed

LEMMA RenewalTypes ==
  ASSUME Renewal!TypeOK
  PROVE  /\ safe \in Nat /\ safe <= lock_timeout /\ due \in Nat /\ due <= renew_interval
         /\ failed \in 0 .. 2 /\ own \in BOOLEAN /\ left \in Nat /\ left <= Records
         /\ tick = [at |-> tick.at, on |-> tick.on, elapsed |-> tick.elapsed,
                    wait |-> tick.wait, hurry |-> tick.hurry, waits |-> tick.waits]
         /\ tick.at \in {"idle", "unneeded", "opening", "borrowing", "statement"}
         /\ tick.on \in {"none", "own", "pool", "ordinary"}
         /\ tick.elapsed \in Nat /\ tick.elapsed <= Renewal!LastElapsed
         /\ tick.wait \in Nat /\ tick.wait <= POOL_FALLBACK_WAIT
         /\ tick.hurry \in BOOLEAN /\ tick.waits \subseteq Rows
         /\ \A r \in Rows :
              /\ leases[r].at \in {"free", "claimed", "running", "inside"}
              /\ leases[r].lease \in Nat /\ leases[r].lease <= lock_timeout
              /\ leases[r].gap \in Nat /\ leases[r].gap <= LastGap
<1>1. tick \in Renewal!Tick BY DEF Renewal!TypeOK
<1>2. /\ tick = [at |-> tick.at, on |-> tick.on, elapsed |-> tick.elapsed,
                 wait |-> tick.wait, hurry |-> tick.hurry, waits |-> tick.waits]
      /\ tick.at \in {"idle", "unneeded", "opening", "borrowing", "statement"}
      /\ tick.on \in {"none", "own", "pool", "ordinary"}
      /\ tick.elapsed \in 0 .. Renewal!LastElapsed /\ tick.wait \in 0 .. POOL_FALLBACK_WAIT
      /\ tick.hurry \in BOOLEAN /\ tick.waits \in SUBSET Rows
  BY <1>1 DEF Renewal!Tick
<1>3. ASSUME NEW r \in Rows
      PROVE  /\ leases[r].at \in {"free", "claimed", "running", "inside"}
             /\ leases[r].lease \in 0 .. lock_timeout /\ leases[r].gap \in 0 .. LastGap
  <2>1. leases[r] \in Renewal!Row BY DEF Renewal!TypeOK
  <2> QED BY <2>1 DEF Renewal!Row
<1>4. /\ safe \in 0 .. lock_timeout /\ due \in 0 .. renew_interval /\ failed \in 0 .. 2
      /\ own \in BOOLEAN /\ left \in 0 .. Records
  BY DEF Renewal!TypeOK
<1> QED BY <1>2, <1>3, <1>4, RenewalFacts

\* What is not set of a tick stays.
LEMMA TickGoes ==
  ASSUME Renewal!TypeOK, NEW n,
         NEW at \in {"idle", "unneeded", "opening", "borrowing", "statement"},
         n = [tick EXCEPT !.at = at]
  PROVE  /\ n \in Renewal!Tick
         /\ n.at = at /\ n.on = tick.on /\ n.elapsed = tick.elapsed /\ n.wait = tick.wait
         /\ n.hurry = tick.hurry /\ n.waits = tick.waits
BY DEF Renewal!TypeOK, Renewal!Tick

LEMMA TickGoesOver ==
  ASSUME Renewal!TypeOK, NEW n,
         NEW at \in {"idle", "unneeded", "opening", "borrowing", "statement"},
         NEW on \in {"none", "own", "pool", "ordinary"}, n = [tick EXCEPT !.at = at, !.on = on]
  PROVE  /\ n \in Renewal!Tick
         /\ n.at = at /\ n.on = on /\ n.elapsed = tick.elapsed /\ n.wait = tick.wait
         /\ n.hurry = tick.hurry /\ n.waits = tick.waits
BY DEF Renewal!TypeOK, Renewal!Tick

LEMMA TickWaits ==
  ASSUME Renewal!TypeOK, NEW n, NEW v \in Renewal!Tick, NEW wait \in 0 .. POOL_FALLBACK_WAIT,
         n = [v EXCEPT !.at = "borrowing", !.wait = wait]
  PROVE  /\ n \in Renewal!Tick
         /\ n.at = "borrowing" /\ n.on = v.on /\ n.elapsed = v.elapsed /\ n.wait = wait
         /\ n.hurry = v.hurry /\ n.waits = v.waits
BY DEF Renewal!Tick

LEMMA TickIsOn ==
  ASSUME Renewal!TypeOK, NEW n, n = [tick EXCEPT !.on = "none"]
  PROVE  /\ n \in Renewal!Tick
         /\ n.at = tick.at /\ n.on = "none" /\ n.elapsed = tick.elapsed /\ n.wait = tick.wait
         /\ n.hurry = tick.hurry /\ n.waits = tick.waits
BY DEF Renewal!TypeOK, Renewal!Tick

\* A tick that is over, or one that began in this state.
LEMMA IdleIs ==
  Renewal!Idle = [at |-> "idle", on |-> "none", elapsed |-> 0, wait |-> 0,
                  hurry |-> FALSE, waits |-> {}]
BY DEF Renewal!Idle

\* The rows a statement renewed, or those it did not.
LEMMA RenewedRows ==
  ASSUME Renewal!TypeOK, leases' \in {leases, Renewal!Renewed}, NEW r \in Rows
  PROVE  /\ leases' \in [Rows -> Renewal!Row]
         /\ leases'[r].at = leases[r].at
         /\ \/ leases'[r] = leases[r]
            \/ leases'[r].at = "running" /\ leases'[r].lease = lock_timeout /\ leases'[r].gap = 0
         /\ leases' = Renewal!Renewed /\ leases[r].at = "running" =>
              leases'[r].lease = lock_timeout /\ leases'[r].gap = 0
<1>1. ASSUME NEW s \in Rows, NEW n, n = [leases[s] EXCEPT !.lease = lock_timeout, !.gap = 0]
      PROVE  n \in Renewal!Row /\ n.at = leases[s].at /\ n.lease = lock_timeout /\ n.gap = 0
  <2>1. leases[s] \in Renewal!Row BY DEF Renewal!TypeOK
  <2>2. lock_timeout \in 0 .. lock_timeout /\ 0 \in 0 .. LastGap
    BY RenewalFacts
  <2> QED BY <1>1, <2>1, <2>2 DEF Renewal!Row
<1>2. ASSUME NEW s \in Rows
      PROVE  /\ Renewal!Renewed[s] \in Renewal!Row /\ Renewal!Renewed[s].at = leases[s].at
             /\ IF leases[s].at = "running"
                THEN Renewal!Renewed[s].lease = lock_timeout /\ Renewal!Renewed[s].gap = 0
                ELSE Renewal!Renewed[s] = leases[s]
  <2>1. leases[s] \in Renewal!Row BY DEF Renewal!TypeOK
  <2>2. PICK n : n = [leases[s] EXCEPT !.lease = lock_timeout, !.gap = 0]
    OBVIOUS
  <2>3. Renewal!Renewed[s] = IF leases[s].at = "running" THEN n ELSE leases[s]
    BY <2>2 DEF Renewal!Renewed
  <2> QED BY <1>1, <2>1, <2>2, <2>3
<1>3. Renewal!Renewed \in [Rows -> Renewal!Row]
  BY <1>2 DEF Renewal!Renewed
<1> QED BY <1>2, <1>3 DEF Renewal!TypeOK

LEMMA RenewalStutters ==
  ASSUME RenewalHolds, UNCHANGED renewal
  PROVE  RenewalHolds'
BY DEF renewal, RenewalHolds, Renewal!TypeOK, ShapeOK, RenewsOK, WatchesOK, TickOK, SpareOK,
   SlotsOK, OrdinaryOK, SafeOK, TimeOK, LeaseOK, InProgress, Taken, TakenBy

\* A tick is over: what it took has gone from the time to the next.
LEMMA TickEnds ==
  ASSUME RenewalHolds, tick' = Renewal!Idle,
         UNCHANGED <<thread, server, due, left>>, own' \in BOOLEAN,
         safe' \in 0 .. lock_timeout, failed' \in 0 .. 2,
         leases' \in [Rows -> Renewal!Row],
         thread = "watchdog" => leases' = leases,
         thread = "renewal" => \A r \in Rows :
           /\ leases'[r].at = "claimed" => leases'[r].lease + leases'[r].gap >= lock_timeout
           /\ leases'[r].at = "running" => safe' <= leases'[r].lease + leases'[r].gap,
         thread = "renewal" /\ server # "any" /\ failed' < 2 =>
           /\ safe' + renew_interval + TakenBy(failed') <= lock_timeout + due
           /\ \A r \in Rows : leases'[r].at = "running" =>
                leases'[r].lease + renew_interval + TakenBy(failed')
                  >= lock_timeout - LastGap + due
  PROVE  RenewalHolds'
<1>1. Renewal!TypeOK'
  <2>1. tick' \in Renewal!Tick
    BY IdleIs, RenewalFacts DEF Renewal!Tick
  <2> QED BY <2>1 DEF RenewalHolds, Renewal!TypeOK
<1>2. ShapeOK'
  BY IdleIs DEF ShapeOK
<1>3. tick'.at = "idle" /\ tick'.on = "none" /\ tick'.elapsed = 0 /\ tick'.hurry = FALSE
  BY IdleIs
<1>4. TickOK' /\ ~InProgress'
  BY <1>3 DEF TickOK, SpareOK, SlotsOK, OrdinaryOK, InProgress
<1>5. RenewsOK'
  <2> SUFFICES ASSUME thread = "renewal" PROVE RenewsOK' BY DEF RenewsOK
  <2>1. \A r \in Rows : LeaseOK(leases[r])'
    BY <1>3 DEF LeaseOK
  <2>2. ASSUME server # "any" PROVE SafeOK' /\ \A r \in Rows : TimeOK(leases[r])'
    BY <2>2, <1>4 DEF SafeOK, TimeOK, TakenBy
  <2> QED BY <2>1, <2>2, <1>3, <1>4 DEF RenewsOK
<1>6. WatchesOK'
  BY <1>3, RenewalFacts DEF WatchesOK, RenewalHolds
<1> QED BY <1>1, <1>2, <1>5, <1>6 DEF RenewalHolds

\* A step of a tick that takes no time and renews nothing: what has been taken is taken.
LEMMA TickGoesOn ==
  ASSUME RenewalHolds, tick' \in Renewal!Tick, InProgress, InProgress',
         UNCHANGED <<thread, server, leases, safe, due, failed, left>>, own' \in BOOLEAN,
         tick'.elapsed = tick.elapsed, tick'.hurry = tick.hurry, tick'.waits = tick.waits,
         tick'.at \in {"opening", "borrowing"} => tick'.on = "none",
         thread = "renewal" /\ server # "any" =>
           Taken' = Taken /\ (server = "spare" => SpareOK') /\ (server = "slots" => SlotsOK')
             /\ server # "ordinary",
         thread = "watchdog" =>
           /\ tick'.at = "opening" => tick'.elapsed <= budget
           /\ tick'.at = "borrowing" => tick'.elapsed + tick'.wait <= budget + POOL_FALLBACK_WAIT
  PROVE  RenewalHolds'
<1>1. Renewal!TypeOK'
  BY DEF RenewalHolds, Renewal!TypeOK
<1>2. /\ tick'.at \in {"opening", "borrowing", "statement"} /\ tick.at # "idle"
      /\ tick.at # "unneeded"
  BY DEF InProgress
<1>3. ShapeOK'
  BY <1>2 DEF RenewalHolds, ShapeOK
<1>4. RenewsOK'
  <2> SUFFICES ASSUME thread = "renewal" PROVE RenewsOK' BY DEF RenewsOK
  <2>1. \A r \in Rows : LeaseOK(leases[r])'
    BY <1>2 DEF RenewalHolds, RenewsOK, LeaseOK
  <2>2. ASSUME server # "any"
        PROVE  TickOK' /\ SafeOK' /\ \A r \in Rows : TimeOK(leases[r])'
    <3>1. TickOK /\ SafeOK /\ \A r \in Rows : TimeOK(leases[r])
      BY <2>2 DEF RenewalHolds, RenewsOK
    <3>2. Taken' = Taken
      BY <2>2
    <3>3. SafeOK'
      BY <1>2, <3>1, <3>2 DEF SafeOK
    <3>4. \A r \in Rows : TimeOK(leases[r])'
      BY <1>2, <3>1, <3>2 DEF TimeOK
    <3>5. TickOK'
      BY <1>2, <2>2, <3>1 DEF TickOK
    <3> QED BY <3>3, <3>4, <3>5
  <2> QED BY <2>1, <2>2, <1>2 DEF RenewsOK
<1>5. WatchesOK'
  BY <1>2 DEF RenewalHolds, WatchesOK
<1> QED BY <1>1, <1>3, <1>4, <1>5 DEF RenewalHolds

LEMMA OpenStep ==
  ASSUME RenewalHolds, Renewal!Open
  PROVE  RenewalHolds'
<1>0. Renewal!TypeOK /\ ShapeOK /\ tick.at = "opening" /\ tick.on = "none"
  BY DEF RenewalHolds, ShapeOK, Renewal!Open
<1>1. /\ tick' \in Renewal!Tick
      /\ tick'.at = "statement" /\ tick'.on = "own" /\ tick'.elapsed = tick.elapsed
      /\ tick'.wait = tick.wait /\ tick'.hurry = tick.hurry /\ tick'.waits = tick.waits
  <2>1. tick' = [tick EXCEPT !.at = "statement", !.on = "own"]
    BY DEF Renewal!Open
  <2> QED BY <1>0, <2>1, TickGoesOver
<1>2. UNCHANGED <<thread, server, leases, safe, due, failed, left>> /\ own' \in BOOLEAN
  BY DEF Renewal!Open
<1>3. InProgress /\ InProgress'
  BY <1>0, <1>1 DEF InProgress
<1>4. ASSUME thread = "renewal", server # "any"
      PROVE  /\ Taken' = Taken /\ server # "ordinary"
             /\ server = "spare" => SpareOK'
             /\ server = "slots" => SlotsOK'
  <2>1. TickOK
    BY <1>4 DEF RenewalHolds, RenewsOK
  <2>2. server # "ordinary"
    BY <2>1, <1>0 DEF TickOK, OrdinaryOK
  <2>3. server = "spare" => SpareOK'
    BY <2>1, <1>0, <1>1, <1>2, <1>3 DEF TickOK, SpareOK
  <2>4. server = "slots" => SlotsOK'
    BY <2>1, <1>0, <1>1, <1>2, <1>3 DEF TickOK, SlotsOK
  <2>5. Taken' = Taken
    BY <1>0, <1>1, <1>2 DEF Taken
  <2> QED BY <2>2, <2>3, <2>4, <2>5
<1> QED BY <1>1, <1>2, <1>3, <1>4, TickGoesOn

LEMMA BorrowStep ==
  ASSUME RenewalHolds, Renewal!Borrow
  PROVE  RenewalHolds'
<1>0. /\ Renewal!TypeOK /\ ShapeOK /\ tick.at = "borrowing" /\ tick.on = "none"
      /\ server # "slots"
  BY DEF RenewalHolds, ShapeOK, Renewal!Borrow
<1>1. /\ tick' \in Renewal!Tick
      /\ tick'.at = "statement" /\ tick'.on = "pool" /\ tick'.elapsed = tick.elapsed
      /\ tick'.wait = tick.wait /\ tick'.hurry = tick.hurry /\ tick'.waits = tick.waits
  <2>1. tick' = [tick EXCEPT !.at = "statement", !.on = "pool"]
    BY DEF Renewal!Borrow
  <2> QED BY <1>0, <2>1, TickGoesOver
<1>2. UNCHANGED <<thread, server, leases, own, safe, due, failed, left>> /\ own' \in BOOLEAN
  BY <1>0 DEF Renewal!Borrow, Renewal!TypeOK
<1>3. InProgress /\ InProgress'
  BY <1>0, <1>1 DEF InProgress
<1>4. ASSUME thread = "renewal", server # "any"
      PROVE  /\ Taken' = Taken /\ server # "ordinary"
             /\ server = "spare" => SpareOK'
  <2>1. TickOK
    BY <1>4 DEF RenewalHolds, RenewsOK
  <2>2. server # "ordinary"
    BY <2>1, <1>0 DEF TickOK, OrdinaryOK
  <2>3. server = "spare" => SpareOK'
    BY <2>1, <1>0, <1>1, <1>2, <1>3 DEF TickOK, SpareOK
  <2>5. Taken' = Taken
    BY <1>0, <1>1, <1>2 DEF Taken
  <2> QED BY <2>2, <2>3, <2>5
<1> QED BY <1>0, <1>1, <1>2, <1>3, <1>4, TickGoesOn

\* A tick misses, and what it took was not taken before.
LEMMA TickMisses ==
  ASSUME RenewalHolds, thread = "renewal", Renewal!Ends(FALSE),
         leases' \in {leases, Renewal!Renewed},
         UNCHANGED <<thread, server, due, left>>, own' \in BOOLEAN, failed' \in 0 .. 2,
         InProgress,
         server # "any" /\ failed' < 2 => failed' # 0 /\ failed < 2 /\ Taken = 0
  PROVE  RenewalHolds'
<1>0. Renewal!TypeOK /\ RenewsOK
  BY DEF RenewalHolds
<1>1. tick' = Renewal!Idle /\ safe' = safe
  BY DEF Renewal!Ends
<1>2. tick.at # "unneeded" /\ tick.at # "idle"
  BY DEF InProgress
<1>3. /\ leases' \in [Rows -> Renewal!Row]
      /\ \A r \in Rows : /\ leases'[r].at = leases[r].at
                         /\ \/ leases'[r] = leases[r]
                            \/ leases'[r].at = "running" /\ leases'[r].lease = lock_timeout
                               /\ leases'[r].gap = 0
  <2>1. leases' \in [Rows -> Renewal!Row]
    <3>1. leases \in [Rows -> Renewal!Row] BY <1>0 DEF Renewal!TypeOK
    <3>2. CASE Rows # {} BY <1>0, <3>2, RenewedRows
    <3>3. CASE Rows = {} BY <3>1, <3>3 DEF Renewal!Renewed
    <3> QED BY <3>2, <3>3
  <2> QED BY <1>0, <2>1, RenewedRows
<1>4. ASSUME NEW r \in Rows
      PROVE  /\ leases'[r].at = "claimed" => leases'[r].lease + leases'[r].gap >= lock_timeout
             /\ leases'[r].at = "running" => safe' <= leases'[r].lease + leases'[r].gap
  <2>1. LeaseOK(leases[r])
    BY <1>0 DEF RenewsOK
  <2> QED BY <1>0, <1>1, <1>3, <2>1, RenewalTypes, RenewalFacts DEF LeaseOK
<1>5. ASSUME server # "any", failed' < 2
      PROVE  /\ safe' + renew_interval + TakenBy(failed') <= lock_timeout + due
             /\ \A r \in Rows : leases'[r].at = "running" =>
                  leases'[r].lease + renew_interval + TakenBy(failed')
                    >= lock_timeout - LastGap + due
  <2>1. failed < 2 /\ Taken = 0 /\ SafeOK /\ TickOK /\ \A r \in Rows : TimeOK(leases[r])
    BY <1>0, <1>5 DEF RenewsOK
  <2>2. due + tick.elapsed = renew_interval
    BY <1>2, <2>1 DEF TickOK
  <2>3. TakenBy(failed') = renew_interval
    BY <1>5 DEF TakenBy
  <2>4. safe + tick.elapsed + renew_interval <= lock_timeout
    BY <2>1 DEF SafeOK
  <2>5. safe' + renew_interval + TakenBy(failed') <= lock_timeout + due
    BY <1>0, <1>1, <2>2, <2>3, <2>4, RenewalTypes, RenewalFacts
  <2>6. ASSUME NEW r \in Rows, leases'[r].at = "running"
        PROVE  leases'[r].lease + renew_interval + TakenBy(failed')
                    >= lock_timeout - LastGap + due
    <3>1. leases[r].lease + tick.elapsed + renew_interval >= lock_timeout - LastGap
      BY <1>0, <1>3, <2>1, <2>6, RenewalTypes, RenewalFacts DEF TimeOK
    <3>2. leases'[r].lease \in Nat /\ leases'[r].lease >= leases[r].lease
      BY <1>0, <1>3, RenewalTypes, RenewalFacts
    <3> QED BY <1>0, <2>2, <2>3, <3>1, <3>2, RenewalTypes, RenewalFacts
  <2> QED BY <2>5, <2>6
<1>6. safe' \in 0 .. lock_timeout
  BY <1>0, <1>1 DEF Renewal!TypeOK
<1> QED BY <1>1, <1>3, <1>4, <1>5, <1>6, TickEnds

LEMMA RenewStep ==
  ASSUME RenewalHolds, Renewal!Renew
  PROVE  RenewalHolds'
<1>0. /\ Renewal!TypeOK /\ RenewsOK /\ thread = "renewal" /\ tick.at = "statement"
      /\ leases' = Renewal!Renewed /\ failed' = 0 /\ tick' = Renewal!Idle
      /\ UNCHANGED <<thread, server, own, due, left>>
      /\ safe' = lock_timeout - Renewal!Lower(tick.elapsed, lock_timeout)
  BY DEF RenewalHolds, Renewal!Renew, Renewal!Ends
<1>1. /\ \A r \in Rows : /\ leases'[r].at = leases[r].at
                         /\ \/ leases'[r] = leases[r]
                            \/ leases'[r].at = "running"
                         /\ leases'[r].at = "running" =>
                              leases'[r].lease = lock_timeout /\ leases'[r].gap = 0
  BY <1>0, RenewedRows
<1>2. leases' \in [Rows -> Renewal!Row]
  <2>1. CASE Rows # {} BY <1>0, <2>1, RenewedRows
  <2>2. CASE Rows = {} BY <1>0, <2>2 DEF Renewal!Renewed
  <2> QED BY <2>1, <2>2
<1>3. /\ safe' \in 0 .. lock_timeout
      /\ tick.elapsed <= lock_timeout => safe' = lock_timeout - tick.elapsed
  BY <1>0, RenewalTypes, RenewalFacts DEF Renewal!Lower
<1>4. ASSUME NEW r \in Rows
      PROVE  /\ leases'[r].at = "claimed" => leases'[r].lease + leases'[r].gap >= lock_timeout
             /\ leases'[r].at = "running" => safe' <= leases'[r].lease + leases'[r].gap
  <2>1. LeaseOK(leases[r])
    BY <1>0 DEF RenewsOK
  <2> QED BY <1>0, <1>1, <1>3, <2>1, RenewalFacts DEF LeaseOK
<1>5. ASSUME server # "any"
      PROVE  /\ safe' + renew_interval + TakenBy(failed') <= lock_timeout + due
             /\ \A r \in Rows : leases'[r].at = "running" =>
                  leases'[r].lease + renew_interval + TakenBy(failed')
                    >= lock_timeout - LastGap + due
  <2>1. due + tick.elapsed = renew_interval /\ tick.elapsed <= budget
    BY <1>0, <1>5 DEF RenewsOK, TickOK
  <2>2. TakenBy(failed') = 0
    BY <1>0 DEF TakenBy
  <2> QED BY <1>0, <1>1, <1>3, <2>1, <2>2, RenewalTypes, RenewalFacts
<1>6. own' \in BOOLEAN /\ failed' \in 0 .. 2
  BY <1>0 DEF Renewal!TypeOK
<1> QED BY <1>0, <1>2, <1>3, <1>4, <1>5, <1>6, TickEnds

LEMMA EndUnneededStep ==
  ASSUME RenewalHolds, Renewal!EndUnneeded
  PROVE  RenewalHolds'
<1>0. /\ Renewal!TypeOK /\ RenewsOK /\ thread = "renewal" /\ tick.at = "unneeded"
      /\ failed' = 0 /\ tick' = Renewal!Idle
      /\ UNCHANGED <<thread, server, due, left>>
      /\ leases' \in {leases, Renewal!Renewed} /\ own' \in BOOLEAN
      /\ safe' = lock_timeout - Renewal!Lower(tick.elapsed, lock_timeout)
  BY DEF RenewalHolds, WatchesOK, Renewal!TypeOK, Renewal!EndUnneeded, Renewal!Ends
<1>1. /\ leases' \in [Rows -> Renewal!Row]
      /\ \A r \in Rows : /\ leases'[r].at = leases[r].at
                         /\ \/ leases'[r] = leases[r]
                            \/ leases'[r].at = "running" /\ leases'[r].lease = lock_timeout
                               /\ leases'[r].gap = 0
  <2>1. leases' \in [Rows -> Renewal!Row]
    <3>1. leases \in [Rows -> Renewal!Row] BY <1>0 DEF Renewal!TypeOK
    <3>2. CASE Rows # {} BY <1>0, <3>2, RenewedRows
    <3>3. CASE Rows = {} BY <1>0, <3>1, <3>3 DEF Renewal!Renewed
    <3> QED BY <3>2, <3>3
  <2> QED BY <1>0, <2>1, RenewedRows
<1>2. tick.elapsed <= budget
  BY <1>0 DEF RenewsOK
<1>3. safe' \in 0 .. lock_timeout /\ safe' = lock_timeout - tick.elapsed
  BY <1>0, <1>2, RenewalTypes, RenewalFacts DEF Renewal!Lower
<1>4. ASSUME NEW r \in Rows
      PROVE  /\ leases'[r].at = "claimed" => leases'[r].lease + leases'[r].gap >= lock_timeout
             /\ leases'[r].at = "running" =>
                  /\ safe' <= leases'[r].lease + leases'[r].gap
                  /\ leases'[r].lease + leases'[r].gap + tick.elapsed >= lock_timeout
                  /\ leases'[r].lease \in Nat
                  /\ leases'[r].gap \in Nat /\ leases'[r].gap <= LastGap
  <2>1. LeaseOK(leases[r])
    BY <1>0 DEF RenewsOK
  <2> QED BY <1>0, <1>1, <1>3, <2>1, RenewalTypes, RenewalFacts DEF LeaseOK
<1>5. ASSUME server # "any"
      PROVE  /\ safe' + renew_interval + TakenBy(failed') <= lock_timeout + due
             /\ \A r \in Rows : leases'[r].at = "running" =>
                  leases'[r].lease + renew_interval + TakenBy(failed')
                    >= lock_timeout - LastGap + due
  <2>1. due + tick.elapsed = renew_interval
    BY <1>0, <1>5 DEF RenewsOK, TickOK
  <2>2. TakenBy(failed') = 0
    BY <1>0 DEF TakenBy
  <2> QED BY <1>0, <1>3, <1>4, <2>1, <2>2, RenewalTypes, RenewalFacts
<1>6. failed' \in 0 .. 2
  BY <1>0
<1> QED BY <1>0, <1>1, <1>3, <1>4, <1>5, <1>6, TickEnds

LEMMA RenewFailsStep ==
  ASSUME RenewalHolds, Renewal!RenewFails
  PROVE  RenewalHolds'
<1>0. /\ Renewal!TypeOK /\ RenewsOK /\ ShapeOK /\ thread = "renewal" /\ tick.at = "statement"
      /\ leases' \in {leases, Renewal!Renewed} /\ own' = FALSE
      /\ failed' = Renewal!Lower(failed + 1, 2)
      /\ UNCHANGED <<thread, server, due, left>>
  BY DEF RenewalHolds, Renewal!RenewFails
<1>1. /\ own' \in BOOLEAN /\ failed' \in 0 .. 2 /\ failed' # 0 /\ InProgress
      /\ failed' < 2 => failed = 0 /\ failed' = 1
  <2>1. failed = 0 \/ failed = 1 \/ failed = 2
    BY <1>0, RenewalTypes
  <2>2. /\ failed' \in 0 .. 2 /\ failed' # 0
        /\ failed' < 2 => failed = 0 /\ failed' = 1
    BY <1>0, <2>1 DEF Renewal!Lower
  <2> QED BY <1>0, <2>2 DEF InProgress
<1>2. failed' < 2 => failed < 2 /\ Taken = 0
  BY <1>1 DEF Taken
<1>3. CASE tick.on = "pool" /\ tick.hurry
           /\ tick' = [tick EXCEPT !.at = "opening", !.on = "none"] /\ UNCHANGED safe
  <2>1. /\ tick' \in Renewal!Tick /\ tick'.at = "opening" /\ tick'.on = "none"
        /\ tick'.elapsed = tick.elapsed /\ tick'.hurry = tick.hurry /\ tick'.waits = tick.waits
    <3>1. tick' = [tick EXCEPT !.at = "opening", !.on = "none"]
      BY <1>3
    <3> QED BY <1>0, <3>1, TickGoesOver
  <2>2. leases' \in [Rows -> Renewal!Row]
    <3>1. leases \in [Rows -> Renewal!Row] BY <1>0 DEF Renewal!TypeOK
    <3>2. CASE Rows # {} BY <1>0, <3>2, RenewedRows
    <3>3. CASE Rows = {} BY <1>0, <3>1, <3>3 DEF Renewal!Renewed
    <3> QED BY <3>2, <3>3
  <2>3. Renewal!TypeOK'
    BY <1>0, <1>1, <1>3, <2>1, <2>2 DEF Renewal!TypeOK
  <2>4. ShapeOK'
    BY <1>0, <2>1 DEF ShapeOK
  <2>5. ASSUME NEW r \in Rows
        PROVE  /\ leases'[r].at = leases[r].at
               /\ \/ leases'[r] = leases[r]
                  \/ leases'[r].at = "running" /\ leases'[r].lease = lock_timeout
                     /\ leases'[r].gap = 0
    BY <1>0, RenewedRows
  <2>6. ASSUME NEW r \in Rows PROVE LeaseOK(leases[r])'
    <3>1. LeaseOK(leases[r])
      BY <1>0 DEF RenewsOK
    <3> QED BY <1>0, <1>3, <2>1, <2>5, <3>1, RenewalTypes, RenewalFacts DEF LeaseOK
  <2>7. ASSUME server # "any"
        PROVE  TickOK' /\ SafeOK' /\ \A r \in Rows : TimeOK(leases[r])'
    <3>1. TickOK /\ SafeOK /\ \A r \in Rows : TimeOK(leases[r])
      BY <1>0, <2>7 DEF RenewsOK
    <3>2. server = "spare" /\ tick.elapsed = 0
      BY <1>0, <1>3, <2>7, <3>1 DEF TickOK, SpareOK, SlotsOK, OrdinaryOK, Renewal!TypeOK
    <3>3. InProgress' /\ Taken' = 0
      BY <1>3, <2>1, <3>2, <1>0 DEF InProgress, Taken
    <3>4. due + tick.elapsed = renew_interval /\ tick.elapsed <= budget
      BY <1>0, <3>1 DEF TickOK
    <3>5. SpareOK'
      BY <1>3, <2>1, <1>1, <1>0 DEF SpareOK
    <3>6. TickOK'
      BY <2>1, <3>2, <3>4, <3>5, <1>0 DEF TickOK
    <3>7. SafeOK'
      BY <1>1, <1>2, <1>3, <2>1, <3>1 DEF SafeOK
    <3>8. ASSUME NEW r \in Rows PROVE TimeOK(leases[r])'
      <4> SUFFICES ASSUME leases'[r].at = "running", failed' < 2
                   PROVE  leases'[r].lease + tick'.elapsed + renew_interval + Taken'
                            >= lock_timeout - LastGap
        BY <2>1 DEF TimeOK
      <4>1. leases[r].lease + tick.elapsed + renew_interval + 0 >= lock_timeout - LastGap
        BY <1>1, <1>2, <2>5, <3>1 DEF TimeOK
      <4> QED BY <1>0, <2>1, <2>5, <3>3, <4>1, RenewalTypes, RenewalFacts
    <3> QED BY <3>6, <3>7, <3>8
  <2>8. RenewsOK'
    BY <2>1, <2>6, <2>7, <1>0 DEF RenewsOK
  <2> QED BY <1>0, <2>3, <2>4, <2>8 DEF RenewalHolds, WatchesOK
<1>4. CASE Renewal!Ends(FALSE)
  BY <1>0, <1>1, <1>2, <1>4, TickMisses
<1> QED BY <1>0, <1>3, <1>4 DEF Renewal!RenewFails, Renewal!OtherWay, Renewal!Neither

LEMMA OpenFailsStep ==
  ASSUME RenewalHolds, Renewal!OpenFails
  PROVE  RenewalHolds'
<1>0. /\ Renewal!TypeOK /\ RenewsOK /\ ShapeOK /\ WatchesOK
      /\ tick.at = "opening" /\ tick.on = "none"
      /\ server = "slots" => tick.elapsed = budget
      /\ UNCHANGED <<thread, server, leases, own, due, failed, left>> /\ own' \in BOOLEAN
      /\ failed \in 0 .. 2
  BY DEF RenewalHolds, ShapeOK, Renewal!OpenFails, Renewal!TypeOK
<1>1. InProgress
  BY <1>0 DEF InProgress
<1>2. ASSUME thread = "renewal", server # "any"
      PROVE  server = "spare" /\ TickOK
  <2>1. TickOK
    BY <1>0, <1>2 DEF RenewsOK
  <2>2. server \in {"spare", "slots", "ordinary"}
    BY <1>0, <1>2 DEF Renewal!TypeOK
  <2>3. server # "ordinary"
    BY <1>0, <2>1 DEF TickOK, OrdinaryOK
  <2>4. server # "slots"
    <3>1. server = "slots" => tick.elapsed <= POOL_FALLBACK_WAIT /\ tick.elapsed = budget
      BY <1>0, <1>1, <2>1 DEF TickOK, SlotsOK
    <3> QED BY <3>1, RenewalFacts
  <2> QED BY <2>1, <2>2, <2>3, <2>4
<1>3. CASE ~tick.hurry /\ tick' = Renewal!Borrowing(tick) /\ UNCHANGED safe
  <2>1. PICK wait \in 0 .. POOL_FALLBACK_WAIT :
          tick' = [tick EXCEPT !.at = "borrowing", !.wait = wait]
    <3>1. Renewal!Lower(POOL_FALLBACK_WAIT, safe) \in 0 .. POOL_FALLBACK_WAIT
      BY <1>0, RenewalTypes, RenewalFacts DEF Renewal!Lower
    <3>2. POOL_FALLBACK_WAIT \in 0 .. POOL_FALLBACK_WAIT
      BY RenewalFacts
    <3> QED BY <1>3, <3>1, <3>2 DEF Renewal!Borrowing
  <2>2. /\ tick' \in Renewal!Tick
        /\ tick'.at = "borrowing" /\ tick'.on = "none" /\ tick'.elapsed = tick.elapsed
        /\ tick'.wait \in 0 .. POOL_FALLBACK_WAIT
        /\ tick'.hurry = tick.hurry /\ tick'.waits = tick.waits
    <3>1. tick \in Renewal!Tick BY <1>0 DEF Renewal!TypeOK
    <3> QED BY <1>0, <2>1, <3>1, TickWaits
  <2>3. ASSUME thread = "renewal", server # "any"
        PROVE  Taken' = Taken /\ SpareOK' /\ server = "spare"
    <3>1. server = "spare" /\ SpareOK
      BY <1>2, <2>3 DEF TickOK
    <3>2. SpareOK'
      BY <1>0, <1>1, <1>3, <2>2, <3>1 DEF SpareOK, InProgress
    <3>3. Taken' = Taken
      BY <1>0, <1>3, <2>2 DEF Taken
    <3> QED BY <3>1, <3>2, <3>3
  <2>4. ASSUME thread = "watchdog"
        PROVE  tick'.elapsed + tick'.wait <= budget + POOL_FALLBACK_WAIT
    BY <1>0, <2>2, <2>4, RenewalTypes, RenewalFacts DEF WatchesOK
  <2>5. InProgress'
    BY <2>2 DEF InProgress
  <2> QED BY <1>0, <1>1, <1>3, <2>2, <2>3, <2>4, <2>5, TickGoesOn
<1>4. CASE tick.hurry /\ Renewal!Neither
  <2>1. thread = "renewal"
    BY <1>0, <1>4 DEF WatchesOK, Renewal!TypeOK
  <2>2. Renewal!Ends(FALSE)
    BY <1>4, <2>1 DEF Renewal!Neither
  <2>3. ASSUME server # "any", failed' < 2
        PROVE  failed' # 0 /\ failed < 2 /\ Taken = 0
    <3>1. server = "spare" /\ SpareOK
      BY <1>2, <2>1, <2>3 DEF TickOK
    <3> QED BY <1>0, <1>4, <2>3, <3>1 DEF SpareOK, Taken
  <2> QED BY <1>0, <1>1, <2>1, <2>2, <2>3, TickMisses
<1> QED BY <1>0, <1>3, <1>4 DEF Renewal!OpenFails, Renewal!OtherWay

LEMMA BorrowFailsStep ==
  ASSUME RenewalHolds, Renewal!BorrowFails
  PROVE  RenewalHolds'
<1>0. /\ Renewal!TypeOK /\ RenewsOK /\ ShapeOK /\ WatchesOK
      /\ tick.at = "borrowing" /\ tick.on = "none" /\ server # "spare"
      /\ UNCHANGED <<thread, server, leases, own, due, failed, left>> /\ own' \in BOOLEAN
      /\ failed \in 0 .. 2
  BY DEF RenewalHolds, ShapeOK, Renewal!BorrowFails, Renewal!TypeOK
<1>1. InProgress
  BY <1>0 DEF InProgress
<1>2. ASSUME thread = "renewal", server # "any"
      PROVE  server = "slots" /\ SlotsOK /\ tick.hurry
  <2>1. TickOK
    BY <1>0, <1>2 DEF RenewsOK
  <2>2. server \in {"slots", "ordinary"}
    BY <1>0, <1>2 DEF Renewal!TypeOK
  <2>3. server # "ordinary"
    BY <1>0, <2>1 DEF TickOK, OrdinaryOK
  <2>4. SlotsOK
    BY <2>1, <2>2, <2>3 DEF TickOK
  <2> QED BY <1>0, <2>2, <2>3, <2>4 DEF SlotsOK
<1>3. CASE tick.hurry /\ tick' = [tick EXCEPT !.at = "opening"] /\ UNCHANGED safe
  <2>1. /\ tick' \in Renewal!Tick
        /\ tick'.at = "opening" /\ tick'.on = "none" /\ tick'.elapsed = tick.elapsed
        /\ tick'.hurry = tick.hurry /\ tick'.waits = tick.waits
    BY <1>0, <1>3, TickGoes
  <2>2. thread # "watchdog"
    BY <1>0, <1>3 DEF WatchesOK
  <2>3. InProgress'
    BY <2>1 DEF InProgress
  <2>4. ASSUME thread = "renewal", server # "any"
        PROVE  Taken' = Taken /\ SlotsOK' /\ server = "slots"
    <3>1. server = "slots" /\ SlotsOK
      BY <1>2, <2>4
    <3>2. SlotsOK'
      BY <1>1, <2>1, <2>3, <3>1 DEF SlotsOK
    <3>3. Taken' = Taken
      BY <1>0, <3>1 DEF Taken
    <3> QED BY <3>1, <3>2, <3>3
  <2> QED BY <1>0, <1>1, <1>3, <2>1, <2>2, <2>3, <2>4, TickGoesOn
<1>4. CASE ~tick.hurry /\ thread = "renewal" /\ Renewal!Neither
  <2>1. server = "any" /\ Renewal!Ends(FALSE)
    BY <1>2, <1>4 DEF Renewal!Neither
  <2> QED BY <1>0, <1>1, <1>4, <2>1, TickMisses
<1>5. CASE ~tick.hurry /\ thread # "renewal" /\ Renewal!Neither
  <2>1. /\ tick' \in Renewal!Tick /\ UNCHANGED safe
        /\ tick'.at = "statement" /\ tick'.on = "none" /\ tick'.elapsed = tick.elapsed
        /\ tick'.hurry = tick.hurry /\ tick'.waits = tick.waits
    <3>1. tick' = [tick EXCEPT !.at = "statement", !.on = "none"] /\ UNCHANGED safe
      BY <1>5 DEF Renewal!Neither
    <3> QED BY <1>0, <3>1, TickGoesOver
  <2>2. InProgress'
    BY <2>1 DEF InProgress
  <2> QED BY <1>0, <1>1, <1>5, <2>1, <2>2, TickGoesOn
<1> QED BY <1>0, <1>3, <1>4, <1>5 DEF Renewal!BorrowFails, Renewal!OtherWay

LEMMA BeginTickStep ==
  ASSUME RenewalHolds, Renewal!BeginTick
  PROVE  RenewalHolds'
<1>0. /\ Renewal!TypeOK /\ RenewsOK /\ ShapeOK /\ thread = "renewal" /\ tick.at = "idle"
      /\ due = 0 /\ due' = renew_interval
      /\ UNCHANGED <<thread, server, leases, own, safe, failed, left>>
      /\ tick = Renewal!Idle
  BY DEF RenewalHolds, ShapeOK, Renewal!BeginTick, Renewal!NextDue
<1>1. /\ tick' \in Renewal!Tick /\ tick'.elapsed = 0 /\ tick'.waits = {}
      /\ tick'.at # "idle" /\ (tick'.at # "statement" => tick'.on = "none")
      /\ tick'.on # "pool"
      /\ server = "ordinary" => tick'.at = "statement" /\ ~tick'.hurry
      /\ tick'.at = "unneeded" => \A r \in Rows : leases[r].at # "running"
      /\ tick'.hurry => tick'.at = "borrowing" /\ tick'.wait <= POOL_FALLBACK_WAIT
      /\ tick'.at = "borrowing" => tick'.hurry
      /\ tick'.at = "opening" => safe >= budget + POOL_FALLBACK_WAIT
  <2>1. CASE server = "ordinary"
    <3>1. {r \in Renewal!Renewable : leases[r].at = "inside"} = {}
      BY DEF Renewal!Renewable
    <3>2. tick' = [Renewal!Idle EXCEPT !.at = "statement", !.on = "ordinary", !.waits = {}]
      BY <2>1, <3>1 DEF Renewal!BeginTick, Renewal!Pooled
    <3>3. tick' = [at |-> "statement", on |-> "ordinary", elapsed |-> 0, wait |-> 0,
                   hurry |-> FALSE, waits |-> {}]
      BY <3>2, IdleIs
    <3>4. tick' \in Renewal!Tick
      BY <3>3, RenewalFacts DEF Renewal!Tick
    <3> QED BY <3>3, <3>4
  <2>2. CASE server # "ordinary" /\ Renewal!Renewable = {}
    <3>1. tick' = [Renewal!Idle EXCEPT !.at = "unneeded"]
      BY <2>2 DEF Renewal!BeginTick, Renewal!Pooled
    <3>2. tick' = [at |-> "unneeded", on |-> "none", elapsed |-> 0, wait |-> 0,
                   hurry |-> FALSE, waits |-> {}]
      BY <3>1, IdleIs
    <3>3. tick' \in Renewal!Tick
      BY <3>2, RenewalFacts DEF Renewal!Tick
    <3>4. \A r \in Rows : leases[r].at # "running"
      BY <2>2 DEF Renewal!Renewable, Renewal!InFlight
    <3> QED BY <2>2, <3>2, <3>3, <3>4
  <2>3. CASE server # "ordinary" /\ Renewal!Renewable # {} /\ own
    <3>1. tick' = [Renewal!Idle EXCEPT !.at = "statement", !.on = "own"]
      BY <2>3 DEF Renewal!BeginTick, Renewal!Pooled
    <3>2. tick' = [at |-> "statement", on |-> "own", elapsed |-> 0, wait |-> 0,
                   hurry |-> FALSE, waits |-> {}]
      BY <3>1, IdleIs
    <3>3. tick' \in Renewal!Tick
      BY <3>2, RenewalFacts DEF Renewal!Tick
    <3> QED BY <2>3, <3>2, <3>3
  <2>4. CASE server # "ordinary" /\ Renewal!Renewable # {} /\ ~own /\ Renewal!Hurry
    <3>1. PICK v, wait :
            /\ v = [Renewal!Idle EXCEPT !.hurry = TRUE]
            /\ wait = Renewal!Lower(POOL_FALLBACK_WAIT, safe)
            /\ tick' = [v EXCEPT !.at = "borrowing", !.wait = wait]
      BY <1>0, <2>4 DEF Renewal!BeginTick, Renewal!Pooled, Renewal!Borrowing
    <3>2. wait \in 0 .. POOL_FALLBACK_WAIT
      BY <1>0, <3>1, RenewalTypes, RenewalFacts DEF Renewal!Lower
    <3>3. Renewal!Idle \in Renewal!Tick
      BY IdleIs, RenewalFacts DEF Renewal!Tick
    <3>4. /\ v \in Renewal!Tick
          /\ v.on = Renewal!Idle.on /\ v.elapsed = Renewal!Idle.elapsed /\ v.hurry = TRUE
          /\ v.waits = Renewal!Idle.waits
      BY <3>1, <3>3 DEF Renewal!Tick
    <3>5. /\ tick' \in Renewal!Tick
          /\ tick'.at = "borrowing" /\ tick'.on = v.on /\ tick'.elapsed = v.elapsed
          /\ tick'.wait = wait /\ tick'.hurry = v.hurry /\ tick'.waits = v.waits
      <4>1. tick' = [v EXCEPT !.at = "borrowing", !.wait = wait]
        BY <3>1
      <4> QED BY <1>0, <3>2, <3>4, <4>1, TickWaits
    <3>6. v.on = "none" /\ v.elapsed = 0 /\ v.waits = {}
      BY <3>4, IdleIs
    <3>7. wait <= POOL_FALLBACK_WAIT
      BY <3>2, RenewalFacts
    <3> QED BY <2>4, <3>4, <3>5, <3>6, <3>7
  <2>5. CASE server # "ordinary" /\ Renewal!Renewable # {} /\ ~own /\ ~Renewal!Hurry
    <3>1. tick' = [Renewal!Idle EXCEPT !.at = "opening"]
      BY <2>5 DEF Renewal!BeginTick, Renewal!Pooled, Renewal!Opening
    <3>2. tick' = [at |-> "opening", on |-> "none", elapsed |-> 0, wait |-> 0,
                   hurry |-> FALSE, waits |-> {}]
      BY <3>1, IdleIs
    <3>3. tick' \in Renewal!Tick
      BY <3>2, RenewalFacts DEF Renewal!Tick
    <3>4. safe >= budget + POOL_FALLBACK_WAIT
      BY <1>0, <2>5, RenewalTypes, RenewalFacts DEF Renewal!Hurry
    <3> QED BY <2>5, <3>2, <3>3, <3>4
  <2> QED BY <1>0, <2>1, <2>2, <2>3, <2>4, <2>5
<1>2. Renewal!TypeOK'
  BY <1>0, <1>1, RenewalFacts DEF Renewal!TypeOK
<1>3. ShapeOK'
  BY <1>1 DEF ShapeOK
<1>4. ASSUME NEW r \in Rows PROVE LeaseOK(leases[r])'
  <2>1. LeaseOK(leases[r])
    BY <1>0 DEF RenewsOK
  <2> QED BY <1>0, <1>1, <2>1 DEF LeaseOK
<1>5. ASSUME server # "any"
      PROVE  TickOK' /\ SafeOK' /\ \A r \in Rows : TimeOK(leases[r])'
  <2>1. TickOK /\ SafeOK /\ \A r \in Rows : TimeOK(leases[r])
    BY <1>0, <1>5 DEF RenewsOK
  <2>2. TakenBy(failed) \in Nat /\ (failed = 1 => TakenBy(failed) = renew_interval)
    BY RenewalFacts DEF TakenBy
  <2>3. failed < 2 => safe + renew_interval + TakenBy(failed) <= lock_timeout
    BY <1>0, <2>1, <2>2, RenewalTypes, RenewalFacts DEF SafeOK
  <2>4. Taken' = TakenBy(failed)
    BY <1>0, <1>1 DEF Taken, TakenBy
  <2>5. SafeOK'
    BY <1>0, <1>1, <2>2, <2>3, RenewalTypes, RenewalFacts DEF SafeOK
  <2>6. ASSUME NEW r \in Rows PROVE TimeOK(leases[r])'
    <3> SUFFICES ASSUME leases[r].at = "running", failed < 2
                 PROVE  leases[r].lease + tick'.elapsed + renew_interval + Taken'
                          >= lock_timeout - LastGap
      BY <1>0, <1>1 DEF TimeOK
    <3>1. leases[r].lease + renew_interval + TakenBy(failed) >= lock_timeout - LastGap + due
      BY <1>0, <2>1 DEF TimeOK
    <3> QED BY <1>0, <1>1, <2>2, <2>4, <3>1, RenewalTypes, RenewalFacts
  <2>7. tick'.at = "opening" /\ failed = 1 => 2 * renew_interval + budget + LastGap < lock_timeout
    BY <1>0, <1>1, <2>2, <2>3, RenewalTypes, RenewalFacts
  <2>8. SpareOK'
    BY <1>0, <1>1, <2>7 DEF SpareOK, InProgress
  <2>9. SlotsOK'
    <3>1. tick'.at = "borrowing" => tick'.elapsed + tick'.wait <= POOL_FALLBACK_WAIT
      BY <1>1, RenewalFacts DEF Renewal!Tick
    <3>2. 0 <= POOL_FALLBACK_WAIT
      BY RenewalFacts
    <3> QED BY <1>1, <3>1, <3>2 DEF SlotsOK
  <2>10. server = "ordinary" => OrdinaryOK'
    BY <1>1 DEF OrdinaryOK
  <2>11. due' + tick'.elapsed = renew_interval /\ tick'.elapsed <= budget
    BY <1>0, <1>1, RenewalFacts
  <2>12. TickOK'
    BY <1>0, <2>8, <2>9, <2>10, <2>11 DEF TickOK
  <2> QED BY <2>5, <2>6, <2>12
<1>6. RenewsOK'
  BY <1>0, <1>1, <1>4, <1>5, RenewalFacts DEF RenewsOK
<1> QED BY <1>0, <1>2, <1>3, <1>6 DEF RenewalHolds, WatchesOK

\* One row is another: the tick goes on.
LEMMA RowStep ==
  ASSUME RenewalHolds, NEW r \in Rows, NEW next, Renewal!Becomes(r, next),
         thread = "renewal" \/ next = leases[r],
         next \in Renewal!Row,
         thread = "renewal" =>
           /\ next.at = "claimed" => next.lease + next.gap >= lock_timeout
           /\ next.at = "running" => next.lease + next.gap >= lock_timeout
  PROVE  RenewalHolds'
<1>0. /\ Renewal!TypeOK /\ RenewsOK /\ ShapeOK /\ WatchesOK
      /\ leases' = [leases EXCEPT ![r] = next]
      /\ UNCHANGED <<thread, server, own, safe, due, tick, failed, left>>
      /\ leases \in [Rows -> Renewal!Row]
  BY DEF RenewalHolds, Renewal!Becomes, Renewal!TypeOK
<1>1. leases' \in [Rows -> Renewal!Row]
  BY <1>0
<1>2. Renewal!TypeOK' /\ ShapeOK'
  BY <1>0, <1>1 DEF Renewal!TypeOK, ShapeOK
<1>3. UNCHANGED <<InProgress, Taken>> /\ TickOK' = TickOK /\ SafeOK' = SafeOK
  BY <1>0 DEF InProgress, Taken, TickOK, SafeOK, SpareOK, SlotsOK, OrdinaryOK, TakenBy
<1>4. /\ next.lease \in Nat /\ next.gap \in Nat /\ next.gap <= LastGap
      /\ next.lease <= lock_timeout
  BY RenewalFacts DEF Renewal!Row
<1>5. ASSUME thread = "renewal", NEW s \in Rows
      PROVE  LeaseOK(leases[s])' /\ (server # "any" => TimeOK(leases[s])')
  <2>1. CASE s # r
    <3>1. leases'[s] = leases[s]
      BY <1>0, <2>1
    <3>2. LeaseOK(leases[s]) /\ (server # "any" => TimeOK(leases[s]))
      BY <1>0, <1>5 DEF RenewsOK
    <3> QED BY <1>0, <1>3, <3>1, <3>2 DEF LeaseOK, TimeOK, TakenBy
  <2>2. CASE s = r
    <3>1. leases'[s] = next
      BY <1>0, <2>2
    <3>2. ASSUME next.at = "running" PROVE next.lease >= lock_timeout - LastGap
      BY <1>4, <1>5, <3>2, RenewalFacts
    <3>3. LeaseOK(leases[s])'
      <4>1. safe \in Nat /\ safe <= lock_timeout /\ tick.elapsed \in Nat
        BY <1>0, RenewalTypes
      <4> QED BY <1>0, <1>4, <1>5, <3>1, <4>1, RenewalFacts DEF LeaseOK
    <3>4. TimeOK(leases[s])'
      <4>1. Taken \in Nat /\ TakenBy(failed) \in Nat
        BY RenewalFacts DEF Taken, TakenBy
      <4>2. due \in Nat /\ due <= renew_interval /\ tick.elapsed \in Nat
        BY <1>0, RenewalTypes
      <4>3. next.at = "running" =>
              /\ next.lease + renew_interval + TakenBy(failed) >= lock_timeout - LastGap + due
              /\ next.lease + tick.elapsed + renew_interval + Taken >= lock_timeout - LastGap
        BY <1>4, <3>2, <4>1, <4>2, RenewalFacts
      <4> QED BY <1>0, <1>3, <3>1, <4>3 DEF TimeOK, TakenBy
    <3> QED BY <3>3, <3>4
  <2> QED BY <2>1, <2>2
<1>6. RenewsOK'
  BY <1>0, <1>3, <1>5 DEF RenewsOK
<1>7. WatchesOK'
  <2>1. thread # "renewal" => \A s \in Rows : leases'[s] = leases[s]
    BY <1>0
  <2> QED BY <1>0, <2>1 DEF WatchesOK
<1> QED BY <1>2, <1>6, <1>7 DEF RenewalHolds

LEMMA RowSteps ==
  ASSUME RenewalHolds, NEW r \in Rows,
         Renewal!Claim(r) \/ Renewal!Execute(r) \/ Renewal!Finish(r)
  PROVE  RenewalHolds'
<1>0. Renewal!TypeOK /\ RenewsOK /\ WatchesOK /\ leases[r] \in Renewal!Row
  BY DEF RenewalHolds, Renewal!TypeOK
<1>1. 0 \in 0 .. lock_timeout /\ lock_timeout \in 0 .. lock_timeout /\ 0 \in 0 .. LastGap
  BY RenewalFacts
<1>2. Renewal!Free \in Renewal!Row /\ Renewal!Free.at = "free"
  BY <1>1 DEF Renewal!Free, Renewal!Row
<1>3. CASE Renewal!Claim(r)
  <2>1. PICK next : /\ Renewal!Becomes(r, next)
                    /\ \/ next = [Renewal!Free EXCEPT !.at = "claimed", !.lease = lock_timeout]
                       \/ next = [Renewal!Free EXCEPT !.at = "inside"]
    BY <1>3 DEF Renewal!Claim
  <2>2. /\ next \in Renewal!Row /\ next.at # "running"
        /\ next.at = "claimed" => next.lease = lock_timeout
    BY <1>1, <1>2, <2>1 DEF Renewal!Row
  <2>3. next.gap \in Nat /\ next.lease \in Nat
    BY <2>2, RenewalFacts DEF Renewal!Row
  <2>4. next.at = "claimed" => next.lease + next.gap >= lock_timeout
    BY <2>2, <2>3, RenewalFacts
  <2>5. thread = "renewal"
    BY <1>3 DEF Renewal!Claim
  <2> QED BY <2>1, <2>2, <2>4, <2>5, RowStep
<1>4. CASE Renewal!Execute(r)
  <2>1. PICK next : /\ Renewal!Becomes(r, next)
                    /\ next = [leases[r] EXCEPT !.at = "running"]
    BY <1>4 DEF Renewal!Execute
  <2>2. leases[r].at = "claimed"
    BY <1>4 DEF Renewal!Execute
  <2>3. /\ next \in Renewal!Row /\ next.at = "running" /\ next.lease = leases[r].lease
        /\ next.gap = leases[r].gap
    BY <1>0, <2>1 DEF Renewal!Row
  <2>4. thread = "renewal"
    BY <1>0, <2>2 DEF WatchesOK, Renewal!TypeOK
  <2>5. leases[r].lease + leases[r].gap >= lock_timeout
    BY <1>0, <2>2, <2>4 DEF RenewsOK, LeaseOK
  <2>6. next.lease + next.gap >= lock_timeout
    BY <2>3, <2>5
  <2> QED BY <2>1, <2>3, <2>4, <2>6, RowStep
<1>5. CASE Renewal!Finish(r)
  <2>1. Renewal!Becomes(r, Renewal!Free) /\ leases[r].at # "free"
    BY <1>5 DEF Renewal!Finish
  <2>2. thread = "renewal"
    BY <1>0, <2>1 DEF WatchesOK, Renewal!TypeOK
  <2> QED BY <1>2, <2>1, <2>2, RowStep
<1> QED BY <1>3, <1>4, <1>5

\* A lease runs down, and a claim's gap opens.
LEMMA RowAges ==
  ASSUME Renewal!TypeOK, Renewal!TimePasses, NEW r \in Rows
  PROVE  /\ leases'[r] \in Renewal!Row /\ leases'[r].at = leases[r].at
         /\ leases'[r].lease = Renewal!Down(leases[r].lease)
         /\ leases'[r].gap = IF leases[r].at = "claimed" THEN leases[r].gap + 1 ELSE leases[r].gap
<1> DEFINE lease == Renewal!Down(leases[r].lease)
           gap == IF leases[r].at = "claimed" THEN leases[r].gap + 1 ELSE leases[r].gap
<1>1. leases[r] \in Renewal!Row
  BY DEF Renewal!TypeOK
<1>2. leases' = [s \in Rows |-> [leases[s] EXCEPT
                    !.lease = Renewal!Down(@),
                    !.gap = IF leases[s].at = "claimed" THEN @ + 1 ELSE @]]
  BY DEF Renewal!TimePasses
<1>3. leases'[r] = [leases[r] EXCEPT !.lease = lease, !.gap = gap]
  BY <1>2
<1>4. leases[r].at = "claimed" => leases[r].gap < LastGap
  BY DEF Renewal!TimePasses
<1>5. lease \in 0 .. lock_timeout /\ gap \in 0 .. LastGap
  BY <1>4, RenewalTypes, RenewalFacts DEF Renewal!Down
<1> HIDE DEF lease, gap
<1>6. PICK n : n = [leases[r] EXCEPT !.lease = lease, !.gap = gap]
  OBVIOUS
<1>7. n \in Renewal!Row /\ n.at = leases[r].at /\ n.lease = lease /\ n.gap = gap
  BY <1>1, <1>5, <1>6 DEF Renewal!Row
<1> QED BY <1>3, <1>6, <1>7 DEF lease, gap

LEMMA TimeStep ==
  ASSUME RenewalHolds, Renewal!TimePasses
  PROVE  RenewalHolds'
<1>0. /\ Renewal!TypeOK /\ RenewsOK /\ ShapeOK /\ WatchesOK /\ Renewal!MayWait
      /\ UNCHANGED <<thread, server, own, failed, left>>
      /\ safe' = Renewal!Down(safe) /\ due' = Renewal!Down(due)
  BY DEF RenewalHolds, Renewal!TimePasses
<1>1. /\ safe' \in Nat /\ safe' <= safe /\ (safe' = safe - 1 \/ safe' = 0)
      /\ due' \in Nat /\ due' <= due /\ (due > 0 => due' = due - 1)
      /\ safe' <= lock_timeout /\ due' <= renew_interval
  BY <1>0, RenewalTypes, RenewalFacts DEF Renewal!Down
<1>2. tick.at # "statement"
  BY <1>0 DEF Renewal!MayWait, Renewal!Answered, ShapeOK
<1>3. /\ tick.at = "idle" => thread = "renewal" /\ due > 0
      /\ tick.at \in {"unneeded", "opening"} => tick.elapsed < budget
      /\ tick.at = "opening" => server # "slots"
      /\ tick.at = "borrowing" => tick.wait > 0 /\ server # "spare"
  BY <1>0 DEF Renewal!MayWait
<1>4. /\ tick' \in Renewal!Tick /\ tick'.at = tick.at /\ tick'.on = tick.on
      /\ tick'.hurry = tick.hurry /\ tick'.waits = tick.waits
      /\ tick'.wait = Renewal!Down(tick.wait)
      /\ tick'.elapsed = IF tick.at = "idle" THEN 0
                         ELSE Renewal!Lower(tick.elapsed + 1, Renewal!LastElapsed)
  <2>1. PICK wait, elapsed :
          /\ wait = Renewal!Down(tick.wait)
          /\ elapsed = IF tick.at = "idle" THEN 0
                       ELSE Renewal!Lower(tick.elapsed + 1, Renewal!LastElapsed)
          /\ tick' = [tick EXCEPT !.wait = wait, !.elapsed = elapsed]
    BY DEF Renewal!TimePasses
  <2>2. wait \in 0 .. POOL_FALLBACK_WAIT
    BY <1>0, <2>1, RenewalTypes, RenewalFacts DEF Renewal!Down
  <2>3. elapsed \in 0 .. Renewal!LastElapsed
    BY <1>0, <2>1, RenewalTypes, RenewalFacts DEF Renewal!Lower
  <2>4. tick' = [tick EXCEPT !.wait = wait, !.elapsed = elapsed]
    BY <2>1
  <2>5. /\ tick' \in Renewal!Tick /\ tick'.at = tick.at /\ tick'.on = tick.on
        /\ tick'.elapsed = elapsed /\ tick'.wait = wait
        /\ tick'.hurry = tick.hurry /\ tick'.waits = tick.waits
    <3>1. PICK n : n = tick' /\ n = [tick EXCEPT !.wait = wait, !.elapsed = elapsed]
      BY <2>4
    <3>2. tick \in Renewal!Tick
      BY <1>0 DEF Renewal!TypeOK
    <3>3. /\ n \in Renewal!Tick /\ n.at = tick.at /\ n.on = tick.on
          /\ n.elapsed = elapsed /\ n.wait = wait
          /\ n.hurry = tick.hurry /\ n.waits = tick.waits
      BY <2>2, <2>3, <3>1, <3>2 DEF Renewal!Tick
    <3> QED BY <3>1, <3>3
  <2> QED BY <2>1, <2>5
<1>5. Renewal!TypeOK' /\ ShapeOK'
  <2>1. leases' \in [Rows -> Renewal!Row]
    <3>1. \A r \in Rows : leases'[r] \in Renewal!Row
      BY <1>0, RowAges
    <3>2. leases' = [r \in Rows |-> leases'[r]]
      BY DEF Renewal!TimePasses
    <3> QED BY <3>1, <3>2
  <2>2. safe' \in 0 .. lock_timeout /\ due' \in 0 .. renew_interval
    BY <1>1, RenewalFacts
  <2>3. tick'.at = "idle" => tick' = Renewal!Idle
    <3>1. ASSUME tick.at = "idle" PROVE tick' = Renewal!Idle
      <4>1. tick = Renewal!Idle
        BY <1>0, <3>1 DEF ShapeOK
      <4>2. /\ tick'.at = "idle" /\ tick'.on = "none" /\ tick'.elapsed = 0 /\ tick'.wait = 0
            /\ tick'.hurry = FALSE /\ tick'.waits = {}
        BY <1>4, <3>1, <4>1, IdleIs DEF Renewal!Down
      <4>3. tick' = [at |-> tick'.at, on |-> tick'.on, elapsed |-> tick'.elapsed,
                     wait |-> tick'.wait, hurry |-> tick'.hurry, waits |-> tick'.waits]
        BY <1>4 DEF Renewal!Tick
      <4> QED BY <4>2, <4>3, IdleIs
    <3> QED BY <1>4, <3>1
  <2> QED BY <1>0, <1>4, <2>1, <2>2, <2>3 DEF Renewal!TypeOK, ShapeOK
<1>6. ASSUME thread = "renewal" \/ tick.at # "borrowing", tick.at # "idle",
             tick.at = "borrowing" => tick.elapsed + tick.wait <= POOL_FALLBACK_WAIT
      PROVE  tick'.elapsed = tick.elapsed + 1 /\ tick'.elapsed <= budget
             /\ (tick.at = "borrowing" => tick'.elapsed + tick'.wait <= POOL_FALLBACK_WAIT)
  <2>1. tick.at \in {"unneeded", "opening", "borrowing"}
    BY <1>0, <1>2, <1>6, RenewalTypes
  <2>2. tick.elapsed < budget
    BY <1>0, <1>3, <1>6, <2>1, RenewalTypes, RenewalFacts
  <2>3. tick'.elapsed = tick.elapsed + 1
    BY <1>0, <1>4, <1>6, <2>2, RenewalTypes, RenewalFacts DEF Renewal!Lower
  <2>4. tick.at = "borrowing" => tick'.wait = tick.wait - 1
    BY <1>0, <1>3, <1>4, RenewalTypes DEF Renewal!Down
  <2> QED BY <1>0, <1>6, <2>2, <2>3, <2>4, RenewalTypes, RenewalFacts
<1>7. ASSUME NEW r \in Rows
      PROVE  /\ leases'[r].lease \in Nat /\ leases'[r].at = leases[r].at
             /\ leases'[r].lease >= leases[r].lease - 1
             /\ leases'[r].gap \in Nat
             /\ leases'[r].at = "claimed" => leases'[r].gap = leases[r].gap + 1
             /\ leases'[r].at # "claimed" => leases'[r].gap = leases[r].gap
             /\ \/ leases'[r].lease = leases[r].lease - 1
                \/ leases'[r].lease = 0 /\ leases[r].lease = 0
  <2>1. /\ leases'[r].at = leases[r].at
        /\ leases'[r].lease = Renewal!Down(leases[r].lease)
        /\ leases'[r].gap = IF leases[r].at = "claimed" THEN leases[r].gap + 1 ELSE leases[r].gap
    BY <1>0, RowAges, Zenon DEF RenewalHolds
  <2>2. leases[r].lease \in Nat /\ leases[r].gap \in Nat
    BY <1>0, RenewalTypes
  <2>3. \/ leases[r].lease = 0 /\ leases'[r].lease = 0
        \/ leases[r].lease > 0 /\ leases'[r].lease = leases[r].lease - 1
    BY <2>1, <2>2 DEF Renewal!Down
  <2>4. leases'[r].lease \in Nat /\ leases'[r].lease >= leases[r].lease - 1
    BY <2>2, <2>3
  <2>5. /\ leases'[r].gap \in Nat
        /\ leases'[r].at = "claimed" => leases'[r].gap = leases[r].gap + 1
        /\ leases'[r].at # "claimed" => leases'[r].gap = leases[r].gap
    <3>1. CASE leases[r].at = "claimed" BY <2>1, <2>2, <3>1
    <3>2. CASE leases[r].at # "claimed" BY <2>1, <2>2, <3>2
    <3> QED BY <3>1, <3>2
  <2> QED BY <2>1, <2>3, <2>4, <2>5
<1>8. ASSUME NEW r \in Rows, thread = "renewal" PROVE LeaseOK(leases[r])'
  <2>1. LeaseOK(leases[r])
    BY <1>0, <1>8 DEF RenewsOK
  <2>2. leases[r].lease \in Nat /\ leases[r].gap \in Nat /\ safe \in Nat /\ tick.elapsed \in Nat
    BY <1>0, RenewalTypes
  <2>3. leases'[r].at = "claimed" => leases'[r].lease + leases'[r].gap >= lock_timeout
    BY <1>7, <2>1, <2>2, RenewalFacts DEF LeaseOK
  <2>4. leases'[r].at = "running" => safe' <= leases'[r].lease + leases'[r].gap
    <3>1. safe' = safe - 1 \/ safe' = 0 BY <1>1
    <3>2. leases'[r].at = "running" => safe <= leases[r].lease + leases[r].gap
      BY <1>7, <2>1 DEF LeaseOK
    <3> QED BY <1>7, <2>2, <3>1, <3>2
  <2>5. leases'[r].at = "running" /\ tick'.at = "unneeded" =>
          leases'[r].lease + leases'[r].gap + tick'.elapsed >= lock_timeout
    BY <1>4, <1>6, <1>7, <1>8, <2>1, <2>2, RenewalFacts DEF LeaseOK
  <2> QED BY <2>3, <2>4, <2>5 DEF LeaseOK
<1>9. ASSUME thread = "renewal", server # "any"
      PROVE  TickOK' /\ SafeOK' /\ \A r \in Rows : TimeOK(leases[r])'
  <2>1. TickOK /\ SafeOK /\ \A r \in Rows : TimeOK(leases[r])
    BY <1>0, <1>9 DEF RenewsOK
  <2>2. InProgress' = InProgress /\ Taken' = Taken
    BY <1>0, <1>4 DEF InProgress, Taken
  <2>3. tick.at = "borrowing" => server = "slots" /\ SlotsOK
    BY <1>0, <1>3, <1>9, <2>1 DEF TickOK, OrdinaryOK, Renewal!TypeOK
  <2>4. tick.at # "idle" =>
          /\ tick'.elapsed = tick.elapsed + 1 /\ tick'.elapsed <= budget
          /\ tick.at = "borrowing" => tick'.elapsed + tick'.wait <= POOL_FALLBACK_WAIT
    BY <1>6, <1>9, <2>3 DEF SlotsOK
  <2>5. tick.at # "idle" => due + tick.elapsed = renew_interval /\ due' = due - 1 /\ due > 0
    <3>1. ASSUME tick.at # "idle" PROVE due + tick.elapsed = renew_interval /\ due > 0
      BY <1>0, <2>1, <2>4, <3>1, RenewalTypes, RenewalFacts DEF TickOK
    <3> QED BY <1>1, <3>1
  <2>6. tick.at = "idle" => due' = due - 1 /\ due > 0
    BY <1>1, <1>3
  <2>7. /\ TakenBy(failed) \in Nat /\ TakenBy(failed) <= renew_interval
        /\ Taken \in Nat
    BY RenewalFacts DEF TakenBy, Taken
  <2>8. SafeOK'
    <3>1. ASSUME failed < 2, tick.at = "idle"
          PROVE  safe' + renew_interval + TakenBy(failed) <= lock_timeout + due'
      <4>1. safe + renew_interval + TakenBy(failed) <= lock_timeout + due
        BY <2>1, <3>1 DEF SafeOK
      <4> QED BY <1>0, <1>1, <2>6, <2>7, <3>1, <4>1, RenewalTypes, RenewalFacts
    <3>2. ASSUME failed < 2, InProgress, Taken = 0
          PROVE  safe' + tick'.elapsed + renew_interval <= lock_timeout
      <4>1. safe + tick.elapsed + renew_interval <= lock_timeout /\ tick.at # "idle"
        BY <2>1, <3>2 DEF SafeOK, InProgress
      <4> QED BY <1>0, <1>1, <2>4, <4>1, RenewalTypes, RenewalFacts
    <3> QED BY <1>0, <1>4, <2>2, <3>1, <3>2 DEF SafeOK, TakenBy
  <2>9. ASSUME NEW r \in Rows PROVE TimeOK(leases[r])'
    <3> SUFFICES ASSUME leases[r].at = "running", failed < 2 PROVE TimeOK(leases[r])'
      BY <1>0, <1>7 DEF TimeOK
    <3>0. leases[r].lease \in Nat /\ due \in Nat /\ tick.elapsed \in Nat
      BY <1>0, RenewalTypes
    <3>1. ASSUME tick.at = "idle"
          PROVE  leases'[r].lease + renew_interval + TakenBy(failed)
                   >= lock_timeout - LastGap + due'
      <4>1. leases[r].lease + renew_interval + TakenBy(failed) >= lock_timeout - LastGap + due
        BY <2>1, <3>1 DEF TimeOK
      <4> QED BY <1>7, <2>6, <2>7, <3>0, <3>1, <4>1, RenewalFacts
    <3>2. ASSUME InProgress
          PROVE  leases'[r].lease + tick'.elapsed + renew_interval + Taken
                   >= lock_timeout - LastGap
      <4>1. leases[r].lease + tick.elapsed + renew_interval + Taken >= lock_timeout - LastGap
            /\ tick.at # "idle"
        BY <2>1, <3>2 DEF TimeOK, InProgress
      <4> QED BY <1>7, <2>4, <2>7, <3>0, <4>1, RenewalFacts
    <3> QED BY <1>0, <1>4, <2>2, <3>1, <3>2 DEF TimeOK, TakenBy
  <2>10. server = "spare" => SpareOK'
    <3> SUFFICES ASSUME server = "spare" PROVE SpareOK'
      OBVIOUS
    <3>1. SpareOK /\ tick.at # "borrowing"
      BY <1>3, <2>1 DEF TickOK
    <3>2. tick.on = "none"
      BY <1>0, <1>2, <3>1, IdleIs, RenewalTypes DEF ShapeOK
    <3>3. tick'.hurry /\ tick'.at = "opening" => failed' # 0
      BY <1>0, <1>4, <3>1 DEF SpareOK
    <3>4. failed' = 1 /\ ~tick'.hurry /\ InProgress' =>
            2 * renew_interval + budget + LastGap < lock_timeout
      BY <1>0, <1>2, <1>4, <2>2, <3>1 DEF SpareOK
    <3> QED BY <1>4, <3>1, <3>2, <3>3, <3>4 DEF SpareOK
  <2>11. server = "slots" => SlotsOK'
    <3>1. ASSUME server = "slots", tick.at = "borrowing"
          PROVE  tick'.elapsed <= POOL_FALLBACK_WAIT
      BY <1>1, <1>4, <2>4, <3>1, RenewalFacts DEF Renewal!Tick
    <3> QED BY <1>0, <1>2, <1>3, <1>4, <2>1, <2>2, <2>4, <3>1 DEF TickOK, SlotsOK, InProgress
  <2>12. server = "ordinary" => OrdinaryOK'
    BY <1>0, <1>2, <1>4, <2>1 DEF TickOK, OrdinaryOK
  <2>13. tick.at # "idle" => due' + tick'.elapsed = renew_interval /\ tick'.elapsed <= budget
    BY <1>0, <2>4, <2>5, RenewalTypes, RenewalFacts
  <2>14. TickOK'
    BY <1>0, <1>4, <2>10, <2>11, <2>12, <2>13 DEF TickOK
  <2> QED BY <2>8, <2>9, <2>14
<1>10. RenewsOK'
  BY <1>0, <1>4, <1>6, <1>8, <1>9 DEF RenewsOK
<1>11. WatchesOK'
  <2> SUFFICES ASSUME thread = "watchdog" PROVE WatchesOK'
    BY <1>0 DEF WatchesOK
  <2>1. tick.at \in {"opening", "borrowing"}
    BY <1>0, <1>2, <1>3, RenewalTypes DEF WatchesOK
  <2>2. tick.at = "opening" => tick'.elapsed <= budget
    BY <1>6
  <2>3. ASSUME tick.at = "borrowing"
        PROVE  tick'.elapsed + tick'.wait <= budget + POOL_FALLBACK_WAIT
               /\ tick'.elapsed <= budget + POOL_FALLBACK_WAIT
    <3>1. tick.elapsed + tick.wait <= budget + POOL_FALLBACK_WAIT
      BY <1>0, <2>3 DEF WatchesOK
    <3>2. tick'.wait = tick.wait - 1 /\ tick.wait > 0
      BY <1>0, <1>3, <1>4, <2>3, RenewalTypes DEF Renewal!Down
    <3>3. tick'.elapsed \in Nat /\ tick'.elapsed <= tick.elapsed + 1
      BY <1>0, <1>4, <2>3, RenewalTypes, RenewalFacts DEF Renewal!Lower
    <3> QED BY <1>0, <3>1, <3>2, <3>3, RenewalTypes, RenewalFacts
  <2>4. tick.at = "opening" => tick'.elapsed <= budget + POOL_FALLBACK_WAIT
    BY <1>0, <1>4, <2>2, RenewalFacts DEF Renewal!Tick
  <2> QED BY <1>0, <1>4, <1>7, <2>1, <2>2, <2>3, <2>4 DEF WatchesOK
<1> QED BY <1>5, <1>10, <1>11 DEF RenewalHolds

LEMMA BatchOfStuckSteps ==
  ASSUME RenewalHolds, Renewal!BeginBatch \/ Renewal!Record \/ Renewal!EndBatch
  PROVE  RenewalHolds'
<1>0. /\ Renewal!TypeOK /\ ShapeOK /\ WatchesOK /\ thread = "watchdog"
      /\ UNCHANGED <<thread, server, leases, safe, due, failed>>
  BY DEF RenewalHolds, Renewal!BeginBatch, Renewal!Record, Renewal!EndBatch
<1>1. /\ tick' \in Renewal!Tick /\ tick'.waits = {} /\ tick'.hurry = FALSE
      /\ tick'.at # "unneeded" /\ tick'.at # "borrowing"
      /\ tick'.at = "idle" => tick' = Renewal!Idle
      /\ tick'.at = "opening" => tick'.on = "none" /\ tick'.elapsed = 0
      /\ tick'.elapsed <= budget + POOL_FALLBACK_WAIT
      /\ own' \in BOOLEAN /\ left' \in 0 .. Records
  <2>1. CASE Renewal!BeginBatch
    <3>1. UNCHANGED <<own, left>> /\ tick.at = "idle"
      BY <2>1 DEF Renewal!BeginBatch
    <3>2. CASE Renewal!Pooled
      <4>1. tick' = [Renewal!Idle EXCEPT !.at = "opening"]
        BY <2>1, <3>2 DEF Renewal!BeginBatch, Renewal!Opening
      <4>2. tick' = [at |-> "opening", on |-> "none", elapsed |-> 0, wait |-> 0,
                     hurry |-> FALSE, waits |-> {}]
        BY <4>1, IdleIs
      <4>3. tick' \in Renewal!Tick
        BY <4>2, RenewalFacts DEF Renewal!Tick
      <4> QED BY <1>0, <3>1, <4>2, <4>3, RenewalFacts DEF Renewal!TypeOK
    <3>3. CASE ~Renewal!Pooled
      <4>1. tick' = [Renewal!Idle EXCEPT !.at = "statement", !.on = "ordinary"]
        BY <2>1, <3>3 DEF Renewal!BeginBatch
      <4>2. tick' = [at |-> "statement", on |-> "ordinary", elapsed |-> 0, wait |-> 0,
                     hurry |-> FALSE, waits |-> {}]
        BY <4>1, IdleIs
      <4>3. tick' \in Renewal!Tick
        BY <4>2, RenewalFacts DEF Renewal!Tick
      <4> QED BY <1>0, <3>1, <4>2, <4>3, RenewalFacts DEF Renewal!TypeOK
    <3> QED BY <3>2, <3>3
  <2>2. CASE Renewal!Record
    <3>1. tick.at = "statement" /\ left' = left - 1 /\ left > 0
      BY <2>2 DEF Renewal!Record
    <3>2. left' \in 0 .. Records
      BY <1>0, <3>1, RenewalTypes, RenewalFacts
    <3>3. tick.hurry = FALSE
      BY <1>0, RenewalTypes DEF WatchesOK
    <3>4. CASE UNCHANGED <<tick, own>>
      BY <1>0, <3>1, <3>2, <3>3, <3>4 DEF Renewal!TypeOK, ShapeOK, WatchesOK
    <3>5. CASE tick' = [tick EXCEPT !.on = "none"] /\ own' = FALSE
      <4>1. /\ tick' \in Renewal!Tick
            /\ tick'.at = tick.at /\ tick'.on = "none" /\ tick'.elapsed = tick.elapsed
            /\ tick'.hurry = tick.hurry /\ tick'.waits = tick.waits
        <5>1. tick' = [tick EXCEPT !.on = "none"] BY <3>5
        <5> QED BY <1>0, <5>1, TickIsOn
      <4> QED BY <1>0, <3>1, <3>2, <3>3, <3>5, <4>1 DEF ShapeOK, WatchesOK
    <3> QED BY <2>2, <3>4, <3>5 DEF Renewal!Record
  <2>3. CASE Renewal!EndBatch
    <3>1. tick' = Renewal!Idle /\ own' = FALSE /\ left' = left
      BY <2>3 DEF Renewal!EndBatch
    <3>2. Renewal!Idle \in Renewal!Tick
      BY IdleIs, RenewalFacts DEF Renewal!Tick
    <3>3. /\ Renewal!Idle.at = "idle" /\ Renewal!Idle.elapsed = 0 /\ Renewal!Idle.hurry = FALSE
          /\ Renewal!Idle.waits = {}
      BY IdleIs
    <3>4. left \in 0 .. Records /\ 0 <= budget + POOL_FALLBACK_WAIT
      BY <1>0, RenewalFacts DEF Renewal!TypeOK
    <3> QED BY <3>1, <3>2, <3>3, <3>4
  <2> QED BY <2>1, <2>2, <2>3
<1>2. Renewal!TypeOK' /\ ShapeOK'
  BY <1>0, <1>1 DEF Renewal!TypeOK, ShapeOK
<1>3. RenewsOK'
  BY <1>0 DEF RenewsOK
<1>4. WatchesOK'
  <2>1. 0 <= budget BY RenewalFacts
  <2> QED BY <1>0, <1>1, <2>1 DEF WatchesOK
<1> QED BY <1>2, <1>3, <1>4 DEF RenewalHolds

LEMMA RenewalBegins ==
  ASSUME Renewal!Init
  PROVE  RenewalHolds
<1>1. /\ thread \in {"renewal", "watchdog"}
      /\ server \in {"spare", "slots", "any", "ordinary"}
      /\ leases = [r \in Rows |-> Renewal!Free] /\ own = FALSE
      /\ safe = lock_timeout /\ due = renew_interval /\ tick = Renewal!Idle /\ failed = 0
      /\ left \in 0 .. Records
  BY RenewalFacts DEF Renewal!Init
<1>2. Renewal!Free \in Renewal!Row /\ Renewal!Free.at = "free"
  BY RenewalFacts DEF Renewal!Free, Renewal!Row
<1>3. Renewal!Idle \in Renewal!Tick
  BY IdleIs, RenewalFacts DEF Renewal!Tick
<1>4. leases \in [Rows -> Renewal!Row] /\ \A r \in Rows : leases[r].at = "free"
  BY <1>1, <1>2
<1>5. Renewal!TypeOK
  <2>1. safe \in 0 .. lock_timeout /\ due \in 0 .. renew_interval /\ failed \in 0 .. 2
    BY <1>1, RenewalFacts
  <2> QED BY <1>1, <1>3, <1>4, <2>1 DEF Renewal!TypeOK
<1>6. /\ tick.at = "idle" /\ tick.on = "none" /\ tick.elapsed = 0
      /\ tick.hurry = FALSE /\ tick.waits = {}
  BY <1>1, IdleIs
<1>7. ShapeOK
  BY <1>1, <1>6 DEF ShapeOK
<1>8. ~InProgress /\ TickOK
  BY <1>6 DEF InProgress, TickOK, SpareOK, SlotsOK, OrdinaryOK
<1>9. SafeOK
  BY <1>1, <1>8, RenewalFacts DEF SafeOK, TakenBy
<1>10. \A r \in Rows : LeaseOK(leases[r]) /\ TimeOK(leases[r])
  BY <1>4 DEF LeaseOK, TimeOK
<1>11. RenewsOK
  BY <1>6, <1>8, <1>9, <1>10 DEF RenewsOK
<1>12. WatchesOK
  BY <1>4, <1>6, RenewalFacts DEF WatchesOK
<1> QED BY <1>5, <1>7, <1>11, <1>12 DEF RenewalHolds

LEMMA RenewalStep ==
  ASSUME RenewalHolds, Renewal!Next
  PROVE  RenewalHolds'
BY BeginTickStep, EndUnneededStep, RenewStep, RenewFailsStep, OpenStep, OpenFailsStep,
   BorrowStep, BorrowFailsStep, BatchOfStuckSteps, RowSteps, TimeStep DEF Renewal!Next

\* What the invariant is for.
LEMMA HoldsKeepsTheLeases ==
  ASSUME RenewalHolds
  PROVE  Renewal!RenewalKeepsTheLeases
<1>0. Renewal!TypeOK /\ RenewsOK /\ WatchesOK
  BY DEF RenewalHolds
<1>1. Renewal!SafeUntilIsSafe
  BY <1>0 DEF RenewsOK, LeaseOK, Renewal!SafeUntilIsSafe
<1>2. Renewal!LeasesOutliveAMiss
  <2> SUFFICES ASSUME server # "any", failed < 2, NEW r \in Rows, leases[r].at = "running"
               PROVE  leases[r].lease > 0
    BY DEF Renewal!LeasesOutliveAMiss
  <2>1. thread = "renewal"
    BY <1>0 DEF WatchesOK, Renewal!TypeOK
  <2>2. TickOK /\ TimeOK(leases[r]) /\ LeaseOK(leases[r])
    BY <1>0, <2>1 DEF RenewsOK
  <2>3. /\ leases[r].lease \in Nat /\ leases[r].gap \in Nat /\ leases[r].gap <= LastGap
        /\ tick.elapsed \in Nat /\ due \in Nat
    BY <1>0, RenewalTypes
  <2>4. TakenBy(failed) \in Nat /\ TakenBy(failed) <= renew_interval
    BY RenewalFacts DEF TakenBy
  <2>5. CASE tick.at = "idle"
    BY <2>2, <2>3, <2>4, <2>5, RenewalFacts DEF TimeOK
  <2>6. CASE tick.at = "unneeded"
    <3>1. tick.elapsed <= budget /\ leases[r].lease + leases[r].gap + tick.elapsed >= lock_timeout
      BY <2>2, <2>6 DEF TickOK, LeaseOK
    <3> QED BY <2>3, <3>1, RenewalFacts
  <2>7. CASE InProgress
    <3>1. leases[r].lease + tick.elapsed + renew_interval + Taken >= lock_timeout - LastGap
          /\ tick.elapsed <= budget
      BY <2>2, <2>7 DEF TimeOK, TickOK, InProgress
    <3>2. CASE Taken = 0
      BY <2>3, <3>1, <3>2, RenewalFacts
    <3>3. CASE Taken # 0
      <4>1. Taken = renew_interval /\ failed = 1
            /\ ~(server = "spare" /\ tick.hurry /\ tick.at # "borrowing" /\ tick.on # "pool")
        BY <1>0, <3>3, RenewalTypes DEF Taken
      <4>2. \/ tick.elapsed <= POOL_FALLBACK_WAIT
            \/ 2 * renew_interval + budget + LastGap < lock_timeout
        <5>1. CASE server = "spare"
          <6>1. SpareOK
            BY <2>2, <5>1 DEF TickOK
          <6>2. CASE tick.hurry
            <7>1. tick.elapsed = 0
              BY <4>1, <5>1, <6>1, <6>2 DEF SpareOK
            <7> QED BY <7>1, RenewalFacts
          <6>3. CASE ~tick.hurry
            <7>1. tick.elapsed = 0 \/ 2 * renew_interval + budget + LastGap < lock_timeout
              BY <2>3, <2>7, <4>1, <6>1, <6>3 DEF SpareOK
            <7> QED BY <7>1, RenewalFacts
          <6> QED BY <6>2, <6>3
        <5>2. CASE server = "slots"
          BY <2>2, <2>7, <5>2 DEF TickOK, SlotsOK
        <5>3. CASE server = "ordinary"
          <6>1. tick.elapsed = 0
            BY <2>2, <5>3 DEF TickOK, OrdinaryOK
          <6> QED BY <6>1, RenewalFacts
        <5> QED BY <1>0, <5>1, <5>2, <5>3 DEF Renewal!TypeOK
      <4> QED BY <2>3, <3>1, <4>1, <4>2, RenewalFacts
    <3> QED BY <3>2, <3>3
  <2> QED BY <1>0, <2>5, <2>6, <2>7, RenewalTypes DEF InProgress
<1>3. Renewal!RecyclesAreNotHeldBack
  BY <1>0 DEF WatchesOK, Renewal!RecyclesAreNotHeldBack
<1> QED BY <1>1, <1>2, <1>3 DEF Renewal!RenewalKeepsTheLeases

-----------------------------------------------------------------------------
\* The inductive invariant of a behaviour of renewal: what has been taken of a lease, and
\* of safe_until, by the misses since one renewed is bounded (worker.py:2095).
THEOREM RenewalInvariant == PartSpec => [](part = "renewal" => RenewalHolds)
<1>1. PartInit => (part = "renewal" => RenewalHolds)
  BY RenewalBegins DEF PartInit
<1>2. (part = "renewal" => RenewalHolds) /\ [PartNext]_<<part, vars, renewal, pruning, walk>>
        => (part = "renewal" => RenewalHolds)'
  <2> SUFFICES ASSUME part = "renewal" => RenewalHolds,
                      [PartNext]_<<part, vars, renewal, pruning, walk>>, part' = "renewal"
               PROVE  RenewalHolds'
    OBVIOUS
  <2>1. part' = part /\ RenewalHolds
    BY DEF PartNext
  <2>2. CASE Renewal!Next
    BY <2>1, <2>2, RenewalStep
  <2>3. CASE UNCHANGED renewal
    BY <2>1, <2>3, RenewalStutters
  <2>4. Renewal!Next \/ UNCHANGED renewal
    BY <2>1 DEF PartNext
  <2> QED BY <2>2, <2>3, <2>4
<1> QED BY <1>1, <1>2, PTL DEF PartSpec

\* The state of a thread that renews or records stays of its types.
THEOREM RenewalTypeCorrect == PartSpec => [](part = "renewal" => Renewal!TypeOK)
<1>1. RenewalHolds => Renewal!TypeOK
  BY DEF RenewalHolds
<1> QED BY <1>1, RenewalInvariant, PTL

\* For any timeouts in the proportions the worker computes, rows and records: safe_until
\* is never past a running row's lease (worker.py:3322), two misses in a row are needed
\* for a lease to lapse where a connection can be had, and a batch of stuck attempts
\* waits for one connection of each kind.
THEOREM LeasesOutliveMisses == PartSpec => []RenewalKeepsTheLeases
<1>1. (part = "renewal" => RenewalHolds) => RenewalKeepsTheLeases
  BY HoldsKeepsTheLeases DEF RenewalKeepsTheLeases
<1> QED BY <1>1, RenewalInvariant, PTL
-----------------------------------------------------------------------------
(* Pruning.                                                                *)

TickPlaces == {"anchor", "page", "missing", "older", "newest", "delete"}

Reading == {k \in Keys : table[k] = "reads"}

\* A tick that reads is newer; or none is that a repair could make read.
NewerReads(k) == \E q \in Reading : instant[k] < instant[q]
Outlived(k) ==
  NewerReads(k) \/ ~\E q \in Keys : table[q] = "unreadable" /\ instant[k] < instant[q]

\* A batch locks its rows in key order.
BatchLocks(v) ==
  /\ v.at = "locking" => kind # "ticks"
  /\ v.at \in TickPlaces => kind = "ticks"
  /\ v.at # "locking" => v.held = {}
  /\ \A h \in v.held, k \in v.todo : h < k

\* Of ticks a prune has read only those that did; every one that reads, but for its
\* anchor, is outlived since it asked for that; and it dooms none without a newer one.
TicksAre(v) ==
  /\ v.anchor # 0 => table[v.anchor] \in {"reads", "gone"}
  /\ v.seen => \A k \in Reading \ {v.anchor} : Outlived(k)
  /\ \A k \in v.reads \cup v.doomed : table[k] \in {"reads", "gone"}
  /\ v.at \in {"older", "newest"} => v.seen \/ v.reads = {}
  /\ v.at = "newest" => v.anchor \notin v.reads
  /\ \A k \in v.doomed : table[k] = "reads" => NewerReads(k)

OneWriter ==
  ~rowLocks => \A p, q \in Pruning!Procs : p # q => proc[p].held = {} \/ proc[q].held = {}

PruneHolds ==
  /\ Pruning!TypeOK
  /\ kind = "ticks" => \A k \in Keys : table[k] \in {"absent", "reads", "unreadable", "gone"}
  /\ \A p, q \in Keys : instant[p] = instant[q] => p = q
  /\ \A p \in Pruning!Procs : BatchLocks(proc[p]) /\ (kind = "ticks" => TicksAre(proc[p]))
  /\ OneWriter
  /\ Pruning!CountsWhatWent

LEMMA SameCounts ==
  ASSUME NEW S
  PROVE  /\ Pruning!Cardinality(S) = Cardinality(S)
         /\ Pruning!IsFiniteSet(S) = IsFiniteSet(S)
BY DEF Cardinality, Pruning!Cardinality, IsFiniteSet, Pruning!IsFiniteSet

LEMMA PruneFacts ==
  /\ IsFiniteSet(Keys) /\ Keys = 1 .. Cardinality(Keys) /\ Cardinality(Keys) \in Nat
  /\ Keys \subseteq Nat /\ 0 \notin Keys
  /\ batch_size \in Nat /\ ATTEMPTS \in Nat /\ MaxFailures \in Nat /\ ATTEMPTS > 0
  /\ Operator \notin Runs
<1>1. /\ IsFiniteSet(Keys) /\ Keys = 1 .. Cardinality(Keys)
      /\ {batch_size, ATTEMPTS, MaxFailures} \subseteq Nat /\ ATTEMPTS > 0 /\ Operator \notin Runs
  BY PruningAssumption, SameCounts DEF Pruning!Parameters
<1>2. Cardinality(Keys) \in Nat
  BY <1>1, FS_CardinalityType
<1>3. Keys \subseteq Nat /\ 0 \notin Keys
  BY <1>1, <1>2
<1> QED BY <1>1, <1>2, <1>3

\* Of some keys one is the last, by any order of them.
LEMMA LastOf ==
  ASSUME NEW f \in [Keys -> Keys], NEW S \in SUBSET Keys, S # {}
  PROVE  \E x \in S : \A y \in S : f[y] <= f[x]
<1> DEFINE Above(x) == {y \in S : f[x] < f[y]}
           T == {Above(x) : x \in S}
<1>1. S \subseteq Keys /\ \A y \in S : f[y] \in Nat
  BY PruneFacts
<1>2. IsWellFoundedOn(StrictSubsetOrdering(Keys), SUBSET Keys)
  BY PruneFacts, FS_StrictSubsetOrderingWellFounded, FS_FiniteSubsetsOfFinite
<1>3. T \subseteq SUBSET Keys /\ T # {}
  BY <1>1
<1>4. PICK top \in T : \A below \in T : ~(<<below, top>> \in StrictSubsetOrdering(Keys))
  <2> HIDE DEF T
  <2> QED BY <1>2, <1>3, WFMin
<1>5. PICK x \in S : top = Above(x)
  BY <1>4
<1>6. ASSUME NEW y \in S PROVE f[y] <= f[x]
  <2> SUFFICES ASSUME f[x] < f[y] PROVE FALSE
    BY <1>1
  <2>1. Above(y) \subseteq Above(x)
    BY <1>1
  <2>2. y \in Above(x) /\ y \notin Above(y)
    BY <1>1
  <2>3. Above(y) \in T /\ Above(y) \in SUBSET Keys /\ Above(x) \in SUBSET Keys
    BY <1>1
  <2>4. <<Above(y), Above(x)>> \in StrictSubsetOrdering(Keys)
    <3> HIDE DEF Above
    <3> QED BY <2>1, <2>2, <2>3 DEF StrictSubsetOrdering
  <2> QED BY <1>4, <1>5, <2>3, <2>4
<1> QED BY <1>6

LEMMA LastKey ==
  ASSUME NEW S \in SUBSET Keys, S # {}
  PROVE  (CHOOSE k \in S : \A j \in S : j <= k) \in S
<1>1. [k \in Keys |-> k] \in [Keys -> Keys]
  OBVIOUS
<1>2. PICK x \in S : \A y \in S : [k \in Keys |-> k][y] <= [k \in Keys |-> k][x]
  BY <1>1, LastOf
<1>3. \E k \in S : \A j \in S : j <= k
  BY <1>2
<1> QED BY <1>3

\* The newest that reads is there whatever has been outlived is not.
LEMMA NewestStays ==
  ASSUME instant \in [Keys -> Keys], NEW gone \in SUBSET Keys,
         \A k \in gone : NewerReads(k), NEW k \in Keys, NewerReads(k)
  PROVE  \E q \in Reading \ gone : instant[k] < instant[q]
<1>1. PICK p \in Reading : instant[k] < instant[p]
  BY DEF NewerReads
<1>2. Reading \in SUBSET Keys /\ Reading # {}
  BY <1>1 DEF Reading
<1>3. PICK q \in Reading : \A y \in Reading : instant[y] <= instant[q]
  BY <1>2, LastOf
<1>4. instant[k] \in Nat /\ instant[p] \in Nat /\ instant[q] \in Nat
      /\ \A y \in Reading : instant[y] \in Nat
  BY <1>1, <1>2, <1>3, PruneFacts
<1>5. q \notin gone
  BY <1>3, <1>4 DEF NewerReads
<1>6. instant[k] < instant[q]
  BY <1>1, <1>3, <1>4
<1> QED BY <1>3, <1>5, <1>6

LEMMA ProcTypes ==
  ASSUME Pruning!TypeOK, NEW p \in Pruning!Procs
  PROVE  /\ proc[p] \in Pruning!Proc
         /\ proc[p].at \in {"idle", "anchor", "page", "missing", "older", "newest", "delete",
                            "locking", "done", "stopped"}
         /\ proc[p].after \in Keys \cup {0} /\ proc[p].anchor \in Keys \cup {0}
         /\ proc[p].seen \in BOOLEAN
         /\ proc[p].rows \in SUBSET Keys /\ proc[p].reads \in SUBSET Keys
         /\ proc[p].doomed \in SUBSET Keys /\ proc[p].todo \in SUBSET Keys
         /\ proc[p].held \in SUBSET Keys /\ proc[p].tries \in 0 .. ATTEMPTS
         /\ proc[p].deleted \in 0 .. Cardinality(Keys)
<1>1. proc[p] \in Pruning!Proc
  BY DEF Pruning!TypeOK
<1> QED BY <1>1, SameCounts DEF Pruning!Proc, Pruning!Unknown

\* A step of one command that writes nothing.
LEMMA CommandMoves ==
  ASSUME PruneHolds, NEW r \in Pruning!Procs, NEW n \in Pruning!Proc,
         proc' = [proc EXCEPT ![r] = n], failures' \in 0 .. MaxFailures,
         UNCHANGED <<kind, rowLocks, table, instant, taker>>,
         r \in Runs => n.deleted = proc[r].deleted, BatchLocks(n), kind = "ticks" => TicksAre(n),
         \/ n.held = {} \/ n.held = proc[r].held
         \/ \A q \in Pruning!Procs \ {r} : ~rowLocks => proc[q].held = {}
  PROVE  PruneHolds'
<1>1. /\ \A p \in Pruning!Procs : proc'[p] = IF p = r THEN n ELSE proc[p]
      /\ proc' \in [Pruning!Procs -> Pruning!Proc]
  BY DEF PruneHolds, Pruning!TypeOK
<1>2. Pruning!TypeOK'
  BY <1>1 DEF PruneHolds, Pruning!TypeOK
<1>3. ASSUME NEW p \in Pruning!Procs
      PROVE  BatchLocks(proc[p])' /\ (kind' = "ticks" => TicksAre(proc[p])')
  <2>1. BatchLocks(proc'[p]) /\ (kind = "ticks" => TicksAre(proc'[p]))
    BY <1>1 DEF PruneHolds
  <2> QED BY <2>1 DEF BatchLocks, TicksAre, Reading, Outlived, NewerReads
<1>4. OneWriter'
  BY <1>1 DEF PruneHolds, OneWriter
<1>5. Pruning!CountsWhatWent'
  <2>1. ASSUME NEW p \in Runs PROVE proc'[p].deleted = proc[p].deleted
    BY <1>1 DEF Pruning!Procs
  <2> QED BY <2>1 DEF PruneHolds, Pruning!CountsWhatWent, Pruning!Counted, Pruning!Of
<1> QED BY <1>2, <1>3, <1>4, <1>5 DEF PruneHolds

LEMMA PruneTypes ==
  ASSUME PruneHolds
  PROVE  /\ Pruning!TypeOK /\ failures \in 0 .. MaxFailures
         /\ \A p \in Pruning!Procs : BatchLocks(proc[p]) /\ (kind = "ticks" => TicksAre(proc[p]))
BY DEF PruneHolds, Pruning!TypeOK

LEMMA LockStep ==
  ASSUME PruneHolds, NEW p \in Pruning!Procs, Pruning!Lock(p)
  PROVE  PruneHolds'
<1>1. PICK k, n :
        /\ k \in Pruning!NextToLock(p)
        /\ Pruning!Free(p, k)
        /\ n = [proc[p] EXCEPT !.todo = @ \ {k}, !.held = @ \cup {k}]
        /\ proc' = [proc EXCEPT ![p] = n]
        /\ UNCHANGED <<kind, rowLocks, table, instant, failures, taker>>
  BY DEF Pruning!Lock, Pruning!Becomes
<1>2. /\ proc[p] \in Pruning!Proc /\ proc[p].todo \in SUBSET Keys /\ proc[p].held \in SUBSET Keys
      /\ proc[p].at = "locking" /\ BatchLocks(proc[p]) /\ (kind = "ticks" => TicksAre(proc[p]))
  BY ProcTypes, PruneTypes DEF Pruning!Lock
<1>3. k \in proc[p].todo /\ \A j \in proc[p].todo : k <= j
  BY <1>1 DEF Pruning!NextToLock
<1>4. PICK todo, held : /\ todo = proc[p].todo \ {k} /\ held = proc[p].held \cup {k}
                        /\ n = [proc[p] EXCEPT !.todo = todo, !.held = held]
  BY <1>1
<1>5. todo \in SUBSET Keys /\ held \in SUBSET Keys
  BY <1>2, <1>3, <1>4
<1>6. /\ n \in Pruning!Proc /\ n.todo = todo /\ n.held = held /\ n.at = "locking"
      /\ n.deleted = proc[p].deleted
  BY <1>2, <1>4, <1>5 DEF Pruning!Proc
<1>7. BatchLocks(n)
  <2>1. \A h \in held, j \in todo : h < j
    BY <1>2, <1>3, <1>4, PruneFacts DEF BatchLocks
  <2> QED BY <1>2, <1>6, <2>1 DEF BatchLocks, TickPlaces
<1>8. kind # "ticks"
  BY <1>2 DEF BatchLocks
<1>9. \A q \in Pruning!Procs \ {p} : ~rowLocks => proc[q].held = {}
  BY <1>1 DEF Pruning!Free
<1> QED BY <1>1, <1>6, <1>7, <1>8, <1>9, PruneTypes, CommandMoves

LEMMA SelectStep ==
  ASSUME PruneHolds, NEW r \in Runs, Pruning!Select(r)
  PROVE  PruneHolds'
<1>0. /\ r \in Pruning!Procs /\ proc[r] \in Pruning!Proc /\ proc[r].at = "idle" /\ kind = "tasks"
      /\ BatchLocks(proc[r]) /\ UNCHANGED <<kind, rowLocks, table, instant, failures, taker>>
  BY ProcTypes, PruneTypes DEF Pruning!Procs, Pruning!Select
<1>1. PICK ks, n :
        /\ ks \in SUBSET Keys
        /\ \/ n = [proc[r] EXCEPT !.at = "done"]
           \/ n = [proc[r] EXCEPT !.at = "locking", !.rows = ks, !.todo = ks, !.tries = 1]
        /\ proc' = [proc EXCEPT ![r] = n]
  <2>1. Pruning!Of("prunable") \subseteq Keys
    BY DEF Pruning!Of
  <2> QED BY <2>1, Zenon DEF Pruning!Select, Pruning!Becomes
<1>2. 1 \in 0 .. ATTEMPTS
  BY PruneFacts
<1>3. /\ n \in Pruning!Proc /\ n.held = proc[r].held /\ n.at \in {"done", "locking"}
      /\ n.deleted = proc[r].deleted
  BY <1>0, <1>1, <1>2 DEF Pruning!Proc
<1>4. n.held = {} /\ BatchLocks(n)
  BY <1>0, <1>3 DEF BatchLocks, TickPlaces
<1> QED BY <1>0, <1>1, <1>3, <1>4, PruneTypes, CommandMoves

LEMMA FindStep ==
  ASSUME PruneHolds, NEW r \in Runs, Pruning!Find(r)
  PROVE  PruneHolds'
<1>0. /\ r \in Pruning!Procs /\ proc[r] \in Pruning!Proc /\ proc[r].at = "idle" /\ kind = "purge"
      /\ BatchLocks(proc[r]) /\ UNCHANGED <<kind, rowLocks, table, instant, failures, taker>>
  BY ProcTypes, PruneTypes DEF Pruning!Procs, Pruning!Find
<1>1. PICK ks, js, n :
        /\ ks \in SUBSET Keys /\ js \in SUBSET Keys
        /\ \/ n = [proc[r] EXCEPT !.at = "done"]
           \/ n = [proc[r] EXCEPT !.at = "locking", !.rows = ks, !.todo = js]
        /\ proc' = [proc EXCEPT ![r] = n]
  <2> DEFINE found == Pruning!Of("unreadable")
  <2>1. found \ Pruning!FirstOf(found) \in SUBSET Keys /\ Pruning!FirstOf(found) \in SUBSET Keys
    BY DEF Pruning!Of, Pruning!FirstOf
  <2>2. proc' = [proc EXCEPT ![r] =
                   IF found = {} THEN [proc[r] EXCEPT !.at = "done"]
                   ELSE [proc[r] EXCEPT !.at = "locking", !.rows = found \ Pruning!FirstOf(found),
                                        !.todo = Pruning!FirstOf(found)]]
    BY DEF Pruning!Find, Pruning!Becomes
  <2> HIDE DEF found
  <2> QED BY <2>1, <2>2
<1>3. /\ n \in Pruning!Proc /\ n.held = proc[r].held /\ n.at \in {"done", "locking"}
      /\ n.deleted = proc[r].deleted
  BY <1>0, <1>1 DEF Pruning!Proc
<1>4. n.held = {} /\ BatchLocks(n)
  BY <1>0, <1>3 DEF BatchLocks, TickPlaces
<1> QED BY <1>0, <1>1, <1>3, <1>4, PruneTypes, CommandMoves

LEMMA LosesConflictStep ==
  ASSUME PruneHolds, NEW r \in Runs, Pruning!LosesConflict(r)
  PROVE  PruneHolds'
<1>0. /\ r \in Pruning!Procs /\ proc[r] \in Pruning!Proc /\ proc[r].at = "locking"
      /\ BatchLocks(proc[r]) /\ UNCHANGED <<kind, rowLocks, table, instant, taker>>
      /\ failures' = failures + 1 /\ failures < MaxFailures
  BY ProcTypes, PruneTypes DEF Pruning!Procs, Pruning!LosesConflict
<1>1. PICK tries \in 0 .. ATTEMPTS, ks \in SUBSET Keys, at \in {"locking", "stopped"} :
        proc' = [proc EXCEPT ![r] = [proc[r] EXCEPT !.at = at, !.held = {}, !.todo = ks,
                                                    !.tries = tries]]
  <2>1. CASE kind = "tasks" /\ proc[r].tries < ATTEMPTS
    <3>1. proc[r].tries + 1 \in 0 .. ATTEMPTS /\ proc[r].rows \in SUBSET Keys
      BY <1>0, <2>1, ProcTypes, PruneTypes, PruneFacts
    <3>2. proc' = [proc EXCEPT ![r] = [proc[r] EXCEPT !.held = {}, !.todo = proc[r].rows,
                                                      !.tries = proc[r].tries + 1]]
      BY <2>1, <1>0 DEF Pruning!LosesConflict, Pruning!Becomes
    <3>3. [proc[r] EXCEPT !.held = {}, !.todo = proc[r].rows, !.tries = proc[r].tries + 1]
          = [proc[r] EXCEPT !.at = "locking", !.held = {}, !.todo = proc[r].rows,
                            !.tries = proc[r].tries + 1]
      BY <1>0 DEF Pruning!Proc
    <3> QED BY <3>1, <3>2, <3>3
  <2>2. CASE ~(kind = "tasks" /\ proc[r].tries < ATTEMPTS)
    <3>1. proc' = [proc EXCEPT ![r] = [proc[r] EXCEPT !.at = "stopped", !.held = {}, !.todo = {}]]
      BY <2>2 DEF Pruning!LosesConflict, Pruning!Becomes
    <3>2. [proc[r] EXCEPT !.at = "stopped", !.held = {}, !.todo = {}]
          = [proc[r] EXCEPT !.at = "stopped", !.held = {}, !.todo = {}, !.tries = proc[r].tries]
      BY <1>0 DEF Pruning!Proc
    <3>3. proc[r].tries \in 0 .. ATTEMPTS
      BY <1>0, ProcTypes, PruneTypes
    <3> QED BY <3>1, <3>2, <3>3
  <2> QED BY <2>1, <2>2
<1>2. PICK n : /\ n = [proc[r] EXCEPT !.at = at, !.held = {}, !.todo = ks, !.tries = tries]
               /\ proc' = [proc EXCEPT ![r] = n]
  BY <1>1
<1>3. /\ n \in Pruning!Proc /\ n.held = {} /\ n.at \in {"locking", "stopped"}
      /\ n.deleted = proc[r].deleted
  BY <1>0, <1>1, <1>2 DEF Pruning!Proc
<1>4. BatchLocks(n) /\ kind # "ticks"
  BY <1>0, <1>3 DEF BatchLocks, TickPlaces
<1>5. failures' \in 0 .. MaxFailures
  BY <1>0, PruneTypes, PruneFacts
<1> QED BY <1>0, <1>2, <1>3, <1>4, <1>5, CommandMoves

LEMMA BeginMoveStep ==
  ASSUME PruneHolds, Pruning!BeginMove
  PROVE  PruneHolds'
<1>0. /\ Operator \in Pruning!Procs /\ kind = "tasks" /\ Operator \notin Runs
      /\ UNCHANGED <<kind, rowLocks, table, instant, failures, taker>>
      /\ Pruning!TypeOK /\ proc[Operator] \in Pruning!Proc
  BY ProcTypes, PruneTypes, PruneFacts DEF Pruning!Procs, Pruning!BeginMove
<1>1. PICK ks, n :
        /\ ks \in SUBSET Keys
        /\ n = [Pruning!Idle EXCEPT !.at = "locking", !.todo = ks]
        /\ proc' = [proc EXCEPT ![Operator] = n]
  BY DEF Pruning!BeginMove, Pruning!Becomes
<1>2. Pruning!Idle \in Pruning!Proc /\ Pruning!Idle.held = {}
  BY PruneFacts, SameCounts DEF Pruning!Idle, Pruning!Proc, Pruning!Unknown
<1>3. /\ n \in Pruning!Proc /\ n.held = {} /\ n.at = "locking"
  BY <1>1, <1>2 DEF Pruning!Proc
<1>4. BatchLocks(n)
  BY <1>0, <1>3 DEF BatchLocks, TickPlaces
<1> QED BY <1>0, <1>1, <1>3, <1>4, PruneTypes, CommandMoves

\* Of a command in a tick prune.
LEMMA TickFacts ==
  ASSUME PruneHolds, NEW r \in Runs,
         proc[r].at \in TickPlaces \/ (kind = "ticks" /\ proc[r].at = "idle")
  PROVE  /\ r \in Pruning!Procs /\ proc[r] \in Pruning!Proc /\ kind = "ticks"
         /\ BatchLocks(proc[r]) /\ TicksAre(proc[r]) /\ proc[r].held = {}
         /\ Pruning!TypeOK /\ failures \in 0 .. MaxFailures /\ instant \in [Keys -> Keys]
         /\ \A k \in Keys : table[k] \in {"absent", "reads", "unreadable", "gone"}
<1>1. r \in Pruning!Procs /\ proc[r] \in Pruning!Proc
  BY ProcTypes, PruneTypes DEF Pruning!Procs
<1>2. kind = "ticks" /\ BatchLocks(proc[r]) /\ TicksAre(proc[r])
  BY <1>1, PruneTypes DEF BatchLocks
<1>3. proc[r].held = {}
  BY <1>2 DEF BatchLocks
<1> QED BY <1>1, <1>2, <1>3 DEF PruneHolds, Pruning!TypeOK

LEMMA ReadKeysStep ==
  ASSUME PruneHolds, NEW r \in Runs, Pruning!ReadKeys(r)
  PROVE  PruneHolds'
<1>0. /\ r \in Pruning!Procs /\ proc[r] \in Pruning!Proc /\ kind = "ticks"
      /\ TicksAre(proc[r]) /\ proc[r].held = {} /\ failures \in 0 .. MaxFailures
      /\ UNCHANGED <<kind, rowLocks, table, instant, failures, taker>>
  BY TickFacts DEF Pruning!ReadKeys
<1> DEFINE place == IF Pruning!There = {} THEN "page" ELSE "anchor"
<1>9. place \in {"page", "anchor"} /\ proc' = [proc EXCEPT ![r] = [proc[r] EXCEPT !.at = place]]
  BY DEF Pruning!ReadKeys, Pruning!Becomes
<1> HIDE DEF place
<1>1. PICK at, n : /\ at \in {"page", "anchor"} /\ n = [proc[r] EXCEPT !.at = at]
                   /\ proc' = [proc EXCEPT ![r] = n]
  BY <1>9
<1>2. /\ n \in Pruning!Proc /\ n.at = at /\ n.held = {} /\ n.deleted = proc[r].deleted
      /\ n.anchor = proc[r].anchor /\ n.seen = proc[r].seen /\ n.reads = proc[r].reads
      /\ n.doomed = proc[r].doomed
  BY <1>0, <1>1 DEF Pruning!Proc
<1>3. BatchLocks(n)
  BY <1>0, <1>1, <1>2 DEF BatchLocks, TickPlaces
<1>4. TicksAre(n)
  BY <1>0, <1>1, <1>2 DEF TicksAre
<1> QED BY <1>0, <1>1, <1>2, <1>3, <1>4, CommandMoves

\* The newest that reads outlives every other, or none does.
LEMMA NewestOutlives ==
  ASSUME instant \in [Keys -> Keys], \A p, q \in Keys : instant[p] = instant[q] => p = q,
         NEW k \in Pruning!NewestReadable
  PROVE  /\ k \in Keys \cup {0} /\ (k # 0 => table[k] = "reads")
         /\ \A j \in Reading \ {k} : Outlived(j)
<1>1. /\ Pruning!Of("reads") = Reading /\ Reading \subseteq Keys
      /\ \A q \in Reading : table[q] = "reads"
  BY DEF Reading, Pruning!Of
<1>2. CASE Reading = {}
  BY <1>1, <1>2 DEF Pruning!NewestReadable, Pruning!Unknown
<1>3. CASE Reading # {}
  <2>1. k \in Reading /\ \A q \in Reading : instant[q] <= instant[k]
    BY <1>1, <1>3 DEF Pruning!NewestReadable, Pruning!NewestOf
  <2>2. ASSUME NEW j \in Reading \ {k} PROVE instant[j] < instant[k]
    <3>1. instant[j] \in Nat /\ instant[k] \in Nat /\ instant[j] # instant[k]
      BY <1>1, <2>1, PruneFacts
    <3> QED BY <2>1, <3>1
  <2> QED BY <1>1, <2>1, <2>2 DEF Outlived, NewerReads
<1> QED BY <1>2, <1>3

LEMMA LookUpStep ==
  ASSUME PruneHolds, NEW r \in Runs, Pruning!LookUp(r)
  PROVE  PruneHolds'
<1>0. /\ r \in Pruning!Procs /\ proc[r] \in Pruning!Proc /\ kind = "ticks"
      /\ TicksAre(proc[r]) /\ proc[r].held = {} /\ failures \in 0 .. MaxFailures
      /\ UNCHANGED <<kind, rowLocks, table, instant, failures, taker>>
  BY TickFacts DEF Pruning!LookUp, TickPlaces
<1>1. PICK k \in Pruning!NewestReadable, seen \in BOOLEAN, at \in {"page", "older"} :
        /\ proc' = [proc EXCEPT ![r] = [proc[r] EXCEPT !.at = at, !.anchor = k, !.seen = seen]]
        /\ at = "older" => seen = TRUE
  <2>1. PICK k \in Pruning!NewestReadable :
          proc' = [proc EXCEPT ![r] =
                     [proc[r] EXCEPT !.at = IF @ = "anchor" THEN "page" ELSE "older",
                                     !.anchor = k, !.seen = k # 0 \/ proc[r].at = "missing"]]
    BY DEF Pruning!LookUp, Pruning!Becomes, Pruning!Unknown
  <2>2. CASE proc[r].at = "anchor"
    <3>1. proc' = [proc EXCEPT ![r] =
                     [proc[r] EXCEPT !.at = "page", !.anchor = k,
                                     !.seen = k # 0 \/ proc[r].at = "missing"]]
      BY <1>0, <2>1, <2>2 DEF Pruning!Proc
    <3> QED BY <3>1
  <2>3. CASE proc[r].at = "missing"
    <3>1. (k # 0 \/ proc[r].at = "missing") = TRUE
      BY <2>3
    <3>2. proc' = [proc EXCEPT ![r] =
                     [proc[r] EXCEPT !.at = "older", !.anchor = k, !.seen = TRUE]]
      BY <1>0, <2>1, <2>3, <3>1 DEF Pruning!Proc
    <3> QED BY <3>2
  <2> QED BY <2>2, <2>3 DEF Pruning!LookUp
<1>2. /\ k \in Keys \cup {0} /\ (k # 0 => table[k] = "reads")
      /\ \A j \in Reading \ {k} : Outlived(j)
  BY NewestOutlives DEF PruneHolds, Pruning!TypeOK
<1>3. PICK n : /\ n = [proc[r] EXCEPT !.at = at, !.anchor = k, !.seen = seen]
               /\ proc' = [proc EXCEPT ![r] = n]
  BY <1>1
<1>4. /\ n \in Pruning!Proc /\ n.at = at /\ n.held = {} /\ n.deleted = proc[r].deleted
      /\ n.anchor = k /\ n.seen = seen /\ n.reads = proc[r].reads /\ n.doomed = proc[r].doomed
  BY <1>0, <1>1, <1>2, <1>3 DEF Pruning!Proc, Pruning!Unknown
<1>5. BatchLocks(n)
  BY <1>0, <1>1, <1>4 DEF BatchLocks, TickPlaces
<1>6. TicksAre(n)
  BY <1>0, <1>1, <1>2, <1>4 DEF TicksAre
<1> QED BY <1>0, <1>3, <1>4, <1>5, <1>6, CommandMoves

LEMMA ReadPageStep ==
  ASSUME PruneHolds, NEW r \in Runs, Pruning!ReadPage(r)
  PROVE  PruneHolds'
<1>0. /\ r \in Pruning!Procs /\ proc[r] \in Pruning!Proc /\ kind = "ticks"
      /\ TicksAre(proc[r]) /\ proc[r].held = {} /\ failures \in 0 .. MaxFailures
      /\ proc[r].at = "page" /\ UNCHANGED <<kind, rowLocks, table, instant, failures, taker>>
  BY TickFacts DEF Pruning!ReadPage, TickPlaces
<1> DEFINE page == Pruning!FirstOf({k \in Pruning!There :
                                      instant[k] < Cutoff /\ proc[r].after < k})
           reads == page \cap Pruning!Of("reads")
<1>1. page \in SUBSET Keys /\ reads \in SUBSET Keys /\ \A k \in reads : table[k] = "reads"
  BY DEF Pruning!FirstOf, Pruning!There, Pruning!Of
<1>2. proc' = [proc EXCEPT ![r] =
                 IF page = {} THEN [proc[r] EXCEPT !.at = "done"]
                 ELSE [proc[r] EXCEPT !.rows = page, !.reads = reads,
                         !.after = CHOOSE k \in page : \A j \in page : j <= k,
                         !.at = IF reads = {} \/ proc[r].seen THEN "older" ELSE "missing"]]
  BY DEF Pruning!ReadPage, Pruning!Becomes
<1> HIDE DEF page, reads
<1>3. CASE page = {}
  <2>1. PICK n : n = [proc[r] EXCEPT !.at = "done"] /\ proc' = [proc EXCEPT ![r] = n]
    BY <1>2, <1>3
  <2>2. /\ n \in Pruning!Proc /\ n.at = "done" /\ n.held = {} /\ n.deleted = proc[r].deleted
        /\ n.anchor = proc[r].anchor /\ n.seen = proc[r].seen /\ n.reads = proc[r].reads
        /\ n.doomed = proc[r].doomed
    BY <1>0, <2>1 DEF Pruning!Proc
  <2>3. BatchLocks(n) /\ TicksAre(n)
    BY <1>0, <2>2 DEF BatchLocks, TicksAre, TickPlaces
  <2> QED BY <1>0, <2>1, <2>2, <2>3, CommandMoves
<1>4. CASE page # {}
  <2>1. PICK after, at, n :
          /\ after \in Keys /\ at \in {"older", "missing"}
          /\ n = [proc[r] EXCEPT !.rows = page, !.reads = reads, !.after = after, !.at = at]
          /\ proc' = [proc EXCEPT ![r] = n]
          /\ at = "older" => reads = {} \/ proc[r].seen
    <3> DEFINE last == CHOOSE k \in page : \A j \in page : j <= k
               place == IF reads = {} \/ proc[r].seen THEN "older" ELSE "missing"
    <3>1. last \in page
      BY <1>1, <1>4, LastKey
    <3>2. place \in {"older", "missing"} /\ (place = "older" => reads = {} \/ proc[r].seen)
      OBVIOUS
    <3>3. proc' = [proc EXCEPT ![r] = [proc[r] EXCEPT !.rows = page, !.reads = reads,
                                                      !.after = last, !.at = place]]
      BY <1>2, <1>4
    <3> HIDE DEF last, place
    <3> QED BY <1>1, <3>1, <3>2, <3>3
  <2>2. /\ n \in Pruning!Proc /\ n.at = at /\ n.held = {} /\ n.deleted = proc[r].deleted
        /\ n.anchor = proc[r].anchor /\ n.seen = proc[r].seen /\ n.reads = reads
        /\ n.doomed = proc[r].doomed
    BY <1>0, <1>1, <2>1 DEF Pruning!Proc
  <2>3. BatchLocks(n)
    BY <1>0, <2>1, <2>2 DEF BatchLocks, TickPlaces
  <2>4. TicksAre(n)
    BY <1>0, <1>1, <2>1, <2>2 DEF TicksAre
  <2> QED BY <1>0, <2>1, <2>2, <2>3, <2>4, CommandMoves
<1> QED BY <1>3, <1>4

LEMMA AskOlderStep ==
  ASSUME PruneHolds, NEW r \in Runs, Pruning!AskOlder(r)
  PROVE  PruneHolds'
<1>0. /\ r \in Pruning!Procs /\ proc[r] \in Pruning!Proc /\ kind = "ticks"
      /\ TicksAre(proc[r]) /\ proc[r].held = {} /\ failures \in 0 .. MaxFailures
      /\ proc[r].at = "older" /\ UNCHANGED <<kind, rowLocks, table, instant, failures, taker>>
      /\ proc[r].reads \in SUBSET Keys /\ proc[r].anchor \in Keys \cup {0}
  BY TickFacts, ProcTypes DEF Pruning!AskOlder, TickPlaces
<1> DEFINE older == Pruning!Unanswered(r)
           doomed == proc[r].reads \ ({proc[r].anchor} \cup older)
<1>1. older \subseteq proc[r].reads \ {proc[r].anchor} /\ doomed \subseteq proc[r].reads
  BY DEF Pruning!Unanswered
<1>2. ASSUME NEW k \in doomed PROVE NewerReads(k)
  <2>1. /\ k \in proc[r].reads /\ proc[r].anchor \in Pruning!There
        /\ instant[k] < instant[proc[r].anchor]
    BY DEF Pruning!Unanswered
  <2>2. proc[r].anchor \in Reading
    BY <1>0, <2>1, PruneFacts DEF Pruning!There, TicksAre, Reading
  <2> QED BY <2>1, <2>2 DEF NewerReads
<1>3. PICK n : /\ n = [proc[r] EXCEPT !.at = "newest", !.reads = older, !.doomed = doomed]
               /\ proc' = [proc EXCEPT ![r] = n]
  BY DEF Pruning!AskOlder, Pruning!Becomes
<1> HIDE DEF older, doomed
<1>4. /\ n \in Pruning!Proc /\ n.at = "newest" /\ n.held = {} /\ n.deleted = proc[r].deleted
      /\ n.anchor = proc[r].anchor /\ n.seen = proc[r].seen /\ n.reads = older
      /\ n.doomed = doomed
  BY <1>0, <1>1, <1>3 DEF Pruning!Proc
<1>5. BatchLocks(n)
  BY <1>0, <1>4 DEF BatchLocks, TickPlaces
<1>6. TicksAre(n)
  BY <1>0, <1>1, <1>2, <1>4 DEF TicksAre
<1> QED BY <1>0, <1>3, <1>4, <1>5, <1>6, CommandMoves

LEMMA AskNewestStep ==
  ASSUME PruneHolds, NEW r \in Runs, Pruning!AskNewest(r)
  PROVE  PruneHolds'
<1>0. /\ r \in Pruning!Procs /\ proc[r] \in Pruning!Proc /\ kind = "ticks"
      /\ TicksAre(proc[r]) /\ proc[r].held = {} /\ failures \in 0 .. MaxFailures
      /\ proc[r].at = "newest" /\ UNCHANGED <<kind, rowLocks, table, instant, failures, taker>>
      /\ proc[r].reads \in SUBSET Keys /\ proc[r].doomed \in SUBSET Keys
      /\ \A k \in Keys : table[k] \in {"absent", "reads", "unreadable", "gone"}
      /\ instant \in [Keys -> Keys]
  BY TickFacts, ProcTypes DEF Pruning!AskNewest, TickPlaces
<1> DEFINE doomed == proc[r].doomed \cup (proc[r].reads \ Pruning!NewestNow(r))
<1>1. doomed \subseteq proc[r].doomed \cup proc[r].reads
  OBVIOUS
<1>2. ASSUME NEW k \in proc[r].reads \ Pruning!NewestNow(r), table[k] = "reads"
      PROVE  NewerReads(k)
  <2>1. k \in Keys /\ k \in Pruning!There /\ k \in Reading
    BY <1>0, <1>2 DEF Pruning!There, Reading
  <2>2. PICK q \in Pruning!There : ~(instant[q] <= instant[k])
    BY <2>1, <1>2 DEF Pruning!NewestNow, Pruning!NewestOf
  <2>3. q \in Keys /\ table[q] \in {"reads", "unreadable"} /\ instant[k] < instant[q]
    BY <1>0, <2>1, <2>2, PruneFacts DEF Pruning!There
  <2>4. Outlived(k)
    BY <1>0, <1>2, <2>1 DEF TicksAre
  <2> QED BY <2>3, <2>4 DEF Outlived, NewerReads, Reading
<1>3. PICK n : /\ n = [proc[r] EXCEPT !.at = "delete", !.doomed = doomed]
               /\ proc' = [proc EXCEPT ![r] = n]
  BY DEF Pruning!AskNewest, Pruning!Becomes
<1>4. \A k \in doomed : table[k] = "reads" => NewerReads(k)
  BY <1>0, <1>2 DEF TicksAre
<1> HIDE DEF doomed
<1>5. /\ n \in Pruning!Proc /\ n.at = "delete" /\ n.held = {} /\ n.deleted = proc[r].deleted
      /\ n.anchor = proc[r].anchor /\ n.seen = proc[r].seen /\ n.reads = proc[r].reads
      /\ n.doomed = doomed
  BY <1>0, <1>1, <1>3 DEF Pruning!Proc
<1>6. BatchLocks(n)
  BY <1>0, <1>5 DEF BatchLocks, TickPlaces
<1>7. TicksAre(n)
  BY <1>0, <1>1, <1>4, <1>5 DEF TicksAre
<1> QED BY <1>0, <1>3, <1>5, <1>6, <1>7, CommandMoves

\* A row that comes to read is outlived; what has been outlived stays so.
RowsKeepOrder ==
  /\ \A k \in Keys : table[k] \in {"reads", "gone"} => table'[k] \in {"reads", "gone"}
  /\ \A k \in Keys : table'[k] = "unreadable" => table[k] = "unreadable"
  /\ \A k \in Keys : table'[k] = "reads" =>
       table[k] = "reads" \/ (table[k] # "gone" /\ Outlived(k)')
  /\ \A k \in Keys : NewerReads(k) => NewerReads(k)'
  /\ \A k \in Keys : table'[k] \in {"absent", "reads", "unreadable", "gone"}

LEMMA TicksStay ==
  ASSUME instant' = instant, RowsKeepOrder, NEW v, TicksAre(v), v.anchor \in Keys \cup {0},
         v.reads \in SUBSET Keys, v.doomed \in SUBSET Keys
  PROVE  TicksAre(v)'
<1>1. v.anchor # 0 => table'[v.anchor] \in {"reads", "gone"}
  BY DEF TicksAre, RowsKeepOrder
<1>2. ASSUME v.seen, NEW k \in Keys, table'[k] = "reads", k # v.anchor PROVE Outlived(k)'
  <2>1. CASE table[k] = "reads"
    <3>1. Outlived(k)
      BY <1>2, <2>1 DEF TicksAre, Reading
    <3> QED BY <3>1 DEF Outlived, RowsKeepOrder
  <2> QED BY <1>2, <2>1 DEF RowsKeepOrder
<1>3. \A k \in v.reads \cup v.doomed : table'[k] \in {"reads", "gone"}
  BY DEF TicksAre, RowsKeepOrder
<1>4. ASSUME NEW k \in v.doomed, table'[k] = "reads" PROVE NewerReads(k)'
  <2>1. table[k] = "reads"
    BY <1>4 DEF TicksAre, RowsKeepOrder
  <2> QED BY <2>1 DEF TicksAre, RowsKeepOrder
<1> QED BY <1>1, <1>2, <1>3, <1>4 DEF TicksAre, Reading

\* A step that writes rows.
LEMMA RowsMove ==
  ASSUME PruneHolds, NEW r \in Pruning!Procs, NEW n \in Pruning!Proc,
         proc' = [proc EXCEPT ![r] = n], UNCHANGED <<kind, rowLocks, instant, failures>>,
         table' \in [Keys -> {"prunable", "kept", "absent", "reads", "unreadable", "gone"}],
         taker' \in [Keys -> Pruning!Procs], BatchLocks(n),
         n.held = {} \/ n.held = proc[r].held,
         kind = "ticks" => TicksAre(n) /\ RowsKeepOrder, Pruning!CountsWhatWent'
  PROVE  PruneHolds'
<1>1. /\ \A p \in Pruning!Procs : proc'[p] = IF p = r THEN n ELSE proc[p]
      /\ proc' \in [Pruning!Procs -> Pruning!Proc]
  BY DEF PruneHolds, Pruning!TypeOK
<1>2. Pruning!TypeOK'
  BY <1>1 DEF PruneHolds, Pruning!TypeOK
<1>3. ASSUME NEW p \in Pruning!Procs
      PROVE  BatchLocks(proc[p])' /\ (kind' = "ticks" => TicksAre(proc[p])')
  <2>1. BatchLocks(proc'[p]) /\ (kind = "ticks" => TicksAre(proc'[p]))
    BY <1>1 DEF PruneHolds
  <2>2. BatchLocks(proc[p])'
    BY <2>1 DEF BatchLocks
  <2>3. ASSUME kind = "ticks" PROVE TicksAre(proc[p])'
    <3>1. PICK v : v = proc'[p]
      OBVIOUS
    <3>2. v \in Pruning!Proc
      BY <1>1, <3>1
    <3>3. v.anchor \in Keys \cup {0} /\ v.reads \in SUBSET Keys /\ v.doomed \in SUBSET Keys
      BY <3>2 DEF Pruning!Proc, Pruning!Unknown
    <3>4. TicksAre(v)'
      BY <2>1, <2>3, <3>1, <3>3, TicksStay
    <3> QED BY <3>1, <3>4 DEF TicksAre
  <2> QED BY <2>2, <2>3
<1>4. OneWriter'
  BY <1>1 DEF PruneHolds, OneWriter
<1>5. kind' = "ticks" => \A k \in Keys : table'[k] \in {"absent", "reads", "unreadable", "gone"}
  BY DEF RowsKeepOrder
<1> QED BY <1>2, <1>3, <1>4, <1>5 DEF PruneHolds

\* Another's step, that takes no row and changes no command.
LEMMA RowsMoveAside ==
  ASSUME PruneHolds, UNCHANGED <<kind, rowLocks, instant, proc, failures, taker>>,
         table' \in [Keys -> {"prunable", "kept", "absent", "reads", "unreadable", "gone"}],
         kind = "ticks" => RowsKeepOrder,
         \A k \in Keys : table'[k] = "gone" <=> table[k] = "gone"
  PROVE  PruneHolds'
<1>1. /\ Operator \in Pruning!Procs /\ Pruning!TypeOK /\ proc[Operator] \in Pruning!Proc
      /\ BatchLocks(proc[Operator]) /\ (kind = "ticks" => TicksAre(proc[Operator]))
  BY ProcTypes, PruneTypes DEF Pruning!Procs
<1>2. proc' = [proc EXCEPT ![Operator] = proc[Operator]]
  BY <1>1 DEF Pruning!TypeOK
<1>3. Pruning!CountsWhatWent'
  <2>1. Pruning!Of("gone")' = Pruning!Of("gone")
    BY DEF Pruning!Of
  <2> QED BY <2>1 DEF PruneHolds, Pruning!CountsWhatWent, Pruning!Counted
<1>4. taker' \in [Keys -> Pruning!Procs] /\ UNCHANGED <<kind, rowLocks, instant, failures>>
  BY <1>1 DEF Pruning!TypeOK
<1>5. PICK n \in Pruning!Proc : /\ n = proc[Operator] /\ BatchLocks(n)
                                /\ (kind = "ticks" => TicksAre(n))
  BY <1>1, Zenon
<1>6. proc' = [proc EXCEPT ![Operator] = n] /\ n.held = proc[Operator].held
  BY <1>2, <1>5, Zenon
<1> QED BY <1>1, <1>3, <1>4, <1>5, <1>6, RowsMove

\* What a command has counted and what it takes now are different keys.
LEMMA TakenFit ==
  ASSUME PruneHolds, NEW r \in Runs, NEW ks \in SUBSET Keys,
         \A k \in ks : table[k] # "gone"
  PROVE  /\ proc[r].deleted + Pruning!Cardinality(ks) \in 0 .. Pruning!Cardinality(Keys)
         /\ proc[r].deleted + Pruning!Cardinality(ks)
              = Pruning!Cardinality(Pruning!Counted(r) \cup ks)
<1> DEFINE had == Pruning!Counted(r)
<1>1. had \in SUBSET Keys /\ had \cap ks = {}
  BY DEF Pruning!Counted, Pruning!Of
<1>2. IsFiniteSet(Keys) /\ Cardinality(Keys) \in Nat
  BY PruneFacts
<1>3. proc[r].deleted = Cardinality(had)
  BY SameCounts DEF PruneHolds, Pruning!CountsWhatWent
<1> HIDE DEF had
<1>4. IsFiniteSet(had) /\ IsFiniteSet(ks) /\ IsFiniteSet(had \cup ks)
  BY <1>1, <1>2, FS_Subset
<1>5. Cardinality(had \cup ks) = Cardinality(had) + Cardinality(ks) - Cardinality(had \cap ks)
  BY <1>4, FS_Union
<1>6. Cardinality(had \cap ks) = 0
  BY <1>1, FS_EmptySet
<1>7. /\ Cardinality(had) \in Nat /\ Cardinality(ks) \in Nat
      /\ Cardinality(had \cup ks) \in Nat /\ Cardinality(had \cup ks) <= Cardinality(Keys)
  BY <1>1, <1>2, <1>4, FS_CardinalityType, FS_Subset
<1>8. /\ proc[r].deleted + Cardinality(ks) = Cardinality(had \cup ks)
      /\ proc[r].deleted + Cardinality(ks) \in 0 .. Cardinality(Keys)
  BY <1>2, <1>3, <1>5, <1>6, <1>7
<1> QED BY <1>8, SameCounts DEF had

LEMMA TakenCount ==
  ASSUME PruneHolds, NEW r \in Runs, NEW ks \in SUBSET Keys, \A k \in ks : table[k] # "gone",
         Pruning!Takes(r, ks), NEW n \in Pruning!Proc, proc' = [proc EXCEPT ![r] = n],
         n.deleted = proc[r].deleted + Pruning!Cardinality(ks)
  PROVE  /\ Pruning!CountsWhatWent'
         /\ table' \in [Keys -> {"prunable", "kept", "absent", "reads", "unreadable", "gone"}]
         /\ taker' \in [Keys -> Pruning!Procs]
         /\ \A k \in Keys : table'[k] = IF k \in ks THEN "gone" ELSE table[k]
<1>1. /\ \A k \in Keys : table'[k] = IF k \in ks THEN "gone" ELSE table[k]
      /\ \A k \in Keys : taker'[k] = IF k \in ks THEN r ELSE taker[k]
  BY DEF Pruning!Takes
<1>2. /\ table' \in [Keys -> {"prunable", "kept", "absent", "reads", "unreadable", "gone"}]
      /\ taker' \in [Keys -> Pruning!Procs]
  BY DEF PruneHolds, Pruning!TypeOK, Pruning!Takes, Pruning!Procs
<1>3. Pruning!Of("gone")' = Pruning!Of("gone") \cup ks
  BY <1>1 DEF Pruning!Of
<1>4. Pruning!Of("gone") \subseteq Keys /\ Pruning!Of("gone") \cap ks = {}
  BY DEF Pruning!Of
<1>5. ASSUME NEW s \in Runs
      PROVE  proc'[s].deleted = Pruning!Cardinality(Pruning!Counted(s)')
  <2>1. proc'[s] = IF s = r THEN n ELSE proc[s]
    BY DEF PruneHolds, Pruning!TypeOK, Pruning!Procs
  <2>2. CASE s = r
    <3>1. Pruning!Counted(s)' = Pruning!Counted(r) \cup ks
      BY <1>1, <1>3, <1>4, <2>2 DEF Pruning!Counted
    <3> QED BY <2>1, <2>2, <3>1, TakenFit
  <2>3. CASE s # r
    <3>1. Pruning!Counted(s)' = Pruning!Counted(s)
      BY <1>1, <1>3, <1>4, <2>3 DEF Pruning!Counted
    <3>2. proc[s].deleted = Pruning!Cardinality(Pruning!Counted(s))
      BY DEF PruneHolds, Pruning!CountsWhatWent
    <3> QED BY <2>1, <2>3, <3>1, <3>2
  <2> QED BY <2>2, <2>3
<1>6. \A k \in Pruning!Of("gone")' : taker'[k] \in Runs
  BY <1>1, <1>3, <1>4 DEF PruneHolds, Pruning!CountsWhatWent
<1>7. Pruning!CountsWhatWent'
  BY <1>5, <1>6 DEF Pruning!CountsWhatWent
<1> QED BY <1>1, <1>2, <1>7

LEMMA DeleteBatchStep ==
  ASSUME PruneHolds, NEW r \in Runs, Pruning!DeleteBatch(r)
  PROVE  /\ PruneHolds' /\ kind # "ticks"
         /\ \A k \in Keys : table'[k] =
              IF k \in Pruning!StillDoomed(r) THEN "gone" ELSE table[k]
<1> DEFINE ks == Pruning!StillDoomed(r)
           d == proc[r].deleted + Pruning!Cardinality(ks)
<1>0. /\ r \in Pruning!Procs /\ proc[r] \in Pruning!Proc /\ proc[r].at = "locking"
      /\ BatchLocks(proc[r]) /\ kind # "ticks" /\ proc[r].todo = {}
      /\ UNCHANGED <<kind, rowLocks, instant, failures>> /\ Pruning!Takes(r, ks)
      /\ proc[r].rows \in SUBSET Keys
  BY ProcTypes, PruneTypes DEF Pruning!Procs, Pruning!DeleteBatch, Pruning!Locked, BatchLocks
<1>1. ks \in SUBSET Keys /\ \A k \in ks : table[k] # "gone"
  <2>1. \A s \in {"prunable", "unreadable"} :
          Pruning!Of(s) \subseteq Keys /\ \A k \in Pruning!Of(s) : table[k] = s
    BY DEF Pruning!Of
  <2> QED BY <2>1 DEF Pruning!StillDoomed
<1>2. d \in 0 .. Cardinality(Keys) /\ d \in 0 .. Pruning!Cardinality(Keys)
  BY <1>1, TakenFit, SameCounts
<1>3. PICK n : /\ n \in Pruning!Proc /\ n.held = {} /\ n.at \in {"idle", "done", "locking"}
               /\ n.deleted = d /\ proc' = [proc EXCEPT ![r] = n]
  <2> DEFINE next == [proc[r] EXCEPT !.held = {},
                                     !.deleted = proc[r].deleted + Pruning!Cardinality(ks)]
             rows == proc[r].rows
             batch == Pruning!FirstOf(rows)
  <2>1. proc' = [proc EXCEPT ![r] =
                   IF kind = "tasks" THEN [next EXCEPT !.at = "idle", !.rows = {}, !.tries = 0]
                   ELSE IF rows = {} THEN [next EXCEPT !.at = "done"]
                   ELSE [next EXCEPT !.todo = batch, !.rows = rows \ batch]]
    <3>1. next.rows = rows
      BY <1>0 DEF Pruning!Proc
    <3> HIDE DEF next
    <3>2. [next EXCEPT !.todo = batch, !.rows = @ \ Pruning!FirstOf(@)]
          = [next EXCEPT !.todo = batch, !.rows = rows \ batch]
      BY <3>1
    <3> QED BY <3>2 DEF Pruning!DeleteBatch, Pruning!Becomes, next
  <2>2. batch \in SUBSET Keys /\ rows \in SUBSET Keys /\ 0 \in 0 .. ATTEMPTS
    BY <1>0, PruneFacts DEF Pruning!FirstOf
  <2>3. /\ next \in Pruning!Proc /\ next.held = {} /\ next.deleted = d /\ next.at = "locking"
    BY <1>0, <1>2 DEF Pruning!Proc
  <2> HIDE DEF next, batch, rows, d
  <2>4. CASE kind = "tasks"
    <3>1. PICK n : /\ n = [next EXCEPT !.at = "idle", !.rows = {}, !.tries = 0]
                   /\ proc' = [proc EXCEPT ![r] = n]
      BY <2>1, <2>4
    <3>2. n \in Pruning!Proc /\ n.held = {} /\ n.at = "idle" /\ n.deleted = d
      BY <2>2, <2>3, <3>1 DEF Pruning!Proc
    <3> QED BY <3>1, <3>2
  <2>5. CASE kind # "tasks" /\ rows = {}
    <3>1. PICK n : n = [next EXCEPT !.at = "done"] /\ proc' = [proc EXCEPT ![r] = n]
      BY <2>1, <2>5
    <3>2. n \in Pruning!Proc /\ n.held = {} /\ n.at = "done" /\ n.deleted = d
      BY <2>2, <2>3, <3>1 DEF Pruning!Proc
    <3> QED BY <3>1, <3>2
  <2>6. CASE kind # "tasks" /\ rows # {}
    <3>1. PICK n : /\ n = [next EXCEPT !.todo = batch, !.rows = rows \ batch]
                   /\ proc' = [proc EXCEPT ![r] = n]
      BY <2>1, <2>6
    <3>2. n \in Pruning!Proc /\ n.held = {} /\ n.at = "locking" /\ n.deleted = d
      BY <2>2, <2>3, <3>1 DEF Pruning!Proc
    <3> QED BY <3>1, <3>2
  <2> QED BY <2>4, <2>5, <2>6
<1>4. BatchLocks(n)
  BY <1>0, <1>3 DEF BatchLocks, TickPlaces
<1>5. /\ Pruning!CountsWhatWent'
      /\ table' \in [Keys -> {"prunable", "kept", "absent", "reads", "unreadable", "gone"}]
      /\ taker' \in [Keys -> Pruning!Procs]
      /\ \A k \in Keys : table'[k] = IF k \in ks THEN "gone" ELSE table[k]
  BY <1>0, <1>1, <1>3, TakenCount
<1> HIDE DEF ks, d
<1>6. PruneHolds'
  BY <1>0, <1>3, <1>4, <1>5, RowsMove
<1> QED BY <1>0, <1>5, <1>6 DEF ks

LEMMA MoveStep ==
  ASSUME PruneHolds, Pruning!Move
  PROVE  PruneHolds' /\ \A k \in Keys : table'[k] = "gone" => table[k] = "gone"
<1>0. /\ Operator \in Pruning!Procs /\ Operator \notin Runs /\ proc[Operator] \in Pruning!Proc
      /\ kind # "ticks" /\ UNCHANGED <<kind, rowLocks, instant, failures, taker>>
      /\ Pruning!TypeOK
  BY ProcTypes, PruneTypes, PruneFacts DEF Pruning!Procs, Pruning!Move, Pruning!Locked, BatchLocks
<1>1. /\ table' \in [Keys -> {"prunable", "kept", "absent", "reads", "unreadable", "gone"}]
      /\ \A k \in Keys : table'[k] = "gone" <=> table[k] = "gone"
  BY <1>0 DEF Pruning!Move, Pruning!TypeOK, Pruning!Of
<1>2. PICK n : n = [Pruning!Idle EXCEPT !.at = "done"] /\ proc' = [proc EXCEPT ![Operator] = n]
  BY DEF Pruning!Move, Pruning!Becomes
<1>3. Pruning!Idle \in Pruning!Proc /\ Pruning!Idle.held = {}
  BY PruneFacts, SameCounts DEF Pruning!Idle, Pruning!Proc, Pruning!Unknown
<1>4. n \in Pruning!Proc /\ n.held = {} /\ n.at = "done"
  BY <1>2, <1>3 DEF Pruning!Proc
<1>5. BatchLocks(n)
  BY <1>0, <1>4 DEF BatchLocks, TickPlaces
<1>6. Pruning!CountsWhatWent'
  <2>1. Pruning!Of("gone")' = Pruning!Of("gone")
    BY <1>1 DEF Pruning!Of
  <2>2. ASSUME NEW s \in Runs PROVE proc'[s] = proc[s]
    BY <1>0, <1>2 DEF Pruning!TypeOK, Pruning!Procs
  <2> QED BY <1>0, <2>1, <2>2 DEF PruneHolds, Pruning!CountsWhatWent, Pruning!Counted
<1>7. taker' \in [Keys -> Pruning!Procs]
  BY <1>0 DEF Pruning!TypeOK
<1>8. PruneHolds'
  BY <1>0, <1>1, <1>2, <1>4, <1>5, <1>6, <1>7, RowsMove
<1> QED BY <1>1, <1>8

LEMMA DeleteTicksStep ==
  ASSUME PruneHolds, NEW r \in Runs, Pruning!DeleteTicks(r)
  PROVE  /\ PruneHolds' /\ kind = "ticks"
         /\ \A k \in Keys : table'[k] = "gone" /\ table[k] # "gone" =>
              table[k] = "reads" /\ NewerReads(k)'
<1> DEFINE ks == proc[r].doomed \cap Pruning!There
           d == proc[r].deleted + Pruning!Cardinality(ks)
           at == IF Pruning!Cardinality(proc[r].rows) < batch_size THEN "done" ELSE "page"
<1>0. /\ r \in Pruning!Procs /\ proc[r] \in Pruning!Proc /\ kind = "ticks"
      /\ BatchLocks(proc[r]) /\ TicksAre(proc[r]) /\ proc[r].held = {}
      /\ UNCHANGED <<kind, rowLocks, instant, failures>> /\ Pruning!Takes(r, ks)
      /\ proc[r].doomed \in SUBSET Keys /\ instant \in [Keys -> Keys]
      /\ proc[r].at = "delete" /\ Pruning!TypeOK
      /\ \A k \in Keys : table[k] \in {"absent", "reads", "unreadable", "gone"}
  BY TickFacts, ProcTypes DEF Pruning!DeleteTicks, TickPlaces
<1>1. ks \in SUBSET Keys /\ \A k \in ks : table[k] = "reads" /\ NewerReads(k)
  BY <1>0 DEF Pruning!There, TicksAre
<1>2. d \in 0 .. Cardinality(Keys) /\ d \in 0 .. Pruning!Cardinality(Keys)
  BY <1>1, TakenFit, SameCounts
<1>3. at \in {"done", "page"}
  OBVIOUS
<1>4. PICK n : /\ n = [proc[r] EXCEPT !.at = at, !.rows = {}, !.reads = {}, !.doomed = {},
                                      !.deleted = d]
               /\ proc' = [proc EXCEPT ![r] = n]
  BY DEF Pruning!DeleteTicks, Pruning!Becomes
<1> HIDE DEF ks, d, at
<1>5. /\ n \in Pruning!Proc /\ n.held = {} /\ n.at = at /\ n.deleted = d
      /\ n.anchor = proc[r].anchor /\ n.seen = proc[r].seen /\ n.reads = {} /\ n.doomed = {}
  BY <1>0, <1>2, <1>3, <1>4 DEF Pruning!Proc
<1>6. BatchLocks(n) /\ TicksAre(n)
  BY <1>0, <1>3, <1>5 DEF BatchLocks, TickPlaces, TicksAre
<1>11. proc' = [proc EXCEPT ![r] = n] /\ n.deleted = proc[r].deleted + Pruning!Cardinality(ks)
  BY <1>4, <1>5 DEF d
<1>7. /\ Pruning!CountsWhatWent'
      /\ table' \in [Keys -> {"prunable", "kept", "absent", "reads", "unreadable", "gone"}]
      /\ taker' \in [Keys -> Pruning!Procs]
      /\ \A k \in Keys : table'[k] = IF k \in ks THEN "gone" ELSE table[k]
  BY <1>0, <1>1, <1>5, <1>11, TakenCount
<1>8. ASSUME NEW k \in Keys, NewerReads(k) PROVE NewerReads(k)'
  <2>1. PICK q \in Reading \ ks : instant[k] < instant[q]
    BY <1>0, <1>1, <1>8, NewestStays
  <2>2. q \in Reading'
    BY <1>7, <2>1 DEF Reading
  <2> QED BY <1>0, <2>1, <2>2 DEF NewerReads
<1>9. RowsKeepOrder
  BY <1>0, <1>1, <1>7, <1>8 DEF RowsKeepOrder
<1>10. PruneHolds'
  BY <1>0, <1>4, <1>5, <1>6, <1>7, <1>9, RowsMove
<1> QED BY <1>0, <1>1, <1>7, <1>8, <1>10

LEMMA DispatchStep ==
  ASSUME PruneHolds, Pruning!Dispatch
  PROVE  PruneHolds' /\ \A k \in Keys : table'[k] = "gone" => table[k] = "gone"
<1>0. /\ UNCHANGED <<kind, rowLocks, instant, proc, failures, taker>> /\ kind = "ticks"
      /\ \A k \in Keys : table[k] \in {"absent", "reads", "unreadable", "gone"}
      /\ instant \in [Keys -> Keys] /\ Pruning!TypeOK
      /\ Pruning!NewestOf(Pruning!There) \cap Pruning!Of("unreadable") = {}
  BY DEF PruneHolds, Pruning!TypeOK, Pruning!Dispatch
<1>1. PICK k \in Keys : table[k] = "absent" /\ table' = [table EXCEPT ![k] = "reads"]
  BY DEF Pruning!Dispatch, Pruning!Of
<1>2. /\ table' \in [Keys -> {"prunable", "kept", "absent", "reads", "unreadable", "gone"}]
      /\ \A p \in Keys : table'[p] = IF p = k THEN "reads" ELSE table[p]
  BY <1>0, <1>1 DEF Pruning!TypeOK
<1>3. Outlived(k)'
  <2> SUFFICES ASSUME NEW q \in Keys, table[q] = "unreadable", instant[k] < instant[q]
               PROVE  NewerReads(k)'
    BY <1>0, <1>1, <1>2 DEF Outlived
  <2>1. Pruning!There \in SUBSET Keys /\ q \in Pruning!There
    BY DEF Pruning!There
  <2>2. PICK t \in Pruning!There : \A y \in Pruning!There : instant[y] <= instant[t]
    BY <1>0, <2>1, LastOf
  <2>3. t \in Pruning!NewestOf(Pruning!There) /\ t \in Keys
    BY <2>1, <2>2 DEF Pruning!NewestOf
  <2>4. table[t] = "reads" /\ t # k
    BY <1>0, <1>1, <2>2, <2>3 DEF Pruning!Of, Pruning!There
  <2>5. instant[k] < instant[t]
    <3>1. instant[k] \in Nat /\ instant[q] \in Nat /\ instant[t] \in Nat
      BY <1>0, <2>3, PruneFacts
    <3> QED BY <2>1, <2>2, <3>1
  <2> QED BY <1>0, <1>2, <2>3, <2>4, <2>5 DEF NewerReads, Reading
<1>4. \A p \in Keys : NewerReads(p) => NewerReads(p)'
  BY <1>0, <1>2 DEF NewerReads, Reading
<1>5. RowsKeepOrder
  BY <1>0, <1>1, <1>2, <1>3, <1>4 DEF RowsKeepOrder
<1>6. \A p \in Keys : table'[p] = "gone" <=> table[p] = "gone"
  BY <1>1, <1>2
<1> QED BY <1>0, <1>2, <1>5, <1>6, RowsMoveAside

LEMMA RepairStep ==
  ASSUME PruneHolds, Pruning!Repair
  PROVE  PruneHolds' /\ \A k \in Keys : table'[k] = "gone" => table[k] = "gone"
<1>0. /\ UNCHANGED <<kind, rowLocks, instant, proc, failures, taker>>
      /\ kind = "ticks" => \A k \in Keys : table[k] \in {"absent", "reads", "unreadable", "gone"}
      /\ instant \in [Keys -> Keys] /\ Pruning!TypeOK
  BY DEF PruneHolds, Pruning!TypeOK, Pruning!Repair
<1>1. PICK k \in Keys :
        /\ table[k] = "unreadable" /\ table' = [table EXCEPT ![k] = "reads"]
        /\ kind = "ticks" => \A q \in Keys : table[q] = "unreadable" => instant[q] <= instant[k]
  BY DEF Pruning!Repair, Pruning!Of
<1>2. /\ table' \in [Keys -> {"prunable", "kept", "absent", "reads", "unreadable", "gone"}]
      /\ \A p \in Keys : table'[p] = IF p = k THEN "reads" ELSE table[p]
  BY <1>0, <1>1 DEF Pruning!TypeOK
<1>3. ASSUME kind = "ticks" PROVE Outlived(k)'
  <2>1. \A p \in Keys : instant[p] \in Nat
    BY <1>0, PruneFacts
  <2>2. ~\E q \in Keys : table'[q] = "unreadable" /\ instant[k] < instant[q]
    BY <1>1, <1>2, <1>3, <2>1
  <2> QED BY <1>0, <2>2 DEF Outlived
<1>4. \A p \in Keys : NewerReads(p) => NewerReads(p)'
  BY <1>0, <1>2 DEF NewerReads, Reading
<1>5. ASSUME kind = "ticks" PROVE RowsKeepOrder
  BY <1>0, <1>1, <1>2, <1>3, <1>4, <1>5 DEF RowsKeepOrder
<1>6. \A p \in Keys : table'[p] = "gone" <=> table[p] = "gone"
  BY <1>1, <1>2
<1> QED BY <1>0, <1>2, <1>5, <1>6, RowsMoveAside

LEMMA PruneBegins ==
  ASSUME Pruning!Init
  PROVE  PruneHolds
<1>1. \A p \in Pruning!Procs : proc[p] = Pruning!Idle
  BY DEF Pruning!Init
<1>2. /\ Pruning!Idle \in Pruning!Proc /\ Pruning!Idle.at = "idle" /\ Pruning!Idle.held = {}
      /\ Pruning!Idle.anchor = 0 /\ Pruning!Idle.seen = FALSE /\ Pruning!Idle.reads = {}
      /\ Pruning!Idle.doomed = {} /\ Pruning!Idle.deleted = 0
  BY PruneFacts, SameCounts DEF Pruning!Idle, Pruning!Proc, Pruning!Unknown
<1>3. /\ kind \in {"tasks", "ticks", "purge"} /\ rowLocks \in BOOLEAN /\ failures = 0
      /\ table \in [Keys -> {"prunable", "kept", "absent", "reads", "unreadable"}]
      /\ kind = "ticks" => table \in [Keys -> {"absent", "reads", "unreadable"}]
  BY DEF Pruning!Init
<1>4. instant \in [Keys -> Keys] /\ \A p, q \in Keys : instant[p] = instant[q] => p = q
  BY DEF Pruning!Init, Pruning!Injection, Pruning!IsInjective
<1>5. /\ taker = [k \in Keys |-> Operator]
      /\ proc = [p \in Pruning!Procs |-> Pruning!Idle]
  BY DEF Pruning!Init, Pruning!NoOne
<1>6. Pruning!TypeOK
  <2>1. Operator \in Pruning!Procs
    BY DEF Pruning!Procs
  <2>2. taker \in [Keys -> Pruning!Procs] /\ proc \in [Pruning!Procs -> Pruning!Proc]
    BY <1>2, <1>5, <2>1
  <2>3. failures \in 0 .. MaxFailures
    BY <1>3, PruneFacts
  <2> QED BY <1>3, <1>4, <2>2, <2>3 DEF Pruning!TypeOK
<1>7. BatchLocks(Pruning!Idle) /\ TicksAre(Pruning!Idle)
  BY <1>2 DEF BatchLocks, TicksAre, TickPlaces
<1>8. OneWriter
  BY <1>1, <1>2 DEF OneWriter
<1>9. Pruning!CountsWhatWent
  <2>1. Pruning!Of("gone") = {} /\ \A r \in Runs : Pruning!Counted(r) = {}
    BY <1>3 DEF Pruning!Of, Pruning!Counted
  <2>2. Pruning!Cardinality({}) = 0
    BY SameCounts, FS_EmptySet
  <2>3. \A r \in Runs : proc[r].deleted = 0
    BY <1>1, <1>2 DEF Pruning!Procs
  <2> QED BY <2>1, <2>2, <2>3 DEF Pruning!CountsWhatWent
<1> QED BY <1>1, <1>3, <1>4, <1>6, <1>7, <1>8, <1>9 DEF PruneHolds

LEMMA PruneStutters ==
  ASSUME PruneHolds, UNCHANGED pruning
  PROVE  PruneHolds'
<1>1. table' \in [Keys -> {"prunable", "kept", "absent", "reads", "unreadable", "gone"}]
  BY DEF PruneHolds, Pruning!TypeOK, pruning
<1>2. kind = "ticks" => RowsKeepOrder
  BY DEF PruneHolds, RowsKeepOrder, NewerReads, Reading, pruning
<1> QED BY <1>1, <1>2, RowsMoveAside DEF pruning

\* What a command's step does to the rows.
TakesOnly ==
  \A k \in Keys : Pruning!Goes(k) =>
    IF kind = "ticks" THEN table[k] = "reads" /\ NewerReads(k)'
    ELSE table[k] = IF kind = "tasks" THEN "prunable" ELSE "unreadable"

LEMMA PruneStep ==
  ASSUME PruneHolds, Pruning!Next
  PROVE  PruneHolds' /\ TakesOnly
<1>1. ASSUME table' = table \/ \A k \in Keys : table'[k] = "gone" => table[k] = "gone"
      PROVE  TakesOnly
  BY <1>1 DEF TakesOnly, Pruning!Goes
<1>2. ASSUME NEW r \in Runs, Pruning!CommandStep(r) PROVE PruneHolds' /\ TakesOnly
  <2>1. CASE Pruning!Select(r)
    <3>1. table' = table
      BY <2>1 DEF Pruning!Select
    <3> QED BY <1>1, <2>1, <3>1, SelectStep
  <2>2. CASE Pruning!Find(r)
    <3>1. table' = table
      BY <2>2 DEF Pruning!Find
    <3> QED BY <1>1, <2>2, <3>1, FindStep
  <2>3. CASE Pruning!DeleteBatch(r)
    <3>1. /\ PruneHolds' /\ kind # "ticks"
          /\ \A k \in Keys : table'[k] =
               IF k \in Pruning!StillDoomed(r) THEN "gone" ELSE table[k]
      BY <2>3, DeleteBatchStep
    <3>2. \A k \in Keys : k \in Pruning!StillDoomed(r) =>
            table[k] = IF kind = "tasks" THEN "prunable" ELSE "unreadable"
      BY DEF Pruning!StillDoomed, Pruning!Of
    <3> QED BY <3>1, <3>2 DEF TakesOnly, Pruning!Goes
  <2>4. CASE Pruning!LosesConflict(r)
    <3>1. table' = table
      BY <2>4 DEF Pruning!LosesConflict
    <3> QED BY <1>1, <2>4, <3>1, LosesConflictStep
  <2>5. CASE Pruning!ReadKeys(r)
    <3>1. table' = table
      BY <2>5 DEF Pruning!ReadKeys
    <3> QED BY <1>1, <2>5, <3>1, ReadKeysStep
  <2>6. CASE Pruning!LookUp(r)
    <3>1. table' = table
      BY <2>6 DEF Pruning!LookUp
    <3> QED BY <1>1, <2>6, <3>1, LookUpStep
  <2>7. CASE Pruning!ReadPage(r)
    <3>1. table' = table
      BY <2>7 DEF Pruning!ReadPage
    <3> QED BY <1>1, <2>7, <3>1, ReadPageStep
  <2>8. CASE Pruning!AskOlder(r)
    <3>1. table' = table
      BY <2>8 DEF Pruning!AskOlder
    <3> QED BY <1>1, <2>8, <3>1, AskOlderStep
  <2>9. CASE Pruning!AskNewest(r)
    <3>1. table' = table
      BY <2>9 DEF Pruning!AskNewest
    <3> QED BY <1>1, <2>9, <3>1, AskNewestStep
  <2>10. CASE Pruning!DeleteTicks(r)
    <3>1. /\ PruneHolds' /\ kind = "ticks"
          /\ \A k \in Keys : table'[k] = "gone" /\ table[k] # "gone" =>
               table[k] = "reads" /\ NewerReads(k)'
      BY <2>10, DeleteTicksStep
    <3> QED BY <3>1 DEF TakesOnly, Pruning!Goes
  <2> QED
    BY <1>2, <2>1, <2>2, <2>3, <2>4, <2>5, <2>6, <2>7, <2>8, <2>9, <2>10 DEF Pruning!CommandStep
<1>3. ASSUME NEW p \in Pruning!Procs, Pruning!Lock(p) PROVE PruneHolds' /\ TakesOnly
  <2>1. table' = table
    BY <1>3 DEF Pruning!Lock
  <2> QED BY <1>1, <1>3, <2>1, LockStep
<1>4. CASE Pruning!BeginMove
  <2>1. table' = table
    BY <1>4 DEF Pruning!BeginMove
  <2> QED BY <1>1, <1>4, <2>1, BeginMoveStep
<1>5. CASE Pruning!Move
  BY <1>1, <1>5, MoveStep
<1>6. CASE Pruning!Dispatch
  BY <1>1, <1>6, DispatchStep
<1>7. CASE Pruning!Repair
  BY <1>1, <1>7, RepairStep
<1> QED BY <1>2, <1>3, <1>4, <1>5, <1>6, <1>7 DEF Pruning!Next

\* Two that lock in key order do not wait for each other.
LEMMA LocksInOrder ==
  ASSUME PruneHolds
  PROVE  Pruning!NoCircle
<1> SUFFICES ASSUME NEW p \in Pruning!Procs, NEW q \in Pruning!Procs,
                    Pruning!WaitsFor(p, q), Pruning!WaitsFor(q, p)
             PROVE  FALSE
  BY DEF Pruning!NoCircle
<1>1. /\ BatchLocks(proc[p]) /\ BatchLocks(proc[q])
      /\ proc[p].todo \in SUBSET Keys /\ proc[q].todo \in SUBSET Keys
  BY PruneTypes, ProcTypes
<1>2. CASE rowLocks
  <2>1. PICK k \in proc[p].todo : k \in proc[q].held /\ \A j \in proc[p].todo : k <= j
    BY <1>2 DEF Pruning!WaitsFor
  <2>2. PICK j \in proc[q].todo : j \in proc[p].held /\ \A i \in proc[q].todo : j <= i
    BY <1>2 DEF Pruning!WaitsFor
  <2>3. k < j /\ j < k
    BY <1>1, <2>1, <2>2 DEF BatchLocks
  <2>4. k \in Nat /\ j \in Nat
    BY <1>1, <2>1, <2>2, PruneFacts
  <2> QED BY <2>3, <2>4
<1>3. CASE ~rowLocks
  <2>1. p # q /\ proc[q].held # {} /\ proc[p].held # {}
    BY <1>3 DEF Pruning!WaitsFor
  <2> QED BY <1>3, <2>1 DEF PruneHolds, OneWriter
<1> QED BY <1>2, <1>3

LEMMA PruneTakes ==
  ASSUME PruneHolds, Pruning!Next
  PROVE  Pruning!TakesWhatItMay
<1>1. PruneHolds' /\ TakesOnly /\ instant' = instant
  <2>1. instant' = instant
    BY DEF Pruning!Next, Pruning!CommandStep, Pruning!Select, Pruning!Find, Pruning!DeleteBatch,
           Pruning!LosesConflict, Pruning!ReadKeys, Pruning!LookUp, Pruning!ReadPage,
           Pruning!AskOlder, Pruning!AskNewest, Pruning!DeleteTicks, Pruning!Lock,
           Pruning!BeginMove, Pruning!Move, Pruning!Dispatch, Pruning!Repair
  <2> QED BY <2>1, PruneStep
<1>2. Pruning!OnlyTheDoomedGo /\ Pruning!UnreadableTicksStay
  BY <1>1 DEF TakesOnly, Pruning!OnlyTheDoomedGo, Pruning!UnreadableTicksStay
<1>3. Pruning!NewestReadableStays
  BY <1>1 DEF TakesOnly, NewerReads, Reading, Pruning!NewestReadableStays
<1>4. Pruning!NoCircle'
  <2>1. PruneHolds => Pruning!NoCircle
    BY LocksInOrder
  <2> QED BY <1>1, <2>1, LocksInOrder, PTL
<1>5. Pruning!CountsWhatWent'
  BY <1>1 DEF PruneHolds
<1> QED BY <1>2, <1>3, <1>4, <1>5 DEF Pruning!TakesWhatItMay

\* The inductive invariant of a behaviour of pruning: what reads and was read as the
\* newest, or was not, is outlived or newer than all (_ticks.py).
THEOREM PruneInvariant == PartSpec => [](part = "prune" => PruneHolds)
<1>1. PartInit => (part = "prune" => PruneHolds)
  BY PruneBegins DEF PartInit
<1>2. (part = "prune" => PruneHolds) /\ [PartNext]_<<part, vars, renewal, pruning, walk>>
        => (part = "prune" => PruneHolds)'
  <2> SUFFICES ASSUME part = "prune" => PruneHolds,
                      [PartNext]_<<part, vars, renewal, pruning, walk>>, part' = "prune"
               PROVE  PruneHolds'
    OBVIOUS
  <2>1. part' = part /\ PruneHolds
    BY DEF PartNext
  <2>2. CASE Pruning!Next
    BY <2>1, <2>2, PruneStep
  <2>3. CASE UNCHANGED pruning
    BY <2>1, <2>3, PruneStutters
  <2>4. Pruning!Next \/ UNCHANGED pruning
    BY <2>1 DEF PartNext
  <2> QED BY <2>2, <2>3, <2>4
<1> QED BY <1>1, <1>2, PTL DEF PartSpec

\* For any keys and commands, a tick prune takes none that does not read, nor one without
\* a newer one that reads; other rows go only while they may; each row is counted once, by
\* the command that took it; and no two commands wait for each other.
THEOREM PruningIsSafe == PartSpec => PruningTakesWhatItMay
<1>1. (part = "prune" => PruneHolds) /\ [PartNext]_<<part, vars, renewal, pruning, walk>>
        => [part = "prune" => Pruning!TakesWhatItMay]_pruning
  <2> SUFFICES ASSUME part = "prune", PruneHolds, pruning' # pruning,
                      [PartNext]_<<part, vars, renewal, pruning, walk>>
               PROVE  Pruning!TakesWhatItMay
    OBVIOUS
  <2>1. Pruning!Next
    BY DEF PartNext
  <2> QED BY <2>1, PruneTakes
<1> QED BY <1>1, PruneInvariant, PTL DEF PartSpec, PruningTakesWhatItMay
=============================================================================
