---------------------------- MODULE ClaimRecovery ----------------------------
(***************************************************************************)
(* One django_ox worker process and the claims of its own that committed   *)
(* and still raised.  Its run loop looks for them at the head of a pass    *)
(* and puts them back with the attempt refunded, while other threads of    *)
(* the process claim inline (in autocommit or inside a caller's            *)
(* transaction), pool threads execute, and other workers and the reaper    *)
(* use the same table.  The look holds no lock across a statement.         *)
(***************************************************************************)
EXTENDS Naturals, Sequences, FiniteSets, SequencesExt

CONSTANTS
  Tasks,        \* primary keys of ox_task rows
  Loop,         \* the thread in Worker.run()
  Inline,       \* threads that call run_once() on the same Worker
  Me, Other,    \* this worker's id, and another's
  NoWorker,     \* locked_by IS NULL
  EpochBound    \* bound: no claim of a row at this epoch

Threads == Inline \cup {Loop}

ASSUME RecoveryAssumption ==
  /\ Loop \notin Inline
  /\ "pool" \notin Threads
  /\ Me # Other /\ NoWorker \notin {Me, Other}
  /\ EpochBound \in Nat

VARIABLES
  row,          \* the committed table
  block,        \* per thread, the row its caller's open transaction holds
  claim,        \* per thread, how far a claim of it is
  bodies,       \* claims handed to a thread to execute, until it is done
  handed_off,   \* _handed_off
  in_flight,    \* _in_flight
  unsettled,    \* _unsettled
  pending,      \* _claim_unconfirmed_at: none, within LOCK_TIMEOUT, past it
  look,         \* how far the loop's look is, and what it has read
  orphans       \* claims that committed and raised (no part of the code)

sets == <<handed_off, in_flight, unsettled>>
vars == <<row, block, claim, bodies, sets, pending, look, orphans>>
-----------------------------------------------------------------------------
Row == [status : {"READY", "RUNNING", "LOST", "DONE"},
        owner : {Me, Other, NoWorker},
        epoch : Nat,
        attempts : Nat,
        history : Seq({Me, Other}),
        expired : BOOLEAN]

\* What the code registers a claim under: (pk, lease_epoch).
Held == Tasks \X Nat

NoBlock == [task |-> "none"]
Block == {NoBlock} \cup [task : Tasks, row : Row]

\* in_block: the claim is made in the caller's transaction.  of: the pair it
\* was granted, once it was.
NoClaim == [at |-> "idle", in_block |-> FALSE, of |-> <<>>]
Claim == [at : {"idle", "begun", "landed", "registered", "raised"},
          in_block : BOOLEAN, of : {<<>>} \cup Held]

Body == [of : Held, thread : Inline \cup {"pool"},
         at : {"handed_off", "running", "stuck"}]

\* A row as the look read it; ox_lease_abandoned is the reaper's own test.
Read == [task : Tasks, epoch : Nat, attempts : Nat, history : Seq({Me, Other}),
         abandoned : BOOLEAN]

\* moved: _claim_generation is no longer what the look remembered.
Look == [at : {"due", "snapshot", "reading", "rereading", "dropping",
               "comparing", "releasing", "done"},
         moved : BOOLEAN,
         known : SUBSET Held, examined : SUBSET Held,
         rows : SUBSET Read, over : SUBSET Held]

LookAt(where) == [at |-> where, moved |-> FALSE, known |-> {}, examined |-> {},
                  rows |-> {}, over |-> {}]

TypeOK ==
  /\ row \in [Tasks -> Row]
  /\ block \in [Threads -> Block]
  /\ claim \in [Threads -> Claim]
  /\ bodies \subseteq Body
  /\ handed_off \cup in_flight \cup unsettled \subseteq Held
  /\ pending \in {"none", "fresh", "old"}
  /\ look \in Look
  /\ orphans \subseteq Held

Pks(pairs) == {h[1] : h \in pairs}
-----------------------------------------------------------------------------
(* The rows.                                                               *)

Locked(t) == \E p \in Inline : block[p] # NoBlock /\ block[p].task = t

Free(r, status, epoch) ==
  [r EXCEPT !.status = status, !.owner = NoWorker, !.epoch = epoch,
            !.expired = FALSE]

ClaimedBy(r, w) ==
  [r EXCEPT !.status = "RUNNING", !.owner = w, !.epoch = @ + 1,
            !.attempts = @ + 1, !.history = Append(@, w)]

ClaimedHere(r) == ClaimedBy(r, Me)

\* The row of a claim that never began: as it was, but for the epoch.  Every
\* value comes from the read.
ReleasedClaim(r, seen) ==
  [Free(r, "READY", seen.epoch + 1) EXCEPT !.attempts = seen.attempts - 1,
                                           !.history = Front(seen.history)]
-----------------------------------------------------------------------------
(* A claim, inside the fence from its count-in to its count-out.           *)

\* self._claims_in_flight # 0
ClaimsInFlight == \E p \in Threads : claim[p].at # "idle"

Busy(p) == block[p] # NoBlock \/ \E b \in bodies : b.thread = p

\* Fault: the count-in does not move the generation.
CountedIn_SameGeneration(l) == l

CountedIn(l) == [l EXCEPT !.moved = l.at \notin {"due", "done"}]

\* The loop claims after its look, any number of times a pass; the count-in
\* moves the generation on.
BeginClaim(p, in_block) ==
  /\ claim[p] = NoClaim
  /\ ~Busy(p)
  /\ p = Loop => look.at = "done" /\ ~in_block
  /\ claim' = [claim EXCEPT ![p] = [NoClaim EXCEPT !.at = "begun", !.in_block = in_block]]
  /\ look' = CountedIn(look)
  /\ UNCHANGED <<row, block, bodies, sets, pending, orphans>>

\* The UPDATE that claims takes effect.  In autocommit the reply may be lost,
\* with the row claimed all the same.
Land(p, t) ==
  LET claimed == ClaimedHere(row[t])
      held == <<t, claimed.epoch>>
      landed == [claim EXCEPT ![p].at = "landed", ![p].of = held]
  IN
  /\ claim[p].at = "begun"
  /\ row[t].status = "READY" /\ ~Locked(t) /\ row[t].epoch < EpochBound
  /\ IF claim[p].in_block
     THEN /\ block' = [block EXCEPT ![p] = [task |-> t, row |-> claimed]]
          /\ claim' = landed
          /\ UNCHANGED <<row, orphans>>
     ELSE /\ row' = [row EXCEPT ![t] = claimed]
          /\ \/ claim' = landed /\ UNCHANGED orphans
             \/ /\ claim' = [claim EXCEPT ![p].at = "raised"]
                /\ orphans' = orphans \cup {held}
          /\ UNCHANGED block
  /\ UNCHANGED <<bodies, sets, pending, look>>

\* Nothing to claim, or an error before anything took effect.
ClaimNothing(p) ==
  /\ claim[p].at = "begun"
  /\ \/ claim' = [claim EXCEPT ![p] = NoClaim]
     \/ claim' = [claim EXCEPT ![p].at = "raised"]
  /\ UNCHANGED <<row, block, bodies, sets, pending, look, orphans>>

\* _hand_off, before the count-out.
Register(p) ==
  /\ claim[p].at = "landed"
  /\ handed_off' = handed_off \cup {claim[p].of}
  /\ claim' = [claim EXCEPT ![p].at = "registered"]
  /\ UNCHANGED <<row, block, bodies, in_flight, unsettled, pending, look, orphans>>

\* The claim returns to the loop, which submits it to the pool, or to
\* run_once(), which executes it on its own thread.
Return(p) ==
  /\ claim[p].at = "registered"
  /\ bodies' = bodies \cup {[of |-> claim[p].of, at |-> "handed_off",
                             thread |-> IF p = Loop THEN "pool" ELSE p]}
  /\ claim' = [claim EXCEPT ![p] = NoClaim]
  /\ UNCHANGED <<row, block, sets, pending, look, orphans>>

\* A statement that an override of claim_one makes after the base claim
\* fails: the claim is registered and nobody executes it.
OverrideRaises(p) ==
  /\ claim[p].at = "registered"
  /\ claim' = [claim EXCEPT ![p].at = "raised"]
  /\ UNCHANGED <<row, block, bodies, sets, pending, look, orphans>>

\* The loop notes a claim that raised, then counts it out; its pass is over.
\* run_once() notes nothing.
CountOutRaised(p) ==
  /\ claim[p].at = "raised"
  /\ claim' = [claim EXCEPT ![p] = NoClaim]
  /\ IF p = Loop
     THEN pending' = "fresh" /\ look' = LookAt("due")
     ELSE UNCHANGED <<pending, look>>
  /\ UNCHANGED <<row, block, bodies, sets, orphans>>
-----------------------------------------------------------------------------
(* Executions.                                                             *)

StartBody(b) ==
  /\ b.at = "handed_off"
  /\ bodies' = (bodies \ {b}) \cup {[b EXCEPT !.at = "running"]}
  /\ handed_off' = handed_off \ {b.of}
  /\ in_flight' = in_flight \cup {b.of}
  /\ UNCHANGED <<row, block, claim, unsettled, pending, look, orphans>>

\* The row as the thread of b sees it, and a write of it there.
InOwnBlock(b) == b.thread # "pool" /\ block[b.thread] # NoBlock
RowOf(b) == IF InOwnBlock(b) THEN block[b.thread].row ELSE row[b.of[1]]

WriteRow(b, written) ==
  IF InOwnBlock(b)
  THEN block' = [block EXCEPT ![b.thread].row = written] /\ UNCHANGED row
  ELSE row' = [row EXCEPT ![b.of[1]] = written] /\ UNCHANGED block

HoldsTheLease(b) ==
  RowOf(b).epoch = b.of[2] /\ RowOf(b).status \in {"RUNNING", "LOST"}

\* An outcome that landed: an end, or a retry at the same epoch.
WriteOutcome(b) ==
  /\ HoldsTheLease(b)
  /\ \E status \in {"DONE", "READY"} : WriteRow(b, Free(RowOf(b), status, b.of[2]))

EndRecorded(b) ==
  /\ b.at # "handed_off"
  /\ WriteOutcome(b)
  /\ bodies' = bodies \ {b}
  /\ in_flight' = in_flight \ {b.of}
  /\ unsettled' = unsettled \ {b.of}
  /\ UNCHANGED <<claim, handed_off, pending, look, orphans>>

\* The write missed, raised, or landed with its answer lost.
EndUnrecorded(b) ==
  /\ b.at # "handed_off"
  /\ WriteOutcome(b) \/ UNCHANGED <<row, block>>
  /\ bodies' = bodies \ {b}
  /\ in_flight' = in_flight \ {b.of}
  /\ unsettled' = unsettled \cup {b.of}
  /\ UNCHANGED <<claim, handed_off, pending, look, orphans>>

\* The watchdog gives up on the thread, which is still inside the body.
GraceEnds(b) ==
  /\ b.at = "running"
  /\ bodies' = (bodies \ {b}) \cup {[b EXCEPT !.at = "stuck"]}
  /\ in_flight' = in_flight \ {b.of}
  /\ unsettled' = unsettled \cup {b.of}
  /\ UNCHANGED <<row, block, claim, handed_off, pending, look, orphans>>

\* ...and records the attempt from its own connection, moving the epoch.
RecordStuck(b) ==
  /\ b.at = "stuck"
  /\ row[b.of[1]].epoch = b.of[2] /\ row[b.of[1]].status \in {"RUNNING", "LOST"}
  /\ \E status \in {"DONE", "READY"} :
       row' = [row EXCEPT ![b.of[1]] = Free(@, status, b.of[2] + 1)]
  /\ UNCHANGED <<block, claim, bodies, sets, pending, look, orphans>>

\* The caller's transaction ends, once its run_once() has.
EndBlock(p) ==
  /\ block[p] # NoBlock
  /\ claim[p] = NoClaim
  /\ \A b \in bodies : b.thread # p
  /\ \/ row' = [row EXCEPT ![block[p].task] = block[p].row]
     \/ UNCHANGED row
  /\ block' = [block EXCEPT ![p] = NoBlock]
  /\ UNCHANGED <<claim, bodies, sets, pending, look, orphans>>
-----------------------------------------------------------------------------
(* The look.                                                               *)

\* Under the fence's lock: a claim in flight, nothing pending, or a window
\* that has closed end it here.
LookCheck ==
  /\ look.at = "due"
  /\ IF ClaimsInFlight \/ pending # "fresh"
     THEN /\ look' = LookAt("done")
          /\ pending' = IF ~ClaimsInFlight /\ pending = "old" THEN "none" ELSE pending
     ELSE look' = LookAt("snapshot") /\ UNCHANGED pending
  /\ UNCHANGED <<row, block, claim, bodies, sets, orphans>>

\* Under the sets' own lock, before the read.
LookSnapshot ==
  /\ look.at = "snapshot"
  /\ look' = [look EXCEPT !.at = "reading",
                          !.known = in_flight \cup handed_off \cup unsettled,
                          !.examined = handed_off \cup unsettled]
  /\ UNCHANGED <<row, block, claim, bodies, sets, pending, orphans>>

ReadOf(t) == [task |-> t, epoch |-> row[t].epoch, attempts |-> row[t].attempts,
              history |-> row[t].history, abandoned |-> row[t].expired]

Mine(t) == row[t].status = "RUNNING" /\ row[t].owner = Me

\* One read of the committed rows RUNNING under this worker's id.  An entry
\* seen at a later epoch is over.
LookRead ==
  /\ look.at = "reading"
  /\ LET rows == {ReadOf(t) : t \in {u \in Tasks : Mine(u)}}
     IN look' = [look EXCEPT !.at = "rereading", !.rows = rows,
                   !.over = {h \in look.examined :
                               \E r \in rows : r.task = h[1] /\ r.epoch > h[2]}]
  /\ UNCHANGED <<row, block, claim, bodies, sets, pending, orphans>>

\* Fault: a row that the read did not return is taken for one that is over.
ClaimIsOver_IfUnseen(h) == TRUE

\* A later epoch, or the same one in another state or under another owner.
ClaimIsOver(h) ==
  \/ row[h[1]].epoch > h[2]
  \/ row[h[1]].epoch = h[2] /\ ~Mine(h[1])

\* A second read, of the rows of entries the first did not return.
LookReadUnseen ==
  /\ look.at = "rereading"
  /\ LET unseen == {h \in look.examined : \A r \in look.rows : r.task # h[1]}
     IN look' = [look EXCEPT !.at = "dropping",
                   !.over = @ \cup {h \in unseen : ClaimIsOver(h)}]
  /\ UNCHANGED <<row, block, claim, bodies, sets, pending, orphans>>

LookDrop ==
  /\ look.at = "dropping"
  /\ handed_off' = handed_off \ look.over
  /\ unsettled' = unsettled \ look.over
  /\ look' = [look EXCEPT !.at = "comparing"]
  /\ UNCHANGED <<row, block, claim, bodies, in_flight, pending, orphans>>

\* Under the fence's lock: a claim that began since the check may be among the
\* rows read, so nothing is released and the look stays pending.
LookCompare ==
  /\ look.at = "comparing"
  /\ look' = IF look.moved THEN LookAt("done") ELSE [look EXCEPT !.at = "releasing"]
  /\ UNCHANGED <<row, block, claim, bodies, sets, pending, orphans>>

\* The release's WHERE clause.
StillTheClaim(r) == Mine(r.task) /\ row[r.task].epoch = r.epoch

ToRelease(r) ==
  /\ r.task \notin Pks(look.known)
  /\ ~r.abandoned
  /\ r.attempts >= 1 /\ Len(r.history) = r.attempts /\ Last(r.history) = Me

\* One row; its reply may be lost, which fails the pass.
LookRelease(r) ==
  /\ look.at = "releasing"
  /\ row' = IF ToRelease(r) /\ StillTheClaim(r)
            THEN [row EXCEPT ![r.task] = ReleasedClaim(@, r)] ELSE row
  /\ \/ look' = [look EXCEPT !.rows = @ \ {r}]
     \/ ToRelease(r) /\ look' = LookAt("due")
  /\ UNCHANGED <<block, claim, bodies, sets, pending, orphans>>

Settles(l) == ~l.moved

LookSettle ==
  /\ look.at = "releasing" /\ look.rows = {}
  /\ pending' = IF Settles(look) THEN "none" ELSE pending
  /\ look' = LookAt("done")
  /\ UNCHANGED <<row, block, claim, bodies, sets, orphans>>

\* A read that fails ends the pass with the look pending and nothing claimed.
LookFails ==
  /\ look.at \in {"reading", "rereading"}
  /\ look' = LookAt("due")
  /\ UNCHANGED <<row, block, claim, bodies, sets, pending, orphans>>

NextPass ==
  /\ look.at = "done" /\ claim[Loop] = NoClaim
  /\ look' = LookAt("due")
  /\ UNCHANGED <<row, block, claim, bodies, sets, pending, orphans>>

\* LOCK_TIMEOUT passes since the latest claim that raised.
WindowCloses ==
  /\ pending = "fresh"
  /\ pending' = "old"
  /\ UNCHANGED <<row, block, claim, bodies, sets, look, orphans>>
-----------------------------------------------------------------------------
(* Everybody else: other workers, the reaper and time.                     *)

OthersMove(t, r) ==
  /\ row' = [row EXCEPT ![t] = r]
  /\ UNCHANGED <<block, claim, bodies, sets, pending, look, orphans>>

OtherClaims(t) ==
  /\ row[t].status = "READY" /\ ~Locked(t) /\ row[t].epoch < EpochBound
  /\ OthersMove(t, ClaimedBy(row[t], Other))

OtherEnds(t) ==
  /\ row[t].status = "RUNNING" /\ row[t].owner = Other
  /\ \E status \in {"DONE", "READY"} :
       OthersMove(t, Free(row[t], status, row[t].epoch))

LeaseExpires(t) ==
  /\ row[t].status = "RUNNING" /\ ~row[t].expired
  /\ OthersMove(t, [row[t] EXCEPT !.expired = TRUE])

Reap(t) ==
  /\ row[t].status = "RUNNING" /\ row[t].expired
  /\ \/ OthersMove(t, Free(row[t], "READY", row[t].epoch + 1))
     \/ OthersMove(t, Free(row[t], "LOST", row[t].epoch))
-----------------------------------------------------------------------------
Init ==
  /\ row = [t \in Tasks |-> [status |-> "READY", owner |-> NoWorker, epoch |-> 0,
                             attempts |-> 0, history |-> <<>>, expired |-> FALSE]]
  /\ block = [p \in Threads |-> NoBlock]
  /\ claim = [p \in Threads |-> NoClaim]
  /\ bodies = {}
  /\ handed_off = {} /\ in_flight = {} /\ unsettled = {}
  /\ pending = "none"
  /\ look = LookAt("due")
  /\ orphans = {}

ClaimStep(p) ==
  \/ \E in_block \in BOOLEAN : BeginClaim(p, in_block)
  \/ \E t \in Tasks : Land(p, t)
  \/ ClaimNothing(p) \/ Register(p) \/ Return(p) \/ OverrideRaises(p)
  \/ CountOutRaised(p)

BodyStep(b) ==
  StartBody(b) \/ EndRecorded(b) \/ EndUnrecorded(b) \/ GraceEnds(b) \/ RecordStuck(b)

LookStep ==
  \/ LookCheck \/ LookSnapshot \/ LookRead \/ LookReadUnseen \/ LookDrop
  \/ LookCompare \/ LookSettle \/ LookFails \/ NextPass \/ WindowCloses
  \/ \E r \in look.rows : LookRelease(r)

Next ==
  \/ \E p \in Threads : ClaimStep(p) \/ EndBlock(p)
  \/ \E b \in bodies : BodyStep(b)
  \/ LookStep
  \/ \E t \in Tasks : OtherClaims(t) \/ OtherEnds(t) \/ LeaseExpires(t) \/ Reap(t)

Spec == Init /\ [][Next]_vars
-----------------------------------------------------------------------------
(* Properties.                                                             *)

\* Every claim that returned is in one of the three sets until it is over,
\* however late its caller commits it: a row RUNNING under this worker is
\* registered, on its way back, or an orphan (worker.py:3849).
ReturnedClaimsAreKnown ==
  \A t \in Tasks : Mine(t) =>
    \/ <<t, row[t].epoch>> \in handed_off \cup in_flight \cup unsettled \cup orphans
    \/ \E p \in Threads : claim[p].at = "landed" /\ claim[p].of = <<t, row[t].epoch>>

\* An attempt is refunded only for a claim that raised, never for one whose
\* body ran or may run, and the row is then as before the claim but for the
\* epoch, which moves on (worker.py:2985).
OnlyOrphansAreRefunded ==
  [][\A t \in Tasks : row'[t].attempts < row[t].attempts =>
       /\ <<t, row[t].epoch>> \in orphans
       /\ row'[t].status = "READY" /\ row'[t].epoch = row[t].epoch + 1
       /\ row[t].history = Append(row'[t].history, Me)
       /\ row'[t].attempts = Len(row'[t].history)]_vars

\* A look that is settled within its window leaves no claim behind that it
\* could have released: neither one that raised before it, nor one of another
\* thread that raised while it read (worker.py:3166).
SettledLooksLeaveNoOrphan ==
  [][pending = "fresh" /\ pending' = "none" =>
       \A t \in Tasks :
         Mine(t) /\ ~row[t].expired /\ <<t, row[t].epoch>> \in orphans
           => t \in Pks(look.known)]_vars

\* Both: a look gives back the claims that raised, those alone and all of them.
LooksReleaseTheOrphans == OnlyOrphansAreRefunded /\ SettledLooksLeaveNoOrphan
=============================================================================
